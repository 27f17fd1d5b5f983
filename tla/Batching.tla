------------------------------ MODULE Batching ------------------------------
(***************************************************************************)
(* How one pipeline of the analytics indexer turns the ordered stream of   *)
(* checkpoints delivered by the ingestion framework into file-sized        *)
(* batches (crates/sui-analytics-indexer/src/store).                       *)
(*                                                                         *)
(* A checkpoint is its sequence number; its epoch and its row count are    *)
(* facts of the chain (epochOf, rowsOf), fixed in Init.  A Batch is the     *)
(* sequence of checkpoints it holds: its row_count is the sum of their      *)
(* rows and its epoch that of its last checkpoint, as in store/mod.rs.      *)
(*                                                                         *)
(* CommitBatch is AnalyticsConnection::commit_batch seen from the batching  *)
(* side: the framework hands over the next k checkpoints, the active mode  *)
(* splits them against the pending batch (LiveStore or MigrationStore      *)
(* split_framework_batch_into_files) and the complete batches are queued   *)
(* for upload, in order, in `complete`.                                    *)
(***************************************************************************)
EXTENDS Naturals, Sequences, SequencesExt, FiniteSets

CONSTANTS
    MaxCheckpoint,  \* checkpoints of the chain are 0..MaxCheckpoint
    MaxCommit,      \* most checkpoints the framework hands to one commit
    Mode,           \* "rows" | "checkpoints" (live batch_size) | "migration"
    BatchSizeN,     \* n of BatchSizeConfig::Rows(n) / ::Checkpoints(n)
    RowChoices,     \* row counts a checkpoint may produce
    MaxEpochs,      \* the chain has epochs 0..MaxEpochs-1 at most
    AllowGaps       \* migration: may existing files leave gaps between them?

ASSUME Mode \in {"rows", "checkpoints", "migration"}
ASSUME BatchSizeN \in Nat /\ MaxCommit \in Nat \ {0}

Checkpoint == 0..MaxCheckpoint

VARIABLES
    epochOf,    \* checkpoint -> epoch (chain fact)
    rowsOf,     \* checkpoint -> number of rows the handler produced
    index,      \* migration: FileRangeIndex, start -> [end, epoch]
    next,       \* next checkpoint the framework will deliver
    pending,    \* the pipeline's pending Batch (pending_by_pipeline)
    complete,   \* complete batches handed to the uploader, in order
    panicked    \* an assert! in the split fired

vars == <<epochOf, rowsOf, index, next, pending, complete, panicked>>

(***************************************************************************)
(* Batch (store/mod.rs).                                                   *)
(***************************************************************************)
RowCount(b) == FoldLeft(LAMBDA acc, c : acc + rowsOf[c], 0, b)
BatchEpoch(b) == epochOf[Last(b)]

\* Mutants: a flush that keeps the batch it queued; an append one past c.
FlushKeep(s) == [s EXCEPT !.complete = Append(@, s.pending)]
AddNext(s, c) == [s EXCEPT !.pending = Append(@, c + 1)]

\* A split in progress: the pending batch and the batches already cut.
Flush(s) == [s EXCEPT !.pending = <<>>, !.complete = Append(@, s.pending)]
Add(s, c) == [s EXCEPT !.pending = Append(@, c)]

(***************************************************************************)
(* LiveStore::split_framework_batch_into_files, one loop iteration.        *)
(***************************************************************************)
\* Mutant: no cut at an epoch boundary.
EpochCutNever(s, c) == s

EpochCut(s, c) ==
    IF s.pending # <<>> /\ BatchEpoch(s.pending) # epochOf[c] THEN Flush(s) ELSE s

\* Mutant: the thresholds compared one off (> for >=, > for ==).
SizeCutLate(s, c) ==
    IF Mode = "rows"
    THEN Add(IF RowCount(s.pending) > BatchSizeN /\ s.pending # <<>>
             THEN Flush(s) ELSE s, c)
    ELSE LET t == Add(s, c)
         IN IF Len(t.pending) > BatchSizeN THEN Flush(t) ELSE t

SizeCut(s, c) ==
    IF Mode = "rows"
    THEN Add(IF RowCount(s.pending) >= BatchSizeN /\ s.pending # <<>>
             THEN Flush(s) ELSE s, c)
    ELSE LET t == Add(s, c)
         IN IF Len(t.pending) = BatchSizeN THEN Flush(t) ELSE t

LiveStep(s, c) == SizeCut(EpochCut(s, c), c)

(***************************************************************************)
(* FileRangeIndex::find_containing: the range with the largest start <= c, *)
(* if it contains c; the empty set stands for None.                        *)
(***************************************************************************)
FindContaining(idx, c) ==
    LET below == {st \in DOMAIN idx : st <= c}
    IN {st \in below : (\A o \in below : o <= st) /\ c < idx[st].end}

(***************************************************************************)
(* MigrationStore::split_framework_batch_into_files: the cut before each   *)
(* checkpoint, with its assert!, and the flush after the loop.             *)
(***************************************************************************)
\* Mutant: the cut one checkpoint after the file's end.
MigrationStepLate(s, c) ==
    LET cont == IF s.pending = <<>> THEN {} ELSE FindContaining(index, Head(s.pending))
        t == IF \E st \in cont : c = index[st].end + 1 THEN Flush(s) ELSE s
    IN Add([t EXCEPT !.panicked = @ \/ \E st \in cont : c > index[st].end + 1], c)

MigrationStep(s, c) ==
    LET cont == IF s.pending = <<>> THEN {} ELSE FindContaining(index, Head(s.pending))
        t == IF \E st \in cont : c = index[st].end THEN Flush(s) ELSE s
    IN Add([t EXCEPT !.panicked = @ \/ \E st \in cont : c > index[st].end], c)

MigrationFinalFlush(s) ==
    IF /\ s.pending # <<>>
       /\ \E st \in FindContaining(index, Head(s.pending)) :
              Last(s.pending) + 1 = index[st].end
    THEN Flush(s) ELSE s

Split(rows, pend) ==
    LET base == [pending |-> pend, complete |-> <<>>, panicked |-> FALSE]
    IN IF Mode = "migration"
       THEN MigrationFinalFlush(FoldLeft(MigrationStep, base, rows))
       ELSE FoldLeft(LiveStep, base, rows)

(***************************************************************************)
(* FileRangeIndex::find_next_boundary and ::snap_to_boundary, used by      *)
(* MigrationStore::find_starting_checkpoint to pick where migration of a   *)
(* pipeline starts; the empty set stands for None.                         *)
(***************************************************************************)
FindNextBoundary(idx, c) ==
    {st \in DOMAIN idx : st >= c /\ \A o \in DOMAIN idx : o >= c => st <= o}

SnapToBoundary(idx, c) ==
    IF FindContaining(idx, c) # {} THEN FindContaining(idx, c)
    ELSE FindNextBoundary(idx, c)

(***************************************************************************)
(* lookup_epoch_for_checkpoint (migration.rs): epochs.json lists the last  *)
(* checkpoint of every epoch, epochs[i] for epoch i; a linear search       *)
(* returns the first epoch whose last checkpoint is >= the checkpoint, and *)
(* bail!s (here -1) past the last one.  init_watermark uses it for the     *)
(* epoch of the watermark it creates at adjusted start - 1.                *)
(***************************************************************************)
RECURSIVE LookupEpochFromStrict(_, _, _)
\* Mutant: the search compares with < instead of <=.
LookupEpochFromStrict(epochs, cp, i) ==
    IF i > Len(epochs) THEN -1
    ELSE IF cp < epochs[i] THEN i - 1 ELSE LookupEpochFromStrict(epochs, cp, i + 1)

RECURSIVE LookupEpochFrom(_, _, _)
LookupEpochFrom(epochs, cp, i) ==
    IF i > Len(epochs) THEN -1
    ELSE IF cp <= epochs[i] THEN i - 1 ELSE LookupEpochFrom(epochs, cp, i + 1)

LookupEpochForCheckpoint(epochs, cp) == LookupEpochFrom(epochs, cp, 1)

-----------------------------------------------------------------------------
(***************************************************************************)
(* The states the chain and the object store can be in.  Epochs start at 0 *)
(* and grow by one at a boundary.  The existing files a migration rewrites *)
(* were written by live mode: each lies inside one epoch and is named      *)
(* [start, end); they are the ranges between consecutive cut points, and   *)
(* with AllowGaps some of them may be missing.  The stream ends where the *)
(* last file ends (last_checkpoint of the migration run).                  *)
(***************************************************************************)
EpochAssignments ==
    {f \in [Checkpoint -> 0..MaxEpochs-1] :
        f[0] = 0 /\ \A c \in Checkpoint \ {0} : f[c] - f[c-1] \in {0, 1}}

RangesFrom(cuts) ==
    LET pts == cuts \cup {0, MaxCheckpoint + 1}
        nxt(p) == CHOOSE q \in pts : q > p /\ \A r \in pts : r > p => q <= r
    IN {<<p, nxt(p)>> : p \in pts \ {MaxCheckpoint + 1}}

IndexOf(ranges, ep) ==
    [st \in {r[1] : r \in ranges} |->
        [end |-> (CHOOSE r \in ranges : r[1] = st)[2], epoch |-> ep[st]]]

Contiguous(ranges) ==
    \A r, q \in ranges : r[1] < q[1] =>
        \E m \in ranges : m[1] > r[1] /\ m[1] <= q[1] /\ m[1] = r[2]

EpochRespectingCuts(ep) ==
    {cs \in SUBSET (Checkpoint \ {0}) :
        \A c \in Checkpoint \ {0} : ep[c] # ep[c-1] => c \in cs}

Indexes(ep) ==
    IF Mode # "migration" THEN {<<>>}
    ELSE {IndexOf(rs, ep) :
            rs \in {rs \in UNION {SUBSET RangesFrom(cs) : cs \in EpochRespectingCuts(ep)} :
                       /\ \E r \in rs : r[2] = MaxCheckpoint + 1
                       /\ AllowGaps \/ Contiguous(rs)}}

\* Where the framework starts this pipeline: in migration mode the
\* requested first checkpoint snapped onto a file boundary.
Starts(idx) ==
    IF Mode # "migration" THEN {0}
    ELSE UNION {SnapToBoundary(idx, c) : c \in Checkpoint}

\* epochs.json as the chain defines it: the last checkpoint of each epoch.
EpochsJson(ep) ==
    [i \in 1..ep[MaxCheckpoint] + 1 |-> Max({c \in Checkpoint : ep[c] = i - 1})]

VARIABLE start   \* first checkpoint of this run of the pipeline

allVars == <<vars, start>>

Init ==
    /\ epochOf \in EpochAssignments
    /\ rowsOf \in [Checkpoint -> RowChoices]
    /\ index \in Indexes(epochOf)
    /\ start \in Starts(index)
    /\ next = start
    /\ pending = <<>>
    /\ complete = <<>>
    /\ panicked = FALSE

(***************************************************************************)
(* AnalyticsConnection::commit_batch: split the next k checkpoints against *)
(* the pending batch, queue the complete batches, keep the remainder.      *)
(***************************************************************************)
CommitBatch ==
    /\ ~panicked
    /\ \E k \in 1..MaxCommit :
        /\ next + k - 1 <= MaxCheckpoint
        /\ LET s == Split([i \in 1..k |-> next + i - 1], pending)
           IN /\ pending' = s.pending
              /\ complete' = complete \o s.complete
              /\ panicked' = s.panicked
        /\ next' = next + k
    /\ UNCHANGED <<epochOf, rowsOf, index, start>>

Next == CommitBatch

Spec == Init /\ [][Next]_allVars

-----------------------------------------------------------------------------
TypeOK ==
    /\ epochOf \in [Checkpoint -> Nat] /\ rowsOf \in [Checkpoint -> RowChoices]
    /\ start \in Checkpoint /\ next \in start..MaxCheckpoint + 1
    /\ pending \in Seq(Checkpoint) /\ complete \in Seq(Seq(Checkpoint))
    /\ panicked \in BOOLEAN

Delivered == [i \in 1..(next - start) |-> start + i - 1]

(***************************************************************************)
(* P3: the complete batches, then the pending one, are exactly the         *)
(* checkpoints delivered to commit_batch, each once and in order; none of  *)
(* the batches is lost, duplicated or reordered by a cut.                  *)
(***************************************************************************)
OrderPreserved == FlattenSeq(complete) \o pending = Delivered

(***************************************************************************)
(* P2 and the unwraps of commit_batch: every complete batch is non-empty   *)
(* (batch.epoch().unwrap(), checkpoint_range().unwrap()) and all of its    *)
(* checkpoints, like those of the pending batch, are of one epoch, so the  *)
(* file lands in the right epoch_{epoch} directory.                        *)
(***************************************************************************)
FilesWellFormed ==
    /\ \A i \in DOMAIN complete : complete[i] # <<>>
    /\ \A b \in ToSet(complete) \cup {pending} :
          \A c, d \in ToSet(b) : epochOf[c] = epochOf[d]

\* The batch after b starts a new epoch, which forced the cut.
EpochCutAfter(b) == Last(b) < MaxCheckpoint /\ epochOf[Last(b) + 1] # BatchEpoch(b)

(***************************************************************************)
(* P1 and the size rules of LiveStore: with Rows(n) a batch is cut before  *)
(* the checkpoint that finds it at n rows or more, so without its last     *)
(* checkpoint it had fewer than n rows, and it is cut short of n only at   *)
(* an epoch boundary; with Checkpoints(n) it holds at most n checkpoints   *)
(* and fewer only at an epoch boundary.                                    *)
(***************************************************************************)
SizeThresholdRespected ==
    CASE Mode = "rows" ->
           /\ \A b \in ToSet(complete) \cup {pending} :
                 Len(b) > 1 => RowCount(Front(b)) < BatchSizeN
           /\ \A b \in ToSet(complete) : RowCount(b) >= BatchSizeN \/ EpochCutAfter(b)
      [] Mode = "checkpoints" ->
           /\ Len(pending) < BatchSizeN
           /\ \A b \in ToSet(complete) : Len(b) = BatchSizeN \/ EpochCutAfter(b)
      [] OTHER -> TRUE

(***************************************************************************)
(* Migration: every complete batch is exactly one existing file (the       *)
(* assert_eq! of MigrationStore::write_to_object_store, and the epoch its  *)
(* path names), the pending batch lies inside the file of its first        *)
(* checkpoint, and the split never trips its own assert!.                  *)
(***************************************************************************)
FollowsIndex ==
    /\ \A b \in ToSet(complete) :
          /\ Head(b) \in DOMAIN index
          /\ index[Head(b)].end = Last(b) + 1
          /\ index[Head(b)].epoch = BatchEpoch(b)
    /\ pending # <<>> =>
          /\ Head(pending) \in DOMAIN index
          /\ Last(pending) < index[Head(pending)].end
    /\ ~panicked

(***************************************************************************)
(* MigrationStore::init_watermark: the watermark it creates when none      *)
(* exists names the epoch of adjusted start - 1 as epochs.json gives it,   *)
(* and that is the epoch the chain puts the checkpoint in; at an epoch's  *)
(* last checkpoint a slip would name the next epoch.                       *)
(***************************************************************************)
InitialWatermarkEpoch ==
    Mode = "migration" /\ start > 0 =>
        LookupEpochForCheckpoint(EpochsJson(epochOf), start - 1) = epochOf[start - 1]
=============================================================================
