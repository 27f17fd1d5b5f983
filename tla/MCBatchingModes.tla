--------------------------- MODULE MCBatchingModes ---------------------------
(***************************************************************************)
(* The split under each batching policy in one model: a pipeline runs in   *)
(* one mode with one batch_size for its whole life, chosen in Init.        *)
(*   Rows(2):        5 checkpoints over up to 3 epochs, 0..2 rows each,    *)
(*                   commits of 1 or 2 checkpoints;                        *)
(*   Checkpoints(3): 7 checkpoints over up to 3 epochs, one row each,      *)
(*                   commits of 1 to 3 checkpoints;                        *)
(*   migration:      6 checkpoints over up to 3 epochs, every contiguous   *)
(*                   layout of existing files that respects epochs and     *)
(*                   reaches the end, any requested start snapped to a     *)
(*                   file, commits of 1 or 2 checkpoints;                  *)
(*   Rows(0), Checkpoints(0): PipelineConfig::validate accepts a zero      *)
(*                   threshold; 4 and 5 checkpoints over up to 3 epochs.   *)
(***************************************************************************)
EXTENDS Naturals

VARIABLES epochOf, rowsOf, index, next, pending, complete, panicked, start,
          policy

Rows == INSTANCE Batching WITH
            MaxCheckpoint <- 4, MaxCommit <- 2, Mode <- "rows", BatchSizeN <- 2,
            RowChoices <- {0, 1, 2}, MaxEpochs <- 3, AllowGaps <- FALSE
Cps == INSTANCE Batching WITH
            MaxCheckpoint <- 6, MaxCommit <- 3, Mode <- "checkpoints", BatchSizeN <- 3,
            RowChoices <- {1}, MaxEpochs <- 3, AllowGaps <- FALSE
Mig == INSTANCE Batching WITH
            MaxCheckpoint <- 5, MaxCommit <- 2, Mode <- "migration", BatchSizeN <- 0,
            RowChoices <- {1}, MaxEpochs <- 3, AllowGaps <- FALSE
Rows0 == INSTANCE Batching WITH
            MaxCheckpoint <- 3, MaxCommit <- 2, Mode <- "rows", BatchSizeN <- 0,
            RowChoices <- {0, 1}, MaxEpochs <- 3, AllowGaps <- FALSE
Cps0 == INSTANCE Batching WITH
            MaxCheckpoint <- 4, MaxCommit <- 2, Mode <- "checkpoints", BatchSizeN <- 0,
            RowChoices <- {1}, MaxEpochs <- 3, AllowGaps <- FALSE

Init ==
    \/ policy = "rows" /\ Rows!Init
    \/ policy = "checkpoints" /\ Cps!Init
    \/ policy = "migration" /\ Mig!Init
    \/ policy = "rows0" /\ Rows0!Init
    \/ policy = "checkpoints0" /\ Cps0!Init

Next ==
    /\ \/ policy = "rows" /\ Rows!Next
       \/ policy = "checkpoints" /\ Cps!Next
       \/ policy = "migration" /\ Mig!Next
       \/ policy = "rows0" /\ Rows0!Next
       \/ policy = "checkpoints0" /\ Cps0!Next
    /\ UNCHANGED policy

Spec == Init /\ [][Next]_<<epochOf, rowsOf, index, next, pending, complete, panicked, start, policy>>

\* The properties of Batching (commented there), for the pipeline's policy.
TypeOK ==
    CASE policy = "rows" -> Rows!TypeOK
      [] policy = "checkpoints" -> Cps!TypeOK
      [] policy = "migration" -> Mig!TypeOK
      [] policy = "rows0" -> Rows0!TypeOK
      [] policy = "checkpoints0" -> Cps0!TypeOK

\* P3: no checkpoint lost, duplicated or reordered by a cut.
OrderPreserved ==
    CASE policy = "rows" -> Rows!OrderPreserved
      [] policy = "checkpoints" -> Cps!OrderPreserved
      [] policy = "migration" -> Mig!OrderPreserved
      [] policy = "rows0" -> Rows0!OrderPreserved
      [] policy = "checkpoints0" -> Cps0!OrderPreserved

\* P2: files are non-empty and of one epoch.
FilesWellFormed ==
    CASE policy = "rows" -> Rows!FilesWellFormed
      [] policy = "checkpoints" -> Cps!FilesWellFormed
      [] policy = "migration" -> Mig!FilesWellFormed
      [] policy = "rows0" -> Rows0!FilesWellFormed
      [] policy = "checkpoints0" -> Cps0!FilesWellFormed

(***************************************************************************)
(* P1: live files are cut exactly at the size threshold or an epoch        *)
(* boundary.  Rows(0) cuts before every checkpoint but the first of a      *)
(* batch, so every file is one checkpoint.  With Checkpoints(0) the == n   *)
(* test of LiveStore::split never holds: a file is cut only where the      *)
(* epoch changes, and the pending batch grows with the whole epoch.        *)
(***************************************************************************)
SizeThresholdRespected ==
    CASE policy = "rows" -> Rows!SizeThresholdRespected
      [] policy = "checkpoints" -> Cps!SizeThresholdRespected
      [] policy = "migration" -> TRUE
      [] policy = "rows0" -> Rows0!SizeThresholdRespected
      [] policy = "checkpoints0" ->
            \A b \in Cps0!ToSet(complete) : Cps0!EpochCutAfter(b)

\* Migration files reproduce the existing files and the assert! never fires.
FollowsIndex == policy = "migration" => Mig!FollowsIndex

\* A fresh migration watermark names the epoch of the checkpoint before the start.
InitialWatermarkEpoch == policy = "migration" => Mig!InitialWatermarkEpoch
=============================================================================
