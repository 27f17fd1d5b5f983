--------------------------- MODULE UploadPipeline ---------------------------
(***************************************************************************)
(* One pipeline of the analytics store end to end (store/mod.rs,           *)
(* store/uploader.rs, store/live.rs): the framework's commit_batch splits  *)
(* checkpoints into batches and sends them over a bounded channel to the   *)
(* pipeline's UploadWorker, which serializes them in parallel, uploads     *)
(* them strictly in sequence order and tracks the watermark; the process   *)
(* may crash and restart from the watermark it recovers from the object    *)
(* store, or shut down.                                                    *)
(***************************************************************************)
EXTENDS Naturals, Sequences, SequencesExt, FiniteSets

CONSTANTS
    MaxCheckpoint, MaxCommit, BatchPolicy, BatchSizeN, RowChoices, MaxEpochs,
    SerializeMayFail, \* may serialize_rows return an error (or panic)?
    Capacity,       \* upload_channel_capacity
    MaxCrashes,     \* bound on process crashes
    None            \* model value: Option::None

VARIABLES
    epochOf, rowsOf,    \* chain facts, as in Batching
    next,               \* next checkpoint the framework delivers
    pending,            \* pending_by_pipeline[pipeline]
    outbox,             \* complete batches of the commit in progress, not yet sent
    remainder,          \* pending batch that commit will set once sent, or None
    worker,             \* UploadWorker task: "none" until spawned, then its phase
    registered,         \* its JoinHandle is in worker_handles
    chan,               \* the mpsc channel, PendingFileUploads in order
    nextSeq,            \* UploadWorker.next_seq
    serializing,        \* serialization tasks in flight: [seq, file]
    ready,              \* pending_upload: serialized files by seq
    nextUploadSeq,      \* UploadWorker.next_upload_seq
    latest,             \* latest_watermark: <<epoch, checkpoint_hi>> or None
    limited,            \* last_watermark_update is Some
    store,              \* object store data files: [epoch, lo, hi] -> version
    shutdown,           \* AnalyticsStore::shutdown: "no" | "waiting" | "done"
    crashes

chainVars == <<epochOf, rowsOf>>
commitVars == <<next, pending, outbox, remainder>>
workerVars == <<worker, registered, chan, nextSeq, serializing, ready,
                nextUploadSeq, latest, limited>>
vars == <<chainVars, commitVars, workerVars, store, shutdown, crashes>>

B == INSTANCE Batching WITH Mode <- BatchPolicy, index <- <<>>, AllowGaps <- FALSE,
                            complete <- <<>>, panicked <- FALSE, start <- 0

\* A file: the PendingFileUpload of a complete batch, named by its path.
FileOf(b) == [epoch |-> B!BatchEpoch(b), lo |-> Head(b), hi |-> Last(b) + 1]

\* (LiveWatermarkExclusive: faulty variant returning max(end) itself.)
LiveWatermarkExclusive(st) ==
    IF DOMAIN st = {} THEN None
    ELSE LET e == Max({p.epoch : p \in DOMAIN st})
         IN Max({p.hi : p \in {q \in DOMAIN st : q.epoch = e}})

(***************************************************************************)
(* LiveStore::committer_watermark: the highest end among the files of the  *)
(* latest epoch directory, minus one; None when there is no file.          *)
(***************************************************************************)
LiveWatermark(st) ==
    IF DOMAIN st = {} THEN None
    ELSE LET e == Max({p.epoch : p \in DOMAIN st})
         IN Max({p.hi : p \in {q \in DOMAIN st : q.epoch = e}}) - 1

\* (NextAfterSkip: faulty variant resuming one checkpoint too far.)
NextAfterSkip(wm) == IF wm = None THEN 0 ELSE wm + 2
NextAfter(wm) == IF wm = None THEN 0 ELSE wm + 1

Init ==
    /\ epochOf \in B!EpochAssignments
    /\ rowsOf \in [B!Checkpoint -> RowChoices]
    /\ next = 0 /\ pending = <<>> /\ outbox = <<>> /\ remainder = None
    /\ worker = "none" /\ registered = FALSE /\ chan = <<>>
    /\ nextSeq = 0 /\ serializing = {} /\ ready = {} /\ nextUploadSeq = 0
    /\ latest = None /\ limited = FALSE
    /\ store = <<>>
    /\ shutdown = "no" /\ crashes = 0

-----------------------------------------------------------------------------
(***************************************************************************)
(* commit_batch: split the next k checkpoints against the pending batch    *)
(* and get (lazily spawn) the uploader; the sends follow in SendFile.      *)
(* Once the worker has stopped on a serialization failure the next send    *)
(* panics ("Upload channel closed"): the pipeline makes no more progress.  *)
(* get_or_create_uploader spawns the worker and, in a separate task, the   *)
(* push of its JoinHandle into worker_handles (RegisterHandle).            *)
(***************************************************************************)
CommitBatch ==
    /\ remainder = None /\ shutdown = "no"
    /\ worker # "failed"
    /\ \E k \in 1..MaxCommit :
        /\ next + k - 1 <= MaxCheckpoint
        /\ LET s == B!Split([i \in 1..k |-> next + i - 1], pending)
           IN /\ outbox' = s.complete
              /\ remainder' = s.pending
        /\ next' = next + k
    /\ worker' = IF worker = "none" THEN "select" ELSE worker
    /\ UNCHANGED <<chainVars, pending, registered, chan, nextSeq, serializing, ready,
                   nextUploadSeq, latest, limited, store, shutdown, crashes>>

\* tx.send(pending_upload).await: blocks while the channel is full; the
\* last send is followed by set_pending_batch.
SendFile ==
    /\ outbox # <<>> /\ worker # "failed"
    /\ Len(chan) < Capacity
    /\ chan' = Append(chan, FileOf(Head(outbox)))
    /\ outbox' = Tail(outbox)
    /\ UNCHANGED <<chainVars, next, pending, remainder, worker, registered, nextSeq,
                   serializing, ready, nextUploadSeq, latest, limited, store,
                   shutdown, crashes>>

SetPendingBatch ==
    /\ remainder # None /\ outbox = <<>>
    /\ pending' = remainder
    /\ remainder' = None
    /\ UNCHANGED <<chainVars, next, outbox, workerVars, store, shutdown, crashes>>

RegisterHandle ==
    /\ worker # "none" /\ ~registered
    /\ registered' = TRUE
    /\ UNCHANGED <<chainVars, commitVars, worker, chan, nextSeq, serializing, ready,
                   nextUploadSeq, latest, limited, store, shutdown, crashes>>

-----------------------------------------------------------------------------
(***************************************************************************)
(* UploadWorker::run.  The select! loop takes a new batch from the channel *)
(* (spawn_serialization assigns it the next sequence number) or the result *)
(* of a finished serialization task, which is put in pending_upload before *)
(* drain_and_upload uploads every file whose turn has come.                *)
(***************************************************************************)
ReadySeqs == {t.seq : t \in ready}

\* drain_and_upload: is the file of sequence number n serialized, so that
\* the worker goes on uploading?
DrainPhase(r, n) == IF n \in {t.seq : t \in r} THEN "upload" ELSE "select"

\* pending_upload.remove(&next_upload_seq): the file whose turn it is.
\* (UploadTurnAny: faulty variant uploading any serialized file not yet done.)
UploadTurnAny(r, n) == {x \in r : x.seq >= n}
UploadTurn(r, n) == {x \in r : x.seq = n}

\* What the worker records after uploading file f: (epoch, range.end - 1).
\* (UploadedWatermarkEnd: faulty variant forgetting that end is exclusive.)
UploadedWatermarkEnd(f) == <<f.epoch, f.hi>>
UploadedWatermark(f) == <<f.epoch, f.hi - 1>>

WorkerReceive ==
    /\ worker = "select" /\ chan # <<>>
    /\ serializing' = serializing \cup {[seq |-> nextSeq, file |-> Head(chan)]}
    /\ nextSeq' = nextSeq + 1
    /\ chan' = Tail(chan)
    /\ UNCHANGED <<chainVars, commitVars, worker, registered, ready, nextUploadSeq,
                   latest, limited, store, shutdown, crashes>>

SerializeDone ==
    /\ worker = "select"
    /\ \E t \in serializing :
        /\ serializing' = serializing \ {t}
        /\ ready' = ready \cup {t}
        /\ worker' = DrainPhase(ready', nextUploadSeq)
    /\ UNCHANGED <<chainVars, commitVars, registered, chan, nextSeq, nextUploadSeq,
                   latest, limited, store, shutdown, crashes>>

\* Ok(Err(e)) or Err(panic) from a serialization task: the worker returns.
SerializeFails ==
    /\ SerializeMayFail
    /\ worker = "select" /\ serializing # {}
    /\ worker' = "failed"
    /\ UNCHANGED <<chainVars, commitVars, registered, chan, nextSeq, serializing, ready,
                   nextUploadSeq, latest, limited, store, shutdown, crashes>>

(***************************************************************************)
(* upload_with_retry of the file whose turn it is.  A failed put is        *)
(* retried after a backoff and changes nothing, so it is stuttering here;  *)
(* the put that succeeds writes the file, records latest_watermark and,    *)
(* unless rate-limited (the interval may or may not have elapsed), writes  *)
(* the watermark, which live mode does as a no-op.  drain_and_upload then  *)
(* moves on to the next sequence number.                                   *)
(***************************************************************************)
UploadSucceeds ==
    /\ worker = "upload"
    /\ \E t \in UploadTurn(ready, nextUploadSeq) :
        LET f == t.file
            path == [epoch |-> f.epoch, lo |-> f.lo, hi |-> f.hi]
        IN /\ store' = IF path \in DOMAIN store
                       THEN [store EXCEPT ![path] = @ + 1]
                       ELSE store @@ (path :> 1)
           /\ latest' = UploadedWatermark(f)
           /\ limited' = TRUE
           /\ ready' = ready \ {t}
           /\ nextUploadSeq' = nextUploadSeq + 1
           /\ worker' = DrainPhase(ready', nextUploadSeq + 1)
    /\ UNCHANGED <<chainVars, commitVars, registered, chan, nextSeq, serializing,
                   shutdown, crashes>>

(***************************************************************************)
(* The else branch of select!: the channel is closed (every Sender is      *)
(* dropped: shutdown cleared uploader_senders and no commit holds a clone) *)
(* and empty, and nothing serializes; after the (empty) final drain the    *)
(* worker flushes latest_watermark, a no-op in live mode, and ends.        *)
(***************************************************************************)
\* (Faulty variants: ChannelClosedOnClear forgets the Sender clone held by a
\* commit in progress; ChannelClosedAfterShutdown closes it only once
\* shutdown has returned.)
ChannelClosedOnClear == shutdown # "no"
ChannelClosedAfterShutdown == shutdown = "done" /\ remainder = None
ChannelClosed == shutdown # "no" /\ remainder = None

WorkerExit ==
    /\ worker = "select" /\ ChannelClosed /\ chan = <<>> /\ serializing = {}
    /\ worker' = "done"
    /\ UNCHANGED <<chainVars, commitVars, registered, chan, nextSeq, serializing, ready,
                   nextUploadSeq, latest, limited, store, shutdown, crashes>>

(***************************************************************************)
(* AnalyticsStore::shutdown clears uploader_senders, then awaits the       *)
(* JoinHandles found in worker_handles.                                    *)
(***************************************************************************)
StartShutdown ==
    /\ shutdown = "no"
    /\ shutdown' = "waiting"
    /\ UNCHANGED <<chainVars, commitVars, workerVars, store, crashes>>

ShutdownComplete ==
    /\ shutdown = "waiting"
    /\ registered => worker \in {"done", "failed"}
    /\ shutdown' = "done"
    /\ UNCHANGED <<chainVars, commitVars, workerVars, store, crashes>>

(***************************************************************************)
(* The process stops (a crash, or exit after shutdown) and starts again:   *)
(* everything in memory is lost, and the framework resumes the pipeline    *)
(* after init_watermark, which live mode derives from the file names.      *)
(***************************************************************************)
Restart ==
    /\ crashes < MaxCrashes
    /\ crashes' = crashes + 1
    /\ next' = NextAfter(LiveWatermark(store))
    /\ pending' = <<>> /\ outbox' = <<>> /\ remainder' = None
    /\ worker' = "none" /\ registered' = FALSE /\ chan' = <<>>
    /\ nextSeq' = 0 /\ serializing' = {} /\ ready' = {} /\ nextUploadSeq' = 0
    /\ latest' = None /\ limited' = FALSE
    /\ shutdown' = "no"
    /\ UNCHANGED <<chainVars, store>>

Next ==
    \/ CommitBatch \/ SendFile \/ SetPendingBatch \/ RegisterHandle
    \/ WorkerReceive \/ SerializeDone \/ SerializeFails \/ UploadSucceeds
    \/ WorkerExit \/ StartShutdown \/ ShutdownComplete \/ Restart

Spec == Init /\ [][Next]_vars

(***************************************************************************)
(* Fairness: the worker task, the commit's sends, the handle-pushing task   *)
(* and a shutdown that may complete are scheduled by tokio and eventually  *)
(* run; a retried upload eventually succeeds (the store is not down        *)
(* forever).  Delivering checkpoints, shutting down and crashing are the   *)
(* environment's choice and are not fair.                                  *)
(***************************************************************************)
Fairness ==
    /\ WF_vars(SendFile) /\ WF_vars(SetPendingBatch) /\ WF_vars(RegisterHandle)
    /\ WF_vars(WorkerReceive) /\ WF_vars(SerializeDone) /\ WF_vars(UploadSucceeds)
    /\ WF_vars(WorkerExit) /\ WF_vars(ShutdownComplete)

FairSpec == Spec /\ Fairness

-----------------------------------------------------------------------------
TypeOK ==
    /\ next \in 0..MaxCheckpoint + 1
    /\ pending \in Seq(B!Checkpoint) /\ outbox \in Seq(Seq(B!Checkpoint))
    /\ worker \in {"none", "select", "upload", "done", "failed"}
    /\ registered \in BOOLEAN /\ limited \in BOOLEAN
    /\ Len(chan) <= Capacity
    /\ \A t \in serializing \cup ready : t.seq \in 0..nextSeq - 1
    /\ latest \in {None} \cup (Nat \X B!Checkpoint)
    /\ shutdown \in {"no", "waiting", "done"} /\ crashes \in 0..MaxCrashes

Covered(p) == p.lo..p.hi - 1

(***************************************************************************)
(* Whatever the interleaving of serialization tasks and crashes, the files *)
(* in the object store tile a prefix of the chain: they are disjoint, each *)
(* was written once, together they cover 0..h-1 for h their highest end,  *)
(* and the watermark live mode recovers from the latest epoch directory    *)
(* is h-1.  A gap below the watermark would be skipped for ever after a    *)
(* restart; an overlap would be a file rewritten with other boundaries.    *)
(***************************************************************************)
StoreIsDurablePrefix ==
    DOMAIN store # {} =>
      LET h == Max({p.hi : p \in DOMAIN store})
      IN /\ \A p, q \in DOMAIN store : p # q => Covered(p) \cap Covered(q) = {}
         /\ \A p \in DOMAIN store : store[p] = 1
         /\ UNION {Covered(p) : p \in DOMAIN store} = 0..h - 1
         /\ LiveWatermark(store) = h - 1

(***************************************************************************)
(* latest_watermark, which the worker flushes on shutdown, is always the   *)
(* end of the durable prefix: never ahead of what is uploaded (data loss   *)
(* on restart) and never behind it (progress lost by the flush).           *)
(***************************************************************************)
LatestIsDurable ==
    latest # None =>
      /\ latest[2] = LiveWatermark(store)
      /\ \E p \in DOMAIN store : p.hi = latest[2] + 1 /\ p.epoch = latest[1]

(***************************************************************************)
(* Once AnalyticsStore::shutdown has returned, no worker is still running: *)
(* "waits for all pending uploads to complete" (indexer.rs) before the     *)
(* process exits.                                                          *)
(***************************************************************************)
ShutdownWaitsForWorker == shutdown = "done" => worker \in {"none", "done", "failed"}

InFlight(c) ==
    \/ \E t \in serializing \cup ready : c \in Covered(t.file)
    \/ \E i \in DOMAIN chan : c \in Covered(chan[i])
Durable(c) == \E p \in DOMAIN store : c \in Covered(p)

(***************************************************************************)
(* Every checkpoint handed to the worker is eventually in an uploaded file *)
(* unless the process restarts first or the worker stops on a             *)
(* serialization failure: uploads are retried for ever and never dropped.  *)
(***************************************************************************)
QueuedEventuallyDurable ==
    \A c \in B!Checkpoint, k \in 0..MaxCrashes :
        (InFlight(c) /\ crashes = k) ~> (Durable(c) \/ crashes > k \/ worker = "failed")

(***************************************************************************)
(* A shutdown that has started eventually completes: the commit in flight *)
(* finishes its sends, the channel closes, the worker drains and exits.    *)
(***************************************************************************)
ShutdownTerminates ==
    \A k \in 0..MaxCrashes :
        (shutdown = "waiting" /\ crashes = k) ~> (shutdown = "done" \/ crashes > k)

(***************************************************************************)
(* Refinement: the pipeline implements DurablePrefix.  `durable` is the end *)
(* of the longest run of checkpoints 0, 1, ... covered by uploaded files   *)
(* and `frontier` is the framework's next checkpoint.  Restart must set    *)
(* next to exactly that end although live mode only reads the highest end  *)
(* in the latest epoch directory; an upload out of sequence order or a     *)
(* watermark off by one makes the restart skip or redo checkpoints.        *)
(***************************************************************************)
PrefixEnd(st) ==
    LET covered == UNION {Covered(p) : p \in DOMAIN st}
    IN Max({h \in 0..MaxCheckpoint + 1 : 0..h - 1 \subseteq covered})

Abstract == INSTANCE DurablePrefix
               WITH Limit <- MaxCheckpoint + 1, frontier <- next, durable <- PrefixEnd(store)

ImplementsDurablePrefix == Abstract!Spec
=============================================================================
