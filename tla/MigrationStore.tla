--------------------------- MODULE MigrationStore ---------------------------
(***************************************************************************)
(* The conditional-write protocol of migration mode (store/migration.rs,   *)
(* with the upload loop of store/uploader.rs) for one pipeline, run by one *)
(* or more processes with the same migration_id.                           *)
(*                                                                         *)
(* The existing files are 0..NumFiles-1; file c is rewritten as one batch  *)
(* (Batching checks that batches follow the index) and its last           *)
(* checkpoint stands for c.  Every object carries a version, its etag: a   *)
(* PUT in mode Update succeeds only if the caller's etag is the current   *)
(* one, in mode Create only if the object is absent.  A PUT can also be    *)
(* applied by the store while the caller sees an error (a timeout after   *)
(* the write committed): an "ambiguous" failure, retried like any other.  *)
(***************************************************************************)
EXTENDS Naturals, FiniteSets

CONSTANTS
    Writers,     \* processes running the migration
    NumFiles,    \* existing files 0..NumFiles-1
    FirstFile,   \* find_starting_checkpoint: first_checkpoint snapped to a file
    Ambiguous,   \* may a PUT be applied although an error is returned?
    MaxCrashes,
    None

Files == 0..NumFiles - 1
ASSUME FirstFile \in Files

VARIABLES
    dataVer,   \* object store: etag of each data file (1 = as live mode wrote it)
    wmObj,     \* object store: the watermark file, [cp, ver] or None
    wmWriter,  \* (history) the writer whose PUT last changed wmObj
    phase,     \* per writer: where its startup or upload loop is
    idx,       \* per writer: etags of the FileRangeIndex loaded at startup
    cached,    \* per writer: watermark_versions[pipeline], or None
    pos,       \* per writer: next file to rewrite (the framework's next checkpoint)
    latest,    \* per writer: latest_watermark, or None
    limited,   \* per writer: last_watermark_update is Some
    crashes

vars == <<dataVer, wmObj, wmWriter, phase, idx, cached, pos, latest, limited, crashes>>

Phases == {"down", "loaded", "creating", "run", "wm", "flush", "done", "exited", "panicked"}

Init ==
    /\ dataVer = [c \in Files |-> 1]
    /\ wmObj = None /\ wmWriter = None
    /\ phase = [w \in Writers |-> "down"]
    /\ idx = [w \in Writers |-> None]
    /\ cached = [w \in Writers |-> None]
    /\ pos = [w \in Writers |-> 0]
    /\ latest = [w \in Writers |-> None]
    /\ limited = [w \in Writers |-> FALSE]
    /\ crashes = 0

\* The process keeps nothing of a previous run: everything starts empty.
Fresh(w) ==
    /\ idx' = [idx EXCEPT ![w] = None]
    /\ cached' = [cached EXCEPT ![w] = None]
    /\ latest' = [latest EXCEPT ![w] = None]
    /\ limited' = [limited EXCEPT ![w] = FALSE]

(***************************************************************************)
(* find_starting_checkpoint: FileRangeIndex::load_from_store records the   *)
(* etag of every existing file as it is now.                               *)
(***************************************************************************)
LoadIndex(w) ==
    /\ phase[w] = "down"
    /\ idx' = [idx EXCEPT ![w] = dataVer]
    /\ phase' = [phase EXCEPT ![w] = "loaded"]
    /\ UNCHANGED <<dataVer, wmObj, wmWriter, cached, pos, latest, limited, crashes>>

(***************************************************************************)
(* init_watermark: committer_watermark GETs the watermark file and caches  *)
(* its etag; the pipeline resumes after it.  Without one, and with an      *)
(* adjusted start above 0, the watermark start-1 is created with           *)
(* PutMode::Create (CreateWatermark); with start 0 nothing is written.     *)
(***************************************************************************)
\* Mutants: resuming one file too far; resuming at the adjusted start as
\* if no watermark existed.
ResumeAfterSkip(cp) == cp + 2
ResumeAtStart(cp) == FirstFile

ResumeAfter(cp) == cp + 1

\* committer_watermark: GET the watermark file; if it exists, cache its etag
\* in watermark_versions (the watermark it returns is wmObj), on NotFound
\* return None and cache nothing.
CommitterWatermark(w) ==
    IF wmObj # None THEN cached' = [cached EXCEPT ![w] = wmObj.ver]
                    ELSE UNCHANGED cached

InitWatermark(w) ==
    /\ phase[w] = "loaded"
    /\ CommitterWatermark(w)
    /\ IF wmObj # None
       THEN /\ pos' = [pos EXCEPT ![w] = ResumeAfter(wmObj.cp)]
            /\ phase' = [phase EXCEPT ![w] = "run"]
       ELSE /\ pos' = [pos EXCEPT ![w] = FirstFile]
            /\ phase' = [phase EXCEPT ![w] = IF FirstFile > 0 THEN "creating" ELSE "run"]
    /\ UNCHANGED <<dataVer, wmObj, wmWriter, idx, latest, limited, crashes>>

\* "Failed to create initial watermark (already exists?)": a startup error.
CreateWatermark(w) ==
    /\ phase[w] = "creating"
    /\ IF wmObj = None
       THEN \E applied \in {"ok"} \cup (IF Ambiguous THEN {"lost"} ELSE {}) :
              /\ wmObj' = [cp |-> FirstFile - 1, ver |-> 1]
              /\ wmWriter' = w
              /\ cached' = [cached EXCEPT ![w] = IF applied = "ok" THEN 1 ELSE None]
              /\ phase' = [phase EXCEPT ![w] = IF applied = "ok" THEN "run" ELSE "exited"]
       ELSE /\ phase' = [phase EXCEPT ![w] = "exited"]
            /\ UNCHANGED <<wmObj, wmWriter, cached>>
    /\ UNCHANGED <<dataVer, idx, pos, latest, limited, crashes>>
(***************************************************************************)
(* UploadWorker::upload_with_retry of file pos[w]: MigrationStore::        *)
(* write_to_object_store PUTs it in mode Update with the etag the index    *)
(* recorded at startup.  If that etag is no longer current the store       *)
(* refuses (Precondition); put_conditional turns that into an anyhow error *)
(* that the loop retries, with the same etag, forever: no step is taken.   *)
(* On success latest_watermark is set and, unless rate-limited, the        *)
(* watermark is written before the next file (WriteWatermark).  An        *)
(* ambiguous failure rewrites the file and leaves the worker retrying.     *)
(***************************************************************************)
UploadFile(w) ==
    LET c == pos[w] IN
    /\ phase[w] = "run"
    /\ c \in Files
    /\ dataVer[c] = idx[w][c]
    /\ dataVer' = [dataVer EXCEPT ![c] = @ + 1]
    /\ \/ /\ latest' = [latest EXCEPT ![w] = c]
          /\ \E elapsed \in BOOLEAN :
               IF ~limited[w] \/ elapsed
               THEN /\ phase' = [phase EXCEPT ![w] = "wm"]
                    /\ UNCHANGED pos
               ELSE /\ pos' = [pos EXCEPT ![w] = c + 1]
                    /\ UNCHANGED phase
       \/ /\ Ambiguous
          /\ UNCHANGED <<phase, pos, latest>>
    /\ UNCHANGED <<wmObj, wmWriter, idx, cached, limited, crashes>>

\* What the worker does once its watermark write succeeded: go on with the
\* next file (upload_with_retry) or, on the shutdown flush, finish (run).
AfterWatermark(w) ==
    IF phase[w] = "wm"
    THEN /\ phase' = [phase EXCEPT ![w] = "run"]
         /\ pos' = [pos EXCEPT ![w] = @ + 1]
         /\ limited' = [limited EXCEPT ![w] = TRUE]
    ELSE /\ phase' = [phase EXCEPT ![w] = "done"]
         /\ UNCHANGED <<pos, limited>>

\* Mutant: caching the etag that was sent instead of the one returned.
CacheVersionSent(w, v) == UNCHANGED cached

\* update_watermark keeps the etag the PUT returned for the next call.
CacheVersion(w, v) == cached' = [cached EXCEPT ![w] = v]

\* update_watermark_with_retry on the result of one update_watermark: Ok
\* returns to the caller, ConcurrentWriter panics, and a Transient error
\* backs off and calls update_watermark again (the worker stays put).
WatermarkRetry(w, result) ==
    CASE result = "ok"        -> AfterWatermark(w)
      [] result = "conflict"  -> /\ phase' = [phase EXCEPT ![w] = "panicked"]
                                 /\ UNCHANGED <<pos, limited>>
      [] result = "transient" -> UNCHANGED <<phase, pos, limited>>

(***************************************************************************)
(* update_watermark(latest): PUT in mode Update with the cached etag, or   *)
(* Create when none is cached, and cache the new etag.  Precondition is    *)
(* ConcurrentWriter; any other error, AlreadyExists included, is Transient *)
(* (a failure the store did not apply changes nothing: a stuttering step). *)
(***************************************************************************)
WriteWatermark(w) ==
    LET modeOk == IF cached[w] = None THEN wmObj = None
                  ELSE wmObj # None /\ wmObj.ver = cached[w]
        newVer == IF wmObj = None THEN 1 ELSE wmObj.ver + 1
    IN
    /\ phase[w] \in {"wm", "flush"}
    /\ \/ /\ modeOk
          /\ wmObj' = [cp |-> latest[w], ver |-> newVer]
          /\ wmWriter' = w
          /\ \/ /\ CacheVersion(w, newVer)
                /\ WatermarkRetry(w, "ok")
             \/ /\ Ambiguous
                /\ UNCHANGED cached
                /\ WatermarkRetry(w, "transient")
       \/ /\ cached[w] # None /\ ~modeOk
          /\ WatermarkRetry(w, "conflict")
          /\ UNCHANGED <<wmObj, wmWriter, cached>>
    /\ UNCHANGED <<dataVer, idx, latest, crashes>>

(***************************************************************************)
(* The migration run reaches last_checkpoint: the framework stops, the     *)
(* upload channel closes and UploadWorker::run flushes latest_watermark.   *)
(***************************************************************************)
\* Mutant: no final flush.
FlushPhaseNever(w) == "done"

\* After draining, the worker flushes latest_watermark if it has one.
FlushPhase(w) == IF latest[w] # None THEN "flush" ELSE "done"

FinishRun(w) ==
    /\ phase[w] = "run"
    /\ pos[w] = NumFiles
    /\ phase' = [phase EXCEPT ![w] = FlushPhase(w)]
    /\ UNCHANGED <<dataVer, wmObj, wmWriter, idx, cached, pos, latest, limited, crashes>>

\* The process dies (or is rerun) at any point; the object store keeps its
\* state and the next start begins from LoadIndex.
Crash(w) ==
    /\ phase[w] # "down"
    /\ crashes < MaxCrashes
    /\ phase' = [phase EXCEPT ![w] = "down"]
    /\ Fresh(w)
    /\ crashes' = crashes + 1
    /\ UNCHANGED <<dataVer, wmObj, wmWriter, pos>>

Next ==
    \E w \in Writers :
        \/ LoadIndex(w) \/ InitWatermark(w) \/ CreateWatermark(w)
        \/ UploadFile(w) \/ WriteWatermark(w) \/ FinishRun(w) \/ Crash(w)

Spec == Init /\ [][Next]_vars

\* The tokio runtime keeps polling the worker and the process, once
\* (re)started, goes on; a crashed process is started again.
Fairness ==
    \A w \in Writers :
        /\ WF_vars(LoadIndex(w)) /\ WF_vars(InitWatermark(w))
        /\ WF_vars(CreateWatermark(w)) /\ WF_vars(UploadFile(w))
        /\ WF_vars(WriteWatermark(w)) /\ WF_vars(FinishRun(w))

FairSpec == Spec /\ Fairness
-----------------------------------------------------------------------------
TypeOK ==
    /\ dataVer \in [Files -> Nat \ {0}]
    /\ wmObj = None \/ wmObj \in [cp : Files, ver : Nat \ {0}]
    /\ wmWriter \in Writers \cup {None}
    /\ phase \in [Writers -> Phases]
    /\ \A w \in Writers : idx[w] = None \/ idx[w] \in [Files -> Nat \ {0}]
    /\ cached \in [Writers -> Nat \cup {None}]
    /\ pos \in [Writers -> 0..NumFiles]
    /\ latest \in [Writers -> Files \cup {None}]
    /\ limited \in [Writers -> BOOLEAN] /\ crashes \in 0..MaxCrashes

Rewritten(c) == dataVer[c] > 1

(***************************************************************************)
(* P7 and update_watermark_with_retry's panic: a worker panics with        *)
(* ConcurrentWriter only when another process wrote the watermark file     *)
(* after this one last read or wrote it; its own earlier writes, across    *)
(* retries, rate limiting, the shutdown flush and restarts, never make it  *)
(* think a second writer exists.                                           *)
(***************************************************************************)
PanicOnlyOnRealConflict ==
    \A w \in Writers : phase[w] = "panicked" => wmWriter # w

(***************************************************************************)
(* Crash recovery of migration mode: the persisted watermark never claims  *)
(* a file that has not been rewritten.  A restart resumes at watermark+1   *)
(* (init_watermark), so a file it claimed too early would be skipped.     *)
(***************************************************************************)
WatermarkOnlyCoversRewritten ==
    wmObj # None => \A c \in FirstFile..wmObj.cp : Rewritten(c)

(***************************************************************************)
(* The persisted watermark never goes back, whatever processes write it:   *)
(* a writer that resumed from an older watermark or lost a race has a      *)
(* stale etag and is refused.                                              *)
(***************************************************************************)
WatermarkMonotonic ==
    [][wmObj # None /\ wmObj' # None => wmObj'.cp >= wmObj.cp]_vars

(***************************************************************************)
(* A single process, however often it crashes (within MaxCrashes), in the  *)
(* end rewrites every file from the start on and leaves the watermark at  *)
(* the last one, though rate limiting may skip all but the shutdown flush. *)
(***************************************************************************)
MigrationCompletes ==
    <>[](/\ \A c \in FirstFile..NumFiles - 1 : Rewritten(c)
         /\ wmObj # None /\ wmObj.cp = NumFiles - 1)

\* The worker's next data-file PUT carries an etag the store no longer has.
DataConflict(w) ==
    /\ phase[w] = "run" /\ pos[w] \in Files
    /\ dataVer[pos[w]] # idx[w][pos[w]]

\* The worker's next watermark PUT uses PutMode::Create (no cached etag)
\* while the watermark file already exists: another process created it.
WatermarkConflict(w) ==
    /\ phase[w] \in {"wm", "flush"}
    /\ cached[w] = None /\ wmObj # None

(***************************************************************************)
(* The spec's failure model (sections 4.5 and 7): a precondition or        *)
(* already-exists failure of a conditional write, on a data file or on the *)
(* watermark file, means a concurrent writer and is fatal; only other      *)
(* errors are retried.  So a worker that meets one stops (panics or its    *)
(* process goes down) rather than retry with backoff forever.              *)
(***************************************************************************)
ConflictIsFatal ==
    \A w \in Writers :
        DataConflict(w) \/ WatermarkConflict(w) ~> phase[w] \in {"panicked", "down"}
=============================================================================
