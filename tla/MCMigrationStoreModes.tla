------------------------ MODULE MCMigrationStoreModes ------------------------
(***************************************************************************)
(* The migration protocol under both store failure models in one model:    *)
(*   exact:  two processes on one migration_id, three files from file 1 on *)
(*           (file 0 lies before the requested start); a PUT that returns  *)
(*           an error was not applied; up to two crashes or reruns;        *)
(*   lossy:  the same, but any PUT may be applied although the client sees *)
(*           an error (a timeout after the write committed); one crash;    *)
(*   single: one process, three files from the beginning, up to two        *)
(*           crashes, run under the fairness of MigrationStore.            *)
(* The deployment is one of them for the whole run, chosen in Init.        *)
(***************************************************************************)
CONSTANTS Writers, None

OneWriter == {CHOOSE w \in Writers : TRUE}

VARIABLES dataVer, wmObj, wmWriter, phase, idx, cached, pos, latest, limited,
          crashes, store

Exact == INSTANCE MigrationStore WITH
            NumFiles <- 3, FirstFile <- 1, Ambiguous <- FALSE, MaxCrashes <- 2
Lossy == INSTANCE MigrationStore WITH
            NumFiles <- 3, FirstFile <- 1, Ambiguous <- TRUE, MaxCrashes <- 1
Single == INSTANCE MigrationStore WITH
            Writers <- OneWriter, NumFiles <- 3, FirstFile <- 0, Ambiguous <- FALSE,
            MaxCrashes <- 2

vars == <<dataVer, wmObj, wmWriter, phase, idx, cached, pos, latest, limited,
          crashes, store>>

Init ==
    \/ store = "exact" /\ Exact!Init
    \/ store = "lossy" /\ Lossy!Init
    \/ store = "single" /\ Single!Init

Next ==
    /\ \/ store = "exact" /\ Exact!Next
       \/ store = "lossy" /\ Lossy!Next
       \/ store = "single" /\ Single!Next
    /\ UNCHANGED store

\* A step of the single-process deployment.
SingleStep(A) == store = "single" /\ A /\ UNCHANGED store

\* MigrationStore's Fairness, for the single process only.
Fairness ==
    \A w \in OneWriter :
        /\ WF_vars(SingleStep(Single!LoadIndex(w)))
        /\ WF_vars(SingleStep(Single!InitWatermark(w)))
        /\ WF_vars(SingleStep(Single!CreateWatermark(w)))
        /\ WF_vars(SingleStep(Single!UploadFile(w)))
        /\ WF_vars(SingleStep(Single!WriteWatermark(w)))
        /\ WF_vars(SingleStep(Single!FinishRun(w)))

Spec == Init /\ [][Next]_vars /\ Fairness

\* The properties of MigrationStore (commented there), for the store's behaviour.
TypeOK ==
    CASE store = "exact" -> Exact!TypeOK
      [] store = "lossy" -> Lossy!TypeOK
      [] store = "single" -> Single!TypeOK

\* A worker panics with ConcurrentWriter only when another process wrote the
\* watermark; stated for the exact store (migration_ambiguous shows why).
PanicOnlyOnRealConflict == store = "exact" => Exact!PanicOnlyOnRealConflict

\* The persisted watermark never claims a file that has not been rewritten.
WatermarkOnlyCoversRewritten ==
    CASE store = "exact" -> Exact!WatermarkOnlyCoversRewritten
      [] store = "lossy" -> Lossy!WatermarkOnlyCoversRewritten
      [] store = "single" -> Single!WatermarkOnlyCoversRewritten

\* The persisted watermark never goes back, whatever processes write it.
WatermarkMonotonic == Exact!WatermarkMonotonic

\* The single process, however often it crashes, in the end rewrites every
\* file and leaves the watermark at the last one.
MigrationCompletes == store = "single" => Single!MigrationCompletes
=============================================================================
