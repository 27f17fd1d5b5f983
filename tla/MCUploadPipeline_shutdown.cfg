\* Live mode, Checkpoints(1) so that every checkpoint is a file: 4 checkpoints
\* over up to 2 epochs, commits of 1 or 2 checkpoints, a channel of capacity 1,
\* one restart; the question is whether shutdown can return before the worker ends.
CONSTANTS
    MaxCheckpoint = 3
    MaxCommit = 2
    BatchPolicy = "checkpoints"
    BatchSizeN = 1
    RowChoices = {1}
    MaxEpochs = 2
    SerializeMayFail = TRUE
    Capacity = 1
    MaxCrashes = 1
    None = None
SPECIFICATION Spec
INVARIANT ShutdownWaitsForWorker
CHECK_DEADLOCK FALSE
