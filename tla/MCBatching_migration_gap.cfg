\* Migration mode with gaps between the existing files (FileRangeIndex: "gaps
\* between ranges are legal"); 6 checkpoints over up to 3 epochs;
\* the existing files are any epoch-respecting layout that reaches the end of
\* the stream, and the run starts at any requested checkpoint snapped to a file.
CONSTANTS
    MaxCheckpoint = 5
    MaxCommit = 2
    Mode = "migration"
    BatchSizeN = 0
    RowChoices = {1}
    MaxEpochs = 3
    AllowGaps = TRUE
SPECIFICATION Spec
INVARIANT FollowsIndex
CHECK_DEADLOCK FALSE
