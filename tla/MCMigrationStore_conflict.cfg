\* Two processes on one migration_id, no ambiguous results, no crashes.
CONSTANTS
    Writers = {w1, w2}
    NumFiles = 2
    FirstFile = 0
    Ambiguous = FALSE
    MaxCrashes = 0
    None = None
SPECIFICATION FairSpec
PROPERTY ConflictIsFatal
CHECK_DEADLOCK FALSE
