\* One process; a PUT may be applied by the store while the client sees an
\* error (a request timeout after the write committed).
CONSTANTS
    Writers = {w1}
    NumFiles = 2
    FirstFile = 0
    Ambiguous = TRUE
    MaxCrashes = 0
    None = None
SPECIFICATION Spec
INVARIANT PanicOnlyOnRealConflict
CHECK_DEADLOCK FALSE
