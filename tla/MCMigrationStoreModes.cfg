\* The exact, lossy and single-process deployments of MCMigrationStoreModes.
CONSTANTS
    Writers = {w1, w2}
    None = None
SPECIFICATION Spec
INVARIANTS TypeOK PanicOnlyOnRealConflict WatermarkOnlyCoversRewritten
PROPERTIES WatermarkMonotonic MigrationCompletes
\* The processes may finish, exit or panic, after which nothing is left to do.
CHECK_DEADLOCK FALSE
