SPECIFICATION MCSpec
CONSTANTS
    Procs = {p, q, r}
    MaxOperations = 3
    MaxDamages = 2
    Readers = {r, s}
    MaxInstances = 3
    MaxVersion = 3
    None = None
INVARIANT LiveStatusKept
PROPERTY GoodDatabaseKept
PROPERTY OperationsEnd
PROPERTY ChangesArePublished
CHECK_DEADLOCK FALSE
