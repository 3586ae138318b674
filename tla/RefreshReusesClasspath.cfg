SPECIFICATION Spec
CONSTANTS
    None = None
    Roots = {1}
    Reqs = {a, b}
    Kinds <- QueryOrRefresh
    MaxAttempts = 1
    MaxIndexes = 1
    MaxRunners = 4
    MaxBytes = 6
    RunnerBytes = 1
    IndexBytes <- OneByteEach
    ReserveBytes <- OneByteEach
    MaxEdits = 0
    Cancellations = FALSE
    Failures = FALSE
INVARIANT RefreshResolvesWithMaven
CHECK_DEADLOCK FALSE
