SPECIFICATION Spec
CONSTANTS
    None = None
    Roots = {1, 2}
    Reqs = {a, b}
    Kinds <- QueryOrRefresh
    MaxAttempts = 1
    MaxIndexes = 2
    MaxRunners = 8
    MaxBytes = 10
    RunnerBytes = 1
    IndexBytes <- OneByteEach
    ReserveBytes <- OneByteEach
    MaxEdits = 0
    Cancellations = FALSE
    Failures = FALSE
PROPERTY RefreshedProjectIsReread
CHECK_DEADLOCK FALSE
