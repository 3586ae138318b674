SPECIFICATION Spec
CONSTANTS
    None = None
    Roots = {1}
    Reqs = {a, b}
    Kinds <- QueryOrRefresh
    MaxAttempts = 2
    MaxIndexes = 1
    MaxRunners = 4
    MaxBytes = 6
    RunnerBytes = 1
    IndexBytes <- OneByteEach
    ReserveBytes <- OneByteEach
    MaxEdits = 1
    Cancellations = TRUE
    Failures = TRUE
SYMMETRY CallSymmetry
INVARIANT NoStaleIndex
INVARIANT IndexMatchesItsStamps
PROPERTY FullRebuildHonoured
CHECK_DEADLOCK FALSE
