SPECIFICATION Spec
CONSTANTS
    None = None
    Roots = {1, 2}
    Reqs = {a, b}
    Kinds <- EachItsOwn
    MaxAttempts = 2
    MaxIndexes = 1
    MaxRunners = 1
    MaxBytes = 5
    RunnerBytes = 1
    IndexBytes <- SmallAndLarge
    ReserveBytes <- TwoBytesEach
    MaxEdits = 0
    Cancellations = TRUE
    Failures = TRUE
INVARIANT SingleFlight
PROPERTY GrowthWithinBudget
PROPERTY EveryCallAnswered
CHECK_DEADLOCK FALSE
