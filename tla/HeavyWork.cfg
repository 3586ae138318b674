SPECIFICATION Spec
CONSTANTS
    Jobs = {j1, j2, j3, j4}
    Running = 1
    Queued = 2
PROPERTY ImplementsPool
PROPERTY AcceptedIsAnswered
PROPERTY ShutdownDrains
CHECK_DEADLOCK FALSE
