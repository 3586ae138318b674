SPECIFICATION Spec
CONSTANTS
    Procs = {p, q, r}
    MaxOperations = 4
    MaxDamages = 1
PROPERTY DiagnosedFileReplaced
CHECK_DEADLOCK FALSE
