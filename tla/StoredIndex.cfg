SPECIFICATION Spec
CONSTANTS
    None = None
    Failed = Failed
    Partial = Partial
    Servers = {a, b}
    Reactor = {pom}
    Inputs = {settings}
    Artifacts = {1}
    Context <- OneContext
    Variable <- OwnVariable
    Referencing = {0}
    Broken = Broken
    Entries <- EntriesOfContent
    MaxJarEntries = 2
    MaxIndexEntries = 2
    MaxBytes = 1
    SettledAge = 2
    Granularity = 1
    ReadTime = 1
    MaxTime = 4
    MaxEdits = 2
    MaxBuilds = 2
    MaxRunning = 1
SYMMETRY ServerSymmetry
INVARIANT RecordsTrue
INVARIANT ManifestsTrue
INVARIANT ReusedIsCurrent
CHECK_DEADLOCK FALSE
