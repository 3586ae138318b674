SPECIFICATION MCSpec
CONSTANTS
    Runs = {a, b}
    Kinds = {"plain", "test", "pom"}
    MaxAttempts = 2
    None = None
    Calls = {c, d}
    Running = 1
    Capacity = 1
INVARIANT OneMavenAtATime
INVARIANT SuccessIsTrue
INVARIANT OwnFiles
INVARIANT LastTestIsLatest
PROPERTY RunsEnd
PROPERTY NeverHangs
CHECK_DEADLOCK FALSE
