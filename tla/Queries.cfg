SPECIFICATION MCSpec
CONSTANTS
    Local <- LocalPoms
    Reactor <- ReactorPoms
    Artifacts = {"a", "b"}
    Versions = {"1", "2"}
    Selected <- SelectedPom
    Worlds <- MCWorlds
    HasRepository = TRUE
    MaxFollowed = 2
    MaxFiles = 5
    Names = {"J", "X", "Y", "S"}
    Values = {1}
    Launcher = {"J"}
    ServerOnly = {"S"}
    ConfigTexts <- MCConfigTexts
    Open = Open
    Unknown = Unknown
    Missing = Missing
    Unreadable = Unreadable
    None = None
    Questions <- MCQuestions
    Lower <- MCLower
    MaxResults = 3
    MaxSourceBytes = 3
    NoAnswer = NoAnswer
    Texts <- MCTexts
    MaxExplained = 2
    MaxDepth = 2
    MaxParents = 2
    MaxNesting = 3
    NoText = NoText
INVARIANT InputsComplete
INVARIANT SameKeySameVariables
INVARIANT HierarchyComplete
INVARIANT SearchesHonest
INVARIANT SourcesPaired
INVARIANT DeclarationsAccounted
INVARIANT ApiDiffExact
INVARIANT PathsAreTrue
INVARIANT WildcardIsGlob
INVARIANT ClasspathTrue
INVARIANT GapsAreWorst
INVARIANT ModulesOnce
INVARIANT IdentityTrue
INVARIANT FocusedTestTrue
PROPERTY AllEnd
CHECK_DEADLOCK FALSE
