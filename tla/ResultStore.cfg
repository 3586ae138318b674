SPECIFICATION Spec
CONSTANTS
    Clients = {c1, c2, c3}
    Roots = {p1, p2}
    Texts <- MixedTexts
    CharLen <- Lengths
    CharCost <- Costs
    DirectBudget = 2
    PageBudget = 6
    MaxStored = 2
    MaxBytes = 8
    EntryBytes = 1
    Ttl = 1
    MaxTime = 1
    MaxRestarts = 1
INVARIANT PagesConcatenate
PROPERTY LostOnlyForAReason
PROPERTY ReadingEnds
CHECK_DEADLOCK FALSE
