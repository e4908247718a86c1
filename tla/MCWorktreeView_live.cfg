SPECIFICATION FairSpec
CONSTANTS
    p1 = p1
    p2 = p2
    a = a
    b = b
    Paths <- MCOnePath
    Contents <- MCOneContent
    Base <- MCBase
    NoContent = NoContent
    Missing = Missing
    Clean = Clean
    Deleted = Deleted
    None = None
    Root = Root
    StaleReads = TRUE
    Filtered = TRUE
    VersionsRecur = TRUE
    HintCapacity = 1
    MaxEpoch = 20
    MaxClock = 2
    MaxBudget = 1
PROPERTIES
    EventuallyReady
    EventuallyFresh
