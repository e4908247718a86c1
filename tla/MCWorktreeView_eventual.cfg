SPECIFICATION Spec
CONSTANTS
    p1 = p1
    p2 = p2
    a = a
    b = b
    Paths <- MCOnePath
    Contents <- MCContents
    Base <- MCBase
    NoContent = NoContent
    Missing = Missing
    Clean = Clean
    Deleted = Deleted
    None = None
    Root = Root
    StaleReads = TRUE
    Filtered = TRUE
    VersionsRecur = FALSE
    HintCapacity = 1
    MaxEpoch = 6
    MaxClock = 2
    MaxBudget = 1
INVARIANTS
    TypeOK
    ReadyIsFresh
    UnreflectedIsOwed
    OverlayMatchesEvidence
    ReadyOwesNothing
    CheckpointIsExact
PROPERTIES
    PublicationAdvances
