SPECIFICATION FairSpec
CONSTANTS
    Absent = Absent
    PathsChange = FALSE
    Faults <- AllFaults
    MaxPublications = 2
    MaxFaults = 2
INVARIANTS
    TypeOK
    IdleIsCommitted
    NothingIsLost
    RecoveryIsPossible
    CommittedIsWhole
    UnrepairedIsWhole
PROPERTIES
    BlockedIsPreserved
    PublishesAtOnce
    EventuallyReclaimed
    EventuallyServes
