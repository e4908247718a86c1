SPECIFICATION Spec
CONSTANTS
    Paths = {p}
    Contents = {a, b}
    None = None
    Tombstone = Tombstone
    Unknown = Unknown
    Unread = Unread
    Faults = {"stat", "open", "read", "walk", "publish", "build", "polling"}
    MaxClock = 2
    MaxFaults = 1
    MaxRequests = 1
INVARIANTS TypeOK EvidenceIsHonest StaleIsDetectable UnreflectedIsOwed CacheIsNoOlder
    RestIsReflected
CHECK_DEADLOCK FALSE
SYMMETRY MCSymmetry
