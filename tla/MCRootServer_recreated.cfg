SPECIFICATION Spec
CONSTANTS
    Paths = {p}
    Contents = {a, b}
    None = None
    Tombstone = Tombstone
    Unknown = Unknown
    Unread = Unread
    Faults = {"stat", "open", "read", "walk", "publish", "build", "polling"}
    MaxClock = 2
    MaxFaults = 0
    MaxRequests = 1
CHECK_DEADLOCK FALSE
PROPERTY EventuallyReflected
