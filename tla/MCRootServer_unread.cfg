SPECIFICATION Spec
CONSTANTS
    Paths = {p}
    Contents = {a, b}
    None = None
    Tombstone = Tombstone
    Unknown = Unknown
    Unread = Unread
    Faults = {"read"}
    MaxClock = 2
    MaxFaults = 1
    MaxRequests = 1
CHECK_DEADLOCK FALSE
PROPERTY SaveKeepsWhatExists
