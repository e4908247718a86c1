SPECIFICATION FairSpec
CONSTANTS
    a = a
    A = A
    b = b
    c = c
    u = u
    v = v
    Names <- MCNames
    Wide <- MCWide
    Lower <- MCLower
    Files <- MCFiles
    Reports <- MCReports
    Capacity = 2
    StaleReads = TRUE
INVARIANTS
    TypeOK
    OwedIsQueued
    PassReadsDue
    WithinCapacity
PROPERTIES
    LoopEnds
