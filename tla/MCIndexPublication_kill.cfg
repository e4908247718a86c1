SPECIFICATION Spec
CONSTANTS
    Absent = Absent
    PathsChange = TRUE
    Faults <- Kills
    MaxPublications = 1
    MaxFaults = 2
INVARIANTS
    TrustedIsWhole
