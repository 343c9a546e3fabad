\* An abort meets shares on their way.
CONSTANTS
    N = 2
    MaxGen = 1
    Creators = {0, 1}
    Participants <- FullMesh
    Elected = 0
    Backup <- NextIndex
    CountsOwn = FALSE
    KeepsFirst = TRUE
    Parses = TRUE
    WaitsForAll = FALSE
    Faults = {"abort"}
    MaxCalls = 2
SPECIFICATION Spec
PROPERTIES
    AbortedIsFinal
\* Calls come to an end and messages run out: the system stops.
CHECK_DEADLOCK FALSE
