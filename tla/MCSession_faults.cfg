\* Sends fail, timers expire, peers disconnect, and broadcasts are confirmed.
CONSTANTS
    N = 2
    MaxGen = 1
    Creators = {0, 1}
    Participants <- FullMesh
    Elected = 1
    Backup <- NextIndex
    CountsOwn = FALSE
    KeepsFirst = TRUE
    Parses = TRUE
    WaitsForAll = FALSE
    Faults = {"send", "timer", "disconnect", "confirm"}
    MaxCalls = 2
SPECIFICATION Spec
INVARIANTS
    TypeOK
    NonceSignsOneView
    CompleteImpliesAllSigned
PROPERTIES
    CompleteIsFinal
\* Calls come to an end and messages run out: the system stops.
CHECK_DEADLOCK FALSE
