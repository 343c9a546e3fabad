\* Nothing fails; the payload is sent and checked as the code does.
CONSTANTS
    N = 2
    MaxGen = 1
    Creators = {0, 1}
    Participants <- FullMesh
    Elected = 0
    Backup <- NextIndex
    CountsOwn = FALSE
    KeepsFirst = TRUE
    Parses = FALSE
    WaitsForAll = TRUE
    Faults = {}
    MaxCalls = 2
SPECIFICATION FairSpec
PROPERTIES
    EverySignerCompletes
\* Calls come to an end and messages run out: the system stops.
CHECK_DEADLOCK FALSE
