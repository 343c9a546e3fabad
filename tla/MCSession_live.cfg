\* The application of signer 1 may abort.
CONSTANTS
    N = 2
    MaxGen = 1
    Creators = {0, 1}
    Participants <- FullMesh
    Elected = 0
    Backup <- NextIndex
    CountsOwn = FALSE
    KeepsFirst = TRUE
    Parses = TRUE
    WaitsForAll = TRUE
    Faults = {"abort"}
    MaxCalls = 1
SPECIFICATION FairSpec
ACTION_CONSTRAINT OneAborts
PROPERTIES
    EverySignerCompletes
    AbortRemoves
\* Calls come to an end and messages run out: the system stops.
CHECK_DEADLOCK FALSE
