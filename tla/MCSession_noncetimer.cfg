\* A signer's nonce does not arrive; every armed timer expires.
CONSTANTS
    N = 2
    MaxGen = 1
    Creators = {0, 1}
    Participants <- FullMesh
    Elected = 0
    Backup <- NextIndex
    CountsOwn = FALSE
    KeepsFirst = TRUE
    Parses = TRUE
    WaitsForAll = FALSE
    Faults = {"timer"}
    MaxCalls = 1
SPECIFICATION TimedSpec
PROPERTIES
    NonceCollectionEnds
\* Calls come to an end and messages run out: the system stops.
CHECK_DEADLOCK FALSE
