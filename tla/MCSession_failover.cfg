\* A backup is elected when the coordinator does not broadcast.
CONSTANTS
    N = 2
    MaxGen = 1
    Creators = {0, 1}
    Participants <- FullMesh
    Elected = 1
    Backup <- NextIndex
    CountsOwn = FALSE
    KeepsFirst = TRUE
    Parses = TRUE
    WaitsForAll = TRUE
    Faults = {"timer"}
    MaxCalls = 1
SPECIFICATION TimedSpec
PROPERTIES
    BackupTakesOver
\* Calls come to an end and messages run out: the system stops.
CHECK_DEADLOCK FALSE
