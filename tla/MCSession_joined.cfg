\* A creator and a joiner sign; nothing fails.
CONSTANTS
    N = 2
    MaxGen = 1
    Creators = {0}
    Participants <- NobodyAdded
    Elected = 0
    Backup <- NextIndex
    CountsOwn = FALSE
    KeepsFirst = TRUE
    Parses = TRUE
    WaitsForAll = TRUE
    Faults = {}
    MaxCalls = 1
SPECIFICATION Spec
INVARIANTS
    OneMessage
\* Calls come to an end and messages run out: the system stops.
CHECK_DEADLOCK FALSE
