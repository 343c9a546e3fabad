\* Sessions expire, are cleaned up, rejected or not joined, and made anew under the same id.
CONSTANTS
    N = 2
    MaxGen = 2
    Creators = {0}
    Participants <- NobodyAdded
    Elected = 0
    Backup <- NextIndex
    CountsOwn = FALSE
    KeepsFirst = TRUE
    Parses = TRUE
    WaitsForAll = FALSE
    Faults = {"expire", "cleanup", "reject", "send"}
    MaxCalls = 1
SPECIFICATION Spec
ACTION_CONSTRAINT OneAnew
PROPERTIES
    ImplementsRound
\* Calls come to an end and messages run out: the system stops.
CHECK_DEADLOCK FALSE
