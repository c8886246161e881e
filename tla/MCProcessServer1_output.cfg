SPECIFICATION Spec
CONSTANTS
    N = 1
    Client = {c1}
    MaxFaults = 0
    MarksDeleted = FALSE
INVARIANT PendingOutputIsWatched
CHECK_DEADLOCK FALSE
