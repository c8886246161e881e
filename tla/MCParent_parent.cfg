SPECIFICATION MCSpec
CONSTANTS
    N = 2
    Client = {c1, c2}
    MaxFaults = 1
    MarksDeleted = FALSE
    Visitor = {v1, v2, v3}
    Pair = {v1, v2}
    MaxProcesses = 2
    Spare = 4
INVARIANTS ClosesCleanly DescriptorsAreOwned
PROPERTIES ClientIsServed AllEnd HungUpIsClosed
CHECK_DEADLOCK FALSE
