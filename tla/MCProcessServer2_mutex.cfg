SPECIFICATION Spec
CONSTANTS
    N = 2
    MaxSpare = 2
    Client = {c1}
    MaxFaults = 1
    MarksDeleted = TRUE
INVARIANTS ListensInTurn
PROPERTIES ClientIsServed
CHECK_DEADLOCK FALSE
