SPECIFICATION NetSpec
CONSTANTS
    Byte <- MCByte
    Blank = 0
    kCheapPrepend = 2
    kInitialSize = 2
    ExtraSize = 2
    Chunk <- MCChunk
    MaxSize = 7
    MaxCalls = 3
    MaxAttempts = 3
    Base = 4
    Widths = {1, 2}
    CR = 3
    LF = 2
    Texts <- MCTexts
    MaxItems = 2
    Timers = {a, b}
    Delays <- MCDelays
    Intervals <- MCIntervals
    Past = 2
    SlowCallbacks = FALSE
    ExactHit = FALSE
    ForeignCancels <- None
    MaxQueued = 0
INVARIANTS AssertionsHold ValuesArrive OneStartIsSafe
PROPERTIES ImplementsQueue StopEnds ProcessTimers
CHECK_DEADLOCK FALSE
