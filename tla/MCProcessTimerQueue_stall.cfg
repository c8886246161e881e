CONSTANTS
  a = a
  b = b
  Timers <- TwoTimers
  Delays <- MCDelays
  Intervals <- MCIntervals
  Past = 2
  SlowCallbacks = FALSE
  ExactHit = FALSE
  ForeignCancels <- None
  MaxQueued = 0
SPECIFICATION ProcessSpec
PROPERTY WaitingTimersFire
CHECK_DEADLOCK FALSE
