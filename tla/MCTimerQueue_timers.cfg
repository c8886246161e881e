CONSTANTS
  a = a
  b = b
  Timers <- TwoTimers
  Delays <- MCDelays
  Intervals <- MCIntervals
  Past = 2
  SlowCallbacks = FALSE
  ExactHit = FALSE
  ForeignCancels <- AnyForeign
  MaxQueued = 3
SPECIFICATION FairSpec
INVARIANT ContainersAgree
INVARIANT TimerfdArmed
INVARIANT NeverEarly
INVARIANT NoAssertionFails
INVARIANT CancelledStaysOut
PROPERTY TimersFire
CHECK_DEADLOCK FALSE
