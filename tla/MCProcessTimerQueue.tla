------------------------ MODULE MCProcessTimerQueue ------------------------
(* Two timers, due now, before or after, and the intervals 0 and 2.        *)
EXTENDS ProcessTimerQueue

CONSTANTS a, b

TwoTimers == {a, b}
MCDelays == {-1, 0, 1, 2}
MCIntervals == {0, 2}
None == {}
=============================================================================
