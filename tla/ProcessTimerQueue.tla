-------------------------- MODULE ProcessTimerQueue --------------------------
(***************************************************************************)
(* The timers of a process (multiProcess1 and multiProcess2).  One thread  *)
(* does everything, so addTimer and cancel act at once and nothing is       *)
(* queued.  Reading the timerfd and running the callbacks is as in          *)
(* TimerQueue; reset() sets the timerfd inside its loop over the expired    *)
(* timers, and not after it.                                                *)
(***************************************************************************)
EXTENDS TimerQueue

\* insert(), which tells addTimer whether the timer is the earliest.
insert(t) == /\ timers' = timers \union {t}
             /\ activeTimers' = activeTimers \union {t}

\* runAt, runAfter, runEvery: between two handlers or in a callback.
addTimer(t, d, i) ==
    /\ LoopUserCode
    /\ Create(t, d, i)
    /\ insert(t)
    /\ alarm' = IF IsEarliest(d) THEN TimerfdFor(d) ELSE alarm
    /\ UNCHANGED <<canceling, calling, batch, ran, late, queue, cancelled, failed>>

\* cancel() of a TimerId that still locks.  A timer that is in neither container is
\* remembered, whether timers are being called or not.
cancel(t) ==
    /\ LoopUserCode
    /\ t \notin unused
    /\ Alive(t)
    /\ cancelled' = cancelled \union {t}
    /\ IF t \in activeTimers
       THEN /\ timers' = timers \ {t}
            /\ activeTimers' = activeTimers \ {t}
            /\ UNCHANGED canceling
       ELSE /\ canceling' = canceling \union {t}
            /\ UNCHANGED <<timers, activeTimers>>
    /\ UNCHANGED <<unused, due, interval, calling, batch, ran, late, alarm, queue, failed>>

\* handleRead and getExpired, up to the callbacks; then a callback.
handleRead == HandleRead
run == RunTimer

\* What the first k turns of the loop of reset() set again.
RestartedBy(k) ==
    {batch[j] : j \in {i \in 1 .. k : Repeats(batch[i]) /\ batch[i] \notin canceling}}

restart == [t \in Timers |-> IF t \in RestartedBy(Len(batch))
                             THEN Later(interval[t] - late, -Past) ELSE due[t]]

\* Mutant: the timerfd is left as it is.
TimerfdStays(all, old) == old

\* The end of a turn: the timerfd is set if the earliest timer is valid.
SetTimerfd(all, old) ==
    LET first == CHOOSE d \in {restart[t] : t \in all} : \A t \in all : d <= restart[t]
    IN  IF all # {} /\ first >= 0 THEN TimerfdFor(first) ELSE old

\* The timerfd after each turn: without an expired timer it is not set.
TimerfdAfter[k \in Nat] ==
    IF k = 0 THEN alarm ELSE SetTimerfd(timers \union RestartedBy(k), TimerfdAfter[k - 1])

reset == /\ failed = "none"
         /\ calling
         /\ ran = Len(batch)
         /\ due' = restart
         /\ timers' = timers \union RestartedBy(Len(batch))
         /\ activeTimers' = activeTimers \union RestartedBy(Len(batch))
         /\ alarm' = TimerfdAfter[Len(batch)]
         /\ calling' = FALSE
         /\ batch' = <<>>
         /\ ran' = 0
         /\ late' = 0
         /\ UNCHANGED <<unused, interval, canceling, queue, cancelled, failed>>
-----------------------------------------------------------------------------
ProcessStep == handleRead \/ run \/ reset

ProcessNext ==
    \/ Tick
    \/ ProcessStep
    \/ \E t \in Timers : cancel(t) \/ \E d \in Delays, i \in Intervals : addTimer(t, d, i)

\* Time passes and the process runs.
ProcessSpec == Init /\ [][ProcessNext]_vars /\ WF_vars(Tick) /\ WF_vars(ProcessStep)
-----------------------------------------------------------------------------
TimersKept == /\ ContainersAgree
              /\ NeverEarly
              /\ CancelledStaysOut
              /\ failed = "none"

\* The containers agree, nothing runs early and no cancelled timer comes back, be it
\* cancelled while it waits, by itself or by another.  And as long as nothing is cancelled,
\* the timerfd that is set inside the loop of reset() is set for whatever waits: every
\* timer is called.
ProcessTimers ==
    /\ []TimersKept
    /\ \A t \in Timers : (t \in timers) ~> (t \notin timers \/ cancelled # {} \/ failed # "none")

\* The comment in reset() says that it updates the expiry of the timerfd: then a timer
\* that waits is called, or cancelled.
WaitingTimersFire ==
    \A t \in Timers : (t \in timers) ~> (t \notin timers \/ failed # "none")
=============================================================================
