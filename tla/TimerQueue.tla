----------------------------- MODULE TimerQueue -----------------------------
(***************************************************************************)
(* The timers of one EventLoop: TimerQueue, Timer and the timerfd          *)
(* (multiThread/net/TimerQueue.cpp, Timer.cpp), with EventLoop's runAt,    *)
(* runAfter, runEvery and cancle, called in the loop's thread or in        *)
(* another.  Functors queued by the others run in order, each between two  *)
(* handlers, as Executor promises.                                         *)
(*                                                                         *)
(* Times are relative to the present: due[t] is the timer's expiredTime_   *)
(* less Timer::now(), alarm the time left on the timerfd, late the time    *)
(* since handleRead read its `now'.  One unit of time is the 100 us below  *)
(* which the timerfd is never armed; a due time more than Past units ago   *)
(* counts as Past units ago.  The clock is not set back.                   *)
(*                                                                         *)
(* A timer is alive here while a container or an addTimerInLoop that waits *)
(* points to it.  In the code cancel() has a pointer of its own until it   *)
(* returns, and the vector of functors has one until its batch is done: a  *)
(* timer may live a little longer, and a late cancellation, which aborts   *)
(* here, may find it then, without effect.                                 *)
(***************************************************************************)
EXTENDS Integers, Sequences, FiniteSets

CONSTANTS Timers,          \* the Timer objects the program may create
          Delays,          \* how far ahead a timer is set
          Intervals,       \* the intervals; 0 is a timer that does not repeat
          Past,            \* how far back times are told apart
          SlowCallbacks,   \* may time pass while timers' callbacks run?
          ExactHit,        \* may handleRead run in the unit a timer is due?
          ForeignCancels,  \* which timers other threads may cancel
          MaxQueued        \* bounds the functors that wait when another thread cancels

ASSUME TimersAssumption == IsFiniteSet(Timers)
ASSUME TimesAssumption == /\ Delays \subseteq Int
                          /\ Intervals \subseteq Nat
                          /\ Past \in Nat \ {0}
ASSUME ChoicesAssumption == /\ SlowCallbacks \in BOOLEAN
                            /\ ExactHit \in BOOLEAN
                            /\ ForeignCancels \subseteq {"once", "repeat"}
                            /\ MaxQueued \in Nat

VARIABLES unused,        \* Timer objects not created yet
          due,           \* expiredTime_ - now
          interval,      \* interval_
          timers,        \* the timers in timers_ (which orders them by due)
          activeTimers,  \* activeTimers_
          canceling,     \* cancelingTimers_
          calling,       \* callingExpiredTimers_
          batch,         \* handleRead's local expiredTimers
          ran,           \* how many of them have been started
          late,          \* time since handleRead read the clock
          alarm,         \* time left on the timerfd, or Never
          queue,         \* the loop's pending functors
          cancelled,     \* history: timers whose cancelInLoop found them added
          failed         \* the assertion that failed, or "none"

timerVars == <<unused, due, interval, timers, activeTimers>>
vars == <<unused, due, interval, timers, activeTimers, canceling, calling,
          batch, ran, late, alarm, queue, cancelled, failed>>

Never == -1                       \* the timerfd is disarmed
InBatch == {batch[i] : i \in 1 .. Len(batch)}
Idle == ~calling /\ failed = "none"

Init == /\ unused = Timers
        /\ due = [t \in Timers |-> 0]
        /\ interval = [t \in Timers |-> 0]
        /\ timers = {}
        /\ activeTimers = {}
        /\ canceling = {}
        /\ calling = FALSE
        /\ batch = <<>>
        /\ ran = 0
        /\ late = 0
        /\ alarm = Never
        /\ queue = <<>>
        /\ cancelled = {}
        /\ failed = "none"

\* Is the timer's addTimerInLoop still queued?
ToBeAdded(t) == \E i \in 1 .. Len(queue) : queue[i] = [op |-> "add", timer |-> t]

\* Is there a shared_ptr to the timer?
Alive(t) == \/ t \in timers
            \/ t \in canceling
            \/ t \in InBatch
            \/ ToBeAdded(t)

Repeats(t) == interval[t] > 0
Later(x, y) == IF x > y THEN x ELSE y

\* resetTimerfd: never less than one unit.
TimerfdFor(when) == Later(when, 1)

\* Would a timer due at `when' be the first in timers_?
IsEarliest(when) == \A t \in timers : when < due[t]
-----------------------------------------------------------------------------
\* Time passes.
Tick == /\ failed = "none"
        /\ calling => SlowCallbacks
        /\ due' = [t \in Timers |-> IF t \in unused THEN 0 ELSE Later(due[t] - 1, -Past)]
        /\ alarm' = IF alarm = Never THEN Never ELSE Later(alarm - 1, 0)
        /\ late' = IF calling /\ late < Past THEN late + 1 ELSE late
        /\ UNCHANGED <<unused, interval, timers, activeTimers, canceling, calling,
                       batch, ran, queue, cancelled, failed>>

\* Mutant: the timerfd is set only for the first timer.
AddTimerArmsFirst(t, when) ==
    /\ timers' = timers \union {t}
    /\ activeTimers' = activeTimers \union {t}
    /\ alarm' = IF timers = {} THEN TimerfdFor(when) ELSE alarm

\* addTimerInLoop: insert, and set the timerfd if the timer is the earliest.
AddTimerInLoop(t, when) ==
    /\ timers' = timers \union {t}
    /\ activeTimers' = activeTimers \union {t}
    /\ alarm' = IF IsEarliest(when) THEN TimerfdFor(when) ELSE alarm

\* Mutant: the cancelled timer leaves activeTimers_ only.
CancelInOneSet(t) ==
    /\ cancelled' = IF ToBeAdded(t) THEN cancelled ELSE cancelled \union {t}
    /\ activeTimers' = activeTimers \ {t}
    /\ canceling' = IF calling /\ t \notin activeTimers THEN canceling \union {t}
                                                         ELSE canceling
    /\ UNCHANGED timers

\* cancelInLoop for a timer that still exists.
CancelInLoop(t) ==
    /\ cancelled' = IF ToBeAdded(t) THEN cancelled ELSE cancelled \union {t}
    /\ IF t \in activeTimers
       THEN /\ timers' = timers \ {t}
            /\ activeTimers' = activeTimers \ {t}
            /\ UNCHANGED canceling
       ELSE /\ canceling' = IF calling THEN canceling \union {t} ELSE canceling
            /\ UNCHANGED <<timers, activeTimers>>

\* A timer is created: runAt, runAfter (no interval) or runEvery (due now).
Create(t, d, i) == /\ failed = "none"
                   /\ t \in unused
                   /\ i > 0 => d = 0
                   /\ unused' = unused \ {t}
                   /\ due' = [due EXCEPT ![t] = d]
                   /\ interval' = [interval EXCEPT ![t] = i]

\* The loop's thread runs user code between handlers and in a timer's callback.
LoopUserCode == failed = "none" /\ (calling => ran > 0)

AddFromLoop(t, d, i) ==
    /\ LoopUserCode
    /\ Create(t, d, i)
    /\ AddTimerInLoop(t, d)
    /\ UNCHANGED <<canceling, calling, batch, ran, late, queue, cancelled, failed>>

CancelFromLoop(t) ==
    /\ LoopUserCode
    /\ t \notin unused
    /\ Alive(t)
    /\ CancelInLoop(t)
    /\ UNCHANGED <<unused, due, interval, calling, batch, ran, late, alarm, queue, failed>>

\* The same from another thread: the work goes through queueInLoop.
AddFromThread(t, d, i) ==
    /\ Create(t, d, i)
    /\ queue' = Append(queue, [op |-> "add", timer |-> t])
    /\ UNCHANGED <<timers, activeTimers, canceling, calling, batch, ran, late,
                   alarm, cancelled, failed>>

CancelFromThread(t) ==
    /\ failed = "none"
    /\ t \notin unused
    /\ (IF Repeats(t) THEN "repeat" ELSE "once") \in ForeignCancels
    /\ Len(queue) < MaxQueued
    /\ Alive(t)
    /\ queue' = Append(queue, [op |-> "cancel", timer |-> t])
    /\ UNCHANGED <<timerVars, canceling, calling, batch, ran, late, alarm,
                   cancelled, failed>>

\* The loop runs a queued functor; cancelInLoop asserts that the timer lives.
RunFunctor ==
    LET t == Head(queue).timer
    IN  /\ Idle
        /\ queue # <<>>
        /\ \/ /\ Head(queue).op = "add"
              /\ AddTimerInLoop(t, due[t])
              /\ queue' = Tail(queue)
              /\ UNCHANGED <<canceling, cancelled, failed>>
           \/ /\ Head(queue).op = "cancel"
              /\ Alive(t)
              /\ CancelInLoop(t)
              /\ queue' = Tail(queue)
              /\ UNCHANGED <<alarm, failed>>
           \/ /\ Head(queue).op = "cancel"
              /\ ~Alive(t)
              /\ failed' = "cancelTimer"
              /\ UNCHANGED <<timers, activeTimers, canceling, alarm, queue, cancelled>>
        /\ UNCHANGED <<unused, due, interval, calling, batch, ran, late>>
-----------------------------------------------------------------------------
\* handleRead up to the callbacks: read the timerfd and take out the expired
\* timers.  getExpired takes those due strictly before now, and asserts that
\* the first one it leaves is due strictly after now.
\* (Its mutant takes all of them.)
ExpiredAll == timers

Expired == {t \in timers : due[t] < 0}

\* The orders in which timers_ may hold the timers of S: by due time, and by
\* address for equal times.
InOrder(S) == {s \in [1 .. Cardinality(S) -> S] :
                  /\ {s[i] : i \in 1 .. Cardinality(S)} = S
                  /\ \A i, j \in 1 .. Cardinality(S) : i < j => due[s[i]] <= due[s[j]]}

HandleRead ==
    /\ Idle
    /\ alarm = 0
    /\ ExactHit \/ \A t \in timers : due[t] # 0
    /\ alarm' = Never
    /\ late' = 0
    /\ calling' = TRUE
    /\ ran' = 0
    /\ canceling' = {}
    /\ IF \E t \in timers : due[t] = 0
       THEN failed' = "getExpired" /\ UNCHANGED <<timers, activeTimers, batch>>
       ELSE /\ timers' = timers \ Expired
            /\ activeTimers' = activeTimers \ Expired
            /\ batch' \in InOrder(Expired)
            /\ UNCHANGED failed
    /\ UNCHANGED <<unused, due, interval, queue, cancelled>>

\* The callback of the next expired timer starts.
RunTimer == /\ failed = "none"
            /\ calling
            /\ ran < Len(batch)
            /\ ran' = ran + 1
            /\ UNCHANGED <<timerVars, canceling, calling, batch, late, alarm,
                           queue, cancelled, failed>>

\* Mutants of reset(): cancelled timers are set again; none is; the timerfd
\* is left alone.
AgainAll == {t \in InBatch : Repeats(t)}
AgainNone == {}
NoRearm(first) == alarm

\* reset(): repeat the timers that repeat and were not cancelled meanwhile;
\* set the timerfd if the earliest timer is not already due.
Again == {t \in InBatch : Repeats(t) /\ t \notin canceling}
Restarted == [t \in Timers |-> IF t \in Again THEN Later(interval[t] - late, -Past)
                                               ELSE due[t]]
Rearm(first) == IF first >= 0 THEN TimerfdFor(first) ELSE alarm

Reset ==
    LET all == timers \union Again
    IN  /\ failed = "none"
        /\ calling
        /\ ran = Len(batch)
        /\ due' = Restarted
        /\ timers' = all
        /\ activeTimers' = activeTimers \union Again
        /\ \/ all = {} /\ UNCHANGED alarm
           \/ \E t \in all : /\ \A s \in all : Restarted[t] <= Restarted[s]
                             /\ alarm' = Rearm(Restarted[t])
        /\ calling' = FALSE
        /\ batch' = <<>>
        /\ ran' = 0
        /\ late' = 0
        /\ UNCHANGED <<unused, interval, canceling, queue, cancelled, failed>>
-----------------------------------------------------------------------------
LoopStep == HandleRead \/ RunTimer \/ Reset \/ RunFunctor

UserStep(t) == \/ \E d \in Delays, i \in Intervals : AddFromLoop(t, d, i)
                                                      \/ AddFromThread(t, d, i)
               \/ CancelFromLoop(t) \/ CancelFromThread(t)

Next == Tick \/ LoopStep \/ \E t \in Timers : UserStep(t)

\* Time passes and the loop's thread runs (callbacks return); every turn of loop()
\* handles the descriptors that are ready, the timerfd among them, before the functors.
Fairness == WF_vars(Tick) /\ WF_vars(LoopStep) /\ WF_vars(HandleRead)

Spec == Init /\ [][Next]_vars
FairSpec == Spec /\ Fairness
-----------------------------------------------------------------------------
Functors == [op : {"add", "cancel"}, timer : Timers]

\* The types of the variables.
TypeOK == /\ unused \subseteq Timers
          /\ due \in [Timers -> Int]
          /\ interval \in [Timers -> Intervals \union {0}]
          /\ timers \subseteq Timers
          /\ activeTimers \subseteq Timers
          /\ canceling \subseteq Timers
          /\ calling \in BOOLEAN
          /\ batch \in Seq(Timers)
          /\ ran \in 0 .. Len(batch)
          /\ late \in 0 .. Past
          /\ alarm \in Nat \union {Never}
          /\ queue \in Seq(Functors)
          /\ cancelled \subseteq Timers
          /\ failed \in {"none", "getExpired", "cancelTimer"}

\* No timer is lost or doubled: the two containers agree (the assertion on
\* their sizes all over TimerQueue.cpp), and a timer that is being called is
\* in neither of them.
ContainersAgree == timers = activeTimers /\ timers \intersect InBatch = {}

\* The loop wakes for its earliest timer: between handlers the timerfd is set
\* for a time no later than the earliest due time, or one unit from now.
TimerfdArmed == (Idle /\ timers # {}) =>
                    /\ alarm # Never
                    /\ alarm <= 1 \/ \A t \in timers : alarm <= due[t]

\* A callback never runs before its time.
NeverEarly == calling => \A i \in 1 .. ran : due[batch[i]] <= 0

\* No assertion of TimerQueue.cpp fails but one, that of cancelInLoop about the timer
\* of the functor that runs: a cancellation queued by another thread may find a timer
\* gone that does not repeat, or one that an earlier cancellation has taken out.  A
\* timer that repeats is there until a cancellation of it has been carried out.
NoAssertionFails ==
    \/ failed = "none"
    \/ /\ failed = "cancelTimer"
       /\ LET t == Head(queue).timer IN ~Repeats(t) \/ t \in cancelled

\* Once its cancelInLoop has run, a timer is not set again, whether it was
\* waiting, being called, or cancelled by itself.  (A cancellation that
\* overtakes addTimerInLoop, which is possible in the loop's thread for a timer
\* of another thread, has no effect, and is not counted.)
CancelledStaysOut == cancelled \intersect timers = {}

\* Every timer that waits is called or cancelled: no timer stalls while the
\* program runs.
TimersFire ==
    \A t \in Timers : (t \in timers) ~> (t \notin timers \/ failed # "none")
=============================================================================
