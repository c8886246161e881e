-------------------------- MODULE TimerQueueProofs --------------------------
(***************************************************************************)
(* Proofs about TimerQueue, for any finite set of timers: its types, that  *)
(* the containers agree, that a cancelled timer stays out, that none fires *)
(* early, that the timerfd stays armed, and that no assertion fails.       *)
(* And about ProcessTimerQueue, as far as it is safe.                      *)
(***************************************************************************)
EXTENDS ProcessTimerQueue, FiniteSetTheorems, SequenceTheorems, TLAPS

\* The types without those of the timerfd and of failed.
Types == /\ unused \subseteq Timers
         /\ due \in [Timers -> Int]
         /\ interval \in [Timers -> Intervals \union {0}]
         /\ timers \subseteq Timers
         /\ activeTimers \subseteq Timers
         /\ canceling \subseteq Timers
         /\ calling \in BOOLEAN
         /\ batch \in Seq(Timers)
         /\ ran \in 0 .. Len(batch)
         /\ late \in 0 .. Past
         /\ queue \in Seq(Functors)
         /\ cancelled \subseteq Timers

LEMMA TypesOfTypeOK == TypeOK => Types
  BY DEF TypeOK, Types

\* The local vector of handleRead exists only while the timers are called.
BatchInv == ~calling => batch = <<>> /\ late = 0

\* A Timer object that was not created is nowhere.
UnusedInv == unused \intersect (timers \union InBatch \union cancelled) = {}

\* The functors that wait are about timers that were created; what has been
\* cancelled may be cancelled once more, but is not added again.
QueueInv ==
    \A i \in 1 .. Len(queue) :
        /\ queue[i].timer \notin unused
        /\ queue[i].op = "add" => queue[i].timer \notin cancelled

\* A cancelled timer that is being called is marked, so that reset() leaves it.
CancelInv == cancelled \intersect InBatch \subseteq canceling

\* The timers that are called are due.
DueInv == \A t \in InBatch : due[t] <= 0

SafeInv == /\ BatchInv
           /\ UnusedInv
           /\ ContainersAgree
           /\ QueueInv
           /\ CancelInv
           /\ CancelledStaysOut
           /\ DueInv
-----------------------------------------------------------------------------
LEMMA LaterInt == ASSUME NEW x \in Int, NEW y \in Int
                  PROVE  /\ Later(x, y) \in Int
                         /\ Later(x, y) >= x /\ Later(x, y) >= y
                         /\ Later(x, y) = x \/ Later(x, y) = y
  BY DEF Later

\* The seconds argument of resetTimerfd is positive.
LEMMA TimerfdForNat == ASSUME NEW x \in Int
                       PROVE  TimerfdFor(x) \in Nat /\ TimerfdFor(x) >= 1
  BY DEF TimerfdFor, Later

\* What getExpired returns holds the expired timers and no other.
LEMMA InOrderIsSeq ==
    ASSUME NEW S, S \subseteq Timers, NEW s \in InOrder(S)
    PROVE  s \in Seq(Timers) /\ {s[i] : i \in 1 .. Len(s)} = S
<1>1. Cardinality(S) \in Nat
  BY TimersAssumption, FS_Subset, FS_CardinalityType DEF TimersAssumption
<1>2. s \in [1 .. Cardinality(S) -> S]
  BY DEF InOrder
<1>3. s \in Seq(S) /\ Len(s) = Cardinality(S)
  BY <1>1, <1>2
<1>4. s \in Seq(Timers)
  BY <1>3
<1> QED
  BY <1>3, <1>4 DEF InOrder
-----------------------------------------------------------------------------
\* The helpers keep their types.
LEMMA AddKeepsTypes ==
    ASSUME TypeOK, NEW t \in Timers, NEW when \in Int, AddTimerInLoop(t, when)
    PROVE  timers' \subseteq Timers /\ activeTimers' \subseteq Timers
           /\ alarm' \in Nat \union {Never}
  BY TimerfdForNat DEF TypeOK, AddTimerInLoop

LEMMA CancelKeepsTypes ==
    ASSUME TypeOK, NEW t \in Timers, CancelInLoop(t)
    PROVE  timers' \subseteq Timers /\ activeTimers' \subseteq Timers
           /\ canceling' \subseteq Timers /\ cancelled' \subseteq Timers
  BY DEF TypeOK, CancelInLoop

LEMMA CreateKeepsTypes ==
    ASSUME TypeOK, NEW t \in Timers, NEW d \in Int, NEW i \in Intervals, Create(t, d, i)
    PROVE  unused' \subseteq Timers /\ due' \in [Timers -> Int]
           /\ interval' \in [Timers -> Intervals \union {0}]
  BY DEF TypeOK, Create

LEMMA RestartedType == ASSUME TypeOK
                       PROVE  Restarted \in [Timers -> Int] /\ Again \subseteq Timers
<1>1. Again \subseteq Timers
  BY DEF Again, InBatch, TypeOK
<1>2. ASSUME NEW t \in Timers
      PROVE  Later(interval[t] - late, -Past) \in Int /\ due[t] \in Int
  <2>1. interval[t] - late \in Int /\ -Past \in Int
    <3>1. interval[t] \in Intervals \union {0} /\ late \in 0 .. Past
      BY DEF TypeOK
    <3>2. Intervals \union {0} \subseteq Int /\ Past \in Nat
      BY TimesAssumption DEF TimesAssumption
    <3>3. late \in Int
      BY <3>1, <3>2
    <3> QED
      BY <3>1, <3>2, <3>3
  <2> QED
    BY <2>1, LaterInt DEF TypeOK
<1> QED
  BY <1>1, <1>2 DEF Restarted

LEMMA AppendKeepsTypes ==
    ASSUME TypeOK, NEW f \in Functors, queue' = Append(queue, f)
    PROVE  queue' \in Seq(Functors)
  BY DEF TypeOK

\* The variables keep their types.
THEOREM TypeCorrect == Spec => []TypeOK
<1>1. Init => TypeOK
  <2> SUFFICES ASSUME Init PROVE TypeOK
    OBVIOUS
  <2>1. <<>> \in Seq(Timers) /\ <<>> \in Seq(Functors) /\ Len(<<>>) = 0
    OBVIOUS
  <2>2. due \in [Timers -> Int] /\ interval \in [Timers -> Intervals \union {0}]
    BY DEF Init
  <2>3. TypeOK
    <3>1. late \in 0 .. Past /\ alarm \in Nat \union {Never} /\ ran \in 0 .. Len(batch)
      BY <2>1, TimesAssumption DEF Init, TimesAssumption
    <3> QED
      BY <2>1, <2>2, <3>1 DEF Init, TypeOK
  <2> QED
    BY <2>3
<1>2. TypeOK /\ [Next]_vars => TypeOK'
  <2> SUFFICES ASSUME TypeOK, [Next]_vars PROVE TypeOK'
    OBVIOUS
  <2> USE TimesAssumption DEF timerVars, TimesAssumption
  <2>1. CASE Tick
    <3>1. due' \in [Timers -> Int]
      BY <2>1 DEF Tick, TypeOK, Later
    <3>2. alarm' \in Nat \union {Never} /\ late' \in 0 .. Past
      BY <2>1 DEF Tick, TypeOK, Later, Never
    <3> QED
      BY <2>1, <3>1, <3>2 DEF Tick, TypeOK
  <2>2. CASE HandleRead
    <3>1. Expired \subseteq Timers
      BY DEF Expired, TypeOK
    <3>2. batch' \in Seq(Timers) /\ 0 \in 0 .. Len(batch')
      BY <2>2, <3>1, InOrderIsSeq DEF HandleRead, TypeOK
    <3>3. timers' \subseteq Timers /\ activeTimers' \subseteq Timers
      BY <2>2 DEF HandleRead, TypeOK
    <3>4. failed' \in {"none", "getExpired", "cancelTimer"}
      BY <2>2 DEF HandleRead, TypeOK
    <3> QED
      BY <2>2, <3>2, <3>3, <3>4 DEF HandleRead, TypeOK
  <2>3. CASE RunTimer
    BY <2>3 DEF RunTimer, TypeOK
  <2>4. CASE Reset
    <3>1. /\ due' \in [Timers -> Int]
          /\ timers' \subseteq Timers /\ activeTimers' \subseteq Timers
      BY <2>4, RestartedType DEF Reset, TypeOK
    <3>2. alarm' \in Nat \union {Never}
      <4>1. CASE UNCHANGED alarm
        BY <4>1 DEF TypeOK
      <4>2. ASSUME NEW t \in Timers, alarm' = Rearm(due'[t]) PROVE alarm' \in Nat \union {Never}
        BY <4>2, <3>1, TimerfdForNat DEF Rearm, TypeOK
      <4> QED
        BY <2>4, <3>1, <4>1, <4>2 DEF Reset
    <3>3. batch' \in Seq(Timers) /\ ran' \in 0 .. Len(batch') /\ late' \in 0 .. Past
      BY <2>4 DEF Reset
    <3> QED
      BY <2>4, <3>1, <3>2, <3>3 DEF Reset, TypeOK
  <2>5. CASE RunFunctor
    <3>1. Head(queue) \in Functors /\ Tail(queue) \in Seq(Functors)
      BY <2>5 DEF RunFunctor, TypeOK
    <3>2. Head(queue).timer \in Timers /\ due[Head(queue).timer] \in Int
      BY <3>1 DEF Functors, TypeOK
    <3> DEFINE t == Head(queue).timer
    <3>3. CASE /\ AddTimerInLoop(t, due[t]) /\ queue' = Tail(queue)
               /\ UNCHANGED <<canceling, cancelled, failed>>
      BY <2>5, <3>1, <3>2, <3>3, AddKeepsTypes DEF RunFunctor, TypeOK
    <3>4. CASE /\ CancelInLoop(t) /\ queue' = Tail(queue)
               /\ UNCHANGED <<alarm, failed>>
      BY <2>5, <3>1, <3>2, <3>4, CancelKeepsTypes DEF RunFunctor, TypeOK
    <3>5. CASE /\ failed' = "cancelTimer"
               /\ UNCHANGED <<timers, activeTimers, canceling, alarm, queue, cancelled>>
      BY <2>5, <3>1, <3>5 DEF RunFunctor, TypeOK
    <3> QED
      BY <2>5, <3>3, <3>4, <3>5 DEF RunFunctor
  <2>6. ASSUME NEW t \in Timers, NEW d \in Delays, NEW i \in Intervals, AddFromLoop(t, d, i)
        PROVE  TypeOK'
    BY <2>6, AddKeepsTypes, CreateKeepsTypes DEF AddFromLoop, TypeOK
  <2>7. ASSUME NEW t \in Timers, NEW d \in Delays, NEW i \in Intervals, AddFromThread(t, d, i)
        PROVE  TypeOK'
    BY <2>7, CreateKeepsTypes, AppendKeepsTypes DEF AddFromThread, TypeOK, Functors
  <2>8. ASSUME NEW t \in Timers, CancelFromLoop(t) PROVE TypeOK'
    BY <2>8, CancelKeepsTypes DEF CancelFromLoop, TypeOK
  <2>9. ASSUME NEW t \in Timers, CancelFromThread(t) PROVE TypeOK'
    BY <2>9, AppendKeepsTypes DEF CancelFromThread, TypeOK, Functors
  <2>10. CASE UNCHANGED vars
    BY <2>10 DEF vars, TypeOK
  <2> QED
    BY <2>1, <2>2, <2>3, <2>4, <2>5, <2>6, <2>7, <2>8, <2>9, <2>10
       DEF Next, LoopStep, UserStep
<1> QED
  BY <1>1, <1>2, PTL DEF Spec
-----------------------------------------------------------------------------
\* What stands where in the queue after a push and after a pop.
LEMMA AfterAppend ==
    ASSUME TypeOK, NEW f \in Functors, queue' = Append(queue, f)
    PROVE  /\ Len(queue) \in Nat /\ Len(queue') = Len(queue) + 1
           /\ \A i \in 1 .. Len(queue) : queue'[i] = queue[i]
           /\ queue'[Len(queue) + 1] = f
  BY DEF TypeOK

LEMMA AfterTail ==
    ASSUME TypeOK, queue # <<>>, queue' = Tail(queue)
    PROVE  /\ Len(queue) \in Nat \ {0} /\ Len(queue') = Len(queue) - 1
           /\ \A i \in 1 .. Len(queue') : i + 1 \in 1 .. Len(queue) /\ queue'[i] = queue[i + 1]
  BY DEF TypeOK

LEMMA FirstQueued ==
    ASSUME TypeOK, queue # <<>>
    PROVE  1 \in 1 .. Len(queue) /\ Head(queue) = queue[1] /\ queue[1] \in Functors
  BY DEF TypeOK

LEMMA NoBatch == ASSUME batch = <<>> PROVE InBatch = {}
  BY DEF InBatch

LEMMA SameBatch == ASSUME batch' = batch PROVE InBatch' = InBatch
  BY DEF InBatch

\* handleRead moves the expired timers from timers_ into its local vector.
LEMMA ReadBatch ==
    ASSUME Types, SafeInv, HandleRead
    PROVE  /\ timers' \union InBatch' = timers
           /\ timers' \intersect InBatch' = {}
           /\ activeTimers' = activeTimers \ InBatch'
           /\ \A t \in InBatch' : due[t] < 0
<1>1. CASE \E t \in timers : due[t] = 0
  <2>1. InBatch' = {}
    BY <1>1, NoBatch, SameBatch DEF HandleRead, Idle, SafeInv, BatchInv
  <2> QED
    BY <1>1, <2>1 DEF HandleRead
<1>2. CASE ~ \E t \in timers : due[t] = 0
  <2>1. Expired \subseteq timers /\ Expired \subseteq Timers
    BY DEF Expired, Types
  <2>2. InBatch' = Expired
    BY <1>2, <2>1, InOrderIsSeq DEF HandleRead, InBatch
  <2> QED
    BY <1>2, <2>1, <2>2 DEF HandleRead, Expired
<1> QED
  BY <1>1, <1>2
-----------------------------------------------------------------------------
\* One lemma per group of actions: what it does to SafeInv.
LEMMA TickIsSafe == ASSUME Types, SafeInv, Tick PROVE SafeInv'
<1>1. /\ InBatch' = InBatch
      /\ UNCHANGED <<unused, timers, activeTimers, canceling, calling, batch, queue,
                     cancelled>>
  BY SameBatch DEF Tick
<1>2. DueInv'
  <2>1. ASSUME NEW t \in InBatch PROVE due'[t] <= 0
    <3>1. t \in Timers \ unused /\ due[t] \in Int /\ due[t] <= 0
      BY DEF SafeInv, DueInv, UnusedInv, InBatch, Types
    <3>2. due'[t] = Later(due[t] - 1, -Past) /\ -Past <= 0 /\ Past \in Nat
      BY <3>1, TimesAssumption DEF Tick, TimesAssumption
    <3> QED
      BY <3>1, <3>2 DEF Later
  <2> QED
    BY <1>1, <2>1 DEF DueInv
<1>3. BatchInv'
  BY DEF Tick, SafeInv, BatchInv
<1> QED
  BY <1>1, <1>2, <1>3
     DEF SafeInv, UnusedInv, ContainersAgree, QueueInv, CancelInv, CancelledStaysOut

LEMMA HandleReadIsSafe == ASSUME Types, SafeInv, HandleRead PROVE SafeInv'
<1> USE ReadBatch
<1>1. BatchInv'
  BY DEF HandleRead, BatchInv
<1>2. UnusedInv' /\ ContainersAgree' /\ CancelledStaysOut' /\ CancelInv'
  BY DEF HandleRead, SafeInv, UnusedInv, ContainersAgree, CancelledStaysOut, CancelInv
<1>3. QueueInv'
  BY DEF HandleRead, SafeInv, QueueInv
<1>4. DueInv'
  <2>1. \A t \in InBatch' : due[t] \in Int
    BY DEF Types
  <2> QED
    BY <2>1 DEF HandleRead, DueInv
<1> QED
  BY <1>1, <1>2, <1>3, <1>4 DEF SafeInv

LEMMA ResetIsSafe == ASSUME TypeOK, SafeInv, Reset PROVE SafeInv'
<1>1. InBatch' = {} /\ Again \subseteq InBatch /\ Again \intersect canceling = {}
  BY DEF Reset, InBatch, Again
<1>2. timers' = timers \union Again /\ activeTimers' = activeTimers \union Again
  BY DEF Reset
<1>3. UnusedInv' /\ ContainersAgree' /\ CancelInv' /\ CancelledStaysOut'
  BY <1>1, <1>2 DEF Reset, SafeInv, UnusedInv, ContainersAgree, CancelInv, CancelledStaysOut
<1>4. BatchInv' /\ QueueInv' /\ DueInv'
  BY <1>1 DEF Reset, SafeInv, BatchInv, QueueInv, DueInv
<1> QED
  BY <1>3, <1>4 DEF SafeInv

\* A new timer gets into both containers, wherever addTimer is called.
LEMMA AddFromLoopIsSafe ==
    ASSUME TypeOK, SafeInv, NEW t \in Timers, NEW d \in Delays, NEW i \in Intervals,
           AddFromLoop(t, d, i)
    PROVE  SafeInv'
<1>1. /\ InBatch' = InBatch /\ t \in unused /\ unused' = unused \ {t}
      /\ timers' = timers \union {t} /\ activeTimers' = activeTimers \union {t}
      /\ due' = [due EXCEPT ![t] = d]
      /\ UNCHANGED <<canceling, calling, batch, late, queue, cancelled>>
  BY SameBatch DEF AddFromLoop, AddTimerInLoop, Create
<1>2. BatchInv' /\ UnusedInv' /\ ContainersAgree' /\ CancelInv' /\ CancelledStaysOut'
  BY <1>1 DEF SafeInv, BatchInv, UnusedInv, ContainersAgree, CancelInv, CancelledStaysOut
<1>3. QueueInv'
  BY <1>1 DEF SafeInv, QueueInv
<1>4. DueInv'
  BY <1>1 DEF SafeInv, UnusedInv, DueInv, TypeOK
<1> QED
  BY <1>2, <1>3, <1>4 DEF SafeInv

LEMMA AddFromThreadIsSafe ==
    ASSUME TypeOK, SafeInv, NEW t \in Timers, NEW d \in Delays, NEW i \in Intervals,
           AddFromThread(t, d, i)
    PROVE  SafeInv'
<1> DEFINE f == [op |-> "add", timer |-> t]
<1>1. /\ InBatch' = InBatch /\ t \in unused /\ unused' = unused \ {t}
      /\ due' = [due EXCEPT ![t] = d]
      /\ queue' = Append(queue, f) /\ f \in Functors
      /\ UNCHANGED <<timers, activeTimers, canceling, calling, batch, late, cancelled>>
  BY SameBatch DEF AddFromThread, Create, Functors
<1>2. BatchInv' /\ UnusedInv' /\ ContainersAgree' /\ CancelInv' /\ CancelledStaysOut'
  BY <1>1 DEF SafeInv, BatchInv, UnusedInv, ContainersAgree, CancelInv, CancelledStaysOut
<1>3. QueueInv'
  <2>1. t \notin cancelled
    BY <1>1 DEF SafeInv, UnusedInv
  <2> HIDE DEF f
  <2>2. f.op = "add" /\ f.timer = t
    BY DEF f
  <2> QED
    BY <1>1, <2>1, <2>2, AfterAppend DEF SafeInv, QueueInv
<1>4. DueInv'
  BY <1>1 DEF SafeInv, UnusedInv, DueInv, TypeOK
<1> QED
  BY <1>2, <1>3, <1>4 DEF SafeInv
-----------------------------------------------------------------------------
\* What cancelInLoop does to the containers.
LEMMA CancelTakesOut ==
    ASSUME TypeOK, SafeInv, NEW t \in Timers \ unused, CancelInLoop(t),
           batch' = batch, calling' = calling, unused' = unused
    PROVE  /\ InBatch' = InBatch
           /\ timers' \subseteq timers /\ ContainersAgree'
           /\ CancelInv' /\ CancelledStaysOut'
           /\ cancelled' = IF ToBeAdded(t) THEN cancelled ELSE cancelled \union {t}
<1>1. InBatch' = InBatch /\ (~calling => InBatch = {})
  BY SameBatch, NoBatch DEF SafeInv, BatchInv
<1>2. CASE t \in activeTimers
  BY <1>1, <1>2 DEF CancelInLoop, SafeInv, ContainersAgree, CancelInv, CancelledStaysOut
<1>3. CASE t \notin activeTimers
  BY <1>1, <1>3 DEF CancelInLoop, SafeInv, ContainersAgree, CancelInv, CancelledStaysOut
<1> QED
  BY <1>2, <1>3

\* A functor of a timer adds it or cancels it.
LEMMA AddOrCancel ==
    ASSUME TypeOK, NEW t \in Timers, ~ToBeAdded(t), NEW i \in 1 .. Len(queue),
           queue[i].timer = t
    PROVE  queue[i].op = "cancel"
<1>1. queue[i] \in Functors
  BY DEF TypeOK
<1> QED
  BY <1>1 DEF Functors, ToBeAdded

LEMMA CancelFromLoopIsSafe ==
    ASSUME TypeOK, SafeInv, NEW t \in Timers, CancelFromLoop(t)
    PROVE  SafeInv'
<1>1. /\ t \notin unused /\ CancelInLoop(t)
      /\ UNCHANGED <<unused, due, calling, batch, late, queue>>
  BY DEF CancelFromLoop
<1>2. /\ InBatch' = InBatch /\ timers' \subseteq timers
      /\ ContainersAgree' /\ CancelInv' /\ CancelledStaysOut'
      /\ cancelled' = IF ToBeAdded(t) THEN cancelled ELSE cancelled \union {t}
  BY <1>1, CancelTakesOut
<1>3. BatchInv' /\ UnusedInv' /\ DueInv'
  BY <1>1, <1>2 DEF SafeInv, BatchInv, UnusedInv, DueInv
<1>4. QueueInv'
  <2>1. CASE ToBeAdded(t)
    BY <1>1, <1>2, <2>1 DEF SafeInv, QueueInv
  <2>2. CASE ~ToBeAdded(t)
    <3>1. \A i \in 1 .. Len(queue) : queue[i].timer = t => queue[i].op # "add"
      BY <2>2, AddOrCancel
    <3> QED
      BY <1>1, <1>2, <2>2, <3>1 DEF SafeInv, QueueInv
  <2> QED
    BY <2>1, <2>2
<1> QED
  BY <1>2, <1>3, <1>4 DEF SafeInv

LEMMA CancelFromThreadIsSafe ==
    ASSUME TypeOK, SafeInv, NEW t \in Timers, CancelFromThread(t)
    PROVE  SafeInv'
<1> DEFINE f == [op |-> "cancel", timer |-> t]
<1>1. /\ InBatch' = InBatch
      /\ t \notin unused
      /\ queue' = Append(queue, f) /\ f \in Functors
      /\ UNCHANGED <<unused, due, timers, activeTimers, canceling, calling, batch, late,
                     cancelled>>
  BY SameBatch DEF CancelFromThread, timerVars, Functors
<1>2. /\ BatchInv' /\ UnusedInv' /\ ContainersAgree' /\ CancelInv'
      /\ CancelledStaysOut' /\ DueInv'
  BY <1>1 DEF SafeInv, BatchInv, UnusedInv, ContainersAgree, CancelInv, CancelledStaysOut,
              DueInv
<1>3. QueueInv'
  <2> HIDE DEF f
  <2>1. f.op = "cancel" /\ f.timer = t
    BY DEF f
  <2> QED
    BY <1>1, <2>1, AfterAppend DEF SafeInv, QueueInv
<1> QED
  BY <1>2, <1>3 DEF SafeInv

LEMMA RunFunctorIsSafe == ASSUME TypeOK, SafeInv, RunFunctor PROVE SafeInv'
<1> DEFINE t == Head(queue).timer
<1>1. /\ queue # <<>> /\ ~calling
      /\ UNCHANGED <<unused, due, calling, batch, late>>
  BY DEF RunFunctor, Idle
<1>2. /\ t \in Timers /\ t \notin unused
      /\ Head(queue).op = "add" => t \notin cancelled
  BY <1>1, FirstQueued DEF SafeInv, QueueInv, Functors
<1>3. InBatch' = InBatch /\ InBatch = {}
  BY <1>1, SameBatch, NoBatch DEF SafeInv, BatchInv
<1>4. BatchInv' /\ DueInv'
  BY <1>1, <1>3 DEF SafeInv, BatchInv, DueInv
<1>5. CASE /\ Head(queue).op = "add"
           /\ AddTimerInLoop(t, due[t])
           /\ queue' = Tail(queue)
           /\ UNCHANGED <<canceling, cancelled, failed>>
  <2>1. UnusedInv' /\ ContainersAgree' /\ CancelInv' /\ CancelledStaysOut'
    BY <1>1, <1>2, <1>3, <1>5
       DEF AddTimerInLoop, SafeInv, UnusedInv, ContainersAgree, CancelInv, CancelledStaysOut
  <2>2. QueueInv'
    BY <1>1, <1>5, AfterTail DEF SafeInv, QueueInv
  <2> QED
    BY <1>4, <2>1, <2>2 DEF SafeInv
<1>6. CASE CancelInLoop(t) /\ queue' = Tail(queue)
  <2>1. /\ timers' \subseteq timers /\ ContainersAgree' /\ CancelInv' /\ CancelledStaysOut'
        /\ cancelled' = IF ToBeAdded(t) THEN cancelled ELSE cancelled \union {t}
    BY <1>1, <1>2, <1>6, CancelTakesOut
  <2>2. UnusedInv'
    BY <1>1, <1>2, <1>3, <2>1 DEF SafeInv, UnusedInv
  <2>3. QueueInv'
    <3>1. SUFFICES ASSUME NEW i \in 1 .. Len(queue')
                   PROVE  /\ queue'[i].timer \notin unused
                          /\ queue'[i].op = "add" => queue'[i].timer \notin cancelled'
      BY <1>1 DEF QueueInv
    <3>2. i + 1 \in 1 .. Len(queue) /\ queue'[i] = queue[i + 1]
      BY <1>1, <1>6, AfterTail
    <3>3. /\ queue'[i].timer \notin unused
          /\ queue'[i].op = "add" => queue'[i].timer \notin cancelled
      BY <3>2 DEF SafeInv, QueueInv
    <3>4. CASE ToBeAdded(t)
      BY <2>1, <3>3, <3>4
    <3>5. CASE ~ToBeAdded(t)
      <4>1. queue'[i].timer = t => queue'[i].op = "cancel"
        BY <1>2, <3>2, <3>5, AddOrCancel
      <4> QED
        BY <2>1, <3>3, <3>5, <4>1
    <3> QED
      BY <3>4, <3>5
  <2> QED
    BY <1>4, <2>1, <2>2, <2>3 DEF SafeInv
<1>7. CASE UNCHANGED <<timers, activeTimers, canceling, alarm, queue, cancelled>>
  BY <1>1, <1>3, <1>4, <1>7
     DEF SafeInv, UnusedInv, ContainersAgree, CancelInv, CancelledStaysOut, QueueInv
<1> QED
  BY <1>5, <1>6, <1>7 DEF RunFunctor

LEMMA SafeInvariant == Spec => []SafeInv
<1>1. Init => SafeInv
  <2> SUFFICES ASSUME Init PROVE SafeInv
    OBVIOUS
  <2>1. InBatch = {}
    BY NoBatch DEF Init
  <2> QED
    BY <2>1 DEF Init, SafeInv, BatchInv, UnusedInv, ContainersAgree, QueueInv, CancelInv,
                CancelledStaysOut, DueInv
<1>2. TypeOK /\ SafeInv /\ [Next]_vars => SafeInv'
  <2> SUFFICES ASSUME TypeOK, SafeInv, [Next]_vars PROVE SafeInv'
    OBVIOUS
  <2>1. CASE RunTimer \/ UNCHANGED vars
    <3>1. /\ InBatch' = InBatch
          /\ UNCHANGED <<timerVars, canceling, calling, batch, late, queue, cancelled>>
      BY <2>1, SameBatch DEF RunTimer, vars, timerVars
    <3> QED
      BY <3>1 DEF SafeInv, BatchInv, UnusedInv, ContainersAgree, QueueInv, CancelInv,
                  CancelledStaysOut, DueInv, timerVars
  <2> QED
    BY <2>1, TypesOfTypeOK, TickIsSafe, HandleReadIsSafe, ResetIsSafe, AddFromLoopIsSafe,
       AddFromThreadIsSafe, CancelFromLoopIsSafe, CancelFromThreadIsSafe, RunFunctorIsSafe
       DEF Next, LoopStep, UserStep
<1> QED
  BY <1>1, <1>2, TypeCorrect, PTL DEF Spec
-----------------------------------------------------------------------------
\* timers_ and activeTimers_ always hold the same timers, and none of those
\* whose callbacks are being called: the assertions on their sizes hold.
THEOREM ContainersStayEqual == Spec => []ContainersAgree
<1>1. SafeInv => ContainersAgree
  BY DEF SafeInv
<1> QED
  BY <1>1, SafeInvariant, PTL

\* A timer found by cancelInLoop is never set again.
THEOREM CancelledForGood == Spec => []CancelledStaysOut
<1>1. SafeInv => CancelledStaysOut
  BY DEF SafeInv
<1> QED
  BY <1>1, SafeInvariant, PTL

LEMMA DueIsNotEarly == Types /\ SafeInv => NeverEarly
<1> SUFFICES ASSUME Types, SafeInv, NEW i \in 1 .. ran PROVE due[batch[i]] <= 0
  BY DEF NeverEarly
<1>1. i \in 1 .. Len(batch)
  BY DEF Types
<1> QED
  BY <1>1 DEF SafeInv, DueInv, InBatch

\* No callback of a timer runs before its time.
THEOREM NeverFiresEarly == Spec => []NeverEarly
  BY TypesOfTypeOK, DueIsNotEarly, TypeCorrect, SafeInvariant, PTL
-----------------------------------------------------------------------------
\* While the timers are called the timerfd may be disarmed, but not for the
\* sake of a timer that was due when the calls began.
ArmInv == (calling /\ failed = "none") =>
              /\ late = 0
              /\ alarm \in {0, 1} \/ \A t \in timers : due[t] >= 0

\* addTimerInLoop arms the timerfd for the new timer.
LEMMA AddArms ==
    ASSUME TypeOK, NEW t \in Timers, NEW when \in Int, AddTimerInLoop(t, when),
           due' = [due EXCEPT ![t] = when], t \notin timers
    PROVE  /\ (timers # {} => alarm # Never /\ (alarm <= 1 \/ \A s \in timers : alarm <= due[s]))
                => alarm' # Never /\ (alarm' <= 1 \/ \A s \in timers' : alarm' <= due'[s])
           /\ (alarm \in {0, 1} \/ \A s \in timers : due[s] >= 0)
                => (alarm' \in {0, 1} \/ \A s \in timers' : due'[s] >= 0)
<1>1. /\ \A s \in timers : due'[s] = due[s] /\ due[s] \in Int
      /\ due'[t] = when /\ timers' = timers \union {t}
      /\ alarm \in Nat \union {Never}
  BY DEF TypeOK, AddTimerInLoop
<1>2. CASE IsEarliest(when)
  <2>1. alarm' = TimerfdFor(when) /\ \A s \in timers : when < due[s]
    BY <1>2 DEF AddTimerInLoop, IsEarliest
  <2>2. CASE when <= 1
    <3>1. alarm' = 1
      BY <2>1, <2>2 DEF TimerfdFor, Later
    <3> QED
      BY <3>1 DEF Never
  <2>3. CASE when > 1
    <3>1. alarm' = when
      BY <2>1, <2>3 DEF TimerfdFor, Later
    <3> QED
      BY <1>1, <2>1, <2>3, <3>1 DEF Never
  <2> QED
    BY <2>2, <2>3
<1>3. CASE ~IsEarliest(when)
  <2>1. alarm' = alarm
    BY <1>3 DEF AddTimerInLoop
  <2>2. PICK s \in timers : due[s] <= when
    BY <1>1, <1>3 DEF IsEarliest
  <2> QED
    BY <1>1, <2>1, <2>2 DEF Never
<1> QED
  BY <1>2, <1>3

\* The end of handleRead arms it again, as no time has passed since its start.
LEMMA ResetArms ==
    ASSUME TypeOK, ArmInv, Reset
    PROVE  timers' # {} => alarm' # Never /\ (alarm' <= 1 \/ \A s \in timers' : alarm' <= due'[s])
<1> SUFFICES ASSUME timers' # {}
             PROVE  alarm' # Never /\ (alarm' <= 1 \/ \A s \in timers' : alarm' <= due'[s])
  OBVIOUS
<1>1. /\ timers' = timers \union Again /\ due' = Restarted
      /\ Restarted \in [Timers -> Int] /\ timers' \subseteq Timers
      /\ late = 0
      /\ alarm \in {0, 1} \/ \A t \in timers : due[t] >= 0
  BY RestartedType DEF Reset, ArmInv, TypeOK
<1>2. PICK t \in timers' : /\ \A s \in timers' : Restarted[t] <= Restarted[s]
                           /\ alarm' = Rearm(Restarted[t])
  BY <1>1 DEF Reset
<1>3. CASE Restarted[t] >= 0
  <2>1. alarm' = TimerfdFor(Restarted[t]) /\ Restarted[t] \in Int
    BY <1>1, <1>2, <1>3 DEF Rearm
  <2>2. alarm' = 1 \/ alarm' = Restarted[t]
    BY <2>1 DEF TimerfdFor, Later
  <2> QED
    BY <1>1, <1>2, <1>3, <2>1, <2>2 DEF Never
<1>4. CASE ~(Restarted[t] >= 0)
  <2>1. alarm' = alarm
    BY <1>2, <1>4 DEF Rearm
  <2>2. t \notin Again
    <3>1. SUFFICES ASSUME t \in Again PROVE FALSE
      OBVIOUS
    <3>2. Restarted[t] = Later(interval[t] - late, -Past) /\ t \in Timers
      BY <1>1, <3>1 DEF Restarted
    <3>3. interval[t] \in Int /\ interval[t] >= 0 /\ interval[t] - late = interval[t]
      <4>1. interval[t] \in Intervals \union {0}
        BY <3>2 DEF TypeOK
      <4>2. Intervals \union {0} \subseteq Nat
        BY TimesAssumption DEF TimesAssumption
      <4>3. interval[t] \in Nat
        BY <4>1, <4>2
      <4> QED
        BY <4>3, <1>1
    <3>4. -Past \in Int
      BY TimesAssumption DEF TimesAssumption
    <3>5. Restarted[t] >= interval[t] /\ Restarted[t] \in Int
      BY <3>2, <3>3, <3>4, LaterInt
    <3> QED
      BY <1>4, <3>3, <3>5
  <2>3. t \in timers /\ Restarted[t] = due[t]
    BY <1>1, <1>2, <2>2 DEF Restarted
  <2> QED
    BY <1>1, <1>4, <2>1, <2>3 DEF Never
<1> QED
  BY <1>3, <1>4

LEMMA ArmStep ==
    ASSUME ~SlowCallbacks, TypeOK, SafeInv, ArmInv, TimerfdArmed, [Next]_vars
    PROVE  ArmInv' /\ TimerfdArmed'
<1> USE DEF timerVars
<1>1. CASE Tick
  <2>1. ~calling /\ ~calling'
    BY <1>1 DEF Tick
  <2>2. ArmInv'
    BY <2>1 DEF ArmInv
  <2>3. ASSUME timers # {}, alarm \in Nat, alarm <= 1 \/ \A t \in timers : alarm <= due[t]
        PROVE  alarm' # Never /\ (alarm' <= 1 \/ \A t \in timers : alarm' <= due'[t])
    <3>1. alarm' = Later(alarm - 1, 0)
      BY <1>1, <2>3 DEF Tick, Never
    <3>2. CASE alarm <= 1
      BY <2>3, <3>1, <3>2 DEF Later, Never
    <3>3. CASE alarm > 1 /\ \A t \in timers : alarm <= due[t]
      <4>1. alarm' = alarm - 1
        BY <2>3, <3>1, <3>3 DEF Later
      <4>2. ASSUME NEW t \in timers PROVE alarm' <= due'[t]
        <5>1. due[t] \in Int /\ t \notin unused /\ t \in Timers
          BY DEF TypeOK, SafeInv, UnusedInv
        <5>2. due'[t] = Later(due[t] - 1, -Past)
          BY <1>1, <5>1 DEF Tick
        <5>3. due[t] - 1 \in Int /\ -Past \in Int
          BY <5>1, TimesAssumption DEF TimesAssumption
        <5>4. due'[t] >= due[t] - 1 /\ due'[t] \in Int
          BY <5>2, <5>3, LaterInt
        <5> QED
          BY <2>3, <3>3, <4>1, <5>1, <5>4
      <4> QED
        BY <2>3, <3>3, <4>1, <4>2 DEF Never
    <3> QED
      BY <2>3, <3>2, <3>3
  <2>4. UNCHANGED <<timers, calling, failed>>
    BY <1>1 DEF Tick
  <2> QED
    BY <2>2, <2>3, <2>4 DEF TimerfdArmed, Idle, TypeOK, Never
<1>2. CASE HandleRead
  <2>1. TimerfdArmed'
    BY <1>2 DEF HandleRead, TimerfdArmed, Idle
  <2>2. ArmInv'
    <3>1. SUFFICES ASSUME failed' = "none" PROVE \A t \in timers' : due'[t] >= 0
      BY <1>2 DEF HandleRead, ArmInv
    <3>2. timers' = timers \ Expired /\ due' = due
      BY <1>2, <3>1 DEF HandleRead
    <3> QED
      BY <3>2 DEF Expired, TypeOK
  <2> QED
    BY <2>1, <2>2
<1>3. CASE RunTimer
  BY <1>3 DEF RunTimer, ArmInv, TimerfdArmed, Idle
<1>4. CASE Reset
  <2>1. ~calling'
    BY <1>4 DEF Reset
  <2> QED
    BY <1>4, <2>1, ResetArms DEF ArmInv, TimerfdArmed
<1>5. CASE RunFunctor
  <2> DEFINE t == Head(queue).timer
  <2>1. Idle /\ ~calling /\ ~calling' /\ t \in Timers /\ UNCHANGED <<due, calling>>
    BY <1>5, FirstQueued DEF RunFunctor, Idle, Functors
  <2>2. CASE AddTimerInLoop(t, due[t])
    <3>1. due[t] \in Int /\ due' = [due EXCEPT ![t] = due[t]]
      BY <2>1 DEF TypeOK
    <3>2. CASE t \in timers
      <4>1. ~IsEarliest(due[t])
        BY <3>1, <3>2 DEF IsEarliest
      <4>2. timers' = timers /\ alarm' = alarm
        BY <2>2, <3>2, <4>1 DEF AddTimerInLoop
      <4> QED
        BY <2>1, <4>2 DEF ArmInv, TimerfdArmed, Idle
    <3>3. CASE t \notin timers
      BY <2>1, <2>2, <3>1, <3>3, AddArms DEF ArmInv, TimerfdArmed
    <3> QED
      BY <3>2, <3>3
  <2>3. CASE CancelInLoop(t) /\ UNCHANGED alarm
    <3>1. timers' \subseteq timers
      BY <2>3 DEF CancelInLoop
    <3> QED
      BY <2>1, <2>3, <3>1 DEF ArmInv, TimerfdArmed
  <2>4. CASE failed' = "cancelTimer"
    BY <2>1, <2>4 DEF ArmInv, TimerfdArmed, Idle
  <2> QED
    BY <1>5, <2>2, <2>3, <2>4 DEF RunFunctor
<1>6. ASSUME NEW t \in Timers, NEW d \in Delays, NEW i \in Intervals, AddFromLoop(t, d, i)
      PROVE  ArmInv' /\ TimerfdArmed'
  <2>1. /\ d \in Int /\ t \notin timers
        /\ due' = [due EXCEPT ![t] = d] /\ AddTimerInLoop(t, d)
        /\ UNCHANGED <<calling, late, failed>>
    BY <1>6, TimesAssumption
       DEF AddFromLoop, Create, SafeInv, UnusedInv, TimesAssumption
  <2> QED
    BY <2>1, AddArms DEF ArmInv, TimerfdArmed, Idle
<1>7. ASSUME NEW t \in Timers, NEW d \in Delays, NEW i \in Intervals, AddFromThread(t, d, i)
      PROVE  ArmInv' /\ TimerfdArmed'
  <2>1. /\ \A s \in timers : due'[s] = due[s]
        /\ UNCHANGED <<timers, calling, late, alarm, failed>>
    BY <1>7 DEF AddFromThread, Create, SafeInv, UnusedInv, TypeOK
  <2> QED
    BY <2>1 DEF ArmInv, TimerfdArmed, Idle
<1>8. ASSUME NEW t \in Timers, CancelFromLoop(t) \/ CancelFromThread(t)
      PROVE  ArmInv' /\ TimerfdArmed'
  <2>1. timers' \subseteq timers /\ UNCHANGED <<due, calling, late, alarm, failed>>
    BY <1>8 DEF CancelFromLoop, CancelFromThread, CancelInLoop
  <2> QED
    BY <2>1 DEF ArmInv, TimerfdArmed, Idle
<1>9. CASE UNCHANGED vars
  BY <1>9 DEF vars, ArmInv, TimerfdArmed, Idle
<1> QED
  BY <1>1, <1>2, <1>3, <1>4, <1>5, <1>6, <1>7, <1>8, <1>9 DEF Next, LoopStep, UserStep

\* As long as the callbacks of a batch take no time, the timerfd is set for
\* the earliest timer whenever the loop is between two handlers.
THEOREM TimerfdStaysArmed ==
    ASSUME ~SlowCallbacks
    PROVE  Spec => []TimerfdArmed
<1>1. Init => ArmInv /\ TimerfdArmed
  BY DEF Init, ArmInv, TimerfdArmed
<1>2. TypeOK /\ SafeInv /\ ArmInv /\ TimerfdArmed /\ [Next]_vars => ArmInv' /\ TimerfdArmed'
  BY ArmStep
<1> QED
  BY <1>1, <1>2, TypeCorrect, SafeInvariant, PTL DEF Spec
-----------------------------------------------------------------------------
\* A timer that repeats and was not cancelled is somewhere.
Present(t) == \/ t \in timers
              \/ t \in InBatch /\ t \notin canceling
              \/ ToBeAdded(t)

PresentInv == \A t \in Timers \ unused : (Repeats(t) /\ t \notin cancelled) => Present(t)

\* A functor that waits goes on waiting when another one is pushed, or when
\* one that is not an add is popped.
LEMMA StillToBeAdded ==
    ASSUME TypeOK, NEW t,
           \/ \E f \in Functors : queue' = Append(queue, f)
           \/ queue # <<>> /\ queue' = Tail(queue) /\ Head(queue) # [op |-> "add", timer |-> t]
    PROVE  ToBeAdded(t) => ToBeAdded(t)'
<1> SUFFICES ASSUME NEW i \in 1 .. Len(queue), queue[i] = [op |-> "add", timer |-> t]
             PROVE  ToBeAdded(t)'
  BY DEF ToBeAdded
<1>1. CASE \E f \in Functors : queue' = Append(queue, f)
  <2>1. i \in 1 .. Len(queue') /\ queue'[i] = queue[i]
    BY <1>1, AfterAppend
  <2> QED
    BY <2>1 DEF ToBeAdded
<1>2. CASE queue # <<>> /\ queue' = Tail(queue) /\ Head(queue) # [op |-> "add", timer |-> t]
  <2>1. /\ Len(queue) \in Nat /\ Len(queue') = Len(queue) - 1
        /\ \A j \in 1 .. Len(queue') : queue'[j] = queue[j + 1]
        /\ i # 1
    BY <1>2, AfterTail, FirstQueued
  <2>2. i - 1 \in 1 .. Len(queue') /\ queue'[i - 1] = queue[(i - 1) + 1] /\ (i - 1) + 1 = i
    BY <2>1
  <2> QED
    BY <2>2 DEF ToBeAdded
<1> QED
  BY <1>1, <1>2

LEMMA PresentStep == ASSUME TypeOK, SafeInv, PresentInv, [Next]_vars PROVE PresentInv'
<1> USE DEF timerVars
<1>1. CASE Tick \/ RunTimer \/ UNCHANGED vars
  <2>1. /\ InBatch' = InBatch
        /\ UNCHANGED <<unused, interval, timers, canceling, queue, cancelled>>
    BY <1>1, SameBatch DEF Tick, RunTimer, vars
  <2> QED
    BY <2>1 DEF PresentInv, Present, Repeats, ToBeAdded
<1>2. CASE HandleRead
  <2>1. /\ timers = timers' \union InBatch' /\ InBatch = {} /\ canceling' = {}
        /\ UNCHANGED <<unused, interval, queue, cancelled>>
    BY <1>2, TypesOfTypeOK, ReadBatch, NoBatch DEF HandleRead, Idle, SafeInv, BatchInv
  <2> QED
    BY <2>1 DEF PresentInv, Present, Repeats, ToBeAdded
<1>3. CASE Reset
  <2>1. timers' = timers \union Again /\ UNCHANGED <<unused, interval, queue, cancelled>>
    BY <1>3 DEF Reset
  <2> QED
    BY <2>1 DEF PresentInv, Present, Repeats, ToBeAdded, Again
<1>4. CASE RunFunctor
  <2> DEFINE t == Head(queue).timer
  <2>1. /\ queue # <<>> /\ InBatch' = InBatch /\ InBatch = {}
        /\ UNCHANGED <<unused, interval>>
    BY <1>4, SameBatch, NoBatch DEF RunFunctor, Idle, SafeInv, BatchInv
  <2> SUFFICES ASSUME NEW s \in Timers \ unused, Repeats(s), s \notin cancelled'
               PROVE  Present(s)'
    BY <2>1 DEF PresentInv, Repeats
  <2>2. CASE /\ AddTimerInLoop(t, due[t]) /\ queue' = Tail(queue)
             /\ UNCHANGED cancelled
    <3>1. CASE s = t
      BY <2>2, <3>1 DEF AddTimerInLoop, Present
    <3>2. CASE s # t
      <4>1. Head(queue) # [op |-> "add", timer |-> s]
        BY <3>2
      <4> QED
        BY <2>1, <2>2, <4>1, StillToBeAdded DEF AddTimerInLoop, PresentInv, Present
    <3> QED
      BY <3>1, <3>2
  <2>3. CASE Head(queue).op = "cancel" /\ CancelInLoop(t) /\ queue' = Tail(queue)
    <3>1. Head(queue) # [op |-> "add", timer |-> s]
      BY <2>3
    <3>2. s \notin cancelled /\ (s = t => ToBeAdded(s))
      BY <2>3 DEF CancelInLoop
    <3>3. s # t => (s \in timers => s \in timers')
      BY <2>3 DEF CancelInLoop
    <3> QED
      BY <2>1, <2>3, <3>1, <3>2, <3>3, StillToBeAdded DEF PresentInv, Present
  <2>4. CASE UNCHANGED <<timers, canceling, queue, cancelled>>
    BY <2>1, <2>4 DEF PresentInv, Present, ToBeAdded
  <2> QED
    BY <1>4, <2>2, <2>3, <2>4 DEF RunFunctor
<1>5. ASSUME NEW t \in Timers, NEW d \in Delays, NEW i \in Intervals, AddFromLoop(t, d, i)
      PROVE  PresentInv'
  <2>1. /\ InBatch' = InBatch /\ timers' = timers \union {t} /\ unused' = unused \ {t}
        /\ interval' = [interval EXCEPT ![t] = i]
        /\ UNCHANGED <<canceling, queue, cancelled>>
    BY <1>5, SameBatch DEF AddFromLoop, AddTimerInLoop, Create
  <2> QED
    BY <2>1 DEF PresentInv, Present, Repeats, ToBeAdded, TypeOK
<1>6. ASSUME NEW t \in Timers, NEW d \in Delays, NEW i \in Intervals, AddFromThread(t, d, i)
      PROVE  PresentInv'
  <2> DEFINE f == [op |-> "add", timer |-> t]
  <2>1. /\ InBatch' = InBatch /\ unused' = unused \ {t}
        /\ interval' = [interval EXCEPT ![t] = i]
        /\ queue' = Append(queue, f) /\ f \in Functors
        /\ UNCHANGED <<timers, canceling, cancelled>>
    BY <1>6, SameBatch DEF AddFromThread, Create, Functors
  <2>2. ToBeAdded(t)'
    <3>1. Len(queue) + 1 \in 1 .. Len(queue') /\ queue'[Len(queue) + 1] = f
      BY <2>1, AfterAppend
    <3> QED
      BY <3>1 DEF ToBeAdded
  <2>3. ASSUME NEW s \in Timers \ unused', s # t, Repeats(s)', s \notin cancelled'
        PROVE  Present(s)'
    <3>1. ToBeAdded(s) => ToBeAdded(s)'
      BY <2>1, StillToBeAdded
    <3> QED
      BY <2>1, <2>3, <3>1 DEF PresentInv, Present, Repeats, TypeOK
  <2> QED
    BY <2>2, <2>3 DEF PresentInv, Present
<1>7. ASSUME NEW t \in Timers, CancelFromLoop(t) PROVE PresentInv'
  <2>1. /\ InBatch' = InBatch /\ CancelInLoop(t)
        /\ UNCHANGED <<unused, interval, queue>>
    BY <1>7, SameBatch DEF CancelFromLoop
  <2> QED
    BY <2>1 DEF CancelInLoop, PresentInv, Present, Repeats, ToBeAdded
<1>8. ASSUME NEW t \in Timers, CancelFromThread(t) PROVE PresentInv'
  <2> DEFINE f == [op |-> "cancel", timer |-> t]
  <2>1. /\ InBatch' = InBatch /\ queue' = Append(queue, f) /\ f \in Functors
        /\ UNCHANGED <<unused, interval, timers, canceling, cancelled>>
    BY <1>8, SameBatch DEF CancelFromThread, Functors
  <2>2. \A s : ToBeAdded(s) => ToBeAdded(s)'
    BY <2>1, StillToBeAdded
  <2> QED
    BY <2>1, <2>2 DEF PresentInv, Present, Repeats
<1> QED
  BY <1>1, <1>2, <1>3, <1>4, <1>5, <1>6, <1>7, <1>8 DEF Next, LoopStep, UserStep

\* The only assertion of TimerQueue.cpp that may fail is that of cancelInLoop, for a
\* cancellation queued by another thread whose timer does not repeat, or was taken out by
\* an earlier cancellation: a repeating timer is found by the first that is carried out.
\* As long as no handleRead hits the very unit in which a timer is due.
THEOREM AssertionsHold ==
    ASSUME ~ExactHit
    PROVE  Spec => []NoAssertionFails
<1>1. Init => PresentInv /\ NoAssertionFails
  BY DEF Init, PresentInv, NoAssertionFails
<1>2. TypeOK /\ SafeInv /\ PresentInv /\ [Next]_vars => PresentInv'
  BY PresentStep
<1>3. TypeOK /\ SafeInv /\ PresentInv /\ NoAssertionFails /\ [Next]_vars => NoAssertionFails'
  <2> SUFFICES ASSUME TypeOK, SafeInv, PresentInv, NoAssertionFails, [Next]_vars,
                      failed' # "none"
               PROVE  NoAssertionFails'
    BY DEF NoAssertionFails
  <2>1. CASE RunFunctor
    <3> DEFINE t == Head(queue).timer
    <3>1. /\ queue # <<>> /\ ~Alive(t) /\ failed' = "cancelTimer"
          /\ UNCHANGED <<interval, queue, cancelled>>
      BY <2>1 DEF RunFunctor, Idle
    <3>2. t \in Timers \ unused
      BY <3>1, FirstQueued DEF SafeInv, QueueInv, Functors
    <3>3. ~Repeats(t) \/ t \in cancelled
      BY <3>1, <3>2 DEF PresentInv, Present, Alive
    <3> QED
      BY <3>1, <3>3 DEF NoAssertionFails, Repeats
  <2>2. CASE UNCHANGED vars
    BY <2>2 DEF vars, NoAssertionFails, Repeats
  <2> QED
    BY <2>1, <2>2 DEF Next, LoopStep, UserStep, Tick, HandleRead, Idle, RunTimer, Reset,
       AddFromLoop, LoopUserCode, AddFromThread, Create, CancelFromLoop, CancelFromThread
<1> QED
  BY <1>1, <1>2, <1>3, TypeCorrect, SafeInvariant, PTL DEF Spec
-----------------------------------------------------------------------------
(***************************************************************************)
(* ProcessTimerQueue.  What holds between its steps is SafeInv with an      *)
(* empty queue; what the timerfd is set to plays no part in it.             *)
(***************************************************************************)
ProcessInv == Types /\ SafeInv /\ queue = <<>> /\ failed = "none"

LEMMA RestartIsTyped ==
    ASSUME Types
    PROVE  /\ restart \in [Timers -> Int]
           /\ RestartedBy(Len(batch)) \subseteq InBatch \ canceling
           /\ InBatch \subseteq Timers
<1>1. InBatch \subseteq Timers
  BY DEF InBatch, Types
<1>2. RestartedBy(Len(batch)) \subseteq InBatch \ canceling
  BY DEF RestartedBy, InBatch, Types
<1>3. ASSUME NEW t \in Timers
      PROVE  Later(interval[t] - late, -Past) \in Int /\ due[t] \in Int
  <2>1. interval[t] \in Intervals \union {0} /\ late \in 0 .. Past /\ due[t] \in Int
    BY DEF Types
  <2>2. Intervals \union {0} \subseteq Int /\ Past \in Nat
    BY TimesAssumption DEF TimesAssumption
  <2>3. interval[t] \in Int /\ late \in Int /\ -Past \in Int
    BY <2>1, <2>2
  <2>4. interval[t] - late \in Int
    BY <2>3
  <2> QED
    BY <2>1, <2>3, <2>4, LaterInt
<1> QED
  BY <1>1, <1>2, <1>3 DEF restart

LEMMA ProcessStarts == Init => ProcessInv
<1> SUFFICES ASSUME Init PROVE ProcessInv
  OBVIOUS
<1>1. InBatch = {}
  BY NoBatch DEF Init
<1>2. <<>> \in Seq(Timers) /\ <<>> \in Seq(Functors) /\ Len(<<>>) = 0
  OBVIOUS
<1>3. Types
  <2>1. due \in [Timers -> Int] /\ interval \in [Timers -> Intervals \union {0}]
    BY DEF Init
  <2>2. late \in 0 .. Past /\ ran \in 0 .. Len(batch)
    BY <1>2, TimesAssumption DEF Init, TimesAssumption
  <2> QED
    BY <1>2, <2>1, <2>2 DEF Init, Types
<1> QED
  BY <1>1, <1>2, <1>3
     DEF Init, ProcessInv, SafeInv, BatchInv, UnusedInv, ContainersAgree, QueueInv, CancelInv,
         CancelledStaysOut, DueInv

LEMMA ProcessTick == ASSUME ProcessInv, Tick PROVE ProcessInv'
<1>1. due' \in [Timers -> Int]
  <2>1. \A t \in Timers : due[t] \in Int
    BY DEF ProcessInv, Types
  <2>2. Past \in Nat
    BY TimesAssumption DEF TimesAssumption
  <2> QED
    BY <2>1, <2>2 DEF Tick, Later
<1>2. late' \in 0 .. Past
  BY TimesAssumption DEF Tick, ProcessInv, Types, TimesAssumption
<1>3. Types'
  BY <1>1, <1>2 DEF Tick, ProcessInv, Types
<1> QED
  BY <1>3, TickIsSafe DEF ProcessInv, Tick

\* No timer is due in the unit in which handleRead runs, so the assertion of getExpired holds.
LEMMA ProcessReads == ASSUME ~ExactHit, ProcessInv, handleRead PROVE ProcessInv'
<1>1. HandleRead /\ ~ \E t \in timers : due[t] = 0
  BY DEF handleRead, HandleRead
<1>2. Expired \subseteq Timers /\ Expired \subseteq timers
  BY DEF ProcessInv, Types, Expired
<1>3. batch' \in InOrder(Expired) /\ failed' = failed
  BY <1>1 DEF HandleRead
<1>4. batch' \in Seq(Timers) /\ 0 \in 0 .. Len(batch')
  BY <1>2, <1>3, InOrderIsSeq
<1>5. Types'
  BY <1>1, <1>4, TimesAssumption DEF HandleRead, ProcessInv, Types, TimesAssumption
<1> QED
  BY <1>1, <1>3, <1>5, HandleReadIsSafe DEF ProcessInv, HandleRead

LEMMA ProcessRuns == ASSUME ProcessInv, run \/ UNCHANGED vars PROVE ProcessInv'
<1>1. /\ InBatch' = InBatch
      /\ UNCHANGED <<timerVars, canceling, calling, batch, late, queue, cancelled, failed>>
      /\ ran' \in 0 .. Len(batch)
  BY SameBatch DEF run, RunTimer, vars, timerVars, ProcessInv, Types
<1> QED
  BY <1>1 DEF ProcessInv, Types, SafeInv, BatchInv, UnusedInv, ContainersAgree, QueueInv, CancelInv,
              CancelledStaysOut, DueInv, timerVars

\* Only what was not cancelled is set again.
LEMMA ProcessResets == ASSUME ProcessInv, reset PROVE ProcessInv'
<1>1. InBatch' = {}
  BY DEF reset, InBatch
<1>2. PICK again \in SUBSET (InBatch \ canceling) :
          timers' = timers \union again /\ activeTimers' = activeTimers \union again
  BY RestartIsTyped DEF reset, ProcessInv
<1>3. Types'
  <2>1. due' \in [Timers -> Int] /\ timers' \subseteq Timers /\ activeTimers' \subseteq Timers
    BY <1>2, RestartIsTyped DEF reset, ProcessInv, Types
  <2>2. batch' \in Seq(Timers) /\ ran' \in 0 .. Len(batch') /\ late' \in 0 .. Past
    BY TimesAssumption DEF reset, TimesAssumption
  <2> QED
    BY <2>1, <2>2 DEF reset, ProcessInv, Types
<1>4. UnusedInv' /\ ContainersAgree' /\ CancelInv' /\ CancelledStaysOut'
  BY <1>1, <1>2 DEF reset, ProcessInv, SafeInv, UnusedInv, ContainersAgree, CancelInv, CancelledStaysOut
<1>5. BatchInv' /\ QueueInv' /\ DueInv'
  BY <1>1 DEF reset, ProcessInv, SafeInv, BatchInv, QueueInv, DueInv
<1> QED
  BY <1>3, <1>4, <1>5 DEF reset, ProcessInv, SafeInv

LEMMA ProcessAdds ==
    ASSUME ProcessInv, NEW t \in Timers, NEW d \in Delays, NEW i \in Intervals, addTimer(t, d, i)
    PROVE  ProcessInv'
<1>1. /\ InBatch' = InBatch /\ t \in unused /\ unused' = unused \ {t}
      /\ timers' = timers \union {t} /\ activeTimers' = activeTimers \union {t}
      /\ due' = [due EXCEPT ![t] = d] /\ interval' = [interval EXCEPT ![t] = i]
      /\ UNCHANGED <<canceling, calling, batch, ran, late, queue, cancelled, failed>>
  BY SameBatch DEF addTimer, insert, Create
<1>2. d \in Int
  BY TimesAssumption DEF TimesAssumption
<1>3. Types'
  BY <1>1, <1>2 DEF ProcessInv, Types
<1>4. BatchInv' /\ UnusedInv' /\ ContainersAgree' /\ CancelInv' /\ CancelledStaysOut'
  BY <1>1 DEF ProcessInv, SafeInv, BatchInv, UnusedInv, ContainersAgree, CancelInv, CancelledStaysOut
<1>5. QueueInv' /\ DueInv'
  BY <1>1 DEF ProcessInv, SafeInv, QueueInv, UnusedInv, DueInv, Types
<1> QED
  BY <1>1, <1>3, <1>4, <1>5 DEF ProcessInv, SafeInv

\* A timer of the batch is remembered, and so is one that is remembered already; any other
\* leaves both containers.
LEMMA ProcessCancels == ASSUME ProcessInv, NEW t \in Timers, cancel(t) PROVE ProcessInv'
<1>1. /\ InBatch' = InBatch /\ t \notin unused
      /\ cancelled' = cancelled \union {t}
      /\ UNCHANGED <<unused, due, interval, calling, batch, ran, late, queue, failed>>
  BY SameBatch DEF cancel
<1>2. \/ timers' = timers \ {t} /\ activeTimers' = activeTimers \ {t} /\ t \in timers
         /\ canceling' = canceling
      \/ timers' = timers /\ activeTimers' = activeTimers /\ t \notin timers
         /\ canceling' = canceling \union {t}
  BY DEF cancel, ProcessInv, SafeInv, ContainersAgree
<1>3. Types'
  BY <1>1, <1>2 DEF ProcessInv, Types
<1>4. BatchInv' /\ UnusedInv' /\ ContainersAgree' /\ CancelInv' /\ CancelledStaysOut'
  BY <1>1, <1>2
     DEF ProcessInv, SafeInv, BatchInv, UnusedInv, ContainersAgree, CancelInv, CancelledStaysOut
<1>5. QueueInv' /\ DueInv'
  BY <1>1 DEF ProcessInv, SafeInv, QueueInv, DueInv
<1> QED
  BY <1>1, <1>3, <1>4, <1>5 DEF ProcessInv, SafeInv

\* The timers of a process: the containers agree, none is called early, and one that was
\* cancelled, even twice or by its own callback, is not set again; no assertion fails, as
\* long as no handleRead hits the very unit in which a timer is due.  This is the safe part
\* of ProcessTimers.
THEOREM ProcessTimersKept ==
    ASSUME ~ExactHit
    PROVE  ProcessSpec => []TimersKept
<1>1. ProcessInv /\ [ProcessNext]_vars => ProcessInv'
  BY ProcessTick, ProcessReads, ProcessRuns, ProcessResets, ProcessAdds, ProcessCancels
     DEF ProcessNext, ProcessStep
<1>2. ProcessInv => TimersKept
  BY DueIsNotEarly DEF ProcessInv, TimersKept, SafeInv
<1> QED
  BY <1>1, <1>2, ProcessStarts, PTL DEF ProcessSpec
=============================================================================
