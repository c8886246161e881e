-------------------------- MODULE EventLoopProofs ---------------------------
(***************************************************************************)
(* Proofs about EventLoop, for any number of threads and functors: its     *)
(* types, that it never sleeps on work, and that it implements Executor.   *)
(* And about EventLoopThread: what the thread and its owner do to the loop *)
(* are steps of EventLoop, so all of this holds of the loop on the         *)
(* thread's stack; and the start handshake is sound.                       *)
(* Then about BlockingQueues, for any capacity and any number of threads:  *)
(* the order of the elements, and what the latch holds back.               *)
(***************************************************************************)
EXTENDS EventLoopThread, BlockingQueues, FiniteSetTheorems, SequenceTheorems, TLAPS

\* Where the variables of the loop's thread stand at each location:
\* callingPendingFuntors_ is TRUE exactly while a batch runs, and the local
\* vector of doPendingFunctors exists only then.
BatchInv == /\ calling <=> pc \in {"batch", "functor"}
            /\ pc \notin {"batch", "functor"} => functors = <<>>

\* Outside the part of an iteration that ends in the swap, a functor that
\* waits is announced.
WakeInv == /\ (pendingFunctors # <<>> /\ pc \notin {"handle", "callback", "swap"})
                 => WakeupComing
           /\ (pc = "poll" /\ quit) => WakeupComing

-----------------------------------------------------------------------------
\* The variables keep their types.
THEOREM TypeCorrect == Spec => []TypeOK
<1>1. Init => TypeOK
  <2> SUFFICES ASSUME Init PROVE TypeOK
    OBVIOUS
  <2>1. <<>> \in Seq(Functors)
    OBVIOUS
  <2>2. tpc \in [Threads -> {"out", "waking"}]
    BY DEF Init
  <2> QED
    BY <2>1, <2>2 DEF Init, TypeOK, Locations
<1>2. TypeOK /\ [Next]_vars => TypeOK'
  <2> SUFFICES ASSUME TypeOK, [Next]_vars PROVE TypeOK'
    OBVIOUS
  <2> USE DEF TypeOK, Locations, loopVars, workVars
  <2>1. CASE Loop
    BY <2>1 DEF Loop
  <2>2. CASE LoopStep
    <3>1. CASE CheckQuit
      BY <3>1 DEF CheckQuit
    <3>2. CASE PollReady
      BY <3>2 DEF PollReady, ReadyChannels
    <3>3. CASE HandleRead
      BY <3>3 DEF HandleRead
    <3>4. CASE BeginCallback
      BY <3>4 DEF BeginCallback
    <3>5. CASE EndCallback
      BY <3>5 DEF EndCallback
    <3>6. CASE EndHandling
      BY <3>6 DEF EndHandling
    <3>7. CASE Swap
      BY <3>7 DEF Swap
    <3>8. CASE BeginFunctor
      <4>1. /\ Head(functors) \in Functors
            /\ Tail(functors) \in Seq(Functors)
        BY <3>8 DEF BeginFunctor
      <4> QED
        BY <3>8, <4>1 DEF BeginFunctor
    <3>9. CASE EndFunctor
      BY <3>9 DEF EndFunctor
    <3>10. CASE EndBatch
      BY <3>10 DEF EndBatch
    <3> QED
      BY <2>2, <3>1, <3>2, <3>3, <3>4, <3>5, <3>6, <3>7, <3>8, <3>9, <3>10
         DEF LoopStep
  <2>3. CASE PollTimeout
    BY <2>3 DEF PollTimeout
  <2>4. CASE UserStep
    <3>1. ASSUME NEW f \in Functors, QueueInLoop(f) PROVE TypeOK'
      BY <3>1 DEF QueueInLoop, PushPending, NeedsWakeup
    <3>2. ASSUME NEW f \in Functors, RunInLoop(f) PROVE TypeOK'
      BY <3>2 DEF RunInLoop
    <3>3. CASE QuitInLoop
      BY <3>3 DEF QuitInLoop
    <3> QED
      BY <2>4, <3>1, <3>2, <3>3 DEF UserStep
  <2>5. ASSUME NEW t \in Threads, ThreadStep(t) PROVE TypeOK'
    <3>1. ASSUME NEW f \in Functors, QueueFromThread(t, f) PROVE TypeOK'
      BY <3>1 DEF QueueFromThread, PushPending
    <3>2. CASE QuitFromThread(t)
      BY <3>2 DEF QuitFromThread
    <3>3. CASE Wakeup(t)
      BY <3>3 DEF Wakeup
    <3> QED
      BY <2>5, <3>1, <3>2, <3>3 DEF ThreadStep
  <2>6. CASE IoArrives
    BY <2>6 DEF IoArrives
  <2>7. CASE UNCHANGED vars
    BY <2>7 DEF vars
  <2> QED
    BY <2>1, <2>2, <2>3, <2>4, <2>5, <2>6, <2>7 DEF Next
<1> QED
  BY <1>1, <1>2, PTL DEF Spec
-----------------------------------------------------------------------------
LEMMA BatchInvariant == Spec => []BatchInv
<1>1. Init => BatchInv
  BY DEF Init, BatchInv
<1>2. BatchInv /\ [Next]_vars => BatchInv'
  <2> SUFFICES ASSUME BatchInv, [Next]_vars PROVE BatchInv'
    OBVIOUS
  <2> USE DEF BatchInv, loopVars, workVars
  <2>1. CASE Loop
    BY <2>1 DEF Loop
  <2>2. CASE LoopStep
    <3>1. CASE \/ CheckQuit \/ PollReady \/ HandleRead \/ BeginCallback
               \/ EndCallback \/ EndHandling
      BY <3>1 DEF CheckQuit, PollReady, HandleRead, BeginCallback, EndCallback,
                  EndHandling
    <3>2. CASE Swap
      BY <3>2 DEF Swap
    <3>3. CASE BeginFunctor \/ EndFunctor
      BY <3>3 DEF BeginFunctor, EndFunctor
    <3>4. CASE EndBatch
      BY <3>4 DEF EndBatch
    <3> QED
      BY <2>2, <3>1, <3>2, <3>3, <3>4 DEF LoopStep
  <2>3. CASE PollTimeout
    BY <2>3 DEF PollTimeout
  <2>4. CASE UserStep
    <3>1. UNCHANGED <<pc, calling, functors>>
      BY <2>4 DEF UserStep, QueueInLoop, PushPending, RunInLoop, QuitInLoop
    <3> QED
      BY <3>1
  <2>5. ASSUME NEW t \in Threads, ThreadStep(t) PROVE BatchInv'
    <3>1. UNCHANGED <<pc, calling, functors>>
      BY <2>5 DEF ThreadStep, QueueFromThread, PushPending, QuitFromThread, Wakeup
    <3> QED
      BY <3>1
  <2>6. CASE IoArrives
    BY <2>6 DEF IoArrives
  <2>7. CASE UNCHANGED vars
    BY <2>7 DEF vars
  <2> QED
    BY <2>1, <2>2, <2>3, <2>4, <2>5, <2>6, <2>7 DEF Next
<1> QED
  BY <1>1, <1>2, PTL DEF Spec

\* A step that leaves the eventfd and the threads alone, or only sets them,
\* keeps a wakeup coming.
LEMMA WakeupStays ==
    ASSUME WakeupComing, wakeupFd' = wakeupFd, tpc' = tpc
    PROVE  WakeupComing'
  BY DEF WakeupComing

\* A thread that has pushed or stored quit_ is about to write the eventfd.
LEMMA ThreadWakes ==
    ASSUME TypeOK, NEW t \in Threads, tpc' = [tpc EXCEPT ![t] = "waking"]
    PROVE  WakeupComing'
  BY DEF WakeupComing, TypeOK
-----------------------------------------------------------------------------
\* The step that matters: no action leaves a functor queued and unannounced.
LEMMA WakeInvStep ==
    ASSUME ~EarlyQueue, TypeOK, BatchInv, WakeInv, [Next]_vars
    PROVE  WakeInv'
<1> USE DEF loopVars, workVars
<1>1. CASE Loop
  BY <1>1, WakeupStays DEF Loop, WakeInv
<1>2. CASE LoopStep
  <2>1. CASE CheckQuit
    BY <2>1, WakeupStays DEF CheckQuit, WakeInv, TypeOK
  <2>2. CASE PollReady \/ HandleRead \/ BeginCallback \/ EndCallback \/ EndHandling
    BY <2>2 DEF PollReady, HandleRead, BeginCallback, EndCallback, EndHandling, WakeInv
  <2>3. CASE Swap
    BY <2>3 DEF Swap, WakeInv
  <2>4. CASE BeginFunctor \/ EndFunctor \/ EndBatch
    BY <2>4, WakeupStays DEF BeginFunctor, EndFunctor, EndBatch, WakeInv
  <2> QED
    BY <1>2, <2>1, <2>2, <2>3, <2>4 DEF LoopStep
<1>3. CASE PollTimeout
  BY <1>3 DEF PollTimeout, WakeInv
<1>4. CASE UserStep
  <2>1. ASSUME NEW f \in Functors, QueueInLoop(f) PROVE WakeInv'
    <3>1. CASE pc = "callback"
      BY <2>1, <3>1 DEF QueueInLoop, WakeInv
    <3>2. CASE pc = "functor"
      <4>1. wakeupFd'
        BY <2>1, <3>2 DEF QueueInLoop, NeedsWakeup, BatchInv
      <4> QED
        BY <4>1 DEF WakeInv, WakeupComing
    <3> QED
      BY <2>1, <3>1, <3>2 DEF QueueInLoop, InUserCode
  <2>2. ASSUME NEW f \in Functors, RunInLoop(f) PROVE WakeInv'
    BY <2>2, WakeupStays DEF RunInLoop, WakeInv, InUserCode
  <2>3. CASE QuitInLoop
    BY <2>3, WakeupStays DEF QuitInLoop, WakeInv, InUserCode
  <2> QED
    BY <1>4, <2>1, <2>2, <2>3 DEF UserStep
<1>5. ASSUME NEW t \in Threads, ThreadStep(t) PROVE WakeInv'
  <2>1. ASSUME NEW f \in Functors, QueueFromThread(t, f) PROVE WakeInv'
    BY <2>1, ThreadWakes DEF QueueFromThread, NeedsWakeup, WakeInv
  <2>2. CASE QuitFromThread(t)
    BY <2>2, ThreadWakes DEF QuitFromThread, WakeInv
  <2>3. CASE Wakeup(t)
    BY <2>3 DEF Wakeup, WakeInv, WakeupComing
  <2> QED
    BY <1>5, <2>1, <2>2, <2>3 DEF ThreadStep
<1>6. CASE IoArrives
  BY <1>6, WakeupStays DEF IoArrives, WakeInv
<1>7. CASE UNCHANGED vars
  BY <1>7, WakeupStays DEF vars, WakeInv
<1> QED
  BY <1>1, <1>2, <1>3, <1>4, <1>5, <1>6, <1>7 DEF Next

\* When the loop's owner queues only from callbacks and functors, the loop is
\* never in epoll_wait with a functor queued, or quit_ set, and no wakeup on
\* its way: the wakeup condition of EventLoop::queueInLoop is sufficient.
THEOREM NeverSleepsOnWork ==
    ASSUME ~EarlyQueue
    PROVE  Spec => []NoSleepOnWork
<1>1. Init => WakeInv
  BY DEF Init, WakeInv
<1>2. TypeOK /\ BatchInv /\ WakeInv /\ [Next]_vars => WakeInv'
  BY WakeInvStep
<1>3. WakeInv => NoSleepOnWork
  BY DEF WakeInv, NoSleepOnWork
<1> QED
  BY <1>1, <1>2, <1>3, TypeCorrect, BatchInvariant, PTL DEF Spec
-----------------------------------------------------------------------------
\* EventLoop implements Executor: whatever the interleaving, each functor runs
\* at most once and the queued ones run in the order of the queue.
THEOREM ImplementsExecutor == Spec => Refinement
<1> DEFINE queue == functors \o pendingFunctors
<1>1. Init => Abstract!Init
  BY DEF Init, Abstract!Init
<1>2. TypeOK /\ BatchInv /\ [Next]_vars => [Abstract!Next]_Abstract!vars
  <2> SUFFICES ASSUME TypeOK, BatchInv, [Next]_vars
               PROVE  Abstract!Next \/ UNCHANGED <<fresh, queue, done>>
    BY DEF Abstract!vars
  <2> USE DEF loopVars, workVars
  <2>1. ASSUME NEW f \in Functors, PushPending(f) PROVE Abstract!Submit(f)
    <3>1. functors \o Append(pendingFunctors, f)
             = Append(functors \o pendingFunctors, f)
      <4>1. /\ functors \in Seq(Functors) /\ pendingFunctors \in Seq(Functors)
            /\ <<f>> \in Seq(Functors) /\ functors \o pendingFunctors \in Seq(Functors)
        BY DEF TypeOK
      <4> QED
        BY <4>1, AppendIsConcat, ConcatAssociative
    <3> QED
      BY <2>1, <3>1 DEF PushPending, Abstract!Submit
  <2>2. CASE Loop
    BY <2>2 DEF Loop
  <2>3. CASE LoopStep
    <3>1. CASE Swap
      <4>1. functors = <<>>
        BY <3>1 DEF Swap, BatchInv
      <4>2. functors' \o pendingFunctors' = functors \o pendingFunctors
        BY <3>1, <4>1, ConcatEmptySeq DEF Swap, TypeOK
      <4> QED
        BY <3>1, <4>2 DEF Swap
    <3>2. CASE BeginFunctor
      <4>1. /\ functors \in Seq(Functors) /\ functors # <<>>
            /\ pendingFunctors \in Seq(Functors)
        BY <3>2 DEF BeginFunctor, TypeOK
      <4>2. /\ functors \o pendingFunctors # <<>>
            /\ Head(functors \o pendingFunctors) = Head(functors)
            /\ Tail(functors \o pendingFunctors) = Tail(functors) \o pendingFunctors
        BY <4>1, ConcatSimplifications
      <4>3. Abstract!Execute
        BY <3>2, <4>2 DEF BeginFunctor, Abstract!Execute
      <4> QED
        BY <4>3 DEF Abstract!Next
    <3> QED
      BY <2>3, <3>1, <3>2
         DEF LoopStep, CheckQuit, PollReady, HandleRead, BeginCallback,
             EndCallback, EndHandling, EndFunctor, EndBatch
  <2>4. CASE PollTimeout
    BY <2>4 DEF PollTimeout
  <2>5. CASE UserStep
    <3>1. ASSUME NEW f \in Functors, RunInLoop(f) PROVE Abstract!RunInline(f)
      BY <3>1 DEF RunInLoop, Abstract!RunInline
    <3> QED
      BY <2>5, <2>1, <3>1 DEF UserStep, QueueInLoop, QuitInLoop, Abstract!Next
  <2>6. ASSUME NEW t \in Threads, ThreadStep(t)
        PROVE  Abstract!Next \/ UNCHANGED <<fresh, queue, done>>
    BY <2>6, <2>1 DEF ThreadStep, QueueFromThread, QuitFromThread, Wakeup, Abstract!Next
  <2>7. CASE IoArrives
    BY <2>7 DEF IoArrives
  <2>8. CASE UNCHANGED vars
    BY <2>8 DEF vars
  <2> QED
    BY <2>2, <2>3, <2>4, <2>5, <2>6, <2>7, <2>8 DEF Next
<1> QED
  BY <1>1, <1>2, TypeCorrect, BatchInvariant, PTL DEF Spec, Refinement, Abstract!Spec

-----------------------------------------------------------------------------
\* loop_ is set exactly from the moment it points to a constructed loop, and
\* startThread returns only a pointer that is set.
StageInv == /\ loop <=> stage \in {"published", "running", "finished"}
            /\ opc = "new" => stage = "unborn"
            /\ opc = "holding" => loop

LEMMA StepIsLoopStep == ASSUME [TNext]_allVars PROVE [Next]_vars
<1> USE OwnerAssumption DEF OwnerAssumption, allVars
<1>1. CASE UNCHANGED allVars
  BY <1>1
<1>2. CASE \/ StartThread \/ CheckLoop \/ Publish \/ SpuriousWakeup
           \/ Finish \/ DestroyUnstarted \/ Join
  BY <1>2 DEF StartThread, CheckLoop, Publish, SpuriousWakeup, Finish,
              DestroyUnstarted, Join
<1>3. CASE EnterLoop
  BY <1>3 DEF EnterLoop, Next
<1>4. CASE Destroy \/ QuitWakes
  BY <1>4 DEF Destroy, QuitWakes, Next, ThreadStep
<1>5. CASE LoopRuns \/ OthersUse \/ OthersFinish \/ Environment
  BY <1>5 DEF LoopRuns, OthersUse, OthersFinish, Environment, Next, ThreadStep
<1>6. CASE ThreadInitCallback
  BY <1>6 DEF ThreadInitCallback, Next, UserStep
<1> QED
  BY <1>1, <1>2, <1>3, <1>4, <1>5, <1>6 DEF TNext

\* An EventLoopThread runs its loop as EventLoop says: the owner and the
\* others only do what threads that do not own the loop may do.
THEOREM ImplementsEventLoop == TSpec => Spec
<1>1. TInit => Init
  BY DEF TInit
<1>2. [TNext]_allVars => [Next]_vars
  BY StepIsLoopStep
<1> QED
  BY <1>1, <1>2, PTL DEF TSpec, Spec

\* So the functors queued on the loop of an EventLoopThread are run at most
\* once, and in the order of the queue.
COROLLARY ThreadImplementsExecutor == TSpec => Refinement
  BY ImplementsEventLoop, ImplementsExecutor, PTL
-----------------------------------------------------------------------------
LEMMA StageInvStep ==
    ASSUME TTypeOK, StageInv, Handshake, [TNext]_allVars
    PROVE  StageInv' /\ Handshake'
<1> USE DEF StageInv, Handshake, threadVars
<1>1. CASE UNCHANGED allVars
  BY <1>1 DEF allVars
<1>2. CASE StartThread \/ CheckLoop
  BY <1>2 DEF StartThread, CheckLoop
<1>3. CASE Publish
  BY <1>3 DEF Publish
<1>4. CASE SpuriousWakeup
  BY <1>4 DEF SpuriousWakeup
<1>5. CASE EnterLoop \/ Finish
  BY <1>5 DEF EnterLoop, Finish
<1>6. CASE Destroy \/ DestroyUnstarted \/ QuitWakes \/ Join
  BY <1>6 DEF Destroy, DestroyUnstarted, QuitWakes, Join
<1>7. CASE LoopRuns \/ ThreadInitCallback \/ OthersUse \/ OthersFinish \/ Environment
  BY <1>7 DEF LoopRuns, ThreadInitCallback, OthersUse, OthersFinish, Environment
<1> QED
  BY <1>1, <1>2, <1>3, <1>4, <1>5, <1>6, <1>7 DEF TNext

\* The variables keep their types.
THEOREM ThreadTypeCorrect == TSpec => []TTypeOK
<1>1. TInit /\ TypeOK => TTypeOK
  BY DEF TInit, TTypeOK
<1>2. TTypeOK /\ [TNext]_allVars /\ TypeOK' => TTypeOK'
  <2> SUFFICES ASSUME TTypeOK, [TNext]_allVars, TypeOK' PROVE TTypeOK'
    OBVIOUS
  <2> USE DEF TTypeOK, threadVars, allVars
  <2>1. CASE \/ StartThread \/ CheckLoop \/ Publish \/ SpuriousWakeup \/ EnterLoop
             \/ Finish
    BY <2>1 DEF StartThread, CheckLoop, Publish, SpuriousWakeup, EnterLoop, Finish
  <2>2. CASE Destroy \/ DestroyUnstarted \/ QuitWakes \/ Join
    BY <2>2 DEF Destroy, DestroyUnstarted, QuitWakes, Join
  <2>3. CASE LoopRuns \/ ThreadInitCallback \/ OthersUse \/ OthersFinish \/ Environment
    BY <2>3 DEF LoopRuns, ThreadInitCallback, OthersUse, OthersFinish, Environment
  <2> QED
    BY <2>1, <2>2, <2>3 DEF TNext
<1> QED
  BY <1>1, <1>2, ImplementsEventLoop, TypeCorrect, PTL DEF TSpec

\* startThread returns a loop that exists, and never sleeps through the
\* notify that announces it.
THEOREM HandshakeHolds == TSpec => []Handshake
<1>1. TInit => StageInv /\ Handshake
  BY DEF TInit, StageInv, Handshake
<1>2. TTypeOK /\ StageInv /\ Handshake /\ [TNext]_allVars => StageInv' /\ Handshake'
  BY StageInvStep
<1> QED
  BY <1>1, <1>2, ThreadTypeCorrect, PTL DEF TSpec
-----------------------------------------------------------------------------
(***************************************************************************)
(* BlockingQueues.  Indexes run around the cells at most once, so that      *)
(* their remainders are differences.                                       *)
(***************************************************************************)

LEMMA CellsIs == Cells \in Nat /\ Capacity \in Nat \ {0} /\ Cells = Capacity + 2
  BY CapacityAssumption DEF Cells, CapacityAssumption

LEMMA Around ==
    ASSUME NEW n \in Nat, n < 2 * Cells
    PROVE  n % Cells = IF n < Cells THEN n ELSE n - Cells
<1>1. CASE n < Cells
  BY <1>1, CellsIs
<1>2. CASE n >= Cells
  <2>1. n - Cells \in 0 .. Cells - 1 /\ n = Cells * 1 + (n - Cells)
    BY <1>2, CellsIs
  <2>2. ASSUME NEW B \in Nat \ {0}, NEW i \in 0 .. B - 1 PROVE (B * 1 + i) % B = i
    BY <2>2
  <2>3. Cells \in Nat \ {0}
    BY CellsIs
  <2>4. (Cells * 1 + (n - Cells)) % Cells = n - Cells
    BY <2>1, <2>2, <2>3
  <2> QED
    BY <1>2, <2>1, <2>4, CellsIs
<1> QED
  BY <1>1, <1>2, CellsIs

LEMMA AroundBack ==
    ASSUME NEW n \in Nat, n < Cells
    PROVE  (-n) % Cells = IF n = 0 THEN 0 ELSE Cells - n
<1>1. CASE n = 0
  BY <1>1, CellsIs
<1>2. CASE n > 0
  <2>1. Cells - n \in 0 .. Cells - 1 /\ -n = Cells * (-1) + (Cells - n)
    BY <1>2, CellsIs
  <2>2. ASSUME NEW B \in Nat \ {0}, NEW i \in 0 .. B - 1 PROVE (B * (-1) + i) % B = i
    BY <2>2
  <2>3. Cells \in Nat \ {0}
    BY CellsIs
  <2>4. (Cells * (-1) + (Cells - n)) % Cells = Cells - n
    BY <2>1, <2>2, <2>3
  <2> QED
    BY <1>2, <2>1, <2>4, CellsIs
<1> QED
  BY <1>1, <1>2

-----------------------------------------------------------------------------
\* The same as Held, and the cell of the k-th element behind the front.
HeldIn(c) == IF c.front_ <= c.rear_ THEN c.rear_ - c.front_ ELSE c.rear_ - c.front_ + Cells

CellOf(c, k) == IF c.front_ + k < Cells THEN c.front_ + k ELSE c.front_ + k - Cells

LEMMA CircleIs ==
    ASSUME NEW c \in Circle
    PROVE  /\ Cells \in Nat /\ Cells > 2
           /\ c.front_ \in 0 .. Cells - 1 /\ c.rear_ \in 0 .. Cells - 1
           /\ c.data_ \in [0 .. Cells - 1 -> Nat]
  BY CellsIs DEF Circle

LEMMA AfterIs ==
    ASSUME NEW i \in 0 .. Cells - 1
    PROVE  After(i) \in 0 .. Cells - 1 /\ After(i) = IF i + 1 = Cells THEN 0 ELSE i + 1
<1>1. Cells \in Nat /\ Cells > 2
  BY CellsIs
<1>2. i + 1 \in Nat /\ i + 1 <= Cells /\ i + 1 < 2 * Cells
  BY <1>1
<1>3. (i + 1) % Cells = IF i + 1 < Cells THEN i + 1 ELSE i + 1 - Cells
  BY <1>1, <1>2, Around
<1> QED
  BY <1>1, <1>2, <1>3 DEF After

\* What the indexes say of a circular buffer.
LEMMA RingIs ==
    ASSUME NEW c \in Circle
    PROVE  /\ HeldIn(c) \in 0 .. Cells - 1
           /\ (c.rear_ - c.front_) % Cells = HeldIn(c)
           /\ empty(c) <=> HeldIn(c) = 0
           /\ full(c) <=> HeldIn(c) = Cells - 1
           /\ HeldIn(c) > 0 => size(c) = HeldIn(c)
           /\ \A k \in 0 .. Cells - 1 : /\ CellOf(c, k) \in 0 .. Cells - 1
                                        /\ (c.front_ + k) % Cells = CellOf(c, k)
           /\ CellOf(c, HeldIn(c)) = c.rear_
           /\ \A k \in 0 .. HeldIn(c) - 1 : CellOf(c, k) # c.rear_
<1>0. /\ Cells \in Nat /\ Cells > 2
      /\ c.front_ \in 0 .. Cells - 1 /\ c.rear_ \in 0 .. Cells - 1
  BY CircleIs
<1> USE <1>0
<1>1. HeldIn(c) \in 0 .. Cells - 1
  BY DEF HeldIn
<1>2. (c.rear_ - c.front_) % Cells = HeldIn(c)
  <2>1. CASE c.front_ <= c.rear_
    <3>1. c.rear_ - c.front_ \in Nat /\ c.rear_ - c.front_ < Cells /\ c.rear_ - c.front_ < 2 * Cells
      BY <2>1
    <3> QED
      BY <2>1, <3>1, Around DEF HeldIn
  <2>2. CASE c.front_ > c.rear_
    <3>1. c.front_ - c.rear_ \in Nat \ {0} /\ c.front_ - c.rear_ < Cells
          /\ c.rear_ - c.front_ = -(c.front_ - c.rear_)
      BY <2>2
    <3>2. (-(c.front_ - c.rear_)) % Cells = Cells - (c.front_ - c.rear_)
      BY <3>1, AroundBack
    <3> QED
      BY <2>2, <3>1, <3>2 DEF HeldIn
  <2> QED
    BY <2>1, <2>2
<1>3. empty(c) <=> HeldIn(c) = 0
  BY DEF empty, HeldIn
<1>4. full(c) <=> HeldIn(c) = Cells - 1
  <2>1. After(c.rear_) = IF c.rear_ + 1 = Cells THEN 0 ELSE c.rear_ + 1
    BY AfterIs
  <2> QED
    BY <2>1 DEF full, HeldIn
<1>5. HeldIn(c) > 0 => size(c) = HeldIn(c)
  BY DEF size, HeldIn
<1>6. ASSUME NEW k \in 0 .. Cells - 1
      PROVE  CellOf(c, k) \in 0 .. Cells - 1 /\ (c.front_ + k) % Cells = CellOf(c, k)
  <2>1. c.front_ + k \in Nat /\ c.front_ + k < 2 * Cells
    OBVIOUS
  <2>2. (c.front_ + k) % Cells = CellOf(c, k)
    BY <2>1, Around DEF CellOf
  <2> QED
    BY <2>2 DEF CellOf
<1>7. /\ CellOf(c, HeldIn(c)) = c.rear_
      /\ \A k \in 0 .. HeldIn(c) - 1 : CellOf(c, k) # c.rear_
  BY DEF HeldIn, CellOf
<1> QED
  BY <1>1, <1>2, <1>3, <1>4, <1>5, <1>6, <1>7

\* The ring holds what entered last, up to e, and what was taken, up to f, is older.
Holds(c, i, n) == c.data_[i] = n \/ (i >= Capacity /\ c.data_[i] = Lost)

Ring(c, e, f) ==
    /\ c \in Circle
    /\ \A k \in 0 .. HeldIn(c) - 1 : Holds(c, CellOf(c, k), e - HeldIn(c) + 1 + k)
    /\ f <= e - HeldIn(c)

\* Without its first element.
LEMMA PopKeeps ==
    ASSUME NEW c, NEW e \in Nat, NEW f \in Nat, Ring(c, e, f), HeldIn(c) > 0
    PROVE  /\ Ring(pop_front(c), e, f)
           /\ HeldIn(pop_front(c)) = HeldIn(c) - 1
           /\ Holds(c, c.front_, e - HeldIn(c) + 1)
<1> DEFINE d == pop_front(c)
<1>1. /\ c \in Circle /\ c.front_ \in 0 .. Cells - 1 /\ c.rear_ \in 0 .. Cells - 1
      /\ Cells \in Nat /\ Cells > 2 /\ HeldIn(c) \in 0 .. Cells - 1
  BY CircleIs, RingIs DEF Ring
<1>2. /\ d \in Circle /\ d.front_ = After(c.front_) /\ d.rear_ = c.rear_ /\ d.data_ = c.data_
  BY <1>1, AfterIs DEF pop_front, Circle
<1>3. d.front_ = IF c.front_ + 1 = Cells THEN 0 ELSE c.front_ + 1
  BY <1>1, <1>2, AfterIs
<1> HIDE DEF d
<1>4. HeldIn(d) = HeldIn(c) - 1
  BY <1>1, <1>2, <1>3 DEF HeldIn
<1>5. \A k \in 0 .. HeldIn(d) - 1 : CellOf(d, k) = CellOf(c, k + 1)
  BY <1>1, <1>3, <1>4 DEF CellOf
<1>6. CellOf(c, 0) = c.front_
  BY <1>1 DEF CellOf
<1>7. ASSUME NEW k \in 0 .. HeldIn(d) - 1
      PROVE  Holds(d, CellOf(d, k), e - HeldIn(d) + 1 + k)
  <2>1. k + 1 \in 0 .. HeldIn(c) - 1 /\ e - HeldIn(c) + 1 + (k + 1) = e - HeldIn(d) + 1 + k
    BY <1>1, <1>4
  <2>2. Holds(c, CellOf(c, k + 1), e - HeldIn(c) + 1 + (k + 1))
    BY <2>1 DEF Ring
  <2> QED
    BY <1>2, <1>5, <2>1, <2>2 DEF Holds
<1>8. f <= e - HeldIn(d)
  BY <1>1, <1>4 DEF Ring
<1>9. Holds(c, c.front_, e - HeldIn(c) + 1)
  <2>1. 0 \in 0 .. HeldIn(c) - 1 /\ e - HeldIn(c) + 1 + 0 = e - HeldIn(c) + 1
    BY <1>1
  <2>2. Holds(c, CellOf(c, 0), e - HeldIn(c) + 1 + 0)
    BY <2>1 DEF Ring
  <2> QED
    BY <1>6, <2>1, <2>2
<1> QED
  BY <1>2, <1>4, <1>7, <1>8, <1>9 DEF Ring, d

\* With one more, and without its first exactly if it held `capacity' others.
LEMMA PushKeeps ==
    ASSUME NEW c, NEW e \in Nat, NEW f \in Nat, Ring(c, e, f), HeldIn(c) <= Capacity,
           NEW d \in push_back(c, e + 1)
    PROVE  /\ Ring(d, e + 1, f)
           /\ HeldIn(d) <= Capacity
           /\ HeldIn(d) = IF HeldIn(c) < Capacity THEN HeldIn(c) + 1 ELSE Capacity
<1>1. /\ c \in Circle /\ c.front_ \in 0 .. Cells - 1 /\ c.rear_ \in 0 .. Cells - 1
      /\ c.data_ \in [0 .. Cells - 1 -> Nat]
      /\ Cells \in Nat /\ Capacity \in Nat /\ Cells = Capacity + 2 /\ HeldIn(c) \in 0 .. Capacity
  <2>1. c \in Circle
    BY DEF Ring
  <2>2. HeldIn(c) \in 0 .. Cells - 1
    BY <2>1, RingIs
  <2> QED
    BY <2>1, <2>2, CellsIs, CircleIs
<1>2. PICK y \in Stored(c.rear_, e + 1) :
          d = LET x == [c EXCEPT !.data_[c.rear_] = y, !.rear_ = After(@)]
              IN  IF full(x) THEN pop_front(x) ELSE x
  BY DEF push_back
<1> DEFINE x == [c EXCEPT !.data_[c.rear_] = y, !.rear_ = After(@)]
<1>3. y \in Nat /\ (y = e + 1 \/ (c.rear_ >= Capacity /\ y = Lost))
  BY <1>1, <1>2 DEF Stored, Lost
<1>4. /\ x \in Circle /\ x.front_ = c.front_ /\ x.rear_ = After(c.rear_)
      /\ x.data_ = [c.data_ EXCEPT ![c.rear_] = y]
  <2>1. After(c.rear_) \in 0 .. Cells - 1 /\ [c.data_ EXCEPT ![c.rear_] = y] \in [0 .. Cells - 1 -> Nat]
    BY <1>1, <1>3, AfterIs
  <2>2. x = [c EXCEPT !.data_ = [c.data_ EXCEPT ![c.rear_] = y], !.rear_ = After(c.rear_)]
    BY <1>1 DEF Circle
  <2> HIDE DEF x
  <2> QED
    BY <1>1, <2>1, <2>2 DEF Circle
<1>5. d = IF full(x) THEN pop_front(x) ELSE x
  BY <1>2
<1>6. x.rear_ = IF c.rear_ + 1 = Cells THEN 0 ELSE c.rear_ + 1
  BY <1>1, <1>4, AfterIs
<1> HIDE DEF x
<1>7. HeldIn(x) = HeldIn(c) + 1 /\ \A k \in 0 .. HeldIn(c) : CellOf(x, k) = CellOf(c, k)
  <2>1. HeldIn(x) = IF c.front_ <= x.rear_ THEN x.rear_ - c.front_ ELSE x.rear_ - c.front_ + Cells
    BY <1>4 DEF HeldIn
  <2>2. HeldIn(c) = IF c.front_ <= c.rear_ THEN c.rear_ - c.front_ ELSE c.rear_ - c.front_ + Cells
    BY DEF HeldIn
  <2>3. /\ Cells \in Int /\ c.front_ \in Int /\ c.rear_ \in Int /\ x.rear_ \in Int
        /\ 0 <= c.front_ /\ c.front_ < Cells /\ 0 <= c.rear_ /\ c.rear_ < Cells
        /\ HeldIn(c) <= Cells - 2
    BY <1>1, <1>6
  <2>5. HeldIn(x) = HeldIn(c) + 1
    <3>1. CASE c.rear_ + 1 = Cells
      BY <1>6, <2>1, <2>2, <2>3, <3>1
    <3>2. CASE c.rear_ + 1 # Cells /\ c.front_ <= c.rear_
      BY <1>6, <2>1, <2>2, <2>3, <3>2
    <3>3. CASE c.rear_ + 1 # Cells /\ c.front_ > c.rear_
      BY <1>6, <2>1, <2>2, <2>3, <3>3
    <3> QED
      BY <2>3, <3>1, <3>2, <3>3
  <2>4. \A k \in 0 .. HeldIn(c) : CellOf(x, k) = CellOf(c, k)
    <3>1. x.front_ = c.front_
      BY <1>4
    <3> QED
      BY <3>1 DEF CellOf
  <2> QED
    BY <2>4, <2>5
<1>8. Ring(x, e + 1, f)
  <2>1. ASSUME NEW k \in 0 .. HeldIn(x) - 1
        PROVE  Holds(x, CellOf(x, k), (e + 1) - HeldIn(x) + 1 + k)
    <3>0. /\ HeldIn(x) = HeldIn(c) + 1 /\ HeldIn(c) \in Nat /\ HeldIn(c) <= Capacity
          /\ Capacity \in Nat /\ Cells = Capacity + 2
      BY <1>1, <1>7
    <3>1. k \in 0 .. HeldIn(c) /\ k \in 0 .. Cells - 1
          /\ (e + 1) - HeldIn(x) + 1 + k = e - HeldIn(c) + 1 + k
      BY <3>0
    <3>2. CASE k = HeldIn(c)
      <4>1. CellOf(x, k) = c.rear_ /\ (e + 1) - HeldIn(x) + 1 + k = e + 1
        <5>1. CellOf(c, HeldIn(c)) = c.rear_
          BY <1>1, RingIs
        <5>2. CellOf(x, k) = CellOf(c, k)
          BY <1>7, <3>1
        <5>3. e - HeldIn(c) + 1 + k = e + 1
          BY <1>1, <3>2
        <5> QED
          BY <3>1, <3>2, <5>1, <5>2, <5>3
      <4> QED
        BY <1>1, <1>3, <1>4, <4>1 DEF Holds
    <3>3. CASE k # HeldIn(c)
      <4>1. k \in 0 .. HeldIn(c) - 1
        BY <1>1, <3>1, <3>3
      <4>2. CellOf(c, k) # c.rear_ /\ CellOf(c, k) \in 0 .. Cells - 1
        BY <1>1, <3>1, <4>1, RingIs
      <4>3. Holds(c, CellOf(c, k), e - HeldIn(c) + 1 + k)
        BY <4>1 DEF Ring
      <4> QED
        BY <1>1, <1>4, <1>7, <3>1, <4>2, <4>3 DEF Holds
    <3> QED
      BY <3>2, <3>3
  <2>2. f <= (e + 1) - HeldIn(x)
    BY <1>1, <1>7 DEF Ring
  <2> QED
    BY <1>4, <2>1, <2>2 DEF Ring
<1>9. full(x) <=> HeldIn(c) = Capacity
  <2>1. full(x) <=> HeldIn(x) = Cells - 1
    BY <1>4, RingIs
  <2> QED
    BY <1>1, <1>7, <2>1
<1>10. CASE full(x)
  <2>1. HeldIn(x) > 0
    BY <1>1, <1>7
  <2>2. Ring(pop_front(x), e + 1, f) /\ HeldIn(pop_front(x)) = HeldIn(x) - 1
    BY <1>8, <2>1, PopKeeps
  <2> QED
    BY <1>1, <1>5, <1>7, <1>9, <1>10, <2>2
<1>11. CASE ~full(x)
  BY <1>1, <1>5, <1>7, <1>8, <1>9, <1>11
<1> QED
  BY <1>10, <1>11

-----------------------------------------------------------------------------
Working == {p \in Producer : producer[p].at # "gone"}

QueueInv ==
    /\ QueueTypeOK
    /\ bounded => Ring(circle, entered, fetched) /\ HeldIn(circle) <= Capacity
    /\ ~bounded => deque = [k \in 1 .. Len(deque) |-> fetched + k] /\ fetched + Len(deque) = entered
    /\ count_ = Cardinality(Working)
    /\ waiter = "passed" => Working = {}

LEMMA WorkingIs ==
    /\ IsFiniteSet(Working) /\ Cardinality(Working) \in Nat
    /\ Cardinality(Producer) \in Nat /\ Cardinality(Working) <= Cardinality(Producer)
    /\ Cardinality(Working) = 0 <=> Working = {}
  BY ProducerAssumption, FS_Subset, FS_CardinalityType, FS_EmptySet
     DEF Working, ProducerAssumption

LEMMA QueueStarts == QueueInit => QueueInv
<1> SUFFICES ASSUME QueueInit PROVE QueueInv
  OBVIOUS
<1>1. Working = Producer
  BY DEF QueueInit, Working
<1>2. Cells \in Nat /\ Cells > 2 /\ Capacity \in Nat
  BY CellsIs
<1>3. circle \in Circle /\ circle.front_ = 0 /\ circle.rear_ = 0
  BY <1>2 DEF QueueInit, NewCircle, Circle, Lost
<1>4. HeldIn(circle) = 0
  BY <1>2, <1>3 DEF HeldIn
<1>5. Ring(circle, entered, fetched) /\ HeldIn(circle) <= Capacity
  BY <1>2, <1>3, <1>4 DEF Ring, QueueInit
<1>6. deque = [k \in 1 .. Len(deque) |-> fetched + k] /\ fetched + Len(deque) = entered
  BY DEF QueueInit
<1>7. producer \in [Producer -> Producers]
  BY MaxPutsAssumption DEF QueueInit, Producers, MaxPutsAssumption
<1>8. QueueTypeOK
  <2>1. << >> \in Seq(Nat) /\ count_ \in 0 .. Cardinality(Producer)
    BY <1>1, WorkingIs DEF QueueInit
  <2> QED
    BY <1>3, <1>7, <2>1 DEF QueueInit, QueueTypeOK
<1> QED
  BY <1>1, <1>5, <1>6, <1>8 DEF QueueInv, QueueInit

\* A sleeper is woken or nobody is.
LEMMA WokenIsTyped ==
    ASSUME QueueTypeOK, NEW w \in WokenByPut
    PROVE  w \in [Consumer -> {"take", "waiting"}]
  BY DEF WokenByPut, QueueTypeOK

\* Calls that leave the queue and the latch as they are.
LEMMA OthersKeepQueue ==
    ASSUME QueueInv,
           \/ \E p \in Producer : CallPut(p)
           \/ \E c \in Consumer : TakeWaits(c) \/ Spurious(c)
           \/ UNCHANGED queueVars
    PROVE  QueueInv'
<1>1. UNCHANGED <<bounded, circle, deque, count_, waiter, entered, fetched>>
  BY DEF CallPut, TakeWaits, Spurious, queueVars
<1>2. producer' \in [Producer -> Producers] /\ Working' = Working
  <2>1. CASE producer' = producer
    BY <2>1 DEF QueueInv, QueueTypeOK, Working
  <2>2. ASSUME NEW p \in Producer, CallPut(p)
        PROVE  producer' \in [Producer -> Producers] /\ Working' = Working
    <3>1. producer[p] \in Producers /\ producer[p].at = "free" /\ producer[p].left > 0
      BY <2>2 DEF CallPut, QueueInv, QueueTypeOK
    <3>2. producer[p].left - 1 \in 0 .. MaxPuts
      BY <3>1, MaxPutsAssumption DEF Producers, MaxPutsAssumption
    <3>3. producer' = [producer EXCEPT ![p] = [at |-> "put", left |-> producer[p].left - 1]]
      BY <2>2 DEF CallPut
    <3>4. [at |-> "put", left |-> producer[p].left - 1] \in Producers
      BY <3>2 DEF Producers
    <3> QED
      BY <3>1, <3>3, <3>4 DEF QueueInv, QueueTypeOK, Working
  <2> QED
    BY <2>1, <2>2 DEF TakeWaits, Spurious, queueVars
<1>3. consumer' \in [Consumer -> {"take", "waiting"}]
  BY DEF CallPut, TakeWaits, Spurious, queueVars, QueueInv, QueueTypeOK
<1> QED
  BY <1>1, <1>2, <1>3 DEF QueueInv, QueueTypeOK

\* A sequence is the function of its elements.
LEMMA CountsUp ==
    ASSUME NEW s \in Seq(Nat), NEW f \in Nat, \A k \in 1 .. Len(s) : s[k] = f + k
    PROVE  s = [k \in 1 .. Len(s) |-> f + k]
<1>1. s \in [1 .. Len(s) -> Nat]
  BY LenProperties
<1>2. s = [k \in 1 .. Len(s) |-> s[k]]
  BY <1>1
<1> QED
  BY <1>2

LEMMA PutKeeps == ASSUME QueueInv, NEW p \in Producer, put(p) PROVE QueueInv'
<1>1. UNCHANGED <<bounded, count_, waiter, fetched>> /\ entered' = entered + 1
      /\ entered \in Nat /\ fetched \in Nat
  BY DEF put, QueueInv, QueueTypeOK
<1>2. producer' \in [Producer -> Producers] /\ Working' = Working
  <2>1. producer[p] \in Producers /\ producer[p].at = "put"
    BY DEF put, QueueInv, QueueTypeOK
  <2>2. producer' = [producer EXCEPT ![p] = [producer[p] EXCEPT !.at = "free"]]
    BY DEF put
  <2>3. [producer[p] EXCEPT !.at = "free"] \in Producers /\ [producer[p] EXCEPT !.at = "free"].at = "free"
    BY <2>1 DEF Producers
  <2> QED
    BY <2>1, <2>2, <2>3 DEF QueueInv, QueueTypeOK, Working
<1>3. consumer' \in [Consumer -> {"take", "waiting"}]
  BY WokenIsTyped DEF put, QueueInv
<1>4. CASE bounded
  <2>1. circle' \in push_back(circle, entered + 1) /\ deque' = deque
    BY <1>4 DEF put
  <2>2. Ring(circle', entered + 1, fetched) /\ HeldIn(circle') <= Capacity
    BY <1>1, <1>4, <2>1, PushKeeps DEF QueueInv
  <2> QED
    BY <1>1, <1>2, <1>3, <1>4, <2>1, <2>2 DEF QueueInv, QueueTypeOK, Ring
<1>5. CASE ~bounded
  <2>1. deque' = Append(deque, entered + 1) /\ circle' = circle
    BY <1>5 DEF put
  <2>2. deque \in Seq(Nat) /\ fetched + Len(deque) = entered /\ Len(deque) \in Nat
        /\ \A k \in 1 .. Len(deque) : deque[k] = fetched + k
    BY <1>5 DEF QueueInv, QueueTypeOK
  <2>3. /\ deque' \in Seq(Nat) /\ Len(deque') = Len(deque) + 1
        /\ \A k \in 1 .. Len(deque) : deque'[k] = deque[k]
        /\ deque'[Len(deque) + 1] = entered + 1
    BY <1>1, <2>1, <2>2, AppendProperties
  <2>4. \A k \in 1 .. Len(deque') : deque'[k] = fetched + k
    <3> SUFFICES ASSUME NEW k \in 1 .. Len(deque') PROVE deque'[k] = fetched + k
      OBVIOUS
    <3>1. k \in 1 .. Len(deque) \/ k = Len(deque) + 1
      BY <2>2, <2>3
    <3>2. CASE k \in 1 .. Len(deque)
      BY <2>2, <2>3, <3>2
    <3>3. CASE k = Len(deque) + 1
      <4>1. deque'[k] = entered + 1
        BY <2>3, <3>3
      <4>2. fetched + k = entered + 1
        BY <1>1, <2>2, <3>3
      <4> QED
        BY <4>1, <4>2
    <3> QED
      BY <3>1, <3>2, <3>3
  <2>5. deque' = [k \in 1 .. Len(deque') |-> fetched + k] /\ fetched + Len(deque') = entered + 1
    BY <1>1, <2>2, <2>3, <2>4, CountsUp
  <2> QED
    BY <1>1, <1>2, <1>3, <1>5, <2>1, <2>3, <2>5 DEF QueueInv, QueueTypeOK
<1> QED
  BY <1>4, <1>5

LEMMA TakeKeeps == ASSUME QueueInv, NEW c \in Consumer, take(c) PROVE QueueInv'
<1>1. UNCHANGED <<bounded, producer, consumer, count_, waiter, entered>>
      /\ entered \in Nat /\ fetched \in Nat /\ ~NoElements
  BY DEF take, QueueInv, QueueTypeOK
<1>2. Working' = Working
  BY <1>1 DEF Working
<1>3. CASE bounded
  <2>1. /\ circle' = pop_front(circle) /\ deque' = deque /\ fetched' = circle.data_[circle.front_]
        /\ circle \in Circle /\ HeldIn(circle) # 0
    BY <1>1, <1>3, RingIs DEF take, front, NoElements, QueueInv, QueueTypeOK
  <2>2. HeldIn(circle) \in Nat /\ HeldIn(circle) > 0 /\ HeldIn(circle) <= Capacity /\ Capacity \in Nat
    BY <1>3, <2>1, RingIs, CellsIs DEF QueueInv
  <2>3. /\ Ring(circle', entered, fetched) /\ HeldIn(circle') = HeldIn(circle) - 1
        /\ Holds(circle, circle.front_, entered - HeldIn(circle) + 1)
    BY <1>1, <1>3, <2>1, <2>2, PopKeeps DEF QueueInv
  <2>4. fetched' \in Nat /\ fetched' <= entered - HeldIn(circle')
    <3>1. fetched <= entered - HeldIn(circle)
      BY <1>3 DEF QueueInv, Ring
    <3> QED
      BY <1>1, <2>1, <2>2, <2>3, <3>1 DEF Holds, Lost
  <2>5. Ring(circle', entered, fetched')
    BY <2>3, <2>4 DEF Ring
  <2>6. HeldIn(circle') <= Capacity
    BY <2>2, <2>3
  <2> QED
    BY <1>1, <1>2, <1>3, <2>1, <2>4, <2>5, <2>6 DEF QueueInv, QueueTypeOK, Ring
<1>4. CASE ~bounded
  <2>1. deque' = Tail(deque) /\ circle' = circle /\ fetched' = Head(deque) /\ deque # << >>
    BY <1>1, <1>4 DEF take, NoElements
  <2>2. deque \in Seq(Nat) /\ fetched + Len(deque) = entered
        /\ \A k \in 1 .. Len(deque) : deque[k] = fetched + k
    BY <1>4 DEF QueueInv, QueueTypeOK
  <2>3. /\ Len(deque) \in Nat \ {0} /\ deque' \in Seq(Nat) /\ Len(deque') = Len(deque) - 1
        /\ \A k \in 1 .. Len(deque') : deque'[k] = deque[k + 1]
        /\ fetched' = deque[1]
    BY <2>1, <2>2
  <2>4. fetched' = fetched + 1
    <3>1. 1 \in 1 .. Len(deque)
      BY <2>3
    <3>2. deque[1] = fetched + 1
      BY <2>2, <3>1
    <3> QED
      BY <2>3, <3>2
  <2>5. \A k \in 1 .. Len(deque') : deque'[k] = fetched' + k
    <3> SUFFICES ASSUME NEW k \in 1 .. Len(deque') PROVE deque'[k] = fetched' + k
      OBVIOUS
    <3>1. k + 1 \in 1 .. Len(deque)
      BY <2>3
    <3>2. deque'[k] = deque[k + 1] /\ deque[k + 1] = fetched + (k + 1)
      BY <2>2, <2>3, <3>1
    <3> QED
      BY <1>1, <2>3, <2>4, <3>2
  <2>6. deque' = [k \in 1 .. Len(deque') |-> fetched' + k] /\ fetched' + Len(deque') = entered
    <3>1. deque' \in Seq(Nat) /\ fetched' \in Nat
      BY <1>1, <2>3, <2>4
    <3>2. deque' = [k \in 1 .. Len(deque') |-> fetched' + k]
      BY <2>5, <3>1, CountsUp
    <3>3. Len(deque') = Len(deque) - 1 /\ Len(deque) \in Nat
      BY <2>3
    <3>4. fetched' + Len(deque') = entered
      BY <1>1, <2>2, <2>4, <3>3
    <3> QED
      BY <3>2, <3>4
  <2> QED
    BY <1>1, <1>2, <1>4, <2>1, <2>3, <2>4, <2>6 DEF QueueInv, QueueTypeOK
<1> QED
  BY <1>3, <1>4

\* A producer counts down once.
LEMMA CountKeeps == ASSUME QueueInv, NEW p \in Producer, CountDown(p) PROVE QueueInv'
<1>1. /\ UNCHANGED <<bounded, circle, deque, consumer, entered, fetched>> /\ count_' = count_ - 1
      /\ producer[p] \in Producers /\ producer[p].at = "free"
      /\ producer' = [producer EXCEPT ![p] = [producer[p] EXCEPT !.at = "gone"]]
      /\ waiter' \in {waiter, "woken"}
  BY DEF CountDown, QueueInv, QueueTypeOK
<1>2. [producer[p] EXCEPT !.at = "gone"] \in Producers /\ [producer[p] EXCEPT !.at = "gone"].at = "gone"
  BY <1>1 DEF Producers
<1>3. producer' \in [Producer -> Producers] /\ Working' = Working \ {p} /\ p \in Working
  BY <1>1, <1>2 DEF QueueInv, QueueTypeOK, Working
<1>4. Cardinality(Working \ {p}) = Cardinality(Working) - 1
  BY <1>3, WorkingIs, FS_RemoveElement
<1>5. count_' = Cardinality(Working') /\ count_' \in 0 .. Cardinality(Producer)
  <2>1. Cardinality(Working \ {p}) \in Nat
    BY WorkingIs, FS_RemoveElement, FS_CardinalityType
  <2> QED
    BY <1>1, <1>3, <1>4, <2>1, WorkingIs DEF QueueInv
<1>6. waiter' # "passed"
  BY <1>1, <1>3 DEF QueueInv
<1> QED
  BY <1>1, <1>3, <1>5, <1>6 DEF QueueInv, QueueTypeOK

LEMMA LatchKeeps == ASSUME QueueInv, WaitForLatch PROVE QueueInv'
<1>1. /\ UNCHANGED <<bounded, circle, deque, producer, consumer, count_, entered, fetched>>
      /\ waiter' = IF count_ > 0 THEN "waiting" ELSE "passed"
      /\ Working' = Working
  BY DEF WaitForLatch, Working
<1>2. count_ = 0 => Working = {}
  BY WorkingIs DEF QueueInv
<1>3. count_ \in Nat
  BY WorkingIs DEF QueueInv
<1> QED
  BY <1>1, <1>2, <1>3 DEF QueueInv, QueueTypeOK

LEMMA QueueStep == QueueInv /\ [QueueNext]_queueVars => QueueInv'
  BY OthersKeepQueue, PutKeeps, TakeKeeps, CountKeeps, LatchKeeps
     DEF QueueNext, ProducerStep, ConsumerStep

\* Held, of the model, is HeldIn, of the lemmas.
LEMMA HeldIs ==
    ASSUME QueueInv
    PROVE  circle \in Circle /\ Held = HeldIn(circle) /\ HeldIn(circle) \in 0 .. Cells - 1
<1>1. circle \in Circle
  BY DEF QueueInv, QueueTypeOK
<1> QED
  BY <1>1, RingIs DEF Held

\* A put adds one, and forgets one exactly if it finds `capacity' others.
LEMMA PutsOne ==
    ASSUME QueueInv, QueueInv', bounded, NEW p \in Producer, put(p)
    PROVE  PutOne
<1>1. circle' \in push_back(circle, entered + 1) /\ entered' = entered + 1 /\ fetched' = fetched
      /\ entered \in Nat /\ fetched \in Nat
  BY DEF put, QueueInv, QueueTypeOK
<1>2. Ring(circle, entered, fetched) /\ HeldIn(circle) <= Capacity
  BY DEF QueueInv
<1>3. HeldIn(circle') = IF HeldIn(circle) < Capacity THEN HeldIn(circle) + 1 ELSE Capacity
  BY <1>1, <1>2, PushKeeps
<1>4. Held = HeldIn(circle) /\ Held' = HeldIn(circle')
  <2>1. circle' \in Circle
    BY DEF QueueInv, QueueTypeOK
  <2> QED
    BY <2>1, HeldIs, RingIs DEF Held
<1> QED
  BY <1>1, <1>3, <1>4 DEF PutOne

\* A take takes the oldest, or what is read where the oldest was not stored.
LEMMA TakesOne ==
    ASSUME QueueInv, QueueInv', bounded, NEW c \in Consumer, take(c)
    PROVE  TakeOne
<1>1. /\ circle' = pop_front(circle) /\ entered' = entered
      /\ fetched' = circle.data_[circle.front_] /\ ~empty(circle)
      /\ entered \in Nat /\ fetched \in Nat
  BY DEF take, front, NoElements, QueueInv, QueueTypeOK
<1>2. circle \in Circle /\ Ring(circle, entered, fetched)
  BY DEF QueueInv, QueueTypeOK
<1>3. HeldIn(circle) > 0
  BY <1>1, <1>2, RingIs, CellsIs
<1>4. HeldIn(circle') = HeldIn(circle) - 1 /\ Holds(circle, circle.front_, entered - HeldIn(circle) + 1)
  BY <1>1, <1>2, <1>3, PopKeeps
<1>5. Held = HeldIn(circle) /\ Held' = HeldIn(circle')
  <2>1. circle' \in Circle
    BY DEF QueueInv, QueueTypeOK
  <2> QED
    BY <2>1, HeldIs, RingIs DEF Held
<1> QED
  BY <1>1, <1>4, <1>5 DEF TakeOne, Holds, Spoiled

\* Every step of the bounded queue puts one, takes one or leaves it alone.
LEMMA StepsAreOne == QueueInv /\ [QueueNext]_queueVars => [OneByOne]_queueVars
<1> SUFFICES ASSUME QueueInv, [QueueNext]_queueVars, bounded
             PROVE  PutOne \/ TakeOne \/ UNCHANGED <<circle, entered, fetched>>
  BY DEF OneByOne
<1>1. QueueInv'
  BY QueueStep
<1>2. ASSUME NEW p \in Producer, put(p) PROVE PutOne
  BY <1>1, <1>2, PutsOne
<1>3. ASSUME NEW c \in Consumer, take(c) PROVE TakeOne
  BY <1>1, <1>3, TakesOne
<1>4. CASE UNCHANGED queueVars
  BY <1>4 DEF queueVars
<1>5. ASSUME NEW p \in Producer, CallPut(p) \/ CountDown(p)
      PROVE  UNCHANGED <<circle, entered, fetched>>
  BY <1>5 DEF CallPut, CountDown
<1>6. ASSUME NEW c \in Consumer, TakeWaits(c) \/ Spurious(c)
      PROVE  UNCHANGED <<circle, entered, fetched>>
  BY <1>6 DEF TakeWaits, Spurious
<1>7. WaitForLatch => UNCHANGED <<circle, entered, fetched>>
  BY DEF WaitForLatch
<1> QED
  BY <1>2, <1>3, <1>4, <1>5, <1>6, <1>7 DEF QueueNext, ProducerStep, ConsumerStep

\* For any capacity, and any number of threads that put and take: both queues hold the last
\* elements put, in their order, over every wrap of the two indexes of circular_buffer, and
\* spoil nothing but what lies outside of its array.  A put() of the bounded one forgets the
\* oldest element exactly if it finds `capacity' others, a take() takes the oldest one and
\* nothing else, and no other step changes it.  And who waits for the latch does not pass
\* before all have counted it down.  This is the safe part of QueueServes.
THEOREM QueuesKeepOrder ==
    QueueSpec =>
        /\ [](QueueTypeOK /\ Fifo /\ (waiter = "passed" => \A p \in Producer : producer[p].at = "gone"))
        /\ [][OneByOne]_queueVars
<1>1. QueueInv => Fifo
  <2>1. ASSUME QueueInv, bounded PROVE Fifo
    <3>1. circle \in Circle /\ Ring(circle, entered, fetched) /\ HeldIn(circle) <= Capacity
      BY <2>1 DEF QueueInv, QueueTypeOK
    <3>2. Held = HeldIn(circle) /\ HeldIn(circle) \in 0 .. Cells - 1 /\ Cells \in Nat
      BY <2>1, HeldIs, CellsIs
    <3>3. \A k \in 0 .. HeldIn(circle) - 1 : (circle.front_ + k) % Cells = CellOf(circle, k)
      BY <3>1, <3>2, RingIs
    <3>4. HeldIn(circle) > 0 => size(circle) = HeldIn(circle)
      BY <3>1, RingIs
    <3> QED
      BY <2>1, <3>1, <3>2, <3>3, <3>4 DEF Fifo, Ring, Holds, Spoiled
  <2>2. ASSUME QueueInv, ~bounded PROVE Fifo
    BY <2>2 DEF QueueInv, Fifo
  <2> QED
    BY <2>1, <2>2
<1>2. QueueInv => QueueTypeOK /\ (waiter = "passed" => \A p \in Producer : producer[p].at = "gone")
  BY DEF QueueInv, Working
<1> QED
  BY <1>1, <1>2, QueueStarts, QueueStep, StepsAreOne, PTL DEF QueueSpec
=============================================================================
