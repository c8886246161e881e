----------------------------- MODULE EventLoop ------------------------------
(***************************************************************************)
(* One EventLoop (multiThread/net/EventLoop.{h,cpp}): its loop() in the    *)
(* thread that owns it, and the threads that call queueInLoop, runInLoop   *)
(* and quit on it.                                                         *)
(*                                                                         *)
(* The loop's thread is a program counter `pc':                            *)
(*   idle      outside loop()                                              *)
(*   check     at while (!quit_)                                           *)
(*   poll      in epoll_wait                                               *)
(*   handle    walking activeChannels_                                     *)
(*   callback  inside the callback of a channel other than wakeupChannel_  *)
(*   swap      at the head of doPendingFunctors                            *)
(*   batch     between two functors of the swapped-out vector              *)
(*   functor   inside a functor                                            *)
(* User code runs at `callback' and `functor': there it may queue or run   *)
(* further functors or quit the loop.                                      *)
(*                                                                         *)
(* All channels but wakeupChannel_ are one, "io".  The value of the        *)
(* eventfd counter is never used, so wakeupFd says only if it is readable. *)
(***************************************************************************)
EXTENDS Naturals, Sequences

CONSTANTS Threads,     \* the threads that do not own the loop
          Functors,    \* the calls of queueInLoop / runInLoop
          EarlyQueue   \* may the owner call queueInLoop outside loop()?

ASSUME EarlyQueueAssumption == EarlyQueue \in BOOLEAN

VARIABLES pc,               \* the loop thread's program counter
          looping,          \* looping_
          quit,             \* quit_
          calling,          \* callingPendingFuntors_
          wakeupFd,         \* is the eventfd readable?
          ioReady,          \* is some other registered fd ready?
          active,           \* activeChannels_ still to handle
          pendingFunctors,  \* pendingFunctors_
          functors,         \* what is left of doPendingFunctors' local vector
          tpc,              \* the other threads: "out", or "waking" before wakeup()
          fresh,            \* history: the calls not made yet
          done              \* history: functors started, in order

loopVars == <<pc, looping, quit, calling, wakeupFd, ioReady, active>>
workVars == <<pendingFunctors, functors, fresh, done>>
vars == <<pc, looping, quit, calling, wakeupFd, ioReady, active,
          pendingFunctors, functors, tpc, fresh, done>>

Locations == {"idle", "check", "poll", "handle", "callback", "swap", "batch",
              "functor"}

Init == /\ pc = "idle"
        /\ looping = FALSE
        /\ quit = FALSE
        /\ calling = FALSE
        /\ wakeupFd = FALSE
        /\ ioReady = FALSE
        /\ active = {}
        /\ pendingFunctors = <<>>
        /\ functors = <<>>
        /\ tpc = [t \in Threads |-> "out"]
        /\ fresh = Functors
        /\ done = <<>>
-----------------------------------------------------------------------------
\* loop(): the entry forgets an earlier quit().
Loop == /\ pc = "idle"
        /\ ~looping
        /\ looping' = TRUE
        /\ quit' = FALSE
        /\ pc' = "check"
        /\ UNCHANGED <<calling, wakeupFd, ioReady, active, workVars, tpc>>

\* while (!quit_), and the exit of loop().
CheckQuit == /\ pc = "check"
             /\ IF quit
                THEN pc' = "idle" /\ looping' = FALSE
                ELSE pc' = "poll" /\ UNCHANGED looping
             /\ active' = {}
             /\ UNCHANGED <<quit, calling, wakeupFd, ioReady, workVars, tpc>>

ReadyChannels == {c \in {"wakeup", "io"} : \/ c = "wakeup" /\ wakeupFd
                                           \/ c = "io" /\ ioReady}

\* epoll_wait returns the ready descriptors.
PollReady == /\ pc = "poll"
             /\ ReadyChannels # {}
             /\ active' = ReadyChannels
             /\ pc' = "handle"
             /\ UNCHANGED <<looping, quit, calling, wakeupFd, ioReady, workVars, tpc>>

\* epoll_wait returns nothing: kEpollTimeMs elapsed, or a signal came.
PollTimeout == /\ pc = "poll"
               /\ ReadyChannels = {}
               /\ pc' = "handle"
               /\ UNCHANGED <<looping, quit, calling, wakeupFd, ioReady, active,
                              workVars, tpc>>

\* wakeupChannel_'s callback drains the eventfd.
HandleRead == /\ pc = "handle"
              /\ "wakeup" \in active
              /\ active' = active \ {"wakeup"}
              /\ wakeupFd' = FALSE
              /\ UNCHANGED <<pc, looping, quit, calling, ioReady, workVars, tpc>>

BeginCallback == /\ pc = "handle"
                 /\ "io" \in active
                 /\ active' = active \ {"io"}
                 /\ ioReady' = FALSE
                 /\ pc' = "callback"
                 /\ UNCHANGED <<looping, quit, calling, wakeupFd, workVars, tpc>>

EndCallback == /\ pc = "callback"
               /\ pc' = "handle"
               /\ UNCHANGED <<looping, quit, calling, wakeupFd, ioReady, active,
                              workVars, tpc>>

EndHandling == /\ pc = "handle"
               /\ active = {}
               /\ pc' = "swap"
               /\ UNCHANGED <<looping, quit, calling, wakeupFd, ioReady, active,
                              workVars, tpc>>

\* Mutant: the vector is copied and not swapped out.
SwapCopies == /\ pc = "swap"
              /\ calling' = TRUE
              /\ functors' = pendingFunctors
              /\ pc' = "batch"
              /\ UNCHANGED <<looping, quit, wakeupFd, ioReady, active,
                             pendingFunctors, fresh, done, tpc>>

\* doPendingFunctors() up to the end of its critical section.
Swap == /\ pc = "swap"
        /\ calling' = TRUE
        /\ functors' = pendingFunctors
        /\ pendingFunctors' = <<>>
        /\ pc' = "batch"
        /\ UNCHANGED <<looping, quit, wakeupFd, ioReady, active, fresh, done, tpc>>

BeginFunctor == /\ pc = "batch"
                /\ functors # <<>>
                /\ functors' = Tail(functors)
                /\ done' = Append(done, Head(functors))
                /\ pc' = "functor"
                /\ UNCHANGED <<looping, quit, calling, wakeupFd, ioReady, active,
                               pendingFunctors, fresh, tpc>>

EndFunctor == /\ pc = "functor"
              /\ pc' = "batch"
              /\ UNCHANGED <<looping, quit, calling, wakeupFd, ioReady, active,
                             workVars, tpc>>

EndBatch == /\ pc = "batch"
            /\ functors = <<>>
            /\ calling' = FALSE
            /\ pc' = "check"
            /\ UNCHANGED <<looping, quit, wakeupFd, ioReady, active, workVars, tpc>>
-----------------------------------------------------------------------------
\* What user code does in the loop's own thread.
InUserCode == pc \in {"callback", "functor"}

\* Mutant: the wakeup condition without callingPendingFuntors_.
WakesOthersOnly(inLoopThread) == ~inLoopThread

\* Must queueInLoop call wakeup()?
NeedsWakeup(inLoopThread) == ~inLoopThread \/ calling

PushPending(f) == /\ f \in fresh
                  /\ fresh' = fresh \ {f}
                  /\ pendingFunctors' = Append(pendingFunctors, f)
                  /\ UNCHANGED <<functors, done>>

\* queueInLoop called in the loop's thread.
QueueInLoop(f) == /\ InUserCode \/ (EarlyQueue /\ pc = "idle")
                  /\ PushPending(f)
                  /\ wakeupFd' = (wakeupFd \/ NeedsWakeup(TRUE))
                  /\ UNCHANGED <<pc, looping, quit, calling, ioReady, active, tpc>>

\* runInLoop called in the loop's thread: cb() at once.
RunInLoop(f) == /\ InUserCode
                /\ f \in fresh
                /\ fresh' = fresh \ {f}
                /\ done' = Append(done, f)
                /\ UNCHANGED <<loopVars, pendingFunctors, functors, tpc>>

\* quit() called in the loop's thread.
QuitInLoop == /\ InUserCode
              /\ ~quit
              /\ quit' = TRUE
              /\ UNCHANGED <<pc, looping, calling, wakeupFd, ioReady, active,
                             workVars, tpc>>
-----------------------------------------------------------------------------
\* What the other threads do.  queueInLoop (runInLoop is the same there)
\* pushes under mutex_ and writes the eventfd after the unlock; quit()
\* stores quit_ and writes the eventfd.
QueueFromThread(t, f) ==
    /\ tpc[t] = "out"
    /\ PushPending(f)
    /\ tpc' = [tpc EXCEPT ![t] = IF NeedsWakeup(FALSE) THEN "waking" ELSE "out"]
    /\ UNCHANGED loopVars

\* Mutant: quit() from another thread does not wake the loop.
QuitSilently(t) ==
    /\ tpc[t] = "out"
    /\ quit' = TRUE
    /\ UNCHANGED <<pc, looping, calling, wakeupFd, ioReady, active, workVars, tpc>>

QuitFromThread(t) ==
    /\ tpc[t] = "out"
    /\ quit' = TRUE
    /\ tpc' = [tpc EXCEPT ![t] = "waking"]
    /\ UNCHANGED <<pc, looping, calling, wakeupFd, ioReady, active, workVars>>

\* wakeup(): the write of the eventfd.
Wakeup(t) ==
    /\ tpc[t] = "waking"
    /\ wakeupFd' = TRUE
    /\ tpc' = [tpc EXCEPT ![t] = "out"]
    /\ UNCHANGED <<pc, looping, quit, calling, ioReady, active, workVars>>

\* The kernel: some other descriptor becomes ready.
IoArrives == /\ ~ioReady
             /\ ioReady' = TRUE
             /\ UNCHANGED <<pc, looping, quit, calling, wakeupFd, active, workVars, tpc>>
-----------------------------------------------------------------------------
\* The steps loop() takes by itself once it has been entered.
LoopStep == \/ CheckQuit \/ PollReady \/ HandleRead \/ BeginCallback
            \/ EndCallback \/ EndHandling \/ Swap \/ BeginFunctor
            \/ EndFunctor \/ EndBatch

UserStep == \/ \E f \in Functors : QueueInLoop(f) \/ RunInLoop(f)
            \/ QuitInLoop

ThreadStep(t) == \/ \E f \in Functors : QueueFromThread(t, f)
                 \/ QuitFromThread(t)
                 \/ Wakeup(t)

Next == \/ Loop
        \/ LoopStep
        \/ PollTimeout
        \/ UserStep
        \/ \E t \in Threads : ThreadStep(t)
        \/ IoArrives

\* The scheduler runs the loop's thread and a thread inside queueInLoop or
\* quit; callbacks and functors return.  Nothing is assumed of the 10 s
\* timeout, so a functor that is only rescued by it counts as not served.
Fairness == /\ WF_vars(LoopStep)
            /\ \A t \in Threads : WF_vars(Wakeup(t))

Spec == Init /\ [][Next]_vars
FairSpec == Spec /\ Fairness
-----------------------------------------------------------------------------
InSeq(f, s) == \E i \in 1 .. Len(s) : s[i] = f

\* The types of the variables.
TypeOK == /\ pc \in Locations
          /\ looping \in BOOLEAN
          /\ quit \in BOOLEAN
          /\ calling \in BOOLEAN
          /\ wakeupFd \in BOOLEAN
          /\ ioReady \in BOOLEAN
          /\ active \subseteq {"wakeup", "io"}
          /\ pendingFunctors \in Seq(Functors)
          /\ functors \in Seq(Functors)
          /\ tpc \in [Threads -> {"out", "waking"}]
          /\ fresh \subseteq Functors
          /\ done \in Seq(Functors)

\* A wakeup has been sent or is certain to be sent.
WakeupComing == wakeupFd \/ \E t \in Threads : tpc[t] = "waking"

\* The loop never sleeps on work: when it is in epoll_wait with functors
\* queued or with quit_ set, the eventfd is readable or a thread is about to
\* write it.  This is what the wakeup condition of queueInLoop (line 147),
\* quit()'s wakeup and the place of the swap after the handlers are for.
NoSleepOnWork ==
    (pc = "poll" /\ (pendingFunctors # <<>> \/ quit)) => WakeupComing

\* Seen as an executor, the loop runs every functor at most once and in the
\* order of the queue, whatever swap, nested calls and restarts do.
Abstract == INSTANCE Executor WITH queue <- functors \o pendingFunctors
Refinement == Abstract!Spec

\* A functor queued on a running loop is run unless the loop is left, and no
\* timeout is needed for it.
FunctorsServed ==
    \A f \in Functors : (looping /\ InSeq(f, pendingFunctors)) ~>
                            (InSeq(f, done) \/ ~looping)

\* quit() on a loop that is running ends it (the comment of quit(): "loop()
\* exits at its next check").
QuitEndsLoop == (looping /\ quit) ~> ~looping

\* A loop that sleeps is woken for both reasons, whoever asks and whenever: for a functor
\* and for the end.
LoopServes == FunctorsServed /\ QuitEndsLoop
=============================================================================
