-------------------------- MODULE EventLoopThread ---------------------------
(***************************************************************************)
(* EventLoopThread (multiThread/net/EventLoopThread.{h,cpp}): a thread     *)
(* whose stack holds an EventLoop, and the thread Owner that starts it,    *)
(* hands the loop to others and destroys it.  The loop inside is the       *)
(* module EventLoop.                                                       *)
(*                                                                         *)
(* The new thread goes through `stage':                                    *)
(*   unborn, constructed (EventLoop built, callback_ running),             *)
(*   published (loop_ set, loop() not entered), running, finished.         *)
(* Owner goes through `opc':                                               *)
(*   new       before startThread                                          *)
(*   checking  at while (loop_ == nullptr), holding mutex_                 *)
(*   sleeping  in cond_.wait()                                             *)
(*   holding   startThread has returned                                    *)
(*   quitting  in the destructor's loop_->quit(), joining, joined          *)
(***************************************************************************)
EXTENDS EventLoop

CONSTANTS Owner,          \* the thread that owns the EventLoopThread
          DestroyEarly    \* may the destructor run before loop() is entered?

ASSUME OwnerAssumption == Owner \in Threads
ASSUME DestroyEarlyAssumption == DestroyEarly \in BOOLEAN

VARIABLES stage, opc,
          loop            \* is loop_ set?

threadVars == <<stage, opc, loop>>
allVars == <<vars, threadVars>>

TInit == /\ Init
         /\ stage = "unborn"
         /\ opc = "new"
         /\ loop = FALSE
-----------------------------------------------------------------------------
\* startThread(): create the thread, then wait for loop_ under mutex_.
StartThread == /\ opc = "new"
               /\ stage' = "constructed"
               /\ opc' = "checking"
               /\ UNCHANGED <<vars, loop>>

CheckLoop == /\ opc = "checking"
             /\ opc' = IF loop THEN "holding" ELSE "sleeping"
             /\ UNCHANGED <<vars, stage, loop>>

\* Mutant: loop_ is set and nobody is notified.
PublishSilently == /\ stage = "constructed"
                   /\ stage' = "published"
                   /\ loop' = TRUE
                   /\ UNCHANGED <<vars, opc>>

\* threadFunction(): loop_ = &loop and notify(), in one critical section.
Publish == /\ stage = "constructed"
           /\ stage' = "published"
           /\ loop' = TRUE
           /\ opc' = IF opc = "sleeping" THEN "checking" ELSE opc
           /\ UNCHANGED vars

\* pthread_cond_wait may return unasked.
SpuriousWakeup == /\ opc = "sleeping"
                  /\ opc' = "checking"
                  /\ UNCHANGED <<vars, stage, loop>>

EnterLoop == /\ stage = "published"
             /\ stage' = "running"
             /\ Loop
             /\ UNCHANGED <<opc, loop>>

\* loop() has returned: the EventLoop on the stack is destroyed and the
\* thread ends.  loop_ keeps its value.
Finish == /\ stage = "running"
          /\ pc = "idle"
          /\ stage' = "finished"
          /\ UNCHANGED <<vars, opc, loop>>

\* ~EventLoopThread(): quit() from Owner, then join().
Destroy == /\ opc = "holding"
           /\ loop
           /\ DestroyEarly \/ stage \notin {"constructed", "published"}
           /\ QuitFromThread(Owner)
           /\ opc' = "quitting"
           /\ UNCHANGED <<stage, loop>>

DestroyUnstarted == /\ opc = "new"
                    /\ ~loop
                    /\ opc' = "joined"
                    /\ UNCHANGED <<vars, stage, loop>>

\* Mutant: the destructor joins without waking the loop.
JoinsWithoutWakeup == /\ opc = "quitting"
                      /\ opc' = "joining"
                      /\ UNCHANGED <<vars, stage, loop>>

QuitWakes == /\ opc = "quitting"
             /\ Wakeup(Owner)
             /\ opc' = "joining"
             /\ UNCHANGED <<stage, loop>>

Join == /\ opc = "joining"
        /\ stage = "finished"
        /\ opc' = "joined"
        /\ UNCHANGED <<vars, stage, loop>>
-----------------------------------------------------------------------------
\* The loop runs in the new thread; the others, and Owner itself, may use it
\* from the moment startThread has returned it, and until it is destroyed.
LoopRuns == /\ stage = "running"
            /\ LoopStep \/ PollTimeout \/ UserStep
            /\ UNCHANGED threadVars

\* callback_(&loop), and the owner of a constructed loop, may queue early.
ThreadInitCallback == /\ stage = "constructed"
                      /\ \E f \in Functors : QueueInLoop(f)
                      /\ UNCHANGED threadVars

OthersUse == /\ opc = "holding"
             /\ stage # "finished"
             /\ \E t \in Threads : ThreadStep(t)
             /\ UNCHANGED threadVars

\* Calls begun before the destructor may still be at their wakeup().
OthersFinish == /\ \E t \in Threads \ {Owner} : Wakeup(t)
                /\ UNCHANGED threadVars

Environment == /\ stage = "running"
               /\ IoArrives
               /\ UNCHANGED threadVars

TNext == \/ StartThread \/ CheckLoop \/ Publish \/ SpuriousWakeup \/ EnterLoop
         \/ Finish \/ Destroy \/ DestroyUnstarted \/ QuitWakes \/ Join
         \/ LoopRuns \/ ThreadInitCallback \/ OthersUse \/ OthersFinish
         \/ Environment

TSpec == TInit /\ [][TNext]_allVars

\* Both threads are scheduled; callbacks and functors return.
TFairness == /\ WF_allVars(StartThread \/ CheckLoop)
             /\ WF_allVars(Publish \/ EnterLoop \/ Finish)
             /\ WF_allVars(stage = "running" /\ LoopStep /\ UNCHANGED threadVars)
             /\ WF_allVars(OthersFinish)
             /\ WF_allVars(QuitWakes \/ Join)

TFairSpec == TSpec /\ TFairness
-----------------------------------------------------------------------------
\* The types of the variables.
TTypeOK == /\ TypeOK
           /\ stage \in {"unborn", "constructed", "published", "running", "finished"}
           /\ opc \in {"new", "checking", "sleeping", "holding", "quitting",
                       "joining", "joined"}
           /\ loop \in BOOLEAN

\* Owner never gets a pointer to a loop that is not yet built, and never
\* sleeps through the notify: loop_ set means Owner is not left sleeping.
Handshake == /\ opc = "holding" => stage \notin {"unborn", "constructed"}
             /\ loop => opc # "sleeping"

\* startThread returns.
StartReturns == (opc = "checking") ~> (opc # "checking" /\ opc # "sleeping")

\* The destructor ends the loop and the thread (comment in ~EventLoopThread:
\* "if the IO thread was created, quit the EventLoop and end the thread").
DestructorReturns == (opc = "quitting") ~> (opc = "joined")

\* The owner is never stuck: neither startThread, whose notify may come before it sleeps,
\* nor the destructor, whose quit() may come at any point of the loop, waits for ever.
OwnerGoesOn == StartReturns /\ DestructorReturns
=============================================================================
