------------------------------ MODULE Executor ------------------------------
(***************************************************************************)
(* What EventLoop promises to the code that hands it work: every functor   *)
(* given to queueInLoop is run at most once, in the order in which the     *)
(* functors entered the queue, and runInLoop called in the loop's own      *)
(* thread runs its functor on the spot.  A functor stands for one call of  *)
(* queueInLoop or runInLoop, not for the code it holds.                    *)
(***************************************************************************)
EXTENDS Sequences

CONSTANT Functors   \* the calls of queueInLoop / runInLoop

VARIABLES fresh,    \* calls that have not been made yet
          queue,    \* functors accepted and not started, oldest first
          done      \* functors started, in the order of their start

vars == <<fresh, queue, done>>

Init == /\ fresh = Functors
        /\ queue = <<>>
        /\ done = <<>>

\* EventLoop::queueInLoop accepts a functor.
Submit(f) == /\ f \in fresh
             /\ fresh' = fresh \ {f}
             /\ queue' = Append(queue, f)
             /\ UNCHANGED done

\* The loop starts the oldest functor.
Execute == /\ queue # <<>>
           /\ queue' = Tail(queue)
           /\ done' = Append(done, Head(queue))
           /\ UNCHANGED fresh

\* EventLoop::runInLoop, in the loop's thread.
RunInline(f) == /\ f \in fresh
                /\ fresh' = fresh \ {f}
                /\ done' = Append(done, f)
                /\ UNCHANGED queue

Next == \/ \E f \in Functors : Submit(f) \/ RunInline(f)
        \/ Execute

Spec == Init /\ [][Next]_vars
=============================================================================
