----------------------------- MODULE ThreadPool -----------------------------
(***************************************************************************)
(* multiThread/base/ThreadPool, and ThreadPool_cpp11 which does the same   *)
(* with std::thread: workers take tasks from a queue under a mutex and      *)
(* sleep on a condition.  A step that holds the mutex is one step.  The     *)
(* definitions have names of their own, since other modules of utilities    *)
(* are checked together with this one.                                      *)
(***************************************************************************)
EXTENDS Naturals, FiniteSets, Sequences, SequencesExt

CONSTANTS NumThreads,   \* the argument of start()
          Task

ASSUME NumThreadsAssumption == NumThreads \in Nat

Worker == 1 .. NumThreads

VARIABLES
    owner,      \* the thread that starts and stops the pool
    threads,    \* how many Thread objects are in threads_
    running_,
    dequeue_,
    worker,     \* what each worker does; "waiting" is in cond_.wait()
    task        \* what became of each task

poolVars == <<owner, threads, running_, dequeue_, worker, task>>

PoolTypeOK ==
    /\ owner \in {"new", "starting", "started", "joining", "stopped"}
    /\ threads \in 0 .. NumThreads
    /\ running_ \in BOOLEAN
    /\ dequeue_ \in Seq(Task)
    /\ worker \in [Worker -> {"none", "looking", "taking", "waiting", "ended"} \union Task]
    /\ task \in [Task -> {"new", "given", "queued", "begun", "done"}]

PoolInit ==
    /\ owner = "new"
    /\ threads = 0
    /\ running_ = FALSE
    /\ dequeue_ = << >>
    /\ worker = [w \in Worker |-> "none"]
    /\ task = [t \in Task |-> "new"]

-------------------------------------------------------------------------------
PoolStart ==
    /\ owner = "new"
    /\ running_' = TRUE
    /\ owner' = "starting"
    /\ UNCHANGED <<threads, dequeue_, worker, task>>

\* A turn of the loop in start(): a Thread that may run at once.
StartWorker ==
    /\ owner = "starting"
    /\ IF threads < NumThreads
       THEN /\ threads' = threads + 1
            /\ worker' = [worker EXCEPT ![threads + 1] = "looking"]
            /\ UNCHANGED owner
       ELSE /\ owner' = "started"
            /\ UNCHANGED <<threads, worker>>
    /\ UNCHANGED <<running_, dequeue_, task>>

Sleeping == {w \in Worker : worker[w] = "waiting"}

\* Who notify() and notifyAll() may wake.
Notify    == IF Sleeping = {} THEN {{}} ELSE {{w} : w \in Sleeping}

\* Mutant: stop() wakes one worker only.
NotifyAllWakesOne == Notify

NotifyAll == {Sleeping}

Woken(W) == [w \in Worker |-> IF w \in W THEN "taking" ELSE worker[w]]

\* run(), in any thread: without threads the caller does the task; it looks at threads_
\* without the mutex.
Give(t) ==
    /\ task[t] = "new"
    /\ task' = [task EXCEPT ![t] = IF threads = 0 THEN "done" ELSE "given"]
    /\ UNCHANGED <<owner, threads, running_, dequeue_, worker>>

\* Mutant: run() does not notify.
PushSilently(t) ==
    /\ task[t] = "given"
    /\ task' = [task EXCEPT ![t] = "queued"]
    /\ dequeue_' = Append(dequeue_, t)
    /\ UNCHANGED <<owner, threads, running_, worker>>

Push(t) ==
    /\ task[t] = "given"
    /\ task' = [task EXCEPT ![t] = "queued"]
    /\ dequeue_' = Append(dequeue_, t)
    /\ \E W \in Notify : worker' = Woken(W)
    /\ UNCHANGED <<owner, threads, running_>>

\* stop(): the flag and notifyAll under the mutex, then the joins.
PoolStop ==
    /\ owner = "started"
    /\ running_' = FALSE
    /\ \E W \in NotifyAll : worker' = Woken(W)
    /\ owner' = "joining"
    /\ UNCHANGED <<threads, dequeue_, task>>

Joined ==
    /\ owner = "joining"
    /\ \A w \in Worker : worker[w] = "ended"
    /\ owner' = "stopped"
    /\ UNCHANGED <<threads, running_, dequeue_, worker, task>>

-------------------------------------------------------------------------------
\* while (running_) in runInThread, which reads it without the mutex.
Look(w) ==
    /\ worker[w] = "looking"
    /\ worker' = [worker EXCEPT ![w] = IF running_ THEN "taking" ELSE "ended"]
    /\ UNCHANGED <<owner, threads, running_, dequeue_, task>>

\* take(): a task, or to sleep, or nothing when the pool stops.
Take(w) ==
    /\ worker[w] = "taking"
    /\ IF dequeue_ # << >>
       THEN /\ worker' = [worker EXCEPT ![w] = Head(dequeue_)]
            /\ task' = [task EXCEPT ![Head(dequeue_)] = "begun"]
            /\ dequeue_' = Tail(dequeue_)
       ELSE /\ worker' = [worker EXCEPT ![w] = IF running_ THEN "waiting" ELSE "looking"]
            /\ UNCHANGED <<dequeue_, task>>
    /\ UNCHANGED <<owner, threads, running_>>

RunTask(w) ==
    /\ worker[w] \in Task
    /\ task' = [task EXCEPT ![worker[w]] = "done"]
    /\ worker' = [worker EXCEPT ![w] = "looking"]
    /\ UNCHANGED <<owner, threads, running_, dequeue_>>

WorkerStep(w) == Look(w) \/ Take(w) \/ RunTask(w)

OwnerStep == StartWorker \/ Joined

PoolNext ==
    \/ OwnerStep \/ PoolStart \/ PoolStop
    \/ \E t \in Task : Give(t) \/ Push(t)
    \/ \E w \in Worker : WorkerStep(w)

-------------------------------------------------------------------------------
\* A queued task is begun, if the pool is not stopped: no notification is lost between
\* the look at the queue and the sleep, nor swallowed by a worker that is awake.
TasksAreTaken ==
    /\ []PoolTypeOK
    /\ \A t \in Task : (task[t] = "queued") ~> (task[t] # "queued" \/ ~running_)

\* stop() returns: every worker sees that the pool stops, those included that sleep, run
\* a task or have not begun yet.
StopReturns == (owner = "joining") ~> (owner = "stopped")

\* No sleeper is missed, by a task or by the end of the pool.
PoolServes == TasksAreTaken /\ StopReturns
===============================================================================
