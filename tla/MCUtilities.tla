----------------------------- MODULE MCUtilities -----------------------------
\* ThreadPool, the two parts of WebBench, the blocking queues, LogStream and EventLoopThread
\* for TLC, one of them in each behaviour.
EXTENDS ThreadPool, WebBench, WebBenchOptions, BlockingQueues, LogStream, EventLoopThread

CONSTANTS o, t, f1, f2

VARIABLE kind

otherVars == <<optionVars, queueVars, stream, allVars>>
utilityVars == <<kind, poolVars, benchVars, otherVars>>

\* The integers of eight bits, and pointers of one to three digits.
MCNumber == -128 .. 127
MCAddress == {0, 9, 10, 255}

\* A number on a command line: negative, 0 or no number, and one more.
MCGiven == {-1, 0, 2}

\* One EventLoopThread, its owner, one more thread and two functors.
MCThreads == {o, t}
MCFunctors == {f1, f2}

UtilitiesInit ==
    /\ kind \in {"pool", "bench", "options", "queues", "log", "thread"}
    /\ PoolInit /\ BenchInit /\ OptionsInit /\ QueueInit /\ LogInit /\ TInit
    /\ kind # "options" => command.url = CHOOSE url \in Urls : ~Refused(url)
    /\ kind # "queues" => ~bounded

InPool(A)    == kind = "pool" /\ A /\ UNCHANGED <<kind, benchVars, otherVars>>
InBench(A)   == kind = "bench" /\ A /\ UNCHANGED <<kind, poolVars, otherVars>>
InOptions(A) == kind = "options" /\ A /\ UNCHANGED <<kind, poolVars, benchVars, queueVars, stream, allVars>>
InQueues(A)  == kind = "queues" /\ A /\ UNCHANGED <<kind, poolVars, benchVars, optionVars, stream, allVars>>
InLog(A)     == kind = "log" /\ A /\ UNCHANGED <<kind, poolVars, benchVars, optionVars, queueVars, allVars>>
InThread(A)  == kind = "thread" /\ A /\ UNCHANGED <<kind, poolVars, benchVars, optionVars, queueVars, stream>>

UtilitiesNext ==
    \/ InPool(PoolNext)
    \/ InBench(BenchNext)
    \/ InOptions(OptionsNext)
    \/ InQueues(QueueNext)
    \/ InLog(LogNext)
    \/ InThread(TNext)

\* Threads and processes go on, a call of run() and the alarm come to their end.  The last
\* five are TFairness.
UtilitiesFairness ==
    /\ WF_utilityVars(InPool(OwnerStep))
    /\ \A w \in Worker : WF_utilityVars(InPool(WorkerStep(w)))
    /\ WF_utilityVars(InBench(ParentStep))
    /\ \A i \in Kid : WF_utilityVars(InBench(KidStep(i))) /\ WF_utilityVars(InBench(Alarm(i)))
    /\ \A p \in Producer : WF_utilityVars(InQueues(ProducerStep(p)))
    /\ \A c \in Consumer : WF_utilityVars(InQueues(ConsumerStep(c)))
    /\ WF_utilityVars(InQueues(WaitForLatch))
    /\ WF_utilityVars(InThread(StartThread \/ CheckLoop))
    /\ WF_utilityVars(InThread(Publish \/ EnterLoop \/ Finish))
    /\ WF_utilityVars(InThread(stage = "running" /\ LoopStep /\ UNCHANGED threadVars))
    /\ WF_utilityVars(InThread(OthersFinish))
    /\ WF_utilityVars(InThread(QuitWakes \/ Join))

UtilitiesSpec == UtilitiesInit /\ [][UtilitiesNext]_utilityVars /\ UtilitiesFairness
===============================================================================
