--------------------------------- MODULE MCNet ---------------------------------
\* A Buffer, numbers and lines in Buffers, Connector or the timers of a process for TLC.
EXTENDS Buffer, Connector, BufferIntegers, FiniteSets

CONSTANTS Timers, Delays, Intervals, Past, SlowCallbacks, ExactHit, ForeignCancels,
          MaxQueued

VARIABLES kind,
          unused, due, interval, timers, activeTimers, canceling, calling, expired, ran, late,
          alarm, queue, cancelled, timersFailed

timerVars  == <<unused, due, interval, timers, activeTimers, canceling, calling, expired, ran,
                late, alarm, queue, cancelled, timersFailed>>
netVars    == <<kind, vars, numberVars, clientVars, timerVars>>

T == INSTANCE ProcessTimerQueue WITH batch <- expired, failed <- timersFailed

MCByte == {0, 1, 2}

\* Lines that are empty, plain, or have half the end of a line in them.
MCTexts == {<< >>, <<1>>, <<3, 0>>}

\* Chunks of up to four bytes: none, one that fits, one that just fits or makes the
\* data move, one that makes the vector grow or fills the extra buffer.
MCChunk == {<< >>, <<1>>, <<2>>, <<1, 2>>, <<1, 2, 2>>, <<2, 1, 2, 1>>}

\* Times that are due now, before or after, and the intervals 0 and 2.
MCDelays == {-1, 0, 1, 2}
MCIntervals == {0, 2}
None == {}

NetInit ==
    /\ kind \in {"buffer", "numbers", "client", "timers"}
    /\ Init /\ NumbersInit /\ ClientInit /\ T!Init
    /\ kind # "numbers" => order = [writer |-> "big", reader |-> "big"]

InBuffer(A) == kind = "buffer" /\ A /\ UNCHANGED <<kind, numberVars, clientVars, timerVars>>
InNumbers(A) == kind = "numbers" /\ A /\ UNCHANGED <<kind, vars, clientVars, timerVars>>
InClient(A) == kind = "client" /\ A /\ UNCHANGED <<kind, vars, numberVars, timerVars>>
InTimers(A) == kind = "timers" /\ A /\ UNCHANGED <<kind, vars, numberVars, clientVars>>

NetNext ==
    InBuffer(Next) \/ InNumbers(NumbersNext) \/ InClient(ClientNext) \/ InTimers(T!ProcessNext)

\* The fairness of Connector, and time that passes while the process runs.
NetFairness ==
    /\ WF_netVars(InClient(LoopStep))
    /\ SF_netVars(InClient(Poll /\ k.timers > 0 /\ "timer" \in active'))
    /\ WF_netVars(InClient(Answer))
    /\ WF_netVars(InClient(Queue))
    /\ WF_netVars(InTimers(T!Tick))
    /\ WF_netVars(InTimers(T!ProcessStep))

NetSpec == NetInit /\ [][NetNext]_netVars /\ NetFairness

\* The property of the timers, stated in their module.
ProcessTimers == T!ProcessTimers
===============================================================================
