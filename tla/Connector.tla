------------------------------ MODULE Connector ------------------------------
(***************************************************************************)
(* multiThread's TcpClient and its Connector: connect() and stop(), called *)
(* in a thread that does not own the loop or in a callback of the loop, and *)
(* the functors, timers and events through which the loop tries to connect. *)
(* The delays are left out: a retry may come at any time.                   *)
(***************************************************************************)
EXTENDS Naturals, Sequences, SequencesExt

CONSTANTS MaxCalls,     \* bounds the calls of connect() and stop()
          MaxAttempts   \* bounds the calls of connect(2)

\* The bounds are numbers.
ASSUME BoundsAssumption == MaxCalls \in Nat /\ MaxAttempts \in Nat

VARIABLES
    connect_,
    k,         \* the rest of the Connector and what waits for it, see ClientTypeOK
    socket,    \* what the kernel has to say of the attempt: "pending", "done", "refused"
    pc,        \* the loop: in epoll_wait, handling events, running functors
    active,    \* the events of the round, then
    batch,     \* the functors of the round
    user,      \* the other thread: out, or in start() or stop() before it queues
    calls, starts

clientVars == <<connect_, k, socket, pc, active, batch, user, calls, starts>>

Functors == {"startInLoop", "stopInLoop", "resetChannel"}

\* channel_ is there until it is reset, but "removed" from epoll before; timers counts
\* the retries that wait; gaveUp: connect(2) failed for good; aborted: an assertion failed,
\* in the Connector or, when newConnection has a connection, in ~TcpConnection.
ClientTypeOK ==
    /\ connect_ \in BOOLEAN
    /\ k \in [state_   : {"kDisconnected", "kConnecting", "kConnected"},
              channel_ : {"none", "armed", "removed"},
              queue    : Seq(Functors),
              timers   : 0 .. MaxAttempts,
              attempts : 0 .. MaxAttempts,
              gaveUp   : BOOLEAN,
              aborted  : {"no", "connector", "connection"}]
    /\ socket \in {"none", "pending", "done", "refused"}
    /\ pc \in {"poll", "events", "functors"}
    /\ active \in SUBSET {"channel", "timer"}
    /\ batch \in Seq(Functors)
    /\ user \in {"out", "starting", "stopping"}
    /\ calls \in 0 .. MaxCalls
    /\ starts \in 0 .. MaxCalls

ClientInit ==
    /\ connect_ = FALSE
    /\ k = [state_ |-> "kDisconnected", channel_ |-> "none", queue |-> << >>, timers |-> 0,
            attempts |-> 0, gaveUp |-> FALSE, aborted |-> "no"]
    /\ socket = "none"
    /\ pc = "poll"
    /\ active = {}
    /\ batch = << >>
    /\ user = "out"
    /\ calls = 0
    /\ starts = 0

-------------------------------------------------------------------------------
\* The members of Connector.  Each returns the record after the call.

Asserted(r, P) == IF P THEN r ELSE [r EXCEPT !.aborted = "connector"]

\* queueInLoop.
Queued(r, f) == [r EXCEPT !.queue = Append(@, f)]

\* The channel leaves epoll now and is reset by a functor: its event may be being handled.
removeAndResetChannel(r) == Queued([r EXCEPT !.channel_ = "removed"], "resetChannel")

\* Mutant: the next attempt is forgotten when the last one was refused.
RetryForgets(r) == [r EXCEPT !.state_ = "kDisconnected"]

retry(r) ==
    [r EXCEPT !.state_ = "kDisconnected", !.timers = IF connect_ THEN @ + 1 ELSE @]

connecting(r) ==
    [Asserted(r, r.channel_ = "none") EXCEPT !.state_ = "kConnecting", !.channel_ = "armed"]

\* connect(2) is under way, fails for now, or fails for good.
connect(r) ==
    LET tried == [r EXCEPT !.attempts = @ + 1]
    IN {connecting(tried), retry(tried), [tried EXCEPT !.gaveUp = TRUE]}

startInLoop(r) ==
    IF r.state_ # "kDisconnected" THEN {Asserted(r, FALSE)}
    ELSE IF connect_ THEN connect(r)
    ELSE {r}

\* Mutant: the channel is left in epoll.
StopLeavesChannel(r) == IF r.state_ = "kConnecting" THEN retry(r) ELSE r

stopInLoop(r) == IF r.state_ = "kConnecting" THEN retry(removeAndResetChannel(r)) ELSE r

\* Mutant: the reset is left out.
ResetForgotten(r) == r

resetChannel(r) == [r EXCEPT !.channel_ = "none"]

\* An error comes with the event of writing: handleError, then handleWrite, which finds
\* the state kDisconnected.
handleError(r) ==
    retry(removeAndResetChannel(Asserted(r, r.state_ = "kConnecting")))

\* newConnection of TcpClient drops the last pointer to the connection it made, in the
\* state kConnecting, which ~TcpConnection does not accept.
newConnection(r) == [r EXCEPT !.aborted = "connection"]

\* The socket is connected; or to itself, and then it is tried again.
handleWrite(r) ==
    IF r.state_ # "kConnecting" THEN {Asserted(r, r.state_ = "kDisconnected")}
    ELSE LET connected == [removeAndResetChannel(r) EXCEPT !.state_ = "kConnected"]
         IN {IF connect_ THEN newConnection(connected) ELSE connected,
             retry(removeAndResetChannel(r))}

-------------------------------------------------------------------------------
\* The loop.  Nothing runs after an assertion failed.

Runs == k.aborted = "no"

\* startInLoop, within the bound.
Starts(r) == IF connect_ /\ r.attempts = MaxAttempts THEN {} ELSE startInLoop(r)

\* epoll_wait returns.
Poll ==
    /\ Runs
    /\ pc = "poll"
    /\ active' \in SUBSET {"channel", "timer"}
    /\ "channel" \in active' <=> k.channel_ = "armed" /\ socket \in {"done", "refused"}
    /\ "timer" \in active' => k.timers > 0
    /\ active' # {} \/ k.queue # << >>
    /\ pc' = "events"
    /\ UNCHANGED <<connect_, k, socket, batch, user, calls, starts>>

HandleChannel ==
    /\ Runs
    /\ pc = "events"
    /\ "channel" \in active
    /\ k' \in IF socket = "refused" THEN {handleError(k)} ELSE handleWrite(k)
    /\ socket' = "none"
    /\ active' = active \ {"channel"}
    /\ UNCHANGED <<connect_, pc, batch, user, calls, starts>>

\* The callback of a retry.
HandleTimer ==
    /\ Runs
    /\ pc = "events"
    /\ "timer" \in active
    /\ k' \in Starts([k EXCEPT !.timers = @ - 1])
    /\ socket' = IF k'.state_ = "kConnecting" /\ k.state_ # "kConnecting" THEN "pending"
                                                                          ELSE socket
    /\ active' = active \ {"timer"}
    /\ UNCHANGED <<connect_, pc, batch, user, calls, starts>>

\* doPendingFunctors swaps the queue out.
Swap ==
    /\ Runs
    /\ pc = "events"
    /\ active = {}
    /\ batch' = k.queue
    /\ k' = [k EXCEPT !.queue = << >>]
    /\ pc' = "functors"
    /\ UNCHANGED <<connect_, socket, active, user, calls, starts>>

RunFunctor ==
    /\ Runs
    /\ pc = "functors"
    /\ batch # << >>
    /\ k' \in CASE Head(batch) = "startInLoop"  -> Starts(k)
                [] Head(batch) = "stopInLoop"   -> {stopInLoop(k)}
                [] Head(batch) = "resetChannel" -> {resetChannel(k)}
    /\ socket' = IF k'.state_ # "kConnecting" THEN "none"
                 ELSE IF k.state_ # "kConnecting" THEN "pending" ELSE socket
    /\ batch' = Tail(batch)
    /\ UNCHANGED <<connect_, pc, active, user, calls, starts>>

EndRound ==
    /\ Runs
    /\ pc = "functors"
    /\ batch = << >>
    /\ pc' = "poll"
    /\ UNCHANGED <<connect_, k, socket, active, batch, user, calls, starts>>

\* The kernel knows how the attempt ended.
Answer ==
    /\ socket = "pending"
    /\ socket' \in {"done", "refused"}
    /\ UNCHANGED <<connect_, k, pc, active, batch, user, calls, starts>>

-------------------------------------------------------------------------------
\* The user.

\* TcpClient::connect and Connector::start in the other thread: the flag, then the functor.
CallConnect ==
    /\ user = "out"
    /\ calls < MaxCalls
    /\ connect_' = TRUE
    /\ user' = "starting"
    /\ calls' = calls + 1
    /\ starts' = starts + 1
    /\ UNCHANGED <<k, socket, pc, active, batch>>

\* TcpClient::stop and Connector::stop.
CallStop ==
    /\ user = "out"
    /\ calls < MaxCalls
    /\ connect_' = FALSE
    /\ user' = "stopping"
    /\ calls' = calls + 1
    /\ UNCHANGED <<k, socket, pc, active, batch, starts>>

Queue ==
    /\ user # "out"
    /\ k' = Queued(k, IF user = "starting" THEN "startInLoop" ELSE "stopInLoop")
    /\ user' = "out"
    /\ UNCHANGED <<connect_, socket, pc, active, batch, calls, starts>>

\* stop() in a callback of the loop.
StopInCallback ==
    /\ Runs
    /\ pc = "events"
    /\ calls < MaxCalls
    /\ connect_' = FALSE
    /\ k' = Queued(k, "stopInLoop")
    /\ calls' = calls + 1
    /\ UNCHANGED <<socket, pc, active, batch, user, starts>>

LoopStep == Poll \/ HandleChannel \/ HandleTimer \/ Swap \/ RunFunctor \/ EndRound

ClientNext == LoopStep \/ Answer \/ CallConnect \/ CallStop \/ Queue \/ StopInCallback

\* The loop runs, a timer that waits expires, a call that has begun goes on, and the
\* kernel ends an attempt.
ClientFairness ==
    /\ WF_clientVars(LoopStep)
    /\ SF_clientVars(Poll /\ k.timers > 0 /\ "timer" \in active')
    /\ WF_clientVars(Answer)
    /\ WF_clientVars(Queue)

ClientSpec == ClientInit /\ [][ClientNext]_clientVars /\ ClientFairness

-------------------------------------------------------------------------------
Waiting(f) == Contains(k.queue, f) \/ Contains(batch, f)

\* An attempt has its channel in epoll, and a channel that has left epoll will be reset.
ChannelFollowsState ==
    Runs => /\ k.state_ = "kConnecting" <=> k.channel_ = "armed"
            /\ k.channel_ = "removed" => Waiting("resetChannel")

\* The ways to the next attempt.
Ways == k.timers
        + (IF k.state_ = "kConnecting" THEN 1 ELSE 0)
        + (IF Waiting("startInLoop") THEN 1 ELSE 0)

\* A client that connects once may stop at any moment, from any thread or in a callback,
\* while an attempt, its event, a retry timer or the reset of the channel is on its way:
\* no assertion of Connector fails (its state in startInLoop and handleError, no channel
\* in connecting), no channel is left in epoll without an attempt, and none that has
\* left epoll is left without its reset.  (One that connects again may fail.)
\* And one that wants to connect is trying, until it is connected or connect(2) failed
\* for good: retry() always leaves a way to the next attempt, and after one start() it
\* never leaves two, whose second would fail the assertion of startInLoop.
OneStartIsSafe ==
    /\ ClientTypeOK /\ ChannelFollowsState
    /\ starts <= 1 => k.aborted # "connector" /\ Ways <= 1
    /\ connect_ /\ user = "out" /\ Runs /\ ~k.gaveUp /\ k.state_ # "kConnected" => Ways > 0

\* After stop() everything comes to rest: no attempt, no timer and no channel remain.
StopEnds ==
    <>[](~connect_ /\ Runs) =>
        <>[](k.state_ # "kConnecting" /\ k.channel_ = "none" /\ k.timers = 0)
===============================================================================
