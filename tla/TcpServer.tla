----------------------------- MODULE TcpServer ------------------------------
(***************************************************************************)
(* The life of the connections of a TcpServer: TcpServer, its              *)
(* EventLoopThreadPool, TcpConnection, and the part of Channel and Epoll   *)
(* that a connection's registration goes through (multiThread/net).        *)
(*                                                                         *)
(* Base is the loop that accepts; Pools the loops a pool may be given,     *)
(* <<>> when the server is single-threaded.  Of EventLoop this module uses what *)
(* Executor promises: each loop alternates between handling the events of  *)
(* its connections and running, in order, the batch of functors it has     *)
(* swapped out.  The batch keeps the shared_ptrs bound in its functors     *)
(* until it has been run to its end.                                       *)
(*                                                                         *)
(* A connection object exists while something holds a shared_ptr to it:    *)
(* connectionMap_, a functor bound with one, or a user thread.             *)
(* `failed' is the assertion that aborted the program, "none" before.      *)
(***************************************************************************)
EXTENDS Naturals, Sequences, FiniteSets

LOCAL INSTANCE SequencesExt

CONSTANTS Conns,        \* the connections clients may open
          Base,         \* the accepting loop
          Pools,        \* the values loops_ of the pool may have
          Users,        \* threads that are not loops
          UserOps,      \* sets of "send", "shutdown": what such a thread calls
          ServerDtor,   \* may ~TcpServer run?
          MaxQueue      \* bound on a loop's queue (of user calls only)

LoopsOf(p) == {p[i] : i \in 1 .. Len(p)}
Loops == {Base} \union UNION {LoopsOf(p) : p \in Pools}

ASSUME LoopsAssumption ==
    \A p \in Pools : /\ p \in Seq(LoopsOf(p))
                     /\ Base \notin LoopsOf(p)
                     /\ Cardinality(LoopsOf(p)) = Len(p)
ASSUME UserOpsAssumption == UserOps \subseteq SUBSET {"send", "shutdown"}
ASSUME ServerDtorAssumption == ServerDtor \in BOOLEAN
ASSUME MaxQueueAssumption == MaxQueue \in Nat

VARIABLES conn,      \* the connections
          inMap,     \* connectionMap_
          pool,      \* the EventLoopThreadPool: its loops_ and next_
          queue,     \* pendingFunctors_ of each loop
          batch,     \* the functors a loop has swapped out
          pos,       \* how many of its batch a loop has run
          user,      \* the user threads: what they hold and do
          server,    \* "up", "destroying" (in the destructor's loop), "down"
          failed     \* the assertion that failed

loopVars == <<queue, batch, pos>>
vars == <<conn, inMap, pool, queue, batch, pos, user, server, failed>>

NotHeld == "nothing"
States == {"unborn", "kConnecting", "kConnected", "kDisconnecting", "kDisconnected"}

Unborn == [state |-> "unborn", loop |-> Base, events |-> {}, status |-> "kNew",
           out |-> FALSE, peer |-> "open", readShut |-> FALSE, told |-> FALSE]

Init == /\ conn = [c \in Conns |-> Unborn]
        /\ inMap = {}
        /\ pool \in [loops : Pools, next : {0}]
        /\ queue = [l \in Loops |-> <<>>]
        /\ batch = [l \in Loops |-> <<>>]
        /\ pos = [l \in Loops |-> 0]
        /\ user \in [Users -> [holds : {NotHeld}, at : {"out"}, ops : UserOps]]
        /\ server = "up"
        /\ failed = "none"

\* A functor; `shared' is whether a shared_ptr is bound in it, or a raw this.
Functor(op, c, shared) == [op |-> op, conn |-> c, shared |-> shared]

BoundIn(s, c) == \E i \in 1 .. Len(s) : s[i].conn = c /\ s[i].shared

\* Is there a shared_ptr to c?
Held(c) == \/ c \in inMap
           \/ \E l \in Loops : BoundIn(queue[l], c) \/ BoundIn(batch[l], c)
           \/ \E u \in Users : user[u].holds = c

\* ~TcpConnection asserts kDisconnected, ~Channel that it is in no loop.
DtorFails(c) == /\ conn[c].state # "unborn"
                /\ ~Held(c)
                /\ conn[c].state # "kDisconnected" \/ conn[c].status # "kNew"

\* The program runs until an assertion fails.
Running == failed = "none" /\ \A c \in Conns : ~DtorFails(c)

Asserts(condition, name) == failed' = IF condition THEN failed ELSE name

Queue(l, f) == [queue EXCEPT ![l] = Append(@, f)]
-----------------------------------------------------------------------------
\* Channel::update and Epoll::updateChannel, Channel::remove and
\* Epoll::removeChannel.
UpdateChannel(r) ==
    [r EXCEPT !.status = IF @ = "kAdded" /\ r.events = {} THEN "kDeleted"
                                                          ELSE "kAdded"]

SetEvents(r, e) == UpdateChannel([r EXCEPT !.events = e])

RemoveChannel(r) == [r EXCEPT !.status = "kNew"]

\* Mutant: the guard of shutdownInLoop inverted.
ShutdownOnlyWhileWriting(r) ==
    IF "write" \in r.events THEN [r EXCEPT !.readShut = TRUE] ELSE r

\* shutdownInLoop: Socket::shutdownWrite shuts the reading side.
ShutdownInLoop(r) ==
    IF "write" \in r.events THEN r ELSE [r EXCEPT !.readShut = TRUE]

\* sendInLoop: `all' is whether the one write(2) takes the whole message.
SendInLoop(r, all) ==
    IF "write" \notin r.events /\ ~r.out /\ ~all
    THEN SetEvents([r EXCEPT !.out = TRUE], r.events \union {"write"})
    ELSE r

\* send() and shutdown() called in the connection's own loop.
Send(r, all) == IF r.state = "kConnected" THEN SendInLoop(r, all) ELSE r

Shutdown(r) == IF r.state = "kConnected"
               THEN ShutdownInLoop([r EXCEPT !.state = "kDisconnecting"])
               ELSE r

\* What a connection or message callback may leave of the connection: it
\* sends or not, then shuts down or not, as HttpServer does.
AfterCallback(r) == LET sent == {r, Send(r, TRUE), Send(r, FALSE)}
                    IN  sent \union {Shutdown(s) : s \in sent}
-----------------------------------------------------------------------------
\* connectionEstablished()
Established(r) == AfterCallback(SetEvents([r EXCEPT !.state = "kConnected"],
                                          r.events \union {"read"}))

\* Mutant of connectionDestroyed: the channel is not removed.
DestroyedStaysInEpoll(r) ==
    IF r.state = "kConnected"
    THEN [SetEvents(r, {}) EXCEPT !.state = "kDisconnected", !.told = TRUE]
    ELSE r

\* connectionDestroyed(): the record after it, and what Channel::remove asserts.
Destroyed(r) ==
    IF r.state = "kConnected"
    THEN RemoveChannel([SetEvents(r, {}) EXCEPT !.state = "kDisconnected",
                                                !.told = TRUE])
    ELSE RemoveChannel(r)

RemoveAllowed(r) == r.state = "kConnected" \/ r.events = {}

\* EventLoopThreadPool::getNextLoop
NextLoop == IF pool.loops = <<>> THEN Base ELSE pool.loops[pool.next + 1]
AdvanceNext == IF pool.loops = <<>> \/ pool.next + 1 >= Len(pool.loops)
               THEN 0 ELSE pool.next + 1

\* Is loop l free to handle events: between two batches, and not in the
\* destructor of the server, which runs in Base.
Handles(l) == /\ Running
              /\ batch[l] = <<>>
              /\ l = Base => server = "up"

\* Mutant: the new connection is not put into connectionMap_.
RegisterNowhere(c) == UNCHANGED inMap

\* connectionMap_[name] = connection
Register(c) == inMap' = inMap \union {c}

\* Acceptor::hadleRead and TcpServer::newConnection; connectionEstablished
\* runs at once if the connection lives in Base.
NewConnection(c) ==
    /\ Handles(Base)
    /\ conn[c].state = "unborn"
    /\ Register(c)
    /\ pool' = [pool EXCEPT !.next = AdvanceNext]
    /\ LET r == [conn[c] EXCEPT !.state = "kConnecting", !.loop = NextLoop]
       IN  IF NextLoop = Base
           THEN /\ \E s \in Established(r) : conn' = [conn EXCEPT ![c] = s]
                /\ UNCHANGED queue
           ELSE /\ conn' = [conn EXCEPT ![c] = r]
                /\ queue' = Queue(NextLoop, Functor("established", c, TRUE))
    /\ UNCHANGED <<batch, pos, user, server, failed>>

\* Mutant: connectionDestroyed is not queued.
RemoveAndForget(c) == /\ Asserts(c \in inMap, "erase")
                      /\ inMap' = inMap \ {c}
                      /\ UNCHANGED queue

\* removeConnectionInLoop, run in Base.
RemoveInLoop(c) ==
    /\ Asserts(c \in inMap, "erase")
    /\ inMap' = inMap \ {c}
    /\ queue' = Queue(conn[c].loop, Functor("destroyed", c, TRUE))

\* removeConnection, through runInLoop of Base.
RemoveConnection(c) ==
    IF conn[c].loop = Base
    THEN RemoveInLoop(c)
    ELSE /\ queue' = Queue(Base, Functor("remove", c, TRUE))
         /\ UNCHANGED <<inMap, failed>>

\* Mutants of handleClose: the assertion on the state is compiled out; the
\* channel is not disabled.
CloseUnguarded(c) ==
    /\ conn' = [conn EXCEPT ![c] = SetEvents([@ EXCEPT !.state = "kDisconnected"], {})]
    /\ RemoveConnection(c)
    /\ UNCHANGED <<pool, batch, pos, user, server>>

CloseKeepsEvents(c) ==
    /\ conn' = [conn EXCEPT ![c].state = "kDisconnected"]
    /\ IF conn[c].state \in {"kConnected", "kDisconnecting"}
       THEN RemoveConnection(c)
       ELSE Asserts(FALSE, "handleClose") /\ UNCHANGED <<inMap, queue>>
    /\ UNCHANGED <<pool, batch, pos, user, server>>

\* handleClose, with its closeCallback_.
Close(c) ==
    /\ conn' = [conn EXCEPT ![c] = SetEvents([@ EXCEPT !.state = "kDisconnected"], {})]
    /\ IF conn[c].state \in {"kConnected", "kDisconnecting"}
       THEN RemoveConnection(c)
       ELSE Asserts(FALSE, "handleClose") /\ UNCHANGED <<inMap, queue>>
    /\ UNCHANGED <<pool, batch, pos, user, server>>
-----------------------------------------------------------------------------
\* Events, delivered for the descriptors registered in epoll.
Delivered(c) == /\ conn[c].status = "kAdded"
                /\ Held(c)
                /\ Handles(conn[c].loop)

\* handleRead with n > 0.
Message(c) ==
    /\ Delivered(c)
    /\ "read" \in conn[c].events
    /\ \E s \in AfterCallback(conn[c]) :
          s # conn[c] /\ conn' = [conn EXCEPT ![c] = s]
    /\ UNCHANGED <<inMap, pool, loopVars, user, server, failed>>

\* handleRead with n = 0: the peer has closed, or the reading side is shut.
ReadClose(c) ==
    /\ Delivered(c)
    /\ "read" \in conn[c].events
    /\ conn[c].peer = "closed" \/ conn[c].readShut
    /\ Close(c)

\* EPOLLHUP without EPOLLIN, when reading is not asked for.
HangUp(c) ==
    /\ Delivered(c)
    /\ "read" \notin conn[c].events
    /\ conn[c].peer = "closed"
    /\ Close(c)

\* handleWrite: the write(2) empties the output buffer (a partial or failed
\* one changes nothing here).
Writable(c) ==
    /\ Delivered(c)
    /\ "write" \in conn[c].events
    /\ LET r == SetEvents([conn[c] EXCEPT !.out = FALSE], conn[c].events \ {"write"})
       IN  conn' = [conn EXCEPT ![c] = IF r.state = "kDisconnecting"
                                       THEN ShutdownInLoop(r) ELSE r]
    /\ UNCHANGED <<inMap, pool, loopVars, user, server, failed>>

\* The client closes or resets the connection.
PeerCloses(c) ==
    /\ Running
    /\ conn[c].state # "unborn"
    /\ conn[c].peer = "open"
    /\ Held(c)
    /\ conn' = [conn EXCEPT ![c].peer = "closed"]
    /\ UNCHANGED <<inMap, pool, loopVars, user, server, failed>>
-----------------------------------------------------------------------------
\* doPendingFunctors
TakeBatch(l) ==
    /\ Handles(l)
    /\ queue[l] # <<>>
    /\ batch' = [batch EXCEPT ![l] = queue[l]]
    /\ queue' = [queue EXCEPT ![l] = <<>>]
    /\ pos' = [pos EXCEPT ![l] = 0]
    /\ UNCHANGED <<conn, inMap, pool, user, server, failed>>

RunFunctor(l) ==
    LET f == batch[l][pos[l] + 1]
        c == f.conn
    IN  /\ Running
        /\ pos[l] < Len(batch[l])
        /\ l = Base => server = "up"
        /\ pos' = [pos EXCEPT ![l] = @ + 1]
        /\ \/ /\ ~Held(c)
              /\ Asserts(FALSE, "dangling functor")
              /\ UNCHANGED <<conn, inMap, queue>>
           \/ /\ f.op = "established"
              /\ Asserts(conn[c].state = "kConnecting", "connectionEstablished")
              /\ \E s \in Established(conn[c]) : conn' = [conn EXCEPT ![c] = s]
              /\ UNCHANGED <<inMap, queue>>
           \/ /\ f.op = "remove"
              /\ RemoveInLoop(c)
              /\ UNCHANGED conn
           \/ /\ f.op = "destroyed"
              /\ Held(c)
              /\ Asserts(RemoveAllowed(conn[c]), "Channel::remove")
              /\ conn' = [conn EXCEPT ![c] = Destroyed(@)]
              /\ UNCHANGED <<inMap, queue>>
           \/ /\ f.op = "send"
              /\ Held(c)
              /\ \E all \in BOOLEAN : conn' = [conn EXCEPT ![c] = SendInLoop(@, all)]
              /\ UNCHANGED <<inMap, queue, failed>>
           \/ /\ f.op = "shutdown"
              /\ conn' = [conn EXCEPT ![c] = ShutdownInLoop(@)]
              /\ UNCHANGED <<inMap, queue, failed>>
        /\ UNCHANGED <<pool, batch, user, server>>

EndBatch(l) ==
    /\ Running
    /\ batch[l] # <<>>
    /\ pos[l] = Len(batch[l])
    /\ batch' = [batch EXCEPT ![l] = <<>>]
    /\ pos' = [pos EXCEPT ![l] = 0]
    /\ UNCHANGED <<conn, inMap, pool, queue, user, server, failed>>
-----------------------------------------------------------------------------
\* A user thread got its shared_ptr from a callback of an open connection.
UserTakes(u, c) ==
    /\ Running
    /\ user[u].ops # {}
    /\ user[u].holds = NotHeld
    /\ c \in inMap
    /\ conn[c].state = "kConnected"
    /\ user' = [user EXCEPT ![u].holds = c]
    /\ UNCHANGED <<conn, inMap, pool, loopVars, server, failed>>

UserDrops(u) ==
    /\ Running
    /\ user[u].holds # NotHeld
    /\ user[u].at = "out"
    /\ user' = [user EXCEPT ![u].holds = NotHeld]
    /\ UNCHANGED <<conn, inMap, pool, loopVars, server, failed>>

\* The test of state_ in send() and in shutdown().
UserTests(u, op) ==
    /\ Running
    /\ op \in user[u].ops
    /\ user[u].holds # NotHeld
    /\ user[u].at = "out"
    /\ conn[user[u].holds].state = "kConnected"
    /\ user' = [user EXCEPT ![u].at = op]
    /\ UNCHANGED <<conn, inMap, pool, loopVars, server, failed>>

\* setState(kDisconnecting)
UserSetsState(u) ==
    /\ Running
    /\ user[u].at = "shutdown"
    /\ conn' = [conn EXCEPT ![user[u].holds].state = "kDisconnecting"]
    /\ user' = [user EXCEPT ![u].at = "queueShutdown"]
    /\ UNCHANGED <<inMap, pool, loopVars, server, failed>>

\* runInLoop: sendInLoop is bound to a raw this, shutdownInLoop is not.
UserQueues(u) ==
    LET c == user[u].holds
        l == conn[c].loop
    IN  /\ Running
        /\ user[u].at \in {"send", "queueShutdown"}
        /\ Len(queue[l]) < MaxQueue
        /\ queue' = Queue(l, IF user[u].at = "send" THEN Functor("send", c, FALSE)
                                                    ELSE Functor("shutdown", c, TRUE))
        /\ user' = [user EXCEPT ![u].at = "out"]
        /\ UNCHANGED <<conn, inMap, pool, batch, pos, server, failed>>
-----------------------------------------------------------------------------
\* ~TcpServer, in Base outside its batches: connectionDestroyed, bound to a
\* raw pointer, for every connection of the map; then the map is destroyed.
DestroyEach ==
    /\ ServerDtor
    /\ Handles(Base)
    /\ server' = "destroying"
    /\ queue' = [l \in Loops |->
                    queue[l] \o SetToSeq({Functor("destroyed", c, FALSE) :
                        c \in {d \in inMap : conn[d].loop = l /\ l # Base}})]
    /\ LET inBase == {c \in inMap : conn[c].loop = Base}
       IN  /\ conn' = [c \in Conns |-> IF c \in inBase THEN Destroyed(conn[c]) ELSE conn[c]]
           /\ Asserts(\A c \in inBase : RemoveAllowed(conn[c]), "Channel::remove")
    /\ UNCHANGED <<inMap, pool, batch, pos, user>>

DestroyMap ==
    /\ Running
    /\ server = "destroying"
    /\ server' = "down"
    /\ inMap' = {}
    /\ UNCHANGED <<conn, pool, loopVars, user, failed>>
-----------------------------------------------------------------------------
LoopStep(l) == TakeBatch(l) \/ RunFunctor(l) \/ EndBatch(l)
EventStep(c) == Message(c) \/ ReadClose(c) \/ HangUp(c) \/ Writable(c)
UserStep(u) == \/ \E c \in Conns : UserTakes(u, c)
               \/ \E op \in user[u].ops : UserTests(u, op)
               \/ UserDrops(u) \/ UserSetsState(u) \/ UserQueues(u)

Next == \/ \E c \in Conns : NewConnection(c) \/ EventStep(c) \/ PeerCloses(c)
        \/ \E l \in Loops : LoopStep(l)
        \/ \E u \in Users : UserStep(u)
        \/ DestroyEach \/ DestroyMap

\* Every loop's thread runs, epoll is level-triggered and so keeps reporting
\* an event until it is handled, and a client that is not gone reads what it
\* is sent.
Fairness == /\ \A l \in Loops : WF_vars(LoopStep(l))
            /\ \A c \in Conns : WF_vars(ReadClose(c)) /\ WF_vars(Writable(c))

Spec == Init /\ [][Next]_vars
FairSpec == Spec /\ Fairness
-----------------------------------------------------------------------------
Record == [state : States, loop : Loops, events : SUBSET {"read", "write"},
           status : {"kNew", "kAdded", "kDeleted"}, out : BOOLEAN,
           peer : {"open", "closed"}, readShut : BOOLEAN, told : BOOLEAN]

Functors == [op : {"established", "remove", "destroyed", "send", "shutdown"},
             conn : Conns, shared : BOOLEAN]

\* The types of the variables, with the range of the indexes.
TypeOK == /\ conn \in [Conns -> Record]
          /\ inMap \subseteq Conns
          /\ pool \in [loops : Pools, next : Nat]
          /\ pool.next \in {0} \union 0 .. Len(pool.loops) - 1
          /\ queue \in [Loops -> Seq(Functors)]
          /\ batch \in [Loops -> Seq(Functors)]
          /\ pos \in [Loops -> Nat] /\ \A l \in Loops : pos[l] <= Len(batch[l])
          /\ user \in [Users -> [holds : Conns \union {NotHeld}, ops : UserOps,
                                 at : {"out", "send", "shutdown", "queueShutdown"}]]
          /\ server \in {"up", "destroying", "down"}
          /\ failed \in {"none", "erase", "handleClose", "Channel::remove",
                         "connectionEstablished", "dangling functor"}

\* No assertion on the way of a connection fails: its state when it is
\* established, closed and destroyed, its place in the map when it is removed,
\* its events when its channel leaves epoll.
NoAssertionFails == Running

\* Epoll keeps raw pointers to channels.  As TcpConnection.h (146-150) says,
\* a registered channel belongs to a connection that is still held.
RegisteredIsHeld == \A c \in Conns : conn[c].status = "kAdded" => Held(c)

\* The removal protocol between the two loops is not repeated: the assertions
\* n == 1 of removeConnectionInLoop and kConnecting of connectionEstablished
\* hold even when a late send() has put a closed channel back into epoll.
RemovedOnce == failed \notin {"erase", "connectionEstablished"}

\* A shutdown() from another thread may overwrite kDisconnected, but none of
\* the loops' handlers trips over it: while the server is up and nobody sends
\* from outside, their assertions hold, and only the destructor's can fail.
NoHandlerAborts ==
    (server = "up" /\ \A u \in Users : "send" \notin user[u].ops) => failed = "none"

\* What other threads may do to the loops: a late send() does not make the removal happen
\* twice, and a late shutdown() makes no handler abort.
UsersDoNoHarm == RemovedOnce /\ NoHandlerAborts

\* A connection is in the map, or its removal is done or queued, or it runs
\* down: nobody is forgotten with its channel still in epoll's map.
NoneForgotten ==
    server = "up" =>
        \A c \in Conns : conn[c].state \notin {"unborn", "kConnecting"} =>
            \/ c \in inMap
            \/ conn[c].status = "kNew"
            \/ BoundIn(queue[conn[c].loop], c) \/ BoundIn(batch[conn[c].loop], c)

Order(s) == CASE s = "unborn" -> 0 [] s = "kConnecting" -> 1
              [] s = "kConnected" -> 2 [] s = "kDisconnecting" -> 3
              [] s = "kDisconnected" -> 4

\* The state of a connection only moves forward (TcpConnection.h, 60-61: only
\* a kConnected connection can be shut down).
StateForward == [][\A c \in Conns : Order(conn[c].state) <= Order(conn'[c].state)]_vars

\* A connection whose peer has closed is given back, however the two loops
\* and its last data interleave.
ClosedIsReleased ==
    \A c \in Conns : (conn[c].peer = "closed") ~> (conn[c].status = "kNew" /\ ~Held(c))

\* A connection that is shut down gets closed, once its output is written.
ShutdownCloses ==
    \A c \in Conns : (conn[c].state = "kDisconnecting") ~>
                            (conn[c].state = "kDisconnected")

\* Connections end, on either way: closed by the peer or shut down by the server.
ConnectionsEnd == ClosedIsReleased /\ ShutdownCloses
=============================================================================
