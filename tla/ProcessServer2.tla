---------------------------- MODULE ProcessServer2 ----------------------------
(***************************************************************************)
(* multiProcess2: every process has the listening socket and a loop, and   *)
(* serves what it accepts.  A mutex in shared memory decides whose epoll    *)
(* watches the listening socket: a process tries to take it before each    *)
(* round and gives it back after each accept.                              *)
(***************************************************************************)
EXTENDS ProcessConnection

CONSTANTS N,           \* processNum_, the number of children
          MaxSpare,    \* bounds the processes that replace dead ones
          Client,
          MaxFaults    \* bounds the signals of the user and the crashes

ASSUME ProcessNumAssumption == N \in Nat \ {0}
ASSUME MaxSpareAssumption   == MaxSpare \in Nat
ASSUME MaxFaultsAssumption  == MaxFaults \in Nat

Child   == 1 .. N
Spare   == N + 1 .. N + MaxSpare
Process == {0} \union Child \union Spare      \* 0 creates the others

Free == -1

VARIABLES
    proc,      \* the processes, see TypeOK
    mutex,     \* who has processMutexLock_, and whether it still works
    client,    \* where each client is, in which process, and its connection
    faults

vars == <<proc, mutex, client, faults>>

Flags == {"terminate", "quit_softly", "child_quit"}

Acceptors == [events  : SUBSET {"read"},
              status  : {"kNew", "kAdded", "kDeleted"},
              watched : BOOLEAN]

NewAcceptor == [events |-> {}, status |-> "kNew", watched |-> FALSE]

\* "back" is outside loop(), in TcpServer::start; "ended" is after main, "dead" is killed.
TypeOK ==
    /\ proc \in [Process -> [at      : {"none", "new", "top", "polling", "accepting",
                                        "handling", "back", "ended", "dead"},
                             started_ : BOOLEAN,
                             flags   : SUBSET Flags,
                             handles : BOOLEAN,        \* has handlers for SIGTERM and the like
                             waits   : BOOLEAN,        \* has a handler for SIGCHLD
                             isLock_ : BOOLEAN,
                             hooks   : BOOLEAN,        \* its loop calls lockAcceptor
                             acceptor : Acceptors,
                             active  : SUBSET Client,
                             pids    : SUBSET Process,
                             parent  : Process]]
    /\ mutex \in [holder : Process \union {Free}, valid : BOOLEAN]
    /\ client \in [Client -> [place : {"away", "backlog", "open", "closed", "lost"},
                              by : Process, says : {"nothing", "request", "bye"},
                              conn : Connections]]
    /\ faults \in 0 .. MaxFaults

Fresh(at) == [at |-> at, started_ |-> FALSE, flags |-> {}, handles |-> FALSE, waits |-> FALSE, isLock_ |-> FALSE,
              hooks |-> TRUE, acceptor |-> NewAcceptor, active |-> {}, pids |-> {},
              parent |-> 0]

\* The parent is in the constructor of its ProcessPool.  started_ is not initialized: it
\* is what was in the memory of the parent, and that is what the children get too.
Init ==
    /\ \E started \in BOOLEAN :
          proc = [p \in Process |-> IF p = 0 THEN [Fresh("new") EXCEPT !.started_ = started]
                                             ELSE Fresh("none")]
    /\ mutex = [holder |-> Free, valid |-> TRUE]
    /\ client = [c \in Client |-> [place |-> "away", by |-> 0, says |-> "nothing",
                                   conn |-> NewConnection]]
    /\ faults = 0

Alive(p) == proc[p].at \notin {"none", "ended", "dead"}

-------------------------------------------------------------------------------
\* ProcessPool: the children are forked before there is a loop.

\* createChildProcess, in the parent.
Fork(i) ==
    /\ proc[0].at = "new"
    /\ i = Cardinality(proc[0].pids) + 1
    /\ proc[0].pids # {} => proc[0].handles
    /\ proc' = [proc EXCEPT ![0].pids = @ \union {i},
                            ![i] = [proc[0] EXCEPT !.parent = 0]]
    /\ UNCHANGED <<mutex, client, faults>>

\* setParentSignalHandlers; it is called after each fork.
ParentHandles ==
    /\ proc[0].at = "new"
    /\ proc[0].pids # {}
    /\ ~proc[0].handles
    /\ proc' = [proc EXCEPT ![0].handles = TRUE, ![0].waits = TRUE]
    /\ UNCHANGED <<mutex, client, faults>>

\* setChildSignalHandlers, which leaves SIGCHLD as it was inherited, or the end of the
\* parent's loop over the children; then the constructor and start().
Start(p) ==
    /\ proc[p].at = "new"
    /\ p = 0 => proc[0].pids = Child /\ proc[0].handles
    /\ ~proc[p].started_
    /\ proc' = [proc EXCEPT ![p].at = "top", ![p].handles = TRUE, ![p].started_ = TRUE]
    /\ UNCHANGED <<mutex, client, faults>>

-------------------------------------------------------------------------------
\* The flags that the handlers set; the rest of the round reads and changes nothing
\* but the process itself, so it goes with the step before.

Stops(r) == r.flags \intersect {"terminate", "quit_softly"} # {}

EndRound(r) == [r EXCEPT !.at = IF "child_quit" \in r.flags THEN "back" ELSE "top"]

\* A process that stops leaves at once, without the events, with the mutex if it has it.
CheckStatus(r) ==
    IF Stops(r) THEN [r EXCEPT !.at = "back", !.active = {}]
    ELSE IF r.active = {} THEN EndRound(r)
    ELSE [r EXCEPT !.at = "handling"]

Handled(r, c) ==
    IF r.active = {c} THEN EndRound([r EXCEPT !.active = {}]) ELSE [r EXCEPT !.active = @ \ {c}]

-------------------------------------------------------------------------------
\* The accept mutex.

\* Mutant: the process that gets the mutex does not watch the listening socket.
LockWithoutListening(p) ==
    IF proc[p].hooks /\ mutex.valid /\ mutex.holder = Free
    THEN /\ mutex' = [mutex EXCEPT !.holder = p]
         /\ proc' = [proc EXCEPT ![p].at = "polling", ![p].isLock_ = TRUE]
    ELSE /\ UNCHANGED mutex
         /\ proc' = [proc EXCEPT ![p].at = "polling"]

\* TcpServer::lockAcceptor, if the loop has the hook; trylock fails for the holder too.
lockAcceptor(p) ==
    IF proc[p].hooks /\ mutex.valid /\ mutex.holder = Free
    THEN /\ mutex' = [mutex EXCEPT !.holder = p]
         /\ proc' = [proc EXCEPT ![p].at = "polling", ![p].isLock_ = TRUE,
                                 ![p].acceptor = enableReading(@)]
    ELSE /\ UNCHANGED mutex
         /\ proc' = [proc EXCEPT ![p].at = "polling"]

\* Mutant: the process gives the mutex back but goes on watching.
UnlockGoesOnListening(p) ==
    /\ mutex' = [mutex EXCEPT !.holder = IF proc[p].isLock_ THEN Free ELSE @]
    /\ proc' = [proc EXCEPT ![p] = CheckStatus([@ EXCEPT !.isLock_ = FALSE])]

\* TcpServer::unlockAcceptor, after an event of the listening socket.
unlockAcceptor(p) ==
    IF proc[p].isLock_
    THEN /\ mutex' = [mutex EXCEPT !.holder = Free]
         /\ LET r == proc[p]
            IN proc' = [proc EXCEPT ![p] = CheckStatus([r EXCEPT !.isLock_ = FALSE,
                                                         !.acceptor = disableAll(r.acceptor)])]
    ELSE /\ UNCHANGED mutex
         /\ proc' = [proc EXCEPT ![p] = CheckStatus(@)]

-------------------------------------------------------------------------------
\* One round of EventLoop::loop.

Lock(p) ==
    /\ proc[p].at = "top"
    /\ lockAcceptor(p)
    /\ UNCHANGED <<client, faults>>

ListenReady(p) == proc[p].acceptor.watched /\ \E c \in Client : client[c].place = "backlog"

ReadyClients(p) ==
    {c \in Client : /\ client[c].place = "open" /\ client[c].by = p
                    /\ client[c].conn.watched
                    /\ "read" \in client[c].conn.events
                    /\ client[c].says # "nothing" \/ client[c].conn.readShut}

\* epoll_wait returns what is ready, or nothing after 500 ms.  The channel of the
\* listening socket is taken out of the list and comes first.
Poll(p) ==
    /\ proc[p].at = "polling"
    /\ LET r == [proc[p] EXCEPT !.active = ReadyClients(p)]
       IN proc' = [proc EXCEPT ![p] = IF ListenReady(p) THEN [r EXCEPT !.at = "accepting"]
                                                        ELSE CheckStatus(r)]
    /\ UNCHANGED <<mutex, client, faults>>

\* Acceptor::handleRead accepts once; newConnectionInParent; then the hook.
Accept(p) ==
    /\ proc[p].at = "accepting"
    /\ \/ \E c \in Client :
             /\ client[c].place = "backlog"
             /\ client' = [client EXCEPT ![c].place = "open", ![c].by = p,
                                         ![c].conn = connectionEstablished(NewConnection)]
       \/ /\ \A c \in Client : client[c].place # "backlog"
          /\ UNCHANGED client
    /\ unlockAcceptor(p)
    /\ UNCHANGED faults

\* TcpConnection::handleRead with data, and the message callback of HttpServer.
HandleMessage(p, c) ==
    /\ proc[p].at = "handling"
    /\ c \in proc[p].active
    /\ client[c].says = "request"
    /\ \E r \in onMessage(client[c].conn) :
          client' = [client EXCEPT ![c].conn = r, ![c].says = "nothing"]
    /\ proc' = [proc EXCEPT ![p] = Handled(@, c)]
    /\ UNCHANGED <<mutex, faults>>

\* TcpConnection::handleRead with 0.
HandleClose(p, c) ==
    /\ proc[p].at = "handling"
    /\ c \in proc[p].active
    /\ client[c].says = "bye" \/ (client[c].says = "nothing" /\ client[c].conn.readShut)
    /\ client' = [client EXCEPT ![c].place = "closed",
                                ![c].conn = Destroyed(handleClose(client[c].conn))]
    /\ proc' = [proc EXCEPT ![p] = Handled(@, c)]
    /\ UNCHANGED <<mutex, faults>>

-------------------------------------------------------------------------------
\* Processes end and are replaced.

\* SIGINT to the processes of pids_, then SIGCHLD of dead ones to their parents.
Signalled(r) == IF r.handles THEN [r EXCEPT !.flags = @ \union {"terminate"}]
                             ELSE [r EXCEPT !.at = "dead", !.active = {}]

Noticed(f, gone) ==
    [q \in Process |->
        IF f[q].at \notin {"none", "ended", "dead"} /\ f[q].waits
              /\ \E p \in gone : f[p].parent = q /\ p # q
        THEN [f[q] EXCEPT !.flags = @ \union {"child_quit"}] ELSE f[q]]

\* The connections of a process end with it.
LoseClients(gone) ==
    client' = [c \in Client |-> IF client[c].place = "open" /\ client[c].by \in gone
                                THEN [client[c] EXCEPT !.place = "lost"] ELSE client[c]]

\* A process dies; it can have the mutex, which nobody gets then.
Dies(p) ==
    /\ proc' = Noticed([proc EXCEPT ![p].at = "dead", ![p].active = {}], {p})
    /\ LoseClients({p})
    /\ UNCHANGED mutex

\* killAll, which in a child kills its elder siblings: it has their pids.
killAll(p) ==
    [q \in Process |-> IF q \in proc[p].pids /\ Alive(q) THEN Signalled(proc[q]) ELSE proc[q]]

\* ~ProcessMutexLock destroys the mutex of all: glibc refuses while it is locked, and
\* otherwise makes it useless; other libraries leave it as it is.
DestroyMutex ==
    \E useful \in BOOLEAN :
        mutex' = [mutex EXCEPT !.valid = @ /\ (useful \/ mutex.holder # Free)]

\* start() with a flag to stop: killAll, and the destructors.
Leave(p) ==
    /\ proc[p].at = "back"
    /\ Stops(proc[p])
    /\ LET dead == {q \in proc[p].pids : Alive(q) /\ ~proc[q].handles}
       IN /\ proc' = Noticed([killAll(p) EXCEPT ![p].at = "ended"], dead \union {p})
          /\ LoseClients(dead \union {p})
    /\ DestroyMutex
    /\ UNCHANGED faults

\* start() that reads started_ as true does nothing: the process leaves main.
NoStart(p) ==
    /\ proc[p].at = "new"
    /\ p = 0 => proc[0].pids = Child /\ proc[0].handles
    /\ proc[p].started_
    /\ proc' = Noticed([proc EXCEPT ![p].at = "ended"], {p})
    /\ DestroyMutex
    /\ UNCHANGED <<client, faults>>

\* createNewChildProcess when there is room: pids_ is never pruned, so that is once.
\* The new process gets a loop without hooks and accepts nothing.
Replace(p, q) ==
    /\ proc[p].at = "back"
    /\ ~Stops(proc[p])
    /\ Cardinality(proc[p].pids) <= N
    /\ q \in Spare
    /\ \A r \in Spare : (r < q) <=> (proc[r].at # "none")
    /\ LET back == [proc[p] EXCEPT !.at = "top", !.flags = @ \ {"child_quit"}]
       IN proc' = [proc EXCEPT ![p] = [back EXCEPT !.pids = @ \union {q}],
                               ![q] = [back EXCEPT !.handles = TRUE, !.hooks = FALSE,
                                                   !.acceptor = NewAcceptor, !.parent = p]]
    /\ UNCHANGED <<mutex, client, faults>>

\* Without room createNewChildProcess returns no value.  If that is read as 0 the process
\* deletes its loop, and gets one without hooks.
NoRoom(p) ==
    /\ proc[p].at = "back"
    /\ ~Stops(proc[p])
    /\ Cardinality(proc[p].pids) > N
    /\ LET back == [proc[p] EXCEPT !.at = "top", !.flags = @ \ {"child_quit"}]
       IN \/ /\ proc' = [proc EXCEPT ![p] = back]
             /\ UNCHANGED client
          \/ /\ proc' = [proc EXCEPT ![p] = [back EXCEPT !.hooks = FALSE,
                                                         !.acceptor = NewAcceptor]]
             /\ client' = [c \in Client |->
                              IF client[c].place = "open" /\ client[c].by = p
                              THEN [client[c] EXCEPT !.conn.watched = FALSE] ELSE client[c]]
    /\ UNCHANGED <<mutex, faults>>

-------------------------------------------------------------------------------
\* The world.

Connect(c) ==
    /\ client[c].place = "away"
    /\ \E p \in Process : Alive(p) /\ proc[p].at # "new"
    /\ client' = [client EXCEPT ![c].place = "backlog"]
    /\ UNCHANGED <<proc, mutex, faults>>

\* A client sends a request, or closes.
Says(c, what) ==
    /\ client[c].place = "open"
    /\ client[c].says = "nothing"
    /\ client' = [client EXCEPT ![c].says = what]
    /\ UNCHANGED <<proc, mutex, faults>>

\* The handlers of both kinds do the same with the signals that stop a process.
Signal(p, s) ==
    /\ faults < MaxFaults
    /\ faults' = faults + 1
    /\ Alive(p)
    /\ IF proc[p].handles THEN /\ proc' = [proc EXCEPT ![p].flags = @ \union {s}]
                               /\ UNCHANGED <<mutex, client>>
       ELSE Dies(p)

Crash(p) ==
    /\ faults < MaxFaults
    /\ faults' = faults + 1
    /\ Alive(p)
    /\ Dies(p)

\* What a process does by itself.
Step(p) ==
    \/ Start(p) \/ NoStart(p) \/ Lock(p) \/ Poll(p) \/ Accept(p)
    \/ Leave(p) \/ NoRoom(p)
    \/ \E q \in Spare : Replace(p, q)
    \/ \E c \in Client : HandleMessage(p, c) \/ HandleClose(p, c)

Next ==
    \/ ParentHandles
    \/ \E i \in Child : Fork(i)
    \/ \E p \in Process : \/ Step(p) \/ Crash(p)
                          \/ \E s \in {"terminate", "quit_softly"} : Signal(p, s)
    \/ \E c \in Client : \/ Connect(c)
                         \/ \E what \in {"request", "bye"} : Says(c, what)

\* Every process goes on.  epoll_wait returns after 500 ms at the latest.
Fairness ==
    /\ WF_vars(ParentHandles)
    /\ \A i \in Child : WF_vars(Fork(i))
    /\ \A p \in Process : WF_vars(Step(p))

Spec == Init /\ [][Next]_vars /\ Fairness

-------------------------------------------------------------------------------
\* README.md:8: at any moment only one process watches the listening socket.  No
\* signal, death or replacement changes that.
OneListens ==
    \A p, q \in Process :
        Alive(p) /\ Alive(q) /\ proc[p].acceptor.watched /\ proc[q].acceptor.watched => p = q

ClosesCleanly ==
    \A c \in Client :
        /\ ~client[c].conn.failed
        /\ client[c].place = "closed" => ~client[c].conn.mapped /\ ~client[c].conn.watched

\* Who has the mutex watches the listening socket and knows that it has it, in every
\* process whose loop still has the hooks, whatever was signalled or died: nobody waits
\* for a process that does not know that it is its turn.  No assertion of TcpConnection,
\* Channel and removeConnection fails, and what is closed has left the map and epoll.
HolderListens ==
    /\ TypeOK /\ ClosesCleanly
    /\ \A p \in Process :
          Alive(p) /\ proc[p].hooks => /\ proc[p].isLock_ <=> mutex.holder = p
                                       /\ proc[p].isLock_ <=> proc[p].acceptor.watched

\* One process listens, and it is the one whose turn it is.
ListensInTurn == OneListens /\ HolderListens

\* Without signals and crashes a client that connects is served: who takes the mutex and
\* has a client to accept gives it back (the comment in Acceptor::handleRead), and
\* whoever takes it next watches the socket again.
ClientIsServed ==
    \A c \in Client :
        (client[c].place = "backlog") ~> (client[c].place # "backlog" \/ faults > 0)
===============================================================================
