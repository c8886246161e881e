---------------------------- MODULE ProcessServer1 ----------------------------
(***************************************************************************)
(* multiProcess1: a parent accepts and hands each connection to one of its *)
(* children, in turn, by sending the descriptor over a socket pair; a child *)
(* serves what it receives.  Signals set flags in the process they meet,   *)
(* and the loops look at the flags once per round.                          *)
(***************************************************************************)
EXTENDS ProcessConnection, Sequences

CONSTANTS N,           \* processNum_
          Client,
          MaxFaults    \* bounds the signals of the user and the crashes

ASSUME ProcessNumAssumption == N \in Nat \ {0}
ASSUME ClientAssumption     == "pipe" \notin Client
ASSUME MaxFaultsAssumption  == MaxFaults \in Nat

Child == 1 .. N

VARIABLES
    parent,      \* the parent, see Init
    child,       \* the children
    listened,    \* what the epoll instance watches that the parent created: the
                 \* children inherit the descriptor of that very instance
    pipe,        \* the descriptors on the way to a child
    client,      \* where each client is, in which child, and its connection
    next_,
    faults

vars == <<parent, child, listened, pipe, client, next_, faults>>

Flags == {"terminate", "quit_softly", "restart", "child_quit"}

TypeOK ==
    /\ parent \in [at : {"forking", "looping", "accepting", "gone"},
                   exit : {"none", "clean", "send_error", "killed"},
                   flags : SUBSET Flags, handlers : BOOLEAN, forked : 0 .. N, pids : SUBSET Child]
    /\ child \in [Child -> [at : {"none", "new", "looping", "gone"}, flags : SUBSET Flags,
                            handlers : {"default", "parent", "child"},
                            active : SUBSET ({"pipe"} \union Client)]]
    /\ listened \in SUBSET {"listen", "timer"}
    /\ pipe \in [Child -> Seq(Client)]
    /\ client \in [Client -> [place : {"away", "backlog", "pipe", "open", "closed", "lost"},
                              by : 0 .. N, says : {"nothing", "request", "bye"},
                              conn : Connections]]
    /\ next_ \in 0 .. N - 1
    /\ faults \in 0 .. MaxFaults

\* main has set a timer, and TcpServer::start has called listen() already.  started_ is
\* not initialized: if start() reads it as true it does nothing and main returns.
Init ==
    /\ \E at \in {"forking", "gone"} :
       parent = [at |-> at, exit |-> "none", flags |-> {}, handlers |-> FALSE,
                 forked |-> 0, pids |-> {}]
    /\ child = [i \in Child |-> [at |-> "none", flags |-> {}, handlers |-> "default",
                                 active |-> {}]]
    /\ listened = {"listen", "timer"}
    /\ pipe = [i \in Child |-> << >>]
    /\ client = [c \in Client |-> [place |-> "away", by |-> 0, says |-> "nothing",
                                   conn |-> NewConnection]]
    /\ next_ = 0
    /\ faults = 0

-------------------------------------------------------------------------------
\* The parent creates its children.

\* createChildProcess: the child has the flags and the handlers of its parent.
Fork(i) ==
    /\ parent.at = "forking"
    /\ i = parent.forked + 1
    /\ parent.forked = Cardinality(parent.pids)
    /\ parent' = [parent EXCEPT !.forked = i]
    /\ child' = [child EXCEPT ![i] = [at |-> "new", flags |-> parent.flags, active |-> {},
                    handlers |-> IF parent.handlers THEN "parent" ELSE "default"]]
    /\ UNCHANGED <<listened, pipe, client, next_, faults>>

\* addChildInfoToParent; after the last child, parentStart.
AddChild(i) ==
    /\ parent.at = "forking"
    /\ i = parent.forked
    /\ i \notin parent.pids
    /\ parent' = [parent EXCEPT !.pids = @ \union {i}, !.handlers = TRUE,
                                !.at = IF i = N THEN "looping" ELSE @]
    /\ UNCHANGED <<child, listened, pipe, client, next_, faults>>

\* Mutant: the acceptor is destroyed, as in the line that is commented out there.
ClearDestroysAcceptor == listened' = listened \ {"timer", "listen"}

\* clearInSubProcess in the child: it closes its copy of the listening socket, which
\* epoll does not notice, and deletes the loop, whose TimerQueue takes its timerfd out
\* of the epoll instance that is the parent's too.
ClearInSubProcess == listened' = listened \ {"timer"}

\* The rest of createChildProcess in the child, and Process::start.
ChildStarts(i) ==
    /\ child[i].at = "new"
    /\ ClearInSubProcess
    /\ child' = [child EXCEPT ![i].at = "looping", ![i].handlers = "child"]
    /\ UNCHANGED <<parent, pipe, client, next_, faults>>

-------------------------------------------------------------------------------
\* Processes end.

\* What SIGCHLD does to the parent.
NoticeDeath(p) ==
    IF p.at # "gone" /\ p.handlers THEN [p EXCEPT !.flags = @ \union {"child_quit"}] ELSE p

\* The connections of a child, and what is on the way to it, are lost with it.
LoseClients(i) ==
    client' = [c \in Client |->
                 IF client[c].by = i /\ client[c].place \in {"pipe", "open"}
                 THEN [client[c] EXCEPT !.place = "lost"] ELSE client[c]]

ChildGone(i) ==
    /\ child' = [child EXCEPT ![i].at = "gone", ![i].active = {}]
    /\ pipe' = [pipe EXCEPT ![i] = << >>]
    /\ LoseClients(i)
    /\ parent' = NoticeDeath(parent)
    /\ UNCHANGED <<listened, next_>>

\* Mutant: the child added last is left out.
KillAllButLast ==
    /\ child' = [i \in Child |->
                   IF i = N \/ child[i].at \in {"none", "gone"} THEN child[i]
                   ELSE [child[i] EXCEPT !.flags = @ \union {"terminate"}]]
    /\ UNCHANGED <<pipe, client>>

\* killAll: SIGINT to every child in pids_.  A child that has not set its handlers, nor
\* inherited any, dies of it.
killAll ==
    /\ child' = [i \in Child |->
                   IF i \notin parent.pids \/ child[i].at \in {"none", "gone"} THEN child[i]
                   ELSE IF child[i].handlers = "default"
                        THEN [child[i] EXCEPT !.at = "gone", !.active = {}]
                        ELSE [child[i] EXCEPT !.flags = @ \union {"terminate"}]]
    /\ UNCHANGED <<pipe, client>>

-------------------------------------------------------------------------------
\* The loop of the parent.

\* The flags that end EventLoop::loop, in any process.
StopFlags == {"terminate", "quit_softly", "child_quit"}

\* EventLoop::loop returns and parentStart ends the server.
ParentLeaves ==
    /\ parent.at = "looping"
    /\ parent.flags \intersect StopFlags # {}
    /\ parent' = [parent EXCEPT !.at = "gone", !.exit = "clean"]
    /\ killAll
    /\ UNCHANGED <<listened, next_, faults>>

\* epoll_wait reports the listening socket.
ParentPolls ==
    /\ parent.at = "looping"
    /\ parent.flags \intersect StopFlags = {}
    /\ "listen" \in listened
    /\ \E c \in Client : client[c].place = "backlog"
    /\ parent' = [parent EXCEPT !.at = "accepting"]
    /\ UNCHANGED <<child, listened, pipe, client, next_, faults>>

\* One turn of Acceptor::handleRead: newConnectionInParent, sendToChild, sendFd.  The
\* parent's copy of the descriptor is closed; if nobody holds the other end of the
\* pipe, sendFd exits.
Accept(c) ==
    /\ parent.at = "accepting"
    /\ client[c].place = "backlog"
    /\ LET i == next_ + 1
       IN IF child[i].at = "gone"
          THEN /\ parent' = [parent EXCEPT !.at = "gone", !.exit = "send_error"]
               /\ UNCHANGED <<pipe, client, next_>>
          ELSE /\ pipe' = [pipe EXCEPT ![i] = Append(@, c)]
               /\ client' = [client EXCEPT ![c].place = "pipe", ![c].by = i]
               /\ next_' = (next_ + 1) % N
               /\ UNCHANGED parent
    /\ UNCHANGED <<child, listened, faults>>

AcceptEnds ==
    /\ parent.at = "accepting"
    /\ \A c \in Client : client[c].place # "backlog"
    /\ parent' = [parent EXCEPT !.at = "looping"]
    /\ UNCHANGED <<child, listened, pipe, client, next_, faults>>

-------------------------------------------------------------------------------
\* The loop of a child.

Ready(i) ==
    (IF pipe[i] # << >> THEN {"pipe"} ELSE {})
    \union {c \in Client : /\ client[c].place = "open" /\ client[c].by = i
                           /\ client[c].conn.watched
                           /\ "read" \in client[c].conn.events
                           /\ client[c].says # "nothing" \/ client[c].conn.readShut}

\* A round of EventLoop::loop begins.  With child_quit, inherited at the fork, no event is
\* ever handled: loop() returns and Process::start calls it again.
ChildPolls(i) ==
    /\ child[i].at = "looping"
    /\ child[i].active = {}
    /\ child[i].flags \intersect StopFlags = {}
    /\ Ready(i) # {}
    /\ child' = [child EXCEPT ![i].active = Ready(i)]
    /\ UNCHANGED <<parent, listened, pipe, client, next_, faults>>

\* loop() returns, Process::start too, and the child exits.
ChildLeaves(i) ==
    /\ child[i].at = "looping"
    /\ child[i].active = {}
    /\ child[i].flags \intersect StopFlags # {}
    /\ child[i].flags \intersect {"terminate", "quit_softly", "restart"} # {}
    /\ ChildGone(i)
    /\ UNCHANGED faults

\* SocketPair::handleRead takes one descriptor; Process::newConnection and
\* TcpServer::newConnectionInChild.
ReceiveFd(i) ==
    /\ "pipe" \in child[i].active
    /\ LET c == Head(pipe[i])
       IN client' = [client EXCEPT ![c].place = "open",
                                   ![c].conn = connectionEstablished(NewConnection)]
    /\ pipe' = [pipe EXCEPT ![i] = Tail(@)]
    /\ child' = [child EXCEPT ![i].active = @ \ {"pipe"}]
    /\ UNCHANGED <<parent, listened, next_, faults>>

\* TcpConnection::handleRead with data.
HandleMessage(i, c) ==
    /\ c \in child[i].active
    /\ client[c].says = "request"
    /\ \E r \in onMessage(client[c].conn) :
          client' = [client EXCEPT ![c].conn = r, ![c].says = "nothing"]
    /\ child' = [child EXCEPT ![i].active = @ \ {c}]
    /\ UNCHANGED <<parent, listened, pipe, next_, faults>>

\* TcpConnection::handleRead with 0; the connection is gone when it returns.
HandleClose(i, c) ==
    /\ c \in child[i].active
    /\ client[c].says = "bye" \/ (client[c].says = "nothing" /\ client[c].conn.readShut)
    /\ client' = [client EXCEPT ![c].place = "closed",
                                ![c].conn = Destroyed(handleClose(client[c].conn))]
    /\ child' = [child EXCEPT ![i].active = @ \ {c}]
    /\ UNCHANGED <<parent, listened, pipe, next_, faults>>

-------------------------------------------------------------------------------
\* The world.

Connect(c) ==
    /\ client[c].place = "away"
    /\ parent.at # "gone"
    /\ client' = [client EXCEPT ![c].place = "backlog"]
    /\ UNCHANGED <<parent, child, listened, pipe, next_, faults>>

\* A client sends a request, or closes.
Says(c, what) ==
    /\ client[c].place = "open"
    /\ client[c].says = "nothing"
    /\ client' = [client EXCEPT ![c].says = what]
    /\ UNCHANGED <<parent, child, listened, pipe, next_, faults>>

\* parentSignalHandler, at any moment; without handlers the signal kills.
SignalParent(s) ==
    /\ faults < MaxFaults
    /\ faults' = faults + 1
    /\ parent.at # "gone"
    /\ parent' = IF parent.handlers THEN [parent EXCEPT !.flags = @ \union {s}]
                 ELSE [parent EXCEPT !.at = "gone", !.exit = "killed"]
    /\ UNCHANGED <<child, listened, pipe, client, next_>>

\* childSignalHandler.
SignalChild(i, s) ==
    /\ faults < MaxFaults
    /\ faults' = faults + 1
    /\ child[i].at \in {"new", "looping"}
    /\ IF child[i].handlers = "default" THEN ChildGone(i)
       ELSE /\ child' = [child EXCEPT ![i].flags = @ \union {s}]
            /\ UNCHANGED <<parent, listened, pipe, client, next_>>

\* A child dies, of SIGKILL or of a failed assertion.
Crash(i) ==
    /\ faults < MaxFaults
    /\ faults' = faults + 1
    /\ child[i].at \in {"new", "looping"}
    /\ ChildGone(i)

Next ==
    \/ ParentLeaves \/ ParentPolls \/ AcceptEnds
    \/ \E i \in Child : \/ Fork(i) \/ AddChild(i) \/ ChildStarts(i)
                        \/ ChildPolls(i) \/ ChildLeaves(i) \/ ReceiveFd(i) \/ Crash(i)
                        \/ \E c \in Client : HandleMessage(i, c) \/ HandleClose(i, c)
                        \/ \E s \in {"terminate", "quit_softly", "restart"} : SignalChild(i, s)
    \/ \E c \in Client : \/ Accept(c) \/ Connect(c)
                         \/ \E what \in {"request", "bye"} : Says(c, what)
    \/ \E s \in {"terminate", "quit_softly", "restart"} : SignalParent(s)

\* The processes keep running.  A signal that comes between the look at the flags and
\* epoll_wait is seen when that times out after 10 s at the latest.
Fairness ==
    /\ WF_vars(ParentLeaves) /\ WF_vars(ParentPolls) /\ WF_vars(AcceptEnds)
    /\ WF_vars(\E c \in Client : Accept(c))
    /\ \A i \in Child :
          /\ WF_vars(Fork(i)) /\ WF_vars(AddChild(i)) /\ WF_vars(ChildStarts(i))
          /\ WF_vars(ChildPolls(i)) /\ WF_vars(ChildLeaves(i)) /\ WF_vars(ReceiveFd(i))
          /\ \A c \in Client : WF_vars(HandleMessage(i, c)) /\ WF_vars(HandleClose(i, c))

Spec == Init /\ [][Next]_vars /\ Fairness

-------------------------------------------------------------------------------
OneOwner ==
    \A i \in Child :
        /\ \A j, k \in 1 .. Len(pipe[i]) : pipe[i][j] = pipe[i][k] => j = k
        /\ \A j \in 1 .. Len(pipe[i]) :
              client[pipe[i][j]].place = "pipe" /\ client[pipe[i][j]].by = i
        /\ \A c \in child[i].active \ {"pipe"} : client[c].place = "open" /\ client[c].by = i

\* No assertion of TcpConnection, Channel and removeConnection fails, however messages,
\* answers that are cut and closes follow each other, and a closed connection has left
\* the map and epoll.  A descriptor is in at most one pipe, once, that of its child, and
\* a child only has events of its own connections in its round.  The death of a child is
\* noticed, except that of the first in the time before the parent has handlers.
\* (Otherwise the parent would go on giving it connections.)
ClosesCleanly ==
    /\ TypeOK /\ OneOwner
    /\ \A i \in Child \ {1} :
          child[i].at = "gone" => parent.at = "gone" \/ "child_quit" \in parent.flags
    /\ \A c \in Client :
          /\ ~client[c].conn.failed
          /\ client[c].place = "closed" => ~client[c].conn.mapped /\ ~client[c].conn.watched

\* What send() could not write is sent when the socket is writable: its comment says
\* that the write event is watched from then on.
PendingOutputIsWatched ==
    \A c \in Client :
        client[c].place = "open" /\ client[c].conn.out => "write" \in client[c].conn.events

\* A client that connects gets a child to serve it, if no process ends: what a child
\* does in clearInSubProcess to the epoll instance that it shares with its parent does
\* not take the listening socket out of it (the comment there), and no descriptor is
\* left in a pipe.
ClientIsServed ==
    \A c \in Client :
        (client[c].place = "backlog") ~>
            (client[c].place \in {"open", "closed", "lost"} \/ parent.at = "gone")

\* After a clean end of the parent all children end.
AllEnd == (parent.exit = "clean") ~> (\A i \in Child : child[i].at = "gone")
===============================================================================
