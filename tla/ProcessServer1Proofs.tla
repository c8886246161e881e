------------------------- MODULE ProcessServer1Proofs -------------------------
(***************************************************************************)
(* Proofs about ProcessServer1, for any number of children and clients, any *)
(* number of faults, and either kind of Epoll::updateChannel; and about     *)
(* Descriptors, for any number of children, of clients and of descriptors.  *)
(***************************************************************************)
EXTENDS ProcessServer1, Descriptors, FiniteSetTheorems, SequenceTheorems, WellFoundedInduction,
        TLAPS

\* A connection that a child serves is registered for reading, and in the map.
Serving(r) == /\ r.state \in {"kConnected", "kDisconnecting"}
              /\ r.status = "kAdded"
              /\ "read" \in r.events
              /\ r.mapped /\ ~r.failed

Gone(r) == ~r.mapped /\ ~r.watched /\ ~r.failed

ConnInv == \A c \in Client : /\ ~client[c].conn.failed
                             /\ client[c].place = "open" => Serving(client[c].conn)
                             /\ client[c].place = "closed" => Gone(client[c].conn)

\* A child that is about to receive a descriptor has one in its pipe.
RoundInv == \A i \in Child : "pipe" \in child[i].active => pipe[i] # << >>

\* The parent has its handlers before the second child exists, and notices deaths from
\* then on.
HandlerInv == /\ parent.pids # {} => parent.handlers
              /\ \A i \in Child \ {1} :
                    child[i].at # "none" => parent.handlers \/ parent.at = "gone"

NoticedInv == \A i \in Child \ {1} :
                 child[i].at = "gone" => parent.at = "gone" \/ "child_quit" \in parent.flags

IInv == TypeOK /\ OneOwner /\ ConnInv /\ RoundInv /\ HandlerInv /\ NoticedInv
-------------------------------------------------------------------------------
\* The parts of TypeOK.
Parents  == [at : {"forking", "looping", "accepting", "gone"},
             exit : {"none", "clean", "send_error", "killed"},
             flags : SUBSET Flags, handlers : BOOLEAN, forked : 0 .. N, pids : SUBSET Child]
Children == [at : {"none", "new", "looping", "gone"}, flags : SUBSET Flags,
             handlers : {"default", "parent", "child"}, active : SUBSET ({"pipe"} \union Client)]
Clients  == [place : {"away", "backlog", "pipe", "open", "closed", "lost"}, by : 0 .. N,
             says : {"nothing", "request", "bye"}, conn : Connections]

LEMMA Types ==
    TypeOK <=> /\ parent \in Parents /\ child \in [Child -> Children]
               /\ listened \in SUBSET {"listen", "timer"}
               /\ pipe \in [Child -> Seq(Client)] /\ client \in [Client -> Clients]
               /\ next_ \in 0 .. N - 1 /\ faults \in 0 .. MaxFaults
  BY DEF TypeOK, Parents, Children, Clients

LEMMA Update ==
    ASSUME NEW S, NEW T, NEW f \in [S -> T], NEW x \in S, NEW y \in T
    PROVE  /\ [f EXCEPT ![x] = y] \in [S -> T]
           /\ [f EXCEPT ![x] = y][x] = y
           /\ \A z \in S \ {x} : [f EXCEPT ![x] = y][z] = f[z]
  OBVIOUS
-----------------------------------------------------------------------------
\* What the operations do to a connection.
LEMMA AssertedType ==
    ASSUME NEW r \in Connections, NEW P \in BOOLEAN
    PROVE  /\ Asserted(r, P) \in Connections
           /\ P => Asserted(r, P) = r
  BY DEF Asserted, Connections

LEMMA UpdateType ==
    ASSUME NEW r \in Connections
    PROVE  /\ updateChannel(r) \in Connections
           /\ updateChannel(r).state = r.state /\ updateChannel(r).events = r.events
           /\ (updateChannel(r).mapped <=> r.mapped) /\ (updateChannel(r).failed <=> r.failed)
           /\ r.events # {} => updateChannel(r).status = "kAdded"
           /\ r.events = {} /\ r.status = "kAdded" => ~updateChannel(r).watched
  BY MarksDeletedAssumption DEF updateChannel, Connections, MarksDeletedAssumption

LEMMA EstablishedServes ==
    /\ NewConnection \in Connections
    /\ connectionEstablished(NewConnection) \in Connections
    /\ Serving(connectionEstablished(NewConnection))
<1> DEFINE q == [NewConnection EXCEPT !.state = "kConnected"]
           e == [q EXCEPT !.events = q.events \union {"read"}]
<1>1. NewConnection \in Connections /\ NewConnection.state = "kConnecting"
  BY DEF NewConnection, Connections
<1>0. Asserted(NewConnection, NewConnection.state = "kConnecting") = NewConnection
  BY <1>1, AssertedType
<1>2. e \in Connections /\ e.state = "kConnected" /\ e.events = {"read"} /\ e.mapped /\ ~e.failed
  BY DEF NewConnection, Connections
<1>3. connectionEstablished(NewConnection) = updateChannel(e)
  BY <1>0 DEF connectionEstablished, enableReading
<1> HIDE DEF e
<1> QED
  BY <1>1, <1>2, <1>3, UpdateType DEF Serving

LEMMA SendServes ==
    ASSUME NEW r \in Connections, Serving(r), NEW s \in send(r)
    PROVE  s \in Connections /\ Serving(s)
<1> DEFINE q == [r EXCEPT !.out = TRUE]
           e == [q EXCEPT !.events = q.events \union {"read"}]
<1>1. e \in Connections /\ e.state = r.state /\ e.events = r.events \union {"read"}
      /\ (e.mapped <=> r.mapped) /\ (e.failed <=> r.failed)
  BY DEF Connections
<1>2. s = r \/ s = updateChannel(e)
  BY DEF send, enableReading
<1> HIDE DEF e
<1> QED
  BY <1>1, <1>2, UpdateType DEF Serving

LEMMA ShutdownServes ==
    ASSUME NEW r \in Connections, Serving(r)
    PROVE  shutdown(r) \in Connections /\ Serving(shutdown(r))
<1> DEFINE q == [r EXCEPT !.state = "kDisconnecting"]
<1>1. q \in Connections /\ Serving(q)
  BY DEF Serving, Connections
<1> HIDE DEF q
<1>2. shutdownInSocket(q) \in Connections /\ Serving(shutdownInSocket(q))
  BY <1>1 DEF shutdownInSocket, Serving, Connections
<1> QED
  BY <1>2 DEF shutdown, q

LEMMA MessageServes ==
    ASSUME NEW r \in Connections, Serving(r), NEW s \in onMessage(r)
    PROVE  s \in Connections /\ Serving(s)
<1>1. PICK t \in send(r) \union {r} : s = t \/ s = shutdown(t)
  BY DEF onMessage
<1>2. t \in Connections /\ Serving(t)
  BY <1>1, SendServes
<1> QED
  BY <1>1, <1>2, ShutdownServes

\* handleClose with all that it calls: no assertion fails, and the connection has left
\* the map and epoll.
LEMMA CloseLeaves ==
    ASSUME NEW r \in Connections, Serving(r)
    PROVE  Destroyed(handleClose(r)) \in Connections /\ Gone(Destroyed(handleClose(r)))
<1> DEFINE closed == [Asserted(r, r.state \in {"kConnected", "kDisconnecting"})
                        EXCEPT !.state = "kDisconnected"]
           q == [closed EXCEPT !.events = {}]
           d == updateChannel(q)
           m == [Asserted(d, d.mapped) EXCEPT !.mapped = FALSE]
           x == removeChannel(Asserted(m, m.events = {}))
<1>1. Asserted(r, r.state \in {"kConnected", "kDisconnecting"}) = r
  BY AssertedType DEF Serving
<1>2. q \in Connections /\ q.state = "kDisconnected" /\ q.events = {} /\ q.status = "kAdded"
      /\ q.mapped /\ ~q.failed
  BY <1>1 DEF Serving, Connections
<1>3. handleClose(r) = removeConnection(d)
  BY DEF handleClose, disableAll
<1> HIDE DEF q
<1>4. d \in Connections /\ d.state = "kDisconnected" /\ d.events = {} /\ ~d.watched
      /\ d.mapped /\ ~d.failed
  BY <1>2, UpdateType
<1> HIDE DEF d
<1>5. Asserted(d, d.mapped) = d
  BY <1>4, AssertedType
<1>6. m \in Connections /\ m.state = "kDisconnected" /\ m.events = {} /\ ~m.watched
      /\ ~m.mapped /\ ~m.failed
  BY <1>4, <1>5 DEF Connections
<1>7. removeConnection(d) = x
  BY <1>6 DEF removeConnection, connectionDestroyed, remove
<1> HIDE DEF m
<1>8. Asserted(m, m.events = {}) = m
  BY <1>6, AssertedType
<1>9. x \in Connections /\ x.state = "kDisconnected" /\ ~x.watched /\ ~x.mapped /\ ~x.failed
  BY <1>6, <1>8 DEF removeChannel, Connections
<1> HIDE DEF x
<1>10. Destroyed(x) = x
  BY <1>9, AssertedType DEF Destroyed
<1> QED
  BY <1>3, <1>7, <1>9, <1>10 DEF Gone
-----------------------------------------------------------------------------
\* Where nothing moves: the pipes are as they were, no client changes its place, its owner
\* or its connection, and no child gets an event.
LEMMA NothingMoves ==
    ASSUME IInv, UNCHANGED pipe, \A i \in Child : child'[i].active \subseteq child[i].active,
           \A c \in Client : /\ client'[c].place = client[c].place
                             /\ client'[c].by = client[c].by
                             /\ client'[c].conn = client[c].conn
    PROVE  OneOwner' /\ ConnInv' /\ RoundInv'
<1>1. \A i \in Child : \A j \in 1 .. Len(pipe[i]) : pipe[i][j] \in Client
  BY DEF IInv, TypeOK
<1>2. \A i \in Child : child[i].active \ {"pipe"} \subseteq Client
  BY DEF IInv, TypeOK
<1>3. OneOwner'
  BY <1>1, <1>2 DEF IInv, OneOwner
<1>4. ConnInv'
  BY DEF IInv, ConnInv
<1>5. RoundInv'
  BY DEF IInv, RoundInv
<1> QED
  BY <1>3, <1>4, <1>5

\* What the children's deaths and the parent's memory of them need of a step.
LEMMA DeathsAreNoticed ==
    ASSUME IInv,
           parent'.pids # {} => parent'.handlers,
           parent.handlers => parent'.handlers,
           parent.at = "gone" => parent'.at = "gone",
           parent.flags \subseteq parent'.flags,
           \A i \in Child \ {1} :
              /\ child'[i].at # "none" => child[i].at # "none" \/ parent'.handlers
              /\ child'[i].at = "gone" =>
                    child[i].at = "gone" \/ parent'.at = "gone" \/ "child_quit" \in parent'.flags
    PROVE  HandlerInv' /\ NoticedInv'
  BY DEF IInv, HandlerInv, NoticedInv

\* The steps of the parent that move no descriptor.
LEMMA ParentKeeps ==
    ASSUME IInv,
           ParentPolls \/ AcceptEnds
           \/ \E s \in {"terminate", "quit_softly", "restart"} : SignalParent(s)
    PROVE  IInv'
<1>1. UNCHANGED <<child, listened, pipe, client, next_>> /\ parent \in Parents
  BY Types DEF ParentPolls, AcceptEnds, SignalParent, IInv
<1>2. PICK p \in Parents, n \in 0 .. MaxFaults : parent' = p /\ faults' = n
            /\ p.pids = parent.pids /\ (p.handlers <=> parent.handlers)
            /\ (parent.at = "gone" => p.at = "gone") /\ parent.flags \subseteq p.flags
  <2>1. CASE ParentPolls \/ AcceptEnds
    BY <1>1, <2>1, Types DEF ParentPolls, AcceptEnds, Parents, IInv
  <2>2. ASSUME NEW s \in {"terminate", "quit_softly", "restart"}, SignalParent(s)
        PROVE  \E p \in Parents, n \in 0 .. MaxFaults : parent' = p /\ faults' = n
            /\ p.pids = parent.pids /\ (p.handlers <=> parent.handlers)
            /\ (parent.at = "gone" => p.at = "gone") /\ parent.flags \subseteq p.flags
    <3>1. faults + 1 \in 0 .. MaxFaults
      BY <2>2, Types, MaxFaultsAssumption DEF SignalParent, MaxFaultsAssumption, IInv
    <3>2. s \in Flags
      BY DEF Flags
    <3> DEFINE a == [parent EXCEPT !.flags = @ \union {s}]
               b == [parent EXCEPT !.at = "gone", !.exit = "killed"]
    <3>3. /\ a \in Parents /\ b \in Parents
          /\ a.pids = parent.pids /\ a.handlers = parent.handlers /\ a.at = parent.at
          /\ parent.flags \subseteq a.flags
          /\ b.pids = parent.pids /\ b.handlers = parent.handlers /\ b.at = "gone"
          /\ b.flags = parent.flags
      BY <1>1, <3>2 DEF Parents
    <3>4. faults' = faults + 1 /\ (parent' = a \/ parent' = b)
      BY <2>2 DEF SignalParent
    <3> HIDE DEF a, b
    <3> QED
      BY <3>1, <3>3, <3>4
  <2> QED
    BY <2>1, <2>2
<1>3. OneOwner' /\ ConnInv' /\ RoundInv'
  BY <1>1, NothingMoves
<1>4. TypeOK'
  BY <1>1, <1>2 DEF IInv, TypeOK, Parents
<1>5. HandlerInv' /\ NoticedInv'
  <2>1. parent.pids # {} => parent.handlers
    BY DEF IInv, HandlerInv
  <2> QED
    BY <1>1, <1>2, <2>1, DeathsAreNoticed
<1> QED
  BY <1>3, <1>4, <1>5 DEF IInv

\* The second fork and the later ones find the handlers set.
LEMMA ForkKeeps ==
    ASSUME IInv, NEW i \in Child, Fork(i)
    PROVE  IInv'
<1> DEFINE x == [at |-> "new", flags |-> parent.flags, active |-> {},
                 handlers |-> IF parent.handlers THEN "parent" ELSE "default"]
           p == [parent EXCEPT !.forked = i]
<1>1. /\ parent' = p /\ child' = [child EXCEPT ![i] = x]
      /\ UNCHANGED <<listened, pipe, client, next_, faults>>
  BY DEF Fork
<1>2. parent \in Parents /\ child \in [Child -> Children]
  BY Types DEF IInv
<1>3. x \in Children /\ x.active = {} /\ x.at = "new"
  BY <1>2 DEF Children, Parents
<1>4. /\ p \in Parents /\ p.pids = parent.pids /\ p.handlers = parent.handlers
      /\ p.at = parent.at /\ p.flags = parent.flags
  BY <1>2 DEF Parents, Child
<1> HIDE DEF x, p
<1>5. child' \in [Child -> Children] /\ child'[i] = x /\ \A k \in Child \ {i} : child'[k] = child[k]
  BY <1>1, <1>2, <1>3, Update
<1>6. TypeOK'
  BY <1>1, <1>4, <1>5, Types DEF IInv, TypeOK, Parents, Children
<1>7. OneOwner' /\ ConnInv' /\ RoundInv'
  <2>1. \A k \in Child : child'[k].active \subseteq child[k].active
    BY <1>3, <1>5
  <2> QED
    BY <1>1, <2>1, NothingMoves
<1>8. i # 1 => parent.handlers
  <2>1. parent.forked = Cardinality(parent.pids) /\ parent.forked + 1 = i /\ parent.forked \in 0 .. N
    BY <1>2 DEF Fork, Parents
  <2>2. Cardinality({}) = 0
    BY FS_EmptySet
  <2>3. parent.pids = {} => parent.forked = 0
    BY <2>1, <2>2
  <2>4. parent.forked = 0 => i = 1
    BY <2>1
  <2> QED
    BY <2>3, <2>4 DEF IInv, HandlerInv
<1>9. HandlerInv' /\ NoticedInv'
  <2>1. \A k \in Child \ {1} :
              /\ child'[k].at # "none" => child[k].at # "none" \/ parent'.handlers
              /\ child'[k].at = "gone" => child[k].at = "gone"
    BY <1>1, <1>3, <1>4, <1>5, <1>8
  <2>2. parent.pids # {} => parent.handlers
    BY DEF IInv, HandlerInv
  <2> QED
    BY <1>1, <1>4, <2>1, <2>2, DeathsAreNoticed
<1> QED
  BY <1>6, <1>7, <1>9 DEF IInv

\* A child is entered in pids_, or starts.
LEMMA StartKeeps ==
    ASSUME IInv, NEW i \in Child, AddChild(i) \/ ChildStarts(i)
    PROVE  IInv'
<1>1. parent \in Parents /\ child \in [Child -> Children] /\ listened \in SUBSET {"listen", "timer"}
      /\ UNCHANGED <<pipe, client, next_, faults>>
  BY Types DEF IInv, AddChild, ChildStarts
<1>2. CASE AddChild(i)
  <2> DEFINE p == [parent EXCEPT !.pids = parent.pids \union {i}, !.handlers = TRUE,
                                 !.at = IF i = N THEN "looping" ELSE parent.at]
  <2>1. parent' = p /\ UNCHANGED <<child, listened>> /\ parent.at = "forking"
    BY <1>2 DEF AddChild
  <2>2. p \in Parents /\ p.handlers /\ p.flags = parent.flags
    BY <1>1 DEF Parents
  <2> HIDE DEF p
  <2>3. TypeOK'
    BY <1>1, <2>1, <2>2, Types DEF IInv, TypeOK, Parents
  <2>4. OneOwner' /\ ConnInv' /\ RoundInv'
    BY <1>1, <2>1, NothingMoves
  <2>5. HandlerInv' /\ NoticedInv'
    BY <2>1, <2>2, DeathsAreNoticed
  <2> QED
    BY <2>3, <2>4, <2>5 DEF IInv
<1>3. CASE ChildStarts(i)
  <2> DEFINE x == [child[i] EXCEPT !.at = "looping", !.handlers = "child"]
  <2>1. child' = [child EXCEPT ![i] = x] /\ parent' = parent /\ listened' = listened \ {"timer"}
        /\ child[i].at = "new"
    BY <1>1, <1>3 DEF ChildStarts, ClearInSubProcess
  <2>2. x \in Children /\ x.at = "looping" /\ x.active = child[i].active
    BY <1>1 DEF Children
  <2> HIDE DEF x
  <2>3. child' \in [Child -> Children] /\ child'[i] = x /\ \A k \in Child \ {i} : child'[k] = child[k]
    BY <1>1, <2>1, <2>2, Update
  <2>4. TypeOK'
    BY <1>1, <2>1, <2>3, Types DEF IInv, TypeOK, Children
  <2>5. \A k \in Child : child'[k].active \subseteq child[k].active
    BY <2>2, <2>3
  <2>6. OneOwner' /\ ConnInv' /\ RoundInv'
    BY <1>1, <2>5, NothingMoves
  <2>7. \A k \in Child \ {1} :
              /\ child'[k].at # "none" => child[k].at # "none" \/ parent'.handlers
              /\ child'[k].at = "gone" => child[k].at = "gone"
    BY <2>1, <2>2, <2>3
  <2>8. parent.pids # {} => parent.handlers
    BY DEF IInv, HandlerInv
  <2>9. HandlerInv' /\ NoticedInv'
    BY <2>1, <2>7, <2>8, DeathsAreNoticed
  <2> QED
    BY <2>4, <2>6, <2>9 DEF IInv
<1> QED
  BY <1>2, <1>3

\* The loop of the parent ends, with SIGINT for the children.
LEMMA LeaveKeeps ==
    ASSUME IInv, ParentLeaves
    PROVE  IInv'
<1> DEFINE p == [parent EXCEPT !.at = "gone", !.exit = "clean"]
           After(k) == IF k \notin parent.pids \/ child[k].at \in {"none", "gone"} THEN child[k]
                       ELSE IF child[k].handlers = "default"
                            THEN [child[k] EXCEPT !.at = "gone", !.active = {}]
                            ELSE [child[k] EXCEPT !.flags = child[k].flags \union {"terminate"}]
<1>1. /\ parent' = p /\ child' = [k \in Child |-> After(k)]
      /\ UNCHANGED <<listened, next_, faults, pipe, client>>
  BY DEF ParentLeaves, killAll
<1>2. parent \in Parents /\ child \in [Child -> Children]
  BY Types DEF IInv
<1>3. p \in Parents /\ p.at = "gone" /\ p.pids = parent.pids /\ p.handlers = parent.handlers
      /\ p.flags = parent.flags
  BY <1>2 DEF Parents
<1>4. ASSUME NEW k \in Child
      PROVE  /\ After(k) \in Children /\ After(k).active \subseteq child[k].active
             /\ After(k).at # "none" => child[k].at # "none"
  <2>1. child[k] \in Children
    BY <1>2
  <2>2. [child[k] EXCEPT !.at = "gone", !.active = {}] \in Children
        /\ [child[k] EXCEPT !.at = "gone", !.active = {}].active = {}
    BY <2>1 DEF Children
  <2>3. [child[k] EXCEPT !.flags = child[k].flags \union {"terminate"}] \in Children
        /\ [child[k] EXCEPT !.flags = child[k].flags \union {"terminate"}].active = child[k].active
        /\ [child[k] EXCEPT !.flags = child[k].flags \union {"terminate"}].at = child[k].at
    BY <2>1 DEF Children, Flags
  <2> QED
    BY <2>1, <2>2, <2>3
<1> HIDE DEF After, p
<1>5. child' \in [Child -> Children] /\ \A k \in Child : child'[k] = After(k)
  BY <1>1, <1>4
<1>6. TypeOK'
  BY <1>1, <1>3, <1>5, Types DEF IInv, TypeOK, Parents, Children
<1>7. OneOwner' /\ ConnInv' /\ RoundInv'
  <2>1. \A k \in Child : child'[k].active \subseteq child[k].active
    BY <1>4, <1>5
  <2> QED
    BY <1>1, <2>1, NothingMoves
<1>8. HandlerInv' /\ NoticedInv'
  <2>1. \A k \in Child \ {1} : child'[k].at # "none" => child[k].at # "none"
    BY <1>4, <1>5
  <2>2. parent.pids # {} => parent.handlers
    BY DEF IInv, HandlerInv
  <2> QED
    BY <1>1, <1>3, <2>1, <2>2, DeathsAreNoticed
<1> QED
  BY <1>6, <1>7, <1>8 DEF IInv
-----------------------------------------------------------------------------
\* A child ends, and the connections it has, or is to receive, with it.
LEMMA GoneKeeps ==
    ASSUME IInv, NEW i \in Child, child[i].at # "none", ChildGone(i), faults' \in 0 .. MaxFaults
    PROVE  IInv'
<1> DEFINE x == [child[i] EXCEPT !.at = "gone", !.active = {}]
           Lost(c) == client[c].by = i /\ client[c].place \in {"pipe", "open"}
           After(c) == IF Lost(c) THEN [client[c] EXCEPT !.place = "lost"] ELSE client[c]
<1>1. /\ parent \in Parents /\ child \in [Child -> Children] /\ client \in [Client -> Clients]
      /\ pipe \in [Child -> Seq(Client)]
  BY Types DEF IInv
<1>2. /\ child' = [child EXCEPT ![i] = x] /\ pipe' = [pipe EXCEPT ![i] = << >>]
      /\ client' = [c \in Client |-> After(c)] /\ parent' = NoticeDeath(parent)
      /\ UNCHANGED <<listened, next_>>
  BY <1>1 DEF ChildGone, LoseClients
<1>3. x \in Children /\ x.at = "gone" /\ x.active = {}
  BY <1>1 DEF Children
<1>4. ASSUME NEW c \in Client
      PROVE  /\ After(c) \in Clients /\ After(c).by = client[c].by /\ After(c).conn = client[c].conn
             /\ After(c).place = IF Lost(c) THEN "lost" ELSE client[c].place
  BY <1>1 DEF Clients
<1> HIDE DEF x, After
<1>5. child' \in [Child -> Children] /\ child'[i] = x /\ \A k \in Child \ {i} : child'[k] = child[k]
  BY <1>1, <1>2, <1>3, Update
<1>6. << >> \in Seq(Client) /\ Len(<< >>) = 0
  OBVIOUS
<1>7. pipe' \in [Child -> Seq(Client)] /\ pipe'[i] = << >> /\ \A k \in Child \ {i} : pipe'[k] = pipe[k]
  BY <1>1, <1>2, <1>6, Update
<1>8. client' \in [Client -> Clients] /\ \A c \in Client : client'[c] = After(c)
  BY <1>2, <1>4
<1>9. /\ parent' \in Parents /\ parent'.pids = parent.pids /\ parent'.handlers = parent.handlers
      /\ parent'.at = parent.at /\ parent.flags \subseteq parent'.flags
      /\ parent.handlers => parent.at = "gone" \/ "child_quit" \in parent'.flags
  <2> DEFINE p == [parent EXCEPT !.flags = parent.flags \union {"child_quit"}]
  <2>1. /\ p \in Parents /\ p.pids = parent.pids /\ p.handlers = parent.handlers
        /\ p.at = parent.at /\ parent.flags \subseteq p.flags /\ "child_quit" \in p.flags
    BY <1>1 DEF Parents, Flags
  <2>2. NoticeDeath(parent) = IF parent.at # "gone" /\ parent.handlers THEN p ELSE parent
    BY DEF NoticeDeath
  <2> HIDE DEF p
  <2> QED
    BY <1>1, <1>2, <2>1, <2>2
<1>10. TypeOK'
  BY <1>2, <1>5, <1>7, <1>8, <1>9, Types DEF IInv, TypeOK, Parents, Children, Clients
<1>11. OneOwner'
  <2>1. ASSUME NEW k \in Child, NEW j \in 1 .. Len(pipe'[k])
        PROVE  /\ client'[pipe'[k][j]].place = "pipe" /\ client'[pipe'[k][j]].by = k
               /\ \A m \in 1 .. Len(pipe'[k]) : pipe'[k][j] = pipe'[k][m] => j = m
    <3>1. k # i /\ pipe'[k] = pipe[k]
      BY <1>6, <1>7, <2>1
    <3>2. pipe[k][j] \in Client /\ client[pipe[k][j]].place = "pipe" /\ client[pipe[k][j]].by = k
          /\ \A m \in 1 .. Len(pipe[k]) : pipe[k][j] = pipe[k][m] => j = m
      BY <1>1, <2>1, <3>1 DEF IInv, OneOwner
    <3> QED
      BY <1>4, <1>8, <3>1, <3>2
  <2>2. ASSUME NEW k \in Child, NEW c \in child'[k].active \ {"pipe"}
        PROVE  client'[c].place = "open" /\ client'[c].by = k
    <3>1. k # i /\ child'[k] = child[k]
      BY <1>3, <1>5, <2>2
    <3>2. c \in child[k].active \ {"pipe"}
      BY <2>2, <3>1
    <3>3. child[k] \in Children
      BY <1>1
    <3>4. c \in Client
      BY <3>2, <3>3 DEF Children
    <3>5. client[c].place = "open" /\ client[c].by = k
      BY <3>2 DEF IInv, OneOwner
    <3> QED
      BY <1>4, <1>8, <3>1, <3>4, <3>5
  <2> QED
    BY <2>1, <2>2 DEF OneOwner
<1>12. ConnInv'
  BY <1>4, <1>8 DEF IInv, ConnInv
<1>13. RoundInv'
  BY <1>3, <1>5, <1>7 DEF IInv, RoundInv
<1>14. HandlerInv' /\ NoticedInv'
  <2>1. i # 1 => parent.handlers \/ parent.at = "gone"
    BY DEF IInv, HandlerInv
  <2>2. \A k \in Child \ {1} :
              /\ child'[k].at # "none" => child[k].at # "none"
              /\ child'[k].at = "gone" =>
                    child[k].at = "gone" \/ parent'.at = "gone" \/ "child_quit" \in parent'.flags
    BY <1>3, <1>5, <1>9, <2>1
  <2>3. parent.pids # {} => parent.handlers
    BY DEF IInv, HandlerInv
  <2> QED
    BY <1>9, <2>2, <2>3, DeathsAreNoticed
<1> QED
  BY <1>10, <1>11, <1>12, <1>13, <1>14 DEF IInv

LEMMA EndKeeps ==
    ASSUME IInv, NEW i \in Child,
           ChildLeaves(i) \/ Crash(i)
           \/ \E s \in {"terminate", "quit_softly", "restart"} : SignalChild(i, s)
    PROVE  IInv'
<1>1. faults \in 0 .. MaxFaults /\ (faults < MaxFaults => faults + 1 \in 0 .. MaxFaults)
      /\ child \in [Child -> Children]
  BY Types, MaxFaultsAssumption DEF IInv, MaxFaultsAssumption
<1>2. CASE ChildLeaves(i)
  BY <1>1, <1>2, GoneKeeps DEF ChildLeaves
<1>3. CASE Crash(i)
  BY <1>1, <1>3, GoneKeeps DEF Crash
<1>4. ASSUME NEW s \in {"terminate", "quit_softly", "restart"}, SignalChild(i, s)
      PROVE  IInv'
  <2>1. faults' \in 0 .. MaxFaults /\ child[i].at # "none"
    BY <1>1, <1>4 DEF SignalChild
  <2>2. CASE child[i].handlers = "default"
    BY <1>4, <2>1, <2>2, GoneKeeps DEF SignalChild
  <2>3. CASE child[i].handlers # "default"
    <3> DEFINE x == [child[i] EXCEPT !.flags = child[i].flags \union {s}]
    <3>1. child' = [child EXCEPT ![i] = x] /\ UNCHANGED <<parent, listened, pipe, client, next_>>
      BY <1>1, <1>4, <2>3 DEF SignalChild
    <3>2. x \in Children /\ x.active = child[i].active /\ x.at = child[i].at
      BY <1>1 DEF Children, Flags
    <3> HIDE DEF x
    <3>3. child' \in [Child -> Children] /\ child'[i] = x /\ \A k \in Child \ {i} : child'[k] = child[k]
      BY <1>1, <3>1, <3>2, Update
    <3>4. TypeOK'
      BY <2>1, <3>1, <3>3, Types DEF IInv, TypeOK, Children
    <3>5. \A k \in Child : child'[k].active \subseteq child[k].active /\ child'[k].at = child[k].at
      BY <3>2, <3>3
    <3>6. OneOwner' /\ ConnInv' /\ RoundInv'
      BY <3>1, <3>5, NothingMoves
    <3>7. parent.pids # {} => parent.handlers
      BY DEF IInv, HandlerInv
    <3>8. HandlerInv' /\ NoticedInv'
      BY <3>1, <3>5, <3>7, DeathsAreNoticed
    <3> QED
      BY <3>4, <3>6, <3>8 DEF IInv
  <2> QED
    BY <2>2, <2>3
<1> QED
  BY <1>2, <1>3, <1>4
-----------------------------------------------------------------------------
\* Where the parent does not change, and no child begins or ends.
LEMMA NobodyDies ==
    ASSUME IInv, UNCHANGED parent, \A k \in Child : child'[k].at = child[k].at
    PROVE  HandlerInv' /\ NoticedInv'
<1>1. parent.pids # {} => parent.handlers
  BY DEF IInv, HandlerInv
<1> QED
  BY <1>1, DeathsAreNoticed

\* The next descriptor goes into a pipe, or the parent finds that child gone.
LEMMA AcceptKeeps ==
    ASSUME IInv, NEW c \in Client, Accept(c)
    PROVE  IInv'
<1>1. /\ parent \in Parents /\ child \in [Child -> Children] /\ client \in [Client -> Clients]
      /\ pipe \in [Child -> Seq(Client)] /\ next_ \in 0 .. N - 1
  BY Types DEF IInv
<1>2. PICK i \in Child : i = next_ + 1
  BY <1>1, ProcessNumAssumption DEF ProcessNumAssumption, Child
<1>3. CASE child[i].at = "gone"
  <2> DEFINE p == [parent EXCEPT !.at = "gone", !.exit = "send_error"]
  <2>1. parent' = p /\ UNCHANGED <<child, listened, pipe, client, next_, faults>>
    BY <1>2, <1>3 DEF Accept
  <2>2. p \in Parents /\ p.at = "gone" /\ p.pids = parent.pids /\ p.handlers = parent.handlers
        /\ p.flags = parent.flags
    BY <1>1 DEF Parents
  <2> HIDE DEF p
  <2>3. TypeOK'
    BY <2>1, <2>2, Types DEF IInv, TypeOK, Parents
  <2>4. OneOwner' /\ ConnInv' /\ RoundInv'
    BY <2>1, NothingMoves
  <2>5. parent.pids # {} => parent.handlers
    BY DEF IInv, HandlerInv
  <2>6. HandlerInv' /\ NoticedInv'
    BY <2>1, <2>2, <2>5, DeathsAreNoticed
  <2> QED
    BY <2>3, <2>4, <2>6 DEF IInv
<1>4. CASE child[i].at # "gone"
  <2> DEFINE d == [client[c] EXCEPT !.place = "pipe", !.by = i]
             s == Append(pipe[i], c)
  <2>1. /\ pipe' = [pipe EXCEPT ![i] = s] /\ client' = [client EXCEPT ![c] = d]
        /\ next_' = (next_ + 1) % N /\ UNCHANGED <<parent, child, listened, faults>>
        /\ client[c].place = "backlog"
    BY <1>1, <1>2, <1>4 DEF Accept
  <2>2. d \in Clients /\ d.place = "pipe" /\ d.by = i /\ d.conn = client[c].conn
    <3>1. i \in 0 .. N /\ client[c] \in Clients
      BY <1>1, ProcessNumAssumption DEF ProcessNumAssumption, Child
    <3> QED
      BY <3>1 DEF Clients
  <2>3. pipe[i] \in Seq(Client) /\ Len(pipe[i]) \in Nat
    BY <1>1
  <2>4. s \in Seq(Client) /\ Len(s) = Len(pipe[i]) + 1 /\ s[Len(pipe[i]) + 1] = c
        /\ \A j \in 1 .. Len(pipe[i]) : s[j] = pipe[i][j]
    BY <2>3
  <2> HIDE DEF d, s
  <2>5. pipe' \in [Child -> Seq(Client)] /\ pipe'[i] = s /\ \A k \in Child \ {i} : pipe'[k] = pipe[k]
    BY <1>1, <2>1, <2>4, Update
  <2>6. client' \in [Client -> Clients] /\ client'[c] = d
        /\ \A e \in Client \ {c} : client'[e] = client[e]
    BY <1>1, <2>1, <2>2, Update
  <2>7. next_' \in 0 .. N - 1
    BY <1>1, <2>1, ProcessNumAssumption DEF ProcessNumAssumption
  <2>8. TypeOK'
    BY <2>1, <2>5, <2>6, <2>7, Types DEF IInv, TypeOK, Clients
  <2>9. \A k \in Child : \A j \in 1 .. Len(pipe[k]) :
            /\ pipe[k][j] \in Client \ {c} /\ client[pipe[k][j]].place = "pipe"
            /\ client[pipe[k][j]].by = k
            /\ \A m \in 1 .. Len(pipe[k]) : pipe[k][j] = pipe[k][m] => j = m
    BY <1>1, <2>1 DEF IInv, OneOwner
  <2>10. OneOwner'
    <3>1. ASSUME NEW k \in Child \ {i}, NEW j \in 1 .. Len(pipe'[k])
          PROVE  /\ client'[pipe'[k][j]].place = "pipe" /\ client'[pipe'[k][j]].by = k
                 /\ \A m \in 1 .. Len(pipe'[k]) : pipe'[k][j] = pipe'[k][m] => j = m
      BY <2>5, <2>6, <2>9, <3>1
    <3>2. ASSUME NEW j \in 1 .. Len(pipe'[i])
          PROVE  /\ client'[pipe'[i][j]].place = "pipe" /\ client'[pipe'[i][j]].by = i
                 /\ \A m \in 1 .. Len(pipe'[i]) : pipe'[i][j] = pipe'[i][m] => j = m
      <4> DEFINE n == Len(pipe[i])
      <4>1. \A m \in 1 .. n + 1 : m \in 1 .. n \/ m = n + 1
        BY <2>3
      <4>2. \A m \in 1 .. n : s[m] = pipe[i][m] /\ s[m] # c
        BY <2>4, <2>9
      <4>3. pipe'[i] = s /\ Len(s) = n + 1 /\ s[n + 1] = c /\ j \in 1 .. n + 1
        BY <2>4, <2>5, <3>2
      <4>4. client'[s[j]].place = "pipe" /\ client'[s[j]].by = i
        BY <2>2, <2>6, <2>9, <4>1, <4>2, <4>3
      <4>5. \A m \in 1 .. n + 1 : s[j] = s[m] => j = m
        BY <2>9, <4>1, <4>2, <4>3
      <4> QED
        BY <4>3, <4>4, <4>5
    <3>3. ASSUME NEW k \in Child, NEW e \in child'[k].active \ {"pipe"}
          PROVE  client'[e].place = "open" /\ client'[e].by = k
      <4>1. e \in Client /\ client[e].place = "open" /\ client[e].by = k
        BY <1>1, <2>1, <3>3 DEF IInv, OneOwner, Children
      <4> QED
        BY <2>1, <2>6, <4>1
    <3> QED
      BY <3>1, <3>2, <3>3 DEF OneOwner
  <2>11. ConnInv'
    BY <2>2, <2>6 DEF IInv, ConnInv
  <2>12. RoundInv'
    <3>1. Len(<< >>) = 0 /\ s # << >>
      BY <2>3, <2>4
    <3> QED
      BY <2>1, <2>5, <3>1 DEF IInv, RoundInv
  <2>13. HandlerInv' /\ NoticedInv'
    BY <2>1, NobodyDies
  <2> QED
    BY <2>8, <2>10, <2>11, <2>12, <2>13 DEF IInv
<1> QED
  BY <1>3, <1>4

\* A round of a child begins.
LEMMA PollsKeeps ==
    ASSUME IInv, NEW i \in Child, ChildPolls(i)
    PROVE  IInv'
<1> DEFINE x == [child[i] EXCEPT !.active = Ready(i)]
<1>1. child \in [Child -> Children]
  BY Types DEF IInv
<1>2. child' = [child EXCEPT ![i] = x] /\ UNCHANGED <<parent, listened, pipe, client, next_, faults>>
  BY <1>1 DEF ChildPolls
<1>3. /\ Ready(i) \subseteq {"pipe"} \union Client
      /\ "pipe" \in Ready(i) => pipe[i] # << >>
      /\ \A c \in Ready(i) \ {"pipe"} : client[c].place = "open" /\ client[c].by = i
  BY ClientAssumption DEF Ready, ClientAssumption
<1>4. x \in Children /\ x.active = Ready(i) /\ x.at = child[i].at
  BY <1>1, <1>3 DEF Children
<1> HIDE DEF x
<1>5. child' \in [Child -> Children] /\ child'[i] = x /\ \A k \in Child \ {i} : child'[k] = child[k]
  BY <1>1, <1>2, <1>4, Update
<1>6. TypeOK'
  BY <1>2, <1>5, Types DEF IInv, TypeOK, Children
<1>7. OneOwner'
  <2>1. \A k \in Child : \A e : e \in child'[k].active \ {"pipe"} =>
            client[e].place = "open" /\ client[e].by = k
    BY <1>3, <1>4, <1>5 DEF IInv, OneOwner
  <2> QED
    BY <1>2, <2>1 DEF IInv, OneOwner
<1>8. ConnInv' /\ RoundInv'
  BY <1>2, <1>3, <1>4, <1>5 DEF IInv, ConnInv, RoundInv
<1>9. HandlerInv' /\ NoticedInv'
  BY <1>2, <1>4, <1>5, NobodyDies
<1> QED
  BY <1>6, <1>7, <1>8, <1>9 DEF IInv

\* A descriptor arrives, and with it a connection.
LEMMA ReceiveKeeps ==
    ASSUME IInv, NEW i \in Child, ReceiveFd(i)
    PROVE  IInv'
<1>1. /\ child \in [Child -> Children] /\ client \in [Client -> Clients]
      /\ pipe \in [Child -> Seq(Client)] /\ pipe[i] \in Seq(Client) /\ pipe[i] # << >>
  BY Types DEF IInv, RoundInv, ReceiveFd
<1>2. /\ Head(pipe[i]) = pipe[i][1] /\ 1 \in 1 .. Len(pipe[i]) /\ Head(pipe[i]) \in Client
      /\ Tail(pipe[i]) \in Seq(Client) /\ Len(pipe[i]) \in Nat
      /\ Len(Tail(pipe[i])) = Len(pipe[i]) - 1
      /\ \A j \in 1 .. Len(pipe[i]) - 1 : Tail(pipe[i])[j] = pipe[i][j + 1]
  BY <1>1
<1>3. PICK c \in Client, s \in Seq(Client) : c = pipe[i][1] /\ c = Head(pipe[i]) /\ s = Tail(pipe[i])
  BY <1>2
<1> DEFINE r == connectionEstablished(NewConnection)
           d == [client[c] EXCEPT !.place = "open", !.conn = r]
           x == [child[i] EXCEPT !.active = child[i].active \ {"pipe"}]
<1>4. /\ client' = [client EXCEPT ![c] = d] /\ pipe' = [pipe EXCEPT ![i] = s]
      /\ child' = [child EXCEPT ![i] = x] /\ UNCHANGED <<parent, listened, next_, faults>>
  BY <1>1, <1>3 DEF ReceiveFd
<1>5. r \in Connections /\ Serving(r)
  BY EstablishedServes
<1> HIDE DEF r
<1>6. /\ d \in Clients /\ d.place = "open" /\ d.by = client[c].by /\ d.conn = r
      /\ x \in Children /\ x.active = child[i].active \ {"pipe"} /\ x.at = child[i].at
  <2>1. client[c] \in Clients /\ child[i] \in Children
    BY <1>1
  <2>2. d \in Clients /\ d.place = "open" /\ d.by = client[c].by /\ d.conn = r
    BY <2>1, <1>5 DEF Clients
  <2>3. x \in Children /\ x.active = child[i].active \ {"pipe"} /\ x.at = child[i].at
    BY <2>1 DEF Children
  <2> QED
    BY <2>2, <2>3
<1> HIDE DEF d, x
<1>7. /\ client' \in [Client -> Clients] /\ client'[c] = d
      /\ \A e \in Client \ {c} : client'[e] = client[e]
  BY <1>1, <1>4, <1>6, Update
<1>8. pipe' \in [Child -> Seq(Client)] /\ pipe'[i] = s /\ \A k \in Child \ {i} : pipe'[k] = pipe[k]
  BY <1>1, <1>4, Update
<1>9. child' \in [Child -> Children] /\ child'[i] = x /\ \A k \in Child \ {i} : child'[k] = child[k]
  BY <1>1, <1>4, <1>6, Update
<1>10. TypeOK'
  BY <1>4, <1>7, <1>8, <1>9, Types DEF IInv, TypeOK, Children, Clients
<1>11. \A k \in Child : \A j \in 1 .. Len(pipe[k]) :
          /\ pipe[k][j] \in Client /\ client[pipe[k][j]].place = "pipe" /\ client[pipe[k][j]].by = k
          /\ \A m \in 1 .. Len(pipe[k]) : pipe[k][j] = pipe[k][m] => j = m
  BY <1>1 DEF IInv, OneOwner
<1>12. client[c].place = "pipe" /\ client[c].by = i
  BY <1>2, <1>3, <1>11
<1>13. OneOwner'
  <2>1. ASSUME NEW k \in Child \ {i}, NEW j \in 1 .. Len(pipe'[k])
        PROVE  /\ client'[pipe'[k][j]].place = "pipe" /\ client'[pipe'[k][j]].by = k
               /\ \A m \in 1 .. Len(pipe'[k]) : pipe'[k][j] = pipe'[k][m] => j = m
    <3>1. pipe'[k] = pipe[k] /\ pipe[k][j] # c
      BY <1>8, <1>11, <1>12, <2>1
    <3> QED
      BY <1>7, <1>11, <2>1, <3>1
  <2>2. ASSUME NEW j \in 1 .. Len(pipe'[i])
        PROVE  /\ client'[pipe'[i][j]].place = "pipe" /\ client'[pipe'[i][j]].by = i
               /\ \A m \in 1 .. Len(pipe'[i]) : pipe'[i][j] = pipe'[i][m] => j = m
    <3>1. /\ pipe'[i] = s /\ Len(s) = Len(pipe[i]) - 1 /\ j \in 1 .. Len(pipe[i]) - 1
          /\ \A m \in 1 .. Len(pipe[i]) - 1 : s[m] = pipe[i][m + 1] /\ m + 1 \in 1 .. Len(pipe[i])
      BY <1>2, <1>3, <1>8, <2>2
    <3>2. s[j] = pipe[i][j + 1] /\ j + 1 # 1 /\ j \in Int
      BY <3>1
    <3>3. s[j] # c
      BY <1>2, <1>3, <1>11, <3>1, <3>2
    <3>4. client'[s[j]].place = "pipe" /\ client'[s[j]].by = i
      BY <1>7, <1>11, <3>1, <3>2, <3>3
    <3>5. \A m \in 1 .. Len(pipe[i]) - 1 : s[j] = s[m] => j + 1 = m + 1
      BY <1>11, <3>1
    <3>6. \A m \in 1 .. Len(pipe[i]) - 1 : j + 1 = m + 1 => j = m
      BY <1>2, <3>2
    <3> QED
      BY <3>1, <3>4, <3>5, <3>6
  <2>3. ASSUME NEW k \in Child, NEW e \in child'[k].active \ {"pipe"}
        PROVE  client'[e].place = "open" /\ client'[e].by = k
    <3>1. e \in child[k].active \ {"pipe"}
      BY <1>6, <1>9, <2>3
    <3>2. e \in Client /\ client[e].place = "open" /\ client[e].by = k
      BY <1>1, <3>1 DEF IInv, OneOwner, Children
    <3> QED
      BY <1>7, <1>12, <3>2
  <2> QED
    BY <2>1, <2>2, <2>3 DEF OneOwner
<1>14. ConnInv'
  BY <1>5, <1>6, <1>7 DEF IInv, ConnInv, Serving
<1>15. RoundInv'
  BY <1>6, <1>8, <1>9 DEF IInv, RoundInv
<1>16. HandlerInv' /\ NoticedInv'
  BY <1>4, <1>6, <1>9, NobodyDies
<1> QED
  BY <1>10, <1>13, <1>14, <1>15, <1>16 DEF IInv

\* A child handles an event of its connection c, which stays open or is closed.
LEMMA EventKeeps ==
    ASSUME IInv, NEW i \in Child, NEW c \in Client, HandleMessage(i, c) \/ HandleClose(i, c)
    PROVE  IInv'
<1>1. child \in [Child -> Children] /\ client \in [Client -> Clients] /\ pipe \in [Child -> Seq(Client)]
  BY Types DEF IInv
<1>2. c \in child[i].active \ {"pipe"} /\ client[c].place = "open" /\ client[c].by = i
  BY ClientAssumption DEF HandleMessage, HandleClose, ClientAssumption, IInv, OneOwner
<1>3. client[c].conn \in Connections /\ Serving(client[c].conn)
  BY <1>1, <1>2 DEF Clients, IInv, ConnInv
<1> DEFINE x == [child[i] EXCEPT !.active = child[i].active \ {c}]
<1>4. PICK d \in Clients :
          /\ client' = [client EXCEPT ![c] = d] /\ d.by = i
          /\ \/ d.place = "open" /\ Serving(d.conn)
             \/ d.place = "closed" /\ Gone(d.conn)
  <2>1. CASE HandleMessage(i, c)
    <3>1. PICK r \in onMessage(client[c].conn) :
              client' = [client EXCEPT ![c] = [client[c] EXCEPT !.conn = r, !.says = "nothing"]]
      BY <1>1, <2>1 DEF HandleMessage
    <3>2. r \in Connections /\ Serving(r)
      BY <1>3, MessageServes
    <3> DEFINE d == [client[c] EXCEPT !.conn = r, !.says = "nothing"]
    <3>3. d \in Clients /\ d.by = i /\ d.place = "open" /\ d.conn = r
      BY <1>1, <1>2, <3>2 DEF Clients
    <3>4. client' = [client EXCEPT ![c] = d]
      BY <3>1
    <3> HIDE DEF d
    <3> QED
      BY <3>2, <3>3, <3>4
  <2>2. CASE HandleClose(i, c)
    <3> DEFINE r == Destroyed(handleClose(client[c].conn))
               d == [client[c] EXCEPT !.place = "closed", !.conn = r]
    <3>1. client' = [client EXCEPT ![c] = d]
      BY <1>1, <2>2 DEF HandleClose
    <3>2. r \in Connections /\ Gone(r)
      BY <1>3, CloseLeaves
    <3> HIDE DEF r
    <3>3. d \in Clients /\ d.by = i /\ d.place = "closed" /\ d.conn = r
      BY <1>1, <1>2, <3>2 DEF Clients
    <3> HIDE DEF d
    <3> QED
      BY <3>1, <3>2, <3>3
  <2> QED
    BY <2>1, <2>2
<1>5. child' = [child EXCEPT ![i] = x] /\ UNCHANGED <<parent, listened, pipe, next_, faults>>
  BY <1>1 DEF HandleMessage, HandleClose
<1>6. x \in Children /\ x.active = child[i].active \ {c} /\ x.at = child[i].at
  BY <1>1 DEF Children
<1> HIDE DEF x
<1>7. /\ client' \in [Client -> Clients] /\ client'[c] = d
      /\ \A e \in Client \ {c} : client'[e] = client[e]
  BY <1>1, <1>4, Update
<1>8. child' \in [Child -> Children] /\ child'[i] = x /\ \A k \in Child \ {i} : child'[k] = child[k]
  BY <1>1, <1>5, <1>6, Update
<1>9. TypeOK'
  BY <1>5, <1>7, <1>8, Types DEF IInv, TypeOK, Children, Clients
<1>10. OneOwner'
  <2>1. ASSUME NEW k \in Child, NEW j \in 1 .. Len(pipe[k])
        PROVE  client'[pipe[k][j]].place = "pipe" /\ client'[pipe[k][j]].by = k
    BY <1>1, <1>2, <1>7 DEF IInv, OneOwner
  <2>2. ASSUME NEW k \in Child, NEW e \in child'[k].active \ {"pipe"}
        PROVE  client'[e].place = "open" /\ client'[e].by = k
    <3>1. e \in child[k].active \ {"pipe"} /\ (k = i => e # c)
      BY <1>6, <1>8, <2>2
    <3>2. e \in Client /\ client[e].place = "open" /\ client[e].by = k
      BY <1>1, <3>1 DEF IInv, OneOwner, Children
    <3> QED
      BY <1>2, <1>7, <3>1, <3>2
  <2>3. \A k \in Child : \A j, m \in 1 .. Len(pipe[k]) : pipe[k][j] = pipe[k][m] => j = m
    BY DEF IInv, OneOwner
  <2> QED
    BY <1>5, <2>1, <2>2, <2>3 DEF OneOwner
<1>11. ConnInv'
  BY <1>4, <1>7 DEF IInv, ConnInv, Serving, Gone
<1>12. RoundInv'
  BY <1>5, <1>6, <1>8 DEF IInv, RoundInv
<1>13. HandlerInv' /\ NoticedInv'
  BY <1>5, <1>6, <1>8, NobodyDies
<1> QED
  BY <1>9, <1>10, <1>11, <1>12, <1>13 DEF IInv

\* The world: a client connects, or it says something.
LEMMA WorldKeeps ==
    ASSUME IInv, NEW c \in Client,
           Connect(c) \/ \E what \in {"request", "bye"} : Says(c, what)
    PROVE  IInv'
<1>1. client \in [Client -> Clients] /\ pipe \in [Child -> Seq(Client)]
      /\ child \in [Child -> Children]
  BY Types DEF IInv
<1>2. UNCHANGED <<parent, child, listened, pipe, next_, faults>>
  BY DEF Connect, Says
<1>3. HandlerInv' /\ NoticedInv' /\ RoundInv'
  BY <1>2, NobodyDies DEF IInv, RoundInv
<1>4. CASE Connect(c)
  <2> DEFINE d == [client[c] EXCEPT !.place = "backlog"]
  <2>1. client' = [client EXCEPT ![c] = d] /\ client[c].place = "away"
    BY <1>4 DEF Connect
  <2>2. d \in Clients /\ d.place = "backlog" /\ d.conn = client[c].conn
    BY <1>1 DEF Clients
  <2> HIDE DEF d
  <2>3. client' \in [Client -> Clients] /\ client'[c] = d /\ \A e \in Client \ {c} : client'[e] = client[e]
    BY <1>1, <2>1, <2>2, Update
  <2>4. TypeOK'
    BY <1>2, <2>3, Types DEF IInv, TypeOK, Clients
  <2>5. ConnInv'
    BY <2>2, <2>3 DEF IInv, ConnInv
  <2>6. \A k \in Child : \A j \in 1 .. Len(pipe[k]) : pipe[k][j] \in Client \ {c}
    BY <1>1, <2>1 DEF IInv, OneOwner
  <2>7. \A k \in Child : child[k].active \ {"pipe"} \subseteq Client \ {c}
    <3> SUFFICES ASSUME NEW k \in Child, NEW e \in child[k].active \ {"pipe"}
                 PROVE  e \in Client \ {c}
      OBVIOUS
    <3>1. child[k] \in Children
      BY <1>1
    <3>2. e \in Client
      BY <3>1 DEF Children
    <3>3. client[e].place = "open"
      BY <3>2, ClientAssumption DEF IInv, OneOwner, ClientAssumption
    <3> QED
      BY <2>1, <3>2, <3>3
  <2>8. OneOwner'
    BY <1>2, <2>3, <2>6, <2>7 DEF IInv, OneOwner
  <2> QED
    BY <1>3, <2>4, <2>5, <2>8 DEF IInv
<1>5. ASSUME NEW what \in {"request", "bye"}, Says(c, what)
      PROVE  IInv'
  <2> DEFINE d == [client[c] EXCEPT !.says = what]
  <2>1. client' = [client EXCEPT ![c] = d]
    BY <1>5 DEF Says
  <2>2. d \in Clients /\ d.place = client[c].place /\ d.by = client[c].by /\ d.conn = client[c].conn
    BY <1>1 DEF Clients
  <2> HIDE DEF d
  <2>3. client' \in [Client -> Clients] /\ client'[c] = d /\ \A e \in Client \ {c} : client'[e] = client[e]
    BY <1>1, <2>1, <2>2, Update
  <2>4. TypeOK'
    BY <1>2, <2>3, Types DEF IInv, TypeOK, Clients
  <2>5. OneOwner' /\ ConnInv'
    BY <1>2, <2>2, <2>3, NothingMoves
  <2> QED
    BY <1>3, <2>4, <2>5 DEF IInv
<1> QED
  BY <1>4, <1>5
-----------------------------------------------------------------------------
LEMMA InitHolds == Init => IInv
<1> SUFFICES ASSUME Init PROVE IInv
  OBVIOUS
<1>1. 0 \in 0 .. N /\ 0 \in 0 .. N - 1 /\ 0 \in 0 .. MaxFaults
  BY ProcessNumAssumption, MaxFaultsAssumption DEF ProcessNumAssumption, MaxFaultsAssumption
<1>2. << >> \in Seq(Client) /\ Len(<< >>) = 0
  OBVIOUS
<1>3. parent \in Parents /\ parent.pids = {}
  BY <1>1 DEF Init, Parents
<1>4. child \in [Child -> Children] /\ \A i \in Child : child[i].active = {} /\ child[i].at = "none"
  BY DEF Init, Children
<1>5. client \in [Client -> Clients] /\ \A c \in Client : client[c].place = "away" /\ ~client[c].conn.failed
  <2>1. NewConnection \in Connections /\ ~NewConnection.failed
    BY EstablishedServes DEF NewConnection
  <2> HIDE DEF NewConnection
  <2> QED
    BY <1>1, <2>1 DEF Init, Clients
<1>6. pipe \in [Child -> Seq(Client)] /\ \A i \in Child : pipe[i] = << >>
  BY <1>2 DEF Init
<1>7. TypeOK
  BY <1>1, <1>3, <1>4, <1>5, <1>6, Types DEF Init
<1>8. OneOwner
  BY <1>2, <1>4, <1>6 DEF OneOwner
<1>9. ConnInv /\ RoundInv /\ HandlerInv /\ NoticedInv
  BY <1>3, <1>4, <1>5 DEF ConnInv, RoundInv, HandlerInv, NoticedInv
<1> QED
  BY <1>7, <1>8, <1>9 DEF IInv

LEMMA StepKeeps == IInv /\ [Next]_vars => IInv'
<1> SUFFICES ASSUME IInv, [Next]_vars PROVE IInv'
  OBVIOUS
<1>1. CASE UNCHANGED vars
  <2>1. UNCHANGED <<parent, child, listened, pipe, client, next_, faults>>
    BY <1>1 DEF vars
  <2>2. TypeOK'
    BY <2>1 DEF IInv, TypeOK
  <2>3. OneOwner' /\ ConnInv' /\ RoundInv'
    BY <2>1, NothingMoves
  <2>4. HandlerInv' /\ NoticedInv'
    BY <2>1, NobodyDies
  <2> QED
    BY <2>2, <2>3, <2>4 DEF IInv
<1>2. CASE Next
  BY <1>2, ParentKeeps, LeaveKeeps, ForkKeeps, StartKeeps, PollsKeeps, EndKeeps, ReceiveKeeps,
     EventKeeps, AcceptKeeps, WorldKeeps DEF Next
<1> QED
  BY <1>1, <1>2

\* The inductive invariant.
THEOREM Invariance == Spec => []IInv
  BY InitHolds, StepKeeps, PTL DEF Spec

\* For any number of children and clients, in multiProcess1 or with the updateChannel of
\* multiProcess2, with children that crash and signals at any moment: no assertion of a
\* connection fails, a closed one has left the map and epoll, a descriptor is in one place,
\* and the death of every child but the first is noticed.
THEOREM ClosesWell == Spec => []ClosesCleanly
<1>1. IInv => ClosesCleanly
  BY DEF IInv, NoticedInv, ConnInv, Gone, ClosesCleanly
<1> QED
  BY <1>1, Invariance, PTL

-------------------------------------------------------------------------------
\* Descriptors.

\* What a parent with k children has at its numbers: its first four files close up again
\* after each fork and each accept.
Own(n, k) ==
    IF n = 0 THEN EpollOf(0)
    ELSE IF n = 1 THEN TimerOf(0)
    ELSE IF n = 2 THEN Listening
    ELSE IF n <= 2 + k THEN ParentEnd(n - 2)
    ELSE NoFile

\* The next number it gets.
NextNumber == forked + 3

\* The last Socket on the way to sendFd has the number of a client.
Carries == sockets # << >> /\ (at[0] = "accepting" \/ Len(sockets) = Depth)

ParentInv ==
    /\ at[0] \in {"forking", "looping", "accepting", "returning", "gone"}
    /\ at[0] = "gone" => table[0] = EmptyTable
    /\ at[0] \in {"forking", "looping", "gone"} => sockets = << >>
    /\ at[0] = "returning" => sockets # << >>
    /\ Len(sockets) <= Depth
    /\ \A k \in 1 .. Len(sockets) : k < Len(sockets) => sockets[k] = None
    /\ at[0] = "forking" => forked < processNum_
    /\ at[0] \in {"looping", "accepting", "returning"} => forked = processNum_
    /\ at[0] # "gone" => \A n \in Number : n # NextNumber => table[0][n] = Own(n, forked)
    /\ Carries => /\ sockets[Len(sockets)] = NextNumber
                  /\ \E c \in Visitor : /\ table[0][NextNumber] = OfClient(c)
                                       /\ visitor[c] \in {"open", "hungUp"}
    /\ ~Carries => /\ table[0][NextNumber] = NoFile
                   /\ sockets # << >> => sockets[Len(sockets)] = None

SubInv(i) ==
    /\ at[i] \in {"none", "new", "looping", "ending", "undefined", "gone"}
    /\ i > forked => at[i] = "none"
    /\ at[i] \in {"none", "gone"} => table[i] = EmptyTable /\ flight[i] = << >>
    /\ at[i] = "new" => \A n \in Number :
          table[i][n] = IF n = i + 3 THEN ChildEnd(i) ELSE Own(n, i)
    /\ \A j \in SubProcess, n \in Number : table[i][n] = ChildEnd(j) => i = j
    /\ \A n \in Number, c \in Visitor : table[i][n] = OfClient(c) <=> serving[i][c] = n

\* A client is in a child, or on its way there.
Serves(i, c) == serving[i][c] # None

Flies(i, c) == \E a \in 1 .. Len(flight[i]) : flight[i][a] = c

\* The parent has the only number of it.
Waiting(c) ==
    \/ visitor[c] \in {"away", "backlog"}
    \/ at[0] = "accepting" /\ table[0][NextNumber] = OfClient(c)

ClientInv(c) ==
    /\ Waiting(c) => \A i \in SubProcess : ~Serves(i, c) /\ ~Flies(i, c)
    /\ \A i, j \in SubProcess : /\ Serves(i, c) => ~Flies(j, c)
                                /\ Serves(i, c) /\ Serves(j, c) => i = j
                                /\ Flies(i, c) /\ Flies(j, c) => i = j

OnceInFlight(i) ==
    \A a, b \in 1 .. Len(flight[i]) : flight[i][a] = flight[i][b] => a = b

DescriptorsInv ==
    /\ DescriptorsTypeOK
    /\ ~stray
    /\ ParentInv
    /\ \A i \in SubProcess : SubInv(i) /\ OnceInFlight(i)
    /\ \A c \in Visitor : ClientInv(c)

-------------------------------------------------------------------------------
\* Tables.

\* Every set of natural numbers has a least element.
LEMMA LeastNumber ==
    ASSUME NEW T, T \subseteq Nat, T # {}
    PROVE  \E x \in T : \A y \in T : x <= y
<1>1. PICK x \in T : \A y \in T : <<y, x>> \notin OpToRel(<, Nat)
  BY WFMin, NatLessThanWellFounded
<1>2. \A y \in T : ~(y < x)
  BY <1>1 DEF OpToRel
<1> QED
  BY <1>2

LEMMA NumberFacts ==
    /\ Number \subseteq Nat /\ None \notin Number
    /\ \A i \in SubProcess : i \in 1 .. MaxProcesses /\ i + 3 \in Number /\ i \in Process /\ i # 0
    /\ 0 \in Number /\ 1 \in Number /\ 2 \in Number /\ 3 \in Number /\ 0 \in Process
    /\ 0 \notin SubProcess
    /\ \A p \in Process : p = 0 \/ p \in SubProcess
<1>1. MaxProcesses \in Nat /\ MaxProcesses >= 1 /\ Spare \in Nat /\ Spare >= 4
  BY MaxProcessesAssumption, SpareAssumption
<1> QED
  BY <1>1 DEF Number, None, SubProcess, Process

Table == [Number -> File]

LEMMA FileFacts ==
    /\ NoFile \in File /\ EmptyTable \in Table
    /\ \A n \in Number : EmptyTable[n] = NoFile
    /\ \A c \in Visitor : OfClient(c) \in File
    /\ \A i \in SubProcess : ChildEnd(i) \in File /\ ParentEnd(i) \in File
    /\ \A p \in Process : EpollOf(p) \in File /\ TimerOf(p) \in File
    /\ Listening \in File
  BY DEF File, EmptyTable, Table

LEMMA FileKinds ==
    /\ NoFile[1] = "none" /\ Listening[1] = "listen"
    /\ \A p : EpollOf(p)[1] = "epoll" /\ TimerOf(p)[1] = "timer"
    /\ \A i : ParentEnd(i)[1] = "parentEnd" /\ ParentEnd(i)[2] = i
    /\ \A i : ChildEnd(i)[1] = "childEnd" /\ ChildEnd(i)[2] = i
    /\ \A c : OfClient(c)[1] = "client" /\ OfClient(c)[2] = c
  BY DEF NoFile, Listening, EpollOf, TimerOf, ParentEnd, ChildEnd, OfClient

LEMMA OwnFacts ==
    ASSUME NEW k \in 0 .. MaxProcesses, NEW n \in Number
    PROVE  /\ Own(n, k) \in File
           /\ Own(n, k) = NoFile <=> n > 2 + k
           /\ Own(n, k)[1] # "client" /\ Own(n, k)[1] # "childEnd"
<1>1. MaxProcesses \in Nat /\ n \in Nat /\ k \in Nat /\ 0 \in Process
  BY MaxProcessesAssumption, NumberFacts
<1>2. CASE n \in {0, 1, 2}
  <2>1. Own(n, k) \in {EpollOf(0), TimerOf(0), Listening}
    BY <1>2 DEF Own
  <2>2. ~(n > 2 + k)
    BY <1>1, <1>2
  <2> QED
    BY <1>1, <2>1, <2>2, FileFacts, FileKinds
<1>3. CASE n > 2 /\ n <= 2 + k
  <2>1. n - 2 \in SubProcess
    BY <1>1, <1>3 DEF SubProcess
  <2>2. Own(n, k) = ParentEnd(n - 2)
    BY <1>1, <1>3 DEF Own
  <2>3. ParentEnd(n - 2) \in File
    BY <2>1, FileFacts
  <2>4. ParentEnd(n - 2)[1] = "parentEnd" /\ NoFile[1] = "none"
    BY FileKinds
  <2>5. ~(n > 2 + k)
    BY <1>1, <1>3
  <2> QED
    BY <2>2, <2>3, <2>4, <2>5
<1>4. CASE n > 2 + k
  <2>1. Own(n, k) = NoFile
    BY <1>1, <1>4 DEF Own
  <2> QED
    BY <1>4, <2>1, FileFacts, FileKinds
<1>5. n \in {0, 1, 2} \/ (n > 2 /\ n <= 2 + k) \/ n > 2 + k
  BY <1>1
<1> QED
  BY <1>2, <1>3, <1>4, <1>5

LEMMA LowestIs ==
    ASSUME NEW t, NEW m \in Free(t), \A n \in Free(t) : m <= n
    PROVE  Lowest(t) = m
<1>1. \A x \in Free(t) : (\A n \in Free(t) : x <= n) => x = m
  BY NumberFacts DEF Free
<1>2. Lowest(t) = CHOOSE x \in Free(t) : \A n \in Free(t) : x <= n
  BY DEF Lowest, Min
<1> QED
  BY <1>1, <1>2

LEMMA LowestIsFree ==
    ASSUME NEW t, ~Full(t)
    PROVE  Lowest(t) \in Number /\ t[Lowest(t)] = NoFile
<1>1. Free(t) \subseteq Nat /\ Free(t) # {}
  BY NumberFacts DEF Free, Full
<1>2. PICK m \in Free(t) : \A n \in Free(t) : m <= n
  BY <1>1, LeastNumber
<1>3. Lowest(t) = m
  BY <1>2, LowestIs
<1> QED
  BY <1>3 DEF Free

LEMMA OpenedFacts ==
    ASSUME NEW t \in Table, NEW f \in File, NEW m \in Number, Lowest(t) = m
    PROVE  /\ Opened(t, f) \in Table
           /\ Opened(t, f)[m] = f
           /\ \A n \in Number : n # m => Opened(t, f)[n] = t[n]
  BY DEF Opened, Table

LEMMA ClosedFacts ==
    ASSUME NEW t \in Table, NEW m \in Number
    PROVE  /\ Closed(t, m) \in Table
           /\ Closed(t, m)[m] = NoFile
           /\ \A n \in Number : n # m => Closed(t, m)[n] = t[n]
  BY FileFacts DEF Closed, Table

LEMMA WithoutFacts ==
    ASSUME NEW t \in Table, NEW S
    PROVE  /\ Without(t, S) \in Table
           /\ \A n \in Number : Without(t, S)[n] = IF t[n] \in S THEN NoFile ELSE t[n]
  BY FileFacts DEF Without, Table

-------------------------------------------------------------------------------
\* What does not change.

LEMMA DescriptorsFacts ==
    ASSUME DescriptorsInv
    PROVE  /\ DescriptorsTypeOK /\ stray = FALSE /\ ParentInv
           /\ \A i \in SubProcess : SubInv(i) /\ OnceInFlight(i)
           /\ \A c \in Visitor : ClientInv(c)
           /\ table \in [Process -> Table]
           /\ forked \in 0 .. MaxProcesses /\ forked \in Nat /\ forked <= processNum_
           /\ processNum_ \in 1 .. MaxProcesses /\ processNum_ \in Nat
           /\ NextNumber \in Number /\ NextNumber = forked + 3
<1>1. DescriptorsTypeOK /\ stray = FALSE
  BY DEF DescriptorsInv, DescriptorsTypeOK
<1>2. processNum_ \in 1 .. MaxProcesses /\ forked \in 0 .. processNum_
  BY <1>1 DEF DescriptorsTypeOK, SubProcess
<1>3. MaxProcesses \in Nat /\ Spare \in Nat /\ Spare >= 4
  BY MaxProcessesAssumption, SpareAssumption
<1>4. /\ processNum_ \in Nat /\ forked \in Nat /\ forked <= processNum_
      /\ forked \in 0 .. MaxProcesses
  BY <1>2, <1>3
<1>5. NextNumber \in Number /\ NextNumber = forked + 3
  BY <1>2, <1>3, <1>4 DEF NextNumber, Number
<1>6. table \in [Process -> Table]
  BY <1>1 DEF DescriptorsTypeOK, Table
<1> QED
  BY <1>1, <1>2, <1>4, <1>5, <1>6 DEF DescriptorsInv

LEMMA ParentSame ==
    ASSUME ParentInv, processNum_' = processNum_, at'[0] = at[0], table'[0] = table[0],
           forked' = forked, sockets' = sockets,
           \A c \in Visitor : visitor[c] \in {"open", "hungUp"} => visitor'[c] \in {"open", "hungUp"}
    PROVE  ParentInv'
<1>1. Carries' = Carries /\ NextNumber' = NextNumber
  BY DEF Carries, NextNumber
<1>2. Carries => \E c \in Visitor : /\ table'[0][NextNumber] = OfClient(c)
                                    /\ visitor'[c] \in {"open", "hungUp"}
  BY DEF ParentInv
<1>3. Carries => sockets[Len(sockets)] = NextNumber
  BY DEF ParentInv
<1>4. ~Carries => table[0][NextNumber] = NoFile /\ (sockets # << >> => sockets[Len(sockets)] = None)
  BY DEF ParentInv
<1>5. at[0] # "gone" => \A n \in Number : n # NextNumber => table[0][n] = Own(n, forked)
  BY DEF ParentInv
<1> HIDE DEF Carries, NextNumber
<1>6. /\ (Carries => /\ sockets[Len(sockets)] = NextNumber
                     /\ \E c \in Visitor : /\ table[0][NextNumber] = OfClient(c)
                                          /\ visitor[c] \in {"open", "hungUp"})'
      /\ (~Carries => /\ table[0][NextNumber] = NoFile
                      /\ sockets # << >> => sockets[Len(sockets)] = None)'
      /\ (at[0] # "gone" => \A n \in Number : n # NextNumber => table[0][n] = Own(n, forked))'
  BY <1>1, <1>2, <1>3, <1>4, <1>5
<1> QED
  BY <1>6 DEF ParentInv

LEMMA SubSame ==
    ASSUME NEW i \in SubProcess, SubInv(i), at'[i] = at[i], table'[i] = table[i],
           i > forked' => i > forked, serving'[i] = serving[i], flight'[i] = flight[i]
    PROVE  SubInv(i)'
<1>1. /\ \A n \in Number : table'[i][n] = table[i][n]
      /\ \A c \in Visitor : serving'[i][c] = serving[i][c]
  OBVIOUS
<1>2. \A n \in Number, c \in Visitor : table'[i][n] = OfClient(c) <=> serving'[i][c] = n
  BY <1>1 DEF SubInv
<1>3. \A j \in SubProcess, n \in Number : table'[i][n] = ChildEnd(j) => i = j
  BY <1>1 DEF SubInv
<1>4. at'[i] = "new" => \A n \in Number :
         table'[i][n] = IF n = i + 3 THEN ChildEnd(i) ELSE Own(n, i)
  BY <1>1 DEF SubInv
<1>5. /\ at[i] \in {"none", "new", "looping", "ending", "undefined", "gone"}
      /\ i > forked => at[i] = "none"
      /\ at[i] \in {"none", "gone"} => table[i] = EmptyTable /\ flight[i] = << >>
  BY DEF SubInv
<1> QED
  BY <1>2, <1>3, <1>4, <1>5 DEF SubInv

LEMMA ClientSame ==
    ASSUME NEW c \in Visitor, ClientInv(c), Waiting(c)' => Waiting(c),
           \A i \in SubProcess : Serves(i, c)' => Serves(i, c),
           \A i \in SubProcess : Flies(i, c)' => Flies(i, c)
    PROVE  ClientInv(c)'
  BY DEF ClientInv

LEMMA FlightSame ==
    ASSUME NEW i \in SubProcess, OnceInFlight(i), flight'[i] = flight[i]
    PROVE  OnceInFlight(i)'
  BY DEF OnceInFlight

-------------------------------------------------------------------------------
\* The parent.

LEMMA OwnNext ==
    ASSUME NEW k \in Nat
    PROVE  /\ Own(k + 3, k + 1) = ParentEnd(k + 1)
           /\ \A n \in Nat : n # k + 3 => Own(n, k + 1) = Own(n, k)
<1>1. Own(k + 3, k + 1) = ParentEnd(k + 1)
  <2>1. k + 3 # 0 /\ k + 3 # 1 /\ k + 3 # 2 /\ k + 3 <= 2 + (k + 1) /\ (k + 3) - 2 = k + 1
    OBVIOUS
  <2> QED
    BY <2>1 DEF Own
<1>2. ASSUME NEW n \in Nat, n # k + 3 PROVE Own(n, k + 1) = Own(n, k)
  <2>1. n <= 2 + (k + 1) <=> n <= 2 + k
    BY <1>2
  <2> QED
    BY <2>1 DEF Own
<1> QED
  BY <1>1, <1>2

\* The numbers that are free are those that follow.
LEMMA NextIsLowest ==
    ASSUME DescriptorsInv, at[0] # "gone", ~Carries
    PROVE  /\ Lowest(table[0]) = NextNumber
           /\ table[0] \in Table
           /\ \A n \in Number : table[0][n] = Own(n, forked)
<1>1. ParentInv /\ NextNumber \in Number /\ NextNumber = forked + 3
  BY DescriptorsFacts
<1>2. forked \in 0 .. MaxProcesses /\ forked \in Nat /\ processNum_ \in Nat /\ forked <= processNum_
  BY DescriptorsFacts
<1>3. ASSUME NEW n \in Number PROVE table[0][n] = Own(n, forked)
  <2>1. CASE n = NextNumber
    <3>1. table[0][n] = NoFile
      BY <1>1, <2>1 DEF ParentInv
    <3>2. n > 2 + forked
      BY <1>1, <1>2, <2>1
    <3> QED
      BY <1>2, <3>1, <3>2, OwnFacts
  <2>2. CASE n # NextNumber
    BY <1>1, <2>2 DEF ParentInv
  <2> QED
    BY <2>1, <2>2
<1>4. NextNumber < OpenMax
  BY <1>1, <1>2, SpareAssumption DEF OpenMax
<1>5. table[0][NextNumber] = NoFile
  BY <1>1 DEF ParentInv
<1>6. NextNumber \in Free(table[0])
  BY <1>1, <1>4, <1>5 DEF Free
<1>7. ASSUME NEW n \in Free(table[0]) PROVE NextNumber <= n
  <2>1. n \in Number /\ Own(n, forked) = NoFile
    BY <1>3 DEF Free
  <2>2. n > 2 + forked /\ n \in Nat
    BY <1>2, <2>1, OwnFacts, NumberFacts
  <2> QED
    BY <1>1, <1>2, <2>2
<1>8. table[0] \in Table
  BY DescriptorsFacts, NumberFacts
<1> QED
  BY <1>3, <1>6, <1>7, <1>8, LowestIs

LEMMA CreateKeeps ==
    ASSUME DescriptorsInv, NEW i \in SubProcess, CreateChildProcess(i)
    PROVE  DescriptorsInv'
<1>1. /\ at[0] = "forking" /\ forked < processNum_ /\ i = forked + 1
      /\ forked' = i
      /\ at' = [at EXCEPT ![i] = "new", ![0] = IF i = processNum_ THEN "looping" ELSE @]
      /\ processNum_' = processNum_ /\ sockets' = sockets /\ serving' = serving
      /\ flight' = flight /\ visitor' = visitor /\ turn' = turn /\ stray' = stray
  BY DEF CreateChildProcess
<1>2. PICK u : u = Opened(table[0], ParentEnd(i))
  OBVIOUS
<1>3. PICK t : t = Opened(u, ChildEnd(i))
  OBVIOUS
<1>4. PICK w : w = Without(t, {ChildEnd(i)})
  OBVIOUS
<1>5. table' = [table EXCEPT ![0] = w, ![i] = t]
  BY <1>2, <1>3, <1>4 DEF CreateChildProcess
<1>6. /\ i \in Nat /\ i # 0 /\ i \in Process /\ 0 \in Process /\ i + 3 \in Number /\ i \in 0 .. MaxProcesses
      /\ Number \subseteq Nat
  BY NumberFacts, MaxProcessesAssumption DEF SubProcess
<1>7. /\ forked \in Nat /\ processNum_ \in Nat /\ ParentInv /\ DescriptorsTypeOK /\ stray = FALSE
      /\ NextNumber = forked + 3 /\ NextNumber \in Number
      /\ table \in [Process -> Table]
  BY DescriptorsFacts
<1>8. sockets = << >> /\ ~Carries
  BY <1>1, <1>7 DEF ParentInv, Carries
<1>9. /\ Lowest(table[0]) = NextNumber /\ table[0] \in Table
      /\ \A n \in Number : table[0][n] = Own(n, forked)
  BY <1>1, <1>8, NextIsLowest
<1>10. u \in Table /\ \A n \in Number : u[n] = Own(n, i)
  <2>1. ParentEnd(i) \in File
    BY FileFacts
  <2>2. /\ u \in Table /\ u[NextNumber] = ParentEnd(i)
        /\ \A n \in Number : n # NextNumber => u[n] = table[0][n]
    BY <1>2, <1>7, <1>9, <2>1, OpenedFacts
  <2>3. /\ Own(NextNumber, i) = ParentEnd(i)
        /\ \A n \in Number : n # NextNumber => Own(n, i) = Own(n, forked)
    BY <1>1, <1>6, <1>7, OwnNext
  <2> QED
    BY <1>9, <2>2, <2>3
<1>11. Lowest(u) = i + 3
  <2>1. i + 3 < OpenMax
    BY <1>1, <1>6, <1>7, SpareAssumption DEF OpenMax
  <2>2. \A n \in Number : u[n] = NoFile <=> n > 2 + i
    BY <1>6, <1>10, OwnFacts
  <2>3. i + 3 \in Free(u)
    BY <1>6, <2>1, <2>2 DEF Free
  <2>4. \A n \in Free(u) : i + 3 <= n
    BY <1>6, <2>2 DEF Free
  <2> QED
    BY <2>3, <2>4, LowestIs
<1>12. t \in Table /\ \A n \in Number : t[n] = IF n = i + 3 THEN ChildEnd(i) ELSE Own(n, i)
  BY <1>3, <1>6, <1>10, <1>11, FileFacts, OpenedFacts
<1>13. w \in Table /\ \A n \in Number : w[n] = Own(n, i)
  <2>1. w \in Table /\ \A n \in Number : w[n] = IF t[n] \in {ChildEnd(i)} THEN NoFile ELSE t[n]
    BY <1>4, <1>12, WithoutFacts
  <2>2. ASSUME NEW n \in Number PROVE w[n] = Own(n, i)
    <3>1. CASE n = i + 3
      <4>1. n > 2 + i
        BY <1>6, <3>1
      <4>2. Own(n, i) = NoFile
        BY <1>6, <4>1, OwnFacts
      <4> QED
        BY <1>12, <2>1, <3>1, <4>2
    <3>2. CASE n # i + 3
      <4>1. Own(n, i) # ChildEnd(i)
        BY <1>6, OwnFacts, FileKinds
      <4> QED
        BY <1>12, <2>1, <3>2, <4>1
    <3> QED
      BY <3>1, <3>2
  <2> QED
    BY <2>1, <2>2
<1>14. /\ table'[0] = w /\ table'[i] = t /\ table' \in [Process -> Table]
       /\ \A p \in Process : p # 0 /\ p # i => table'[p] = table[p]
  BY <1>5, <1>6, <1>7, <1>12, <1>13
<1>15. /\ at'[i] = "new" /\ at'[0] = (IF i = processNum_ THEN "looping" ELSE "forking")
       /\ \A p \in Process : p # 0 /\ p # i => at'[p] = at[p]
       /\ at' \in [Process -> {"none", "forking", "new", "looping", "accepting", "returning",
                               "ending", "undefined", "gone"}]
  BY <1>1, <1>6, <1>7 DEF DescriptorsTypeOK
<1>16. DescriptorsTypeOK'
  <2>1. forked' \in 0 .. processNum_'
    BY <1>1, <1>7
  <2> QED
    BY <1>1, <1>7, <1>14, <1>15, <2>1 DEF DescriptorsTypeOK, Table
<1>17. NextNumber' = i + 3 /\ ~Carries'
  BY <1>1, <1>8 DEF NextNumber, Carries
<1>18. ParentInv'
  <2>1. table'[0][NextNumber'] = NoFile
    <3>1. i + 3 > 2 + i
      BY <1>6
    <3> QED
      BY <1>6, <1>13, <1>14, <1>17, <3>1, OwnFacts
  <2>2. /\ at'[0] \in {"forking", "looping"}
        /\ at'[0] = "forking" => forked' < processNum_'
        /\ at'[0] = "looping" => forked' = processNum_'
    BY <1>1, <1>7, <1>15
  <2>3. Len(sockets') = 0 /\ sockets' = << >> /\ Len(sockets') <= Depth
    BY <1>1, <1>8 DEF Depth
  <2>4. \A n \in Number : table'[0][n] = Own(n, forked')
    BY <1>1, <1>13, <1>14
  <2>5. /\ \A k \in 1 .. Len(sockets') : k < Len(sockets') => sockets'[k] = None
        /\ at'[0] # "gone" /\ at'[0] # "returning" /\ at'[0] # "accepting"
    BY <2>2, <2>3
  <2> QED
    BY <1>17, <2>1, <2>2, <2>3, <2>4, <2>5 DEF ParentInv
<1>19. ASSUME NEW j \in SubProcess PROVE SubInv(j)' /\ OnceInFlight(j)'
  <2>1. SubInv(j) /\ OnceInFlight(j)
    BY DescriptorsFacts
  <2>2. OnceInFlight(j)'
    BY <1>1, <2>1, FlightSame
  <2>3. CASE j # i
    <3>1. j \in Nat /\ j \in Process /\ j # 0
      BY NumberFacts DEF SubProcess
    <3>2. j > forked' => j > forked
      BY <1>1, <1>7, <3>1
    <3>3. at'[j] = at[j] /\ table'[j] = table[j]
      BY <1>14, <1>15, <2>3, <3>1
    <3> QED
      BY <1>1, <2>1, <2>2, <3>2, <3>3, SubSame
  <2>4. CASE j = i
    <3>1. i > forked
      BY <1>1, <1>7
    <3>2. table[i] = EmptyTable
      BY <2>1, <2>4, <3>1 DEF SubInv
    <3>3. ASSUME NEW n \in Number, NEW c \in Visitor PROVE serving[i][c] # n
      <4>1. EmptyTable[n] = NoFile /\ NoFile # OfClient(c)
        BY FileFacts, FileKinds
      <4> QED
        BY <2>1, <2>4, <3>2, <4>1 DEF SubInv
    <3>0. \A n \in Number : t[n] = ChildEnd(i) \/ (t[n][1] # "client" /\ t[n][1] # "childEnd")
      BY <1>6, <1>12, OwnFacts
    <3>4. \A n \in Number, c \in Visitor : t[n] # OfClient(c)
      BY <3>0, FileKinds
    <3>5. ASSUME NEW k \in SubProcess, NEW n \in Number, t[n] = ChildEnd(k) PROVE k = i
      <4>1. t[n] = ChildEnd(i)
        BY <3>0, <3>5, FileKinds
      <4>2. ChildEnd(k)[2] = k /\ ChildEnd(i)[2] = i
        BY FileKinds
      <4> QED
        BY <3>5, <4>1, <4>2
    <3>6. ~(i > forked')
      BY <1>1, <1>6
    <3> QED
      BY <1>1, <1>12, <1>14, <1>15, <2>2, <2>4, <3>3, <3>4, <3>5, <3>6 DEF SubInv
  <2> QED
    BY <2>3, <2>4
<1>20. ASSUME NEW c \in Visitor PROVE ClientInv(c)'
  <2>1. Waiting(c)' => Waiting(c)
    BY <1>1, <1>15 DEF Waiting
  <2>2. \A j \in SubProcess : (Serves(j, c)' => Serves(j, c)) /\ (Flies(j, c)' => Flies(j, c))
    BY <1>1 DEF Serves, Flies
  <2> QED
    BY <2>1, <2>2, DescriptorsFacts, ClientSame
<1> QED
  BY <1>1, <1>7, <1>16, <1>18, <1>19, <1>20 DEF DescriptorsInv

\* The parent goes from one round to the next.
LEMMA RoundKeeps ==
    ASSUME DescriptorsInv, Poll \/ AcceptFails
    PROVE  DescriptorsInv'
<1>1. /\ \/ at[0] = "looping" /\ at' = [at EXCEPT ![0] = "accepting"]
         \/ at[0] = "accepting" /\ at' = [at EXCEPT ![0] = "looping"]
      /\ at[0] = "accepting" => sockets = << >>
      /\ processNum_' = processNum_ /\ table' = table /\ forked' = forked /\ sockets' = sockets
      /\ serving' = serving /\ flight' = flight /\ visitor' = visitor /\ turn' = turn
      /\ stray' = stray
  BY DEF Poll, AcceptFails
<1>2. DescriptorsTypeOK /\ ParentInv /\ stray = FALSE /\ 0 \in Process
  BY DescriptorsFacts, NumberFacts
<1>3. /\ at'[0] \in {"looping", "accepting"} /\ \A p \in Process : p # 0 => at'[p] = at[p]
      /\ at' \in [Process -> {"none", "forking", "new", "looping", "accepting", "returning",
                              "ending", "undefined", "gone"}]
  BY <1>1, <1>2 DEF DescriptorsTypeOK
<1>4. sockets = << >> /\ ~Carries /\ ~Carries' /\ NextNumber' = NextNumber
  BY <1>1, <1>2 DEF ParentInv, Carries, NextNumber
<1>5. DescriptorsTypeOK'
  BY <1>1, <1>2, <1>3 DEF DescriptorsTypeOK
<1>6. table[0][NextNumber] = NoFile
  BY <1>2, <1>4 DEF ParentInv
<1>7. ParentInv'
  <2>1. /\ \A n \in Number : n # NextNumber => table[0][n] = Own(n, forked)
        /\ forked = processNum_
    BY <1>1, <1>2 DEF ParentInv
  <2>2. Len(sockets') = 0 /\ sockets' = << >> /\ Len(sockets') <= Depth
    BY <1>1, <1>4 DEF Depth
  <2>3. at'[0] # "gone" /\ at'[0] # "returning" /\ at'[0] # "forking"
    BY <1>3
  <2>4. \A k \in 1 .. Len(sockets') : k < Len(sockets') => sockets'[k] = None
    BY <2>2
  <2> QED
    BY <1>1, <1>3, <1>4, <1>6, <2>1, <2>2, <2>3, <2>4 DEF ParentInv
<1>8. ASSUME NEW j \in SubProcess PROVE SubInv(j)' /\ OnceInFlight(j)'
  <2>1. SubInv(j) /\ OnceInFlight(j) /\ j \in Process /\ j # 0
    BY DescriptorsFacts, NumberFacts
  <2>2. at'[j] = at[j]
    BY <1>3, <2>1
  <2> QED
    BY <1>1, <2>1, <2>2, SubSame, FlightSame
<1>9. ASSUME NEW c \in Visitor PROVE ClientInv(c)'
  <2>1. table'[0][NextNumber'] # OfClient(c)
    BY <1>1, <1>4, <1>6, FileKinds
  <2>2. Waiting(c)' => Waiting(c)
    BY <1>1, <2>1 DEF Waiting
  <2>3. \A j \in SubProcess : (Serves(j, c)' => Serves(j, c)) /\ (Flies(j, c)' => Flies(j, c))
    BY <1>1 DEF Serves, Flies
  <2> QED
    BY <2>2, <2>3, DescriptorsFacts, ClientSame
<1> QED
  BY <1>1, <1>2, <1>5, <1>7, <1>8, <1>9 DEF DescriptorsInv

LEMMA AcceptSocketKeeps ==
    ASSUME DescriptorsInv, NEW c \in Visitor, AcceptSocket(c)
    PROVE  DescriptorsInv'
<1>1. /\ at[0] = "accepting" /\ sockets = << >> /\ visitor[c] = "backlog"
      /\ visitor' = [visitor EXCEPT ![c] = "open"]
      /\ sockets' = <<Lowest(table[0])>>
      /\ processNum_' = processNum_ /\ at' = at /\ forked' = forked
      /\ serving' = serving /\ flight' = flight /\ turn' = turn
      /\ stray' = stray
  BY DEF AcceptSocket
<1>2. PICK t : t = Opened(table[0], OfClient(c))
  OBVIOUS
<1>3. table' = [table EXCEPT ![0] = t]
  BY <1>2 DEF AcceptSocket
<1>4. /\ DescriptorsTypeOK /\ ParentInv /\ stray = FALSE /\ 0 \in Process
      /\ NextNumber \in Number /\ table \in [Process -> Table]
  BY DescriptorsFacts, NumberFacts
<1>5. ~Carries
  BY <1>1 DEF Carries
<1>6. /\ Lowest(table[0]) = NextNumber /\ table[0] \in Table
      /\ \A n \in Number : table[0][n] = Own(n, forked)
  BY <1>1, <1>5, NextIsLowest
<1>7. /\ t \in Table /\ t[NextNumber] = OfClient(c)
      /\ \A n \in Number : n # NextNumber => t[n] = Own(n, forked)
  BY <1>2, <1>4, <1>6, FileFacts, OpenedFacts
<1>8. /\ table'[0] = t /\ table' \in [Process -> Table]
      /\ \A p \in Process : p # 0 => table'[p] = table[p]
  BY <1>3, <1>4, <1>7
<1>9. sockets' = <<NextNumber>> /\ NextNumber' = NextNumber
  BY <1>1, <1>6 DEF NextNumber
<1>10. /\ visitor'[c] = "open" /\ \A d \in Visitor : d # c => visitor'[d] = visitor[d]
       /\ visitor' \in [Visitor -> {"away", "backlog", "open", "hungUp"}]
  BY <1>1, <1>4 DEF DescriptorsTypeOK
<1>11. DescriptorsTypeOK'
  <2>1. sockets' \in Seq(Number \union {None})
    BY <1>4, <1>9
  <2> QED
    BY <1>1, <1>4, <1>8, <1>10, <2>1 DEF DescriptorsTypeOK, Table
<1>12. ParentInv'
  <2>1. /\ sockets' # << >> /\ Len(sockets') = 1 /\ sockets'[Len(sockets')] = NextNumber'
        /\ \A k \in 1 .. Len(sockets') : k < Len(sockets') => sockets'[k] = None
        /\ Len(sockets') <= Depth
    BY <1>9 DEF Depth
  <2>2. Carries'
    BY <1>1, <2>1 DEF Carries
  <2>3. table'[0][NextNumber'] = OfClient(c) /\ visitor'[c] \in {"open", "hungUp"}
    BY <1>7, <1>8, <1>9, <1>10
  <2>4. \A n \in Number : n # NextNumber' => table'[0][n] = Own(n, forked')
    BY <1>1, <1>7, <1>8, <1>9
  <2>5. forked' = processNum_' /\ at'[0] = "accepting"
    BY <1>1, <1>4 DEF ParentInv
  <2> QED
    BY <2>1, <2>2, <2>3, <2>4, <2>5 DEF ParentInv
<1>13. ASSUME NEW j \in SubProcess PROVE SubInv(j)' /\ OnceInFlight(j)'
  <2>1. SubInv(j) /\ OnceInFlight(j) /\ j \in Process /\ j # 0
    BY DescriptorsFacts, NumberFacts
  <2>2. table'[j] = table[j]
    BY <1>8, <2>1
  <2> QED
    BY <1>1, <2>1, <2>2, SubSame, FlightSame
<1>14. ASSUME NEW d \in Visitor PROVE ClientInv(d)'
  <2>0. OfClient(c)[2] = c /\ OfClient(d)[2] = d /\ table'[0][NextNumber'] = OfClient(c)
    BY <1>7, <1>8, <1>9, FileKinds
  <2>1. table'[0][NextNumber'] = OfClient(d) => d = c
    BY <2>0
  <2>2. Waiting(d)' => Waiting(d)
    BY <1>1, <1>10, <2>1 DEF Waiting
  <2>3. \A j \in SubProcess : (Serves(j, d)' => Serves(j, d)) /\ (Flies(j, d)' => Flies(j, d))
    BY <1>1 DEF Serves, Flies
  <2> QED
    BY <2>2, <2>3, DescriptorsFacts, ClientSame
<1> QED
  BY <1>1, <1>4, <1>11, <1>12, <1>13, <1>14 DEF DescriptorsInv

LEMMA FrontFacts ==
    ASSUME NEW S, NEW s \in Seq(S), s # << >>
    PROVE  /\ Front(s) \in Seq(S) /\ Len(Front(s)) = Len(s) - 1
           /\ \A k \in 1 .. Len(s) - 1 : Front(s)[k] = s[k]
<1>1. Len(s) \in Nat /\ Len(s) >= 1
  BY EmptySeq
<1> DEFINE f == Front(s)
<1>2. f = SubSeq(s, 1, Len(s) - 1)
  BY DEF Front
<1>3. \A k \in 1 .. Len(s) - 1 : k \in 1 .. Len(s) /\ s[k] \in S
  BY <1>1
<1>4. PICK m \in Int : m = Len(s) - 1
  BY <1>1
<1>5. \A k \in 1 .. m : s[k] \in S
  BY <1>3, <1>4
<1> HIDE DEF f
<1>6. /\ f \in Seq(S) /\ Len(f) = IF 1 <= m THEN m - 1 + 1 ELSE 0
      /\ \A k \in 1 .. m - 1 + 1 : f[k] = s[1 + k - 1]
  BY <1>2, <1>4, <1>5, SubSeqProperties
<1>7. m >= 0 /\ m - 1 + 1 = m /\ \A k \in 1 .. m : 1 + k - 1 = k
  BY <1>1, <1>4
<1> QED
  BY <1>1, <1>4, <1>6, <1>7 DEF f

LEMMA MovedFacts ==
    ASSUME NEW S, NEW s \in Seq(S), s # << >>, None \in S
    PROVE  /\ Moved(s) \in Seq(S) /\ Len(Moved(s)) = Len(s) + 1
           /\ Moved(s)[Len(s) + 1] = s[Len(s)] /\ Moved(s)[Len(s)] = None
           /\ \A k \in 1 .. Len(s) - 1 : Moved(s)[k] = s[k]
<1>1. Len(s) \in Nat /\ Len(s) >= 1
  BY EmptySeq
<1> DEFINE f == Front(s)
           g == f \o <<None>>
<1>2. f \in Seq(S) /\ Len(f) = Len(s) - 1 /\ \A k \in 1 .. Len(s) - 1 : f[k] = s[k]
  BY FrontFacts
<1>3. <<None>> \in Seq(S) /\ Len(<<None>>) = 1 /\ <<None>>[1] = None
  OBVIOUS
<1> HIDE DEF f
<1>4. /\ g \in Seq(S) /\ Len(g) = Len(s) /\ g[Len(s)] = None
      /\ \A k \in 1 .. Len(s) - 1 : g[k] = s[k]
  BY <1>1, <1>2, <1>3, ConcatProperties
<1>5. Moved(s) = Append(g, s[Len(s)]) /\ s[Len(s)] \in S
  BY <1>1 DEF Moved, Last, f
<1> HIDE DEF g
<1> QED
  BY <1>1, <1>4, <1>5

LEMMA MoveKeeps ==
    ASSUME DescriptorsInv, Move
    PROVE  DescriptorsInv'
<1>1. /\ at[0] = "accepting" /\ sockets # << >> /\ Len(sockets) < Depth
      /\ sockets' = Moved(sockets)
      /\ processNum_' = processNum_ /\ at' = at /\ table' = table /\ forked' = forked
      /\ serving' = serving /\ flight' = flight /\ visitor' = visitor /\ turn' = turn
      /\ stray' = stray
  BY DEF Move
<1>2. DescriptorsTypeOK /\ ParentInv /\ stray = FALSE /\ sockets \in Seq(Number \union {None})
  BY DescriptorsFacts DEF DescriptorsTypeOK
<1>3. /\ sockets' \in Seq(Number \union {None}) /\ Len(sockets') = Len(sockets) + 1
      /\ sockets'[Len(sockets) + 1] = sockets[Len(sockets)] /\ sockets'[Len(sockets)] = None
      /\ \A k \in 1 .. Len(sockets) - 1 : sockets'[k] = sockets[k]
  BY <1>1, <1>2, MovedFacts
<1>4. Len(sockets) \in Nat /\ Len(sockets) >= 1
  BY <1>1, <1>2, EmptySeq
<1>5. DescriptorsTypeOK'
  BY <1>1, <1>2, <1>3 DEF DescriptorsTypeOK
<1>6. Carries /\ Carries' /\ NextNumber' = NextNumber
  <2>1. sockets' # << >>
    BY <1>3, <1>4
  <2> QED
    BY <1>1, <2>1 DEF Carries, NextNumber
<1>7. ParentInv'
  <2>6. sockets[Len(sockets)] = NextNumber
    BY <1>2, <1>6 DEF ParentInv
  <2>7. \A k \in 1 .. Len(sockets) : k < Len(sockets) => sockets[k] = None
    BY <1>2 DEF ParentInv
  <2>1. /\ forked = processNum_
        /\ \A n \in Number : n # NextNumber => table[0][n] = Own(n, forked)
        /\ \E c \in Visitor : /\ table[0][NextNumber] = OfClient(c)
                             /\ visitor[c] \in {"open", "hungUp"}
    BY <1>1, <1>2, <1>6 DEF ParentInv
  <2>2. sockets'[Len(sockets')] = NextNumber' /\ Len(sockets') <= Depth
    <3>1. Len(sockets') = Len(sockets) + 1 /\ sockets'[Len(sockets) + 1] = sockets[Len(sockets)]
      BY <1>3
    <3>2. Len(sockets') <= Depth
      BY <1>1, <1>4, <3>1 DEF Depth
    <3> QED
      BY <1>6, <2>6, <3>1, <3>2
  <2>3. \A k \in 1 .. Len(sockets') : k < Len(sockets') => sockets'[k] = None
    <3> SUFFICES ASSUME NEW k \in 1 .. Len(sockets'), k < Len(sockets') PROVE sockets'[k] = None
      OBVIOUS
    <3>1. Len(sockets') = Len(sockets) + 1
      BY <1>3
    <3>2. k = Len(sockets) \/ k \in 1 .. Len(sockets) - 1
      BY <1>4, <3>1
    <3>3. k \in 1 .. Len(sockets) - 1 => sockets[k] = None
      BY <1>4, <2>7
    <3> QED
      BY <1>3, <3>2, <3>3
  <2>4. at'[0] = "accepting" /\ sockets' # << >>
    BY <1>1, <1>6 DEF Carries
  <2> QED
    BY <1>1, <1>6, <2>1, <2>2, <2>3, <2>4 DEF ParentInv
<1>8. ASSUME NEW j \in SubProcess PROVE SubInv(j)' /\ OnceInFlight(j)'
  BY <1>1, DescriptorsFacts, SubSame, FlightSame
<1>9. ASSUME NEW c \in Visitor PROVE ClientInv(c)'
  <2>1. Waiting(c)' => Waiting(c)
    BY <1>1, <1>6 DEF Waiting
  <2>2. \A j \in SubProcess : (Serves(j, c)' => Serves(j, c)) /\ (Flies(j, c)' => Flies(j, c))
    BY <1>1 DEF Serves, Flies
  <2> QED
    BY <2>1, <2>2, DescriptorsFacts, ClientSame
<1> QED
  BY <1>1, <1>2, <1>5, <1>7, <1>8, <1>9 DEF DescriptorsInv

\* The end of a child's pair is open in that child only, and nowhere if there is none.
LEMMA OpenEnd ==
    ASSUME DescriptorsInv, NEW i \in SubProcess, Open(ChildEnd(i))
    PROVE  at[i] \notin {"none", "gone"}
<1>1. /\ table \in [Process -> Table] /\ ParentInv /\ forked \in 0 .. MaxProcesses
      /\ \A j \in SubProcess : SubInv(j)
  BY DescriptorsFacts
<1>2. \A f \in Table : DOMAIN f = Number
  BY DEF Table
<1>3. PICK p \in Process, n \in Number : table[p][n] = ChildEnd(i)
  <2>1. \A c : ChildEnd(i) # OfClient(c)
    BY FileKinds
  <2>2. PICK p \in DOMAIN table : ChildEnd(i) \in Range(table[p])
    BY <2>1 DEF Open
  <2>3. p \in Process /\ table[p] \in Table
    BY <1>1, <2>2
  <2> QED
    BY <1>2, <2>2, <2>3 DEF Range
<1>4. ChildEnd(i)[1] = "childEnd" /\ ChildEnd(i)[2] = i /\ NoFile[1] = "none"
  BY FileKinds
<1>5. p # 0
  <2> SUFFICES ASSUME p = 0 PROVE FALSE
    OBVIOUS
  <2>1. CASE at[0] = "gone"
    BY <1>1, <1>3, <1>4, <2>1, FileFacts DEF ParentInv
  <2>2. CASE at[0] # "gone" /\ n # NextNumber
    <3>1. table[0][n] = Own(n, forked)
      BY <1>1, <2>2 DEF ParentInv
    <3> QED
      BY <1>1, <1>3, <1>4, <3>1, OwnFacts
  <2>3. CASE n = NextNumber
    <3>1. table[0][NextNumber] = NoFile \/ \E c \in Visitor : table[0][NextNumber] = OfClient(c)
      BY <1>1 DEF ParentInv
    <3>2. table[0][NextNumber][1] \in {"none", "client"}
      BY <1>4, <3>1, FileKinds
    <3> QED
      BY <1>3, <1>4, <2>3, <3>2
  <2> QED
    BY <2>1, <2>2, <2>3
<1>6. p \in SubProcess
  BY <1>5, NumberFacts
<1>7. p = i
  BY <1>1, <1>3, <1>6 DEF SubInv
<1>8. table[i] # EmptyTable
  BY <1>3, <1>4, <1>7, FileFacts
<1> QED
  BY <1>1, <1>8 DEF SubInv

LEMMA SendFdKeeps ==
    ASSUME DescriptorsInv, SendFd
    PROVE  DescriptorsInv'
<1>1. /\ at[0] = "accepting" /\ Len(sockets) = Depth
      /\ processNum_' = processNum_ /\ forked' = forked /\ serving' = serving
      /\ visitor' = visitor /\ stray' = stray
  BY DEF SendFd
<1>2. /\ DescriptorsTypeOK /\ ParentInv /\ stray = FALSE /\ 0 \in Process
      /\ NextNumber \in Number /\ table \in [Process -> Table]
      /\ sockets \in Seq(Number \union {None}) /\ flight \in [SubProcess -> Seq(Visitor)]
      /\ processNum_ \in 1 .. MaxProcesses /\ turn \in 0 .. processNum_ - 1
  BY DescriptorsFacts, NumberFacts DEF DescriptorsTypeOK
<1>3. sockets # << >> /\ Carries
  BY <1>1 DEF Carries, Depth
<1>4. sockets[Len(sockets)] = NextNumber
  BY <1>2, <1>3 DEF ParentInv
<1>5. PICK c \in Visitor : table[0][NextNumber] = OfClient(c) /\ visitor[c] \in {"open", "hungUp"}
  BY <1>2, <1>3 DEF ParentInv
<1>6. NextNumber' = NextNumber
  BY <1>1 DEF NextNumber
<1>7. PICK i \in SubProcess : i = turn + 1
  <2>1. turn + 1 \in 1 .. MaxProcesses
    BY <1>2, MaxProcessesAssumption
  <2> QED
    BY <2>1 DEF SubProcess
<1>8. Waiting(c)
  BY <1>1, <1>5 DEF Waiting
<1>9. \A j \in SubProcess : ~Serves(j, c) /\ ~Flies(j, c)
  BY <1>8, DescriptorsFacts DEF ClientInv
<1>10. CASE Open(ChildEnd(i))
  <2>1. /\ flight' = [flight EXCEPT ![i] = Append(@, c)]
        /\ turn' = (turn + 1) % processNum_
        /\ at' = [at EXCEPT ![0] = "returning"]
        /\ table' = table /\ sockets' = sockets
    <3>1. table[0][Last(sockets)][2] = c
      BY <1>4, <1>5, FileKinds DEF Last
    <3> QED
      BY <1>7, <1>10, <3>1 DEF SendFd
  <2>2. /\ at'[0] = "returning" /\ \A p \in Process : p # 0 => at'[p] = at[p]
        /\ at' \in [Process -> {"none", "forking", "new", "looping", "accepting", "returning",
                                "ending", "undefined", "gone"}]
    BY <1>2, <2>1 DEF DescriptorsTypeOK
  <2>3. /\ flight' \in [SubProcess -> Seq(Visitor)] /\ flight'[i] = Append(flight[i], c)
        /\ \A j \in SubProcess : j # i => flight'[j] = flight[j]
    BY <1>2, <2>1
  <2>4. turn' \in 0 .. processNum_' - 1
    BY <1>1, <1>2, <2>1, MaxProcessesAssumption
  <2>5. DescriptorsTypeOK'
    BY <1>1, <1>2, <2>1, <2>2, <2>3, <2>4 DEF DescriptorsTypeOK
  <2>6. Carries'
    BY <1>1, <1>3, <2>1 DEF Carries
  <2>7. ParentInv'
    <3>1. /\ \A k \in 1 .. Len(sockets) : k < Len(sockets) => sockets[k] = None
          /\ forked = processNum_ /\ Len(sockets) <= Depth
          /\ \A n \in Number : n # NextNumber => table[0][n] = Own(n, forked)
      BY <1>1, <1>2 DEF ParentInv
    <3>2. table'[0][NextNumber'] = OfClient(c) /\ visitor'[c] \in {"open", "hungUp"}
      BY <1>1, <1>5, <1>6, <2>1
    <3> QED
      BY <1>1, <1>3, <1>4, <1>6, <2>1, <2>2, <2>6, <3>1, <3>2 DEF ParentInv
  <2>8. /\ \A d \in Visitor : d # c => (Flies(i, d)' => Flies(i, d))
        /\ OnceInFlight(i)'
    <3>1. PICK f : f = flight[i]
      OBVIOUS
    <3>2. f \in Seq(Visitor) /\ flight'[i] = Append(f, c) /\ Len(f) \in Nat
      BY <1>2, <2>3, <3>1
    <3>3. PICK g : g = flight'[i]
      OBVIOUS
    <3>4. /\ Len(g) = Len(f) + 1 /\ g[Len(f) + 1] = c
          /\ \A a \in 1 .. Len(f) : g[a] = f[a]
      BY <3>2, <3>3
    <3>5. \A a \in 1 .. Len(f) : f[a] # c
      BY <1>9, <3>1 DEF Flies
    <3>6. \A a, b \in 1 .. Len(f) : f[a] = f[b] => a = b
      BY <3>1, DescriptorsFacts DEF OnceInFlight
    <3>7. \A a \in 1 .. Len(g) : a \in 1 .. Len(f) \/ a = Len(f) + 1
      BY <3>2, <3>4
    <3>8. ASSUME NEW d \in Visitor, d # c, NEW a \in 1 .. Len(g), g[a] = d
          PROVE  \E b \in 1 .. Len(f) : f[b] = d
      <4>1. a \in 1 .. Len(f)
        BY <3>4, <3>7, <3>8
      <4> QED
        BY <3>4, <3>8, <4>1
    <3>9. \A a, b \in 1 .. Len(g) : g[a] = g[b] => a = b
      BY <3>4, <3>5, <3>6, <3>7
    <3> QED
      BY <3>1, <3>3, <3>8, <3>9 DEF Flies, OnceInFlight
  <2>9. ASSUME NEW j \in SubProcess PROVE SubInv(j)' /\ OnceInFlight(j)'
    <3>1. SubInv(j) /\ OnceInFlight(j) /\ j \in Process /\ j # 0
      BY DescriptorsFacts, NumberFacts
    <3>2. at'[j] = at[j]
      BY <2>2, <3>1
    <3>3. CASE j # i
      BY <1>1, <2>1, <2>3, <3>1, <3>2, <3>3, SubSame, FlightSame
    <3>4. CASE j = i
      <4>1. at[i] \notin {"none", "gone"}
        BY <1>10, OpenEnd
      <4>2. SubInv(j)'
        BY <1>1, <2>1, <3>1, <3>2, <3>4, <4>1 DEF SubInv
      <4> QED
        BY <2>8, <3>4, <4>2
    <3> QED
      BY <3>3, <3>4
  <2>10. ASSUME NEW d \in Visitor PROVE ClientInv(d)'
    <3>1. \A j \in SubProcess : Serves(j, d)' => Serves(j, d)
      BY <1>1 DEF Serves
    <3>2. \A j \in SubProcess : j # i => (Flies(j, d)' => Flies(j, d))
      BY <2>3 DEF Flies
    <3>3. Waiting(d)' => visitor[d] \in {"away", "backlog"}
      BY <1>1, <2>2 DEF Waiting
    <3>4. CASE d = c
      <4>1. ~Waiting(d)'
        BY <1>5, <3>3, <3>4
      <4>2. \A j \in SubProcess : ~Serves(j, d)' /\ (Flies(j, d)' => j = i)
        BY <1>9, <3>1, <3>2, <3>4
      <4> QED
        BY <4>1, <4>2 DEF ClientInv
    <3>5. CASE d # c
      <4>1. \A j \in SubProcess : Flies(j, d)' => Flies(j, d)
        BY <2>8, <3>2, <3>5
      <4>2. Waiting(d)' => Waiting(d)
        BY <3>3 DEF Waiting
      <4> QED
        BY <3>1, <4>1, <4>2, DescriptorsFacts, ClientSame
    <3> QED
      BY <3>4, <3>5
  <2> QED
    BY <1>1, <1>2, <2>5, <2>7, <2>9, <2>10 DEF DescriptorsInv
<1>11. CASE ~Open(ChildEnd(i))
  <2>1. /\ at' = [at EXCEPT ![0] = "gone"]
        /\ table' = [table EXCEPT ![0] = EmptyTable]
        /\ sockets' = << >> /\ flight' = flight /\ turn' = turn
    BY <1>7, <1>11 DEF SendFd
  <2>2. /\ at'[0] = "gone" /\ \A p \in Process : p # 0 => at'[p] = at[p]
        /\ at' \in [Process -> {"none", "forking", "new", "looping", "accepting", "returning",
                                "ending", "undefined", "gone"}]
    BY <1>2, <2>1 DEF DescriptorsTypeOK
  <2>3. /\ table'[0] = EmptyTable /\ \A p \in Process : p # 0 => table'[p] = table[p]
        /\ table' \in [Process -> Table]
    BY <1>2, <2>1, FileFacts
  <2>4. DescriptorsTypeOK'
    <3>1. sockets' \in Seq(Number \union {None})
      BY <2>1
    <3>2. table' \in [Process -> [Number -> File]]
      BY <2>3 DEF Table
    <3>3. /\ processNum_' \in SubProcess /\ forked' \in 0 .. processNum_'
          /\ serving' \in [SubProcess -> [Visitor -> Number \union {None}]]
          /\ visitor' \in [Visitor -> {"away", "backlog", "open", "hungUp"}]
          /\ stray' \in BOOLEAN
      BY <1>1, <1>2 DEF DescriptorsTypeOK
    <3>4. turn' \in 0 .. processNum_' - 1
      BY <1>1, <1>2, <2>1 DEF DescriptorsTypeOK
    <3>5. flight' \in [SubProcess -> Seq(Visitor)]
      BY <1>2, <2>1 DEF DescriptorsTypeOK
    <3> QED
      BY <2>2, <3>1, <3>2, <3>3, <3>4, <3>5 DEF DescriptorsTypeOK
  <2>5. ParentInv'
    <3>1. ~Carries' /\ table'[0][NextNumber'] = NoFile
      BY <1>2, <1>6, <2>1, <2>3, FileFacts DEF Carries
    <3>2. Len(sockets') = 0 /\ sockets' = << >> /\ Len(sockets') <= Depth
      BY <2>1 DEF Depth
    <3>3. \A k \in 1 .. Len(sockets') : k < Len(sockets') => sockets'[k] = None
      BY <3>2
    <3> QED
      BY <2>2, <2>3, <3>1, <3>2, <3>3 DEF ParentInv
  <2>6. ASSUME NEW j \in SubProcess PROVE SubInv(j)' /\ OnceInFlight(j)'
    <3>1. SubInv(j) /\ OnceInFlight(j) /\ j \in Process /\ j # 0
      BY DescriptorsFacts, NumberFacts
    <3>2. at'[j] = at[j] /\ table'[j] = table[j]
      BY <2>2, <2>3, <3>1
    <3> QED
      BY <1>1, <2>1, <3>1, <3>2, SubSame, FlightSame
  <2>7. ASSUME NEW d \in Visitor PROVE ClientInv(d)'
    <3>1. Waiting(d)' => Waiting(d)
      BY <1>1, <2>2 DEF Waiting
    <3>2. \A j \in SubProcess : (Serves(j, d)' => Serves(j, d)) /\ (Flies(j, d)' => Flies(j, d))
      BY <1>1, <2>1 DEF Serves, Flies
    <3> QED
      BY <3>1, <3>2, DescriptorsFacts, ClientSame
  <2> QED
    BY <1>1, <1>2, <2>4, <2>5, <2>6, <2>7 DEF DescriptorsInv
<1> QED
  BY <1>10, <1>11

LEMMA DestroyKeeps ==
    ASSUME DescriptorsInv, Destroy
    PROVE  DescriptorsInv'
<1>1. /\ at[0] = "returning" /\ sockets # << >>
      /\ sockets' = Front(sockets)
      /\ at' = [at EXCEPT ![0] = IF Len(sockets) = 1 THEN "accepting" ELSE @]
      /\ processNum_' = processNum_ /\ forked' = forked /\ serving' = serving
      /\ flight' = flight /\ visitor' = visitor /\ turn' = turn
  BY DEF Destroy
<1>2. /\ DescriptorsTypeOK /\ ParentInv /\ stray = FALSE /\ 0 \in Process
      /\ NextNumber \in Number /\ table \in [Process -> Table]
      /\ sockets \in Seq(Number \union {None}) /\ None \notin Number
  BY DescriptorsFacts, NumberFacts DEF DescriptorsTypeOK
<1>3. NextNumber' = NextNumber
  BY <1>1 DEF NextNumber
<1>4. /\ Len(sockets) \in Nat /\ Len(sockets) >= 1 /\ Len(sockets) <= Depth
      /\ \A k \in 1 .. Len(sockets) : k < Len(sockets) => sockets[k] = None
  <2>1. Len(sockets) <= Depth /\ \A k \in 1 .. Len(sockets) : k < Len(sockets) => sockets[k] = None
    BY <1>2 DEF ParentInv
  <2>2. Len(sockets) \in Nat
    BY <1>2
  <2>3. Len(sockets) # 0
    BY <1>1, <1>2
  <2> QED
    BY <2>1, <2>2, <2>3
<1>5. /\ sockets' \in Seq(Number \union {None}) /\ Len(sockets') = Len(sockets) - 1
      /\ \A k \in 1 .. Len(sockets) - 1 : sockets'[k] = sockets[k]
  BY <1>1, <1>2, FrontFacts
<1>6. /\ table' \in [Process -> Table] /\ \A p \in Process : p # 0 => table'[p] = table[p]
      /\ table'[0][NextNumber] = NoFile
      /\ \A n \in Number : n # NextNumber => table'[0][n] = table[0][n]
      /\ stray' = FALSE
  <2>1. CASE Carries
    <3>1. sockets[Len(sockets)] = NextNumber /\ \E c \in Visitor : table[0][NextNumber] = OfClient(c)
      BY <1>2, <2>1 DEF ParentInv
    <3>2. table[0][NextNumber][1] = "client"
      BY <3>1, FileKinds
    <3>3. PICK t : t = Closed(table[0], NextNumber)
      OBVIOUS
    <3>4. table' = [table EXCEPT ![0] = t] /\ stray' = FALSE
      BY <1>2, <3>1, <3>2, <3>3 DEF Destroy, Last
    <3>5. t \in Table /\ t[NextNumber] = NoFile /\ \A n \in Number : n # NextNumber => t[n] = table[0][n]
      BY <1>2, <3>3, ClosedFacts
    <3> QED
      BY <1>2, <3>4, <3>5
  <2>2. CASE ~Carries
    <3>1. sockets[Len(sockets)] = None /\ table[0][NextNumber] = NoFile
      BY <1>1, <1>2, <2>2 DEF ParentInv
    <3>2. table' = table /\ stray' = FALSE
      BY <1>2, <3>1 DEF Destroy, Last
    <3> QED
      BY <1>2, <3>1, <3>2
  <2> QED
    BY <2>1, <2>2
<1>7. /\ at'[0] = (IF Len(sockets) = 1 THEN "accepting" ELSE "returning")
      /\ \A p \in Process : p # 0 => at'[p] = at[p]
      /\ at' \in [Process -> {"none", "forking", "new", "looping", "accepting", "returning",
                              "ending", "undefined", "gone"}]
  BY <1>1, <1>2 DEF DescriptorsTypeOK
<1>8. DescriptorsTypeOK'
  BY <1>1, <1>2, <1>5, <1>6, <1>7 DEF DescriptorsTypeOK, Table
<1>9. sockets' = << >> <=> Len(sockets) = 1
  BY <1>4, <1>5, EmptySeq
<1>10. ~Carries'
  BY <1>4, <1>5, <1>7, <1>9 DEF Carries, Depth
<1>11. ParentInv'
  <2>1. /\ \A n \in Number : n # NextNumber' => table'[0][n] = Own(n, forked')
        /\ forked' = processNum_'
    BY <1>1, <1>2, <1>3, <1>6 DEF ParentInv
  <2>2. \A k \in 1 .. Len(sockets') : sockets'[k] = None
    BY <1>4, <1>5
  <2>3. sockets' # << >> => sockets'[Len(sockets')] = None
    BY <1>4, <1>5, <1>9, <2>2
  <2>4. Len(sockets') <= Depth
    BY <1>4, <1>5 DEF Depth
  <2>5. at'[0] \in {"accepting", "returning"} /\ (at'[0] = "returning" => sockets' # << >>)
    BY <1>7, <1>9
  <2>6. at'[0] # "gone" /\ at'[0] # "looping" /\ at'[0] # "forking"
    BY <2>5
  <2>7. table'[0][NextNumber'] = NoFile
    BY <1>3, <1>6
  <2> QED
    BY <1>10, <2>1, <2>2, <2>3, <2>4, <2>5, <2>6, <2>7 DEF ParentInv
<1>12. ASSUME NEW j \in SubProcess PROVE SubInv(j)' /\ OnceInFlight(j)'
  <2>1. SubInv(j) /\ OnceInFlight(j) /\ j \in Process /\ j # 0
    BY DescriptorsFacts, NumberFacts
  <2>2. at'[j] = at[j] /\ table'[j] = table[j]
    BY <1>6, <1>7, <2>1
  <2> QED
    BY <1>1, <2>1, <2>2, SubSame, FlightSame
<1>13. ASSUME NEW c \in Visitor PROVE ClientInv(c)'
  <2>1. table'[0][NextNumber'] # OfClient(c)
    BY <1>3, <1>6, FileKinds
  <2>2. Waiting(c)' => Waiting(c)
    BY <1>1, <2>1 DEF Waiting
  <2>3. \A j \in SubProcess : (Serves(j, c)' => Serves(j, c)) /\ (Flies(j, c)' => Flies(j, c))
    BY <1>1 DEF Serves, Flies
  <2> QED
    BY <2>2, <2>3, DescriptorsFacts, ClientSame
<1> QED
  BY <1>2, <1>6, <1>8, <1>11, <1>12, <1>13 DEF DescriptorsInv
-------------------------------------------------------------------------------
\* A child.

Doing == {"none", "forking", "new", "looping", "accepting", "returning", "ending", "undefined",
          "gone"}

\* What a child may do with what is its own: its clients stay those that it had or that were
\* on their way to it.
BecomesOf(i, a, t, v, f) ==
    /\ at[i] # "none" /\ a \in {"looping", "ending", "undefined", "gone"}
    /\ t \in Table /\ v \in [Visitor -> Number \union {None}] /\ f \in Seq(Visitor)
    /\ at' = [at EXCEPT ![i] = a] /\ table' = [table EXCEPT ![i] = t]
    /\ serving' = [serving EXCEPT ![i] = v] /\ flight' = [flight EXCEPT ![i] = f]
    /\ processNum_' = processNum_ /\ forked' = forked /\ sockets' = sockets
    /\ visitor' = visitor /\ turn' = turn /\ stray' = FALSE

OwnsOf(i, a, t, v, f) ==
    /\ a = "gone" => t = EmptyTable /\ f = << >>
    /\ \A j \in SubProcess, n \in Number : t[n] = ChildEnd(j) => i = j
    /\ \A n \in Number, c \in Visitor : t[n] = OfClient(c) <=> v[c] = n
    /\ \A x, y \in 1 .. Len(f) : f[x] = f[y] => x = y
    /\ \A x \in 1 .. Len(f) : Flies(i, f[x]) /\ v[f[x]] = None
    /\ \A c \in Visitor : v[c] # None => Serves(i, c) \/ Flies(i, c)

LEMMA SubKeeps ==
    ASSUME DescriptorsInv, NEW i \in SubProcess, NEW a, NEW t, NEW v, NEW f,
           BecomesOf(i, a, t, v, f), OwnsOf(i, a, t, v, f)
    PROVE  DescriptorsInv'
<1> USE DEF BecomesOf, OwnsOf
<1>1. /\ DescriptorsTypeOK /\ ParentInv /\ table \in [Process -> Table]
      /\ i \in Process /\ i # 0 /\ 0 \in Process
  BY DescriptorsFacts, NumberFacts
<1>2. /\ at'[i] = a /\ at' \in [Process -> Doing]
      /\ \A p \in Process : p # i => at'[p] = at[p]
  BY <1>1 DEF DescriptorsTypeOK, Doing
<1>3. /\ table'[i] = t /\ table' \in [Process -> Table]
      /\ \A p \in Process : p # i => table'[p] = table[p]
  BY <1>1
<1>4. /\ serving'[i] = v /\ serving' \in [SubProcess -> [Visitor -> Number \union {None}]]
      /\ \A j \in SubProcess : j # i => serving'[j] = serving[j]
  BY <1>1 DEF DescriptorsTypeOK
<1>5. /\ flight'[i] = f /\ flight' \in [SubProcess -> Seq(Visitor)]
      /\ \A j \in SubProcess : j # i => flight'[j] = flight[j]
  BY <1>1 DEF DescriptorsTypeOK
<1>6. DescriptorsTypeOK'
  BY <1>1, <1>2, <1>3, <1>4, <1>5 DEF DescriptorsTypeOK, Doing, Table
<1>7. ParentInv'
  <2>1. at'[0] = at[0] /\ table'[0] = table[0]
    BY <1>1, <1>2, <1>3
  <2> QED
    BY <1>1, <2>1, ParentSame
<1>8. ASSUME NEW j \in SubProcess PROVE SubInv(j)' /\ OnceInFlight(j)'
  <2>1. SubInv(j) /\ OnceInFlight(j) /\ j \in Process
    BY DescriptorsFacts, NumberFacts
  <2>2. CASE j # i
    <3>1. at'[j] = at[j] /\ table'[j] = table[j] /\ serving'[j] = serving[j] /\ flight'[j] = flight[j]
      BY <1>2, <1>3, <1>4, <1>5, <2>1, <2>2
    <3> QED
      BY <2>1, <3>1, SubSame, FlightSame
  <2>3. CASE j = i
    <3>1. ~(i > forked')
      BY <2>1, <2>3 DEF SubInv
    <3>2. OnceInFlight(i)'
      BY <1>5 DEF OnceInFlight
    <3>3. SubInv(i)'
      BY <1>2, <1>3, <1>4, <1>5, <3>1 DEF SubInv
    <3> QED
      BY <2>3, <3>2, <3>3
  <2> QED
    BY <2>2, <2>3
<1>9. ASSUME NEW c \in Visitor PROVE ClientInv(c)'
  <2>1. Waiting(c)' = Waiting(c)
    BY <1>1, <1>2, <1>3 DEF Waiting, NextNumber
  <2>2. ASSUME NEW j \in SubProcess, j # i
        PROVE  Serves(j, c)' = Serves(j, c) /\ Flies(j, c)' = Flies(j, c)
    BY <1>4, <1>5, <2>2 DEF Serves, Flies
  <2>3. /\ Serves(i, c)' => Serves(i, c) \/ Flies(i, c)
        /\ Flies(i, c)' => Flies(i, c)
        /\ Serves(i, c)' => ~Flies(i, c)'
    BY <1>4, <1>5 DEF Serves, Flies
  <2>4. ClientInv(c)
    BY DescriptorsFacts
  <2>5. /\ Waiting(c) => \A j \in SubProcess : ~Serves(j, c) /\ ~Flies(j, c)
        /\ \A j, k \in SubProcess : /\ Serves(j, c) => ~Flies(k, c)
                                    /\ Serves(j, c) /\ Serves(k, c) => j = k
                                    /\ Flies(j, c) /\ Flies(k, c) => j = k
    BY <2>4 DEF ClientInv
  <2>6. ASSUME NEW j \in SubProcess, Waiting(c) PROVE ~Serves(j, c)' /\ ~Flies(j, c)'
    BY <2>2, <2>3, <2>5, <2>6
  <2>7. ASSUME NEW j \in SubProcess, NEW k \in SubProcess
        PROVE  /\ Serves(j, c)' => ~Flies(k, c)'
               /\ Serves(j, c)' /\ Serves(k, c)' => j = k
               /\ Flies(j, c)' /\ Flies(k, c)' => j = k
    BY <2>2, <2>3, <2>5
  <2> QED
    BY <2>1, <2>6, <2>7 DEF ClientInv
<1> QED
  BY <1>6, <1>7, <1>8, <1>9 DEF DescriptorsInv

\* What a child has, in one place.
LEMMA ChildFacts ==
    ASSUME DescriptorsInv, NEW i \in SubProcess
    PROVE  /\ table[i] \in Table /\ serving[i] \in [Visitor -> Number \union {None}]
           /\ flight[i] \in Seq(Visitor)
           /\ \A j \in SubProcess, n \in Number : table[i][n] = ChildEnd(j) => i = j
           /\ \A n \in Number, c \in Visitor : table[i][n] = OfClient(c) <=> serving[i][c] = n
           /\ \A x, y \in 1 .. Len(flight[i]) : flight[i][x] = flight[i][y] => x = y
           /\ \A x \in 1 .. Len(flight[i]) : Flies(i, flight[i][x]) /\ serving[i][flight[i][x]] = None
           /\ at = [at EXCEPT ![i] = at[i]] /\ table = [table EXCEPT ![i] = table[i]]
           /\ serving = [serving EXCEPT ![i] = serving[i]]
           /\ flight = [flight EXCEPT ![i] = flight[i]]
<1>1. DescriptorsTypeOK /\ table \in [Process -> Table] /\ i \in Process /\ SubInv(i) /\ OnceInFlight(i)
  BY DescriptorsFacts, NumberFacts
<1>2. flight[i] \in Seq(Visitor) /\ serving[i] \in [Visitor -> Number \union {None}]
  BY <1>1 DEF DescriptorsTypeOK
<1>3. ASSUME NEW x \in 1 .. Len(flight[i])
      PROVE  Flies(i, flight[i][x]) /\ serving[i][flight[i][x]] = None
  <2>1. flight[i][x] \in Visitor
    BY <1>2
  <2>2. Flies(i, flight[i][x])
    BY DEF Flies
  <2>3. ClientInv(flight[i][x])
    BY <2>1, DescriptorsFacts
  <2>4. ~Serves(i, flight[i][x])
    BY <2>2, <2>3 DEF ClientInv
  <2> QED
    BY <2>2, <2>4 DEF Serves
<1>4. /\ at = [at EXCEPT ![i] = at[i]] /\ table = [table EXCEPT ![i] = table[i]]
      /\ serving = [serving EXCEPT ![i] = serving[i]]
      /\ flight = [flight EXCEPT ![i] = flight[i]]
  BY <1>1 DEF DescriptorsTypeOK
<1>5. /\ table[i] \in Table
      /\ \A j \in SubProcess, n \in Number : table[i][n] = ChildEnd(j) => i = j
      /\ \A n \in Number, c \in Visitor : table[i][n] = OfClient(c) <=> serving[i][c] = n
      /\ \A x, y \in 1 .. Len(flight[i]) : flight[i][x] = flight[i][y] => x = y
  BY <1>1 DEF SubInv, OnceInFlight
<1> QED
  BY <1>2, <1>3, <1>4, <1>5

\* No client is in the table of a child, and no child's end but its own.
Ours(i, w) ==
    /\ w \in Table
    /\ \A n \in Number : w[n] = ChildEnd(i) \/ (w[n][1] # "client" /\ w[n][1] # "childEnd")

LEMMA OursFacts ==
    ASSUME NEW i \in SubProcess, NEW r, Ours(i, r)
    PROVE  /\ \A j \in SubProcess, n \in Number : r[n] = ChildEnd(j) => i = j
           /\ \A n \in Number, c \in Visitor : r[n] # OfClient(c)
<1>1. ASSUME NEW j \in SubProcess, NEW n \in Number, r[n] = ChildEnd(j) PROVE i = j
  <2>1. ChildEnd(j)[1] = "childEnd" /\ ChildEnd(j)[2] = j /\ ChildEnd(i)[2] = i
    BY FileKinds
  <2>2. r[n] = ChildEnd(i)
    BY <1>1, <2>1 DEF Ours
  <2> QED
    BY <1>1, <2>1, <2>2
<1>2. ASSUME NEW c \in Visitor, NEW n \in Number, r[n] = OfClient(c) PROVE FALSE
  <2>1. OfClient(c)[1] = "client" /\ ChildEnd(i)[1] = "childEnd"
    BY FileKinds
  <2> QED
    BY <1>2, <2>1 DEF Ours
<1> QED
  BY <1>1, <1>2

\* A file that is opened is not a client or the end of a pair; what is closed stays ours.
LEMMA OursOpened ==
    ASSUME NEW i, NEW r, Ours(i, r), NEW f \in File, f[1] # "client", f[1] # "childEnd",
           NEW m \in Number, Lowest(r) = m
    PROVE  /\ Ours(i, Opened(r, f))
           /\ \A n \in Number : n # m => Opened(r, f)[n] = r[n]
<1>1. r \in Table
  BY DEF Ours
<1>2. PICK o : o = Opened(r, f)
  OBVIOUS
<1>3. o \in Table /\ o[m] = f /\ \A n \in Number : n # m => o[n] = r[n]
  <2>1. /\ Opened(r, f) \in Table /\ Opened(r, f)[m] = f
        /\ \A n \in Number : n # m => Opened(r, f)[n] = r[n]
    BY <1>1, OpenedFacts
  <2> QED
    BY <1>2, <2>1
<1>4. Ours(i, o)
  BY <1>3 DEF Ours
<1> QED
  BY <1>2, <1>3, <1>4

LEMMA OursWithout ==
    ASSUME NEW i, NEW r, Ours(i, r), NEW S
    PROVE  Ours(i, Without(r, S))
<1>1. r \in Table /\ NoFile[1] = "none"
  BY FileKinds DEF Ours
<1>2. PICK o : o = Without(r, S)
  OBVIOUS
<1>3. o \in Table /\ \A n \in Number : o[n] = IF r[n] \in S THEN NoFile ELSE r[n]
  BY <1>1, <1>2, WithoutFacts
<1>4. Ours(i, o)
  BY <1>1, <1>3 DEF Ours
<1> QED
  BY <1>2, <1>4

LEMMA SubStartsKeeps ==
    ASSUME DescriptorsInv, NEW i \in SubProcess, SubStarts(i)
    PROVE  DescriptorsInv'
<1>1. /\ at[i] = "new" /\ at' = [at EXCEPT ![i] = "looping"]
      /\ processNum_' = processNum_ /\ forked' = forked /\ sockets' = sockets
      /\ serving' = serving /\ flight' = flight /\ visitor' = visitor /\ turn' = turn
      /\ stray' = stray
  BY DEF SubStarts
<1>2. PICK w : w = clearInSubProcess(table[i])
  OBVIOUS
<1>3. PICK u : u = Opened(w, EpollOf(i))
  OBVIOUS
<1>4. PICK s : s = Opened(u, TimerOf(i))
  OBVIOUS
<1>5. PICK t : t = Without(s, {ParentEnd(i)})
  OBVIOUS
<1>6. table' = [table EXCEPT ![i] = t]
  BY <1>2, <1>3, <1>4, <1>5 DEF SubStarts, WithLoop
<1>7. /\ i \in 0 .. MaxProcesses /\ i \in Nat /\ i # 0 /\ i + 3 \in Number
      /\ 0 \in Number /\ 1 \in Number
  BY NumberFacts, MaxProcessesAssumption DEF SubProcess
<1>71. /\ EpollOf(i) \in File /\ TimerOf(i) \in File
       /\ EpollOf(i)[1] = "epoll" /\ TimerOf(i)[1] = "timer" /\ NoFile[1] = "none"
  BY NumberFacts, FileFacts, FileKinds
<1>8. \A n \in Number : table[i][n] = IF n = i + 3 THEN ChildEnd(i) ELSE Own(n, i)
  <2>1. SubInv(i)
    BY DescriptorsFacts
  <2> QED
    BY <1>1, <2>1 DEF SubInv
<1>9. Ours(i, table[i])
  <2>1. table[i] \in Table
    BY ChildFacts
  <2>2. \A n \in Number : Own(n, i)[1] # "client" /\ Own(n, i)[1] # "childEnd"
    BY <1>7, OwnFacts
  <2> QED
    BY <1>8, <2>1, <2>2 DEF Ours
<1>10. Ours(i, w) /\ w[0] = NoFile /\ w[1] = NoFile
  <2>1. PICK S : S = {Listening, TimerOf(0), EpollOf(0)}
    OBVIOUS
  <2>2. w = Without(table[i], S) /\ table[i] \in Table
    BY <1>2, <2>1, ChildFacts DEF clearInSubProcess
  <2>3. \A n \in Number : w[n] = IF table[i][n] \in S THEN NoFile ELSE table[i][n]
    BY <2>2, WithoutFacts
  <2>4. Ours(i, w)
    BY <1>9, <2>2, OursWithout
  <2>5. table[i][0] = EpollOf(0) /\ table[i][1] = TimerOf(0)
    <3>1. 0 # i + 3 /\ 1 # i + 3
      BY <1>7
    <3> QED
      BY <1>7, <1>8, <3>1 DEF Own
  <2> QED
    BY <1>7, <2>1, <2>3, <2>4, <2>5
<1>11. 0 < OpenMax /\ 1 < OpenMax
  BY DescriptorsFacts, SpareAssumption DEF OpenMax
<1>12. PICK m : m = Lowest(w)
  OBVIOUS
<1>13. m \in Number
  <2>1. 0 \in Free(w)
    BY <1>7, <1>10, <1>11 DEF Free
  <2> QED
    BY <1>12, <2>1, LowestIsFree DEF Full
<1>14. Ours(i, u) /\ \A n \in Number : n # m => u[n] = w[n]
  <2>1. EpollOf(i)[1] # "client" /\ EpollOf(i)[1] # "childEnd"
    BY <1>71
  <2>2. /\ Ours(i, Opened(w, EpollOf(i)))
        /\ \A n \in Number : n # m => Opened(w, EpollOf(i))[n] = w[n]
    BY <1>71, <1>10, <1>12, <1>13, <2>1, OursOpened
  <2> QED
    BY <1>3, <2>2
<1>15. PICK l : l = Lowest(u)
  OBVIOUS
<1>16. l \in Number
  <2>1. u[0] = NoFile \/ u[1] = NoFile
    BY <1>7, <1>10, <1>14
  <2>2. 0 \in Free(u) \/ 1 \in Free(u)
    BY <1>7, <1>11, <2>1 DEF Free
  <2> QED
    BY <1>15, <2>2, LowestIsFree DEF Full
<1>17. Ours(i, s)
  BY <1>4, <1>71, <1>14, <1>15, <1>16, OursOpened
<1>18. Ours(i, t)
  BY <1>5, <1>17, OursWithout
<1>20. \A n \in Number, c \in Visitor : t[n] = OfClient(c) <=> serving[i][c] = n
  <2>1. \A n \in Number, c \in Visitor : t[n] # OfClient(c) /\ table[i][n] # OfClient(c)
    BY <1>9, <1>18, OursFacts
  <2>2. \A n \in Number, c \in Visitor : table[i][n] = OfClient(c) <=> serving[i][c] = n
    BY ChildFacts
  <2> QED
    BY <2>1, <2>2
<1>21. \A c \in Visitor : serving[i][c] # None => Serves(i, c)
  BY DEF Serves
<1>22. t \in Table /\ \A j \in SubProcess, n \in Number : t[n] = ChildEnd(j) => i = j
  BY <1>18, OursFacts DEF Ours
<1>23. BecomesOf(i, "looping", t, serving[i], flight[i])
  BY <1>1, <1>6, <1>22, ChildFacts, DescriptorsFacts DEF BecomesOf
<1>24. OwnsOf(i, "looping", t, serving[i], flight[i])
  BY <1>20, <1>21, <1>22, ChildFacts DEF OwnsOf
<1> QED
  BY <1>23, <1>24, SubKeeps

LEMMA TailFacts ==
    ASSUME NEW s \in Seq(Visitor), s # << >>
    PROVE  /\ Tail(s) \in Seq(Visitor) /\ Len(s) \in Nat /\ Len(s) >= 1
           /\ Len(Tail(s)) = Len(s) - 1 /\ Head(s) = s[1] /\ s[1] \in Visitor
           /\ \A x \in 1 .. Len(Tail(s)) : Tail(s)[x] = s[x + 1] /\ x + 1 \in 1 .. Len(s)
<1>1. Len(s) \in Nat /\ Len(s) >= 1
  BY EmptySeq
<1>2. /\ Tail(s) \in Seq(Visitor) /\ Len(Tail(s)) = Len(s) - 1
      /\ \A x \in 1 .. Len(s) - 1 : Tail(s)[x] = s[x + 1]
  BY <1>1, HeadTailProperties
<1>3. Head(s) = s[1] /\ s[1] \in Visitor
  BY <1>1
<1> QED
  BY <1>1, <1>2, <1>3

\* One visitor fewer is on its way to child i: c leaves f behind.
FliesOn(i, f, c) ==
    /\ f \in Seq(Visitor) /\ \A x, y \in 1 .. Len(f) : f[x] = f[y] => x = y
    /\ \A x \in 1 .. Len(f) : Flies(i, f[x]) /\ serving[i][f[x]] = None /\ f[x] # c
    /\ c \in Visitor /\ Flies(i, c) /\ serving[i][c] = None

LEMMA FlightTail ==
    ASSUME DescriptorsInv, NEW i \in SubProcess, flight[i] # << >>, NEW f, f = Tail(flight[i])
    PROVE  FliesOn(i, f, Head(flight[i]))
<1>1. PICK g : g = flight[i]
  OBVIOUS
<1>2. /\ g \in Seq(Visitor) /\ \A x, y \in 1 .. Len(g) : g[x] = g[y] => x = y
      /\ \A x \in 1 .. Len(g) : Flies(i, g[x]) /\ serving[i][g[x]] = None
  BY <1>1, ChildFacts
<1>3. /\ f \in Seq(Visitor) /\ Len(g) \in Nat /\ Len(g) >= 1
      /\ Len(f) = Len(g) - 1 /\ Head(g) = g[1] /\ g[1] \in Visitor
      /\ \A x \in 1 .. Len(f) : f[x] = g[x + 1] /\ x + 1 \in 1 .. Len(g)
  BY <1>1, <1>2, TailFacts
<1>4. 1 \in 1 .. Len(g)
  BY <1>3
<1>5. ASSUME NEW x \in 1 .. Len(f)
      PROVE  Flies(i, f[x]) /\ serving[i][f[x]] = None /\ f[x] # g[1]
  <2>1. f[x] = g[x + 1] /\ x + 1 \in 1 .. Len(g) /\ x + 1 # 1
    BY <1>3
  <2> QED
    BY <1>2, <1>4, <2>1
<1>6. ASSUME NEW x \in 1 .. Len(f), NEW y \in 1 .. Len(f), f[x] = f[y] PROVE x = y
  <2>1. /\ f[x] = g[x + 1] /\ x + 1 \in 1 .. Len(g)
        /\ f[y] = g[y + 1] /\ y + 1 \in 1 .. Len(g)
    BY <1>3
  <2>2. x + 1 = y + 1
    BY <1>2, <1>6, <2>1
  <2> QED
    BY <1>3, <2>2
<1> QED
  BY <1>1, <1>2, <1>3, <1>4, <1>5, <1>6 DEF FliesOn

LEMMA ReceiveFdKeeps ==
    ASSUME DescriptorsInv, NEW i \in SubProcess, Receive(i)
    PROVE  DescriptorsInv'
<1>1. PICK c : c = Head(flight[i])
  OBVIOUS
<1>2. PICK n : n = Lowest(table[i])
  OBVIOUS
<1>3. PICK t : t = Opened(table[i], OfClient(c))
  OBVIOUS
<1>4. PICK v : v = [serving[i] EXCEPT ![c] = n]
  OBVIOUS
<1>5. PICK f : f = Tail(flight[i])
  OBVIOUS
<1>6. /\ at[i] \in {"looping", "ending"} /\ flight[i] # << >> /\ ~Full(table[i])
      /\ table' = [table EXCEPT ![i] = t] /\ serving' = [serving EXCEPT ![i] = v]
      /\ flight' = [flight EXCEPT ![i] = f]
      /\ processNum_' = processNum_ /\ at' = at /\ forked' = forked /\ sockets' = sockets
      /\ visitor' = visitor /\ turn' = turn /\ stray' = stray
  BY <1>1, <1>2, <1>3, <1>4, <1>5 DEF Receive, Take, Runs
<1>7. /\ f \in Seq(Visitor) /\ \A x, y \in 1 .. Len(f) : f[x] = f[y] => x = y
      /\ \A x \in 1 .. Len(f) : Flies(i, f[x]) /\ serving[i][f[x]] = None /\ f[x] # c
      /\ c \in Visitor /\ Flies(i, c) /\ serving[i][c] = None
  <2>1. FliesOn(i, f, c)
    BY <1>1, <1>5, <1>6, FlightTail
  <2> QED
    BY <2>1 DEF FliesOn
<1>8. n \in Number /\ table[i][n] = NoFile
  BY <1>2, <1>6, LowestIsFree
<1>9. /\ table[i] \in Table /\ serving[i] \in [Visitor -> Number \union {None}]
      /\ \A j \in SubProcess, m \in Number : table[i][m] = ChildEnd(j) => i = j
      /\ \A m \in Number, d \in Visitor : table[i][m] = OfClient(d) <=> serving[i][d] = m
  BY ChildFacts
<1>10. t \in Table /\ t[n] = OfClient(c) /\ \A m \in Number : m # n => t[m] = table[i][m]
  BY <1>2, <1>3, <1>7, <1>8, <1>9, FileFacts, OpenedFacts
<1>11. /\ v \in [Visitor -> Number \union {None}] /\ v[c] = n
       /\ \A d \in Visitor : d # c => v[d] = serving[i][d]
  BY <1>4, <1>7, <1>8, <1>9
<1>12. ASSUME NEW m \in Number, NEW d \in Visitor PROVE t[m] = OfClient(d) <=> v[d] = m
  <2>1. /\ OfClient(c)[2] = c /\ OfClient(d)[2] = d /\ OfClient(d)[1] = "client"
        /\ NoFile[1] = "none" /\ None \notin Number
    BY FileKinds, NumberFacts
  <2>2. CASE d = c
    <3>1. table[i][m] # OfClient(c)
      BY <1>7, <1>9, <2>1
    <3> QED
      BY <1>10, <1>11, <2>2, <3>1
  <2>3. CASE d # c
    <3>1. v[d] = serving[i][d] /\ serving[i][d] # n /\ OfClient(c) # OfClient(d)
      BY <1>8, <1>9, <1>11, <2>1, <2>3
    <3>2. t[n] # OfClient(d)
      BY <1>10, <3>1
    <3> QED
      BY <1>9, <1>10, <3>1, <3>2
  <2> QED
    BY <2>2, <2>3
<1>13. ASSUME NEW j \in SubProcess, NEW m \in Number, t[m] = ChildEnd(j) PROVE i = j
  <2>1. OfClient(c)[1] = "client" /\ ChildEnd(j)[1] = "childEnd"
    BY FileKinds
  <2> QED
    BY <1>9, <1>10, <1>13, <2>1
<1>14. \A x \in 1 .. Len(f) : Flies(i, f[x]) /\ v[f[x]] = None
  <2>1. \A x \in 1 .. Len(f) : f[x] \in Visitor
    BY <1>7
  <2> QED
    BY <1>7, <1>11, <2>1
<1>15. \A d \in Visitor : v[d] # None => Serves(i, d) \/ Flies(i, d)
  BY <1>7, <1>11 DEF Serves
<1>16. BecomesOf(i, at[i], t, v, f)
  <2>1. stray' = FALSE /\ at' = [at EXCEPT ![i] = at[i]]
    BY <1>6, DescriptorsFacts, ChildFacts
  <2> QED
    BY <1>6, <1>7, <1>10, <1>11, <2>1 DEF BecomesOf
<1>17. OwnsOf(i, at[i], t, v, f)
  BY <1>6, <1>7, <1>12, <1>13, <1>14, <1>15 DEF OwnsOf
<1> QED
  BY <1>16, <1>17, SubKeeps

\* Nothing, or a number of another file.
LEMMA ReceiveNothingKeeps ==
    ASSUME DescriptorsInv, NEW i \in SubProcess, ReceiveGarbage(i) \/ ReceiveEnd(i)
    PROVE  DescriptorsInv'
<1>1. /\ at[i] \in {"looping", "ending"}
      /\ processNum_' = processNum_ /\ table' = table /\ forked' = forked /\ sockets' = sockets
      /\ serving' = serving /\ visitor' = visitor /\ turn' = turn /\ stray' = stray
  BY DEF ReceiveGarbage, ReceiveEnd, Runs
<1>2. PICK a \in {at[i], "undefined"} : at' = [at EXCEPT ![i] = a]
  BY ChildFacts DEF ReceiveGarbage, ReceiveEnd
<1>3. PICK f : /\ flight' = [flight EXCEPT ![i] = f]
               /\ f = flight[i] \/ (flight[i] # << >> /\ f = Tail(flight[i]))
  BY ChildFacts DEF ReceiveGarbage, ReceiveEnd
<1>4. /\ f \in Seq(Visitor) /\ \A x, y \in 1 .. Len(f) : f[x] = f[y] => x = y
      /\ \A x \in 1 .. Len(f) : Flies(i, f[x]) /\ serving[i][f[x]] = None
  BY <1>3, ChildFacts, FlightTail DEF FliesOn
<1>5. BecomesOf(i, a, table[i], serving[i], f)
  BY <1>1, <1>2, <1>3, <1>4, DescriptorsFacts, ChildFacts DEF BecomesOf
<1>6. OwnsOf(i, a, table[i], serving[i], f)
  BY <1>1, <1>2, <1>4, ChildFacts DEF OwnsOf, Serves
<1> QED
  BY <1>5, <1>6, SubKeeps

LEMMA CloseKeeps ==
    ASSUME DescriptorsInv, NEW i \in SubProcess, NEW c \in Visitor, Close(i, c)
    PROVE  DescriptorsInv'
<1>1. PICK n : n = serving[i][c]
  OBVIOUS
<1>2. PICK t : t = Closed(table[i], n)
  OBVIOUS
<1>3. PICK v : v = [serving[i] EXCEPT ![c] = None]
  OBVIOUS
<1>4. /\ at[i] \in {"looping", "ending"} /\ n # None
      /\ table' = [table EXCEPT ![i] = t] /\ serving' = [serving EXCEPT ![i] = v]
      /\ stray' = (stray \/ table[i][n] # OfClient(c))
      /\ processNum_' = processNum_ /\ at' = at /\ forked' = forked /\ sockets' = sockets
      /\ flight' = flight /\ visitor' = visitor /\ turn' = turn
  BY <1>1, <1>2, <1>3 DEF Close, Runs
<1>5. /\ table[i] \in Table /\ serving[i] \in [Visitor -> Number \union {None}]
      /\ \A j \in SubProcess, m \in Number : table[i][m] = ChildEnd(j) => i = j
      /\ \A m \in Number, d \in Visitor : table[i][m] = OfClient(d) <=> serving[i][d] = m
  BY ChildFacts
<1>6. n \in Number /\ table[i][n] = OfClient(c)
  BY <1>1, <1>4, <1>5
<1>7. t \in Table /\ t[n] = NoFile /\ \A m \in Number : m # n => t[m] = table[i][m]
  BY <1>2, <1>5, <1>6, ClosedFacts
<1>8. /\ v \in [Visitor -> Number \union {None}] /\ v[c] = None
      /\ \A d \in Visitor : d # c => v[d] = serving[i][d]
  BY <1>3, <1>5
<1>9. ASSUME NEW m \in Number, NEW d \in Visitor PROVE t[m] = OfClient(d) <=> v[d] = m
  <2>1. /\ OfClient(c)[2] = c /\ OfClient(d)[2] = d /\ OfClient(d)[1] = "client"
        /\ NoFile[1] = "none" /\ None \notin Number
    BY FileKinds, NumberFacts
  <2>2. t[n] # OfClient(d)
    BY <1>7, <2>1
  <2>3. CASE d = c
    <3>1. v[d] # m
      BY <1>8, <2>1, <2>3
    <3>2. m # n => t[m] # OfClient(d)
      BY <1>1, <1>5, <1>7, <2>3
    <3> QED
      BY <2>2, <3>1, <3>2
  <2>4. CASE d # c
    <3>1. v[d] = serving[i][d] /\ serving[i][d] # n
      BY <1>5, <1>6, <1>8, <2>1, <2>4
    <3> QED
      BY <1>5, <1>7, <2>2, <3>1
  <2> QED
    BY <2>3, <2>4
<1>10. ASSUME NEW j \in SubProcess, NEW m \in Number, t[m] = ChildEnd(j) PROVE i = j
  <2>1. NoFile[1] = "none" /\ ChildEnd(j)[1] = "childEnd"
    BY FileKinds
  <2> QED
    BY <1>5, <1>7, <1>10, <2>1
<1>11. \A x \in 1 .. Len(flight[i]) : Flies(i, flight[i][x]) /\ v[flight[i][x]] = None
  <2>1. \A x \in 1 .. Len(flight[i]) : /\ flight[i][x] \in Visitor
                                       /\ Flies(i, flight[i][x]) /\ serving[i][flight[i][x]] = None
    BY ChildFacts
  <2> QED
    BY <1>8, <2>1
<1>12. \A d \in Visitor : v[d] # None => Serves(i, d) \/ Flies(i, d)
  BY <1>8 DEF Serves
<1>13. BecomesOf(i, at[i], t, v, flight[i])
  <2>1. stray' = FALSE /\ at' = [at EXCEPT ![i] = at[i]]
    BY <1>4, <1>6, DescriptorsFacts, ChildFacts
  <2>2. flight' = [flight EXCEPT ![i] = flight[i]] /\ flight[i] \in Seq(Visitor)
    BY <1>4, ChildFacts
  <2> QED
    BY <1>4, <1>7, <1>8, <2>1, <2>2 DEF BecomesOf
<1>14. OwnsOf(i, at[i], t, v, flight[i])
  <2>1. \A x, y \in 1 .. Len(flight[i]) : flight[i][x] = flight[i][y] => x = y
    BY ChildFacts
  <2> QED
    BY <1>4, <1>9, <1>10, <1>11, <1>12, <2>1 DEF OwnsOf
<1> QED
  BY <1>13, <1>14, SubKeeps

LEMMA SubEnds ==
    ASSUME DescriptorsInv, NEW i \in SubProcess, Leave(i) \/ SubCrash(i)
    PROVE  DescriptorsInv'
<1>1. PICK v : v = [c \in Visitor |-> None]
  OBVIOUS
<1>2. PICK f : f = << >>
  OBVIOUS
<1>3. /\ at[i] # "none" /\ at' = [at EXCEPT ![i] = "gone"]
      /\ table' = [table EXCEPT ![i] = EmptyTable] /\ serving' = [serving EXCEPT ![i] = v]
      /\ flight' = [flight EXCEPT ![i] = f]
      /\ processNum_' = processNum_ /\ forked' = forked /\ sockets' = sockets
      /\ visitor' = visitor /\ turn' = turn /\ stray' = stray
  BY <1>1, <1>2 DEF Leave, SubCrash, End
<1>4. f \in Seq(Visitor) /\ Len(f) = 0 /\ 1 .. Len(f) = {}
  BY <1>2
<1>5. v \in [Visitor -> Number \union {None}] /\ \A c \in Visitor : v[c] = None
  BY <1>1
<1>6. /\ EmptyTable \in Table /\ \A n \in Number : EmptyTable[n] = NoFile
      /\ None \notin Number
      /\ \A j \in SubProcess : ChildEnd(j) # NoFile
      /\ \A c \in Visitor : OfClient(c) # NoFile
  BY FileFacts, FileKinds, NumberFacts
<1>7. BecomesOf(i, "gone", EmptyTable, v, f)
  BY <1>3, <1>4, <1>5, <1>6, DescriptorsFacts DEF BecomesOf
<1>8. OwnsOf(i, "gone", EmptyTable, v, f)
  <2>1. \A n \in Number, c \in Visitor : EmptyTable[n] = OfClient(c) <=> v[c] = n
    BY <1>5, <1>6
  <2> QED
    BY <1>2, <1>4, <1>5, <1>6, <2>1 DEF OwnsOf
<1> QED
  BY <1>7, <1>8, SubKeeps

-------------------------------------------------------------------------------
\* The end, and the clients.

LEMMA ParentExitsKeeps ==
    ASSUME DescriptorsInv, ParentExits
    PROVE  DescriptorsInv'
<1>1. /\ at[0] = "looping" /\ table' = [table EXCEPT ![0] = EmptyTable]
      /\ at' = [p \in Process |-> IF p = 0 THEN "gone"
                                  ELSE IF at[p] \in {"new", "looping"} THEN "ending" ELSE at[p]]
      /\ processNum_' = processNum_ /\ forked' = forked /\ sockets' = sockets
      /\ serving' = serving /\ flight' = flight /\ visitor' = visitor /\ turn' = turn
      /\ stray' = stray
  BY DEF ParentExits
<1>2. DescriptorsTypeOK /\ ParentInv /\ stray = FALSE /\ 0 \in Process /\ NextNumber \in Number
  BY DescriptorsFacts, NumberFacts
<1>3. /\ at'[0] = "gone" /\ at' \in [Process -> Doing]
      /\ \A p \in Process : p # 0 =>
            at'[p] = IF at[p] \in {"new", "looping"} THEN "ending" ELSE at[p]
  BY <1>1, <1>2 DEF DescriptorsTypeOK, Doing
<1>4. /\ table'[0] = EmptyTable /\ \A p \in Process : p # 0 => table'[p] = table[p]
      /\ table' \in [Process -> Table]
  BY <1>1, <1>2, DescriptorsFacts, FileFacts
<1>5. DescriptorsTypeOK'
  BY <1>1, <1>2, <1>3, <1>4 DEF DescriptorsTypeOK, Doing, Table
<1>6. NextNumber' = NextNumber
  BY <1>1 DEF NextNumber
<1>7. ParentInv'
  <2>1. sockets' = << >> /\ Len(sockets') = 0 /\ Len(sockets') <= Depth
    BY <1>1, <1>2 DEF ParentInv, Depth
  <2>2. ~Carries' /\ table'[0][NextNumber'] = NoFile
    BY <1>2, <1>4, <1>6, <2>1, FileFacts DEF Carries
  <2>3. \A k \in 1 .. Len(sockets') : k < Len(sockets') => sockets'[k] = None
    BY <2>1
  <2> QED
    BY <1>3, <1>4, <2>1, <2>2, <2>3 DEF ParentInv
<1>8. ASSUME NEW j \in SubProcess PROVE SubInv(j)' /\ OnceInFlight(j)'
  <2>1. SubInv(j) /\ OnceInFlight(j) /\ j \in Process /\ j # 0
    BY DescriptorsFacts, NumberFacts
  <2>2. /\ at'[j] = (IF at[j] \in {"new", "looping"} THEN "ending" ELSE at[j])
        /\ table'[j] = table[j]
    BY <1>3, <1>4, <2>1
  <2>3. OnceInFlight(j)'
    BY <1>1, <2>1, FlightSame
  <2>4. CASE at[j] \in {"new", "looping"}
    <3>1. at'[j] = "ending" /\ ~(j > forked')
      BY <1>1, <2>1, <2>2, <2>4 DEF SubInv
    <3>2. /\ \A k \in SubProcess, n \in Number : table'[j][n] = ChildEnd(k) => j = k
          /\ \A n \in Number, c \in Visitor : table'[j][n] = OfClient(c) <=> serving'[j][c] = n
      BY <1>1, <2>1, <2>2 DEF SubInv
    <3> QED
      BY <2>3, <3>1, <3>2 DEF SubInv
  <2>5. CASE at[j] \notin {"new", "looping"}
    <3>1. at'[j] = at[j]
      BY <2>2, <2>5
    <3> QED
      BY <1>1, <2>1, <2>2, <2>3, <3>1, SubSame
  <2> QED
    BY <2>4, <2>5
<1>9. ASSUME NEW c \in Visitor PROVE ClientInv(c)'
  <2>1. Waiting(c)' => Waiting(c)
    BY <1>1, <1>3 DEF Waiting
  <2>2. \A j \in SubProcess : (Serves(j, c)' => Serves(j, c)) /\ (Flies(j, c)' => Flies(j, c))
    BY <1>1 DEF Serves, Flies
  <2> QED
    BY <2>1, <2>2, DescriptorsFacts, ClientSame
<1> QED
  BY <1>1, <1>2, <1>5, <1>7, <1>8, <1>9 DEF DescriptorsInv

\* What is not a client's step.
LEMMA VisitorKeeps ==
    ASSUME DescriptorsInv,
           UNCHANGED <<processNum_, at, table, forked, sockets, serving, flight, turn, stray>>,
           visitor' \in [Visitor -> {"away", "backlog", "open", "hungUp"}],
           \A c \in Visitor : /\ visitor[c] \in {"open", "hungUp"} => visitor'[c] \in {"open", "hungUp"}
                              /\ visitor'[c] \in {"away", "backlog"} => visitor[c] \in {"away", "backlog"}
    PROVE  DescriptorsInv'
<1>1. /\ processNum_' = processNum_ /\ at' = at /\ table' = table /\ forked' = forked
      /\ sockets' = sockets /\ serving' = serving /\ flight' = flight /\ turn' = turn
      /\ stray' = stray
  OBVIOUS
<1>2. DescriptorsTypeOK /\ ParentInv /\ stray = FALSE
  BY DescriptorsFacts
<1>3. DescriptorsTypeOK'
  BY <1>1, <1>2 DEF DescriptorsTypeOK
<1>4. ParentInv'
  BY <1>1, <1>2, ParentSame
<1>5. ASSUME NEW j \in SubProcess PROVE SubInv(j)' /\ OnceInFlight(j)'
  <2>1. SubInv(j) /\ OnceInFlight(j)
    BY DescriptorsFacts
  <2> QED
    BY <1>1, <2>1, SubSame, FlightSame
<1>6. ASSUME NEW c \in Visitor PROVE ClientInv(c)'
  <2>1. Waiting(c)' => Waiting(c)
    BY <1>1 DEF Waiting, NextNumber
  <2>2. \A j \in SubProcess : (Serves(j, c)' => Serves(j, c)) /\ (Flies(j, c)' => Flies(j, c))
    BY <1>1 DEF Serves, Flies
  <2> QED
    BY <2>1, <2>2, DescriptorsFacts, ClientSame
<1> QED
  BY <1>1, <1>2, <1>3, <1>4, <1>5, <1>6 DEF DescriptorsInv

LEMMA ArriveKeeps ==
    ASSUME DescriptorsInv, NEW c \in Visitor, Arrive(c) \/ HangUp(c)
    PROVE  DescriptorsInv'
<1>1. DescriptorsTypeOK
  BY DescriptorsFacts
<1>2. /\ UNCHANGED <<processNum_, at, table, forked, sockets, serving, flight, turn, stray>>
      /\ \/ visitor[c] = "away" /\ visitor' = [visitor EXCEPT ![c] = "backlog"]
         \/ visitor[c] = "open" /\ visitor' = [visitor EXCEPT ![c] = "hungUp"]
  BY DEF Arrive, HangUp
<1>3. visitor' \in [Visitor -> {"away", "backlog", "open", "hungUp"}]
  BY <1>1, <1>2 DEF DescriptorsTypeOK
<1>4. \A d \in Visitor :
         /\ visitor[d] \in {"open", "hungUp"} => visitor'[d] \in {"open", "hungUp"}
         /\ visitor'[d] \in {"away", "backlog"} => visitor[d] \in {"away", "backlog"}
  BY <1>1, <1>2 DEF DescriptorsTypeOK
<1> QED
  BY <1>2, <1>3, <1>4, VisitorKeeps

-------------------------------------------------------------------------------
\* The invariant.

LEMMA DescriptorsInitHolds ==
    ASSUME DescriptorsInit
    PROVE  DescriptorsInv
<1>1. PICK e : e = Opened(EmptyTable, EpollOf(0))
  OBVIOUS
<1>2. PICK u : u = Opened(e, TimerOf(0))
  OBVIOUS
<1>3. PICK t : t = Opened(u, Listening)
  OBVIOUS
<1>4. /\ processNum_ \in SubProcess /\ forked = 0 /\ sockets = << >> /\ turn = 0 /\ stray = FALSE
      /\ at = [p \in Process |-> IF p = 0 THEN "forking" ELSE "none"]
      /\ table = [p \in Process |-> IF p = 0 THEN t ELSE EmptyTable]
      /\ serving = [i \in SubProcess |-> [c \in Visitor |-> None]]
      /\ flight = [i \in SubProcess |-> << >>]
      /\ visitor = [c \in Visitor |-> "away"]
  BY <1>1, <1>2, <1>3 DEF DescriptorsInit, WithLoop
<1>5. /\ MaxProcesses \in Nat /\ processNum_ \in Nat /\ processNum_ >= 1
      /\ 0 < OpenMax /\ 1 < OpenMax /\ 2 < OpenMax
  BY <1>4, MaxProcessesAssumption, SpareAssumption DEF OpenMax, SubProcess
<1>6. /\ 0 \in Number /\ 1 \in Number /\ 2 \in Number /\ 3 \in Number /\ 0 \in Process
      /\ Number \subseteq Nat /\ None \notin Number
      /\ EmptyTable \in Table /\ \A n \in Number : EmptyTable[n] = NoFile
      /\ EpollOf(0) \in File /\ TimerOf(0) \in File /\ Listening \in File
      /\ EpollOf(0) # NoFile /\ TimerOf(0) # NoFile /\ Listening # NoFile
  BY NumberFacts, FileFacts, FileKinds
<1>7. e \in Table /\ e[0] = EpollOf(0) /\ \A n \in Number : n # 0 => e[n] = NoFile
  <2>1. 0 \in Free(EmptyTable) /\ \A n \in Free(EmptyTable) : 0 <= n
    BY <1>5, <1>6 DEF Free
  <2>2. Lowest(EmptyTable) = 0
    BY <2>1, LowestIs
  <2> QED
    BY <1>1, <1>6, <2>2, OpenedFacts
<1>8. /\ u \in Table /\ u[0] = EpollOf(0) /\ u[1] = TimerOf(0)
      /\ \A n \in Number : n # 0 /\ n # 1 => u[n] = NoFile
  <2>1. 1 \in Free(e)
    BY <1>5, <1>6, <1>7 DEF Free
  <2>2. \A n \in Free(e) : 1 <= n
    BY <1>6, <1>7 DEF Free
  <2>3. Lowest(e) = 1
    BY <2>1, <2>2, LowestIs
  <2>4. u \in Table /\ u[1] = TimerOf(0) /\ \A n \in Number : n # 1 => u[n] = e[n]
    BY <1>2, <1>6, <1>7, <2>3, OpenedFacts
  <2> QED
    BY <1>6, <1>7, <2>4
<1>9. /\ t \in Table /\ t[0] = EpollOf(0) /\ t[1] = TimerOf(0) /\ t[2] = Listening
      /\ \A n \in Number : n # 0 /\ n # 1 /\ n # 2 => t[n] = NoFile
  <2>1. 2 \in Free(u)
    BY <1>5, <1>6, <1>8 DEF Free
  <2>2. \A n \in Free(u) : 2 <= n
    BY <1>6, <1>8 DEF Free
  <2>3. Lowest(u) = 2
    BY <2>1, <2>2, LowestIs
  <2>4. t \in Table /\ t[2] = Listening /\ \A n \in Number : n # 2 => t[n] = u[n]
    BY <1>3, <1>6, <1>8, <2>3, OpenedFacts
  <2> QED
    BY <1>6, <1>8, <2>4
<1>10. \A n \in Number : t[n] = Own(n, 0)
  <2>1. \A n \in Number : n # 0 /\ n # 1 /\ n # 2 => ~(n <= 2 + 0)
    BY <1>6
  <2> QED
    BY <1>9, <2>1 DEF Own
<1>11. /\ at[0] = "forking" /\ table[0] = t /\ at \in [Process -> Doing]
       /\ table \in [Process -> Table]
  BY <1>4, <1>6, <1>9 DEF Doing
<1>12. DescriptorsTypeOK
  <2>1. forked \in 0 .. processNum_ /\ turn \in 0 .. processNum_ - 1
    BY <1>4, <1>5
  <2>6. stray \in BOOLEAN
    BY <1>4
  <2>2. sockets \in Seq(Number \union {None})
    BY <1>4
  <2>3. flight \in [SubProcess -> Seq(Visitor)]
    BY <1>4
  <2>4. serving \in [SubProcess -> [Visitor -> Number \union {None}]]
    BY <1>4
  <2>5. visitor \in [Visitor -> {"away", "backlog", "open", "hungUp"}]
    BY <1>4
  <2> QED
    BY <1>4, <1>11, <2>1, <2>2, <2>3, <2>4, <2>5, <2>6 DEF DescriptorsTypeOK, Doing, Table
<1>13. ParentInv
  <2>1. NextNumber = 3 /\ ~Carries
    BY <1>4 DEF NextNumber, Carries
  <2>2. Len(sockets) = 0 /\ Len(sockets) <= Depth
    BY <1>4 DEF Depth
  <2>3. /\ \A k \in 1 .. Len(sockets) : k < Len(sockets) => sockets[k] = None
        /\ forked < processNum_
    BY <1>4, <1>5, <2>2
  <2>4. table[0][3] = NoFile
    BY <1>6, <1>9, <1>11
  <2> QED
    BY <1>4, <1>10, <1>11, <2>1, <2>2, <2>3, <2>4 DEF ParentInv
<1>14. ASSUME NEW j \in SubProcess PROVE SubInv(j) /\ OnceInFlight(j)
  <2>1. j \in Process /\ j # 0
    BY NumberFacts
  <2>2. at[j] = "none" /\ table[j] = EmptyTable
    BY <1>4, <2>1
  <2>3. flight[j] = << >>
    BY <1>4
  <2>4. serving[j] = [c \in Visitor |-> None]
    BY <1>4
  <2>5. \A k \in SubProcess, n \in Number : table[j][n] # ChildEnd(k)
    BY <1>6, <2>2, FileKinds
  <2>6. \A n \in Number, c \in Visitor : table[j][n] # OfClient(c) /\ serving[j][c] # n
    BY <1>6, <2>2, <2>4, FileKinds
  <2>7. SubInv(j)
    BY <2>2, <2>3, <2>5, <2>6 DEF SubInv
  <2>8. Len(flight[j]) = 0
    BY <2>3
  <2> QED
    BY <2>7, <2>8 DEF OnceInFlight
<1>15. ASSUME NEW c \in Visitor PROVE ClientInv(c)
  <2>1. ASSUME NEW j \in SubProcess PROVE ~Serves(j, c) /\ ~Flies(j, c)
    <3>1. serving[j][c] = None /\ flight[j] = << >>
      BY <1>4
    <3>2. Len(flight[j]) = 0
      BY <3>1
    <3> QED
      BY <3>1, <3>2 DEF Serves, Flies
  <2> QED
    BY <2>1 DEF ClientInv
<1> QED
  BY <1>4, <1>12, <1>13, <1>14, <1>15 DEF DescriptorsInv

LEMMA DescriptorsStepKeeps ==
    ASSUME DescriptorsInv, [DescriptorsNext]_descriptorVars
    PROVE  DescriptorsInv'
<1>1. CASE Step
  <2>1. CASE Poll \/ AcceptFails
    BY <2>1, RoundKeeps
  <2>2. CASE Move
    BY <2>2, MoveKeeps
  <2>3. CASE SendFd
    BY <2>3, SendFdKeeps
  <2>4. CASE Destroy
    BY <2>4, DestroyKeeps
  <2>5. CASE \E c \in Visitor : AcceptSocket(c)
    BY <2>5, AcceptSocketKeeps
  <2>6. CASE \E i \in SubProcess : CreateChildProcess(i) \/ SubStarts(i)
    BY <2>6, CreateKeeps, SubStartsKeeps
  <2> QED
    BY <1>1, <2>1, <2>2, <2>3, <2>4, <2>5, <2>6 DEF Step
<1>2. CASE ParentExits
  BY <1>2, ParentExitsKeeps
<1>3. ASSUME NEW i \in SubProcess, SubStep(i) \/ ReceiveEnd(i) \/ SubCrash(i)
      PROVE  DescriptorsInv'
  <2>1. CASE Receive(i)
    BY <2>1, ReceiveFdKeeps
  <2>2. CASE ReceiveGarbage(i) \/ ReceiveEnd(i)
    BY <2>2, ReceiveNothingKeeps
  <2>3. CASE Leave(i) \/ SubCrash(i)
    BY <2>3, SubEnds
  <2>4. CASE \E c \in Visitor : Close(i, c)
    BY <2>4, CloseKeeps
  <2> QED
    BY <1>3, <2>1, <2>2, <2>3, <2>4 DEF SubStep
<1>4. CASE \E c \in Visitor : Arrive(c) \/ HangUp(c)
  BY <1>4, ArriveKeeps
<1>5. CASE UNCHANGED descriptorVars
  <2>1. /\ UNCHANGED <<processNum_, at, table, forked, sockets, serving, flight, turn, stray>>
        /\ visitor' = visitor
    BY <1>5 DEF descriptorVars
  <2>2. visitor \in [Visitor -> {"away", "backlog", "open", "hungUp"}]
    BY DescriptorsFacts DEF DescriptorsTypeOK
  <2> QED
    BY <2>1, <2>2, VisitorKeeps
<1> QED
  BY <1>1, <1>2, <1>3, <1>4, <1>5 DEF DescriptorsNext

\* The number of a client that the parent has belongs to its last Socket.
LEMMA ParentSockets ==
    ASSUME DescriptorsInv
    PROVE  /\ \A n \in Number :
                 table[0][n][1] = "client" <=> \E k \in 1 .. Len(sockets) : sockets[k] = n
           /\ \A j, k \in 1 .. Len(sockets) : sockets[j] = sockets[k] /\ sockets[j] # None => j = k
<1>1. /\ DescriptorsTypeOK /\ ParentInv /\ NextNumber \in Number /\ None \notin Number
      /\ forked \in 0 .. MaxProcesses
  BY DescriptorsFacts, NumberFacts
<1>2. ASSUME NEW n \in Number, n # NextNumber PROVE table[0][n][1] # "client"
  <2>1. CASE at[0] = "gone"
    <3>1. table[0][n] = NoFile
      BY <1>1, <2>1, FileFacts DEF ParentInv
    <3> QED
      BY <3>1, FileKinds
  <2>2. CASE at[0] # "gone"
    <3>1. table[0][n] = Own(n, forked)
      BY <1>1, <1>2, <2>2 DEF ParentInv
    <3> QED
      BY <1>1, <3>1, OwnFacts
  <2> QED
    BY <2>1, <2>2
<1>3. Len(sockets) \in Nat /\ (sockets # << >> => Len(sockets) >= 1) /\ (Len(sockets) >= 1 => sockets # << >>)
  <2>1. sockets \in Seq(Number \union {None})
    BY <1>1 DEF DescriptorsTypeOK
  <2> QED
    BY <2>1, EmptySeq
<1>4. \A k \in 1 .. Len(sockets) : k # Len(sockets) => sockets[k] = None
  BY <1>1, <1>3 DEF ParentInv
<1>5. CASE Carries
  <2>1. sockets[Len(sockets)] = NextNumber /\ sockets # << >>
    BY <1>1, <1>5 DEF ParentInv, Carries
  <2>2. PICK d \in Visitor : table[0][NextNumber] = OfClient(d)
    BY <1>1, <1>5 DEF ParentInv
  <2>3. table[0][NextNumber][1] = "client"
    BY <2>2, FileKinds
  <2>4. Len(sockets) \in 1 .. Len(sockets)
    BY <1>3, <2>1
  <2>5. \A n \in Number : table[0][n][1] = "client" <=> n = NextNumber
    BY <1>1, <1>2, <2>3
  <2>6. ASSUME NEW n \in Number
        PROVE  n = NextNumber <=> \E k \in 1 .. Len(sockets) : sockets[k] = n
    <3>1. ASSUME NEW k \in 1 .. Len(sockets), sockets[k] = n PROVE n = NextNumber
      BY <1>1, <1>4, <2>1, <3>1
    <3> QED
      BY <2>1, <2>4, <3>1
  <2>7. \A j, k \in 1 .. Len(sockets) : sockets[j] = sockets[k] /\ sockets[j] # None => j = k
    BY <1>4
  <2> QED
    BY <2>5, <2>6, <2>7
<1>6. CASE ~Carries
  <2>1. /\ table[0][NextNumber] = NoFile
        /\ sockets # << >> => sockets[Len(sockets)] = None
    BY <1>1, <1>6 DEF ParentInv
  <2>2. \A k \in 1 .. Len(sockets) : sockets[k] = None
    BY <1>3, <1>4, <2>1
  <2>3. NoFile[1] # "client"
    BY FileKinds
  <2>4. \A n \in Number : table[0][n][1] # "client"
    BY <1>2, <2>1, <2>3
  <2> QED
    BY <1>1, <2>2, <2>4
<1> QED
  BY <1>5, <1>6

LEMMA OneSocketHolds ==
    ASSUME DescriptorsInv
    PROVE  OneSocket
<1>1. \A i \in SubProcess, n \in Number, c \in Visitor :
         table[i][n] = OfClient(c) <=> serving[i][c] = n
  BY ChildFacts
<1>2. ASSUME NEW c \in Visitor, NEW i \in SubProcess, NEW j \in SubProcess,
             serving[i][c] # None, serving[j][c] # None
      PROVE  i = j
  BY <1>2, DescriptorsFacts DEF ClientInv, Serves
<1> QED
  BY <1>1, <1>2, ParentSockets DEF OneSocket

\* At rest the parent has what it started with and its ends of the pairs.
LEMMA RestHolds ==
    ASSUME DescriptorsInv, at[0] \in {"looping", "accepting"}, sockets = << >>
    PROVE  {table[0][n] : n \in Number} \ {NoFile} =
             {Listening, EpollOf(0), TimerOf(0)} \union {ParentEnd(i) : i \in 1 .. processNum_}
<1>1. ParentInv /\ ~Carries /\ forked = processNum_ /\ forked \in Nat /\ forked <= MaxProcesses
  BY DescriptorsFacts, MaxProcessesAssumption DEF ParentInv, Carries
<1>2. \A n \in Number : table[0][n] = Own(n, forked)
  BY <1>1, NextIsLowest
<1>3. /\ 0 \in Number /\ 1 \in Number /\ 2 \in Number /\ Number \subseteq Nat
      /\ EpollOf(0) # NoFile /\ TimerOf(0) # NoFile /\ Listening # NoFile
      /\ \A i : ParentEnd(i) # NoFile
  BY NumberFacts, FileKinds
<1>4. /\ Own(0, forked) = EpollOf(0) /\ Own(1, forked) = TimerOf(0) /\ Own(2, forked) = Listening
  BY DEF Own
<1>5. ASSUME NEW n \in Number, Own(n, forked) # NoFile
      PROVE  \/ Own(n, forked) \in {Listening, EpollOf(0), TimerOf(0)}
             \/ \E i \in 1 .. processNum_ : Own(n, forked) = ParentEnd(i)
  <2>1. CASE n \in {0, 1, 2}
    BY <1>4, <2>1
  <2>2. CASE n \notin {0, 1, 2}
    <3>1. n > 2 /\ n <= 2 + forked /\ Own(n, forked) = ParentEnd(n - 2)
      BY <1>1, <1>3, <1>5, <2>2 DEF Own
    <3>2. n - 2 \in 1 .. processNum_
      BY <1>1, <1>3, <3>1
    <3> QED
      BY <3>1, <3>2
  <2> QED
    BY <2>1, <2>2
<1>6. ASSUME NEW i \in 1 .. processNum_
      PROVE  i + 2 \in Number /\ Own(i + 2, forked) = ParentEnd(i)
  <2>1. i \in Nat /\ i >= 1 /\ i <= forked /\ i <= MaxProcesses
    BY <1>1, MaxProcessesAssumption
  <2>2. i + 2 \in Number
    BY <2>1, MaxProcessesAssumption, SpareAssumption DEF Number
  <2>3. i + 2 # 0 /\ i + 2 # 1 /\ i + 2 # 2 /\ i + 2 <= 2 + forked /\ (i + 2) - 2 = i
    BY <1>1, <2>1
  <2> QED
    BY <2>2, <2>3 DEF Own
<1>7. ASSUME NEW x
      PROVE  x \in {table[0][n] : n \in Number} \ {NoFile} <=>
             x \in {Listening, EpollOf(0), TimerOf(0)} \union {ParentEnd(i) : i \in 1 .. processNum_}
  <2>1. ASSUME NEW n \in Number, x = table[0][n], x # NoFile
        PROVE  x \in {Listening, EpollOf(0), TimerOf(0)} \union {ParentEnd(i) : i \in 1 .. processNum_}
    <3>1. x = Own(n, forked)
      BY <1>2, <2>1
    <3> QED
      BY <1>5, <2>1, <3>1
  <2>2. CASE x \in {Listening, EpollOf(0), TimerOf(0)}
    <3>1. x # NoFile
      BY <1>3, <2>2
    <3>2. /\ table[0][0] = EpollOf(0) /\ table[0][1] = TimerOf(0)
          /\ table[0][2] = Listening
      BY <1>2, <1>3, <1>4
    <3>3. \E n \in Number : x = table[0][n]
      BY <1>3, <2>2, <3>2
    <3> QED
      BY <2>2, <3>1, <3>3
  <2>3. ASSUME NEW i \in 1 .. processNum_, x = ParentEnd(i)
        PROVE  x \in {table[0][n] : n \in Number} \ {NoFile}
    <3>1. x # NoFile
      BY <1>3, <2>3
    <3>2. i + 2 \in Number /\ x = table[0][i + 2]
      BY <1>2, <1>6, <2>3
    <3> QED
      BY <3>1, <3>2
  <2> QED
    BY <2>1, <2>2, <2>3
<1> QED
  BY <1>7

LEMMA OwnedHolds ==
    ASSUME DescriptorsInv
    PROVE  DescriptorsAreOwned
<1>1. DescriptorsTypeOK /\ ~stray /\ OneSocket
  BY DescriptorsFacts, OneSocketHolds
<1>2. ASSUME NEW p \in Process, NEW i \in SubProcess, NEW n \in Number, table[p][n] = ChildEnd(i)
      PROVE  p = i
  <2>1. CASE p \in SubProcess
    BY <1>2, <2>1, ChildFacts
  <2>2. CASE p = 0
    <3>1. ChildEnd(i)[1] = "childEnd" /\ NoFile[1] = "none"
      BY FileKinds
    <3>2. table[0][n] # ChildEnd(i)
      <4>1. ParentInv /\ forked \in 0 .. MaxProcesses
        BY DescriptorsFacts
      <4>2. CASE at[0] = "gone"
        BY <3>1, <4>1, <4>2, FileFacts DEF ParentInv
      <4>3. CASE at[0] # "gone" /\ n # NextNumber
        <5>1. table[0][n] = Own(n, forked)
          BY <4>1, <4>3 DEF ParentInv
        <5> QED
          BY <3>1, <4>1, <5>1, OwnFacts
      <4>4. CASE n = NextNumber
        <5>1. table[0][n] = NoFile \/ \E c \in Visitor : table[0][n] = OfClient(c)
          BY <4>1, <4>4 DEF ParentInv
        <5>2. \A c \in Visitor : OfClient(c)[1] = "client"
          BY FileKinds
        <5> QED
          BY <3>1, <5>1, <5>2
      <4> QED
        BY <4>2, <4>3, <4>4
    <3> QED
      BY <1>2, <2>2, <3>2
  <2> QED
    BY <2>1, <2>2, NumberFacts
<1> QED
  BY <1>1, <1>2, RestHolds DEF DescriptorsAreOwned

\* A number is closed once, by the Socket that has it last, and only while it stands for the
\* connection it was given for; at rest the parent has nothing but what it started with, and
\* a connection is open in one child only: whatever the number of children, of clients and
\* of free numbers, and whoever dies (~Socket, Socket's move constructor, sendFd, receiveFd).
THEOREM DescriptorsOwned == DescriptorsSpec => []DescriptorsAreOwned
<1>1. DescriptorsInit => DescriptorsInv
  BY DescriptorsInitHolds
<1>2. DescriptorsInv /\ [DescriptorsNext]_descriptorVars => DescriptorsInv'
  BY DescriptorsStepKeeps
<1>3. DescriptorsInv => DescriptorsAreOwned
  BY OwnedHolds
<1> QED
  BY <1>1, <1>2, <1>3, PTL DEF DescriptorsSpec
===============================================================================
