-------------------------- MODULE TcpServerProofs ---------------------------
(***************************************************************************)
(* Proofs about TcpServer, for any number of connections, loops and pools, *)
(* while the server is up.  As long as no thread but the loops uses a      *)
(* connection, no assertion on the way of a connection fails, epoll knows  *)
(* only connections that are held, and none is forgotten (SafeInv).  With  *)
(* threads that send, or threads that shut down, the removal is not        *)
(* repeated, and a late shutdown() makes no handler abort (HarmInv).       *)
(***************************************************************************)
EXTENDS TcpServer, SequenceTheorems, TLAPS

\* What is left to run of a batch b, from position p, and of the queue q after it.
RestLen(b, p, q) == (Len(b) - p) + Len(q)
RestAt(b, p, q, i) == IF i <= Len(b) - p THEN b[p + i] ELSE q[i - (Len(b) - p)]

\* The functors a loop has still to run: the rest of its batch, then its queue.
TodoLen(l) == RestLen(batch[l], pos[l], queue[l])
TodoAt(l, i) == RestAt(batch[l], pos[l], queue[l], i)
Todo(l) == 1 .. TodoLen(l)

Waits(c) == \E l \in Loops : \E i \in Todo(l) : TodoAt(l, i).conn = c

\* The states of a connection that serves its client.
Open == {"kConnected", "kDisconnecting"}

\* A functor that waits in loop l agrees with the state of its connection.
Fits(f, l) ==
    /\ f.shared
    /\ \/ /\ f.op = "established"
          /\ conn[f.conn].state = "kConnecting"
          /\ conn[f.conn].loop = l
       \/ /\ f.op = "remove"
          /\ conn[f.conn].state = "kDisconnected"
          /\ f.conn \in inMap
          /\ l = Base
          /\ conn[f.conn].loop # Base
       \/ /\ f.op = "destroyed"
          /\ conn[f.conn].state = "kDisconnected"
          /\ f.conn \notin inMap
          /\ conn[f.conn].loop = l

FunctorInv == \A l \in Loops : \A i \in Todo(l) : Fits(TodoAt(l, i), l)

\* No connection has two functors waiting.
OnceInv == \A l, m \in Loops : \A i \in Todo(l), j \in Todo(m) :
                TodoAt(l, i).conn = TodoAt(m, j).conn => l = m /\ i = j

\* Where a connection stands: in the map, in epoll, on its way out.
ConnInv(c) ==
    /\ conn[c].state \in {"unborn", "kConnecting"} =>
            conn[c].status = "kNew" /\ conn[c].events = {}
    /\ conn[c].state \in {"kConnecting"} \union Open => c \in inMap
    /\ conn[c].state \in Open => conn[c].status = "kAdded" /\ "read" \in conn[c].events
    /\ conn[c].state = "kDisconnected" =>
            /\ conn[c].events = {}
            /\ conn[c].status # "kAdded"
            /\ conn[c].status = "kDeleted" => c \in inMap \/ Waits(c)
    /\ conn[c].state = "unborn" => c \notin inMap

\* Nobody but the loops uses a connection, and the program goes on.
QuietInv == /\ failed = "none"
            /\ server = "up"
            /\ \A u \in Users : user[u].ops = {} /\ user[u].holds = NotHeld
                                /\ user[u].at = "out"

SafeInv == FunctorInv /\ OnceInv /\ (\A c \in Conns : ConnInv(c)) /\ QuietInv
-----------------------------------------------------------------------------
\* What the helpers do to a record.
LEMMA SetEventsType ==
    ASSUME NEW r \in Record, NEW e \in SUBSET {"read", "write"}
    PROVE  /\ SetEvents(r, e) \in Record
           /\ SetEvents(r, e).state = r.state /\ SetEvents(r, e).loop = r.loop
           /\ SetEvents(r, e).events = e
           /\ SetEvents(r, e).status = IF r.status = "kAdded" /\ e = {} THEN "kDeleted" ELSE "kAdded"
  BY DEF SetEvents, UpdateChannel, Record

LEMMA ShutdownType ==
    ASSUME NEW r \in Record
    PROVE  /\ ShutdownInLoop(r) \in Record
           /\ ShutdownInLoop(r).state = r.state /\ ShutdownInLoop(r).loop = r.loop
           /\ ShutdownInLoop(r).events = r.events /\ ShutdownInLoop(r).status = r.status
  BY DEF ShutdownInLoop, Record

\* A callback of an open connection leaves it open and registered for reading.
LEMMA CallbackKeepsOpen ==
    ASSUME NEW r \in Record, r.state \in Open, r.status = "kAdded", "read" \in r.events,
           NEW s \in AfterCallback(r)
    PROVE  /\ s \in Record
           /\ s.state = r.state \/ s.state = "kDisconnecting"
           /\ s.status = "kAdded" /\ "read" \in s.events
           /\ s.loop = r.loop
<1> DEFINE Good(x) == /\ x \in Record
                      /\ x.state \in Open
                      /\ x.status = "kAdded" /\ "read" \in x.events
                      /\ x.loop = r.loop
<1>1. ASSUME NEW all \in BOOLEAN
      PROVE  Good(Send(r, all)) /\ Send(r, all).state = r.state
  <2>1. CASE Send(r, all) = r
    BY <2>1
  <2>2. CASE Send(r, all) = SetEvents([r EXCEPT !.out = TRUE], r.events \union {"write"})
    <3> DEFINE q == [r EXCEPT !.out = TRUE]
               e == r.events \union {"write"}
    <3>1. q \in Record /\ e \in SUBSET {"read", "write"} /\ e # {}
      BY DEF Record
    <3>2. /\ q.state = r.state /\ q.loop = r.loop /\ q.status = "kAdded"
      BY DEF Record
    <3> HIDE DEF q, e
    <3>3. /\ SetEvents(q, e) \in Record
          /\ SetEvents(q, e).state = q.state /\ SetEvents(q, e).loop = q.loop
          /\ SetEvents(q, e).events = e
          /\ SetEvents(q, e).status = IF q.status = "kAdded" /\ e = {} THEN "kDeleted" ELSE "kAdded"
      BY <3>1, SetEventsType
    <3>4. "read" \in e
      BY DEF e
    <3> QED
      BY <2>2, <3>1, <3>2, <3>3, <3>4 DEF q, e
  <2> QED
    BY <2>1, <2>2 DEF Send, SendInLoop
<1>2. ASSUME NEW x, Good(x)
      PROVE  Good(Shutdown(x)) /\ (Shutdown(x).state = x.state \/ Shutdown(x).state = "kDisconnecting")
  <2>1. CASE x.state = "kConnected"
    <3> DEFINE q == [x EXCEPT !.state = "kDisconnecting"]
    <3>1. /\ q \in Record /\ q.state = "kDisconnecting" /\ q.status = x.status
          /\ q.events = x.events /\ q.loop = x.loop
      BY <1>2 DEF Record, States
    <3> HIDE DEF q
    <3>2. Shutdown(x) = ShutdownInLoop(q)
      BY <2>1 DEF Shutdown, q
    <3>3. /\ ShutdownInLoop(q) \in Record
          /\ ShutdownInLoop(q).state = q.state /\ ShutdownInLoop(q).status = q.status
          /\ ShutdownInLoop(q).events = q.events /\ ShutdownInLoop(q).loop = q.loop
      BY <3>1, ShutdownType
    <3> QED
      BY <1>2, <3>1, <3>2, <3>3 DEF Open
  <2>2. CASE x.state # "kConnected"
    BY <1>2, <2>2 DEF Shutdown
  <2> QED
    BY <2>1, <2>2
<1>3. PICK x \in {r, Send(r, TRUE), Send(r, FALSE)} : s = x \/ s = Shutdown(x)
  BY DEF AfterCallback
<1>4. Good(x) /\ x.state = r.state
  BY <1>1, <1>3
<1> QED
  BY <1>2, <1>3, <1>4

\* sendInLoop keeps the type of the record.
LEMMA SendInLoopType ==
    ASSUME NEW r \in Record, NEW all \in BOOLEAN
    PROVE  SendInLoop(r, all) \in Record
<1> DEFINE q == [r EXCEPT !.out = TRUE]
           e == r.events \union {"write"}
<1>1. q \in Record /\ e \in SUBSET {"read", "write"}
  BY DEF Record
<1> HIDE DEF q, e
<1>2. SetEvents(q, e) \in Record
  BY <1>1, SetEventsType
<1>3. SendInLoop(r, all) = SetEvents(q, e) \/ SendInLoop(r, all) = r
  BY DEF SendInLoop, q, e
<1> QED
  BY <1>2, <1>3

LEMMA CallbackType ==
    ASSUME NEW r \in Record, NEW s \in AfterCallback(r)
    PROVE  s \in Record
<1>1. ASSUME NEW all \in BOOLEAN PROVE Send(r, all) \in Record
  BY SendInLoopType DEF Send
<1>2. ASSUME NEW x \in Record PROVE Shutdown(x) \in Record
  <2>1. [x EXCEPT !.state = "kDisconnecting"] \in Record
    BY DEF Record, States
  <2> QED
    BY <2>1, ShutdownType DEF Shutdown
<1>3. PICK x \in {r, Send(r, TRUE), Send(r, FALSE)} : s = x \/ s = Shutdown(x)
  BY DEF AfterCallback
<1> QED
  BY <1>1, <1>2, <1>3

\* connectionEstablished opens and registers the connection.
LEMMA EstablishedOpens ==
    ASSUME NEW r \in Record, NEW s \in Established(r)
    PROVE  /\ s \in Record
           /\ s.state \in Open
           /\ s.status = "kAdded" /\ "read" \in s.events
           /\ s.loop = r.loop
<1> DEFINE q == [r EXCEPT !.state = "kConnected"]
           e == r.events \union {"read"}
           x == SetEvents(q, e)
<1>1. /\ q \in Record /\ e \in SUBSET {"read", "write"} /\ "read" \in e
      /\ q.state = "kConnected" /\ q.loop = r.loop
  BY DEF Record, States
<1>2. s \in AfterCallback(x)
  BY DEF Established
<1> HIDE DEF q, e
<1>3. /\ x \in Record /\ x.state = q.state /\ x.loop = q.loop /\ x.events = e
      /\ x.status = IF q.status = "kAdded" /\ e = {} THEN "kDeleted" ELSE "kAdded"
  BY <1>1, SetEventsType
<1>4. x.state \in Open /\ x.status = "kAdded" /\ "read" \in x.events
  BY <1>1, <1>3 DEF Open
<1> HIDE DEF x
<1>5. /\ s \in Record /\ (s.state = x.state \/ s.state = "kDisconnecting")
      /\ s.status = "kAdded" /\ "read" \in s.events /\ s.loop = x.loop
  BY <1>2, <1>3, <1>4, CallbackKeepsOpen
<1> QED
  BY <1>1, <1>3, <1>4, <1>5 DEF Open

\* connectionDestroyed takes the channel out of epoll.
LEMMA DestroyedType ==
    ASSUME NEW r \in Record
    PROVE  /\ Destroyed(r) \in Record
           /\ Destroyed(r).status = "kNew" /\ Destroyed(r).loop = r.loop
           /\ r.state # "kConnected" => Destroyed(r).state = r.state /\ Destroyed(r).events = r.events
<1>1. ASSUME NEW x \in Record
      PROVE  /\ RemoveChannel(x) \in Record
             /\ RemoveChannel(x).status = "kNew" /\ RemoveChannel(x).loop = x.loop
             /\ RemoveChannel(x).state = x.state /\ RemoveChannel(x).events = x.events
  BY DEF RemoveChannel, Record
<1> DEFINE x == SetEvents(r, {})
           y == [x EXCEPT !.state = "kDisconnected", !.told = TRUE]
<1>2. x \in Record /\ x.loop = r.loop
  BY SetEventsType
<1> HIDE DEF x
<1>3. y \in Record /\ y.loop = r.loop
  BY <1>2 DEF Record, States
<1> QED
  BY <1>1, <1>3 DEF Destroyed, x
-----------------------------------------------------------------------------
\* What Close does to the record of an open connection.
Closed(r) == SetEvents([r EXCEPT !.state = "kDisconnected"], {})

LEMMA ClosedType ==
    ASSUME NEW r \in Record
    PROVE  /\ Closed(r) \in Record
           /\ Closed(r).state = "kDisconnected" /\ Closed(r).events = {}
           /\ Closed(r).loop = r.loop
           /\ r.status = "kAdded" => Closed(r).status = "kDeleted"
<1> DEFINE q == [r EXCEPT !.state = "kDisconnected"]
<1>1. q \in Record /\ q.state = "kDisconnected" /\ q.loop = r.loop /\ q.status = r.status
  BY DEF Record, States
<1> HIDE DEF q
<1>2. /\ SetEvents(q, {}) \in Record /\ SetEvents(q, {}).state = q.state
      /\ SetEvents(q, {}).loop = q.loop /\ SetEvents(q, {}).events = {}
      /\ SetEvents(q, {}).status = IF q.status = "kAdded" THEN "kDeleted" ELSE "kAdded"
  BY <1>1, SetEventsType
<1> QED
  BY <1>1, <1>2 DEF Closed, q
-----------------------------------------------------------------------------
\* The loop a connection is given is a loop of the server.
LEMMA NextLoopType ==
    ASSUME TypeOK
    PROVE  NextLoop \in Loops /\ AdvanceNext \in Nat
           /\ AdvanceNext \in {0} \union 0 .. Len(pool.loops) - 1
<1>1. Base \in Loops /\ \A p \in Pools : LoopsOf(p) \subseteq Loops
  BY DEF Loops
<1>2. pool.loops \in Pools /\ pool.loops \in Seq(LoopsOf(pool.loops)) /\ pool.next \in Nat
  BY LoopsAssumption DEF TypeOK, LoopsAssumption
<1>3. Len(pool.loops) \in Nat /\ pool.next \in {0} \union 0 .. Len(pool.loops) - 1
  <2>1. \A s \in Seq(LoopsOf(pool.loops)) : Len(s) \in Nat
    OBVIOUS
  <2> QED
    BY <1>2, <2>1 DEF TypeOK
<1>4. CASE pool.loops = <<>>
  BY <1>1, <1>4 DEF NextLoop, AdvanceNext
<1>5. CASE pool.loops # <<>>
  <2>1. pool.next + 1 \in 1 .. Len(pool.loops)
    BY <1>2, <1>3, <1>5
  <2>2. pool.loops[pool.next + 1] \in LoopsOf(pool.loops)
    BY <2>1 DEF LoopsOf
  <2> QED
    BY <1>1, <1>2, <1>3, <1>5, <2>1, <2>2 DEF NextLoop, AdvanceNext
<1> QED
  BY <1>4, <1>5

LEMMA UpdateType ==
    ASSUME NEW S, NEW T, NEW f \in [S -> T], NEW x \in S, NEW y \in T
    PROVE  [f EXCEPT ![x] = y] \in [S -> T]
  OBVIOUS

LEMMA QueueType ==
    ASSUME TypeOK, NEW l \in Loops, NEW f \in Functors
    PROVE  Queue(l, f) \in [Loops -> Seq(Functors)]
<1>1. queue \in [Loops -> Seq(Functors)]
  BY DEF TypeOK
<1>2. Append(queue[l], f) \in Seq(Functors)
  BY <1>1
<1>3. Queue(l, f) = [queue EXCEPT ![l] = Append(queue[l], f)]
  BY DEF Queue
<1> QED
  BY <1>1, <1>2, <1>3, UpdateType

LEMMA RecordType == ASSUME TypeOK, NEW c \in Conns
                    PROVE  conn[c] \in Record /\ conn[c].loop \in Loops
  BY DEF TypeOK, Record

LEMMA ConnType ==
    ASSUME TypeOK, NEW c \in Conns, NEW r \in Record
    PROVE  [conn EXCEPT ![c] = r] \in [Conns -> Record]
  BY DEF TypeOK

\* The removal of a connection, with what it asserts.
LEMMA RemoveKeepsTypes ==
    ASSUME TypeOK, NEW c \in Conns, RemoveInLoop(c) \/ RemoveConnection(c)
    PROVE  /\ queue' \in [Loops -> Seq(Functors)]
           /\ inMap' \subseteq Conns
           /\ failed' \in {failed, "erase"}
<1>1. /\ Functor("destroyed", c, TRUE) \in Functors /\ Functor("remove", c, TRUE) \in Functors
      /\ Base \in Loops /\ conn[c].loop \in Loops
  BY RecordType DEF Functor, Functors, Loops
<1>2. CASE RemoveInLoop(c)
  BY <1>1, <1>2, QueueType DEF RemoveInLoop, Asserts, TypeOK
<1>3. CASE queue' = Queue(Base, Functor("remove", c, TRUE)) /\ UNCHANGED <<inMap, failed>>
  BY <1>1, <1>3, QueueType DEF TypeOK
<1> QED
  BY <1>2, <1>3 DEF RemoveConnection

LEMMA CloseKeepsTypes == ASSUME TypeOK, NEW c \in Conns, Close(c) PROVE TypeOK'
<1>1. conn' \in [Conns -> Record]
  BY RecordType, ClosedType, ConnType DEF Close, Closed
<1>2. /\ queue' \in [Loops -> Seq(Functors)] /\ inMap' \subseteq Conns
      /\ failed' \in {failed, "erase", "handleClose"}
  BY RemoveKeepsTypes DEF Close, Asserts, TypeOK
<1> QED
  BY <1>1, <1>2 DEF Close, TypeOK

\* One loop's sequence of functors, or its position, is replaced.
LEMMA SequenceType ==
    ASSUME NEW f \in [Loops -> Seq(Functors)], NEW l \in Loops
    PROVE  f[l] \in Seq(Functors) /\ Len(f[l]) \in Nat
<1>1. f[l] \in Seq(Functors)
  OBVIOUS
<1>2. \A s \in Seq(Functors) : Len(s) \in Nat
  OBVIOUS
<1> QED
  BY <1>1, <1>2

LEMMA LoopTypes ==
    ASSUME TypeOK, NEW l \in Loops
    PROVE  /\ queue[l] \in Seq(Functors) /\ Len(queue[l]) \in Nat
           /\ batch[l] \in Seq(Functors) /\ Len(batch[l]) \in Nat
           /\ pos[l] \in Nat /\ pos[l] <= Len(batch[l])
<1>1. /\ queue \in [Loops -> Seq(Functors)] /\ batch \in [Loops -> Seq(Functors)]
      /\ pos \in [Loops -> Nat] /\ \A k \in Loops : pos[k] <= Len(batch[k])
  BY DEF TypeOK
<1> QED
  BY <1>1, SequenceType

\* The sequences of a loop are replaced, with a position in the new batch.
LEMMA BatchTypes ==
    ASSUME TypeOK, NEW l \in Loops, NEW s \in Seq(Functors), NEW n \in Nat, n <= Len(s),
           batch' = [batch EXCEPT ![l] = s], pos' = [pos EXCEPT ![l] = n]
    PROVE  /\ batch' \in [Loops -> Seq(Functors)]
           /\ pos' \in [Loops -> Nat]
           /\ \A k \in Loops : pos'[k] <= Len(batch'[k])
<1>1. /\ batch \in [Loops -> Seq(Functors)] /\ pos \in [Loops -> Nat]
      /\ \A k \in Loops : pos[k] <= Len(batch[k])
  BY DEF TypeOK
<1>2. batch' \in [Loops -> Seq(Functors)] /\ pos' \in [Loops -> Nat]
  BY <1>1, UpdateType
<1>3. \A k \in Loops : IF k = l THEN pos'[k] = n /\ batch'[k] = s
                                 ELSE pos'[k] = pos[k] /\ batch'[k] = batch[k]
  BY <1>1
<1> QED
  BY <1>1, <1>2, <1>3

LEMMA LoopKeepsTypes ==
    ASSUME TypeOK, NEW l \in Loops, TakeBatch(l) \/ EndBatch(l)
    PROVE  TypeOK'
<1>1. <<>> \in Seq(Functors) /\ Len(<<>>) = 0 /\ 0 \in Nat
  OBVIOUS
<1>2. CASE TakeBatch(l)
  <2>1. /\ batch' = [batch EXCEPT ![l] = queue[l]] /\ pos' = [pos EXCEPT ![l] = 0]
        /\ queue' = [queue EXCEPT ![l] = <<>>]
        /\ UNCHANGED <<conn, inMap, pool, user, server, failed>>
    BY <1>2 DEF TakeBatch
  <2>2. 0 <= Len(queue[l])
    BY LoopTypes
  <2>3. /\ batch' \in [Loops -> Seq(Functors)] /\ pos' \in [Loops -> Nat]
        /\ \A k \in Loops : pos'[k] <= Len(batch'[k])
    BY <1>1, <2>1, <2>2, LoopTypes, BatchTypes
  <2>4. queue' \in [Loops -> Seq(Functors)]
    BY <1>1, <2>1, UpdateType DEF TypeOK
  <2> QED
    BY <2>1, <2>3, <2>4 DEF TypeOK
<1>3. CASE EndBatch(l)
  <2>1. /\ batch' = [batch EXCEPT ![l] = <<>>] /\ pos' = [pos EXCEPT ![l] = 0]
        /\ UNCHANGED <<conn, inMap, pool, queue, user, server, failed>>
    BY <1>3 DEF EndBatch
  <2>2. /\ batch' \in [Loops -> Seq(Functors)] /\ pos' \in [Loops -> Nat]
        /\ \A k \in Loops : pos'[k] <= Len(batch'[k])
    <3>1. 0 <= Len(<<>>)
      BY <1>1
    <3> QED
      BY <1>1, <2>1, <3>1, BatchTypes
  <2> QED
    BY <2>1, <2>2 DEF TypeOK
<1> QED
  BY <1>2, <1>3

LEMMA RunFunctorKeepsTypes ==
    ASSUME TypeOK, NEW l \in Loops, RunFunctor(l)
    PROVE  TypeOK'
<1> DEFINE f == batch[l][pos[l] + 1]
           c == f.conn
<1>1. /\ pos' = [pos EXCEPT ![l] = pos[l] + 1] /\ pos[l] < Len(batch[l])
      /\ UNCHANGED <<pool, batch, user, server>>
  BY DEF RunFunctor
<1>2. f \in Functors /\ c \in Conns
  <2>1. pos[l] + 1 \in 1 .. Len(batch[l])
    BY <1>1, LoopTypes
  <2>2. f \in Functors
    BY <2>1, LoopTypes
  <2> QED
    BY <2>2 DEF Functors
<1>3. pos' \in [Loops -> Nat] /\ \A k \in Loops : pos'[k] <= Len(batch'[k])
  <2>1. pos[l] + 1 \in Nat /\ pos[l] + 1 <= Len(batch[l])
    BY <1>1, LoopTypes
  <2>2. batch' = [batch EXCEPT ![l] = batch[l]]
    BY <1>1 DEF TypeOK
  <2> QED
    BY <1>1, <2>1, <2>2, LoopTypes, BatchTypes
<1>4. SUFFICES /\ conn' \in [Conns -> Record] /\ inMap' \subseteq Conns
               /\ queue' \in [Loops -> Seq(Functors)]
               /\ failed' \in {"none", "erase", "handleClose", "Channel::remove",
                               "connectionEstablished", "dangling functor"}
  BY <1>1, <1>3 DEF TypeOK
<1>5. conn[c] \in Record
  BY <1>2, RecordType
<1>6. /\ \/ UNCHANGED conn
         \/ \E r \in Record : conn' = [conn EXCEPT ![c] = r]
      /\ \/ RemoveInLoop(c)
         \/ /\ UNCHANGED <<inMap, queue>>
            /\ failed' \in {failed, "Channel::remove", "connectionEstablished", "dangling functor"}
  <2> HIDE DEF c
  <2>1. CASE ~Held(c) /\ Asserts(FALSE, "dangling functor") /\ UNCHANGED <<conn, inMap, queue>>
    BY <2>1 DEF Asserts
  <2>2. CASE /\ Asserts(conn[c].state = "kConnecting", "connectionEstablished")
             /\ \E s \in Established(conn[c]) : conn' = [conn EXCEPT ![c] = s]
             /\ UNCHANGED <<inMap, queue>>
    BY <1>5, <2>2, EstablishedOpens DEF Asserts
  <2>3. CASE RemoveInLoop(c) /\ UNCHANGED conn
    BY <2>3
  <2>4. CASE /\ Asserts(RemoveAllowed(conn[c]), "Channel::remove")
             /\ conn' = [conn EXCEPT ![c] = Destroyed(conn[c])]
             /\ UNCHANGED <<inMap, queue>>
    BY <1>5, <2>4, DestroyedType DEF Asserts
  <2>5. CASE /\ \E all \in BOOLEAN : conn' = [conn EXCEPT ![c] = SendInLoop(conn[c], all)]
             /\ UNCHANGED <<inMap, queue, failed>>
    BY <1>5, <2>5, SendInLoopType
  <2>6. CASE /\ conn' = [conn EXCEPT ![c] = ShutdownInLoop(conn[c])]
             /\ UNCHANGED <<inMap, queue, failed>>
    BY <1>5, <2>6, ShutdownType
  <2> QED
    BY <2>1, <2>2, <2>3, <2>4, <2>5, <2>6 DEF RunFunctor, c
<1> HIDE DEF c
<1>7. conn' \in [Conns -> Record]
  BY <1>2, <1>6, ConnType DEF TypeOK
<1>8. CASE RemoveInLoop(c)
  BY <1>2, <1>7, <1>8, RemoveKeepsTypes DEF TypeOK
<1>9. CASE /\ UNCHANGED <<inMap, queue>>
           /\ failed' \in {failed, "Channel::remove", "connectionEstablished", "dangling functor"}
  BY <1>7, <1>9 DEF TypeOK
<1> QED
  BY <1>6, <1>8, <1>9

LEMMA NewConnectionKeepsTypes ==
    ASSUME TypeOK, NEW c \in Conns, NewConnection(c)
    PROVE  TypeOK'
<1> DEFINE r == [conn[c] EXCEPT !.state = "kConnecting", !.loop = NextLoop]
<1>1. /\ pool' = [pool EXCEPT !.next = AdvanceNext] /\ inMap' = inMap \union {c}
      /\ UNCHANGED <<batch, pos, user, server, failed>>
      /\ IF NextLoop = Base
         THEN (\E s \in Established(r) : conn' = [conn EXCEPT ![c] = s]) /\ UNCHANGED queue
         ELSE conn' = [conn EXCEPT ![c] = r]
              /\ queue' = Queue(NextLoop, Functor("established", c, TRUE))
  BY DEF NewConnection, Register
<1>2. r \in Record
  BY RecordType, NextLoopType DEF Record, States
<1>3. /\ pool' \in [loops : Pools, next : Nat]
      /\ pool'.next \in {0} \union 0 .. Len(pool'.loops) - 1
  BY <1>1, NextLoopType DEF TypeOK
<1>4. Functor("established", c, TRUE) \in Functors
  BY DEF Functor, Functors
<1> HIDE DEF r
<1>5. conn' \in [Conns -> Record]
  <2>1. \A s \in Established(r) : s \in Record
    BY <1>2, EstablishedOpens
  <2>2. PICK x \in Record : conn' = [conn EXCEPT ![c] = x]
    BY <1>1, <1>2, <2>1
  <2> QED
    BY <2>2, ConnType
<1>6. queue' \in [Loops -> Seq(Functors)]
  <2>1. Queue(NextLoop, Functor("established", c, TRUE)) \in [Loops -> Seq(Functors)]
    BY <1>4, NextLoopType, QueueType
  <2>2. queue \in [Loops -> Seq(Functors)]
    BY DEF TypeOK
  <2> QED
    BY <1>1, <2>1, <2>2
<1> QED
  BY <1>1, <1>3, <1>5, <1>6 DEF TypeOK

LEMMA EventKeepsTypes ==
    ASSUME TypeOK, NEW c \in Conns, EventStep(c) \/ PeerCloses(c)
    PROVE  TypeOK'
<1>1. conn[c] \in Record
  BY RecordType
<1>2. ASSUME NEW r \in Record, conn' = [conn EXCEPT ![c] = r],
             UNCHANGED <<inMap, pool, loopVars, user, server, failed>>
      PROVE  TypeOK'
  BY <1>2, ConnType DEF TypeOK, loopVars
<1>3. CASE Message(c)
  BY <1>1, <1>2, <1>3, CallbackType DEF Message
<1>4. CASE ReadClose(c) \/ HangUp(c)
  BY <1>4, CloseKeepsTypes DEF ReadClose, HangUp
<1>5. CASE Writable(c)
  <2> DEFINE q == [conn[c] EXCEPT !.out = FALSE]
             e == conn[c].events \ {"write"}
             r == SetEvents(q, e)
  <2>1. q \in Record /\ e \in SUBSET {"read", "write"}
    BY <1>1 DEF Record
  <2>2. conn' = [conn EXCEPT ![c] = IF r.state = "kDisconnecting" THEN ShutdownInLoop(r) ELSE r]
        /\ UNCHANGED <<inMap, pool, loopVars, user, server, failed>>
    BY <1>5 DEF Writable
  <2> HIDE DEF q, e
  <2>3. r \in Record
    BY <2>1, SetEventsType
  <2> HIDE DEF r
  <2>4. (IF r.state = "kDisconnecting" THEN ShutdownInLoop(r) ELSE r) \in Record
    BY <2>3, ShutdownType
  <2> QED
    BY <1>2, <2>2, <2>4
<1>6. CASE PeerCloses(c)
  <2>1. [conn[c] EXCEPT !.peer = "closed"] \in Record
    BY <1>1 DEF Record
  <2> QED
    BY <1>2, <1>6, <2>1 DEF PeerCloses
<1> QED
  BY <1>3, <1>4, <1>5, <1>6 DEF EventStep

\* A user thread that is in a call holds the connection it calls.
UserInv == \A u \in Users : user[u].at # "out" => user[u].holds \in Conns \ {NotHeld}

LEMMA UserKeepsTypes ==
    ASSUME TypeOK, UserInv, NEW u \in Users, UserStep(u)
    PROVE  TypeOK' /\ UserInv'
<1> DEFINE T == [holds : Conns \union {NotHeld}, ops : UserOps,
                 at : {"out", "send", "shutdown", "queueShutdown"}]
<1>1. user \in [Users -> T] /\ user[u] \in T
  BY DEF TypeOK
<1>2. ASSUME NEW t \in T, user' = [user EXCEPT ![u] = t],
             t.at # "out" => t.holds \in Conns \ {NotHeld}
      PROVE  user' \in [Users -> T] /\ UserInv'
  <2>1. user' \in [Users -> T]
    BY <1>1, <1>2, UpdateType
  <2>2. ASSUME NEW v \in Users, user'[v].at # "out"
        PROVE  user'[v].holds \in Conns \ {NotHeld}
    <3>1. CASE v = u
      BY <1>1, <1>2, <2>2, <3>1
    <3>2. CASE v # u
      BY <1>1, <1>2, <2>2, <3>2 DEF UserInv
    <3> QED
      BY <3>1, <3>2
  <2> QED
    BY <2>1, <2>2 DEF UserInv
<1>3. ASSUME NEW c \in Conns, UserTakes(u, c)
      PROVE  TypeOK' /\ UserInv'
  <2>1. user' = [user EXCEPT ![u] = [user[u] EXCEPT !.holds = c]]
        /\ UNCHANGED <<conn, inMap, pool, queue, batch, pos, server, failed>>
        /\ user[u].holds = NotHeld
    BY <1>3 DEF UserTakes, loopVars
  <2>2. [user[u] EXCEPT !.holds = c] \in T /\ user[u].at = "out"
    BY <1>1, <2>1 DEF UserInv
  <2>3. user' \in [Users -> T] /\ UserInv'
    BY <1>2, <2>1, <2>2
  <2> QED
    BY <2>1, <2>3 DEF TypeOK
<1>4. CASE UserDrops(u)
  <2>1. user' = [user EXCEPT ![u] = [user[u] EXCEPT !.holds = NotHeld]]
        /\ UNCHANGED <<conn, inMap, pool, queue, batch, pos, server, failed>>
        /\ user[u].at = "out"
    BY <1>4 DEF UserDrops, loopVars
  <2>2. [user[u] EXCEPT !.holds = NotHeld] \in T
    BY <1>1
  <2>3. user' \in [Users -> T] /\ UserInv'
    BY <1>1, <1>2, <2>1, <2>2
  <2> QED
    BY <2>1, <2>3 DEF TypeOK
<1>5. ASSUME NEW op \in user[u].ops, UserTests(u, op)
      PROVE  TypeOK' /\ UserInv'
  <2>1. user' = [user EXCEPT ![u] = [user[u] EXCEPT !.at = op]]
        /\ UNCHANGED <<conn, inMap, pool, queue, batch, pos, server, failed>>
        /\ user[u].holds # NotHeld
    BY <1>5 DEF UserTests, loopVars
  <2>2. op \in {"send", "shutdown"}
    BY <1>1, UserOpsAssumption DEF UserOpsAssumption
  <2>3. [user[u] EXCEPT !.at = op] \in T /\ user[u].holds \in Conns \ {NotHeld}
    BY <1>1, <2>1, <2>2
  <2>4. user' \in [Users -> T] /\ UserInv'
    BY <1>1, <1>2, <2>1, <2>3
  <2> QED
    BY <2>1, <2>4 DEF TypeOK
<1>6. CASE UserSetsState(u)
  <2> DEFINE c == user[u].holds
  <2>1. /\ user' = [user EXCEPT ![u] = [user[u] EXCEPT !.at = "queueShutdown"]]
        /\ conn' = [conn EXCEPT ![c] = [conn[c] EXCEPT !.state = "kDisconnecting"]]
        /\ UNCHANGED <<inMap, pool, queue, batch, pos, server, failed>>
        /\ user[u].at = "shutdown"
    BY <1>6 DEF UserSetsState, loopVars
  <2>2. [user[u] EXCEPT !.at = "queueShutdown"] \in T /\ c \in Conns \ {NotHeld}
    BY <1>1, <2>1 DEF UserInv
  <2>3. [conn[c] EXCEPT !.state = "kDisconnecting"] \in Record
    BY <2>2, RecordType DEF Record, States
  <2>4. user' \in [Users -> T] /\ UserInv'
    BY <1>1, <1>2, <2>1, <2>2
  <2>5. conn' \in [Conns -> Record]
    BY <2>1, <2>2, <2>3, ConnType
  <2> QED
    BY <2>1, <2>4, <2>5 DEF TypeOK
<1>7. CASE UserQueues(u)
  <2> DEFINE c == user[u].holds
             f == IF user[u].at = "send" THEN Functor("send", c, FALSE)
                                         ELSE Functor("shutdown", c, TRUE)
  <2>1. /\ user' = [user EXCEPT ![u] = [user[u] EXCEPT !.at = "out"]]
        /\ queue' = Queue(conn[c].loop, f)
        /\ UNCHANGED <<conn, inMap, pool, batch, pos, server, failed>>
        /\ user[u].at # "out"
    BY <1>7 DEF UserQueues, loopVars
  <2>2. [user[u] EXCEPT !.at = "out"] \in T /\ c \in Conns
    BY <1>1, <2>1 DEF UserInv
  <2>3. user' \in [Users -> T] /\ UserInv'
    BY <1>1, <1>2, <2>1, <2>2
  <2>4. f \in Functors
    BY <2>2 DEF Functor, Functors
  <2> HIDE DEF f
  <2>5. queue' \in [Loops -> Seq(Functors)]
    BY <2>1, <2>2, <2>4, RecordType, QueueType
  <2> QED
    BY <2>1, <2>3, <2>5 DEF TypeOK
<1> QED
  BY <1>3, <1>4, <1>5, <1>6, <1>7 DEF UserStep
-----------------------------------------------------------------------------
LEMMA InitTypes == Init => TypeOK /\ UserInv
<1> SUFFICES ASSUME Init PROVE TypeOK /\ UserInv
  OBVIOUS
<1>1. Unborn \in Record
  BY DEF Unborn, Record, States, Loops
<1>2. conn \in [Conns -> Record]
  BY <1>1 DEF Init
<1>3. <<>> \in Seq(Functors) /\ Len(<<>>) = 0
  OBVIOUS
<1>4. /\ queue \in [Loops -> Seq(Functors)] /\ batch \in [Loops -> Seq(Functors)]
      /\ pos \in [Loops -> Nat]
  BY <1>3 DEF Init
<1>5. \A l \in Loops : pos[l] <= Len(batch[l])
  BY <1>3 DEF Init
<1>6. /\ pool \in [loops : Pools, next : Nat]
      /\ pool.next \in {0} \union 0 .. Len(pool.loops) - 1
  BY DEF Init
<1>7. /\ user \in [Users -> [holds : Conns \union {NotHeld}, ops : UserOps,
                             at : {"out", "send", "shutdown", "queueShutdown"}]]
      /\ UserInv
  BY DEF Init, UserInv
<1> QED
  BY <1>2, <1>4, <1>5, <1>6, <1>7 DEF Init, TypeOK

LEMMA StepKeepsTypes ==
    ASSUME TypeOK, UserInv, ~ServerDtor, [Next]_vars
    PROVE  TypeOK' /\ UserInv'
<1>1. CASE UNCHANGED vars
  BY <1>1 DEF vars, TypeOK, UserInv
<1>2. ASSUME NEW c \in Conns, NewConnection(c)
      PROVE  TypeOK' /\ UserInv'
  BY <1>2, NewConnectionKeepsTypes DEF NewConnection, UserInv
<1>3. ASSUME NEW c \in Conns, EventStep(c) \/ PeerCloses(c)
      PROVE  TypeOK' /\ UserInv'
  <2>1. UNCHANGED user
    BY <1>3 DEF EventStep, PeerCloses, Message, ReadClose, HangUp, Writable, Close
  <2> QED
    BY <1>3, <2>1, EventKeepsTypes DEF UserInv
<1>4. ASSUME NEW l \in Loops, LoopStep(l)
      PROVE  TypeOK' /\ UserInv'
  <2>1. UNCHANGED user
    BY <1>4 DEF LoopStep, TakeBatch, RunFunctor, EndBatch
  <2> QED
    BY <1>4, <2>1, LoopKeepsTypes, RunFunctorKeepsTypes DEF LoopStep, UserInv
<1>5. CASE DestroyMap
  BY <1>5 DEF DestroyMap, loopVars, TypeOK, UserInv
<1>6. ~DestroyEach
  BY DEF DestroyEach
<1> QED
  BY <1>1, <1>2, <1>3, <1>4, <1>5, <1>6, UserKeepsTypes DEF Next

\* The variables keep their types, and the indexes of the pool and of the
\* batches their ranges, whatever the users' threads call, as long as the
\* server is not destroyed.
THEOREM TypeCorrect == ASSUME ~ServerDtor PROVE Spec => []TypeOK
<1>1. TypeOK /\ UserInv /\ [Next]_vars => TypeOK' /\ UserInv'
  BY StepKeepsTypes
<1> QED
  BY InitTypes, <1>1, PTL DEF Spec
-----------------------------------------------------------------------------
\* The rest of a batch and a queue, when a functor is queued, when one is run,
\* when the queue becomes the batch, and when the batch is at its end.
LEMMA RestAppend ==
    ASSUME NEW b \in Seq(Functors), NEW q \in Seq(Functors), NEW g \in Functors,
           NEW p \in Nat, p <= Len(b)
    PROVE  /\ RestLen(b, p, Append(q, g)) = RestLen(b, p, q) + 1
           /\ \A i \in 1 .. RestLen(b, p, q) :
                  RestAt(b, p, Append(q, g), i) = RestAt(b, p, q, i)
           /\ RestAt(b, p, Append(q, g), RestLen(b, p, q) + 1) = g
<1>1. Len(b) \in Nat /\ Len(q) \in Nat
  OBVIOUS
<1>2. /\ Len(Append(q, g)) = Len(q) + 1
      /\ \A i \in 1 .. Len(q) : Append(q, g)[i] = q[i]
      /\ Append(q, g)[Len(q) + 1] = g
  OBVIOUS
<1> DEFINE n == Len(b) - p
           r == Append(q, g)
<1>3. n \in Nat
  BY <1>1
<1>4. RestLen(b, p, r) = RestLen(b, p, q) + 1
  BY <1>1, <1>2 DEF RestLen
<1>5. ASSUME NEW i \in 1 .. RestLen(b, p, q)
      PROVE  RestAt(b, p, r, i) = RestAt(b, p, q, i)
  <2>1. CASE i <= n
    BY <2>1 DEF RestAt
  <2>2. CASE ~(i <= n)
    <3>1. i - n \in 1 .. Len(q)
      BY <1>1, <1>3, <2>2 DEF RestLen
    <3> QED
      BY <1>2, <2>2, <3>1 DEF RestAt
  <2> QED
    BY <2>1, <2>2
<1>6. RestAt(b, p, r, RestLen(b, p, q) + 1) = g
  <2>1. RestLen(b, p, q) + 1 = n + (Len(q) + 1)
    BY <1>1, <1>3 DEF RestLen
  <2>2. ~(n + (Len(q) + 1) <= n) /\ (n + (Len(q) + 1)) - n = Len(q) + 1
    BY <1>1, <1>3
  <2> QED
    BY <1>2, <2>1, <2>2 DEF RestAt
<1> QED
  BY <1>4, <1>5, <1>6

LEMMA RestPop ==
    ASSUME NEW b \in Seq(Functors), NEW q \in Seq(Functors),
           NEW p \in Nat, p < Len(b)
    PROVE  /\ RestLen(b, p + 1, q) = RestLen(b, p, q) - 1
           /\ \A i \in 1 .. RestLen(b, p, q) - 1 :
                  RestAt(b, p + 1, q, i) = RestAt(b, p, q, i + 1)
           /\ 1 \in 1 .. RestLen(b, p, q)
           /\ RestAt(b, p, q, 1) = b[p + 1]
<1>1. Len(b) \in Nat /\ Len(q) \in Nat
  OBVIOUS
<1>2. RestLen(b, p + 1, q) = RestLen(b, p, q) - 1 /\ 1 \in 1 .. RestLen(b, p, q)
  BY <1>1 DEF RestLen
<1>3. ASSUME NEW i \in 1 .. RestLen(b, p, q) - 1
      PROVE  RestAt(b, p + 1, q, i) = RestAt(b, p, q, i + 1)
  <2>1. i \in Int /\ RestLen(b, p, q) \in Int
    BY <1>1 DEF RestLen
  <2>2. (p + 1) + i = p + (i + 1) /\ i - (Len(b) - (p + 1)) = (i + 1) - (Len(b) - p)
        /\ (i <= Len(b) - (p + 1) <=> i + 1 <= Len(b) - p)
    BY <1>1, <2>1
  <2> QED
    BY <2>2 DEF RestAt
<1>4. RestAt(b, p, q, 1) = b[p + 1]
  <2>1. 1 <= Len(b) - p
    BY <1>1
  <2> QED
    BY <2>1 DEF RestAt
<1> QED
  BY <1>2, <1>3, <1>4

LEMMA RestSwap ==
    ASSUME NEW b \in Seq(Functors), NEW q \in Seq(Functors)
    PROVE  /\ RestLen(q, 0, <<>>) = Len(q)
           /\ \A i \in 1 .. Len(q) : RestAt(q, 0, <<>>, i) = q[i]
           /\ RestLen(b, Len(b), q) = Len(q)
           /\ \A i \in 1 .. Len(q) : RestAt(b, Len(b), q, i) = q[i]
<1>1. Len(b) \in Nat /\ Len(q) \in Nat /\ Len(<<>>) = 0
  OBVIOUS
<1>2. RestLen(q, 0, <<>>) = Len(q) /\ RestLen(b, Len(b), q) = Len(q)
  BY <1>1 DEF RestLen
<1>3. ASSUME NEW i \in 1 .. Len(q)
      PROVE  RestAt(q, 0, <<>>, i) = q[i] /\ RestAt(b, Len(b), q, i) = q[i]
  <2>1. /\ i <= Len(q) - 0 /\ 0 + i = i
        /\ ~(i <= Len(b) - Len(b)) /\ i - (Len(b) - Len(b)) = i
    BY <1>1
  <2> QED
    BY <2>1 DEF RestAt
<1> QED
  BY <1>2, <1>3

LEMMA TodoTypes ==
    ASSUME TypeOK, NEW l \in Loops
    PROVE  TodoLen(l) \in Nat /\ \A i \in Todo(l) : TodoAt(l, i) \in Functors
<1> DEFINE n == Len(batch[l]) - pos[l]
<1>1. n \in Nat
  BY LoopTypes
<1>2. TodoLen(l) = n + Len(queue[l])
  BY DEF TodoLen, RestLen
<1>3. ASSUME NEW i \in Todo(l)
      PROVE  TodoAt(l, i) \in Functors
  <2>1. CASE i <= n
    <3>1. pos[l] + i \in 1 .. Len(batch[l])
      BY <1>2, <2>1, LoopTypes DEF Todo
    <3>2. batch[l][pos[l] + i] \in Functors
      BY <3>1, LoopTypes
    <3> QED
      BY <2>1, <3>2 DEF TodoAt, RestAt
  <2>2. CASE ~(i <= n)
    <3>1. i - n \in 1 .. Len(queue[l])
      BY <1>1, <1>2, <2>2, LoopTypes DEF Todo
    <3>2. queue[l][i - n] \in Functors
      BY <3>1, LoopTypes
    <3> QED
      BY <2>2, <3>2 DEF TodoAt, RestAt
  <2> QED
    BY <2>1, <2>2
<1> QED
  BY <1>1, <1>2, <1>3, LoopTypes
-----------------------------------------------------------------------------
\* What a step does to the functors loop l has still to run: nothing, one is
\* run, g is queued.
Stays(l) == /\ TodoLen(l)' = TodoLen(l)
            /\ \A i \in Todo(l) : TodoAt(l, i)' = TodoAt(l, i)

Pops(l) == /\ TodoLen(l)' = TodoLen(l) - 1
           /\ 1 \in Todo(l)
           /\ \A i \in 1 .. TodoLen(l) - 1 : TodoAt(l, i)' = TodoAt(l, i + 1)

Grows(l, g) == /\ TodoLen(l)' = TodoLen(l) + 1
               /\ \A i \in Todo(l) : TodoAt(l, i)' = TodoAt(l, i)
               /\ TodoAt(l, TodoLen(l))' = g

LEMMA SameStays ==
    ASSUME NEW l \in Loops, queue'[l] = queue[l], batch'[l] = batch[l], pos'[l] = pos[l]
    PROVE  Stays(l)
  BY DEF Stays, Todo, TodoLen, TodoAt

LEMMA QueueGrows ==
    ASSUME TypeOK, NEW k \in Loops, NEW g \in Functors,
           queue' = Queue(k, g), batch'[k] = batch[k], pos'[k] = pos[k]
    PROVE  Grows(k, g) /\ \A l \in Loops \ {k} : queue'[l] = queue[l]
<1>1. queue \in [Loops -> Seq(Functors)]
  BY DEF TypeOK
<1>2. queue'[k] = Append(queue[k], g) /\ \A l \in Loops \ {k} : queue'[l] = queue[l]
  BY <1>1 DEF Queue
<1>3. /\ TodoLen(k)' = RestLen(batch[k], pos[k], Append(queue[k], g))
      /\ \A i : TodoAt(k, i)' = RestAt(batch[k], pos[k], Append(queue[k], g), i)
  BY <1>2 DEF TodoLen, TodoAt
<1>4. /\ queue[k] \in Seq(Functors) /\ batch[k] \in Seq(Functors)
      /\ pos[k] \in Nat /\ pos[k] <= Len(batch[k])
  BY LoopTypes
<1> QED
  <2> DEFINE b == batch[k]
             q == queue[k]
             p == pos[k]
  <2>1. /\ RestLen(b, p, Append(q, g)) = RestLen(b, p, q) + 1
        /\ \A i \in 1 .. RestLen(b, p, q) :
                  RestAt(b, p, Append(q, g), i) = RestAt(b, p, q, i)
        /\ RestAt(b, p, Append(q, g), RestLen(b, p, q) + 1) = g
    BY <1>4, RestAppend
  <2>2. TodoLen(k) = RestLen(b, p, q) /\ \A i : TodoAt(k, i) = RestAt(b, p, q, i)
    BY DEF TodoLen, TodoAt
  <2>3. TodoLen(k)' = TodoLen(k) + 1
    BY <1>3, <2>1, <2>2
  <2>4. \A i \in Todo(k) : TodoAt(k, i)' = TodoAt(k, i)
    BY <1>3, <2>1, <2>2 DEF Todo
  <2>5. TodoAt(k, TodoLen(k))' = RestAt(b, p, Append(q, g), TodoLen(k)')
    BY <1>2 DEF TodoAt
  <2>6. TodoAt(k, TodoLen(k))' = g
    BY <2>1, <2>2, <2>3, <2>5
  <2> QED
    BY <1>2, <2>3, <2>4, <2>6 DEF Grows

LEMMA RunPops ==
    ASSUME TypeOK, NEW l \in Loops, pos[l] < Len(batch[l]),
           pos'[l] = pos[l] + 1, batch'[l] = batch[l], queue'[l] = queue[l]
    PROVE  Pops(l) /\ TodoAt(l, 1) = batch[l][pos[l] + 1]
<1>1. /\ TodoLen(l)' = RestLen(batch[l], pos[l] + 1, queue[l])
      /\ \A i : TodoAt(l, i)' = RestAt(batch[l], pos[l] + 1, queue[l], i)
  BY DEF TodoLen, TodoAt
<1>2. queue[l] \in Seq(Functors) /\ batch[l] \in Seq(Functors) /\ pos[l] \in Nat
  BY LoopTypes
<1> QED
  BY <1>1, <1>2, RestPop DEF Pops, Todo, TodoLen, TodoAt

LEMMA SwapStays ==
    ASSUME TypeOK, NEW l \in Loops, TakeBatch(l) \/ EndBatch(l)
    PROVE  \A k \in Loops : Stays(k)
<1>1. TakeBatch(l) => \A k \in Loops \ {l} :
            queue'[k] = queue[k] /\ batch'[k] = batch[k] /\ pos'[k] = pos[k]
  BY DEF TakeBatch, TypeOK
<1>2. EndBatch(l) => \A k \in Loops \ {l} :
            queue'[k] = queue[k] /\ batch'[k] = batch[k] /\ pos'[k] = pos[k]
  BY DEF EndBatch, TypeOK
<1>3. /\ queue[l] \in Seq(Functors) /\ batch[l] \in Seq(Functors)
      /\ pos[l] \in Nat /\ pos[l] <= Len(batch[l])
  BY LoopTypes
<1>4. <<>> \in Seq(Functors) /\ Len(<<>>) = 0
  OBVIOUS
<1>5. CASE TakeBatch(l)
  <2>1. /\ queue'[l] = <<>> /\ batch'[l] = queue[l] /\ pos'[l] = 0
        /\ batch[l] = <<>>
    BY <1>5 DEF TakeBatch, Handles, TypeOK
  <2>2. pos[l] = Len(batch[l])
    BY <1>3, <1>4, <2>1
  <2>3. /\ RestLen(queue[l], 0, <<>>) = Len(queue[l])
        /\ \A i \in 1 .. Len(queue[l]) : RestAt(queue[l], 0, <<>>, i) = queue[l][i]
        /\ RestLen(batch[l], Len(batch[l]), queue[l]) = Len(queue[l])
        /\ \A i \in 1 .. Len(queue[l]) :
               RestAt(batch[l], Len(batch[l]), queue[l], i) = queue[l][i]
    BY <1>3, RestSwap
  <2>4. Stays(l)
    BY <2>1, <2>2, <2>3 DEF Stays, Todo, TodoLen, TodoAt
  <2> QED
    BY <1>1, <1>5, <2>4, SameStays
<1>6. CASE EndBatch(l)
  <2>1. /\ queue'[l] = queue[l] /\ batch'[l] = <<>> /\ pos'[l] = 0
        /\ pos[l] = Len(batch[l])
    BY <1>6 DEF EndBatch, TypeOK
  <2>2. pos'[l] = Len(batch'[l])
    BY <1>4, <2>1
  <2>3. /\ RestLen(<<>>, Len(<<>>), queue[l]) = Len(queue[l])
        /\ \A i \in 1 .. Len(queue[l]) : RestAt(<<>>, Len(<<>>), queue[l], i) = queue[l][i]
        /\ RestLen(batch[l], Len(batch[l]), queue[l]) = Len(queue[l])
        /\ \A i \in 1 .. Len(queue[l]) :
               RestAt(batch[l], Len(batch[l]), queue[l], i) = queue[l][i]
    BY <1>3, <1>4, RestSwap
  <2>4. Stays(l)
    BY <2>1, <2>2, <2>3 DEF Stays, Todo, TodoLen, TodoAt
  <2> QED
    BY <1>2, <1>6, <2>4, SameStays
<1> QED
  BY <1>5, <1>6
-----------------------------------------------------------------------------
\* The heart of the argument.  A step is about one connection c: it runs the
\* functor of c that waits, if one does, and queues at most one, g.  Then the
\* others' functors stay as they are, and g is the only one of c.
Step(c, g) ==
    /\ \A l \in Loops : Stays(l) \/ Pops(l) \/ Grows(l, g)
    /\ \A l, m \in Loops : Grows(l, g) /\ Grows(m, g) => l = m
    /\ \A l \in Loops : Pops(l) => TodoAt(l, 1).conn = c
    /\ Waits(c) => \E l \in Loops : Pops(l)
    /\ g.conn = c
    /\ \A l \in Loops : Grows(l, g) => Fits(g, l)'
    /\ \A d \in Conns \ {c} : conn'[d] = conn[d] /\ (d \in inMap' <=> d \in inMap)

LEMMA StepKeepsOthers ==
    ASSUME TypeOK, FunctorInv, OnceInv, \A d \in Conns : ConnInv(d),
           NEW c \in Conns, NEW g, Step(c, g)
    PROVE  /\ FunctorInv' /\ OnceInv'
           /\ \A d \in Conns \ {c} : ConnInv(d)'
           /\ (\E l \in Loops : Grows(l, g)) => Waits(c)'
<1>1. \A l \in Loops : TodoLen(l) \in Nat /\ TodoLen(l)' \in Nat
  <2>1. ASSUME NEW l \in Loops
        PROVE  TodoLen(l) \in Nat /\ TodoLen(l)' \in Nat
    <3>1. TodoLen(l) \in Nat
      BY TodoTypes
    <3>2. CASE Pops(l)
      BY <3>1, <3>2 DEF Pops, Todo
    <3>3. CASE Stays(l) \/ Grows(l, g)
      BY <3>1, <3>3 DEF Stays, Grows
    <3> QED
      BY <3>1, <3>2, <3>3 DEF Step
  <2> QED
    BY <2>1
<1> DEFINE From(l, i, j) == /\ j \in Todo(l)
                            /\ j = IF Pops(l) THEN i + 1 ELSE i
                            /\ TodoAt(l, i)' = TodoAt(l, j)
           New(l, i) == Grows(l, g) /\ i = TodoLen(l)' /\ TodoAt(l, i)' = g
<1>2. ASSUME NEW l \in Loops, NEW j \in Todo(l), TodoAt(l, j).conn = c
      PROVE  Pops(l) /\ j = 1
  <2>1. PICK m \in Loops : Pops(m)
    BY <1>2 DEF Step, Waits
  <2>2. 1 \in Todo(m) /\ TodoAt(m, 1).conn = c
    BY <2>1 DEF Step, Pops
  <2>3. l = m /\ j = 1
    BY <1>2, <2>2 DEF OnceInv
  <2> QED
    BY <2>1, <2>3
<1>3. ASSUME NEW l \in Loops, NEW i \in Todo(l)'
      PROVE  New(l, i) \/ \E j \in Todo(l) : From(l, i, j) /\ TodoAt(l, j).conn # c
  <2>1. i \in 1 .. TodoLen(l)'
    BY <1>3 DEF Todo
  <2>2. CASE Pops(l)
    <3>1. i \in 1 .. TodoLen(l) - 1 /\ i + 1 \in Todo(l) /\ i + 1 # 1
      BY <1>1, <2>1, <2>2 DEF Pops, Todo
    <3>2. TodoAt(l, i)' = TodoAt(l, i + 1)
      BY <2>2, <3>1 DEF Pops
    <3> QED
      BY <1>2, <2>2, <3>1, <3>2
  <2>3. CASE Stays(l) /\ ~Pops(l)
    <3>1. i \in Todo(l)
      BY <2>1, <2>3 DEF Stays, Todo
    <3> QED
      BY <1>2, <2>3, <3>1 DEF Stays
  <2>4. CASE Grows(l, g) /\ ~Pops(l)
    <3>1. i \in Todo(l) \/ i = TodoLen(l)'
      BY <1>1, <2>1, <2>4 DEF Grows, Todo
    <3>2. CASE i \in Todo(l)
      BY <1>2, <2>4, <3>2 DEF Grows
    <3>3. CASE i = TodoLen(l)'
      BY <2>4, <3>3 DEF Grows, TodoAt
    <3> QED
      BY <3>1, <3>2, <3>3
  <2> QED
    BY <2>2, <2>3, <2>4 DEF Step
<1>4. ASSUME NEW l \in Loops, NEW j \in Todo(l), TodoAt(l, j).conn # c
      PROVE  \E i \in Todo(l)' : TodoAt(l, i)' = TodoAt(l, j)
  <2>1. CASE Pops(l)
    <3>1. j # 1
      BY <1>4, <2>1 DEF Step
    <3>2. j - 1 \in 1 .. TodoLen(l) - 1 /\ (j - 1) + 1 = j
      BY <1>1, <3>1 DEF Todo
    <3>3. j - 1 \in Todo(l)'
      BY <2>1, <3>2 DEF Pops, Todo
    <3>4. TodoAt(l, j - 1)' = TodoAt(l, (j - 1) + 1)
      BY <2>1, <3>2 DEF Pops
    <3> QED
      BY <3>2, <3>3, <3>4
  <2>2. CASE Stays(l)
    BY <2>2 DEF Stays, Todo
  <2>3. CASE Grows(l, g)
    <3>1. j \in Todo(l)'
      BY <1>1, <2>3 DEF Grows, Todo
    <3> QED
      BY <2>3, <3>1 DEF Grows
  <2> QED
    BY <2>1, <2>2, <2>3 DEF Step
<1>5. FunctorInv'
  <2>1. ASSUME NEW l \in Loops, NEW i \in Todo(l)'
        PROVE  Fits(TodoAt(l, i), l)'
    <3>1. CASE New(l, i)
      BY <3>1 DEF Step
    <3>2. ASSUME NEW j \in Todo(l), From(l, i, j), TodoAt(l, j).conn # c
          PROVE  Fits(TodoAt(l, i), l)'
      <4>1. Fits(TodoAt(l, j), l) /\ TodoAt(l, j).conn \in Conns \ {c}
        BY <3>2, TodoTypes DEF FunctorInv, Functors
      <4> DEFINE h == TodoAt(l, j)
      <4>2. conn'[h.conn] = conn[h.conn] /\ (h.conn \in inMap' <=> h.conn \in inMap)
        BY <4>1 DEF Step
      <4>3. TodoAt(l, i)' = h
        BY <3>2
      <4> HIDE DEF h
      <4>4. Fits(h, l)
        BY <4>1 DEF h
      <4> QED
        BY <4>2, <4>3, <4>4 DEF Fits
    <3> QED
      BY <1>3, <3>1, <3>2
  <2> QED
    BY <2>1 DEF FunctorInv
<1>6. OnceInv'
  <2>1. ASSUME NEW l \in Loops, NEW m \in Loops, NEW i \in Todo(l)', NEW j \in Todo(m)',
               TodoAt(l, i)'.conn = TodoAt(m, j)'.conn
        PROVE  l = m /\ i = j
    <3>1. CASE New(l, i) /\ New(m, j)
      BY <3>1 DEF Step
    <3>2. CASE \E x \in Todo(l), y \in Todo(m) : From(l, i, x) /\ From(m, j, y)
      <4>1. PICK x \in Todo(l), y \in Todo(m) : From(l, i, x) /\ From(m, j, y)
        BY <3>2
      <4>2. l = m /\ x = y
        BY <2>1, <4>1 DEF OnceInv
      <4>3. i \in Int /\ j \in Int
        BY <1>1, <2>1 DEF Todo
      <4> QED
        BY <4>1, <4>2, <4>3
    <3>3. CASE /\ New(l, i)
               /\ \E y \in Todo(m) : From(m, j, y) /\ TodoAt(m, y).conn # c
      BY <2>1, <3>3 DEF Step
    <3>4. CASE /\ New(m, j)
               /\ \E x \in Todo(l) : From(l, i, x) /\ TodoAt(l, x).conn # c
      BY <2>1, <3>4 DEF Step
    <3> QED
      BY <1>3, <3>1, <3>2, <3>3, <3>4
  <2> QED
    BY <2>1 DEF OnceInv
<1>7. ASSUME NEW d \in Conns \ {c}
      PROVE  ConnInv(d)'
  <2>1. Waits(d) => Waits(d)'
    <3>1. ASSUME NEW l \in Loops, NEW j \in Todo(l), TodoAt(l, j).conn = d
          PROVE  Waits(d)'
      <4>1. PICK i \in Todo(l)' : TodoAt(l, i)' = TodoAt(l, j)
        BY <1>4, <3>1
      <4> QED
        BY <3>1, <4>1 DEF Waits
    <3> QED
      BY <3>1 DEF Waits
  <2>2. conn'[d] = conn[d] /\ (d \in inMap' <=> d \in inMap) /\ ConnInv(d)
    BY DEF Step
  <2> QED
    BY <2>1, <2>2 DEF ConnInv
<1>8. ASSUME NEW l \in Loops, Grows(l, g)
      PROVE  Waits(c)'
  <2>1. (TodoLen(l) \in Todo(l))'
    <3>1. TodoLen(l) \in Nat /\ TodoLen(l)' = TodoLen(l) + 1
      BY <1>1, <1>8 DEF Grows
    <3>2. TodoLen(l)' \in 1 .. TodoLen(l)'
      BY <3>1
    <3> QED
      BY <3>2 DEF Todo
  <2>2. TodoAt(l, TodoLen(l))'.conn = c
    BY <1>8 DEF Grows, Step
  <2> QED
    BY <2>1, <2>2 DEF Waits
<1> QED
  BY <1>5, <1>6, <1>7, <1>8

\* A step that neither runs nor queues a functor, and leaves the registration
\* of every connection as it is.
LEMMA NothingMoves ==
    ASSUME TypeOK, FunctorInv, OnceInv, \A d \in Conns : ConnInv(d),
           \A l \in Loops : Stays(l), inMap' = inMap,
           \A d \in Conns : /\ conn'[d].state = conn[d].state /\ conn'[d].loop = conn[d].loop
                            /\ conn'[d].status = conn[d].status
                            /\ conn'[d].events = conn[d].events
    PROVE  FunctorInv' /\ OnceInv' /\ \A d \in Conns : ConnInv(d)'
<1>1. ASSUME NEW l \in Loops
      PROVE  Todo(l)' = Todo(l) /\ \A i \in Todo(l) : TodoAt(l, i)' = TodoAt(l, i)
  BY DEF Stays, Todo
<1>2. ASSUME NEW l \in Loops, NEW i \in Todo(l)'
      PROVE  Fits(TodoAt(l, i), l)'
  <2> DEFINE h == TodoAt(l, i)
  <2>1. i \in Todo(l) /\ TodoAt(l, i)' = h
    BY <1>1, <1>2
  <2>2. Fits(h, l) /\ h.conn \in Conns
    BY <2>1, TodoTypes DEF FunctorInv, Functors
  <2> HIDE DEF h
  <2> QED
    BY <2>1, <2>2 DEF Fits
<1>3. OnceInv'
  BY <1>1 DEF OnceInv
<1>4. ASSUME NEW d \in Conns
      PROVE  ConnInv(d)'
  <2>1. Waits(d) => Waits(d)'
    BY <1>1 DEF Waits
  <2>2. ConnInv(d)
    OBVIOUS
  <2> QED
    BY <2>1, <2>2 DEF ConnInv
<1> QED
  BY <1>2, <1>3, <1>4 DEF FunctorInv

\* No functor waits for a connection that is not born or that is open.
LEMMA OpenWaitsNot ==
    ASSUME TypeOK, FunctorInv, NEW c \in Conns, conn[c].state \in {"unborn"} \union Open
    PROVE  ~Waits(c)
  BY DEF FunctorInv, Waits, Fits, Open

\* The steps of the program, as steps in the sense above.
OthersStay(c) == \A d \in Conns \ {c} : conn'[d] = conn[d] /\ (d \in inMap' <=> d \in inMap)

LEMMA QuietStep ==
    ASSUME TypeOK, NEW c \in Conns, ~Waits(c), UNCHANGED loopVars, OthersStay(c)
    PROVE  Step(c, [conn |-> c])
<1> DEFINE g == [conn |-> c]
<1>1. \A l \in Loops : TodoLen(l) \in Nat /\ Stays(l)
  BY TodoTypes, SameStays DEF loopVars
<1>2. \A l \in Loops : ~Grows(l, g) /\ ~Pops(l)
  BY <1>1 DEF Grows, Pops, Stays
<1> QED
  BY <1>1, <1>2 DEF Step, OthersStay

LEMMA QueueStep ==
    ASSUME TypeOK, NEW c \in Conns, ~Waits(c), OthersStay(c),
           NEW k \in Loops, NEW g \in Functors, g.conn = c,
           queue' = Queue(k, g), UNCHANGED <<batch, pos>>, Fits(g, k)'
    PROVE  Step(c, g) /\ Grows(k, g)
<1>1. Grows(k, g) /\ \A l \in Loops \ {k} : queue'[l] = queue[l]
  BY QueueGrows
<1>2. \A l \in Loops : TodoLen(l) \in Nat /\ (l # k => Stays(l))
  BY <1>1, TodoTypes, SameStays
<1>3. \A l \in Loops : ~Pops(l) /\ (Grows(l, g) => l = k)
  BY <1>1, <1>2 DEF Grows, Pops, Stays
<1> QED
  BY <1>1, <1>2, <1>3 DEF Step, OthersStay

LEMMA RunStep ==
    ASSUME TypeOK, NEW c \in Conns, OthersStay(c), NEW l \in Loops,
           pos[l] < Len(batch[l]), batch[l][pos[l] + 1].conn = c,
           pos' = [pos EXCEPT ![l] = pos[l] + 1], UNCHANGED <<queue, batch>>
    PROVE  Step(c, [conn |-> c])
<1> DEFINE g == [conn |-> c]
<1>1. Pops(l) /\ TodoAt(l, 1) = batch[l][pos[l] + 1]
  BY RunPops DEF TypeOK
<1>2. \A m \in Loops : TodoLen(m) \in Nat /\ (m # l => Stays(m))
  BY TodoTypes, SameStays DEF TypeOK
<1>3. \A m \in Loops : ~Grows(m, g) /\ (Pops(m) => m = l)
  BY <1>1, <1>2 DEF Grows, Pops, Stays
<1> QED
  BY <1>1, <1>2, <1>3 DEF Step, OthersStay

LEMMA RunAndQueueStep ==
    ASSUME TypeOK, NEW c \in Conns, OthersStay(c), NEW l \in Loops,
           pos[l] < Len(batch[l]), batch[l][pos[l] + 1].conn = c,
           pos' = [pos EXCEPT ![l] = pos[l] + 1], UNCHANGED batch,
           NEW k \in Loops, k # l, NEW g \in Functors, g.conn = c,
           queue' = Queue(k, g), Fits(g, k)'
    PROVE  Step(c, g) /\ Grows(k, g)
<1>1. \A m \in Loops \ {l} : pos'[m] = pos[m]
  BY DEF TypeOK
<1>2. Grows(k, g) /\ \A m \in Loops \ {k} : queue'[m] = queue[m]
  BY <1>1, QueueGrows
<1>3. Pops(l) /\ TodoAt(l, 1) = batch[l][pos[l] + 1]
  BY <1>2, RunPops DEF TypeOK
<1>4. \A m \in Loops : TodoLen(m) \in Nat /\ (m \notin {k, l} => Stays(m))
  BY <1>1, <1>2, TodoTypes, SameStays
<1>5. \A m \in Loops : (Grows(m, g) => m = k) /\ (Pops(m) => m = l)
  BY <1>2, <1>3, <1>4 DEF Grows, Pops, Stays
<1> QED
  BY <1>2, <1>3, <1>4, <1>5 DEF Step, OthersStay
-----------------------------------------------------------------------------
LEMMA NewConnectionSafe ==
    ASSUME TypeOK, SafeInv, NEW c \in Conns, NewConnection(c)
    PROVE  SafeInv' /\ (conn'[c].state = "kConnecting" \/ conn'[c].state \in Open)
<1> DEFINE r == [conn[c] EXCEPT !.state = "kConnecting", !.loop = NextLoop]
<1>1. /\ inMap' = inMap \union {c} /\ conn[c].state = "unborn"
      /\ UNCHANGED <<batch, pos, user, server, failed>>
      /\ IF NextLoop = Base
         THEN (\E s \in Established(r) : conn' = [conn EXCEPT ![c] = s]) /\ UNCHANGED queue
         ELSE conn' = [conn EXCEPT ![c] = r]
              /\ queue' = Queue(NextLoop, Functor("established", c, TRUE))
  BY DEF NewConnection, Register
<1>2. /\ r \in Record /\ r.state = "kConnecting" /\ r.loop = NextLoop
      /\ r.status = conn[c].status /\ r.events = conn[c].events
  BY RecordType, NextLoopType DEF Record, States
<1>3. conn[c].status = "kNew" /\ conn[c].events = {} /\ ~Waits(c)
  BY <1>1, OpenWaitsNot DEF SafeInv, ConnInv
<1>4. conn \in [Conns -> Record]
  BY DEF TypeOK
<1> HIDE DEF r
<1>5. OthersStay(c)
  BY <1>1, <1>4 DEF OthersStay
<1>6. QuietInv'
  BY <1>1 DEF SafeInv, QuietInv
<1>7. CASE NextLoop = Base
  <2>1. PICK s \in Established(r) : conn' = [conn EXCEPT ![c] = s]
    BY <1>1, <1>7
  <2>2. s.state \in Open /\ s.status = "kAdded" /\ "read" \in s.events /\ conn'[c] = s
    BY <1>2, <1>4, <2>1, EstablishedOpens
  <2>3. ConnInv(c)'
    BY <1>1, <2>2 DEF ConnInv, Open
  <2>4. Step(c, [conn |-> c])
    BY <1>1, <1>3, <1>5, <1>7, QuietStep DEF loopVars
  <2> QED
    BY <1>6, <2>2, <2>3, <2>4, StepKeepsOthers DEF SafeInv
<1>8. CASE NextLoop # Base
  <2> DEFINE g == Functor("established", c, TRUE)
  <2>1. g \in Functors /\ g.conn = c /\ g.op = "established" /\ g.shared
    BY DEF Functor, Functors
  <2>2. conn'[c] = r /\ queue' = Queue(NextLoop, g)
    BY <1>1, <1>4, <1>8
  <2> HIDE DEF g
  <2>6. PICK k \in Loops : k = NextLoop
    BY NextLoopType
  <2>3. Fits(g, k)'
    BY <1>2, <2>1, <2>2, <2>6 DEF Fits
  <2>4. ConnInv(c)'
    BY <1>1, <1>2, <1>3, <2>2 DEF ConnInv, Open
  <2>5. Step(c, g)
    BY <1>1, <1>3, <1>5, <2>1, <2>2, <2>3, <2>6, QueueStep
  <2> QED
    BY <1>2, <1>6, <2>2, <2>4, <2>5, StepKeepsOthers DEF SafeInv
<1> QED
  BY <1>7, <1>8

\* A delivered event belongs to an open connection.
LEMMA DeliveredIsOpen ==
    ASSUME TypeOK, SafeInv, NEW c \in Conns, Delivered(c)
    PROVE  /\ conn[c].state \in Open /\ c \in inMap /\ ~Waits(c)
           /\ conn[c].status = "kAdded" /\ "read" \in conn[c].events
<1>1. conn[c].status = "kAdded" /\ ConnInv(c)
  BY DEF Delivered, SafeInv
<1>2. conn[c].state \in States
  BY RecordType DEF Record
<1>3. conn[c].state \in Open
  BY <1>1, <1>2 DEF ConnInv, States, Open
<1>4. ~Waits(c)
  BY <1>3, OpenWaitsNot DEF SafeInv
<1> QED
  BY <1>1, <1>3, <1>4 DEF ConnInv, Open

LEMMA CloseSafe ==
    ASSUME TypeOK, SafeInv, NEW c \in Conns, Delivered(c), Close(c)
    PROVE  SafeInv' /\ conn'[c].state = "kDisconnected"
<1> DEFINE r == Closed(conn[c])
<1>1. /\ conn[c].state \in Open /\ c \in inMap /\ ~Waits(c)
      /\ conn[c].status = "kAdded" /\ conn[c] \in Record /\ conn \in [Conns -> Record]
  BY DeliveredIsOpen, RecordType DEF TypeOK
<1>2. /\ conn' = [conn EXCEPT ![c] = r] /\ RemoveConnection(c)
      /\ UNCHANGED <<pool, batch, pos, user, server>>
  BY <1>1 DEF Close, Closed, Open
<1>3. /\ r.state = "kDisconnected" /\ r.events = {} /\ r.loop = conn[c].loop
      /\ r.status = "kDeleted"
  BY <1>1, ClosedType
<1> HIDE DEF r
<1>4. conn'[c] = r /\ \A d \in Conns \ {c} : conn'[d] = conn[d]
  BY <1>1, <1>2
<1>5. Base \in Loops /\ conn[c].loop \in Loops
  BY RecordType DEF Loops
<1>6. CASE conn[c].loop = Base
  <2> DEFINE g == Functor("destroyed", c, TRUE)
  <2>1. g \in Functors /\ g.conn = c /\ g.op = "destroyed" /\ g.shared
    BY DEF Functor, Functors
  <2>2. /\ queue' = Queue(Base, g) /\ inMap' = inMap \ {c} /\ failed' = failed
    BY <1>1, <1>2, <1>6 DEF RemoveConnection, RemoveInLoop, Asserts
  <2> HIDE DEF g
  <2>3. Fits(g, Base)'
    BY <1>3, <1>4, <1>6, <2>1, <2>2 DEF Fits
  <2>4. OthersStay(c)
    BY <1>4, <2>2 DEF OthersStay
  <2>5. Step(c, g) /\ Grows(Base, g)
    BY <1>1, <1>2, <1>5, <2>1, <2>2, <2>3, <2>4, QueueStep
  <2>6. FunctorInv' /\ OnceInv' /\ (\A d \in Conns \ {c} : ConnInv(d)') /\ Waits(c)'
    BY <1>5, <2>5, StepKeepsOthers DEF SafeInv
  <2>7. ConnInv(c)'
    BY <1>3, <1>4, <2>6 DEF ConnInv, Open
  <2> QED
    BY <1>2, <1>3, <1>4, <2>2, <2>6, <2>7 DEF SafeInv, QuietInv
<1>7. CASE conn[c].loop # Base
  <2> DEFINE g == Functor("remove", c, TRUE)
  <2>1. g \in Functors /\ g.conn = c /\ g.op = "remove" /\ g.shared
    BY DEF Functor, Functors
  <2>2. queue' = Queue(Base, g) /\ inMap' = inMap /\ failed' = failed
    BY <1>2, <1>7 DEF RemoveConnection
  <2> HIDE DEF g
  <2>3. Fits(g, Base)'
    BY <1>1, <1>3, <1>4, <1>7, <2>1, <2>2 DEF Fits
  <2>4. OthersStay(c)
    BY <1>4, <2>2 DEF OthersStay
  <2>5. Step(c, g) /\ Grows(Base, g)
    BY <1>1, <1>2, <1>5, <2>1, <2>2, <2>3, <2>4, QueueStep
  <2>6. FunctorInv' /\ OnceInv' /\ (\A d \in Conns \ {c} : ConnInv(d)') /\ Waits(c)'
    BY <1>5, <2>5, StepKeepsOthers DEF SafeInv
  <2>7. ConnInv(c)'
    BY <1>3, <1>4, <2>6 DEF ConnInv, Open
  <2> QED
    BY <1>2, <1>3, <1>4, <2>2, <2>6, <2>7 DEF SafeInv, QuietInv
<1> QED
  BY <1>6, <1>7

\* A message or a writable socket leaves the connection open and registered.
LEMMA OpenStaysSafe ==
    ASSUME TypeOK, SafeInv, NEW c \in Conns, Delivered(c),
           NEW r \in Record, conn' = [conn EXCEPT ![c] = r],
           UNCHANGED <<inMap, pool, loopVars, user, server, failed>>,
           r.state = conn[c].state \/ r.state = "kDisconnecting",
           r.status = "kAdded", "read" \in r.events
    PROVE  SafeInv' /\ (conn'[c].state = conn[c].state \/ conn'[c].state = "kDisconnecting")
<1>1. conn[c].state \in Open /\ c \in inMap /\ ~Waits(c) /\ conn \in [Conns -> Record]
  BY DeliveredIsOpen DEF TypeOK
<1>2. conn'[c] = r /\ OthersStay(c)
  BY <1>1 DEF OthersStay
<1>3. Step(c, [conn |-> c])
  BY <1>1, <1>2, QuietStep
<1>4. ConnInv(c)'
  BY <1>1, <1>2 DEF ConnInv, Open
<1>5. FunctorInv' /\ OnceInv' /\ \A d \in Conns \ {c} : ConnInv(d)'
  BY <1>3, StepKeepsOthers DEF SafeInv
<1>6. QuietInv'
  BY DEF SafeInv, QuietInv
<1> QED
  BY <1>2, <1>4, <1>5, <1>6 DEF SafeInv

\* The state of a connection only moves forward.
Forward == \A c \in Conns : Order(conn[c].state) <= Order(conn'[c].state)

\* The states in their order, as numbers.
LEMMA OrderOf ==
    /\ Order("unborn") = 0 /\ Order("kConnecting") = 1 /\ Order("kConnected") = 2
    /\ Order("kDisconnecting") = 3 /\ Order("kDisconnected") = 4
  BY DEF Order

LEMMA ForwardOne ==
    ASSUME TypeOK, NEW c \in Conns, \A d \in Conns \ {c} : conn'[d] = conn[d],
           \/ conn'[c].state \in {conn[c].state, "kDisconnected"}
           \/ conn[c].state = "unborn" /\ conn'[c].state \in {"kConnecting"} \union Open
           \/ conn[c].state = "kConnecting" /\ conn'[c].state \in Open
           \/ conn[c].state \in Open /\ conn'[c].state = "kDisconnecting"
    PROVE  Forward
<1>1. ASSUME NEW d \in Conns
      PROVE  conn[d].state \in States /\ Order(conn[d].state) \in 0 .. 4
  BY <1>1, OrderOf, RecordType DEF Record, States
<1>2. Order(conn[c].state) <= Order(conn'[c].state)
  BY <1>1, OrderOf DEF Open
<1>3. ASSUME NEW d \in Conns \ {c}
      PROVE  Order(conn[d].state) <= Order(conn'[d].state)
  BY <1>1
<1> QED
  BY <1>2, <1>3 DEF Forward

LEMMA EventSafe ==
    ASSUME TypeOK, SafeInv, NEW c \in Conns, EventStep(c)
    PROVE  SafeInv' /\ Forward
<1>1. Delivered(c)
  BY DEF EventStep, Message, ReadClose, HangUp, Writable
<1>2. /\ conn[c].state \in Open /\ conn[c].status = "kAdded" /\ "read" \in conn[c].events
      /\ conn[c] \in Record /\ conn \in [Conns -> Record]
  BY <1>1, DeliveredIsOpen, RecordType DEF TypeOK
<1>3. CASE ReadClose(c) \/ HangUp(c)
  <2>1. Close(c)
    BY <1>3 DEF ReadClose, HangUp
  <2>2. SafeInv' /\ conn'[c].state = "kDisconnected"
    BY <1>1, <2>1, CloseSafe
  <2>3. \A d \in Conns \ {c} : conn'[d] = conn[d]
    BY <1>2, <2>1 DEF Close
  <2> QED
    BY <2>2, <2>3, ForwardOne
<1>4. ASSUME NEW r \in Record, conn' = [conn EXCEPT ![c] = r],
             UNCHANGED <<inMap, pool, loopVars, user, server, failed>>,
             r.state = conn[c].state \/ r.state = "kDisconnecting",
             r.status = "kAdded", "read" \in r.events
      PROVE  SafeInv' /\ Forward
  <2>1. SafeInv' /\ (conn'[c].state = conn[c].state \/ conn'[c].state = "kDisconnecting")
    BY <1>1, <1>4, OpenStaysSafe
  <2>2. \A d \in Conns \ {c} : conn'[d] = conn[d]
    BY <1>2, <1>4
  <2> QED
    BY <1>2, <2>1, <2>2, ForwardOne
<1>5. CASE Message(c)
  <2>1. PICK s \in AfterCallback(conn[c]) : conn' = [conn EXCEPT ![c] = s]
    BY <1>5 DEF Message
  <2>2. /\ s \in Record /\ (s.state = conn[c].state \/ s.state = "kDisconnecting")
        /\ s.status = "kAdded" /\ "read" \in s.events
    BY <1>2, CallbackKeepsOpen
  <2>3. UNCHANGED <<inMap, pool, loopVars, user, server, failed>>
    BY <1>5 DEF Message
  <2> QED
    BY <1>4, <2>1, <2>2, <2>3
<1>6. CASE Writable(c)
  <2> DEFINE q == [conn[c] EXCEPT !.out = FALSE]
             e == conn[c].events \ {"write"}
             r == SetEvents(q, e)
             x == IF r.state = "kDisconnecting" THEN ShutdownInLoop(r) ELSE r
  <2>1. /\ conn' = [conn EXCEPT ![c] = x]
        /\ UNCHANGED <<inMap, pool, loopVars, user, server, failed>>
    BY <1>6 DEF Writable
  <2>2. /\ q \in Record /\ q.state = conn[c].state
        /\ e \in SUBSET {"read", "write"} /\ "read" \in e
    BY <1>2 DEF Record
  <2> HIDE DEF q, e
  <2>3. /\ r \in Record /\ r.state = q.state /\ r.events = e
        /\ r.status = IF q.status = "kAdded" /\ e = {} THEN "kDeleted" ELSE "kAdded"
    BY <2>2, SetEventsType
  <2>4. r.status = "kAdded"
    BY <2>2, <2>3
  <2> HIDE DEF r
  <2>5. /\ x \in Record /\ x.state = r.state /\ x.events = r.events
        /\ x.status = r.status
    BY <2>3, ShutdownType
  <2> HIDE DEF x
  <2> QED
    BY <1>4, <2>1, <2>2, <2>3, <2>4, <2>5
<1> QED
  BY <1>3, <1>5, <1>6 DEF EventStep

LEMMA PeerClosesSafe ==
    ASSUME TypeOK, SafeInv, NEW c \in Conns, PeerCloses(c)
    PROVE  SafeInv' /\ Forward
<1>1. /\ conn' = [conn EXCEPT ![c] = [conn[c] EXCEPT !.peer = "closed"]]
      /\ UNCHANGED <<inMap, pool, queue, batch, pos, user, server, failed>>
  BY DEF PeerCloses, loopVars
<1>2. conn \in [Conns -> Record] /\ conn[c] \in Record
  BY RecordType DEF TypeOK
<1>3. ASSUME NEW d \in Conns
      PROVE  /\ conn'[d].state = conn[d].state /\ conn'[d].loop = conn[d].loop
             /\ conn'[d].status = conn[d].status
             /\ conn'[d].events = conn[d].events
  BY <1>1, <1>2 DEF Record
<1>4. \A l \in Loops : Stays(l)
  BY <1>1, SameStays
<1>5. FunctorInv' /\ OnceInv' /\ \A d \in Conns : ConnInv(d)'
  BY <1>1, <1>3, <1>4, NothingMoves DEF SafeInv
<1>6. QuietInv'
  BY <1>1 DEF SafeInv, QuietInv
<1>7. \A d \in Conns \ {c} : conn'[d] = conn[d]
  BY <1>1, <1>2
<1> QED
  BY <1>3, <1>5, <1>6, <1>7, ForwardOne DEF SafeInv

\* What waits with a shared_ptr is held.
LEMMA BoundWhenWaiting ==
    ASSUME TypeOK, NEW l \in Loops, NEW i \in Todo(l), TodoAt(l, i).shared
    PROVE  /\ BoundIn(batch[l], TodoAt(l, i).conn) \/ BoundIn(queue[l], TodoAt(l, i).conn)
           /\ Held(TodoAt(l, i).conn)
<1> DEFINE n == Len(batch[l]) - pos[l]
           f == TodoAt(l, i)
<1>1. n \in Nat /\ i \in 1 .. n + Len(queue[l]) /\ f.shared
  BY LoopTypes DEF Todo, TodoLen, RestLen
<1>2. CASE i <= n
  <2>1. pos[l] + i \in 1 .. Len(batch[l]) /\ f = batch[l][pos[l] + i]
    BY <1>1, <1>2, LoopTypes DEF TodoAt, RestAt
  <2> QED
    BY <1>1, <2>1 DEF BoundIn, Held
<1>3. CASE ~(i <= n)
  <2>1. i - n \in 1 .. Len(queue[l]) /\ f = queue[l][i - n]
    BY <1>1, <1>3, LoopTypes DEF TodoAt, RestAt
  <2> QED
    BY <1>1, <2>1 DEF BoundIn, Held
<1> QED
  BY <1>2, <1>3

LEMMA RunFunctorSafe ==
    ASSUME TypeOK, SafeInv, NEW l \in Loops, RunFunctor(l)
    PROVE  SafeInv' /\ Forward
<1>1. /\ pos' = [pos EXCEPT ![l] = pos[l] + 1] /\ pos[l] < Len(batch[l])
      /\ UNCHANGED <<pool, batch, user, server>>
  BY DEF RunFunctor
<1>2. /\ 1 \in Todo(l)
      /\ TodoAt(l, 1) = batch[l][pos[l] + 1]
  <2>1. /\ 1 \in 1 .. RestLen(batch[l], pos[l], queue[l])
        /\ RestAt(batch[l], pos[l], queue[l], 1) = batch[l][pos[l] + 1]
    BY <1>1, LoopTypes, RestPop
  <2> QED
    BY <2>1 DEF Todo, TodoLen, TodoAt
<1>3. PICK f \in Functors, c \in Conns : f = batch[l][pos[l] + 1] /\ c = f.conn
  BY <1>2, TodoTypes DEF Functors
<1>4. Fits(f, l) /\ Held(c)
  <2>1. Fits(f, l) /\ TodoAt(l, 1).shared
    BY <1>2, <1>3 DEF SafeInv, FunctorInv, Fits
  <2> QED
    BY <1>2, <1>3, <2>1, BoundWhenWaiting
<1>5. conn \in [Conns -> Record] /\ conn[c] \in Record /\ ConnInv(c) /\ QuietInv
  BY <1>4, RecordType DEF TypeOK, SafeInv
<1>6. CASE f.op = "established"
  <2>1. PICK s \in Established(conn[c]) : conn' = [conn EXCEPT ![c] = s]
    BY <1>3, <1>4, <1>6 DEF RunFunctor
  <2>2. UNCHANGED <<inMap, queue>> /\ failed' = failed
    BY <1>3, <1>4, <1>6 DEF RunFunctor, Asserts, Fits
  <2>3. conn[c].state = "kConnecting"
    BY <1>3, <1>4, <1>6 DEF Fits
  <2>4. /\ s.state \in Open /\ s.status = "kAdded" /\ "read" \in s.events
        /\ conn'[c] = s /\ OthersStay(c)
    BY <1>4, <1>5, <2>1, <2>2, EstablishedOpens DEF OthersStay
  <2>5. Step(c, [conn |-> c])
    BY <1>1, <1>3, <1>4, <2>2, <2>4, RunStep
  <2>6. ConnInv(c)'
    BY <1>5, <2>2, <2>3, <2>4 DEF ConnInv, Open
  <2>7. FunctorInv' /\ OnceInv' /\ \A d \in Conns \ {c} : ConnInv(d)'
    BY <1>4, <2>5, StepKeepsOthers DEF SafeInv
  <2>8. Forward
    BY <1>4, <2>3, <2>4, ForwardOne DEF OthersStay
  <2> QED
    BY <1>1, <1>5, <2>2, <2>6, <2>7, <2>8 DEF SafeInv, QuietInv
<1>7. CASE f.op = "remove"
  <2> DEFINE g == Functor("destroyed", c, TRUE)
  <2>1. RemoveInLoop(c) /\ UNCHANGED conn
    BY <1>3, <1>4, <1>7 DEF RunFunctor
  <2>2. /\ conn[c].state = "kDisconnected" /\ c \in inMap
        /\ l = Base /\ conn[c].loop # Base
    BY <1>3, <1>4, <1>7 DEF Fits
  <2>3. g \in Functors /\ g.conn = c /\ g.op = "destroyed" /\ g.shared
    BY <1>4 DEF Functor, Functors
  <2>4. queue' = Queue(conn[c].loop, g) /\ inMap' = inMap \ {c} /\ failed' = failed
    BY <2>1, <2>2 DEF RemoveInLoop, Asserts
  <2> HIDE DEF g
  <2>5. PICK k \in Loops : k = conn[c].loop
    BY <1>4, RecordType
  <2>6. Fits(g, k)'
    BY <2>1, <2>2, <2>3, <2>4, <2>5 DEF Fits
  <2>7. OthersStay(c)
    BY <2>1, <2>4 DEF OthersStay
  <2>8. batch[l][pos[l] + 1].conn = c /\ k # l
    BY <1>3, <2>2, <2>5
  <2>9. Step(c, g) /\ Grows(k, g)
    BY <1>1, <1>3, <1>4, <2>3, <2>4, <2>5, <2>6, <2>7, <2>8, RunAndQueueStep
  <2>10. FunctorInv' /\ OnceInv' /\ (\A d \in Conns \ {c} : ConnInv(d)') /\ Waits(c)'
    BY <1>4, <2>9, StepKeepsOthers DEF SafeInv
  <2>11. ConnInv(c)'
    BY <1>5, <2>1, <2>2, <2>10 DEF ConnInv, Open
  <2>12. Forward
    BY <1>4, <2>1, ForwardOne
  <2> QED
    BY <1>1, <1>5, <2>4, <2>10, <2>11, <2>12 DEF SafeInv, QuietInv
<1>8. CASE f.op = "destroyed"
  <2>1. /\ conn' = [conn EXCEPT ![c] = Destroyed(conn[c])]
        /\ Asserts(RemoveAllowed(conn[c]), "Channel::remove")
        /\ UNCHANGED <<inMap, queue>>
    BY <1>3, <1>4, <1>8 DEF RunFunctor
  <2>2. conn[c].state = "kDisconnected" /\ c \notin inMap
    BY <1>3, <1>4, <1>8 DEF Fits
  <2>3. conn[c].events = {} /\ failed' = failed
    BY <1>5, <2>1, <2>2 DEF ConnInv, Asserts, RemoveAllowed
  <2>4. /\ conn'[c].state = "kDisconnected" /\ conn'[c].events = {}
        /\ conn'[c].status = "kNew" /\ OthersStay(c)
    BY <1>4, <1>5, <2>1, <2>2, <2>3, DestroyedType DEF OthersStay
  <2>5. Step(c, [conn |-> c])
    BY <1>1, <1>3, <1>4, <2>1, <2>4, RunStep
  <2>6. ConnInv(c)'
    BY <2>4 DEF ConnInv, Open
  <2>7. FunctorInv' /\ OnceInv' /\ \A d \in Conns \ {c} : ConnInv(d)'
    BY <1>4, <2>5, StepKeepsOthers DEF SafeInv
  <2>8. Forward
    BY <1>4, <2>2, <2>4, ForwardOne DEF OthersStay
  <2> QED
    BY <1>1, <1>5, <2>3, <2>6, <2>7, <2>8 DEF SafeInv, QuietInv
<1> QED
  BY <1>4, <1>6, <1>7, <1>8 DEF Fits
-----------------------------------------------------------------------------
\* SafeInv is inductive.
LEMMA InitSafe == ASSUME UserOps \subseteq {{}}, Init PROVE SafeInv
<1>1. \A l \in Loops : queue[l] = <<>> /\ batch[l] = <<>> /\ pos[l] = 0
  BY DEF Init
<1>2. RestLen(<<>>, 0, <<>>) = 0
  BY DEF RestLen
<1>3. \A l \in Loops : Todo(l) = {}
  BY <1>1, <1>2 DEF Todo, TodoLen
<1>4. FunctorInv /\ OnceInv
  BY <1>3 DEF FunctorInv, OnceInv
<1>5. \A c \in Conns : ConnInv(c)
  BY DEF Init, Unborn, ConnInv, Open
<1>6. QuietInv
  BY DEF Init, QuietInv
<1> QED
  BY <1>4, <1>5, <1>6 DEF SafeInv

LEMMA StepSafe ==
    ASSUME TypeOK, SafeInv, ~ServerDtor, [Next]_vars
    PROVE  SafeInv' /\ (Forward \/ UNCHANGED conn)
<1>1. ASSUME (\A l \in Loops : Stays(l)), UNCHANGED <<conn, inMap, user, server, failed>>
      PROVE  SafeInv'
  <2>1. FunctorInv' /\ OnceInv' /\ \A d \in Conns : ConnInv(d)'
    BY <1>1, NothingMoves DEF SafeInv
  <2>2. QuietInv'
    BY <1>1 DEF SafeInv, QuietInv
  <2> QED
    BY <2>1, <2>2 DEF SafeInv
<1>2. CASE UNCHANGED vars
  <2>1. \A l \in Loops : Stays(l)
    BY <1>2, SameStays DEF vars
  <2> QED
    BY <1>1, <1>2, <2>1 DEF vars
<1>3. ASSUME NEW l \in Loops, LoopStep(l)
      PROVE  SafeInv' /\ (Forward \/ UNCHANGED conn)
  <2>1. CASE TakeBatch(l) \/ EndBatch(l)
    <3>1. \A k \in Loops : Stays(k)
      BY <2>1, SwapStays
    <3>2. UNCHANGED <<conn, inMap, user, server, failed>>
      BY <2>1 DEF TakeBatch, EndBatch
    <3> QED
      BY <1>1, <3>1, <3>2
  <2> QED
    BY <1>3, <2>1, RunFunctorSafe DEF LoopStep
<1>4. ASSUME NEW c \in Conns, NewConnection(c)
      PROVE  SafeInv' /\ Forward
  <2>1. SafeInv' /\ (conn'[c].state = "kConnecting" \/ conn'[c].state \in Open)
    BY <1>4, NewConnectionSafe
  <2>2. conn[c].state = "unborn" /\ \A d \in Conns \ {c} : conn'[d] = conn[d]
    BY <1>4 DEF NewConnection, TypeOK
  <2> QED
    BY <2>1, <2>2, ForwardOne
<1>5. ASSUME NEW u \in Users
      PROVE  ~UserStep(u)
  BY DEF UserStep, UserTakes, UserDrops, UserTests, UserSetsState, UserQueues,
         SafeInv, QuietInv
<1>6. ~DestroyEach /\ ~DestroyMap
  BY DEF DestroyEach, DestroyMap, SafeInv, QuietInv
<1> QED
  BY <1>2, <1>3, <1>4, <1>5, <1>6, EventSafe, PeerClosesSafe DEF Next

\* What SafeInv says of the properties.
LEMMA SafeImplies ==
    ASSUME TypeOK, SafeInv
    PROVE  NoAssertionFails /\ RegisteredIsHeld /\ NoneForgotten
<1>1. ASSUME NEW c \in Conns
      PROVE  /\ ConnInv(c) /\ conn[c].state \in States
             /\ conn[c].status \in {"kNew", "kAdded", "kDeleted"}
  BY RecordType DEF SafeInv, Record
<1>2. ASSUME NEW c \in Conns, conn[c].state = "kDisconnected", Waits(c), c \notin inMap
      PROVE  /\ BoundIn(queue[conn[c].loop], c) \/ BoundIn(batch[conn[c].loop], c)
             /\ Held(c)
  <2>0. PICK l \in Loops : \E i \in Todo(l) : TodoAt(l, i).conn = c
    BY <1>2 DEF Waits
  <2>1. PICK i \in Todo(l) : TodoAt(l, i).conn = c
    BY <2>0
  <2>2. Fits(TodoAt(l, i), l)
    BY DEF SafeInv, FunctorInv
  <2>3. conn[c].loop = l
    BY <1>2, <2>1, <2>2 DEF Fits
  <2>4. (BoundIn(batch[l], c) \/ BoundIn(queue[l], c)) /\ Held(c)
    BY <2>1, <2>2, BoundWhenWaiting DEF Fits
  <2> QED
    BY <2>3, <2>4
<1>3. ASSUME NEW c \in Conns
      PROVE  ~DtorFails(c)
  <2>1. CASE conn[c].state = "unborn"
    BY <2>1 DEF DtorFails
  <2>2. CASE conn[c].state \in {"kConnecting"} \union Open
    BY <1>1, <2>2 DEF DtorFails, ConnInv, Held
  <2>3. CASE conn[c].state = "kDisconnected"
    BY <1>1, <1>2, <2>3 DEF DtorFails, ConnInv, Held
  <2> QED
    BY <1>1, <2>1, <2>2, <2>3 DEF States, Open
<1>4. NoAssertionFails
  BY <1>3 DEF NoAssertionFails, Running, SafeInv, QuietInv
<1>5. ASSUME NEW c \in Conns, conn[c].status = "kAdded"
      PROVE  Held(c)
  BY <1>1, <1>5 DEF ConnInv, States, Open, Held
<1>6. ASSUME NEW c \in Conns, conn[c].state \notin {"unborn", "kConnecting"}
      PROVE  \/ c \in inMap
             \/ conn[c].status = "kNew"
             \/ BoundIn(queue[conn[c].loop], c) \/ BoundIn(batch[conn[c].loop], c)
  BY <1>1, <1>2, <1>6 DEF ConnInv, States, Open
<1> QED
  BY <1>4, <1>5, <1>6 DEF RegisteredIsHeld, NoneForgotten

\* When only the loops use the connections, and the server stays up, no
\* assertion of TcpConnection, TcpServer, Channel or Epoll fails, however many
\* connections come and go and however the loops interleave.
THEOREM AssertionsHold ==
    ASSUME UserOps \subseteq {{}}, ~ServerDtor
    PROVE  Spec => []NoAssertionFails
<1>1. Init => SafeInv
  BY InitSafe
<1>2. TypeOK /\ SafeInv /\ [Next]_vars => SafeInv'
  BY StepSafe
<1>3. TypeOK /\ SafeInv => NoAssertionFails
  BY SafeImplies
<1> QED
  BY <1>1, <1>2, <1>3, TypeCorrect, PTL DEF Spec

\* Under the same assumptions, the raw pointers epoll keeps are of connections
\* that a shared_ptr holds.
THEOREM EpollIsSafe ==
    ASSUME UserOps \subseteq {{}}, ~ServerDtor
    PROVE  Spec => []RegisteredIsHeld
<1>1. Init => SafeInv
  BY InitSafe
<1>2. TypeOK /\ SafeInv /\ [Next]_vars => SafeInv'
  BY StepSafe
<1>3. TypeOK /\ SafeInv => RegisteredIsHeld
  BY SafeImplies
<1> QED
  BY <1>1, <1>2, <1>3, TypeCorrect, PTL DEF Spec

\* Under the same assumptions, a closed connection that left the map without
\* having left epoll's map has its connectionDestroyed queued in its loop.
THEOREM RemovalIsPending ==
    ASSUME UserOps \subseteq {{}}, ~ServerDtor
    PROVE  Spec => []NoneForgotten
<1>1. Init => SafeInv
  BY InitSafe
<1>2. TypeOK /\ SafeInv /\ [Next]_vars => SafeInv'
  BY StepSafe
<1>3. TypeOK /\ SafeInv => NoneForgotten
  BY SafeImplies
<1> QED
  BY <1>1, <1>2, <1>3, TypeCorrect, PTL DEF Spec

\* Under the same assumptions, no connection goes back to an earlier state.
THEOREM NoWayBack ==
    ASSUME UserOps \subseteq {{}}, ~ServerDtor
    PROVE  Spec => StateForward
<1>1. Init => SafeInv
  BY InitSafe
<1>2. TypeOK /\ SafeInv /\ [Next]_vars => SafeInv'
  BY StepSafe
<1>3. TypeOK /\ SafeInv /\ [Next]_vars
        => [\A c \in Conns : Order(conn[c].state) <= Order(conn'[c].state)]_vars
  <2> SUFFICES ASSUME TypeOK, SafeInv, Next
               PROVE  \A c \in Conns : Order(conn[c].state) <= Order(conn'[c].state)
    OBVIOUS
  <2>1. Forward \/ UNCHANGED conn
    BY StepSafe
  <2>2. \A c \in Conns : Order(conn[c].state) \in 0 .. 4
    BY OrderOf, RecordType DEF Record, States
  <2> QED
    BY <2>1, <2>2 DEF Forward
<1> QED
  BY <1>1, <1>2, <1>3, TypeCorrect, PTL DEF Spec, StateForward
-----------------------------------------------------------------------------
\* Threads that use a connection from outside.  They send or they shut down: if both are
\* done, a late send() and a late shutdown() together make a removed connection look open.
Mute    == \A u \in Users : "send" \notin user[u].ops
OneKind == Mute \/ \A u \in Users : "shutdown" \notin user[u].ops

\* The connections whose removal has not begun.  A late shutdown() sets the state of a closed
\* one back to kDisconnecting, a late send() puts its channel into epoll again.
Live(c) == \/ conn[c].state = "kConnecting"
           \/ conn[c].state \in Open /\ (Mute => conn[c].status = "kAdded")

\* A functor that waits in loop l agrees with its connection, which may be used by others.
Suits(f, l) ==
    /\ conn[f.conn].state # "unborn"
    /\ f.op = "established" <=> conn[f.conn].state = "kConnecting"
    /\ f.op = "remove" =>
            l = Base /\ conn[f.conn].loop # Base /\ f.conn \in inMap /\ ~Live(f.conn)
    /\ Mute => /\ f.shared /\ f.op # "send"
               /\ f.op \in {"remove", "destroyed"} =>
                      conn[f.conn].events = {} /\ conn[f.conn].status # "kAdded"

SuitsInv == \A l \in Loops : \A i \in Todo(l) : Suits(TodoAt(l, i), l)

\* No connection has two functors waiting that establish it, or two that remove it.
Clash(f, h) == f.conn = h.conn /\ f.op = h.op /\ f.op \in {"established", "remove"}

SoleInv == \A l, m \in Loops : \A i \in Todo(l), j \in Todo(m) :
                Clash(TodoAt(l, i), TodoAt(m, j)) => l = m /\ i = j

LifeInv(c) ==
    /\ conn[c].state \in {"unborn", "kConnecting"} =>
            conn[c].status = "kNew" /\ conn[c].events = {}
    /\ Live(c) => c \in inMap
    /\ Mute /\ conn[c].status = "kAdded" => conn[c].state \in Open

CallInv(u) ==
    /\ user[u].at = "send" => "send" \in user[u].ops
    /\ user[u].at \in {"shutdown", "queueShutdown"} => "shutdown" \in user[u].ops
    /\ user[u].holds \in Conns \ {NotHeld} =>
            conn[user[u].holds].state \notin {"unborn", "kConnecting"}

\* What may have failed.
FailInv == /\ failed \notin {"erase", "connectionEstablished"}
           /\ Mute => failed = "none"

HarmInv == /\ SuitsInv /\ SoleInv /\ (\A c \in Conns : LifeInv(c)) /\ (\A u \in Users : CallInv(u))
           /\ FailInv /\ OneKind /\ server = "up"
-----------------------------------------------------------------------------
\* A functor of loop l that the step does not run.
Rests(f, l) == \E j \in Todo(l) : TodoAt(l, j) = f /\ (Pops(l) => j # 1)

\* A step runs the first functor of some loops, and queues g in one of them or in none.
Moves(g) == /\ \A l \in Loops : Stays(l) \/ Pops(l) \/ Grows(l, g)
            /\ \A l, m \in Loops : Grows(l, g) /\ Grows(m, g) => l = m

LEMMA MovesFrom ==
    ASSUME TypeOK, NEW g, Moves(g), NEW l \in Loops, NEW i \in Todo(l)'
    PROVE  \/ Grows(l, g) /\ i = TodoLen(l)' /\ TodoAt(l, i)' = g
           \/ \E j \in Todo(l) : /\ j = (IF Pops(l) THEN i + 1 ELSE i) /\ (Pops(l) => j # 1)
                                 /\ TodoAt(l, i)' = TodoAt(l, j)
<1>1. TodoLen(l) \in Nat
  BY TodoTypes
<1>2. i \in 1 .. TodoLen(l)'
  BY DEF Todo
<1>3. CASE Pops(l)
  <2>1. i \in 1 .. TodoLen(l) - 1 /\ i + 1 \in Todo(l) /\ i + 1 # 1
    BY <1>1, <1>2, <1>3 DEF Pops, Todo
  <2>2. TodoAt(l, i)' = TodoAt(l, i + 1)
    BY <1>3, <2>1 DEF Pops
  <2> QED
    BY <1>3, <2>1, <2>2
<1>4. CASE Stays(l) /\ ~Pops(l)
  <2>1. i \in Todo(l)
    BY <1>2, <1>4 DEF Stays, Todo
  <2> QED
    BY <1>4, <2>1 DEF Stays
<1>5. CASE Grows(l, g) /\ ~Pops(l)
  <2>1. i \in Todo(l) \/ i = TodoLen(l)'
    BY <1>1, <1>2, <1>5 DEF Grows, Todo
  <2>2. CASE i \in Todo(l)
    BY <1>5, <2>2 DEF Grows
  <2>3. CASE i = TodoLen(l)'
    BY <1>5, <2>3 DEF Grows, TodoAt
  <2> QED
    BY <2>1, <2>2, <2>3
<1> QED
  BY <1>3, <1>4, <1>5 DEF Moves

\* It is enough to look at the functors of the connection c the step is about.
LEMMA MovesKeep ==
    ASSUME TypeOK, SuitsInv, SoleInv, NEW c \in Conns, NEW g, Moves(g), Mute' <=> Mute,
           \A d \in Conns \ {c} : conn'[d] = conn[d] /\ (d \in inMap' <=> d \in inMap),
           \A l \in Loops : Grows(l, g) => Suits(g, l)',
           \A f \in Functors, l \in Loops : f.conn = c /\ Rests(f, l) /\ Suits(f, l) => Suits(f, l)',
           \A f \in Functors, l \in Loops, m \in Loops : Grows(m, g) /\ Rests(f, l) => ~Clash(f, g)
    PROVE  SuitsInv' /\ SoleInv'
<1>1. ASSUME NEW l \in Loops, NEW i \in Todo(l)'
      PROVE  Suits(TodoAt(l, i), l)'
  <2>1. CASE Grows(l, g) /\ i = TodoLen(l)' /\ TodoAt(l, i)' = g
    BY <2>1
  <2>2. ASSUME NEW j \in Todo(l), Pops(l) => j # 1, TodoAt(l, i)' = TodoAt(l, j)
        PROVE  Suits(TodoAt(l, i), l)'
    <3>1. PICK f \in Functors : f = TodoAt(l, j) /\ f.conn \in Conns
      BY TodoTypes DEF Functors
    <3>2. Suits(f, l) /\ Rests(f, l) /\ TodoAt(l, i)' = f
      BY <2>2, <3>1 DEF SuitsInv, Rests
    <3>3. CASE f.conn = c
      <4>1. Suits(f, l)'
        BY <3>2, <3>3
      <4> QED
        BY <3>2, <4>1 DEF Suits
    <3>4. CASE f.conn # c
      <4>1. /\ conn'[f.conn] = conn[f.conn] /\ (f.conn \in inMap' <=> f.conn \in inMap)
        BY <3>1, <3>4
      <4> HIDE DEF Mute
      <4>2. Live(f.conn)' <=> Live(f.conn)
        BY <4>1 DEF Live
      <4> QED
        BY <3>2, <4>1, <4>2 DEF Suits
    <3> QED
      BY <3>3, <3>4
  <2> QED
    BY <1>1, <2>1, <2>2, MovesFrom
<1>2. ASSUME NEW l \in Loops, NEW m \in Loops, NEW i \in Todo(l)', NEW j \in Todo(m)',
             Clash(TodoAt(l, i)', TodoAt(m, j)')
      PROVE  l = m /\ i = j
  <2> DEFINE New(k, n) == Grows(k, g) /\ n = TodoLen(k)' /\ TodoAt(k, n)' = g
             Old(k, n, x) == /\ x \in Todo(k) /\ x = (IF Pops(k) THEN n + 1 ELSE n)
                             /\ (Pops(k) => x # 1) /\ TodoAt(k, n)' = TodoAt(k, x)
  <2>1. /\ New(l, i) \/ \E x \in Todo(l) : Old(l, i, x)
        /\ New(m, j) \/ \E x \in Todo(m) : Old(m, j, x)
    BY <1>2, MovesFrom
  <2>2. ASSUME NEW k \in Loops, NEW n, NEW x, Old(k, n, x)
        PROVE  Rests(TodoAt(k, n)', k) /\ TodoAt(k, n)' \in Functors
    BY <2>2, TodoTypes DEF Rests
  <2>3. CASE New(l, i) /\ New(m, j)
    BY <2>3 DEF Moves
  <2>4. ASSUME NEW x \in Todo(l), NEW y \in Todo(m), Old(l, i, x), Old(m, j, y)
        PROVE  l = m /\ i = j
    <3>1. l = m /\ x = y
      BY <1>2, <2>4 DEF SoleInv
    <3>2. i \in Int /\ j \in Int
      BY <1>2 DEF Todo
    <3> QED
      BY <2>4, <3>1, <3>2
  <2>5. ASSUME New(l, i), NEW y, Old(m, j, y)
        PROVE  FALSE
    <3>1. PICK h \in Functors : h = TodoAt(m, j)' /\ Rests(h, m)
      BY <2>2, <2>5
    <3>2. Clash(h, g)
      BY <1>2, <2>5, <3>1 DEF Clash
    <3> QED
      BY <2>5, <3>1, <3>2
  <2>6. ASSUME New(m, j), NEW x, Old(l, i, x)
        PROVE  FALSE
    <3>1. PICK h \in Functors : h = TodoAt(l, i)' /\ Rests(h, l)
      BY <2>2, <2>6
    <3>2. Clash(h, g)
      BY <1>2, <2>6, <3>1 DEF Clash
    <3> QED
      BY <2>6, <3>1, <3>2
  <2> HIDE DEF New, Old
  <2> QED
    BY <2>1, <2>3, <2>4, <2>5, <2>6
<1>3. SuitsInv'
  BY <1>1 DEF SuitsInv
<1>4. SoleInv'
  BY <1>2 DEF SoleInv
<1> QED
  BY <1>3, <1>4

\* Nothing is queued, or one functor; and one is run, or none.
LEMMA StayMoves ==
    ASSUME TypeOK, \A l \in Loops : Stays(l)
    PROVE  \A g : Moves(g) /\ \A l \in Loops : ~Grows(l, g)
<1>1. \A l \in Loops : TodoLen(l) \in Nat
  BY TodoTypes
<1>2. \A g : \A l \in Loops : ~Grows(l, g)
  BY <1>1 DEF Grows, Stays
<1> QED
  BY <1>2 DEF Moves

LEMMA QueueMoves ==
    ASSUME TypeOK, NEW k \in Loops, NEW g \in Functors,
           queue' = Queue(k, g), UNCHANGED <<batch, pos>>
    PROVE  /\ Moves(g) /\ \A l \in Loops : ~Pops(l) /\ (Grows(l, g) => l = k)
<1>1. Grows(k, g) /\ \A l \in Loops \ {k} : queue'[l] = queue[l]
  BY QueueGrows
<1>2. \A l \in Loops : TodoLen(l) \in Nat /\ (l # k => Stays(l))
  BY <1>1, TodoTypes, SameStays
<1>3. \A l \in Loops : ~Pops(l) /\ (Grows(l, g) => l = k)
  BY <1>1, <1>2 DEF Grows, Pops, Stays
<1> QED
  BY <1>1, <1>2, <1>3 DEF Moves

LEMMA RunMoves ==
    ASSUME TypeOK, NEW l \in Loops, pos[l] < Len(batch[l]),
           pos' = [pos EXCEPT ![l] = pos[l] + 1], UNCHANGED <<queue, batch>>
    PROVE  \A g : Moves(g) /\ \A m \in Loops : ~Grows(m, g) /\ (Pops(m) <=> m = l)
<1>1. Pops(l)
  BY RunPops DEF TypeOK
<1>2. \A m \in Loops : TodoLen(m) \in Nat /\ (m # l => Stays(m))
  BY TodoTypes, SameStays DEF TypeOK
<1>3. \A g : \A m \in Loops : ~Grows(m, g) /\ (Pops(m) <=> m = l)
  BY <1>1, <1>2 DEF Grows, Pops, Stays
<1> QED
  BY <1>1, <1>2, <1>3 DEF Moves

LEMMA RunAndQueueMoves ==
    ASSUME TypeOK, NEW l \in Loops, pos[l] < Len(batch[l]),
           pos' = [pos EXCEPT ![l] = pos[l] + 1], UNCHANGED batch,
           NEW k \in Loops, k # l, NEW g \in Functors, queue' = Queue(k, g)
    PROVE  Moves(g) /\ \A m \in Loops : (Grows(m, g) => m = k) /\ (Pops(m) <=> m = l)
<1>1. \A m \in Loops \ {l} : pos'[m] = pos[m]
  BY DEF TypeOK
<1>2. Grows(k, g) /\ \A m \in Loops \ {k} : queue'[m] = queue[m]
  BY <1>1, QueueGrows
<1>3. Pops(l)
  BY <1>2, RunPops DEF TypeOK
<1>4. \A m \in Loops : TodoLen(m) \in Nat /\ (m \notin {k, l} => Stays(m))
  BY <1>1, <1>2, TodoTypes, SameStays
<1>5. \A m \in Loops : (Grows(m, g) => m = k) /\ (Pops(m) <=> m = l)
  BY <1>2, <1>3, <1>4 DEF Grows, Pops, Stays
<1> QED
  BY <1>2, <1>3, <1>4, <1>5 DEF Moves
-----------------------------------------------------------------------------
\* sendInLoop leaves the state and the loop; a callback may begin a shutdown.
LEMMA SendInLoopKeeps ==
    ASSUME NEW r \in Record, NEW all \in BOOLEAN
    PROVE  SendInLoop(r, all).state = r.state /\ SendInLoop(r, all).loop = r.loop
<1> DEFINE q == [r EXCEPT !.out = TRUE]
           e == r.events \union {"write"}
<1>1. q \in Record /\ e \in SUBSET {"read", "write"} /\ q.state = r.state /\ q.loop = r.loop
  BY DEF Record
<1>2. SendInLoop(r, all) = SetEvents(q, e) \/ SendInLoop(r, all) = r
  BY DEF SendInLoop
<1> HIDE DEF q, e
<1>3. SetEvents(q, e).state = q.state /\ SetEvents(q, e).loop = q.loop
  BY <1>1, SetEventsType
<1> QED
  BY <1>1, <1>2, <1>3

LEMMA CallbackKeeps ==
    ASSUME NEW r \in Record, NEW s \in AfterCallback(r)
    PROVE  /\ s.loop = r.loop
           /\ s.state = r.state \/ (r.state = "kConnected" /\ s.state = "kDisconnecting")
<1> DEFINE Same(x) == x \in Record /\ x.state = r.state /\ x.loop = r.loop
<1>1. ASSUME NEW all \in BOOLEAN PROVE Same(Send(r, all))
  BY SendInLoopType, SendInLoopKeeps DEF Send
<1>2. ASSUME NEW x, Same(x)
      PROVE  /\ Shutdown(x).loop = r.loop
             /\ \/ Shutdown(x).state = r.state
                \/ r.state = "kConnected" /\ Shutdown(x).state = "kDisconnecting"
  <2> DEFINE q == [x EXCEPT !.state = "kDisconnecting"]
  <2>1. q \in Record /\ q.state = "kDisconnecting" /\ q.loop = x.loop
    BY <1>2 DEF Record, States
  <2>2. Shutdown(x) = IF x.state = "kConnected" THEN ShutdownInLoop(q) ELSE x
    BY DEF Shutdown
  <2> HIDE DEF q
  <2>3. ShutdownInLoop(q).state = q.state /\ ShutdownInLoop(q).loop = q.loop
    BY <2>1, ShutdownType
  <2> QED
    BY <1>2, <2>1, <2>2, <2>3
<1>3. PICK x \in {r, Send(r, TRUE), Send(r, FALSE)} : s = x \/ s = Shutdown(x)
  BY DEF AfterCallback
<1>4. Same(x)
  BY <1>1, <1>3
<1> QED
  BY <1>2, <1>3, <1>4

\* connectionDestroyed leaves no event, if there was none or the connection was open.
LEMMA DestroyedKeeps ==
    ASSUME NEW r \in Record, r.state = "kConnected"
    PROVE  Destroyed(r).state = "kDisconnected" /\ Destroyed(r).events = {}
<1> DEFINE x == SetEvents(r, {})
           y == [x EXCEPT !.state = "kDisconnected", !.told = TRUE]
<1>1. x \in Record /\ x.events = {}
  BY SetEventsType
<1> HIDE DEF x
<1>2. y \in Record /\ y.state = "kDisconnected" /\ y.events = {}
  BY <1>1 DEF Record, States
<1>3. Destroyed(r) = RemoveChannel(y)
  BY DEF Destroyed, x
<1> HIDE DEF y
<1>4. RemoveChannel(y).state = y.state /\ RemoveChannel(y).events = y.events
  BY <1>2 DEF RemoveChannel, Record
<1> QED
  BY <1>2, <1>3, <1>4
-----------------------------------------------------------------------------
\* The states of a connection that has been established.
Begun(c) == conn[c].state \notin {"unborn", "kConnecting"}

\* A step about the connection c keeps HarmInv if it keeps what HarmInv says of c.
LEMMA HarmStep ==
    ASSUME TypeOK, HarmInv, NEW c \in Conns, NEW g, Moves(g),
           \A u \in Users : user'[u].ops = user[u].ops /\ CallInv(u)',
           \A d \in Conns \ {c} : conn'[d] = conn[d] /\ (d \in inMap' <=> d \in inMap),
           server' = server, FailInv', LifeInv(c)',
           \A l \in Loops : Grows(l, g) => Suits(g, l)',
           \A f \in Functors, l \in Loops : f.conn = c /\ Rests(f, l) /\ Suits(f, l) => Suits(f, l)',
           \A f \in Functors, l \in Loops, m \in Loops : Grows(m, g) /\ Rests(f, l) => ~Clash(f, g)
    PROVE  HarmInv'
<1>1. (Mute' <=> Mute) /\ OneKind'
  BY DEF HarmInv, OneKind, Mute
<1>2. SuitsInv' /\ SoleInv'
  BY <1>1, MovesKeep DEF HarmInv
<1>3. ASSUME NEW d \in Conns PROVE LifeInv(d)'
  <2>1. CASE d = c
    BY <2>1
  <2>2. CASE d # c
    <3>1. conn'[d] = conn[d] /\ (d \in inMap' <=> d \in inMap) /\ LifeInv(d)
      BY <2>2 DEF HarmInv
    <3> HIDE DEF Mute
    <3> QED
      BY <1>1, <3>1 DEF LifeInv, Live
  <2> QED
    BY <2>1, <2>2
<1> QED
  BY <1>1, <1>2, <1>3 DEF HarmInv

\* The users do not move, and no connection is taken back.
LEMMA CallsStand ==
    ASSUME TypeOK, HarmInv, NEW c \in Conns, user' = user,
           \A d \in Conns \ {c} : conn'[d] = conn[d], Begun(c) => Begun(c)'
    PROVE  \A u \in Users : user'[u].ops = user[u].ops /\ CallInv(u)'
<1> SUFFICES ASSUME NEW u \in Users PROVE CallInv(u)'
  OBVIOUS
<1>1. CallInv(u) /\ user'[u] = user[u]
  BY DEF HarmInv
<1>2. CASE user[u].holds \in Conns \ {NotHeld}
  <2>1. conn'[user[u].holds].state \notin {"unborn", "kConnecting"}
    BY <1>1, <1>2 DEF CallInv, Begun
  <2> QED
    BY <1>1, <2>1 DEF CallInv
<1>3. CASE user[u].holds \notin Conns \ {NotHeld}
  BY <1>1, <1>3 DEF CallInv
<1> QED
  BY <1>2, <1>3

\* How a connection that has begun may change where nothing is queued.
Settled(r, c) ==
    \/ r.state = conn[c].state /\ r.status = conn[c].status /\ r.events = conn[c].events
    \/ /\ Begun(c)
       /\ r.state \notin {"unborn", "kConnecting"}
       /\ r.state \in Open => conn[c].state \in Open \/ (Mute /\ r.status # "kAdded")
       /\ Mute => \/ conn[c].status = "kAdded" /\ (r.status = "kAdded" => r.state \in Open)
                  \/ r.status = conn[c].status /\ r.events = conn[c].events
                     /\ (r.status = "kAdded" => r.state \in Open)
                  \/ r.status # "kAdded" /\ r.events = {}

LEMMA Settles ==
    ASSUME TypeOK, HarmInv, NEW c \in Conns, NEW r \in Record, conn' = [conn EXCEPT ![c] = r],
           NEW g, Moves(g), \A l \in Loops : ~Grows(l, g),
           \A u \in Users : user'[u].ops = user[u].ops /\ CallInv(u)',
           UNCHANGED <<inMap, server>>, FailInv',
           r.loop = conn[c].loop, Settled(r, c)
    PROVE  HarmInv'
<1>1. conn'[c] = r /\ \A d \in Conns \ {c} : conn'[d] = conn[d]
  BY DEF TypeOK
<1>2. (Mute' <=> Mute) /\ LifeInv(c) /\ inMap' = inMap /\ conn[c].state \in States
  BY RecordType DEF Mute, HarmInv, Record
<1> HIDE DEF Mute
<1>3. LifeInv(c)'
  BY <1>1, <1>2 DEF LifeInv, Live, Settled, Begun, Open, States
<1>4. ASSUME NEW f \in Functors, NEW l \in Loops, f.conn = c, Suits(f, l)
      PROVE  Suits(f, l)'
  BY <1>1, <1>2, <1>4 DEF Suits, LifeInv, Live, Settled, Begun, Open, States
<1> QED
  BY <1>1, <1>2, <1>3, <1>4, HarmStep

\* No functor is queued or run, and nobody moves.
LEMMA HarmStands ==
    ASSUME TypeOK, HarmInv, \A l \in Loops : Stays(l), UNCHANGED <<conn, inMap, user, server, failed>>
    PROVE  HarmInv'
<1>1. /\ Mute' <=> Mute
      /\ OneKind'
      /\ \A c \in Conns : LifeInv(c)'
      /\ \A u \in Users : CallInv(u)'
  BY DEF HarmInv, Mute, OneKind, LifeInv, Live, CallInv
<1>2. \A l \in Loops : \A f : Suits(f, l) => Suits(f, l)'
  BY DEF Suits, Live, Mute
<1>3. \A l \in Loops : Todo(l)' = Todo(l) /\ \A i \in Todo(l) : TodoAt(l, i)' = TodoAt(l, i)
  BY DEF Stays, Todo
<1>4. SuitsInv'
  <2> SUFFICES ASSUME NEW l \in Loops, NEW i \in Todo(l)' PROVE Suits(TodoAt(l, i), l)'
    BY DEF SuitsInv
  <2>1. i \in Todo(l) /\ TodoAt(l, i)' = TodoAt(l, i) /\ Suits(TodoAt(l, i), l)
    BY <1>3 DEF HarmInv, SuitsInv
  <2>2. PICK f : f = TodoAt(l, i)
    OBVIOUS
  <2>3. Suits(f, l)'
    BY <1>2, <2>1, <2>2
  <2> QED
    BY <2>1, <2>2, <2>3 DEF Suits
<1>5. SoleInv'
  BY <1>3 DEF HarmInv, SoleInv
<1>6. FailInv'
  BY <1>1 DEF HarmInv, FailInv
<1> QED
  BY <1>1, <1>4, <1>5, <1>6 DEF HarmInv
-----------------------------------------------------------------------------
\* No functor of a connection waits before the connection is born.
LEMMA NoneWaits ==
    ASSUME TypeOK, HarmInv, NEW f \in Functors, NEW l \in Loops, Rests(f, l)
    PROVE  Suits(f, l) /\ conn[f.conn].state # "unborn"
<1>1. PICK j \in Todo(l) : TodoAt(l, j) = f
  BY DEF Rests
<1>2. Suits(f, l)
  BY <1>1 DEF HarmInv, SuitsInv
<1> QED
  BY <1>2 DEF Suits

LEMMA NewConnectionHarmless ==
    ASSUME TypeOK, HarmInv, NEW c \in Conns, NewConnection(c)
    PROVE  HarmInv'
<1> DEFINE r == [conn[c] EXCEPT !.state = "kConnecting", !.loop = NextLoop]
           g == Functor("established", c, TRUE)
<1>1. /\ conn[c].state = "unborn" /\ inMap' = inMap \union {c}
      /\ UNCHANGED <<batch, pos, user, server, failed>>
      /\ IF NextLoop = Base
         THEN (\E s \in Established(r) : conn' = [conn EXCEPT ![c] = s]) /\ UNCHANGED queue
         ELSE conn' = [conn EXCEPT ![c] = r] /\ queue' = Queue(NextLoop, g)
  BY DEF NewConnection, Register
<1>2. NextLoop \in Loops /\ conn[c] \in Record /\ conn \in [Conns -> Record]
  BY RecordType, NextLoopType DEF TypeOK
<1>3. /\ r \in Record /\ r.state = "kConnecting" /\ r.loop = NextLoop
      /\ r.status = "kNew" /\ r.events = {}
  BY <1>1, <1>2 DEF HarmInv, LifeInv, Record, States
<1>4. g \in Functors /\ g.op = "established" /\ g.conn = c /\ g.shared
  BY DEF Functor, Functors
<1>5. FailInv' /\ server' = server /\ (Mute' <=> Mute)
  BY <1>1 DEF HarmInv, FailInv, Mute
<1>6. \A d \in Conns \ {c} : conn'[d] = conn[d] /\ (d \in inMap' <=> d \in inMap)
  BY <1>1, <1>2
<1>7. \A u \in Users : user'[u].ops = user[u].ops /\ CallInv(u)'
  BY <1>1, <1>6, CallsStand DEF Begun
<1>8. \A f \in Functors, l \in Loops : Rests(f, l) => f.conn # c
  BY <1>1, NoneWaits
<1> HIDE DEF r, g
<1>9. CASE NextLoop = Base
  <2>1. PICK s \in Established(r) : conn' = [conn EXCEPT ![c] = s]
    BY <1>1, <1>9
  <2>2. s.state \in Open /\ s.status = "kAdded" /\ conn'[c] = s
    BY <1>2, <1>3, <2>1, EstablishedOpens
  <2>3. LifeInv(c)'
    BY <1>1, <2>2 DEF LifeInv, Open
  <2>4. \A l \in Loops : Stays(l)
    BY <1>1, <1>9, SameStays
  <2>5. Moves(g) /\ \A l \in Loops : ~Grows(l, g)
    BY <2>4, StayMoves
  <2> QED
    BY <1>5, <1>6, <1>7, <1>8, <2>3, <2>5, HarmStep
<1>10. CASE NextLoop # Base
  <2>1. conn'[c] = r /\ queue' = Queue(NextLoop, g)
    BY <1>1, <1>2, <1>10
  <2>2. LifeInv(c)'
    BY <1>1, <1>3, <2>1 DEF LifeInv
  <2>3. Moves(g)
    BY <1>1, <1>2, <1>4, <2>1, QueueMoves
  <2>4. \A l \in Loops : Suits(g, l)'
    BY <1>3, <1>4, <2>1 DEF Suits
  <2>5. \A f \in Functors, l \in Loops : Rests(f, l) => ~Clash(f, g)
    BY <1>4, <1>8 DEF Clash
  <2> QED
    BY <1>5, <1>6, <1>7, <1>8, <2>2, <2>3, <2>4, <2>5, HarmStep
<1> QED
  BY <1>9, <1>10

\* An event is delivered to a connection that has begun; if nobody sends from
\* outside, it is open.
LEMMA DeliveredBegun ==
    ASSUME TypeOK, HarmInv, NEW c \in Conns, Delivered(c)
    PROVE  /\ Begun(c) /\ conn[c].status = "kAdded" /\ conn[c] \in Record
           /\ conn[c].state \in Open \union {"kDisconnected"}
           /\ Mute => conn[c].state \in Open
           /\ conn[c].state \in Open => c \in inMap /\ Live(c)
<1>1. conn[c].status = "kAdded" /\ LifeInv(c) /\ conn[c] \in Record
  BY RecordType DEF Delivered, HarmInv
<1>2. conn[c].state \in States
  BY <1>1 DEF Record
<1> HIDE DEF Mute
<1> QED
  BY <1>1, <1>2 DEF LifeInv, Live, Begun, Open, States

\* A message or a writable socket.
LEMMA DataHarmless ==
    ASSUME TypeOK, HarmInv, NEW c \in Conns, Delivered(c), NEW r \in Record,
           conn' = [conn EXCEPT ![c] = r],
           UNCHANGED <<inMap, pool, loopVars, user, server, failed>>,
           r.loop = conn[c].loop,
           r.state = conn[c].state \/ (conn[c].state = "kConnected" /\ r.state = "kDisconnecting")
    PROVE  HarmInv'
<1>1. /\ Begun(c) /\ conn[c].status = "kAdded"
      /\ Mute => conn[c].state \in Open
  BY DeliveredBegun
<1> HIDE DEF Mute
<1>2. Settled(r, c)
  BY <1>1 DEF Settled, Begun, Open
<1>3. r.state \notin {"unborn", "kConnecting"} /\ conn'[c] = r
      /\ \A d \in Conns \ {c} : conn'[d] = conn[d]
  BY <1>1 DEF Begun, TypeOK
<1>4. Begun(c)'
  BY <1>3 DEF Begun
<1>5. \A u \in Users : user'[u].ops = user[u].ops /\ CallInv(u)'
  BY <1>3, <1>4, CallsStand
<1>6. FailInv'
  BY DEF HarmInv, FailInv, Mute
<1>7. \A l \in Loops : Stays(l)
  BY SameStays DEF loopVars
<1>8. PICK g : Moves(g) /\ \A l \in Loops : ~Grows(l, g)
  BY <1>7, StayMoves
<1>9. inMap' = inMap /\ server' = server
  OBVIOUS
<1> QED
  BY <1>2, <1>5, <1>6, <1>8, <1>9, Settles

LEMMA CloseHarmless ==
    ASSUME TypeOK, HarmInv, NEW c \in Conns, Delivered(c), Close(c)
    PROVE  HarmInv'
<1> DEFINE r == Closed(conn[c])
<1>1. /\ Begun(c) /\ conn[c].status = "kAdded" /\ conn[c] \in Record
      /\ conn[c].state \in Open \union {"kDisconnected"}
      /\ Mute => conn[c].state \in Open
      /\ conn[c].state \in Open => c \in inMap /\ Live(c)
  BY DeliveredBegun
<1>2. /\ conn' = [conn EXCEPT ![c] = r]
      /\ IF conn[c].state \in Open
         THEN RemoveConnection(c)
         ELSE Asserts(FALSE, "handleClose") /\ UNCHANGED <<inMap, queue>>
      /\ UNCHANGED <<pool, batch, pos, user, server>>
  BY DEF Close, Closed, Open
<1>3. /\ r \in Record /\ r.state = "kDisconnected" /\ r.events = {} /\ r.loop = conn[c].loop
      /\ r.status = "kDeleted"
  BY <1>1, ClosedType
<1> HIDE DEF r
<1>4. conn'[c] = r /\ \A d \in Conns \ {c} : conn'[d] = conn[d]
  BY <1>2 DEF TypeOK
<1>5. \A u \in Users : user'[u].ops = user[u].ops /\ CallInv(u)'
  <2>1. Begun(c)'
    BY <1>3, <1>4 DEF Begun
  <2> QED
    BY <1>2, <1>4, <2>1, CallsStand
<1>6. Mute' <=> Mute
  BY <1>2 DEF Mute
<1>7. LifeInv(c)'
  BY <1>3, <1>4 DEF LifeInv, Live, Open
<1>8. CASE conn[c].state \notin Open
  <2>1. FailInv' /\ inMap' = inMap /\ server' = server
    BY <1>1, <1>2, <1>6, <1>8 DEF HarmInv, FailInv, Asserts
  <2>2. Settled(r, c)
    BY <1>1, <1>3 DEF Settled, Open
  <2>3. \A l \in Loops : Stays(l)
    BY <1>2, <1>8, SameStays
  <2>4. PICK g : Moves(g) /\ \A l \in Loops : ~Grows(l, g)
    BY <2>3, StayMoves
  <2> QED
    BY <1>2, <1>3, <1>5, <2>1, <2>2, <2>4, Settles
<1>9. CASE conn[c].state \in Open
  <2>1. /\ c \in inMap /\ Live(c) /\ RemoveConnection(c)
        /\ Base \in Loops /\ conn[c].loop \in Loops
    BY <1>1, <1>2, <1>9, RecordType DEF Loops
  <2>2. \A f \in Functors, l \in Loops : Rests(f, l) /\ f.conn = c =>
            f.op \notin {"established", "remove"}
    BY <1>1, <2>1, NoneWaits DEF Suits, Begun
  <2>3. ASSUME NEW f \in Functors, NEW l \in Loops, f.conn = c, Rests(f, l), Suits(f, l)
        PROVE  Suits(f, l)'
    <3> HIDE DEF Mute
    <3> QED
      BY <1>3, <1>4, <1>6, <2>2, <2>3 DEF Suits
  <2>4. CASE conn[c].loop = Base
    <3> DEFINE g == Functor("destroyed", c, TRUE)
    <3>1. g \in Functors /\ g.conn = c /\ g.op = "destroyed" /\ g.shared
      BY DEF Functor, Functors
    <3>2. queue' = Queue(Base, g) /\ inMap' = inMap \ {c} /\ failed' = failed
      BY <2>1, <2>4 DEF RemoveConnection, RemoveInLoop, Asserts
    <3> HIDE DEF g
    <3>3. \A l \in Loops : Suits(g, l)'
      BY <1>3, <1>4, <3>1 DEF Suits
    <3>4. Moves(g)
      BY <1>2, <2>1, <3>1, <3>2, QueueMoves
    <3>5. \A f \in Functors, l \in Loops : ~Clash(f, g)
      BY <3>1 DEF Clash
    <3>6. FailInv' /\ server' = server
          /\ \A d \in Conns \ {c} : conn'[d] = conn[d] /\ (d \in inMap' <=> d \in inMap)
      BY <1>2, <1>4, <1>6, <3>2 DEF HarmInv, FailInv
    <3> QED
      BY <1>5, <1>7, <2>3, <3>3, <3>4, <3>5, <3>6, HarmStep
  <2>5. CASE conn[c].loop # Base
    <3> DEFINE g == Functor("remove", c, TRUE)
    <3>1. g \in Functors /\ g.conn = c /\ g.op = "remove" /\ g.shared
      BY DEF Functor, Functors
    <3>2. queue' = Queue(Base, g) /\ inMap' = inMap /\ failed' = failed
      BY <2>1, <2>5 DEF RemoveConnection
    <3> HIDE DEF g
    <3>3. Suits(g, Base)'
      BY <1>3, <1>4, <2>1, <2>5, <3>1, <3>2 DEF Suits, Live, Open
    <3>4. Moves(g) /\ \A l \in Loops : Grows(l, g) => l = Base
      BY <1>2, <2>1, <3>1, <3>2, QueueMoves
    <3>5. \A f \in Functors, l \in Loops : Rests(f, l) => ~Clash(f, g)
      BY <2>2, <3>1 DEF Clash
    <3>6. FailInv' /\ server' = server
          /\ \A d \in Conns \ {c} : conn'[d] = conn[d] /\ (d \in inMap' <=> d \in inMap)
      BY <1>2, <1>4, <1>6, <3>2 DEF HarmInv, FailInv
    <3> QED
      BY <1>5, <1>7, <2>3, <3>3, <3>4, <3>5, <3>6, HarmStep
  <2> QED
    BY <2>4, <2>5
<1> QED
  BY <1>8, <1>9

LEMMA EventHarmless ==
    ASSUME TypeOK, HarmInv, NEW c \in Conns, EventStep(c) \/ PeerCloses(c)
    PROVE  HarmInv'
<1>1. conn[c] \in Record
  BY RecordType
<1>2. CASE Message(c)
  <2>1. PICK s \in AfterCallback(conn[c]) : conn' = [conn EXCEPT ![c] = s]
    BY <1>2 DEF Message
  <2>2. Delivered(c) /\ UNCHANGED <<inMap, pool, loopVars, user, server, failed>>
    BY <1>2 DEF Message
  <2>3. s \in Record
    BY <1>1, CallbackType
  <2>4. /\ s.loop = conn[c].loop
        /\ s.state = conn[c].state \/ (conn[c].state = "kConnected" /\ s.state = "kDisconnecting")
    BY <1>1, CallbackKeeps
  <2> QED
    BY <2>1, <2>2, <2>3, <2>4, DataHarmless
<1>3. CASE ReadClose(c) \/ HangUp(c)
  BY <1>3, CloseHarmless DEF ReadClose, HangUp
<1>4. CASE Writable(c)
  <2> DEFINE q == [conn[c] EXCEPT !.out = FALSE]
             e == conn[c].events \ {"write"}
             r == SetEvents(q, e)
             s == IF r.state = "kDisconnecting" THEN ShutdownInLoop(r) ELSE r
  <2>1. q \in Record /\ e \in SUBSET {"read", "write"}
        /\ q.state = conn[c].state /\ q.loop = conn[c].loop
    BY <1>1 DEF Record
  <2>2. conn' = [conn EXCEPT ![c] = s] /\ Delivered(c)
        /\ UNCHANGED <<inMap, pool, loopVars, user, server, failed>>
    BY <1>4 DEF Writable
  <2> HIDE DEF q, e
  <2>3. r \in Record /\ r.state = q.state /\ r.loop = q.loop
    BY <2>1, SetEventsType
  <2> HIDE DEF r
  <2>4. s \in Record /\ s.state = r.state /\ s.loop = r.loop
    BY <2>3, ShutdownType
  <2> HIDE DEF s
  <2> QED
    BY <2>1, <2>2, <2>3, <2>4, DataHarmless
<1>5. CASE PeerCloses(c)
  <2> DEFINE r == [conn[c] EXCEPT !.peer = "closed"]
  <2>1. r \in Record /\ r.loop = conn[c].loop /\ r.state = conn[c].state
        /\ r.status = conn[c].status /\ r.events = conn[c].events
    BY <1>1 DEF Record
  <2>2. conn' = [conn EXCEPT ![c] = r]
        /\ UNCHANGED <<inMap, pool, loopVars, user, server, failed>>
    BY <1>5 DEF PeerCloses
  <2> HIDE DEF r
  <2>3. \A l \in Loops : Stays(l)
    BY <2>2, SameStays DEF loopVars
  <2>4. PICK g : Moves(g) /\ \A l \in Loops : ~Grows(l, g)
    BY <2>3, StayMoves
  <2>5. Begun(c) => Begun(c)'
    BY <2>1, <2>2 DEF Begun, TypeOK
  <2>6. \A d \in Conns \ {c} : conn'[d] = conn[d]
    BY <2>2 DEF TypeOK
  <2>7. \A u \in Users : user'[u].ops = user[u].ops /\ CallInv(u)'
    BY <2>2, <2>5, <2>6, CallsStand
  <2>8. FailInv' /\ inMap' = inMap /\ server' = server
    BY <2>2 DEF HarmInv, FailInv, Mute
  <2> QED
    BY <2>1, <2>2, <2>4, <2>7, <2>8, Settles DEF Settled
<1> QED
  BY <1>2, <1>3, <1>4, <1>5 DEF EventStep
-----------------------------------------------------------------------------
\* The functor a loop runs is the first of those it has still to run.
LEMMA FirstIsRun ==
    ASSUME TypeOK, NEW l \in Loops, RunFunctor(l)
    PROVE  /\ pos' = [pos EXCEPT ![l] = pos[l] + 1] /\ pos[l] < Len(batch[l])
           /\ UNCHANGED <<pool, batch, user, server>>
           /\ 1 \in Todo(l) /\ TodoAt(l, 1) = batch[l][pos[l] + 1]
           /\ TodoAt(l, 1) \in Functors /\ TodoAt(l, 1).conn \in Conns
<1>1. /\ pos' = [pos EXCEPT ![l] = pos[l] + 1] /\ pos[l] < Len(batch[l])
      /\ UNCHANGED <<pool, batch, user, server>>
  BY DEF RunFunctor
<1>2. 1 \in Todo(l) /\ TodoAt(l, 1) = batch[l][pos[l] + 1]
  <2>1. /\ 1 \in 1 .. RestLen(batch[l], pos[l], queue[l])
        /\ RestAt(batch[l], pos[l], queue[l], 1) = batch[l][pos[l] + 1]
    BY <1>1, LoopTypes, RestPop
  <2> QED
    BY <2>1 DEF Todo, TodoLen, TodoAt
<1> QED
  BY <1>1, <1>2, TodoTypes DEF Functors

\* A functor of the same connection that rests while the first one runs is not
\* another one of that kind.
LEMMA NoneLikeTheFirst ==
    ASSUME TypeOK, HarmInv, NEW l \in Loops, 1 \in Todo(l), \A m \in Loops : Pops(m) <=> m = l,
           NEW h \in Functors, NEW m \in Loops, Rests(h, m)
    PROVE  ~Clash(TodoAt(l, 1), h)
<1>1. PICK j \in Todo(m) : TodoAt(m, j) = h /\ (Pops(m) => j # 1)
  BY DEF Rests
<1>2. ~(l = m /\ 1 = j)
  BY <1>1
<1> QED
  BY <1>1, <1>2 DEF HarmInv, SoleInv

\* A functor is run that queues none, and leaves the connection as Settled says.
LEMMA RunSettles ==
    ASSUME TypeOK, HarmInv, NEW l \in Loops, RunFunctor(l), UNCHANGED <<inMap, queue>>,
           NEW c \in Conns, NEW r \in Record, conn' = [conn EXCEPT ![c] = r], FailInv',
           r.loop = conn[c].loop, Settled(r, c)
    PROVE  HarmInv'
<1>1. PICK g : Moves(g) /\ \A m \in Loops : ~Grows(m, g)
  BY FirstIsRun, RunMoves
<1>2. Begun(c) => Begun(c)'
  BY DEF Settled, Begun, TypeOK
<1>3. \A d \in Conns \ {c} : conn'[d] = conn[d]
  BY DEF TypeOK
<1>4. UNCHANGED <<inMap, user, server>>
  BY FirstIsRun
<1>5. \A u \in Users : user'[u].ops = user[u].ops /\ CallInv(u)'
  BY <1>2, <1>3, <1>4, CallsStand
<1> QED
  BY <1>1, <1>4, <1>5, Settles

LEMMA RunFunctorHarmless ==
    ASSUME TypeOK, HarmInv, NEW l \in Loops, RunFunctor(l)
    PROVE  HarmInv'
<1>1. PICK f \in Functors, c \in Conns : f = TodoAt(l, 1) /\ c = f.conn
  BY FirstIsRun
<1>2. /\ Suits(f, l) /\ conn[c] \in Record /\ conn \in [Conns -> Record] /\ LifeInv(c)
      /\ conn[c].state \in States /\ conn[c].loop \in Loops
  BY <1>1, FirstIsRun, RecordType DEF HarmInv, SuitsInv, TypeOK, Record
<1>3. /\ \/ ~Held(c) /\ Asserts(FALSE, "dangling functor") /\ UNCHANGED <<conn, inMap, queue>>
         \/ /\ f.op = "established"
            /\ Asserts(conn[c].state = "kConnecting", "connectionEstablished")
            /\ \E s \in Established(conn[c]) : conn' = [conn EXCEPT ![c] = s]
            /\ UNCHANGED <<inMap, queue>>
         \/ f.op = "remove" /\ RemoveInLoop(c) /\ UNCHANGED conn
         \/ /\ f.op = "destroyed"
            /\ Asserts(RemoveAllowed(conn[c]), "Channel::remove")
            /\ conn' = [conn EXCEPT ![c] = Destroyed(conn[c])]
            /\ UNCHANGED <<inMap, queue>>
         \/ /\ f.op = "send"
            /\ \E all \in BOOLEAN : conn' = [conn EXCEPT ![c] = SendInLoop(conn[c], all)]
            /\ UNCHANGED <<inMap, queue, failed>>
         \/ /\ f.op = "shutdown"
            /\ conn' = [conn EXCEPT ![c] = ShutdownInLoop(conn[c])]
            /\ UNCHANGED <<inMap, queue, failed>>
      /\ UNCHANGED <<user, server>>
  BY <1>1, FirstIsRun DEF RunFunctor
<1>4. (Mute' <=> Mute) /\ FailInv
  BY <1>3 DEF Mute, HarmInv
<1>5. Mute => Held(c)
  <2>1. Mute => f.shared
    BY <1>2 DEF Suits
  <2>2. f.shared => Held(c)
    BY <1>1, FirstIsRun, BoundWhenWaiting
  <2> QED
    BY <2>1, <2>2
<1>6. f.op # "established" => Begun(c)
  BY <1>1, <1>2 DEF Suits, Begun
<1> HIDE DEF Mute
<1>7. CASE ~Held(c) /\ Asserts(FALSE, "dangling functor") /\ UNCHANGED <<conn, inMap, queue>>
  <2>1. FailInv'
    BY <1>4, <1>5, <1>7 DEF FailInv, Asserts
  <2>2. conn' = [conn EXCEPT ![c] = conn[c]]
    BY <1>2, <1>7
  <2> QED
    BY <1>2, <1>7, <2>1, <2>2, RunSettles DEF Settled
<1>8. CASE f.op = "destroyed" /\ Asserts(RemoveAllowed(conn[c]), "Channel::remove")
           /\ conn' = [conn EXCEPT ![c] = Destroyed(conn[c])] /\ UNCHANGED <<inMap, queue>>
  <2>1. Begun(c) /\ (Mute => conn[c].events = {} /\ conn[c].status # "kAdded")
    BY <1>1, <1>2, <1>6, <1>8 DEF Suits
  <2>2. FailInv'
    BY <1>4, <1>8, <2>1 DEF FailInv, Asserts, RemoveAllowed
  <2>3. PICK r \in Record : r = Destroyed(conn[c])
    BY <1>2, DestroyedType
  <2>4. /\ r.loop = conn[c].loop /\ r.status = "kNew"
        /\ conn[c].state # "kConnected" => r.state = conn[c].state /\ r.events = conn[c].events
        /\ conn[c].state = "kConnected" => r.state = "kDisconnected" /\ r.events = {}
    BY <1>2, <2>3, DestroyedType, DestroyedKeeps
  <2>5. Settled(r, c)
    BY <2>1, <2>4 DEF Settled, Begun, Open
  <2> QED
    BY <1>8, <2>2, <2>3, <2>4, <2>5, RunSettles
<1>9. CASE f.op = "send" /\ (\E all \in BOOLEAN : conn' = [conn EXCEPT ![c] = SendInLoop(conn[c], all)])
           /\ UNCHANGED <<inMap, queue, failed>>
  <2>1. Begun(c) /\ ~Mute
    BY <1>2, <1>6, <1>9 DEF Suits
  <2>2. PICK all \in BOOLEAN : conn' = [conn EXCEPT ![c] = SendInLoop(conn[c], all)]
    BY <1>9
  <2>3. PICK r \in Record : r = SendInLoop(conn[c], all)
    BY <1>2, SendInLoopType
  <2>4. r.state = conn[c].state /\ r.loop = conn[c].loop
    BY <1>2, <2>3, SendInLoopKeeps
  <2>5. Settled(r, c) /\ FailInv'
    BY <1>4, <1>9, <2>1, <2>4 DEF Settled, Begun, FailInv
  <2> QED
    BY <1>9, <2>2, <2>3, <2>4, <2>5, RunSettles
<1>10. CASE f.op = "shutdown" /\ conn' = [conn EXCEPT ![c] = ShutdownInLoop(conn[c])]
            /\ UNCHANGED <<inMap, queue, failed>>
  <2>1. PICK r \in Record : r = ShutdownInLoop(conn[c])
    BY <1>2, ShutdownType
  <2>2. /\ r.state = conn[c].state /\ r.loop = conn[c].loop
        /\ r.events = conn[c].events /\ r.status = conn[c].status
    BY <1>2, <2>1, ShutdownType
  <2>3. Settled(r, c) /\ FailInv'
    BY <1>4, <1>10, <2>2 DEF Settled, FailInv
  <2> QED
    BY <1>10, <2>1, <2>2, <2>3, RunSettles
<1>11. CASE /\ f.op = "established"
            /\ Asserts(conn[c].state = "kConnecting", "connectionEstablished")
            /\ \E s \in Established(conn[c]) : conn' = [conn EXCEPT ![c] = s]
            /\ UNCHANGED <<inMap, queue>>
  <2>1. conn[c].state = "kConnecting" /\ c \in inMap
    BY <1>1, <1>2, <1>11 DEF Suits, LifeInv, Live
  <2>2. PICK s \in Established(conn[c]) : conn' = [conn EXCEPT ![c] = s]
    BY <1>11
  <2>3. s.state \in Open /\ s.status = "kAdded" /\ conn'[c] = s
        /\ \A d \in Conns \ {c} : conn'[d] = conn[d]
    BY <1>2, <2>2, EstablishedOpens
  <2>4. LifeInv(c)' /\ FailInv' /\ Begun(c)'
    BY <1>4, <1>11, <2>1, <2>3 DEF LifeInv, FailInv, Asserts, Open, Begun
  <2>5. \A u \in Users : user'[u].ops = user[u].ops /\ CallInv(u)'
    BY <1>3, <2>3, <2>4, CallsStand
  <2>6. PICK g : Moves(g) /\ \A m \in Loops : ~Grows(m, g) /\ (Pops(m) <=> m = l)
    BY <1>11, FirstIsRun, RunMoves
  <2>7. \A h \in Functors, m \in Loops : Rests(h, m) => h.conn # c
    <3> SUFFICES ASSUME NEW h \in Functors, NEW m \in Loops, Rests(h, m), h.conn = c
                 PROVE  FALSE
      OBVIOUS
    <3>1. h.op = "established"
      BY <2>1, NoneWaits DEF Suits
    <3>2. ~Clash(f, h)
      BY <1>1, <2>6, FirstIsRun, NoneLikeTheFirst
    <3> QED
      BY <1>1, <1>11, <3>1, <3>2 DEF Clash
  <2>8. server' = server /\ \A d \in Conns \ {c} : conn'[d] = conn[d] /\ (d \in inMap' <=> d \in inMap)
    BY <1>3, <1>11, <2>3
  <2> QED
    BY <2>4, <2>5, <2>6, <2>7, <2>8, HarmStep
<1>12. CASE f.op = "remove" /\ RemoveInLoop(c) /\ UNCHANGED conn
  <2> DEFINE g == Functor("destroyed", c, TRUE)
             k == conn[c].loop
  <2>1. /\ l = Base /\ k # l /\ c \in inMap /\ ~Live(c) /\ Begun(c)
        /\ Mute => conn[c].events = {} /\ conn[c].status # "kAdded"
    BY <1>1, <1>2, <1>6, <1>12 DEF Suits
  <2>2. g \in Functors /\ g.conn = c /\ g.op = "destroyed" /\ g.shared
    BY DEF Functor, Functors
  <2>3. queue' = Queue(k, g) /\ inMap' = inMap \ {c} /\ failed' = failed /\ conn' = conn
    BY <1>12, <2>1 DEF RemoveInLoop, Asserts
  <2> HIDE DEF g
  <2>4. Moves(g) /\ \A m \in Loops : Pops(m) <=> m = l
    BY <1>2, <2>1, <2>2, <2>3, FirstIsRun, RunAndQueueMoves
  <2>5. \A m \in Loops : Suits(g, m)'
    BY <1>4, <2>1, <2>2, <2>3 DEF Suits, Begun
  <2>6. LifeInv(c)' /\ FailInv' /\ server' = server
        /\ \A d \in Conns \ {c} : conn'[d] = conn[d] /\ (d \in inMap' <=> d \in inMap)
    BY <1>2, <1>3, <1>4, <2>1, <2>3 DEF LifeInv, Live, FailInv
  <2>7. \A u \in Users : user'[u].ops = user[u].ops /\ CallInv(u)'
    BY <1>3, <2>3, CallsStand DEF Begun
  <2>8. ASSUME NEW h \in Functors, NEW m \in Loops, h.conn = c, Rests(h, m), Suits(h, m)
        PROVE  Suits(h, m)'
    <3>1. ~Clash(f, h)
      BY <1>1, <2>4, <2>8, FirstIsRun, NoneLikeTheFirst
    <3>2. h.op # "remove"
      BY <1>1, <1>12, <2>8, <3>1 DEF Clash
    <3> QED
      BY <1>4, <2>3, <2>8, <3>2 DEF Suits
  <2>9. \A h \in Functors, m \in Loops : ~Clash(h, g)
    BY <2>2 DEF Clash
  <2> QED
    BY <2>4, <2>5, <2>6, <2>7, <2>8, <2>9, HarmStep
<1> QED
  BY <1>3, <1>7, <1>8, <1>9, <1>10, <1>11, <1>12
-----------------------------------------------------------------------------
\* A user thread takes, drops or tests a connection.
LEMMA UserHarmless ==
    ASSUME TypeOK, UserInv, HarmInv, NEW u \in Users, UserStep(u)
    PROVE  HarmInv'
<1> DEFINE T == [holds : Conns \union {NotHeld}, ops : UserOps,
                 at : {"out", "send", "shutdown", "queueShutdown"}]
<1>1. user \in [Users -> T] /\ user[u] \in T /\ CallInv(u)
  BY DEF TypeOK, HarmInv
<1>2. ASSUME NEW t \in T, user' = [user EXCEPT ![u] = t], t.ops = user[u].ops, conn' = conn,
             t.at = "send" => "send" \in t.ops,
             t.at \in {"shutdown", "queueShutdown"} => "shutdown" \in t.ops,
             t.holds \in Conns \ {NotHeld} => conn[t.holds].state \notin {"unborn", "kConnecting"}
      PROVE  \A v \in Users : user'[v].ops = user[v].ops /\ CallInv(v)'
  <2> SUFFICES ASSUME NEW v \in Users PROVE user'[v].ops = user[v].ops /\ CallInv(v)'
    OBVIOUS
  <2>1. CASE v = u
    <3>1. user'[v] = t
      BY <1>1, <1>2, <2>1
    <3> QED
      BY <1>2, <2>1, <3>1 DEF CallInv
  <2>2. CASE v # u
    <3>1. user'[v] = user[v] /\ CallInv(v)
      BY <1>1, <1>2, <2>2 DEF HarmInv
    <3> QED
      BY <1>2, <3>1 DEF CallInv
  <2> QED
    BY <2>1, <2>2
<1>3. ASSUME NEW t \in T, user' = [user EXCEPT ![u] = t], t.ops = user[u].ops,
             UNCHANGED <<conn, inMap, queue, batch, pos, server, failed>>,
             t.at = "send" => "send" \in t.ops,
             t.at \in {"shutdown", "queueShutdown"} => "shutdown" \in t.ops,
             t.holds \in Conns \ {NotHeld} => conn[t.holds].state \notin {"unborn", "kConnecting"},
             NEW c \in Conns
      PROVE  HarmInv'
  <2>1. \A v \in Users : user'[v].ops = user[v].ops /\ CallInv(v)'
    BY <1>2, <1>3
  <2>2. \A l \in Loops : Stays(l)
    BY <1>3, SameStays
  <2>3. PICK g : Moves(g) /\ \A l \in Loops : ~Grows(l, g)
    BY <2>2, StayMoves
  <2>4. FailInv'
    BY <1>3, <2>1 DEF HarmInv, FailInv, Mute
  <2>5. conn' = [conn EXCEPT ![c] = conn[c]] /\ conn[c] \in Record
    BY <1>3, RecordType DEF TypeOK
  <2> QED
    BY <1>3, <2>1, <2>3, <2>4, <2>5, Settles DEF Settled
<1>4. ASSUME NEW c \in Conns, UserTakes(u, c)
      PROVE  HarmInv'
  <2> DEFINE t == [user[u] EXCEPT !.holds = c]
  <2>1. user' = [user EXCEPT ![u] = t] /\ conn[c].state = "kConnected"
        /\ UNCHANGED <<conn, inMap, queue, batch, pos, server, failed>>
    BY <1>4 DEF UserTakes, loopVars
  <2>2. t \in T /\ t.ops = user[u].ops /\ t.at = user[u].at /\ t.holds = c
    BY <1>1
  <2> HIDE DEF t, T
  <2> QED
    BY <1>1, <1>3, <2>1, <2>2 DEF CallInv
<1>5. CASE UserDrops(u)
  <2> DEFINE t == [user[u] EXCEPT !.holds = NotHeld]
  <2>1. user' = [user EXCEPT ![u] = t] /\ user[u].at = "out"
        /\ user[u].holds \in Conns
        /\ UNCHANGED <<conn, inMap, queue, batch, pos, server, failed>>
    BY <1>1, <1>5 DEF UserDrops, loopVars
  <2>2. t \in T /\ t.ops = user[u].ops /\ t.at = "out" /\ t.holds = NotHeld
    BY <1>1, <2>1
  <2> HIDE DEF t, T
  <2> QED
    BY <1>3, <2>1, <2>2
<1>6. ASSUME NEW op \in user[u].ops, UserTests(u, op)
      PROVE  HarmInv'
  <2> DEFINE t == [user[u] EXCEPT !.at = op]
  <2>1. user' = [user EXCEPT ![u] = t] /\ user[u].holds \in Conns
        /\ UNCHANGED <<conn, inMap, queue, batch, pos, server, failed>>
    BY <1>1, <1>6 DEF UserTests, loopVars
  <2>2. op \in {"send", "shutdown"}
    BY <1>1, UserOpsAssumption DEF UserOpsAssumption
  <2>3. t \in T /\ t.ops = user[u].ops /\ t.at = op /\ t.holds = user[u].holds
    BY <1>1, <2>2
  <2> HIDE DEF t, T
  <2> QED
    BY <1>1, <1>3, <1>6, <2>1, <2>2, <2>3 DEF CallInv
<1>7. CASE UserSetsState(u)
  <2> DEFINE t == [user[u] EXCEPT !.at = "queueShutdown"]
             c == user[u].holds
             r == [conn[c] EXCEPT !.state = "kDisconnecting"]
  <2>1. /\ user' = [user EXCEPT ![u] = t] /\ user[u].at = "shutdown"
        /\ conn' = [conn EXCEPT ![c] = r]
        /\ UNCHANGED <<inMap, queue, batch, pos, server, failed>>
    BY <1>7 DEF UserSetsState, loopVars
  <2>2. c \in Conns \ {NotHeld}
    BY <2>1 DEF UserInv
  <2>3. t \in T /\ t.ops = user[u].ops /\ t.at = "queueShutdown" /\ t.holds = c
    BY <1>1
  <2>4. "shutdown" \in user[u].ops /\ Begun(c) /\ LifeInv(c)
    BY <1>1, <2>1, <2>2 DEF CallInv, Begun, HarmInv
  <2>5. Mute
    BY <2>4 DEF HarmInv, OneKind
  <2>6. r \in Record /\ r.state = "kDisconnecting" /\ r.loop = conn[c].loop
        /\ r.status = conn[c].status /\ r.events = conn[c].events
    BY <2>2, RecordType DEF Record, States
  <2> HIDE DEF t, T, r
  <2>7. conn'[c] = r /\ \A d \in Conns \ {c} : conn'[d] = conn[d]
    BY <2>1, <2>2 DEF TypeOK
  <2>8. \A v \in Users : user'[v].ops = user[v].ops /\ CallInv(v)'
    <3> SUFFICES ASSUME NEW v \in Users PROVE user'[v].ops = user[v].ops /\ CallInv(v)'
      OBVIOUS
    <3>1. /\ user'[v].ops = user[v].ops /\ user'[v].holds = user[v].holds
          /\ user'[v].at = user[v].at \/ (v = u /\ user'[v].at = "queueShutdown")
      BY <1>1, <2>1, <2>3
    <3>2. CallInv(v) /\ \A d \in Conns : Begun(d) => Begun(d)'
      BY <2>6, <2>7 DEF HarmInv, Begun
    <3> QED
      BY <2>4, <3>1, <3>2 DEF CallInv, Begun
  <2>9. \A l \in Loops : Stays(l)
    BY <2>1, SameStays
  <2>10. PICK g : Moves(g) /\ \A l \in Loops : ~Grows(l, g)
    BY <2>9, StayMoves
  <2>11. FailInv' /\ inMap' = inMap /\ server' = server
    BY <2>1, <2>8 DEF HarmInv, FailInv, Mute
  <2>12. Settled(r, c)
    BY <2>4, <2>5, <2>6 DEF Settled, LifeInv, Open
  <2> QED
    BY <2>1, <2>2, <2>6, <2>8, <2>10, <2>11, <2>12, Settles
<1>8. CASE UserQueues(u)
  <2> DEFINE t == [user[u] EXCEPT !.at = "out"]
  <2>1. PICK c \in Conns \ {NotHeld} : c = user[u].holds
    BY <1>8 DEF UserQueues, UserInv
  <2>2. PICK g : g = IF user[u].at = "send" THEN Functor("send", c, FALSE)
                                            ELSE Functor("shutdown", c, TRUE)
    OBVIOUS
  <2>3. /\ user' = [user EXCEPT ![u] = t]
        /\ queue' = Queue(conn[c].loop, g)
        /\ UNCHANGED <<conn, inMap, batch, pos, server, failed>>
    BY <1>8, <2>1, <2>2 DEF UserQueues
  <2>4. t \in T /\ t.ops = user[u].ops /\ t.at = "out" /\ t.holds = c
    BY <1>1, <2>1
  <2>5. Begun(c) /\ LifeInv(c) /\ conn[c].loop \in Loops
    BY <1>1, <2>1, RecordType DEF CallInv, Begun, HarmInv
  <2>6. /\ g \in Functors /\ g.conn = c
        /\ g.op \in {"send", "shutdown"} /\ (g.op = "send" \/ g.shared)
        /\ g.op = "send" => user[u].at = "send"
    BY <2>1, <2>2 DEF Functor, Functors
  <2>7. g.op = "send" => ~Mute
    BY <1>1, <2>6 DEF CallInv, Mute
  <2> HIDE DEF t, T
  <2>8. \A v \in Users : user'[v].ops = user[v].ops /\ CallInv(v)'
    BY <1>1, <1>2, <2>1, <2>3, <2>4 DEF CallInv
  <2>9. Mute' <=> Mute
    BY <2>8 DEF Mute
  <2>10. Moves(g)
    BY <2>3, <2>5, <2>6, QueueMoves
  <2> HIDE DEF Mute
  <2>11. \A l \in Loops : Suits(g, l)'
    BY <2>3, <2>5, <2>6, <2>7, <2>9 DEF Suits, Begun
  <2>12. ASSUME NEW f \in Functors, NEW l \in Loops, Suits(f, l) PROVE Suits(f, l)'
    BY <2>3, <2>9, <2>12 DEF Suits, Live
  <2>13. LifeInv(c)' /\ FailInv'
    BY <2>3, <2>5, <2>9 DEF LifeInv, Live, HarmInv, FailInv
  <2>14. \A f : ~Clash(f, g)
    BY <2>6 DEF Clash
  <2> QED
    BY <2>1, <2>3, <2>8, <2>10, <2>11, <2>12, <2>13, <2>14, HarmStep
<1> QED
  BY <1>4, <1>5, <1>6, <1>7, <1>8 DEF UserStep

LEMMA InitHarmless == ASSUME Init, OneKind PROVE HarmInv
<1>1. \A l \in Loops : queue[l] = <<>> /\ batch[l] = <<>> /\ pos[l] = 0
  BY DEF Init
<1>2. RestLen(<<>>, 0, <<>>) = 0
  BY DEF RestLen
<1>3. \A l \in Loops : Todo(l) = {}
  BY <1>1, <1>2 DEF Todo, TodoLen
<1>4. SuitsInv /\ SoleInv
  BY <1>3 DEF SuitsInv, SoleInv
<1>5. \A c \in Conns : LifeInv(c)
  BY DEF Init, Unborn, LifeInv, Live, Open
<1>6. \A u \in Users : CallInv(u)
  BY DEF Init, CallInv
<1>7. FailInv /\ server = "up"
  BY DEF Init, FailInv
<1> QED
  BY <1>4, <1>5, <1>6, <1>7 DEF HarmInv

LEMMA StepHarmless ==
    ASSUME TypeOK, UserInv, HarmInv, ~ServerDtor, [Next]_vars
    PROVE  HarmInv'
<1>1. CASE UNCHANGED vars
  <2>1. \A l \in Loops : Stays(l)
    BY <1>1, SameStays DEF vars
  <2> QED
    BY <1>1, <2>1, HarmStands DEF vars
<1>2. ASSUME NEW l \in Loops, LoopStep(l)
      PROVE  HarmInv'
  <2>1. CASE TakeBatch(l) \/ EndBatch(l)
    <3>1. \A k \in Loops : Stays(k)
      BY <2>1, SwapStays
    <3>2. UNCHANGED <<conn, inMap, user, server, failed>>
      BY <2>1 DEF TakeBatch, EndBatch
    <3> QED
      BY <3>1, <3>2, HarmStands
  <2> QED
    BY <1>2, <2>1, RunFunctorHarmless DEF LoopStep
<1>3. ~DestroyEach /\ ~DestroyMap
  BY DEF DestroyEach, DestroyMap, HarmInv
<1> QED
  BY <1>1, <1>2, <1>3, NewConnectionHarmless, EventHarmless, UserHarmless DEF Next

\* Threads that only send, or only shut down, do the loops no harm, as long as the server
\* is up: a late send() does not make a connection be removed or established twice, and a
\* late shutdown(), which may take a closed connection back to kDisconnecting, makes no
\* assertion of a handler fail.
THEOREM UsersAreHarmless ==
    ASSUME ~ServerDtor
    PROVE  Spec /\ OneKind => []UsersDoNoHarm
<1>1. Init /\ OneKind => HarmInv
  BY InitHarmless
<1>2. TypeOK /\ UserInv /\ HarmInv /\ [Next]_vars => TypeOK' /\ UserInv' /\ HarmInv'
  BY StepKeepsTypes, StepHarmless
<1>3. HarmInv => UsersDoNoHarm
  BY DEF HarmInv, FailInv, UsersDoNoHarm, RemovedOnce, NoHandlerAborts, Mute
<1> QED
  BY <1>1, <1>2, <1>3, InitTypes, PTL DEF Spec
===============================================================================
