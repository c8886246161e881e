------------------------- MODULE ProcessServer2Proofs -------------------------
(***************************************************************************)
(* Proofs about ProcessServer2, for any number of processes and clients,   *)
(* and for any number of signals, crashes and replacements: who has the     *)
(* accept mutex watches the listening socket, and nobody else does; and no  *)
(* connection fails an assertion or is left in the map or in epoll.  They   *)
(* assume MarksDeleted, which is what this program's Epoll.cpp does (85): in *)
(* the other program updateChannel leaves the state of the channel.          *)
(***************************************************************************)
EXTENDS ProcessServer2, FiniteSetTheorems, TLAPS

States == {"none", "new", "top", "polling", "accepting", "handling", "back", "ended", "dead"}

Gone == {"none", "ended", "dead"}

\* A process.
Record == [at       : States,
           started_ : BOOLEAN,
           flags    : SUBSET Flags,
           handles  : BOOLEAN,
           waits    : BOOLEAN,
           isLock_  : BOOLEAN,
           hooks    : BOOLEAN,
           acceptor : Acceptors,
           active   : SUBSET Client,
           pids     : SUBSET Process,
           parent   : Process]

\* A client and its connection.
Customer == [place : {"away", "backlog", "open", "closed", "lost"},
             by : Process, says : {"nothing", "request", "bye"}, conn : Connections]

\* What epoll knows of the listening socket is what the kernel watches.
Consistent(a) == a.watched <=> a.status = "kAdded"

\* A process whose loop has the hooks watches the listening socket while it has the mutex;
\* one that has lost them never watches it again.
Turn(p, r, holder) ==
    /\ Consistent(r.acceptor)
    /\ r.hooks => /\ r.isLock_ <=> holder = p
                  /\ r.isLock_ <=> r.acceptor.watched
    /\ ~r.hooks => ~r.acceptor.watched

\* The process p is r, while `holder' has the mutex.  One that has not started has never
\* had it, which matters for those who are copied from it.
Fine(p, r, holder) ==
    /\ r \in Record
    /\ r.at \notin Gone => Turn(p, r, holder)
    /\ r.at = "accepting" => r.acceptor.watched
    /\ r.at \in {"none", "new"} => ~r.isLock_ /\ holder # p /\ r.acceptor = NewAcceptor
    /\ r.at \notin {"accepting", "handling"} => r.active = {}

ProcessInv == \A p \in Process : Fine(p, proc[p], mutex.holder)

\* While there are children to fork, nothing is in their places.
ForkInv == proc[0].at = "new" =>
              /\ proc[0].pids \subseteq Child
              /\ \E m \in 0 .. N : /\ proc[0].pids = 1 .. m
                                   /\ \A i \in m + 1 .. N : proc[i].at = "none"

\* Who is served by a process is its client.
ServedInv == \A p \in Process : \A c \in proc[p].active :
                client[c].place = "open" /\ client[c].by = p

\* The state of a connection.
Sound(cl) ==
    /\ cl \in Customer
    /\ ~cl.conn.failed
    /\ cl.place = "open" => cl.conn.mapped /\ cl.conn.state \in {"kConnected", "kDisconnecting"}
    /\ cl.place = "closed" => ~cl.conn.mapped /\ ~cl.conn.watched

ClientInv == \A c \in Client : Sound(client[c])

Types == /\ proc \in [Process -> Record]
         /\ mutex \in [holder : Process \union {Free}, valid : BOOLEAN]
         /\ client \in [Client -> Customer]
         /\ faults \in 0 .. MaxFaults

IInv == Types /\ ProcessInv /\ ForkInv /\ ServedInv /\ ClientInv
-------------------------------------------------------------------------------
\* The processes.

LEMMA Numbers == 0 \in Process /\ Child \subseteq Process /\ Spare \subseteq Process
                 /\ Free \notin Process /\ 0 \notin Child /\ 0 \notin Spare
                 /\ Child \subseteq 1 .. N
  BY ProcessNumAssumption, MaxSpareAssumption DEF Process, Child, Spare, Free

\* The types are those of TypeOK.
LEMMA TypesAre == Types <=> TypeOK
  BY DEF Types, TypeOK, Record, Customer, States

-------------------------------------------------------------------------------
\* What is done to the record of one process.

LEMMA FlagsFine ==
    ASSUME NEW p \in Process, NEW r, NEW h, Fine(p, r, h), NEW f \in SUBSET Flags
    PROVE  Fine(p, [r EXCEPT !.flags = f], h)
  BY DEF Fine, Turn, Record

LEMMA DeadFine ==
    ASSUME NEW p \in Process, NEW r, NEW h, Fine(p, r, h)
    PROVE  Fine(p, [r EXCEPT !.at = "dead", !.active = {}], h)
  BY DEF Fine, Turn, Record, Gone, States

LEMMA EndedFine ==
    ASSUME NEW p \in Process, NEW r, NEW h, Fine(p, r, h), r.active = {}
    PROVE  Fine(p, [r EXCEPT !.at = "ended"], h)
  BY DEF Fine, Turn, Record, Gone, States

LEMMA SignalledFine ==
    ASSUME NEW p \in Process, NEW r, NEW h, Fine(p, r, h)
    PROVE  /\ Fine(p, Signalled(r), h)
           /\ Signalled(r).at = r.at \/ Signalled(r).at = "dead"
           /\ Signalled(r).active \subseteq r.active
           /\ Signalled(r).pids = r.pids
           /\ Signalled(r).at = "dead" => r.at = "dead" \/ ~r.handles
<1>1. CASE r.handles
  <2>1. r.flags \union {"terminate"} \in SUBSET Flags
    BY DEF Fine, Record, Flags
  <2> QED
    BY <1>1, <2>1, FlagsFine DEF Signalled, Fine, Record
<1>2. CASE ~r.handles
  BY <1>2, DeadFine DEF Signalled, Fine, Record
<1> QED
  BY <1>1, <1>2

\* Who is told of a death gets a flag.
LEMMA NoticedFine ==
    ASSUME NEW f \in [Process -> Record], NEW gone, NEW h,
           \A q \in Process : Fine(q, f[q], h)
    PROVE  /\ Noticed(f, gone) \in [Process -> Record]
           /\ \A q \in Process : /\ Fine(q, Noticed(f, gone)[q], h)
                                 /\ Noticed(f, gone)[q].at = f[q].at
                                 /\ Noticed(f, gone)[q].active = f[q].active
                                 /\ Noticed(f, gone)[q].pids = f[q].pids
<1> DEFINE n == Noticed(f, gone)
<1>1. ASSUME NEW q \in Process
      PROVE  /\ Fine(q, n[q], h) /\ n[q] \in Record
             /\ n[q].at = f[q].at /\ n[q].active = f[q].active /\ n[q].pids = f[q].pids
  <2>1. f[q].flags \union {"child_quit"} \in SUBSET Flags
    BY DEF Record, Flags
  <2>2. n[q] = f[q] \/ n[q] = [f[q] EXCEPT !.flags = f[q].flags \union {"child_quit"}]
    BY DEF Noticed
  <2>3. n[q].at = f[q].at /\ n[q].active = f[q].active /\ n[q].pids = f[q].pids
    BY <2>2 DEF Record
  <2>4. Fine(q, n[q], h)
    BY <2>1, <2>2, FlagsFine
  <2> QED
    BY <2>3, <2>4 DEF Fine
<1>2. n \in [Process -> Record]
  BY <1>1 DEF Noticed
<1> QED
  BY <1>1, <1>2

LEMMA EndRoundFine ==
    ASSUME NEW p \in Process, NEW r \in Record, NEW h, Turn(p, r, h), r.active = {}
    PROVE  Fine(p, EndRound(r), h) /\ EndRound(r).active = {} /\ EndRound(r).at # "new"
  BY DEF Fine, Turn, Record, States, Gone, EndRound

LEMMA CheckStatusFine ==
    ASSUME NEW p \in Process, NEW r \in Record, NEW h, Turn(p, r, h)
    PROVE  /\ Fine(p, CheckStatus(r), h)
           /\ CheckStatus(r).active \subseteq r.active
           /\ CheckStatus(r).at # "new"
<1>1. CASE Stops(r)
  BY <1>1 DEF CheckStatus, Fine, Turn, Record, States, Gone
<1>2. CASE ~Stops(r) /\ r.active = {}
  BY <1>2, EndRoundFine DEF CheckStatus
<1>3. CASE ~Stops(r) /\ r.active # {}
  BY <1>3 DEF CheckStatus, Fine, Turn, Record, States, Gone
<1> QED
  BY <1>1, <1>2, <1>3

LEMMA HandledFine ==
    ASSUME NEW p \in Process, NEW r, NEW h, NEW c, Fine(p, r, h), r.at = "handling"
    PROVE  /\ Fine(p, Handled(r, c), h)
           /\ Handled(r, c).active \subseteq r.active \ {c}
           /\ Handled(r, c).at # "new"
<1>1. CASE r.active = {c}
  <2> DEFINE e == [r EXCEPT !.active = {}]
  <2>1. e \in Record /\ Turn(p, e, h) /\ e.active = {}
    BY DEF Fine, Turn, Record, Gone
  <2>2. Handled(r, c) = EndRound(e)
    BY <1>1 DEF Handled
  <2> QED
    BY <2>1, <2>2, EndRoundFine
<1>2. CASE r.active # {c}
  BY <1>2 DEF Handled, Fine, Turn, Record, Gone
<1> QED
  BY <1>1, <1>2

\* The listening socket is added when it is not watched, and deleted when it is.
LEMMA AcceptorFine ==
    ASSUME NEW a \in Acceptors, Consistent(a)
    PROVE  /\ enableReading(a) \in Acceptors /\ Consistent(enableReading(a))
           /\ enableReading(a).watched
           /\ MarksDeleted => /\ disableAll(a) \in Acceptors /\ Consistent(disableAll(a))
                              /\ a.watched => ~disableAll(a).watched
  BY DEF Acceptors, Consistent, enableReading, disableAll, updateChannel

-------------------------------------------------------------------------------
\* Connections.  An open one is served, and is in the map.
Serving(r) ==
    /\ r \in Connections
    /\ ~r.failed
    /\ r.mapped
    /\ r.state \in {"kConnected", "kDisconnecting"}

LEMMA EstablishedServing == Serving(connectionEstablished(NewConnection))
  BY DEF Serving, Connections, connectionEstablished, NewConnection, Asserted, enableReading,
         updateChannel

LEMMA SendServing ==
    ASSUME NEW r, Serving(r), NEW s \in send(r)
    PROVE  Serving(s)
<1>1. s = r \/ s = enableReading([r EXCEPT !.out = TRUE])
  BY DEF send
<1>2. Serving(enableReading([r EXCEPT !.out = TRUE]))
  BY DEF Serving, Connections, enableReading, updateChannel
<1> QED
  BY <1>1, <1>2

LEMMA ShutdownServing ==
    ASSUME NEW r, Serving(r)
    PROVE  Serving(shutdown(r))
<1> DEFINE e == [r EXCEPT !.state = "kDisconnecting"]
<1>1. Serving(e)
  BY DEF Serving, Connections
<1>2. Serving(shutdownInSocket(e))
  BY <1>1 DEF Serving, Connections, shutdownInSocket
<1> QED
  BY <1>2 DEF shutdown

LEMMA MessageServing ==
    ASSUME NEW r, Serving(r), NEW s \in onMessage(r)
    PROVE  Serving(s)
  BY SendServing, ShutdownServing DEF onMessage

\* A close is clean: no assertion on its way fails.
LEMMA CloseIsClean ==
    ASSUME NEW r, Serving(r)
    PROVE  LET d == Destroyed(handleClose(r))
           IN d \in Connections /\ ~d.failed /\ ~d.mapped /\ ~d.watched
<1> DEFINE e == [Asserted(r, r.state \in {"kConnected", "kDisconnecting"})
                   EXCEPT !.state = "kDisconnected"]
           f == disableAll(e)
           g == [Asserted(f, f.mapped) EXCEPT !.mapped = FALSE]
<1>1. /\ e \in Connections /\ ~e.failed /\ e.mapped
      /\ e.state = "kDisconnected"
  BY DEF Serving, Connections, Asserted
<1>2. /\ f \in Connections /\ ~f.failed /\ f.mapped /\ f.events = {}
      /\ f.state = "kDisconnected"
      /\ f.watched => f.status = "kAdded"
  BY <1>1 DEF Connections, disableAll, updateChannel
<1>3. /\ g \in Connections /\ ~g.failed /\ ~g.mapped /\ g.events = {}
      /\ g.state = "kDisconnected"
      /\ g.watched => g.status = "kAdded"
  BY <1>2 DEF Connections, Asserted
<1>4. handleClose(r) = remove(g)
  BY <1>3 DEF handleClose, removeConnection, connectionDestroyed
<1>5. /\ remove(g) \in Connections /\ ~remove(g).failed /\ ~remove(g).mapped
      /\ ~remove(g).watched /\ remove(g).state = "kDisconnected"
  <2> HIDE DEF g
  <2> QED
    BY <1>3 DEF Connections, remove, removeChannel, Asserted
<1>6. ASSUME NEW h \in Connections, ~h.failed, ~h.mapped, ~h.watched, h.state = "kDisconnected"
      PROVE  /\ Destroyed(h) \in Connections /\ ~Destroyed(h).failed
             /\ ~Destroyed(h).mapped /\ ~Destroyed(h).watched
  BY <1>6 DEF Connections, Destroyed, Asserted
<1>7. /\ Destroyed(remove(g)) \in Connections /\ ~Destroyed(remove(g)).failed
      /\ ~Destroyed(remove(g)).mapped /\ ~Destroyed(remove(g)).watched
  BY <1>5, <1>6
<1> HIDE DEF e, f, g
<1> QED
  BY <1>4, <1>7

LEMMA NewSound == NewConnection \in Connections /\ ~NewConnection.failed
  BY DEF NewConnection, Connections

\* What is done to a client.
LEMMA LostSound ==
    ASSUME NEW cl, Sound(cl)
    PROVE  Sound([cl EXCEPT !.place = "lost"])
  BY DEF Sound, Customer

\* The connections of processes that end are lost: what is said of the others stays.
LEMMA LosingKeeps ==
    ASSUME Types, ClientInv, NEW gone, LoseClients(gone)
    PROVE  /\ client' \in [Client -> Customer]
           /\ ClientInv'
           /\ \A c \in Client, p \in Process \ gone :
                 client[c].place = "open" /\ client[c].by = p =>
                    client'[c].place = "open" /\ client'[c].by = p
<1>1. ASSUME NEW c \in Client
      PROVE  Sound(client'[c])
  BY LostSound DEF ClientInv, LoseClients, Types
<1>2. client' \in [Client -> Customer]
  BY <1>1 DEF LoseClients, Sound
<1> QED
  BY <1>1, <1>2 DEF ClientInv, LoseClients, Types

-------------------------------------------------------------------------------
\* The steps.

LEMMA InitInv == Init => IInv
<1> SUFFICES ASSUME Init PROVE IInv
  OBVIOUS
<1>0. NewAcceptor \in Acceptors /\ Consistent(NewAcceptor) /\ ~NewAcceptor.watched
  BY DEF NewAcceptor, Acceptors, Consistent
<1>1. PICK started \in BOOLEAN :
          proc = [p \in Process |-> IF p = 0 THEN [Fresh("new") EXCEPT !.started_ = started]
                                             ELSE Fresh("none")]
  BY DEF Init
<1>2. ASSUME NEW p \in Process
      PROVE  Fine(p, proc[p], mutex.holder)
  BY <1>0, <1>1, Numbers DEF Init, Fine, Turn, Fresh, Record, States, Gone, Flags
<1>3. Types
  <2>1. proc \in [Process -> Record]
    BY <1>1, <1>2 DEF Fine
  <2>2. client \in [Client -> Customer]
    BY NewSound, Numbers DEF Init, Customer
  <2> QED
    BY <2>1, <2>2, MaxFaultsAssumption DEF Init, Types
<1>4. ForkInv
  <2>1. proc[0].pids = {} /\ \A i \in Child : proc[i].at = "none"
    BY <1>1, Numbers DEF Fresh
  <2>2. proc[0].pids = 1 .. 0 /\ \A i \in 0 + 1 .. N : proc[i].at = "none"
    BY <2>1, ProcessNumAssumption DEF Child
  <2>3. 0 \in 0 .. N
    BY ProcessNumAssumption
  <2> QED
    BY <2>1, <2>2, <2>3 DEF ForkInv
<1>5. ServedInv
  BY <1>1 DEF ServedInv, Fresh
<1>6. ClientInv
  BY NewSound, Numbers DEF Init, ClientInv, Sound, Customer
<1> QED
  BY <1>2, <1>3, <1>4, <1>5, <1>6 DEF IInv, ProcessInv

\* A step that forks no child.
LEMMA ForkKept ==
    ASSUME ForkInv,
           proc'[0].at = "new" => proc[0].at = "new" /\ proc'[0].pids = proc[0].pids,
           \A i \in Child : proc[i].at = "none" => proc'[i].at = "none"
    PROVE  ForkInv'
  BY Numbers, ProcessNumAssumption DEF ForkInv, Child

\* A step of process p which nobody else takes part in.
LEMMA OwnStep ==
    ASSUME IInv, NEW p \in Process, NEW r,
           proc[p].at # "none",
           proc' = [proc EXCEPT ![p] = r],
           Fine(p, r, mutex'.holder),
           r.at = "new" => proc[p].at = "new" /\ r.pids = proc[p].pids,
           \/ mutex'.holder = mutex.holder
           \/ mutex.holder \in {Free, p} /\ mutex'.holder \in {Free, p}
    PROVE  proc' \in [Process -> Record] /\ ProcessInv' /\ ForkInv'
           /\ \A q \in Process \ {p} : proc'[q] = proc[q]
           /\ proc'[p] = r
<1>1. /\ \A q \in Process \ {p} : proc'[q] = proc[q]
      /\ proc'[p] = r
  BY DEF IInv, Types
<1>2. ASSUME NEW q \in Process
      PROVE  Fine(q, proc'[q], mutex'.holder)
  <2>1. CASE q = p
    BY <1>1, <2>1
  <2>2. CASE q # p
    <3>1. Fine(q, proc[q], mutex.holder)
      BY DEF IInv, ProcessInv
    <3>2. (mutex'.holder = q) <=> (mutex.holder = q)
      BY <2>2, Numbers
    <3> QED
      BY <1>1, <2>2, <3>1, <3>2 DEF Fine, Turn
  <2> QED
    BY <2>1, <2>2
<1>3. proc' \in [Process -> Record]
  BY <1>2, <1>1 DEF Fine, IInv, Types
<1>4. ForkInv'
  BY <1>1, ForkKept, Numbers DEF IInv
<1> QED
  BY <1>1, <1>2, <1>3, <1>4 DEF ProcessInv

\* A step in which processes end, perhaps some are killed, and others are told.
LEMMA EndingStep ==
    ASSUME IInv, NEW f \in [Process -> Record], NEW gone,
           proc' = Noticed(f, gone),
           mutex'.holder = mutex.holder,
           \A q \in Process : /\ Fine(q, f[q], mutex.holder)
                              /\ \/ f[q].at = proc[q].at
                                 \/ f[q].at \in {"dead", "ended"} /\ proc[q].at # "none"
                              /\ f[q].active \subseteq proc[q].active
                              /\ f[q].pids = proc[q].pids
    PROVE  /\ proc' \in [Process -> Record] /\ ProcessInv' /\ ForkInv'
           /\ \A q \in Process : proc'[q].active = f[q].active
<1>1. /\ proc' \in [Process -> Record]
      /\ \A q \in Process : /\ Fine(q, proc'[q], mutex'.holder)
                            /\ proc'[q].at = f[q].at
                            /\ proc'[q].active = f[q].active
                            /\ proc'[q].pids = f[q].pids
  BY NoticedFine
<1>2. ForkInv'
  BY <1>1, ForkKept, Numbers DEF IInv
<1> QED
  BY <1>1, <1>2 DEF ProcessInv

\* When clients stay and a process handles none that it did not before.
LEMMA ServedKept ==
    ASSUME ServedInv, UNCHANGED client,
           \A q \in Process : proc'[q].active \subseteq proc[q].active
    PROVE  ServedInv'
  BY DEF ServedInv

LEMMA StartStep == ASSUME IInv, NEW p \in Process, Start(p) PROVE IInv'
<1> DEFINE r == [proc[p] EXCEPT !.at = "top", !.handles = TRUE, !.started_ = TRUE]
<1>1. Fine(p, proc[p], mutex.holder) /\ proc[p] \in Record /\ proc[p].at = "new"
  BY DEF IInv, ProcessInv, Types, Start
<1>2. Consistent(NewAcceptor) /\ ~NewAcceptor.watched
  BY DEF NewAcceptor, Consistent
<1>3. Fine(p, r, mutex.holder) /\ r.active = proc[p].active /\ r.at = "top"
  BY <1>1, <1>2 DEF Fine, Turn, Record, States, Gone
<1>4. proc' = [proc EXCEPT ![p] = r] /\ UNCHANGED <<mutex, client, faults>>
  BY DEF Start, IInv, Types
<1>5. /\ proc' \in [Process -> Record] /\ ProcessInv' /\ ForkInv'
      /\ \A q \in Process \ {p} : proc'[q] = proc[q]
      /\ proc'[p] = r
  BY <1>1, <1>3, <1>4, OwnStep
<1>6. ServedInv'
  BY <1>3, <1>4, <1>5, ServedKept DEF IInv
<1> QED
  BY <1>4, <1>5, <1>6 DEF IInv, Types, ClientInv

LEMMA LockStep == ASSUME IInv, NEW p \in Process, Lock(p) PROVE IInv'
<1>1. /\ Fine(p, proc[p], mutex.holder) /\ proc[p] \in Record /\ proc[p].at = "top"
      /\ Turn(p, proc[p], mutex.holder) /\ proc[p].active = {}
  BY DEF IInv, ProcessInv, Types, Lock, Fine, Gone
<1>2. UNCHANGED <<client, faults>>
  BY DEF Lock
<1>3. CASE proc[p].hooks /\ mutex.valid /\ mutex.holder = Free
  <2> DEFINE r == [proc[p] EXCEPT !.at = "polling", !.isLock_ = TRUE,
                                  !.acceptor = enableReading(proc[p].acceptor)]
  <2>1. /\ proc' = [proc EXCEPT ![p] = r]
        /\ mutex' = [mutex EXCEPT !.holder = p]
    BY <1>3 DEF Lock, lockAcceptor, IInv, Types
  <2>2. /\ mutex'.holder = p
        /\ mutex' \in [holder : Process \union {Free}, valid : BOOLEAN]
    BY <2>1 DEF IInv, Types
  <2>3. /\ enableReading(proc[p].acceptor) \in Acceptors
        /\ Consistent(enableReading(proc[p].acceptor))
        /\ enableReading(proc[p].acceptor).watched
    BY <1>1, AcceptorFine DEF Turn, Record
  <2>4. Fine(p, r, p) /\ r.active = proc[p].active /\ r.at = "polling"
    BY <1>1, <1>3, <2>3 DEF Fine, Turn, Record, States, Gone
  <2>5. /\ proc' \in [Process -> Record] /\ ProcessInv' /\ ForkInv'
        /\ \A q \in Process \ {p} : proc'[q] = proc[q]
        /\ proc'[p] = r
    BY <1>1, <1>3, <2>1, <2>2, <2>4, OwnStep
  <2>6. ServedInv'
    BY <1>2, <2>4, <2>5, ServedKept DEF IInv
  <2> QED
    BY <1>2, <2>2, <2>5, <2>6 DEF IInv, Types, ClientInv
<1>4. CASE ~(proc[p].hooks /\ mutex.valid /\ mutex.holder = Free)
  <2> DEFINE r == [proc[p] EXCEPT !.at = "polling"]
  <2>1. proc' = [proc EXCEPT ![p] = r] /\ UNCHANGED mutex
    BY <1>4 DEF Lock, lockAcceptor, IInv, Types
  <2>2. Fine(p, r, mutex.holder) /\ r.active = proc[p].active /\ r.at = "polling"
    BY <1>1 DEF Fine, Turn, Record, States, Gone
  <2>3. /\ proc' \in [Process -> Record] /\ ProcessInv' /\ ForkInv'
        /\ \A q \in Process \ {p} : proc'[q] = proc[q]
        /\ proc'[p] = r
    BY <1>1, <2>1, <2>2, OwnStep
  <2>4. ServedInv'
    BY <1>2, <2>2, <2>3, ServedKept DEF IInv
  <2> QED
    BY <1>2, <2>1, <2>3, <2>4 DEF IInv, Types, ClientInv
<1> QED
  BY <1>3, <1>4

LEMMA PollStep == ASSUME IInv, NEW p \in Process, Poll(p) PROVE IInv'
<1> DEFINE e == [proc[p] EXCEPT !.active = ReadyClients(p)]
           r == IF ListenReady(p) THEN [e EXCEPT !.at = "accepting"] ELSE CheckStatus(e)
<1>1. /\ Fine(p, proc[p], mutex.holder) /\ proc[p] \in Record /\ proc[p].at = "polling"
      /\ Turn(p, proc[p], mutex.holder)
  BY DEF IInv, ProcessInv, Types, Poll, Fine, Gone
<1>2. proc' = [proc EXCEPT ![p] = r] /\ UNCHANGED <<mutex, client, faults>>
  BY DEF Poll, IInv, Types
<1>3. ReadyClients(p) \in SUBSET Client
  BY DEF ReadyClients
<1>4. e \in Record /\ Turn(p, e, mutex.holder) /\ e.active = ReadyClients(p)
  BY <1>1, <1>3 DEF Record, Turn
<1>5. Fine(p, r, mutex.holder) /\ r.active \subseteq ReadyClients(p) /\ r.at # "new"
  <2>1. CASE ListenReady(p)
    <3>1. e.acceptor.watched
      BY <1>1, <2>1 DEF ListenReady, Record
    <3> HIDE DEF e
    <3> QED
      BY <1>4, <2>1, <3>1 DEF Fine, Turn, Record, States, Gone
  <2>2. CASE ~ListenReady(p)
    BY <1>4, <2>2, CheckStatusFine
  <2> QED
    BY <2>1, <2>2
<1> HIDE DEF e, r
<1>6. /\ proc' \in [Process -> Record] /\ ProcessInv' /\ ForkInv'
      /\ \A q \in Process \ {p} : proc'[q] = proc[q]
      /\ proc'[p] = r
  BY <1>1, <1>2, <1>5, OwnStep
<1>7. ServedInv'
  BY <1>2, <1>5, <1>6 DEF IInv, ServedInv, ReadyClients
<1> QED
  BY <1>2, <1>6, <1>7 DEF IInv, Types, ClientInv

\* accept4 has a client, or none any more; the mutex is given back by who has it.
LEMMA AcceptStep == ASSUME MarksDeleted, IInv, NEW p \in Process, Accept(p) PROVE IInv'
<1>1. /\ Fine(p, proc[p], mutex.holder) /\ proc[p] \in Record /\ proc[p].at = "accepting"
      /\ Turn(p, proc[p], mutex.holder) /\ proc[p].acceptor.watched
  BY DEF IInv, ProcessInv, Types, Accept, Fine, Gone
<1>2. proc[p].isLock_ /\ mutex.holder = p /\ proc[p].acceptor \in Acceptors
  BY <1>1 DEF Turn, Record
<1> DEFINE e == [proc[p] EXCEPT !.isLock_ = FALSE, !.acceptor = disableAll(proc[p].acceptor)]
           r == CheckStatus(e)
<1>3. /\ proc' = [proc EXCEPT ![p] = r]
      /\ mutex' = [mutex EXCEPT !.holder = Free]
  <2>1. unlockAcceptor(p)
    BY DEF Accept
  <2> QED
    BY <1>2, <2>1 DEF unlockAcceptor, IInv, Types
<1>4. mutex'.holder = Free /\ mutex' \in [holder : Process \union {Free}, valid : BOOLEAN]
  BY <1>3 DEF IInv, Types
<1>5. /\ disableAll(proc[p].acceptor) \in Acceptors
      /\ Consistent(disableAll(proc[p].acceptor))
      /\ ~disableAll(proc[p].acceptor).watched
  BY <1>1, <1>2, AcceptorFine DEF Turn
<1>6. e \in Record /\ Turn(p, e, Free) /\ e.active = proc[p].active
  BY <1>1, <1>5, Numbers DEF Record, Turn
<1>7. Fine(p, r, mutex'.holder) /\ r.active \subseteq proc[p].active /\ r.at # "new"
  <2> HIDE DEF e
  <2> QED
    BY <1>4, <1>6, CheckStatusFine
<1> HIDE DEF e, r
<1>8. /\ proc' \in [Process -> Record] /\ ProcessInv' /\ ForkInv'
      /\ \A q \in Process \ {p} : proc'[q] = proc[q]
      /\ proc'[p] = r
  BY <1>1, <1>2, <1>3, <1>4, <1>7, OwnStep
<1>9. /\ client' \in [Client -> Customer] /\ ClientInv'
      /\ \A c \in Client : client[c].place = "open" =>
            client'[c].place = "open" /\ client'[c].by = client[c].by
  <2>1. ASSUME NEW c \in Client, client[c].place = "backlog",
               client' = [client EXCEPT ![c].place = "open", ![c].by = p,
                                        ![c].conn = connectionEstablished(NewConnection)]
        PROVE  <1>9!:
    <3> DEFINE cl == [client[c] EXCEPT !.place = "open", !.by = p,
                                       !.conn = connectionEstablished(NewConnection)]
    <3>1. client' = [client EXCEPT ![c] = cl] /\ client[c] \in Customer
      BY <2>1 DEF IInv, Types
    <3>2. Sound(cl) /\ cl \in Customer
      BY <3>1, EstablishedServing DEF Sound, Customer, Serving
    <3> HIDE DEF cl
    <3> QED
      BY <2>1, <3>1, <3>2 DEF IInv, Types, ClientInv
  <2>2. CASE UNCHANGED client
    BY <2>2 DEF IInv, Types, ClientInv
  <2> QED
    BY <2>1, <2>2 DEF Accept
<1>10. ServedInv'
  <2> SUFFICES ASSUME NEW q \in Process, NEW d \in proc'[q].active
               PROVE  client'[d].place = "open" /\ client'[d].by = q
    BY DEF ServedInv
  <2>1. d \in proc[q].active
    BY <1>7, <1>8
  <2>2. d \in Client
    BY <2>1 DEF IInv, Types, Record
  <2> QED
    BY <1>9, <2>1, <2>2 DEF IInv, ServedInv
<1>11. UNCHANGED faults
  BY DEF Accept
<1> QED
  BY <1>4, <1>8, <1>9, <1>10, <1>11 DEF IInv, Types

\* A process handles an event of its client c, which becomes cl.
LEMMA HandleStep ==
    ASSUME IInv, NEW p \in Process, NEW c \in proc[p].active, NEW cl,
           proc[p].at = "handling",
           Sound(cl),
           client' = [client EXCEPT ![c] = cl],
           proc' = [proc EXCEPT ![p] = Handled(@, c)],
           UNCHANGED <<mutex, faults>>
    PROVE  IInv'
<1>1. /\ Fine(p, proc[p], mutex.holder) /\ proc[p] \in Record /\ c \in Client
      /\ client[c].by = p /\ client[c].place = "open"
  BY DEF IInv, ProcessInv, Types, Record, ServedInv
<1> DEFINE r == Handled(proc[p], c)
<1>2. proc' = [proc EXCEPT ![p] = r]
  BY DEF IInv, Types
<1>3. Fine(p, r, mutex.holder) /\ r.active \subseteq proc[p].active \ {c} /\ r.at # "new"
  BY <1>1, HandledFine
<1> HIDE DEF r
<1>4. /\ proc' \in [Process -> Record] /\ ProcessInv' /\ ForkInv'
      /\ \A q \in Process \ {p} : proc'[q] = proc[q]
      /\ proc'[p] = r
  BY <1>1, <1>2, <1>3, OwnStep
<1>5. client' \in [Client -> Customer] /\ ClientInv'
  BY <1>1 DEF IInv, Types, ClientInv, Sound
<1>6. ServedInv'
  <2> SUFFICES ASSUME NEW q \in Process, NEW d \in proc'[q].active
               PROVE  client'[d].place = "open" /\ client'[d].by = q
    BY DEF ServedInv
  <2>1. d \in proc[q].active /\ d # c
    BY <1>1, <1>3, <1>4 DEF IInv, ServedInv
  <2>2. d \in Client
    BY <2>1 DEF IInv, Types, Record
  <2> QED
    BY <2>1, <2>2 DEF IInv, ServedInv, Types
<1> QED
  BY <1>4, <1>5, <1>6 DEF IInv, Types

LEMMA MessageStep ==
    ASSUME IInv, NEW p \in Process, NEW c \in Client, HandleMessage(p, c)
    PROVE  IInv'
<1>1. Sound(client[c]) /\ client[c].place = "open" /\ client[c] \in Customer
  BY DEF IInv, Types, ClientInv, ServedInv, HandleMessage
<1>2. Serving(client[c].conn)
  BY <1>1 DEF Sound, Serving, Customer
<1>3. PICK r \in onMessage(client[c].conn) :
          client' = [client EXCEPT ![c].conn = r, ![c].says = "nothing"]
  BY DEF HandleMessage
<1>4. Serving(r)
  BY <1>2, <1>3, MessageServing
<1> DEFINE cl == [client[c] EXCEPT !.conn = r, !.says = "nothing"]
<1>5. client' = [client EXCEPT ![c] = cl]
  BY <1>3 DEF IInv, Types
<1>6. Sound(cl)
  BY <1>1, <1>4 DEF Sound, Serving, Customer
<1> HIDE DEF cl
<1> QED
  BY <1>5, <1>6, HandleStep DEF HandleMessage

LEMMA CloseStep ==
    ASSUME IInv, NEW p \in Process, NEW c \in Client, HandleClose(p, c)
    PROVE  IInv'
<1>1. Sound(client[c]) /\ client[c].place = "open" /\ client[c] \in Customer
  BY DEF IInv, Types, ClientInv, ServedInv, HandleClose
<1>2. Serving(client[c].conn)
  BY <1>1 DEF Sound, Serving, Customer
<1> DEFINE d == Destroyed(handleClose(client[c].conn))
           cl == [client[c] EXCEPT !.place = "closed", !.conn = d]
<1>3. d \in Connections /\ ~d.failed /\ ~d.mapped /\ ~d.watched
  BY <1>2, CloseIsClean
<1>4. client' = [client EXCEPT ![c] = cl]
  BY DEF HandleClose, IInv, Types
<1> HIDE DEF d
<1>5. Sound(cl)
  BY <1>1, <1>3 DEF Sound, Customer
<1> HIDE DEF cl
<1> QED
  BY <1>4, <1>5, HandleStep DEF HandleClose

LEMMA NoStartStep == ASSUME IInv, NEW p \in Process, NoStart(p) PROVE IInv'
<1> DEFINE f == [proc EXCEPT ![p].at = "ended"]
<1>1. /\ Fine(p, proc[p], mutex.holder) /\ proc[p] \in Record /\ proc[p].at = "new"
      /\ proc[p].active = {}
  BY DEF IInv, ProcessInv, Types, NoStart, Fine
<1>2. /\ \A q \in Process \ {p} : f[q] = proc[q]
      /\ f[p] = [proc[p] EXCEPT !.at = "ended"]
  BY DEF IInv, Types
<1>3. \A q \in Process : Fine(q, f[q], mutex.holder)
  BY <1>1, <1>2, EndedFine DEF IInv, ProcessInv
<1>4. f \in [Process -> Record]
  BY <1>2, <1>3 DEF Fine, IInv, Types
<1>5. \A q \in Process : /\ \/ f[q].at = proc[q].at
                            \/ f[q].at \in {"dead", "ended"} /\ proc[q].at # "none"
                         /\ f[q].active = proc[q].active
                         /\ f[q].pids = proc[q].pids
  BY <1>1, <1>2 DEF Record
<1>6. proc' = Noticed(f, {p}) /\ DestroyMutex /\ UNCHANGED <<client, faults>>
  BY DEF NoStart
<1>7. mutex'.holder = mutex.holder /\ mutex' \in [holder : Process \union {Free}, valid : BOOLEAN]
  BY <1>6 DEF DestroyMutex, IInv, Types
<1> HIDE DEF f
<1>8. /\ proc' \in [Process -> Record] /\ ProcessInv' /\ ForkInv'
      /\ \A q \in Process : proc'[q].active = f[q].active
  BY <1>3, <1>4, <1>5, <1>6, <1>7, EndingStep
<1>9. ServedInv'
  BY <1>5, <1>6, <1>8, ServedKept DEF IInv
<1> QED
  BY <1>6, <1>7, <1>8, <1>9 DEF IInv, Types, ClientInv

LEMMA DiesStep ==
    ASSUME IInv, NEW p \in Process, Alive(p), Dies(p), faults' \in 0 .. MaxFaults
    PROVE  IInv'
<1> DEFINE f == [proc EXCEPT ![p].at = "dead", ![p].active = {}]
<1>1. Fine(p, proc[p], mutex.holder) /\ proc[p] \in Record /\ proc[p].at \notin Gone
  BY DEF IInv, ProcessInv, Types, Alive, Gone
<1>2. /\ \A q \in Process \ {p} : f[q] = proc[q]
      /\ f[p] = [proc[p] EXCEPT !.at = "dead", !.active = {}]
      /\ f = [q \in Process |-> f[q]]
  BY DEF IInv, Types
<1> HIDE DEF f
<1>3. \A q \in Process : Fine(q, f[q], mutex.holder)
  <2> DEFINE d == [proc[p] EXCEPT !.at = "dead", !.active = {}]
  <2>1. Fine(p, d, mutex.holder)
    BY <1>1, DeadFine
  <2>2. \A q \in Process : Fine(q, proc[q], mutex.holder)
    BY DEF IInv, ProcessInv
  <2> HIDE DEF d
  <2> QED
    BY <1>2, <2>1, <2>2 DEF d
<1>4. f \in [Process -> Record]
  BY <1>2, <1>3 DEF Fine, IInv, Types
<1>5. /\ \A q \in Process : /\ \/ f[q].at = proc[q].at
                               \/ f[q].at \in {"dead", "ended"} /\ proc[q].at # "none"
                            /\ f[q].active \subseteq proc[q].active
                            /\ f[q].pids = proc[q].pids
      /\ f[p].active = {}
  <2>1. /\ f[p].at = "dead" /\ f[p].active = {} /\ f[p].pids = proc[p].pids
        /\ proc[p].at # "none"
    BY <1>1, <1>2 DEF Record, Gone
  <2>2. \A q \in Process \ {p} : f[q] = proc[q]
    BY <1>2
  <2> QED
    BY <2>1, <2>2
<1>6. proc' = Noticed(f, {p}) /\ LoseClients({p}) /\ UNCHANGED mutex
  BY DEF Dies, f
<1>7. /\ proc' \in [Process -> Record] /\ ProcessInv' /\ ForkInv'
      /\ \A q \in Process : proc'[q].active = f[q].active
  BY <1>3, <1>4, <1>5, <1>6, EndingStep
<1>8. /\ client' \in [Client -> Customer]
      /\ ClientInv'
      /\ \A c \in Client, q \in Process \ {p} :
            client[c].place = "open" /\ client[c].by = q =>
               client'[c].place = "open" /\ client'[c].by = q
  BY <1>6, LosingKeeps DEF IInv
<1>9. ServedInv'
  <2> SUFFICES ASSUME NEW q \in Process, NEW d \in proc'[q].active
               PROVE  client'[d].place = "open" /\ client'[d].by = q
    BY DEF ServedInv
  <2>1. d \in proc[q].active /\ q # p
    BY <1>5, <1>7
  <2>2. d \in Client
    BY <2>1 DEF IInv, Types, Record
  <2> QED
    BY <1>8, <2>1, <2>2 DEF IInv, ServedInv
<1> QED
  BY <1>6, <1>7, <1>8, <1>9 DEF IInv, Types

LEMMA LeaveStep == ASSUME IInv, NEW p \in Process, Leave(p) PROVE IInv'
<1> DEFINE k == killAll(p)
           f == [k EXCEPT ![p].at = "ended"]
           dead == {q \in proc[p].pids : Alive(q) /\ ~proc[q].handles}
<1>1. /\ Fine(p, proc[p], mutex.holder) /\ proc[p] \in Record /\ proc[p].at = "back"
      /\ proc[p].active = {}
  BY DEF IInv, ProcessInv, Types, Leave, Fine
<1>2. ASSUME NEW q \in Process
      PROVE  /\ Fine(q, k[q], mutex.holder) /\ k[q] \in Record
             /\ \/ k[q].at = proc[q].at
                \/ k[q].at = "dead" /\ proc[q].at # "none"
             /\ k[q].active \subseteq proc[q].active
             /\ k[q].pids = proc[q].pids
             /\ q \in dead => k[q].active = {}
  <2>1. Fine(q, proc[q], mutex.holder)
    BY DEF IInv, ProcessInv
  <2>2. CASE q \in proc[p].pids /\ Alive(q)
    <3>1. k[q] = Signalled(proc[q])
      BY <2>2 DEF killAll
    <3>2. q \in dead => k[q] = [proc[q] EXCEPT !.at = "dead", !.active = {}]
      BY <3>1 DEF Signalled
    <3>3. q \in dead => k[q].active = {}
      BY <2>1, <3>2 DEF Fine, Record
    <3>4. /\ Fine(q, k[q], mutex.holder)
          /\ k[q].at = proc[q].at \/ k[q].at = "dead"
          /\ k[q].active \subseteq proc[q].active
          /\ k[q].pids = proc[q].pids
      BY <2>1, <3>1, SignalledFine
    <3>5. proc[q].at # "none"
      BY <2>2 DEF Alive
    <3> HIDE DEF k, dead
    <3> QED
      BY <3>3, <3>4, <3>5 DEF Fine
  <2>3. CASE ~(q \in proc[p].pids /\ Alive(q))
    BY <2>1, <2>3 DEF killAll, Fine
  <2> QED
    BY <2>2, <2>3
<1>3. k \in [Process -> Record]
  BY <1>2 DEF killAll
<1>4. /\ \A q \in Process \ {p} : f[q] = k[q]
      /\ f[p] = [k[p] EXCEPT !.at = "ended"]
  BY <1>3
<1>5. \A q \in Process : Fine(q, f[q], mutex.holder)
  <2>1. k[p].active = {}
    BY <1>1, <1>2
  <2> QED
    BY <1>2, <1>4, <2>1, EndedFine
<1>6. f \in [Process -> Record]
  BY <1>3, <1>4, <1>5 DEF Fine
<1>7. /\ \A q \in Process : /\ \/ f[q].at = proc[q].at
                               \/ f[q].at \in {"dead", "ended"} /\ proc[q].at # "none"
                            /\ f[q].active \subseteq proc[q].active
                            /\ f[q].pids = proc[q].pids
      /\ \A q \in dead \union {p} : f[q].active = {}
  <2>1. f[p].at = "ended" /\ f[p].active = k[p].active /\ f[p].pids = k[p].pids
    BY <1>2, <1>4 DEF Record
  <2>2. dead \subseteq Process
    BY <1>1 DEF Record
  <2> HIDE DEF f, k, dead
  <2>3. ASSUME NEW q \in Process \ {p}
        PROVE  /\ f[q] = k[q]
               /\ \/ k[q].at = proc[q].at
                  \/ k[q].at = "dead" /\ proc[q].at # "none"
               /\ k[q].active \subseteq proc[q].active /\ k[q].pids = proc[q].pids
               /\ q \in dead => k[q].active = {}
    <3>1. f[q] = k[q]
      BY <1>4
    <3> QED
      BY <1>2, <3>1
  <2>4. k[p].active = {} /\ k[p].pids = proc[p].pids /\ proc[p].at # "none"
    BY <1>1, <1>2
  <2> QED
    BY <2>1, <2>2, <2>3, <2>4
<1>8. /\ proc' = Noticed(f, dead \union {p}) /\ LoseClients(dead \union {p})
      /\ DestroyMutex /\ UNCHANGED faults
  BY DEF Leave
<1>9. mutex'.holder = mutex.holder /\ mutex' \in [holder : Process \union {Free}, valid : BOOLEAN]
  BY <1>8 DEF DestroyMutex, IInv, Types
<1> HIDE DEF f, k, dead
<1>10. /\ proc' \in [Process -> Record] /\ ProcessInv' /\ ForkInv'
       /\ \A q \in Process : proc'[q].active = f[q].active
  BY <1>5, <1>6, <1>7, <1>8, <1>9, EndingStep
<1>11. /\ client' \in [Client -> Customer]
       /\ ClientInv'
       /\ \A c \in Client, q \in Process \ (dead \union {p}) :
             client[c].place = "open" /\ client[c].by = q =>
                client'[c].place = "open" /\ client'[c].by = q
  BY <1>8, LosingKeeps DEF IInv
<1>12. ServedInv'
  <2> SUFFICES ASSUME NEW q \in Process, NEW d \in proc'[q].active
               PROVE  client'[d].place = "open" /\ client'[d].by = q
    BY DEF ServedInv
  <2>1. d \in proc[q].active /\ q \notin dead \union {p}
    BY <1>7, <1>10
  <2>2. d \in Client
    BY <2>1 DEF IInv, Types, Record
  <2> QED
    BY <1>11, <2>1, <2>2 DEF IInv, ServedInv
<1> QED
  BY <1>8, <1>9, <1>10, <1>11, <1>12 DEF IInv, Types

\* The new process has a loop without hooks, and listens on nothing.
LEMMA ReplaceStep ==
    ASSUME IInv, NEW p \in Process, NEW q \in Spare, Replace(p, q)
    PROVE  IInv'
<1>1. /\ Fine(p, proc[p], mutex.holder) /\ proc[p] \in Record /\ proc[p].at = "back"
      /\ Turn(p, proc[p], mutex.holder) /\ proc[p].active = {}
  BY DEF IInv, ProcessInv, Types, Replace, Fine, Gone
<1>2. q \in Process /\ q \notin Child /\ proc[q].at = "none" /\ p # q
  <2>1. q \in Nat
    BY ProcessNumAssumption, MaxSpareAssumption DEF Spare
  <2>2. (q < q) <=> (proc[q].at # "none")
    BY DEF Replace
  <2>3. q \in Process /\ q \notin Child
    BY ProcessNumAssumption, MaxSpareAssumption DEF Spare, Child, Process
  <2> QED
    BY <1>1, <2>1, <2>2, <2>3
<1> DEFINE back == [proc[p] EXCEPT !.at = "top", !.flags = proc[p].flags \ {"child_quit"}]
           r == [back EXCEPT !.pids = back.pids \union {q}]
           new == [back EXCEPT !.handles = TRUE, !.hooks = FALSE,
                               !.acceptor = NewAcceptor, !.parent = p]
<1>3. proc' = [proc EXCEPT ![p] = r, ![q] = new] /\ UNCHANGED <<mutex, client, faults>>
  BY DEF Replace, IInv, Types
<1>4. /\ back \in Record /\ back.at = "top" /\ back.active = {}
      /\ Turn(p, back, mutex.holder)
  BY <1>1 DEF Record, States, Turn
<1>5. NewAcceptor \in Acceptors /\ Consistent(NewAcceptor) /\ ~NewAcceptor.watched
  BY DEF NewAcceptor, Acceptors, Consistent
<1> HIDE DEF back
<1>6. Fine(p, r, mutex.holder) /\ r.at = "top" /\ r.active = {}
  BY <1>2, <1>4 DEF Fine, Turn, Record
<1>7. Fine(q, new, mutex.holder) /\ new.at = "top" /\ new.active = {}
  BY <1>4, <1>5 DEF Fine, Turn, Record
<1> HIDE DEF r, new
<1>8. /\ proc'[p] = r /\ proc'[q] = new
      /\ \A s \in Process \ {p, q} : proc'[s] = proc[s]
  BY <1>2, <1>3 DEF IInv, Types
<1>9. ASSUME NEW s \in Process
      PROVE  Fine(s, proc'[s], mutex'.holder)
  BY <1>3, <1>6, <1>7, <1>8 DEF IInv, ProcessInv
<1>10. proc' \in [Process -> Record]
  BY <1>3, <1>9 DEF Fine, IInv, Types
<1>11. ForkInv'
  <2>1. proc'[0].at = "new" => proc'[0] = proc[0]
    BY <1>6, <1>7, <1>8, Numbers
  <2>2. ASSUME NEW i \in Child, proc[i].at = "none"
        PROVE  proc'[i].at = "none"
    BY <1>1, <1>2, <1>8, <2>2, Numbers
  <2> QED
    BY <2>1, <2>2, ForkKept DEF IInv
<1>12. ServedInv'
  <2>1. \A s \in Process : proc'[s].active \subseteq proc[s].active
    BY <1>6, <1>7, <1>8
  <2> QED
    BY <1>3, <2>1, ServedKept DEF IInv
<1> QED
  BY <1>3, <1>9, <1>10, <1>11, <1>12 DEF IInv, Types, ProcessInv, ClientInv

\* Without room the process goes on, or goes on with a loop that has no hooks.
LEMMA NoRoomStep == ASSUME IInv, NEW p \in Process, NoRoom(p) PROVE IInv'
<1>1. /\ Fine(p, proc[p], mutex.holder) /\ proc[p] \in Record /\ proc[p].at = "back"
      /\ Turn(p, proc[p], mutex.holder) /\ proc[p].active = {}
  BY DEF IInv, ProcessInv, Types, NoRoom, Fine, Gone
<1> DEFINE back == [proc[p] EXCEPT !.at = "top", !.flags = proc[p].flags \ {"child_quit"}]
           bare == [back EXCEPT !.hooks = FALSE, !.acceptor = NewAcceptor]
<1>2. /\ back \in Record /\ back.at = "top" /\ back.active = {}
      /\ Turn(p, back, mutex.holder)
  BY <1>1 DEF Record, States, Turn
<1>3. NewAcceptor \in Acceptors /\ Consistent(NewAcceptor) /\ ~NewAcceptor.watched
  BY DEF NewAcceptor, Acceptors, Consistent
<1>4. UNCHANGED <<mutex, faults>>
  BY DEF NoRoom
<1>5. ASSUME NEW r \in {back, bare}, proc' = [proc EXCEPT ![p] = r]
      PROVE  proc' \in [Process -> Record] /\ ProcessInv' /\ ForkInv'
             /\ \A q \in Process : proc'[q].active \subseteq proc[q].active
  <2> HIDE DEF back
  <2>1. Fine(p, r, mutex.holder) /\ r.at = "top" /\ r.active = {}
    <3>1. CASE r = back
      BY <1>2, <3>1 DEF Fine, Gone
    <3>2. CASE r = bare
      BY <1>2, <1>3, <3>2 DEF Fine, Turn, Record
    <3> QED
      BY <3>1, <3>2
  <2> HIDE DEF bare
  <2>2. /\ proc' \in [Process -> Record] /\ ProcessInv' /\ ForkInv'
        /\ \A q \in Process \ {p} : proc'[q] = proc[q]
        /\ proc'[p] = r
    BY <1>1, <1>4, <1>5, <2>1, OwnStep
  <2> QED
    BY <2>1, <2>2
<1>6. CASE proc' = [proc EXCEPT ![p] = back] /\ UNCHANGED client
  <2>1. ServedInv'
    BY <1>5, <1>6, ServedKept DEF IInv
  <2> QED
    BY <1>4, <1>5, <1>6, <2>1 DEF IInv, Types, ClientInv
<1>7. CASE /\ proc' = [proc EXCEPT ![p] = bare]
           /\ client' = [c \in Client |->
                            IF client[c].place = "open" /\ client[c].by = p
                            THEN [client[c] EXCEPT !.conn.watched = FALSE] ELSE client[c]]
  <2>1. ASSUME NEW c \in Client
        PROVE  /\ Sound(client'[c]) /\ client'[c] \in Customer
               /\ client'[c].place = client[c].place /\ client'[c].by = client[c].by
    <3>1. Sound(client[c]) /\ client[c] \in Customer
      BY DEF IInv, ClientInv, Types
    <3> DEFINE conn == [client[c].conn EXCEPT !.watched = FALSE]
               cl == [client[c] EXCEPT !.conn = conn]
    <3>2. /\ conn \in Connections /\ conn.failed = client[c].conn.failed
          /\ conn.mapped = client[c].conn.mapped /\ conn.state = client[c].conn.state
      BY <3>1 DEF Customer, Connections
    <3>3. client'[c] = IF client[c].place = "open" /\ client[c].by = p THEN cl ELSE client[c]
      BY <1>7
    <3> HIDE DEF conn
    <3>4. client[c].place = "open" => Sound(cl)
      BY <3>1, <3>2 DEF Sound, Customer
    <3>5. cl.place = client[c].place /\ cl.by = client[c].by
      BY <3>1 DEF Customer
    <3> HIDE DEF cl
    <3> QED
      BY <3>1, <3>3, <3>4, <3>5 DEF Sound
  <2>2. client' \in [Client -> Customer]
    BY <1>7, <2>1
  <2>3. ServedInv'
    <3> SUFFICES ASSUME NEW q \in Process, NEW d \in proc'[q].active
                 PROVE  client'[d].place = "open" /\ client'[d].by = q
      BY DEF ServedInv
    <3>1. d \in proc[q].active
      BY <1>5, <1>7
    <3>2. d \in Client
      BY <3>1 DEF IInv, Types, Record
    <3> QED
      BY <2>1, <3>1, <3>2 DEF IInv, ServedInv
  <2> QED
    BY <1>4, <1>5, <1>7, <2>1, <2>2, <2>3 DEF IInv, Types, ClientInv
<1> QED
  BY <1>6, <1>7 DEF NoRoom, IInv, Types

\* A child is what its parent was.
LEMMA ForkStep == ASSUME IInv, NEW i \in Child, Fork(i) PROVE IInv'
<1>1. /\ i \in Process /\ 0 \in Process /\ i # 0
      /\ Fine(0, proc[0], mutex.holder) /\ proc[0] \in Record /\ proc[0].at = "new"
      /\ proc[0].active = {} /\ proc[0].pids \subseteq Child
  BY Numbers DEF IInv, ProcessInv, ForkInv, Types, Fork, Fine
<1>2. PICK m \in 0 .. N : /\ proc[0].pids = 1 .. m
                          /\ \A j \in m + 1 .. N : proc[j].at = "none"
  BY <1>1 DEF IInv, ForkInv
<1>3. i = m + 1
  <2>1. Cardinality(1 .. m) = m
    <3>1. 1 \in Int /\ m \in Int /\ m >= 0
      BY ProcessNumAssumption
    <3>2. Cardinality(1 .. m) = IF 1 > m THEN 0 ELSE m - 1 + 1
      BY <3>1, FS_Interval
    <3> QED
      BY <3>1, <3>2
  <2> QED
    BY <1>2, <2>1 DEF Fork
<1>4. proc[i].at = "none" /\ Fine(i, proc[i], mutex.holder)
  BY <1>1, <1>2, <1>3, ProcessNumAssumption DEF Child, IInv, ProcessInv
<1> DEFINE r == [proc[0] EXCEPT !.pids = proc[0].pids \union {i}]
           new == [proc[0] EXCEPT !.parent = 0]
<1>5. proc' = [proc EXCEPT ![0] = r, ![i] = new] /\ UNCHANGED <<mutex, client, faults>>
  BY <1>1 DEF Fork, IInv, Types
<1>6. /\ Fine(0, r, mutex.holder) /\ r.active = {}
      /\ r.pids = proc[0].pids \union {i}
  BY <1>1 DEF Fine, Turn, Record
<1>7. Fine(i, new, mutex.holder) /\ new.active = {}
  BY <1>1, <1>4 DEF Fine, Turn, Record, Gone, NewAcceptor, Consistent
<1> HIDE DEF r, new
<1>8. /\ proc'[0] = r /\ proc'[i] = new
      /\ \A s \in Process \ {0, i} : proc'[s] = proc[s]
  BY <1>1, <1>5 DEF IInv, Types
<1>9. ASSUME NEW s \in Process
      PROVE  Fine(s, proc'[s], mutex'.holder)
  BY <1>5, <1>6, <1>7, <1>8 DEF IInv, ProcessInv
<1>10. proc' \in [Process -> Record]
  BY <1>5, <1>9 DEF Fine, IInv, Types
<1>11. ForkInv'
  <2> DEFINE n == m + 1
  <2>1. /\ n \in 0 .. N
        /\ (1 .. m) \union {i} = 1 .. n
        /\ \A j \in n + 1 .. N : j \in m + 1 .. N /\ j # i /\ j # 0 /\ j \in Child
    BY <1>3, ProcessNumAssumption DEF Child
  <2> HIDE DEF n
  <2>2. /\ proc'[0].pids = 1 .. n /\ proc'[0].pids \subseteq Child
        /\ \A j \in n + 1 .. N : proc'[j].at = "none"
    <3>1. proc'[0].pids = 1 .. n /\ proc'[0].pids \subseteq Child
      BY <1>1, <1>2, <1>6, <1>8, <2>1
    <3>2. ASSUME NEW j \in n + 1 .. N
          PROVE  proc'[j].at = "none"
      <4>1. j \in m + 1 .. N /\ j \in Process \ {0, i}
        BY <2>1, Numbers
      <4> QED
        BY <1>2, <1>8, <4>1
    <3> QED
      BY <3>1, <3>2
  <2> QED
    BY <2>1, <2>2 DEF ForkInv
<1>12. ServedInv'
  <2>1. \A s \in Process : proc'[s].active \subseteq proc[s].active
    BY <1>6, <1>7, <1>8
  <2> QED
    BY <1>5, <2>1, ServedKept DEF IInv
<1> QED
  BY <1>5, <1>9, <1>10, <1>11, <1>12 DEF IInv, Types, ProcessInv, ClientInv

LEMMA ParentHandlesStep == ASSUME IInv, ParentHandles PROVE IInv'
<1> DEFINE r == [proc[0] EXCEPT !.handles = TRUE, !.waits = TRUE]
<1>1. /\ 0 \in Process /\ Fine(0, proc[0], mutex.holder) /\ proc[0] \in Record
      /\ proc[0].at = "new"
  BY Numbers DEF IInv, ProcessInv, Types, ParentHandles
<1>2. proc' = [proc EXCEPT ![0] = r] /\ UNCHANGED <<mutex, client, faults>>
  BY DEF ParentHandles, IInv, Types
<1>3. /\ Fine(0, r, mutex.holder) /\ r.active = proc[0].active /\ r.at = "new"
      /\ r.pids = proc[0].pids
  BY <1>1 DEF Fine, Turn, Record
<1> HIDE DEF r
<1>4. /\ proc' \in [Process -> Record] /\ ProcessInv' /\ ForkInv'
      /\ \A q \in Process \ {0} : proc'[q] = proc[q]
      /\ proc'[0] = r
  BY <1>1, <1>2, <1>3, OwnStep
<1>5. ServedInv'
  BY <1>2, <1>3, <1>4, ServedKept DEF IInv
<1> QED
  BY <1>2, <1>4, <1>5 DEF IInv, Types, ClientInv

\* A client that connects or speaks.
LEMMA ClientStep ==
    ASSUME IInv, NEW c \in Client, NEW cl, Sound(cl),
           client[c].place = "open" => cl.place = "open" /\ cl.by = client[c].by,
           client' = [client EXCEPT ![c] = cl],
           UNCHANGED <<proc, mutex, faults>>
    PROVE  IInv'
<1>1. client' \in [Client -> Customer] /\ ClientInv'
  BY DEF IInv, Types, ClientInv, Sound
<1>2. ServedInv'
  <2> SUFFICES ASSUME NEW q \in Process, NEW d \in proc[q].active
               PROVE  client'[d].place = "open" /\ client'[d].by = q
    BY DEF ServedInv
  <2>1. d \in Client
    BY DEF IInv, Types, Record
  <2> QED
    BY <2>1 DEF IInv, ServedInv, Types
<1> QED
  BY <1>1, <1>2 DEF IInv, Types, ProcessInv, ForkInv

LEMMA WorldStep ==
    ASSUME IInv, NEW c \in Client,
           Connect(c) \/ \E what \in {"request", "bye"} : Says(c, what)
    PROVE  IInv'
<1>1. Sound(client[c]) /\ client[c] \in Customer
  BY DEF IInv, Types, ClientInv
<1>2. CASE Connect(c)
  <2> DEFINE cl == [client[c] EXCEPT !.place = "backlog"]
  <2>1. client' = [client EXCEPT ![c] = cl] /\ client[c].place = "away"
    BY <1>2 DEF Connect, IInv, Types
  <2>2. Sound(cl)
    BY <1>1 DEF Sound, Customer
  <2> HIDE DEF cl
  <2> QED
    BY <1>2, <2>1, <2>2, ClientStep DEF Connect
<1>3. ASSUME NEW what \in {"request", "bye"}, Says(c, what)
      PROVE  IInv'
  <2> DEFINE cl == [client[c] EXCEPT !.says = what]
  <2>1. client' = [client EXCEPT ![c] = cl]
    BY <1>3 DEF Says, IInv, Types
  <2>2. Sound(cl) /\ cl.place = client[c].place /\ cl.by = client[c].by
    BY <1>1 DEF Sound, Customer
  <2> HIDE DEF cl
  <2> QED
    BY <1>3, <2>1, <2>2, ClientStep DEF Says
<1> QED
  BY <1>2, <1>3

LEMMA SignalStep ==
    ASSUME IInv, NEW p \in Process, NEW s \in {"terminate", "quit_softly"}, Signal(p, s)
    PROVE  IInv'
<1>1. faults' \in 0 .. MaxFaults /\ Alive(p)
  BY MaxFaultsAssumption DEF Signal, IInv, Types
<1>2. CASE proc[p].handles
  <2> DEFINE f == proc[p].flags \union {s}
             r == [proc[p] EXCEPT !.flags = f]
  <2>1. Fine(p, proc[p], mutex.holder) /\ proc[p] \in Record /\ proc[p].at # "none"
    BY <1>1 DEF IInv, ProcessInv, Types, Alive
  <2>2. proc' = [proc EXCEPT ![p] = r] /\ UNCHANGED <<mutex, client>>
    BY <1>2 DEF Signal, IInv, Types
  <2>3. f \in SUBSET Flags
    BY <2>1 DEF Record, Flags
  <2> HIDE DEF f
  <2>4. Fine(p, r, mutex.holder)
    BY <2>1, <2>3, FlagsFine
  <2>5. r.active = proc[p].active /\ r.at = proc[p].at /\ r.pids = proc[p].pids
    BY <2>1 DEF Record
  <2> HIDE DEF r
  <2>6. /\ proc' \in [Process -> Record] /\ ProcessInv' /\ ForkInv'
        /\ \A q \in Process \ {p} : proc'[q] = proc[q]
        /\ proc'[p] = r
    BY <2>1, <2>2, <2>4, <2>5, OwnStep
  <2>7. ServedInv'
    BY <2>2, <2>5, <2>6, ServedKept DEF IInv
  <2> QED
    BY <1>1, <2>2, <2>6, <2>7 DEF IInv, Types, ClientInv
<1>3. CASE ~proc[p].handles
  BY <1>1, <1>3, DiesStep DEF Signal
<1> QED
  BY <1>2, <1>3

LEMMA CrashStep == ASSUME IInv, NEW p \in Process, Crash(p) PROVE IInv'
<1>1. faults' \in 0 .. MaxFaults
  BY MaxFaultsAssumption DEF Crash, IInv, Types
<1> QED
  BY <1>1, DiesStep DEF Crash

-------------------------------------------------------------------------------
\* The invariant, and what follows from it.

LEMMA StepInv == ASSUME MarksDeleted, IInv, [Next]_vars PROVE IInv'
<1>1. CASE ParentHandles
  BY <1>1, ParentHandlesStep
<1>2. ASSUME NEW i \in Child, Fork(i) PROVE IInv'
  BY <1>2, ForkStep
<1>3. ASSUME NEW p \in Process, Step(p) PROVE IInv'
  <2>1. CASE Start(p) \/ NoStart(p) \/ Lock(p) \/ Poll(p) \/ Accept(p)
    BY <2>1, StartStep, NoStartStep, LockStep, PollStep, AcceptStep
  <2>2. CASE Leave(p) \/ NoRoom(p)
    BY <2>2, LeaveStep, NoRoomStep
  <2>3. ASSUME NEW q \in Spare, Replace(p, q) PROVE IInv'
    BY <2>3, ReplaceStep
  <2>4. ASSUME NEW c \in Client, HandleMessage(p, c) \/ HandleClose(p, c) PROVE IInv'
    BY <2>4, MessageStep, CloseStep
  <2> QED
    BY <1>3, <2>1, <2>2, <2>3, <2>4 DEF Step
<1>4. ASSUME NEW p \in Process, Crash(p) PROVE IInv'
  BY <1>4, CrashStep
<1>5. ASSUME NEW p \in Process, NEW s \in {"terminate", "quit_softly"}, Signal(p, s) PROVE IInv'
  BY <1>5, SignalStep
<1>6. ASSUME NEW c \in Client, Connect(c) \/ \E what \in {"request", "bye"} : Says(c, what)
      PROVE  IInv'
  BY <1>6, WorldStep
<1>7. CASE UNCHANGED vars
  BY <1>7 DEF vars, IInv, Types, ProcessInv, ForkInv, ServedInv, ClientInv
<1> QED
  BY <1>1, <1>2, <1>3, <1>4, <1>5, <1>6, <1>7 DEF Next

LEMMA OnlyTheHolder == IInv => OneListens
<1> SUFFICES ASSUME IInv, NEW p \in Process, NEW q \in Process, Alive(p), Alive(q),
                    proc[p].acceptor.watched, proc[q].acceptor.watched
             PROVE  p = q
  BY DEF OneListens
<1>1. Turn(p, proc[p], mutex.holder) /\ Turn(q, proc[q], mutex.holder)
  BY DEF IInv, ProcessInv, Fine, Alive, Gone
<1> QED
  BY <1>1 DEF Turn

LEMMA TheHolder == IInv => HolderListens
<1> SUFFICES ASSUME IInv PROVE HolderListens
  OBVIOUS
<1>1. TypeOK
  BY TypesAre DEF IInv
<1>2. ClosesCleanly
  BY DEF ClosesCleanly, IInv, ClientInv, Sound
<1>3. ASSUME NEW p \in Process, Alive(p), proc[p].hooks
      PROVE  /\ proc[p].isLock_ <=> mutex.holder = p
             /\ proc[p].isLock_ <=> proc[p].acceptor.watched
  <2>1. Turn(p, proc[p], mutex.holder)
    BY <1>3 DEF IInv, ProcessInv, Fine, Alive, Gone
  <2> QED
    BY <1>3, <2>1 DEF Turn
<1> QED
  BY <1>1, <1>2, <1>3 DEF HolderListens

\* IInv holds in every state.
THEOREM Invariance == ASSUME MarksDeleted PROVE Spec => []IInv
<1>1. IInv /\ [Next]_vars => IInv'
  BY StepInv
<1> QED
  BY <1>1, InitInv, PTL DEF Spec

\* The variables have their types, for any number of processes and clients.
THEOREM TypeCorrect == ASSUME MarksDeleted PROVE Spec => []TypeOK
<1>1. IInv => TypeOK
  BY TypesAre DEF IInv
<1> QED
  BY <1>1, Invariance, PTL

\* At most one process watches the listening socket (README.md:8), it is the one that
\* has the mutex, and no connection fails an assertion or is left behind when it is
\* closed: with any number of processes, whatever is signalled, dies or is replaced.
THEOREM Turns == ASSUME MarksDeleted PROVE Spec => []ListensInTurn
<1>1. IInv => ListensInTurn
  BY OnlyTheHolder, TheHolder DEF ListensInTurn
<1> QED
  BY <1>1, Invariance, PTL
===============================================================================
