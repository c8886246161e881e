------------------------------ MODULE Descriptors ------------------------------
(***************************************************************************)
(* Who has which file open in multiProcess1.  A descriptor is an index in  *)
(* the table of one process; the kernel gives the lowest free one, so one  *)
(* that is closed comes back soon.  A child inherits the table at its fork. *)
(* A connection is accepted by the parent, goes from Socket to Socket to    *)
(* sendFd, and from there by sendmsg to a child, where its number is        *)
(* another; the parent closes its own.                                      *)
(***************************************************************************)
EXTENDS Integers, Sequences, FiniteSets, SequencesExt, FiniteSetsExt

CONSTANTS Visitor,
          MaxProcesses,    \* bounds processNum_
          Spare            \* what a table has room for, but for standard input, output and
                           \* error, and one descriptor for each child

ASSUME MaxProcessesAssumption == MaxProcesses \in Nat \ {0}

\* Enough for what the parent opens.
ASSUME SpareAssumption == Spare \in Nat /\ Spare >= 4

SubProcess == 1 .. MaxProcesses
Process == {0} \union SubProcess     \* 0 is the parent

\* Free, and the files: of a process, of its socket pair, of a client.
NoFile == <<"none", 0>>
Listening == <<"listen", 0>>
EpollOf(p) == <<"epoll", p>>
TimerOf(p) == <<"timer", p>>
ParentEnd(i) == <<"parentEnd", i>>
ChildEnd(i) == <<"childEnd", i>>
OfClient(c) == <<"client", c>>

File == {NoFile, Listening}
        \union {EpollOf(p) : p \in Process} \union {TimerOf(p) : p \in Process}
        \union {ParentEnd(i) : i \in SubProcess} \union {ChildEnd(i) : i \in SubProcess}
        \union {OfClient(c) : c \in Visitor}

Number == 0 .. MaxProcesses + Spare - 1
None == -1                      \* Socket::setNoneFd

VARIABLES
    processNum_,   \* it stays as it is
    at,        \* what each process does
    table,     \* of each process
    forked,    \* children that there are
    sockets,   \* sockfd_ of the Socket objects of the parent that lead to sendFd, the
               \* last one in the innermost call
    serving,   \* sockfd_ of the connections of each child
    flight,    \* the files that are on their way to each child
    visitor,
    turn,
    stray      \* a close() met a file that was not meant

descriptorVars == <<processNum_, at, table, forked, sockets, serving, flight, visitor, turn, stray>>

OpenMax == processNum_ + Spare

DescriptorsTypeOK ==
    /\ processNum_ \in SubProcess
    /\ at \in [Process -> {"none", "forking", "new", "looping", "accepting", "returning",
                           "ending", "undefined", "gone"}]
    /\ table \in [Process -> [Number -> File]]
    /\ forked \in 0 .. processNum_
    /\ sockets \in Seq(Number \union {None})
    /\ serving \in [SubProcess -> [Visitor -> Number \union {None}]]
    /\ flight \in [SubProcess -> Seq(Visitor)]
    /\ visitor \in [Visitor -> {"away", "backlog", "open", "hungUp"}]
    /\ turn \in 0 .. processNum_ - 1
    /\ stray \in BOOLEAN

-------------------------------------------------------------------------------
\* The table of a process.

Free(t) == {n \in Number : n < OpenMax /\ t[n] = NoFile}

Lowest(t) == Min(Free(t))

Full(t) == Free(t) = {}

Opened(t, file) == [t EXCEPT ![Lowest(t)] = file]

Closed(t, n) == [t EXCEPT ![n] = NoFile]

Without(t, files) == [n \in Number |-> IF t[n] \in files THEN NoFile ELSE t[n]]

\* A loop has an Epoll and then a TimerQueue.
WithLoop(t, p) == Opened(Opened(t, EpollOf(p)), TimerOf(p))

EmptyTable == [n \in Number |-> NoFile]

\* Somebody has the file, or it is in flight.
Open(file) ==
    \/ \E p \in DOMAIN table : file \in Range(table[p])
    \/ \E i \in DOMAIN flight, c \in Visitor : file = OfClient(c) /\ Contains(flight[i], c)

DescriptorsInit ==
    /\ processNum_ \in SubProcess
    /\ at = [p \in Process |-> IF p = 0 THEN "forking" ELSE "none"]
    /\ table = [p \in Process |->
                  IF p = 0 THEN Opened(WithLoop(EmptyTable, 0), Listening) ELSE EmptyTable]
    /\ forked = 0
    /\ sockets = <<>>
    /\ serving = [i \in SubProcess |-> [c \in Visitor |-> None]]
    /\ flight = [i \in SubProcess |-> <<>>]
    /\ visitor = [c \in Visitor |-> "away"]
    /\ turn = 0
    /\ stray = FALSE

-------------------------------------------------------------------------------
\* The children are created, one after the other.

\* socketpair and fork: the child has what the parent has at this moment, the parent's
\* ends of the earlier pairs too.  setParentSocket closes the end of the child.
CreateChildProcess(i) ==
    /\ at[0] = "forking"
    /\ forked < processNum_ /\ i = forked + 1
    /\ LET t == Opened(Opened(table[0], ParentEnd(i)), ChildEnd(i))
       IN table' = [table EXCEPT ![0] = Without(t, {ChildEnd(i)}), ![i] = t]
    /\ forked' = i
    /\ at' = [at EXCEPT ![i] = "new", ![0] = IF i = processNum_ THEN "looping" ELSE @]
    /\ UNCHANGED <<processNum_, sockets, serving, flight, visitor, turn, stray>>

\* clearInSubProcess: the listening socket and the loop.
clearInSubProcess(t) == Without(t, {Listening, TimerOf(0), EpollOf(0)})

\* The Process gets a loop of its own, and setChildSocket closes the end of the parent.
SubStarts(i) ==
    /\ at[i] = "new"
    /\ table' = [table EXCEPT
                   ![i] = Without(WithLoop(clearInSubProcess(@), i), {ParentEnd(i)})]
    /\ at' = [at EXCEPT ![i] = "looping"]
    /\ UNCHANGED <<processNum_, forked, sockets, serving, flight, visitor, turn, stray>>

-------------------------------------------------------------------------------
\* The parent accepts: the number goes from one Socket to the next, down to sendFd.

\* The calls with a Socket of their own: handleRead, newConnectionInParent, sendToChild,
\* sendFdToChild, sendFd.
Depth == 5

Poll ==
    /\ at[0] = "looping"
    /\ \E c \in Visitor : visitor[c] = "backlog"
    /\ at' = [at EXCEPT ![0] = "accepting"]
    /\ UNCHANGED <<processNum_, table, forked, sockets, serving, flight, visitor, turn, stray>>

\* accept4 and Socket's constructor.
AcceptSocket(c) ==
    /\ at[0] = "accepting"
    /\ sockets = <<>>
    /\ visitor[c] = "backlog"
    /\ ~Full(table[0])
    /\ visitor' = [visitor EXCEPT ![c] = "open"]
    /\ table' = [table EXCEPT ![0] = Opened(@, OfClient(c))]
    /\ sockets' = <<Lowest(table[0])>>
    /\ UNCHANGED <<processNum_, at, forked, serving, flight, turn, stray>>

\* handleRead returns when accept has no more, or no number is free.
AcceptFails ==
    /\ at[0] = "accepting"
    /\ sockets = <<>>
    /\ Full(table[0]) \/ \A c \in Visitor : visitor[c] # "backlog"
    /\ at' = [at EXCEPT ![0] = "looping"]
    /\ UNCHANGED <<processNum_, table, forked, sockets, serving, flight, visitor, turn, stray>>

\* Mutant: the moved Socket keeps its number.
MoveKeepsNumber(s) == Append(s, Last(s))

\* Socket's move constructor.
Moved(s) == Append(Front(s) \o <<None>>, Last(s))

\* The next call down.
Move ==
    /\ sockets # <<>>
    /\ at[0] = "accepting"
    /\ Len(sockets) < Depth
    /\ sockets' = Moved(sockets)
    /\ UNCHANGED <<processNum_, at, table, forked, serving, flight, visitor, turn, stray>>

\* sendmsg in sendFd.  If nobody has the other end, the parent exits.
SendFd ==
    /\ at[0] = "accepting"
    /\ Len(sockets) = Depth
    /\ LET i == turn + 1
       IN IF Open(ChildEnd(i))
          THEN /\ flight' = [flight EXCEPT ![i] = Append(@, table[0][Last(sockets)][2])]
               /\ turn' = (turn + 1) % processNum_
               /\ at' = [at EXCEPT ![0] = "returning"]
               /\ UNCHANGED <<table, sockets>>
          ELSE /\ at' = [at EXCEPT ![0] = "gone"]
               /\ table' = [table EXCEPT ![0] = EmptyTable]
               /\ sockets' = <<>>
               /\ UNCHANGED <<flight, turn>>
    /\ UNCHANGED <<processNum_, forked, serving, visitor, stray>>

\* A call returns: its Socket is destroyed, and closes its number if it is valid.
Destroy ==
    /\ at[0] = "returning"
    /\ sockets # <<>>
    /\ LET n == Last(sockets)
       IN IF n = None THEN UNCHANGED <<table, stray>>
          ELSE /\ table' = [table EXCEPT ![0] = Closed(@, n)]
               /\ stray' = (stray \/ table[0][n][1] # "client")
    /\ sockets' = Front(sockets)
    /\ at' = [at EXCEPT ![0] = IF Len(sockets) = 1 THEN "accepting" ELSE @]
    /\ UNCHANGED <<processNum_, forked, serving, flight, visitor, turn>>

-------------------------------------------------------------------------------
\* A child.

\* It runs, perhaps the last round after a signal.
Runs(i) == at[i] \in {"looping", "ending"}

\* The number, from Socket to Socket, goes into a TcpConnection.
Take(i) ==
    /\ LET c == Head(flight[i])
       IN /\ table' = [table EXCEPT ![i] = Opened(@, OfClient(c))]
          /\ serving' = [serving EXCEPT ![i][c] = Lowest(table[i])]
    /\ flight' = [flight EXCEPT ![i] = Tail(@)]
    /\ UNCHANGED <<processNum_, at, forked, sockets, visitor, turn, stray>>

\* Mutant: the last one is left in the pair.
ReceiveLeavesLast(i) ==
    /\ Runs(i) /\ Len(flight[i]) > 1 /\ ~Full(table[i])
    /\ Take(i)

\* receiveFd, and what follows.
Receive(i) ==
    /\ Runs(i) /\ flight[i] # <<>> /\ ~Full(table[i])
    /\ Take(i)

\* receiveFd when the table is full: the kernel drops the descriptor, and what the memory
\* of malloc held is taken for one.  A negative number or 0 is passed over.
ReceiveGarbage(i) ==
    /\ Runs(i)
    /\ flight[i] # <<>>
    /\ Full(table[i])
    /\ flight' = [flight EXCEPT ![i] = Tail(@)]
    /\ UNCHANGED at \/ at' = [at EXCEPT ![i] = "undefined"]
    /\ UNCHANGED <<processNum_, table, forked, sockets, serving, visitor, turn, stray>>

\* The same at the end of the stream, when all who had the other end have gone.
ReceiveEnd(i) ==
    /\ at[i] = "looping"
    /\ flight[i] = <<>>
    /\ ~Open(ParentEnd(i))
    /\ at' = [at EXCEPT ![i] = "undefined"]
    /\ UNCHANGED <<processNum_, table, forked, sockets, serving, flight, visitor, turn, stray>>

\* The end of the connection, and of its TcpConnection with the Socket.
Close(i, c) ==
    /\ Runs(i)
    /\ serving[i][c] # None
    /\ visitor[c] = "hungUp"
    /\ table' = [table EXCEPT ![i] = Closed(@, serving[i][c])]
    /\ stray' = (stray \/ table[i][serving[i][c]] # OfClient(c))
    /\ serving' = [serving EXCEPT ![i][c] = None]
    /\ UNCHANGED <<processNum_, at, forked, sockets, flight, visitor, turn>>

\* The child ends; nobody can take what is in flight.
End(i) ==
    /\ at' = [at EXCEPT ![i] = "gone"]
    /\ table' = [table EXCEPT ![i] = EmptyTable]
    /\ serving' = [serving EXCEPT ![i] = [c \in Visitor |-> None]]
    /\ flight' = [flight EXCEPT ![i] = <<>>]
    /\ UNCHANGED <<processNum_, forked, sockets, visitor, turn, stray>>

\* Process::start returns after a signal.
Leave(i) == at[i] = "ending" /\ End(i)

\* It dies; at most one child does.
SubCrash(i) ==
    /\ at[i] \in {"new", "looping"}
    /\ \A j \in SubProcess : at[j] # "gone"
    /\ End(i)

\* A signal, or the death of a child: killAll, and the parent ends.  Its ~SocketPair closes
\* nothing.
ParentExits ==
    /\ at[0] = "looping"
    /\ at' = [p \in Process |-> IF p = 0 THEN "gone"
                               ELSE IF at[p] \in {"new", "looping"} THEN "ending" ELSE at[p]]
    /\ table' = [table EXCEPT ![0] = EmptyTable]
    /\ UNCHANGED <<processNum_, forked, sockets, serving, flight, visitor, turn, stray>>

-------------------------------------------------------------------------------
\* Clients.

Arrive(c) ==
    /\ visitor[c] = "away"
    /\ at[0] \notin {"gone", "forking"}
    /\ visitor' = [visitor EXCEPT ![c] = "backlog"]
    /\ UNCHANGED <<processNum_, at, table, forked, sockets, serving, flight, turn, stray>>

HangUp(c) ==
    /\ visitor[c] = "open"
    /\ visitor' = [visitor EXCEPT ![c] = "hungUp"]
    /\ UNCHANGED <<processNum_, at, table, forked, sockets, serving, flight, turn, stray>>

\* What the code does by itself.
Step == \/ Poll \/ AcceptFails \/ Move \/ SendFd \/ Destroy
        \/ \E c \in Visitor : AcceptSocket(c)
        \/ \E i \in SubProcess : CreateChildProcess(i) \/ SubStarts(i)

SubStep(i) == \/ Receive(i) \/ ReceiveGarbage(i) \/ Leave(i)
                \/ \E c \in Visitor : Close(i, c)

DescriptorsNext == \/ Step \/ ParentExits
        \/ \E i \in SubProcess : SubStep(i) \/ ReceiveEnd(i) \/ SubCrash(i)
        \/ \E c \in Visitor : Arrive(c) \/ HangUp(c)

\* The processes go on.
DescriptorsFairness ==
    WF_descriptorVars(Step) /\ \A i \in SubProcess : WF_descriptorVars(SubStep(i))

DescriptorsSpec == DescriptorsInit /\ [][DescriptorsNext]_descriptorVars /\ DescriptorsFairness

-------------------------------------------------------------------------------
Sane == \A i \in DOMAIN at : at[i] # "undefined"

\* Each open number of a client in a table belongs to one Socket, which has no other:
\* the parent's until it has sent it, then the connection's of the child.
OneSocket ==
    /\ \A n \in Number :
          table[0][n][1] = "client" <=> \E k \in 1 .. Len(sockets) : sockets[k] = n
    /\ \A j, k \in 1 .. Len(sockets) : sockets[j] = sockets[k] /\ sockets[j] # None => j = k
    /\ \A i \in SubProcess, n \in Number, c \in Visitor :
          table[i][n] = OfClient(c) <=> serving[i][c] = n
    /\ \A c \in Visitor : \A i, j \in SubProcess :
          serving[i][c] # None /\ serving[j][c] # None => i = j

\* A number is closed once, by the Socket that has it last, and never when it stands for
\* another file already (the comments in the destructors of Socket), whatever the parent,
\* the children and clients do meanwhile.  At rest the parent has only what it
\* started with and its ends of the pairs, so that it never runs out of descriptors; a
\* connection is open in one child only, and the end of a child's pair in that child.
DescriptorsAreOwned ==
    /\ DescriptorsTypeOK
    /\ Sane => ~stray /\ OneSocket
    /\ at[0] \in {"looping", "accepting"} /\ sockets = <<>> =>
          {table[0][n] : n \in Number} \ {NoFile} =
             {Listening, EpollOf(0), TimerOf(0)} \union {ParentEnd(i) : i \in 1 .. processNum_}
    /\ \A p \in Process, i \in SubProcess, n \in Number :
          table[p][n] = ChildEnd(i) => p = i

\* A connection whose client hangs up is closed in the end in every process, wherever it was
\* at that time: no copy of its descriptor is left in the parent, in a pair of sockets or in
\* a sibling, as long as the behaviour is defined.  (They hang up for good: it is the same to
\* say that again and again all who did are closed.)
HungUpIsClosed ==
    []<>(\A c \in Visitor : visitor[c] = "hungUp" => ~Open(OfClient(c)) \/ ~Sane)
=================================================================================
