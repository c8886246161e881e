-------------------------------- MODULE Sockets --------------------------------
(***************************************************************************)
(* The numbers of descriptors in one process, and who knows them: the      *)
(* Socket and the Channel of a connection, the map from numbers to         *)
(* Channels in each Epoll, the kernel and the list of a round.  The number *)
(* is free again when the last shared_ptr to the connection is released,   *)
(* in whatever thread that is, and the next accept takes it.               *)
(* In multiThread connections belong to io loops, and their end goes       *)
(* through the base loop; in multiProcess2 (Direct) there is one loop.     *)
(***************************************************************************)
EXTENDS Integers, Sequences, FiniteSets, SequencesExt, FiniteSetsExt

CONSTANTS Client,
          Busy,                  \* those that send, and whose TcpConnection a user may keep
          OpenMax,               \* the numbers left for sockets
          MaxThreads,            \* bounds the io loops
          kInitEventListSize

ASSUME SocketsAssumption ==
    OpenMax \in Nat \ {0} /\ MaxThreads \in Nat /\ kInitEventListSize \in Nat \ {0}

ASSUME ClientsAssumption == Client \cap {"listen", "free", "none"} = {} /\ Busy \subseteq Client

Loops == 0 .. MaxThreads     \* 0 is the base loop
Number == 0 .. OpenMax - 1
None == -1

Channel == Client \union {"listen"}

VARIABLES
    server,     \* how many io loops it has, and if it is the one of multiProcess2
    table,      \* whose file a number stands for
    loop,       \* of each loop: where it is, activeChannels_, pendingFunctors_, those that
                \* are called, the connections bound in those that were, events_.size()
    epoll,      \* of each loop: channels_, and what the kernel watches, in its order
    status,     \* statusInEpoll_
    tcp,        \* sockfd_ of a TcpConnection, and its loop
    mapped,     \* in connectionMap_
    kept,       \* a user of the library has a TcpConnectionPtr
    client,
    next_,
    broken      \* an assertion of Epoll has failed

socketVars == <<server, table, loop, epoll, status, tcp, mapped, kept, client, next_, broken>>

\* Without io loops connections stay in the base loop.
Servers == {s \in [numThreads_ : 0 .. MaxThreads, direct : BOOLEAN] :
               s.direct => s.numThreads_ = 0}

Direct == server.direct

Calls == {"connectionEstablished", "removeConnectionInLoop", "connectionDestroyed"}

SocketsTypeOK ==
    /\ server \in Servers
    /\ table \in [Number -> Channel \union {"free"}]
    /\ loop \in [Loops -> [at : {"polling", "handling", "calling"}, active : Seq(Channel),
                           functors : Seq(Calls \X Client), running : Seq(Calls \X Client),
                           spent : SUBSET Client, size : Nat]]
    /\ epoll \in [Loops -> [channels : [Number -> Channel \union {"none"}],
                            watched : Seq(Channel)]]
    /\ status \in [Channel -> {"kNew", "kAdded", "kDeleted"}]
    /\ tcp \in [Client -> [fd : Number \union {None}, in : Loops]]
    /\ mapped \in SUBSET Client /\ kept \in SUBSET Client
    /\ client \in [Client -> {"away", "backlog", "open", "talking", "reset", "hung up"}]
    /\ next_ \in Loops
    /\ broken \in BOOLEAN

Full == \A n \in Number : table[n] # "free"

\* A shared_ptr to the connection: in the map, with a user, bound in a functor.
Held(c) ==
    \/ c \in mapped
    \/ c \in kept
    \/ \E l \in Loops : \/ c \in loop[l].spent
                        \/ \E i \in DOMAIN loop[l].functors : loop[l].functors[i][2] = c
                        \/ \E i \in DOMAIN loop[l].running : loop[l].running[i][2] = c

\* ~TcpConnection and ~Socket, at the end of a step that let the last of them go.
Release(t) ==
    LET gone == {c \in Client : tcp[c].fd # None /\ ~Held(c)'}
    IN /\ table' = [n \in Number |-> IF \E c \in gone : tcp[c].fd = n THEN "free" ELSE t[n]]
       /\ tcp' = [c \in Client |-> IF c \in gone THEN [tcp[c] EXCEPT !.fd = None] ELSE tcp[c]]

-------------------------------------------------------------------------------
\* Epoll, as e = [channels, watched, status, failed] of one loop.

View(l) == [channels |-> epoll[l].channels, watched |-> epoll[l].watched,
            status |-> status, failed |-> broken]

SetView(l, e) ==
    /\ epoll' = [epoll EXCEPT ![l] = [channels |-> e.channels, watched |-> e.watched]]
    /\ status' = e.status
    /\ broken' = e.failed

\* Those of s that are in S, in their order.  (The sets with one element make TLC evaluate
\* them once.)
Filtered(s, S) ==
    LET first[i \in 0 .. Len(s)] ==
            IF i = 0 THEN <<>>
            ELSE IF s[i] \in S THEN Append(first[i - 1], s[i]) ELSE first[i - 1]
    IN  first[Len(s)]

Among(s, S) == CHOOSE t \in {Filtered(u, T) : u \in {s}, T \in {S}} : TRUE

Unwatched(s, ch) == Among(s, Channel \ {ch})

\* enableReading, and updateChannel: EPOLL_CTL_ADD, or MOD of what is there already.
EnableReading(e, ch, n) ==
    LET known == e.channels[n] = (IF e.status[ch] = "kNew" THEN "none" ELSE ch)
    IN [e EXCEPT !.channels[n] = ch,
                 !.watched = Append(Unwatched(@, ch), ch),
                 !.status[ch] = "kAdded",
                 !.failed = @ \/ ~known]

\* disableAll of a Channel that is added: EPOLL_CTL_DEL.
DisableAll(e, ch, n) ==
    [e EXCEPT !.watched = Unwatched(@, ch),
              !.status[ch] = "kDeleted",
              !.failed = @ \/ e.channels[n] # ch \/ e.status[ch] # "kAdded"]

\* Mutant: channels_ keeps its entry.
RemoveKeepsEntry(e, ch, n) ==
    [e EXCEPT !.watched = Unwatched(@, ch), !.status[ch] = "kNew"]

removeChannel(e, ch, n) ==
    [e EXCEPT !.channels[n] = "none", !.watched = Unwatched(@, ch), !.status[ch] = "kNew"]

-------------------------------------------------------------------------------
NoChannels == [n \in Number |-> "none"]

Idle == [at |-> "polling", active |-> <<>>, functors |-> <<>>, running |-> <<>>,
         spent |-> {}, size |-> kInitEventListSize]

\* The listening socket is open, and watched in multiThread.
SocketsInit ==
    /\ server \in Servers
    /\ table = [n \in Number |-> IF n = 0 THEN "listen" ELSE "free"]
    /\ loop = [l \in Loops |-> Idle]
    /\ epoll = [l \in Loops |->
          IF l = 0 /\ ~Direct
          THEN [channels |-> [NoChannels EXCEPT ![0] = "listen"], watched |-> <<"listen">>]
          ELSE [channels |-> NoChannels, watched |-> <<>>]]
    /\ status = [ch \in Channel |-> IF ch = "listen" /\ ~Direct THEN "kAdded" ELSE "kNew"]
    /\ tcp = [c \in Client |-> [fd |-> None, in |-> 0]]
    /\ mapped = {} /\ kept = {}
    /\ client = [c \in Client |-> "away"]
    /\ next_ = 0
    /\ broken = FALSE

Ready(ch) == IF ch = "listen" THEN \E c \in Client : client[c] = "backlog"
             ELSE client[ch] \in {"talking", "reset", "hung up"}

\* lockAcceptor at the begin of a round: listenInEpoll, if it is not held.  (ProcessServer2
\* is about the other processes.)
BeforeEachLoop(e) ==
    IF Direct /\ e.status["listen"] # "kAdded" THEN EnableReading(e, "listen", 0) ELSE e

\* In multiProcess2 the listening socket comes first in a round.
ListenFirst(active) ==
    IF Direct /\ "listen" \in ToSet(active) THEN <<"listen">> \o Unwatched(active, "listen")
    ELSE active

\* epoll_wait gives what fits into events_, and what it gave is the last in its list;
\* events_ grows when it was full.
Poll(l) ==
    /\ loop[l].at = "polling"
    /\ LET e   == BeforeEachLoop(View(l))
           got == LET ready == Among(e.watched, {ch \in Channel : Ready(ch)})
                  IN SubSeq(ready, 1, Min({Len(ready), loop[l].size}))
       IN /\ got # <<>> \/ loop[l].functors # <<>> \/ e # View(l)
          /\ loop' = [loop EXCEPT ![l].at = "handling",
                                  ![l].active = ListenFirst(got),
                                  ![l].size = IF Len(got) = @ THEN 2 * @ ELSE @]
          /\ SetView(l, [e EXCEPT !.watched =
                            Among(@, Channel \ ToSet(got)) \o got])
    /\ UNCHANGED <<server, table, tcp, mapped, kept, client, next_>>

-------------------------------------------------------------------------------
\* Callbacks.

Handled(l) == [loop EXCEPT ![l].active = Tail(@)]

Pushed(lp, l, call, c) == [lp EXCEPT ![l].functors = Append(@, <<call, c>>)]

\* The connection callback gives the connection to the user.
ConnectionCallback(c) == kept' = kept \/ (c \in Busy /\ kept' = kept \union {c})

\* unlockAcceptor after an accept: unlistenInEpoll.
AfterEachAccept(e) == IF Direct THEN DisableAll(e, "listen", 0) ELSE e

getNextLoop == IF server.numThreads_ = 0 THEN 0 ELSE (next_ % server.numThreads_) + 1

\* accept4 gives the lowest free number.  newConnection makes the TcpConnection in its loop;
\* connectionEstablished is called at once if that is this one.
Accept(c) ==
    /\ loop[0].at = "handling"
    /\ loop[0].active # <<>> /\ Head(loop[0].active) = "listen"
    /\ client[c] = "backlog" /\ ~Full
    /\ LET n  == Min({m \in Number : table[m] = "free"})
           io == getNextLoop
           e  == AfterEachAccept(View(0))
       IN /\ table' = [table EXCEPT ![n] = c]
          /\ tcp' = [tcp EXCEPT ![c] = [fd |-> n, in |-> io]]
          /\ next_' = io
          /\ IF io = 0
             THEN /\ SetView(0, AfterEachAccept(EnableReading(View(0), c, n)))
                  /\ loop' = Handled(0)
                  /\ ConnectionCallback(c)
             ELSE /\ SetView(0, e)
                  /\ loop' = Pushed(Handled(0), io, "connectionEstablished", c)
                  /\ UNCHANGED kept
    /\ mapped' = mapped \union {c}
    /\ client' = [client EXCEPT ![c] = "open"]
    /\ UNCHANGED server

\* accept4 has nothing (EAGAIN), or the table is full (EMFILE): -1, and the event comes again.
AcceptFails ==
    /\ loop[0].at = "handling"
    /\ loop[0].active # <<>> /\ Head(loop[0].active) = "listen"
    /\ Full \/ \A c \in Client : client[c] # "backlog"
    /\ SetView(0, AfterEachAccept(View(0)))
    /\ loop' = Handled(0)
    /\ UNCHANGED <<server, table, tcp, mapped, kept, client, next_>>

Handles(l, c) ==
    /\ loop[l].at = "handling"
    /\ loop[l].active # <<>> /\ Head(loop[l].active) = c

\* The message callback, or handleError; after that the end of the stream is still there.
HandleEvent(l, c) ==
    /\ Handles(l, c)
    /\ client[c] \in {"talking", "reset"}
    /\ client' = [client EXCEPT ![c] = IF @ = "talking" THEN "open" ELSE "hung up"]
    /\ loop' = Handled(l)
    /\ UNCHANGED <<server, table, epoll, status, tcp, mapped, kept, next_, broken>>

\* Mutant: the connection stays in connectionMap_.
EraseNothing(c) == mapped

Erased(c) == mapped \ {c}

\* handleClose, and the close callback removeConnection: in the base loop at once, which
\* queues connectionDestroyed in the loop of the connection; in multiProcess2 all at once.
HandleEnd(l, c) ==
    /\ Handles(l, c)
    /\ client[c] \in {"reset", "hung up"}
    /\ client' = [client EXCEPT ![c] = "hung up"]
    /\ LET n == tcp[c].fd
           e == DisableAll(View(l), c, n)
       IN IF Direct
          THEN /\ SetView(l, removeChannel(e, c, n))
               /\ mapped' = Erased(c)
               /\ loop' = Handled(l)
          ELSE /\ SetView(l, e)
               /\ mapped' = IF l = 0 THEN Erased(c) ELSE mapped
               /\ loop' = Pushed(Handled(l), 0, IF l = 0 THEN "connectionDestroyed"
                                                ELSE "removeConnectionInLoop", c)
    /\ kept' = kept
    /\ Release(table)
    /\ UNCHANGED <<server, next_>>

\* doPendingFunctors: the functors are swapped out, called, and destroyed together.
Swap(l) ==
    /\ loop[l].at = "handling"
    /\ loop[l].active = <<>>
    /\ loop' = [loop EXCEPT ![l].at = IF Direct THEN "polling" ELSE "calling",
                            ![l].running = loop[l].functors, ![l].functors = <<>>]
    /\ UNCHANGED <<server, table, epoll, status, tcp, mapped, kept, client, next_, broken>>

Call(l) ==
    /\ loop[l].at = "calling"
    /\ loop[l].running # <<>>
    /\ LET call == Head(loop[l].running)[1]
           c    == Head(loop[l].running)[2]
           lp   == [loop EXCEPT ![l].running = Tail(@), ![l].spent = @ \union {c}]
       IN \/ /\ call = "connectionEstablished"
             /\ SetView(l, EnableReading(View(l), c, tcp[c].fd))
             /\ ConnectionCallback(c)
             /\ loop' = lp
             /\ UNCHANGED mapped
          \/ /\ call = "removeConnectionInLoop"
             /\ mapped' = Erased(c)
             /\ loop' = Pushed(lp, tcp[c].in, "connectionDestroyed", c)
             /\ UNCHANGED <<epoll, status, kept, broken>>
          \/ /\ call = "connectionDestroyed"
             /\ SetView(l, removeChannel(View(l), c, tcp[c].fd))
             /\ loop' = lp
             /\ UNCHANGED <<mapped, kept>>
    /\ UNCHANGED <<server, table, tcp, client, next_>>

EndCalls(l) ==
    /\ loop[l].at = "calling"
    /\ loop[l].running = <<>>
    /\ loop' = [loop EXCEPT ![l].at = "polling", ![l].spent = {}]
    /\ mapped' = mapped /\ kept' = kept
    /\ Release(table)
    /\ UNCHANGED <<server, epoll, status, client, next_, broken>>

\* A user lets a connection go, in any thread.
Drop(c) ==
    /\ c \in kept
    /\ kept' = kept \ {c}
    /\ mapped' = mapped /\ loop' = loop
    /\ Release(table)
    /\ UNCHANGED <<server, epoll, status, client, next_, broken>>

-------------------------------------------------------------------------------
\* Clients: each connects once, sends when its last message was read, and ends.

Acts(c, from, to) ==
    /\ client[c] = from
    /\ client' = [client EXCEPT ![c] = to]
    /\ UNCHANGED <<server, table, loop, epoll, status, tcp, mapped, kept, next_, broken>>

\* What a loop does, if the server has that many.
Step(l) ==
    /\ l <= server.numThreads_
    /\ \/ Poll(l) \/ Swap(l) \/ Call(l) \/ EndCalls(l)
       \/ \E c \in Client : HandleEvent(l, c) \/ HandleEnd(l, c)
       \/ l = 0 /\ (AcceptFails \/ \E c \in Client : Accept(c))

SocketsNext ==
    \/ \E l \in Loops : Step(l)
    \/ \E c \in Client : \/ Drop(c)
                         \/ Acts(c, "away", "backlog") \/ (c \in Busy /\ Acts(c, "open", "talking"))
                         \/ \E end \in {"reset", "hung up"} : Acts(c, "open", end)

\* Every loop goes on.
SocketsSpec == SocketsInit /\ [][SocketsNext]_socketVars /\ \A l \in Loops : WF_socketVars(Step(l))

-------------------------------------------------------------------------------
\* Whoever releases a connection last, in whatever thread, and however soon its number comes
\* back: no assertion of Epoll about its map fails, a Socket has an open number which is
\* its own, and every number of a client has its Socket; the map of a loop, what the kernel
\* gives back as pointers and the list of a round have only Channels that exist.
NumbersAreCurrent ==
    /\ SocketsTypeOK
    /\ ~broken
    /\ \A c \in Client, n \in Number : tcp[c].fd = n <=> table[n] = c
    /\ \A l \in Loops :
          /\ \A n \in Number : epoll[l].channels[n] \in Client =>
                LET c == epoll[l].channels[n] IN tcp[c] = [fd |-> n, in |-> l]
          /\ \A c \in ToSet(epoll[l].watched) \union ToSet(loop[l].active) :
                c \in Client => epoll[l].channels[tcp[c].fd] = c

\* However few events a round can take and however much the others send, every client that
\* sends is read, one that ends is closed, unless a user keeps it, and its number is free
\* for those that wait in the backlog: a server that had no number left accepts again.
\* (Each ends and connects once: it is the same to say so of all, again and again.)
EveryoneHasATurn ==
    /\ \A c \in Busy : []<>(client[c] # "talking")
    /\ []<>(\A c \in Client : client[c] \in {"reset", "hung up"} => tcp[c].fd = None \/ c \in kept)
    /\ []<>~Full => []<>(\A c \in Client : client[c] # "backlog")
================================================================================
