--------------------------- MODULE ProcessConnection ---------------------------
(***************************************************************************)
(* A connection in the two variants with processes.  One thread does        *)
(* everything, so a call runs to its end: there is no queue of functors,    *)
(* and what multiThread spreads over two loops is one nested call here.     *)
(* The operators return the connection after the call, or the set of those  *)
(* it can be when the kernel has a choice.                                  *)
(***************************************************************************)
EXTENDS Integers, FiniteSets

\* Whether Epoll::updateChannel sets the status kDeleted when it removes a descriptor:
\* that of multiProcess2 does, that of multiProcess1 does not.
CONSTANT MarksDeleted

ASSUME MarksDeletedAssumption == MarksDeleted \in BOOLEAN

\* state_; the events of the Channel; its status in Epoll and whether the kernel
\* watches the descriptor; bytes of an answer that wait in outputBuffer_; whether the
\* reading side is shut; whether connectionMap_ has it; an assertion that failed.
Connections == [state   : {"kConnecting", "kConnected", "kDisconnecting", "kDisconnected"},
                events  : SUBSET {"read", "write"},
                status  : {"kNew", "kAdded", "kDeleted"},
                watched : BOOLEAN,
                out     : BOOLEAN,
                readShut : BOOLEAN,
                mapped  : BOOLEAN,
                failed  : BOOLEAN]

\* TcpConnection and its Channel, and its place in connectionMap_.
NewConnection == [state |-> "kConnecting", events |-> {}, status |-> "kNew", watched |-> FALSE,
                  out |-> FALSE, readShut |-> FALSE, mapped |-> TRUE, failed |-> FALSE]

Asserted(r, P) == [r EXCEPT !.failed = @ \/ ~P]

\* Mutant of updateChannel: the status kDeleted is forgotten in multiProcess2 too.
UpdateForgetsDeleted(r) ==
    IF r.status # "kAdded" THEN [r EXCEPT !.status = "kAdded", !.watched = TRUE]
    ELSE [r EXCEPT !.watched = @ /\ r.events # {}]

\* Epoll::updateChannel, of a record with events, status and watched.  The kernel
\* refuses to modify what it does not watch.
updateChannel(r) ==
    IF r.status # "kAdded" THEN [r EXCEPT !.status = "kAdded", !.watched = TRUE]
    ELSE [r EXCEPT !.watched = @ /\ r.events # {},
                   !.status = IF r.events = {} /\ MarksDeleted THEN "kDeleted" ELSE @]

removeChannel(r) == [r EXCEPT !.status = "kNew", !.watched = @ /\ r.status # "kAdded"]

enableReading(r) == updateChannel([r EXCEPT !.events = @ \union {"read"}])

disableAll(r) == updateChannel([r EXCEPT !.events = {}])

\* Channel::remove.
remove(r) == removeChannel(Asserted(r, r.events = {}))

connectionEstablished(r) ==
    enableReading([Asserted(r, r.state = "kConnecting") EXCEPT !.state = "kConnected"])

shutdownInSocket(r) == IF "write" \in r.events THEN r ELSE [r EXCEPT !.readShut = TRUE]

shutdown(r) ==
    IF r.state = "kConnected" THEN shutdownInSocket([r EXCEPT !.state = "kDisconnecting"])
                              ELSE r

\* send: what write(2) does not take is kept, and reading is enabled (not writing).
\* With output pending the message is dropped.
send(r) ==
    IF r.state = "kConnected" /\ "write" \notin r.events /\ ~r.out
    THEN {r, enableReading([r EXCEPT !.out = TRUE])}
    ELSE {r}

\* The message callback of HttpServer: nothing yet, an answer, and perhaps the end.
onMessage(r) == {r} \union send(r) \union {shutdown(s) : s \in send(r)}

connectionDestroyed(r) ==
    remove(IF r.state = "kConnected"
           THEN disableAll([r EXCEPT !.state = "kDisconnected"]) ELSE r)

\* TcpServer::removeConnection.
removeConnection(r) == connectionDestroyed([Asserted(r, r.mapped) EXCEPT !.mapped = FALSE])

\* Mutant: the events stay enabled.
HandleCloseKeepsEvents(r) ==
    removeConnection([Asserted(r, r.state \in {"kConnected", "kDisconnecting"})
                        EXCEPT !.state = "kDisconnected"])

handleClose(r) ==
    LET closed == [Asserted(r, r.state \in {"kConnected", "kDisconnecting"})
                     EXCEPT !.state = "kDisconnected"]
    IN removeConnection(disableAll(closed))

\* ~Channel and ~TcpConnection, when the last shared_ptr is gone.
Destroyed(r) == Asserted(r, r.state = "kDisconnected")
=================================================================================
