---------------------------- MODULE HttpConnection ----------------------------
(***************************************************************************)
(* The bytes of one connection of the HTTP server, between the client's    *)
(* first request and the end: the socket, the input buffer, the parser,    *)
(* the answers, the output buffer and the socket again.  TcpServer follows *)
(* the same connection through its life, without its bytes; Buffer shows   *)
(* that the two buffers are the queues that they are here.                 *)
(***************************************************************************)
EXTENDS Http

CONSTANTS Scripts    \* sequences of requests a client may send, as cells

ASSUME ScriptsAssumption == Scripts \subseteq Seq(Seq(Texts \union {CRLF}))

VARIABLES
    toAsk,           \* the requests the client has still to send
    patient,         \* it sends one only when it has the answer to the last
    peerClosed,      \* it has closed
    net,             \* cells that wait in the socket
    inputBuffer_,
    context_,        \* the HttpContext
    parsed,          \* requests parsed so far
    conn,            \* the connection, see below
    failed           \* "none", or the assertion that failed

vars == <<toAsk, patient, peerClosed, net, inputBuffer_, context_, parsed, conn, failed>>

\* state_, the events of the channel, outputBuffer_, what was written to the socket,
\* whether its reading side is shut, and the answers that send() took.
Connected == [state_ |-> "kConnected", events |-> {"read"}, outputBuffer_ |-> << >>,
              wrote |-> << >>, readShut |-> FALSE, answers |-> << >>]

Cells == [request : Nat, part : {"head", "body"}]

TypeOK ==
    /\ patient \in BOOLEAN
    /\ peerClosed \in BOOLEAN
    /\ toAsk \in Seq(Seq(Texts \union {CRLF}))
    /\ net \in Seq(Texts \union {CRLF})
    /\ inputBuffer_ \in Seq(Texts \union {CRLF})
    /\ context_ \in Contexts
    /\ parsed \in Nat
    /\ conn \in [state_ : {"kConnected", "kDisconnecting", "kDisconnected"},
                 events : SUBSET {"read", "write"}, outputBuffer_ : Seq(Cells),
                 wrote : Seq(Cells), readShut : BOOLEAN, answers : Seq(Nat)]
    /\ failed \in {"none", "setMethod", "spin"}

\* onConnection gives the connection a new context.
Init ==
    /\ toAsk \in Scripts
    /\ patient \in BOOLEAN
    /\ peerClosed = FALSE
    /\ net = << >>
    /\ inputBuffer_ = << >>
    /\ context_ = NewContext
    /\ parsed = 0
    /\ conn = Connected
    /\ failed = "none"

-------------------------------------------------------------------------------
\* What write(2) can return: it takes any part, or none for an error.
Written(msg) == 0 .. Len(msg)

\* Mutant: it writes although older output is pending.
SendOvertakes(c, n) ==
    LET msg == appendToBuffer(n)
    IN {[c EXCEPT !.answers = Append(@, n),
                  !.wrote = @ \o SubSeq(msg, 1, k),
                  !.outputBuffer_ = @ \o SubSeq(msg, k + 1, Len(msg)),
                  !.events = IF k < Len(msg) THEN @ \union {"write"} ELSE @]
          : k \in Written(msg)}

\* sendInLoop: write if nothing is pending, keep the rest.  If something is pending
\* the message is dropped.
sendInLoop(c, n) ==
    LET msg == appendToBuffer(n)
    IN IF "write" \notin c.events /\ c.outputBuffer_ = << >>
       THEN {[c EXCEPT !.answers = Append(@, n),
                       !.wrote = @ \o SubSeq(msg, 1, k),
                       !.outputBuffer_ = SubSeq(msg, k + 1, Len(msg)),
                       !.events = IF k < Len(msg) THEN @ \union {"write"} ELSE @]
               : k \in Written(msg)}
       ELSE {c}

send(c, n) == IF c.state_ = "kConnected" THEN sendInLoop(c, n) ELSE {c}

\* Socket::shutdownWrite shuts the reading side.
shutdownInLoop(c) == IF "write" \in c.events THEN c ELSE [c EXCEPT !.readShut = TRUE]

shutdown(c) ==
    IF c.state_ = "kConnected" THEN shutdownInLoop([c EXCEPT !.state_ = "kDisconnecting"])
                               ELSE c

onRequest(c, n, request) ==
    IF wantsClose(request) THEN {shutdown(d) : d \in send(c, n)} ELSE send(c, n)

\* The answer to what the parser made of the input.
onMessage(p) ==
    /\ inputBuffer_' = p.buf
    /\ context_' = IF gotAll(p.context) /\ ~p.aborted THEN reset(p.context) ELSE p.context
    /\ parsed' = IF gotAll(p.context) /\ ~p.aborted THEN parsed + 1 ELSE parsed
    /\ failed' = IF p.aborted THEN "setMethod" ELSE IF p.more THEN "spin" ELSE "none"
    /\ conn' \in IF p.aborted \/ p.more THEN {conn}
                 ELSE IF ~p.ok THEN {shutdown(d) : d \in send(conn, 0)}
                 ELSE IF gotAll(p.context) THEN onRequest(conn, parsed + 1, p.context.request_)
                 ELSE {conn}

-------------------------------------------------------------------------------
\* The server has given the client the whole of its answers so far.
Answered == conn.outputBuffer_ = << >> /\ net = << >> /\ inputBuffer_ = << >>

ClientAsks ==
    /\ toAsk # << >>
    /\ ~peerClosed
    /\ patient => Answered
    /\ net' = net \o Head(toAsk)
    /\ toAsk' = Tail(toAsk)
    /\ UNCHANGED <<patient, peerClosed, inputBuffer_, context_, parsed, conn, failed>>

ClientCloses ==
    /\ ~peerClosed
    /\ peerClosed' = TRUE
    /\ UNCHANGED <<toAsk, patient, net, inputBuffer_, context_, parsed, conn, failed>>

\* handleRead with k > 0 cells.  They may wait although the reading side is shut.
HandleRead(k) ==
    /\ failed = "none"
    /\ "read" \in conn.events
    /\ k \in 1 .. Len(net)
    /\ net' = SubSeq(net, k + 1, Len(net))
    /\ onMessage(parseRequest(context_, inputBuffer_ \o SubSeq(net, 1, k)))
    /\ UNCHANGED <<toAsk, patient, peerClosed>>

\* handleRead with 0: handleClose.  The rest is the business of TcpServer.
HandleClose ==
    /\ failed = "none"
    /\ "read" \in conn.events
    /\ net = << >>
    /\ peerClosed \/ conn.readShut
    /\ conn' = [conn EXCEPT !.state_ = "kDisconnected", !.events = {}]
    /\ UNCHANGED <<toAsk, patient, peerClosed, net, inputBuffer_, context_, parsed, failed>>

\* Mutants of HandleWrite: the write event stays enabled; the shutdown that was put off is
\* forgotten.
HandleWriteKeepsEvent(k) ==
    /\ failed = "none"
    /\ "write" \in conn.events
    /\ k \in 1 .. Len(conn.outputBuffer_)
    /\ conn' = [conn EXCEPT !.wrote = @ \o SubSeq(conn.outputBuffer_, 1, k),
                            !.outputBuffer_ = SubSeq(@, k + 1, Len(@))]
    /\ UNCHANGED <<toAsk, patient, peerClosed, net, inputBuffer_, context_, parsed, failed>>

HandleWriteForgetsShutdown(k) ==
    /\ failed = "none"
    /\ "write" \in conn.events
    /\ k \in 1 .. Len(conn.outputBuffer_)
    /\ conn' = [conn EXCEPT !.wrote = @ \o SubSeq(conn.outputBuffer_, 1, k),
                            !.outputBuffer_ = SubSeq(@, k + 1, Len(@)),
                            !.events = IF k = Len(conn.outputBuffer_) THEN @ \ {"write"} ELSE @]
    /\ UNCHANGED <<toAsk, patient, peerClosed, net, inputBuffer_, context_, parsed, failed>>

\* handleWrite, when write(2) takes k cells.  The socket is writable: it takes some.
HandleWrite(k) ==
    /\ failed = "none"
    /\ "write" \in conn.events
    /\ k \in 1 .. Len(conn.outputBuffer_)
    /\ LET c == [conn EXCEPT !.wrote = @ \o SubSeq(conn.outputBuffer_, 1, k),
                             !.outputBuffer_ = SubSeq(@, k + 1, Len(@))]
           d == [c EXCEPT !.events = @ \ {"write"}]
       IN conn' = IF c.outputBuffer_ # << >> THEN c
                  ELSE IF d.state_ = "kDisconnecting" THEN shutdownInLoop(d) ELSE d
    /\ UNCHANGED <<toAsk, patient, peerClosed, net, inputBuffer_, context_, parsed, failed>>

Next ==
    \/ ClientAsks
    \/ ClientCloses
    \/ \E k \in 1 .. Len(net) : HandleRead(k)
    \/ HandleClose
    \/ \E k \in 1 .. Len(conn.outputBuffer_) : HandleWrite(k)

\* Epoll is level-triggered, so what is ready is reported until it is handled; a
\* client that is there reads what it is sent.
Fairness ==
    /\ WF_vars(\E k \in 1 .. Len(net) : HandleRead(k))
    /\ WF_vars(HandleClose)
    /\ WF_vars(\E k \in 1 .. Len(conn.outputBuffer_) : HandleWrite(k))

Spec == Init /\ [][Next]_vars /\ Fairness

-------------------------------------------------------------------------------
Flat(answers) == [i \in 1 .. 2 * Len(answers) |-> appendToBuffer(answers[(i + 1) \div 2])[2 - (i % 2)]]

StreamIntact == conn.wrote \o conn.outputBuffer_ = Flat(conn.answers)

InOrder ==
    \A i, j \in 1 .. Len(conn.answers) :
        i < j => /\ conn.answers[i] # 0
                 /\ conn.answers[j] # 0 => conn.answers[i] < conn.answers[j]

ShutAfterLastByte == conn.readShut => conn.outputBuffer_ = << >>

\* The parser aborts the server only in a connection that was refused before, by a
\* line with a known method that is not a request; it never turns for ever.
AbortsOnlyAfterRefusal ==
    /\ failed # "spin"
    /\ failed = "setMethod" => conn.state_ = "kDisconnecting"

\* What was written and what waits to be written is the answers that send() took, each
\* whole and in the order of the requests, none twice and the 400 last: sendInLoop drops
\* whole answers only, and neither a partial write nor handleWrite loses, repeats or
\* reorders a byte.  As the comment in onRequest says, the data is sent before the
\* connection is closed: the reading side is shut after the last byte.  And no request cuts
\* this short by an assertion, unless it came behind one that was refused.
AnswersInOrder ==
    TypeOK /\ StreamIntact /\ InOrder /\ ShutAfterLastByte /\ AbortsOnlyAfterRefusal

\* A client that waits for each answer before it asks again gets one for every request
\* that was parsed while the connection was open, wherever the requests and the answers
\* were cut on their way: none of the answers is dropped.
PatientIsAnswered ==
    patient /\ conn.state_ = "kConnected" =>
        conn.answers = [i \in 1 .. parsed |-> i]

\* A connection that asked to be closed, or was refused, is closed although shutdown()
\* may have been put off until the output is written, unless the parser aborts.
CloseFollows ==
    (conn.state_ = "kDisconnecting") ~> (conn.state_ = "kDisconnected" \/ failed # "none")
===============================================================================
