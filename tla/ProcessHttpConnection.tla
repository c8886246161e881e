------------------------ MODULE ProcessHttpConnection ------------------------
(***************************************************************************)
(* The bytes of a connection in multiProcess1 and multiProcess2: the parser *)
(* and the client are those of HttpConnection.  What differs is the output: *)
(* everything runs in one thread, and send() keeps what the socket did not  *)
(* take without asking for the write event.  handleWrite therefore never    *)
(* runs, and shutdown() has nothing to wait for.                            *)
(***************************************************************************)
EXTENDS HttpConnection

\* Mutant: it writes although older output is pending.
WriteOvertakes(c, n) ==
    LET msg == appendToBuffer(n)
    IN  {[c EXCEPT !.answers = Append(@, n),
                   !.wrote = @ \o SubSeq(msg, 1, k),
                   !.outputBuffer_ = @ \o SubSeq(msg, k + 1, Len(msg))] : k \in Written(msg)}

\* The write of send(), when nothing is pending; otherwise the message is dropped.
WriteAndKeep(c, n) ==
    LET msg == appendToBuffer(n)
    IN  IF "write" \notin c.events /\ c.outputBuffer_ = << >>
        THEN {[c EXCEPT !.answers = Append(@, n),
                        !.wrote = @ \o SubSeq(msg, 1, k),
                        !.outputBuffer_ = SubSeq(msg, k + 1, Len(msg)),
                        !.events = @ \union {"read"}] : k \in Written(msg)}
        ELSE {c}

sendNow(c, n) == IF c.state_ = "kConnected" THEN WriteAndKeep(c, n) ELSE {c}

shutdownInSocket(c) == IF "write" \in c.events THEN c ELSE [c EXCEPT !.readShut = TRUE]

shutdownNow(c) ==
    IF c.state_ = "kConnected" THEN shutdownInSocket([c EXCEPT !.state_ = "kDisconnecting"])
                               ELSE c

\* HttpServer::onRequest and onMessage.
Answer(c, n, request) ==
    IF wantsClose(request) THEN {shutdownNow(d) : d \in sendNow(c, n)} ELSE sendNow(c, n)

Refuse(c) == {shutdownNow(d) : d \in sendNow(c, 0)}

OnMessage(p) ==
    LET all == gotAll(p.context) /\ ~p.aborted
    IN  /\ inputBuffer_' = p.buf
        /\ context_' = IF all THEN reset(p.context) ELSE p.context
        /\ parsed' = IF all THEN parsed + 1 ELSE parsed
        /\ failed' = IF p.aborted THEN "setMethod" ELSE IF p.more THEN "spin" ELSE "none"
        /\ conn' \in IF p.aborted \/ p.more THEN {conn}
                     ELSE IF ~p.ok THEN Refuse(conn)
                     ELSE IF all THEN Answer(conn, parsed + 1, p.context.request_)
                     ELSE {conn}

-----------------------------------------------------------------------------
\* handleRead, when readFd has read k > 0 cells, and when it has read none.
ReadRequest(k) ==
    /\ failed = "none"
    /\ "read" \in conn.events
    /\ k \in 1 .. Len(net)
    /\ net' = SubSeq(net, k + 1, Len(net))
    /\ OnMessage(parseRequest(context_, inputBuffer_ \o SubSeq(net, 1, k)))
    /\ UNCHANGED <<toAsk, patient, peerClosed>>

ReadEnd == HandleClose

ProcessNext == ClientAsks \/ ClientCloses \/ (\E k \in 1 .. Len(net) : ReadRequest(k)) \/ ReadEnd

\* Epoll is level-triggered.
ProcessStep == (\E k \in 1 .. Len(net) : ReadRequest(k)) \/ ReadEnd

-----------------------------------------------------------------------------
\* What the client gets is a prefix of the answers in their order: once an answer was cut,
\* no later one follows it, so that no answer is taken for the answer to another request.
\* As long as no answer is cut, all requests are answered.
PrefixOfAnswers ==
    /\ TypeOK
    /\ StreamIntact /\ InOrder
    /\ conn.outputBuffer_ = << >> /\ conn.state_ = "kConnected" =>
          conn.answers = [i \in 1 .. parsed |-> i]
    /\ AbortsOnlyAfterRefusal

\* That, and: a connection that asked to be closed or was refused is closed, be its answer
\* whole or not, unless the parser aborts.
ProcessAnswers ==
    /\ []PrefixOfAnswers
    /\ (conn.state_ = "kDisconnecting") ~> (conn.state_ = "kDisconnected" \/ failed # "none")
=============================================================================
