----------------------------- MODULE MCConnections -----------------------------
\* Connections for TLC: requests on one of multiThread, on one of a process, or lines of
\* them; or the sockets of many, with an io loop, without one, or in a process.
EXTENDS HttpConnection, HttpLine, Sockets

VARIABLES kind, processConn, processFailed

processVars == <<processConn, processFailed>>
allVars    == <<kind, vars, processVars, lineVars, socketVars>>

\* The connection of a process has its own output; the input and the client are shared.
Process == INSTANCE ProcessHttpConnection WITH conn <- processConn, failed <- processFailed

Plain   == <<"get", CRLF, "host", CRLF, CRLF>>
Close   == <<"get", CRLF, "close", CRLF, CRLF>>
Cut     == <<"cut", CRLF, CRLF>>
Unknown == <<"unknown", CRLF, CRLF>>
Junk    == <<"get", CRLF, "junk", CRLF, "host", CRLF, CRLF>>
Bare    == <<"junk", CRLF, CRLF>>

MCScripts == {<<Plain, Plain, Plain>>, <<Plain, Close, Plain>>, <<Cut, Plain>>, <<Unknown, Plain>>,
              <<Plain, Junk>>, <<Bare, Plain>>}

\* A line begins in any way, or as a request line does.
MCStarts == {<< >>, <<"GET", "space">>}

MCInit ==
    /\ kind \in {"thread", "process", "line", "sockets"}
    /\ Init /\ LineInit
    /\ processConn = Connected /\ processFailed = "none"
    /\ kind # "line" => line = << >>
    /\ kind \notin {"thread", "process"} => patient /\ toAsk = <<Plain, Plain, Plain>>
    /\ SocketsInit
    /\ kind # "sockets" => server = [numThreads_ |-> 0, direct |-> FALSE]

InThread(A)  == kind = "thread" /\ A /\ UNCHANGED <<kind, processVars, lineVars, socketVars>>
InProcess(A) == kind = "process" /\ A /\ UNCHANGED <<kind, conn, failed, lineVars, socketVars>>
InLine(A)    == kind = "line" /\ A /\ UNCHANGED <<kind, vars, processVars, socketVars>>
InSockets(A) == kind = "sockets" /\ A /\ UNCHANGED <<kind, vars, processVars, lineVars>>

MCNext == \/ InThread(Next) \/ InProcess(Process!ProcessNext) \/ InLine(LineNext)
          \/ InSockets(SocketsNext)

\* The fairness of HttpConnection, for the one and the other, and that of Sockets.
MCFairness ==
    /\ WF_vars(InThread(\E k \in 1 .. Len(net) : HandleRead(k)))
    /\ WF_vars(InThread(HandleClose))
    /\ WF_vars(InThread(\E k \in 1 .. Len(conn.outputBuffer_) : HandleWrite(k)))
    /\ WF_<<vars, processVars>>(InProcess(Process!ProcessStep))
    /\ \A l \in Loops : WF_socketVars(InSockets(Step(l)))

MCSpec == MCInit /\ [][MCNext]_allVars /\ MCFairness

\* The properties of the modules that are not extended, each for what it is about.
ThreadAnswers      == [](kind = "thread" => PatientIsAnswered) /\ CloseFollows
ProcessIsAnswered  == kind = "process" => Process!ProcessAnswers
================================================================================
