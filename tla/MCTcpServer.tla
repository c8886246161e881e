---------------------------- MODULE MCTcpServer -----------------------------
(* TcpServer with a pool of two loops or one or none, and one user thread   *)
(* that either sends or shuts down, or none.                                *)
EXTENDS TcpServer

CONSTANTS c1, c2, base, l1, l2, u

TwoConns == {c1, c2}
OneConn == {c1}
TwoOrNone == {<<l1, l2>>, <<>>}
OneOrNone == {<<l1>>, <<>>}
OneUser == {u}
NoUsers == {}
SendOrShutdown == {{"send"}, {"shutdown"}}
NoOps == {{}}
=============================================================================
