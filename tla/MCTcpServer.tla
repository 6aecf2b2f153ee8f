---------------------------- MODULE MCTcpServer ----------------------------
(* Two local clients that come and go, a connection of another part of the *)
(* program, and two tasks that send.                                       *)
EXTENDS TcpServer

CONSTANTS l1, l2, other

MCClient == {l1, l2}
MCConn == {l1, l2, other}
=============================================================================
