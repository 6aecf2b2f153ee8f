---------------------------- MODULE MCTcpClient ----------------------------
(* Two connections to the remote host used in turn, a connection of        *)
(* another part of the program, and two tasks that send.                   *)
EXTENDS TcpClient

CONSTANTS r1, r2, other

MCHost == {r1, r2}
MCConn == {r1, r2, other}
=============================================================================
