--------------------------- MODULE MCProxySystem ---------------------------
(* The proxy with one or two local clients and one connection to the remote host.  *)
EXTENDS ProxySystem, TLC

CONSTANTS l1, l2, r1

MCLocal == {l1}
MCTwoLocal == {l1, l2}
MCRemote == {r1}
MCConn == {l1, r1}
MCTwoConn == {l1, l2, r1}

MCFew == [c \in Conn |-> IF c \in Remote THEN 2 ELSE 1]
MCRemoteMore == [c \in Conn |-> IF c \in Remote THEN 3 ELSE 2]

(* Descriptors are interchangeable, and so are the local clients. *)
MCSymmetry == Permutations(Fd) \cup Permutations(Local)
=============================================================================
