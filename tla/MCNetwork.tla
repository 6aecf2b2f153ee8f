------------------------------ MODULE MCNetwork ------------------------------
(* The two ports of the device; no messages. *)
EXTENDS Network

CONSTANTS eth1, eth2

MCOrder == <<eth1, eth2>>
MCSize == [m \in {} |-> 1]
=============================================================================
