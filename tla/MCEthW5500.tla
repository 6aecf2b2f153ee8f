----------------------------- MODULE MCEthW5500 -----------------------------
(* The two ports of the device. *)
EXTENDS EthW5500

CONSTANTS eth1, eth2

MCOrder == <<eth1, eth2>>
=============================================================================
