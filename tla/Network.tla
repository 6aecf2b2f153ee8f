------------------------------- MODULE Network -------------------------------
(***************************************************************************)
(* The two Ethernet ports and the interface the MQTT sessions go by:       *)
(* EthW5500 and MqttApp as app_main joins them.  What the sessions carry   *)
(* is left to ConfigPath.                                                  *)
(***************************************************************************)
EXTENDS EthW5500, MqttApp

ASSUME NetworkAssumption == Netif = Port /\ eth = Order[1]

netVars == <<vars, mqttVars>>

NetInit == Init /\ MqttInit

(* Both ports are set up and app_main has not stopped for want of one. *)
PortsReady == \A p \in Port : stage[p] = "started"

(* The link that is up with the highest route_prio, which is the first:    *)
(* esp_netif follows the links with some delay.                            *)
Preferred(n) ==
    IF n = Nil THEN \A p \in Port : ~link[p]
    ELSE /\ link[n]
         /\ \A i, j \in DOMAIN Order : Order[j] = n /\ link[Order[i]] => j <= i

PortStep ==
    /\ \E p \in Port : eth_w5500_init(p) \/ LinkUp(p) \/ LinkDown(p) \/ ChipReset(p)
    /\ UNCHANGED mqttVars

LoopStep ==
    /\ Dispatch \/ eth_event_handler \/ MacRefused
    /\ UNCHANGED mqttVars

StackFollows ==
    /\ \E n \in (Port \cup {Nil}) \ {default} : Preferred(n) /\ StackChooses(n)
    /\ UNCHANGED vars

NetStart ==
    /\ PortsReady
    /\ mqtt_app_start
    /\ UNCHANGED vars

(* Sessions are made over a link that is up. *)
NetConnect ==
    /\ default \in Port /\ link[default]
    /\ Connected \/ ConnectedDeaf
    /\ UNCHANGED vars

NetDisconnect == Disconnected /\ UNCHANGED vars

NetNext ==
    \/ PortStep \/ LoopStep \/ StackFollows
    \/ NetStart \/ NetConnect \/ NetDisconnect

NetSpec == NetInit /\ [][NetNext]_netVars

(* The default loop's task runs, and esp-mqtt tries again and again. *)
FairNetSpec == NetSpec /\ LoopFairness /\ WF_netVars(NetConnect)

-----------------------------------------------------------------------------
(* The client comes to a session, and to another one after each that was   *)
(* lost, whatever happens to ETH2 as long as ETH1 stays up: the first one  *)
(* always, the later ones unless ETH2 was the default interface when the   *)
(* client was started (mqtt_app.c:115-118 then puts it back for good;      *)
(* mqtt_app.h:47, "netif que deve ser usado para a conexão MQTT").         *)
ReachesBroker ==
    (<>[](/\ s_client = "started" /\ link[eth]
          /\ via = Nil \/ found \in {Nil, eth}))
        => []<>(session # "down")
=============================================================================
