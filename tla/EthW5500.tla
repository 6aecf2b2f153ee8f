------------------------------ MODULE EthW5500 ------------------------------
(***************************************************************************)
(* eth_w5500: the set-up of one W5500 chip after another (eth_w5500_init), *)
(* the handler each set-up registers for every Ethernet event, and the     *)
(* link-up events that the chips' drivers post to the default event loop.  *)
(*                                                                         *)
(* A chip keeps its MAC in a volatile register (SHAR), which a reset of    *)
(* the chip clears; such a reset is taken to drop the link, as             *)
(* eth_w5500.h:57-62 does.  The MAC and the static IP of an instance are   *)
(* named by its port.  Events other than CONNECTED are only logged.        *)
(***************************************************************************)
EXTENDS Naturals, Sequences

CONSTANTS
    Order,      \* the ports, in the order in which app_main sets them up
    MaxEvents,  \* bound on the link-up events waiting in the default loop
    None        \* no MAC, no IP, no event

Port == {Order[i] : i \in DOMAIN Order}

ASSUME OrderAssumption ==
    /\ Order \in Seq(Port)
    /\ \A i, j \in DOMAIN Order : Order[i] = Order[j] => i = j
ASSUME NoneAssumption == None \notin Port
ASSUME EventsAssumption == MaxEvents \in Nat

VARIABLES
    stage,      \* stage[p]: how far eth_w5500_init of p is
    shar,       \* shar[p]: whose MAC chip p has
    ip,         \* ip[p]: whose address the esp_netif of p has
    handlers,   \* the registered contexts, in the order of registration
    link,       \* link[p]: whether the driver of p has seen its link up
    events,     \* the ports of the CONNECTED events waiting
    port,       \* the port of the event being dispatched, or None
    todo,       \* the contexts whose handler has still to run for it
    missed      \* ghost: the chips that refused the last MAC written to them

vars == <<stage, shar, ip, handlers, link, events, port, todo, missed>>

Stages == {"off", "mac", "ip", "registered", "started", "failed"}

Init ==
    /\ stage = [p \in Port |-> "off"]
    /\ shar = [p \in Port |-> None]
    /\ ip = [p \in Port |-> None]
    /\ handlers = <<>>
    /\ link = [p \in Port |-> FALSE]
    /\ events = <<>>
    /\ port = None
    /\ todo = <<>>
    /\ missed = {}

(* app_main calls eth_w5500_init for one port after the other, whatever    *)
(* the call before returned.                                               *)
Turn(p) ==
    \A i, j \in DOMAIN Order :
        i < j /\ Order[j] = p => stage[Order[i]] \in {"started", "failed"}

Reach(p, from, to) ==
    /\ Turn(p)
    /\ stage[p] = from
    /\ stage' = [stage EXCEPT ![p] = to]

(* Driver installed, MAC computed and written to the chip. *)
SetMac(p) ==
    /\ Reach(p, "off", "mac")
    /\ shar' = [shar EXCEPT ![p] = p]
    /\ UNCHANGED <<ip, handlers, link, events, port, todo, missed>>

(* esp_netif created and attached, static IP applied. *)
SetIp(p) ==
    /\ Reach(p, "mac", "ip")
    /\ ip' = [ip EXCEPT ![p] = p]
    /\ UNCHANGED <<shar, handlers, link, events, port, todo, missed>>

(* Mutant of Register: registered before it is set up. *)
RegisterFirst(p) ==
    /\ Reach(p, "ip", "registered")
    /\ handlers' = <<p>> \o handlers
    /\ UNCHANGED <<shar, ip, link, events, port, todo, missed>>

(* eth_event_handler with the context of p, for ETH_EVENT of any chip. *)
Register(p) ==
    /\ Reach(p, "ip", "registered")
    /\ handlers' = Append(handlers, p)
    /\ UNCHANGED <<shar, ip, link, events, port, todo, missed>>

(* esp_eth_start. *)
Start(p) ==
    /\ Reach(p, "registered", "started")
    /\ UNCHANGED <<shar, ip, handlers, link, events, port, todo, missed>>

(* Mutant of Fails: the context is freed after its handlers were registered. *)
FailsLate(p) ==
    /\ Reach(p, "mac", "failed") \/ Reach(p, "registered", "failed")
    /\ UNCHANGED <<shar, ip, handlers, link, events, port, todo, missed>>

(* No memory, no MAC or PHY; no esp_netif or glue: the context is freed    *)
(* and NULL returned.                                                      *)
Fails(p) ==
    /\ Reach(p, "off", "failed") \/ Reach(p, "mac", "failed")
    /\ UNCHANGED <<shar, ip, handlers, link, events, port, todo, missed>>

eth_w5500_init(p) == SetMac(p) \/ SetIp(p) \/ Register(p) \/ Start(p) \/ Fails(p)

-----------------------------------------------------------------------------
(* The chips and their links. *)
LinkUp(p) ==
    /\ stage[p] = "started"
    /\ ~link[p]
    /\ Len(events) < MaxEvents
    /\ link' = [link EXCEPT ![p] = TRUE]
    /\ events' = Append(events, p)
    /\ UNCHANGED <<stage, shar, ip, handlers, port, todo, missed>>

LinkDown(p) ==
    /\ link[p]
    /\ link' = [link EXCEPT ![p] = FALSE]
    /\ UNCHANGED <<stage, shar, ip, handlers, events, port, todo, missed>>

(* A glitch resets chip p. *)
ChipReset(p) ==
    /\ shar' = [shar EXCEPT ![p] = None]
    /\ link' = [link EXCEPT ![p] = FALSE]
    /\ UNCHANGED <<stage, ip, handlers, events, port, todo, missed>>

-----------------------------------------------------------------------------
(* The default loop takes an event and runs, one after another, all the    *)
(* handlers that are registered.                                           *)
Dispatch ==
    /\ todo = <<>>
    /\ events # <<>>
    /\ port' = Head(events)
    /\ events' = Tail(events)
    /\ todo' = handlers
    /\ UNCHANGED <<stage, shar, ip, handlers, link, missed>>

HandlerReturns ==
    /\ todo' = Tail(todo)
    /\ port' = IF Len(todo) = 1 THEN None ELSE port
    /\ UNCHANGED <<stage, handlers, link, events>>

(* The IP of the handler's context is written to its own esp_netif, which  *)
(* may fail whatever became of the MAC; a failure is only logged.          *)
ApplyIp(p) == \E q \in {ip[p], p} : ip' = [ip EXCEPT ![p] = q]

(* Mutant of eth_event_handler: only the IP is applied again. *)
HandlerWithoutMac ==
    /\ todo # <<>>
    /\ ApplyIp(Head(todo))
    /\ UNCHANGED <<shar, missed>>
    /\ HandlerReturns

(* The handler writes the MAC of its own context to the chip the event     *)
(* came from, and applies the IP; both writes are taken as one step.       *)
eth_event_handler ==
    /\ todo # <<>>
    /\ shar' = [shar EXCEPT ![port] = Head(todo)]
    /\ missed' = missed \ {port}
    /\ ApplyIp(Head(todo))
    /\ HandlerReturns

(* The chip does not take the MAC, which is only logged. *)
MacRefused ==
    /\ todo # <<>>
    /\ missed' = missed \cup {port}
    /\ ApplyIp(Head(todo))
    /\ UNCHANGED shar
    /\ HandlerReturns

Next ==
    \/ \E p \in Port :
        \/ eth_w5500_init(p)
        \/ LinkUp(p) \/ LinkDown(p) \/ ChipReset(p)
    \/ Dispatch
    \/ eth_event_handler \/ MacRefused

Spec == Init /\ [][Next]_vars

(* The default loop's task runs. *)
LoopFairness == WF_vars(Dispatch) /\ WF_vars(eth_event_handler \/ MacRefused)

-----------------------------------------------------------------------------
Registered == {p \in Port : stage[p] \in {"registered", "started"}}

(* Types; the registered contexts are those of the instances that got so   *)
(* far, each once, and none that failed and was freed                      *)
(* (eth_w5500.c:135, :167, :179).                                          *)
TypeOK ==
    /\ stage \in [Port -> Stages]
    /\ shar \in [Port -> Port \cup {None}]
    /\ ip \in [Port -> Port \cup {None}]
    /\ handlers \in Seq(Port)
    /\ {handlers[i] : i \in DOMAIN handlers} = Registered
    /\ \A i, j \in DOMAIN handlers : handlers[i] = handlers[j] => i = j
    /\ link \in [Port -> BOOLEAN]
    /\ events \in Seq(Port)
    /\ port \in Port \cup {None}
    /\ todo \in Seq(Port)
    /\ port = None <=> todo = <<>>
    /\ missed \subseteq Port

(* Every link-up event of p has been handled, and p took what the handlers *)
(* wrote.                                                                  *)
Settled(p) ==
    /\ link[p]
    /\ \A i \in DOMAIN events : events[i] # p
    /\ port # p
    /\ p \notin missed

(* A reset of the chip never leaves a port up and without a MAC once its   *)
(* link-up has been handled, whatever interleaving of resets, links and    *)
(* the other port's set-up led there (README.md:487-493).                  *)
ConfiguredAfterLinkUp == \A p \in Port : Settled(p) => shar[p] # None

(* It has its own MAC as long as no instance set up after it is registered *)
(* too: the first port until then, the last one always.                    *)
Followed(p) ==
    \E i, j \in DOMAIN Order : i < j /\ Order[i] = p /\ Order[j] \in Registered
OwnMacUnlessFollowed == \A p \in Port : Settled(p) /\ ~Followed(p) => shar[p] = p

(* Every port that is up has its own MAC (eth_w5500.h:54-56, "reaplica o   *)
(* MAC e o IP estático corretos DESTA instância no handle que gerou o      *)
(* evento").                                                               *)
OwnMac == \A p \in Port : Settled(p) => shar[p] = p

(* A link that comes up gets a MAC or goes down again, also while the      *)
(* other port's link keeps changing (README.md:492-493).                   *)
LinkUpIsHandled ==
    \A p \in Port : link[p] ~> ~link[p] \/ shar[p] # None \/ p \in missed
=============================================================================
