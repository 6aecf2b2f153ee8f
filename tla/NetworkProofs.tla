---------------------------- MODULE NetworkProofs ----------------------------
(***************************************************************************)
(* Theorems about EthW5500 for any number of ports and of events waiting:  *)
(* a port that is up and has no link-up event outstanding has a MAC, and   *)
(* its own one unless a later port is registered.  Last, that Network is   *)
(* made of its two components and nothing else.                            *)
(***************************************************************************)
EXTENDS Network, SequenceTheorems, TLAPS

Types ==
    /\ stage \in [Port -> Stages]
    /\ shar \in [Port -> Port \cup {None}]
    /\ handlers \in Seq(Port)
    /\ link \in [Port -> BOOLEAN]
    /\ events \in Seq(Port)
    /\ port \in Port \cup {None}
    /\ todo \in Seq(Port)

(* An instance that got as far as registering has registered a context, so *)
(* an event never finds the loop without handlers.                         *)
SomeHandler == Registered # {} => handlers # <<>>

(* Link-up events come from chips that have been started. *)
FromStarted == \A i \in DOMAIN events : stage[events[i]] = "started"

(* The loop works on an event as long as handlers are left for it. *)
Working == port = None <=> todo = <<>>

Waits(p) == \E i \in DOMAIN events : events[i] = p

(* A port that is up and blank has its link-up event still to come. *)
Covered ==
    \A p \in Port :
        link[p] /\ p \notin missed /\ shar[p] = None => Waits(p) \/ port = p

IInv == Types /\ SomeHandler /\ FromStarted /\ Working /\ Covered

-----------------------------------------------------------------------------
(* What is left of a queue after its head: the elements but the first.     *)
LEMMA HeadAndTail ==
    ASSUME NEW s \in Seq(Port), s # <<>>
    PROVE  /\ Head(s) \in Port /\ Tail(s) \in Seq(Port)
           /\ Head(s) = s[1] /\ 1 \in DOMAIN s
           /\ \A i \in DOMAIN Tail(s) : i + 1 \in DOMAIN s /\ Tail(s)[i] = s[i + 1]
           /\ \A i \in DOMAIN s : s[i] # Head(s) =>
                 i - 1 \in DOMAIN Tail(s) /\ Tail(s)[i - 1] = s[i]
<1>1. /\ Len(s) \in Nat \ {0} /\ DOMAIN s = 1..Len(s)
      /\ \A i \in 1..Len(s) : s[i] \in Port
  BY EmptySeq
<1>2. /\ Len(Tail(s)) = Len(s) - 1 /\ Tail(s) \in Seq(Port)
      /\ \A i \in 1..(Len(s) - 1) : Tail(s)[i] = s[i + 1]
  BY <1>1, HeadTailProperties
<1>3. DOMAIN Tail(s) = 1..(Len(s) - 1)
  BY <1>2
<1>4. Head(s) = s[1]
  OBVIOUS
<1> QED
  BY <1>1, <1>2, <1>3, <1>4

(* An appended event comes after those that were there. *)
LEMMA AppendEvent ==
    ASSUME NEW s \in Seq(Port), NEW e \in Port
    PROVE  /\ Append(s, e) \in Seq(Port) /\ Append(s, e) # <<>>
           /\ \A i \in DOMAIN s : i \in DOMAIN Append(s, e) /\ Append(s, e)[i] = s[i]
           /\ \E i \in DOMAIN Append(s, e) : Append(s, e)[i] = e
           /\ \A i \in DOMAIN Append(s, e) : i \in DOMAIN s \/ Append(s, e)[i] = e
<1>1. /\ Len(s) \in Nat /\ DOMAIN s = 1..Len(s)
      /\ Append(s, e) \in Seq(Port) /\ Len(Append(s, e)) = Len(s) + 1
      /\ DOMAIN Append(s, e) = 1..(Len(s) + 1)
      /\ \A i \in 1..Len(s) : Append(s, e)[i] = s[i]
      /\ Append(s, e)[Len(s) + 1] = e
  OBVIOUS
<1> QED
  BY <1>1

(* Before the first set-up nothing is linked. *)
LEMMA InitInvariant == Init => IInv
<1> SUFFICES ASSUME Init
             PROVE  IInv
  OBVIOUS
<1>1. Types
  BY DEF Init, Types, Stages
<1>2. Registered = {}
  BY DEF Init, Registered
<1> QED
  BY <1>1, <1>2 DEF Init, IInv, SomeHandler, FromStarted, Working, Covered

(* The steps of eth_w5500_init that write neither handlers nor the chip.   *)
LEMMA StageInvariant ==
    ASSUME IInv, NEW p \in Port, NEW from \in Stages, NEW to \in Stages,
           Reach(p, from, to), from # "started",
           to = "started" => from = "registered",
           to = "registered" => handlers' # <<>>,
           handlers' \in Seq(Port), handlers # <<>> => handlers' # <<>>,
           shar' \in [Port -> Port \cup {None}],
           \A q \in Port : shar'[q] = shar[q] \/ shar'[q] = q,
           UNCHANGED <<link, events, port, todo, missed>>
    PROVE  IInv'
<1>1. /\ stage \in [Port -> Stages] /\ stage[p] = from
      /\ stage' = [stage EXCEPT ![p] = to]
  BY DEF IInv, Types, Reach
<1>2. Types'
  BY <1>1 DEF IInv, Types
<1>3. SomeHandler'
  BY <1>1 DEF IInv, SomeHandler, Registered
<1>4. FromStarted'
  <2>1. \A i \in DOMAIN events : events[i] \in Port
    BY DEF IInv, Types
  <2> QED
    BY <1>1, <2>1 DEF IInv, FromStarted
<1>5. Working' /\ Covered'
  BY NoneAssumption DEF IInv, Working, Covered, Waits
<1> QED
  BY <1>2, <1>3, <1>4, <1>5 DEF IInv

(* Every step of the set-ups, the links and the loop keeps the invariant.  *)
LEMMA StepInvariant == IInv /\ [Next]_vars => IInv'
<1> SUFFICES ASSUME IInv, [Next]_vars
             PROVE  IInv'
  OBVIOUS
<1> USE NoneAssumption
<1>a. Types /\ SomeHandler /\ FromStarted /\ Working /\ Covered
  BY DEF IInv
<1>b. \A i \in DOMAIN events : events[i] \in Port
  BY <1>a DEF Types
<1>1. ASSUME NEW p \in Port, SetMac(p) \/ SetIp(p) \/ Start(p) \/ Fails(p)
      PROVE  IInv'
  <2>1. /\ shar' \in [Port -> Port \cup {None}]
        /\ \A q \in Port : shar'[q] = shar[q] \/ shar'[q] = q
        /\ UNCHANGED <<handlers, link, events, port, todo, missed>>
    BY <1>1, <1>a DEF SetMac, SetIp, Start, Fails, Types
  <2>2. PICK from \in {"off", "mac", "registered"}, to \in {"mac", "ip", "started", "failed"} :
           Reach(p, from, to) /\ (to = "started" => from = "registered")
    BY <1>1 DEF SetMac, SetIp, Start, Fails
  <2> QED
    BY <2>1, <2>2, <1>a, StageInvariant DEF Types, Stages
<1>2. ASSUME NEW p \in Port, Register(p)
      PROVE  IInv'
  <2>1. /\ handlers' \in Seq(Port) /\ handlers' # <<>>
        /\ Reach(p, "ip", "registered")
        /\ UNCHANGED <<shar, link, events, port, todo, missed>>
    BY <1>2, <1>a, AppendEvent DEF Register, Types
  <2> QED
    BY <2>1, <1>a, StageInvariant DEF Types, Stages
<1>3. ASSUME NEW p \in Port, LinkUp(p)
      PROVE  IInv'
  <2>1. /\ stage[p] = "started" /\ link' = [link EXCEPT ![p] = TRUE]
        /\ events' = Append(events, p)
        /\ UNCHANGED <<stage, shar, handlers, port, todo, missed>>
    BY <1>3 DEF LinkUp
  <2>e. /\ events' \in Seq(Port)
        /\ \A i \in DOMAIN events : i \in DOMAIN events' /\ events'[i] = events[i]
        /\ \E i \in DOMAIN events' : events'[i] = p
        /\ \A i \in DOMAIN events' : i \in DOMAIN events \/ events'[i] = p
    <3>1. events \in Seq(Port)
      BY <1>a DEF Types
    <3> QED
      BY <3>1, <2>1, AppendEvent
  <2>2. Types' /\ SomeHandler' /\ Working'
    BY <2>1, <2>e, <1>a DEF Types, SomeHandler, Registered, Working
  <2>3. FromStarted'
    BY <2>1, <2>e, <1>a DEF FromStarted
  <2>4. Covered'
    <3>1. Waits(p)' /\ \A q \in Port : Waits(q) => Waits(q)'
      BY <2>e DEF Waits
    <3> QED
      BY <3>1, <2>1, <1>a DEF Types, Covered
  <2> QED
    BY <2>2, <2>3, <2>4 DEF IInv
<1>4. ASSUME NEW p \in Port, LinkDown(p) \/ ChipReset(p)
      PROVE  IInv'
  <2>1. /\ link' = [link EXCEPT ![p] = FALSE]
        /\ shar' \in [Port -> Port \cup {None}]
        /\ \A q \in Port : q # p => shar'[q] = shar[q]
        /\ UNCHANGED <<stage, handlers, events, port, todo, missed>>
    BY <1>4, <1>a DEF LinkDown, ChipReset, Types
  <2> QED
    BY <2>1, <1>a
    DEF IInv, Types, SomeHandler, Registered, FromStarted, Working, Covered, Waits
<1>5. ASSUME Dispatch
      PROVE  IInv'
  <2>1. /\ port = None /\ events # <<>>
        /\ port' = Head(events) /\ events' = Tail(events) /\ todo' = handlers
        /\ UNCHANGED <<stage, shar, handlers, link, missed>>
    BY <1>5, <1>a DEF Dispatch, Working
  <2>2. /\ Head(events) \in Port /\ Tail(events) \in Seq(Port)
        /\ Head(events) = events[1] /\ 1 \in DOMAIN events
        /\ \A i \in DOMAIN Tail(events) :
              i + 1 \in DOMAIN events /\ Tail(events)[i] = events[i + 1]
        /\ \A i \in DOMAIN events : events[i] # Head(events) =>
              i - 1 \in DOMAIN Tail(events) /\ Tail(events)[i - 1] = events[i]
    BY <2>1, <1>a, HeadAndTail DEF Types
  <2>3. handlers # <<>>
    BY <2>2, <1>a DEF FromStarted, SomeHandler, Registered
  <2>4. Types' /\ SomeHandler' /\ Working'
    BY <2>1, <2>2, <2>3, <1>a DEF Types, SomeHandler, Registered, Working
  <2>5. FromStarted'
    BY <2>1, <2>2, <1>a DEF FromStarted
  <2>6. Covered'
    <3>1. \A q \in Port : Waits(q) => Waits(q)' \/ port' = q
      BY <2>1, <2>2 DEF Waits
    <3> QED
      BY <3>1, <2>1, <1>a DEF Covered
  <2> QED
    BY <2>4, <2>5, <2>6 DEF IInv
<1>6. ASSUME eth_event_handler \/ MacRefused
      PROVE  IInv'
  <2>1. /\ todo # <<>> /\ todo' = Tail(todo)
        /\ port' = IF Len(todo) = 1 THEN None ELSE port
        /\ UNCHANGED <<stage, handlers, link, events>>
    BY <1>6 DEF eth_event_handler, MacRefused, HandlerReturns
  <2>2. port \in Port /\ Head(todo) \in Port /\ todo \in Seq(Port)
    BY <2>1, <1>a, HeadAndTail DEF Types, Working
  <2>3. todo' \in Seq(Port) /\ (todo' = <<>> <=> Len(todo) = 1)
    <3>1. Len(todo') = Len(todo) - 1 /\ todo' \in Seq(Port) /\ Len(todo) \in Nat
      BY <2>1, <2>2, HeadTailProperties
    <3> QED
      BY <3>1, EmptySeq
  <2>4. Working'
    BY <2>1, <2>2, <2>3 DEF Working
  <2>5. /\ shar' \in [Port -> Port \cup {None}]
        /\ shar'[port] # None \/ port \in missed'
        /\ \A q \in Port : q # port => shar'[q] = shar[q] /\ (q \in missed' <=> q \in missed)
    BY <1>6, <2>2, <1>a DEF eth_event_handler, MacRefused, ApplyIp, Types
  <2>6. Types' /\ SomeHandler' /\ FromStarted'
    BY <2>1, <2>2, <2>3, <2>5, <1>a DEF Types, SomeHandler, Registered, FromStarted
  <2>7. Covered'
    BY <2>1, <2>2, <2>5, <1>a DEF Covered, Waits
  <2> QED
    BY <2>4, <2>6, <2>7 DEF IInv
<1>7. CASE UNCHANGED vars
  BY <1>7, <1>a
  DEF vars, IInv, Types, SomeHandler, Registered, FromStarted, Working, Covered, Waits
<1> QED
  BY <1>1, <1>2, <1>3, <1>4, <1>5, <1>6, <1>7 DEF Next, eth_w5500_init

(* Whatever the number of ports and the order of set-ups, resets, links    *)
(* and events, a port whose link-ups have all been handled is not left     *)
(* without a MAC, unless its chip refused it.                              *)
THEOREM ConfiguredAfterLinkUpCorrect == Spec => []ConfiguredAfterLinkUp
<1>1. IInv => ConfiguredAfterLinkUp
  BY DEF IInv, Covered, Waits, ConfiguredAfterLinkUp, Settled
<1> QED
  BY <1>1, InitInvariant, StepInvariant, PTL DEF Spec
-----------------------------------------------------------------------------
(* Whose MAC.  The order of the ports.                                     *)
Before(p, q) == \E i, j \in DOMAIN Order : i < j /\ Order[i] = p /\ Order[j] = q

(* A port is set up when those before it are done. *)
InTurn ==
    \A p, q \in Port : Before(p, q) /\ stage[q] # "off" => stage[p] \in {"started", "failed"}

(* The handlers are those of the registered instances, in the ports' order. *)
Sorted ==
    /\ \A i \in DOMAIN handlers : handlers[i] \in Registered
    /\ \A p \in Registered : \E i \in DOMAIN handlers : handlers[i] = p
    /\ \A i, j \in DOMAIN handlers : i < j => Before(handlers[i], handlers[j])

(* Only a started port is up, and only of one comes the event in work.     *)
UpIsStarted ==
    /\ \A p \in Port : link[p] => stage[p] = "started"
    /\ port # None => stage[port] = "started"

(* The last handler to run for a port that is not followed is its own.     *)
LastIsOwn == port # None /\ ~Followed(port) => todo[Len(todo)] = port

(* A port that is up with another's MAC is followed, or its event is still *)
(* to come or in work.                                                     *)
Own ==
    \A p \in Port :
        link[p] /\ p \notin missed /\ ~Followed(p) => shar[p] = p \/ Waits(p) \/ port = p

MoreTypes == ip \in [Port -> Port \cup {None}] /\ missed \subseteq Port

MacInv == InTurn /\ Sorted /\ UpIsStarted /\ LastIsOwn /\ Own /\ MoreTypes

(* Two ports come one before the other. *)
LEMMA Precedence ==
    /\ \A p, q \in Port : p # q => Before(p, q) \/ Before(q, p)
    /\ \A p, q : Before(p, q) => ~Before(q, p) /\ p # q
<1>1. DOMAIN Order = 1..Len(Order) /\ Len(Order) \in Nat
  BY OrderAssumption
<1>2. \A i, j \in DOMAIN Order : i < j \/ j < i \/ i = j
  BY <1>1
<1>3. \A p \in Port : \E i \in DOMAIN Order : Order[i] = p
  BY DEF Port
<1>4. \A p, q \in Port : p # q => Before(p, q) \/ Before(q, p)
  BY <1>2, <1>3 DEF Before
<1>5. ASSUME NEW p, NEW q, Before(p, q)
      PROVE  ~Before(q, p) /\ p # q
  <2>1. PICK i, j \in DOMAIN Order : i < j /\ Order[i] = p /\ Order[j] = q
    BY <1>5 DEF Before
  <2>2. \A m \in DOMAIN Order : (Order[m] = p => m = i) /\ (Order[m] = q => m = j)
    BY <2>1, OrderAssumption
  <2> QED
    BY <1>1, <2>1, <2>2 DEF Before
<1> QED
  BY <1>4, <1>5

(* What is followed, and whose turn it is, in terms of that order.         *)
LEMMA FollowedBefore ==
    ASSUME NEW p \in Port
    PROVE  /\ Followed(p) <=> \E q \in Registered : Before(p, q)
           /\ Turn(p) <=> \A q \in Port : Before(q, p) => stage[q] \in {"started", "failed"}
<1>1. \A i \in DOMAIN Order : Order[i] \in Port
  BY DEF Port
<1> QED
  BY <1>1 DEF Followed, Before, Turn, Registered

(* Nothing is set up yet. *)
LEMMA MacInit == Init => MacInv
<1> SUFFICES ASSUME Init
             PROVE  MacInv
  OBVIOUS
<1> QED
  BY NoneAssumption
  DEF Init, MacInv, InTurn, Sorted, Registered, UpIsStarted, LastIsOwn, Own, MoreTypes

(* The context of p is registered last. *)
Grows(p, to) ==
    handlers' = IF to = "registered" THEN Append(handlers, p) ELSE handlers

(* A step of a set-up: the order of the ports is the order of the set-ups,  *)
(* of the registrations and of the handlers.                               *)
LEMMA SetUpOwn ==
    ASSUME IInv, MacInv, NEW p \in Port, NEW from, NEW to,
           Reach(p, from, to), from \notin {"started", "failed"},
           to = "started" <=> from = "registered",
           Grows(p, to),
           \A q \in Port : shar'[q] = shar[q] \/ shar'[q] = q,
           ip' \in [Port -> Port \cup {None}],
           UNCHANGED <<link, events, port, todo, missed>>
    PROVE  MacInv'
<1>a. /\ InTurn /\ Sorted /\ UpIsStarted /\ LastIsOwn /\ Own /\ MoreTypes
      /\ stage \in [Port -> Stages] /\ handlers \in Seq(Port)
      /\ port \in Port \cup {None}
  BY DEF MacInv, IInv, Types
<1>b. handlers' = IF to = "registered" THEN Append(handlers, p) ELSE handlers
  BY DEF Grows
<1>1. /\ Turn(p) /\ stage[p] = from /\ stage'[p] = to
      /\ \A q \in Port : q # p => stage'[q] = stage[q]
  BY <1>a DEF Reach
<1>2. Registered' = IF to = "registered" THEN Registered \cup {p} ELSE Registered
  BY <1>1 DEF Registered
<1>3. \A q \in Port : Followed(q) => Followed(q)'
  BY <1>2 DEF Followed
<1>4. InTurn'
  <2> SUFFICES ASSUME NEW q \in Port, NEW r \in Port, Before(q, r), stage'[r] # "off"
               PROVE  stage'[q] \in {"started", "failed"}
    BY DEF InTurn, Before
  <2>1. q # r
    BY Precedence
  <2>2. CASE r = p
    BY <2>1, <2>2, <1>1, FollowedBefore
  <2>3. CASE r # p
    BY <2>3, <1>1, <1>a DEF InTurn
  <2> QED
    BY <2>2, <2>3
<1>5. Sorted'
  <2>1. CASE to # "registered"
    BY <2>1, <1>2, <1>a, <1>b DEF Sorted, Before
  <2>2. CASE to = "registered"
    <3>1. p \notin Registered /\ from \notin {"started", "failed"}
      BY <2>2, <1>1 DEF Registered
    <3>2. \A q \in Registered : Before(q, p)
      <4>1. \A q \in Registered : q \in Port /\ q # p /\ stage[q] # "off"
        BY <3>1 DEF Registered
      <4> QED
        BY <4>1, <3>1, <1>1, <1>a, Precedence DEF InTurn
    <3>3. /\ handlers' = Append(handlers, p)
          /\ Len(handlers) \in Nat /\ DOMAIN handlers = 1..Len(handlers)
          /\ DOMAIN handlers' = 1..(Len(handlers) + 1)
          /\ \A i \in 1..Len(handlers) : handlers'[i] = handlers[i]
          /\ handlers'[Len(handlers) + 1] = p
      BY <2>2, <1>a, <1>b
    <3>4. \A i \in DOMAIN handlers' :
             \/ i \in DOMAIN handlers /\ handlers'[i] = handlers[i]
             \/ i = Len(handlers) + 1 /\ handlers'[i] = p
      BY <3>3
    <3>5. Registered' = Registered \cup {p}
      BY <2>2, <1>2
    <3>6. \A i \in DOMAIN handlers' : handlers'[i] \in Registered'
      BY <3>4, <3>5, <1>a DEF Sorted
    <3>7. \A q \in Registered' : \E i \in DOMAIN handlers' : handlers'[i] = q
      <4>1. \A q \in Registered : \E i \in DOMAIN handlers : handlers[i] = q
        BY <1>a DEF Sorted
      <4>2. Len(handlers) + 1 \in DOMAIN handlers'
            /\ \A i \in DOMAIN handlers : i \in DOMAIN handlers' /\ handlers'[i] = handlers[i]
        BY <3>3
      <4> QED
        BY <4>1, <4>2, <3>3, <3>5
    <3>8. \A i, j \in DOMAIN handlers' : i < j => Before(handlers'[i], handlers'[j])
      <4> SUFFICES ASSUME NEW i \in DOMAIN handlers', NEW j \in DOMAIN handlers', i < j
                   PROVE  Before(handlers'[i], handlers'[j])
        OBVIOUS
      <4>1. i \in DOMAIN handlers /\ handlers'[i] = handlers[i] /\ handlers[i] \in Registered
        BY <3>3, <1>a DEF Sorted
      <4>2. CASE j \in DOMAIN handlers
        BY <4>1, <4>2, <3>3, <1>a DEF Sorted
      <4>3. CASE j = Len(handlers) + 1
        BY <4>1, <4>3, <3>2, <3>3
      <4> QED
        BY <4>2, <4>3, <3>4
    <3> QED
      BY <3>6, <3>7, <3>8 DEF Sorted, Before
  <2> QED
    BY <2>1, <2>2
<1>6. UpIsStarted'
  <2>1. \A q \in Port : stage[q] = "started" => stage'[q] = "started"
    BY <1>1
  <2> QED
    BY <2>1, <1>a DEF UpIsStarted
<1>7. LastIsOwn'
  BY <1>3, <1>a DEF LastIsOwn
<1>8. Own'
  BY <1>3, <1>a DEF Own, Waits
<1>9. MoreTypes'
  BY <1>a DEF MoreTypes
<1> QED
  BY <1>4, <1>5, <1>6, <1>7, <1>8, <1>9 DEF MacInv

(* Outside the set-ups nothing becomes registered or followed. *)
LEMMA SameStages ==
    ASSUME MacInv, UNCHANGED <<stage, handlers>>
    PROVE  /\ InTurn' /\ Sorted'
           /\ \A p \in Port : Followed(p) <=> Followed(p)'
BY DEF MacInv, InTurn, Sorted, Registered, Before, Followed

(* Every step of the set-ups, the links and the loop keeps it. *)
LEMMA MacStep == IInv /\ MacInv /\ [Next]_vars => MacInv'
<1> SUFFICES ASSUME IInv, MacInv, [Next]_vars
             PROVE  MacInv'
  OBVIOUS
<1> USE NoneAssumption
<1>a. /\ Types /\ FromStarted /\ Working
      /\ InTurn /\ Sorted /\ UpIsStarted /\ LastIsOwn /\ Own /\ MoreTypes
  BY DEF IInv, MacInv
<1>b. \A i \in DOMAIN events : events[i] \in Port
  BY <1>a DEF Types
<1>1. ASSUME NEW p \in Port, eth_w5500_init(p)
      PROVE  MacInv'
  <2>1. CASE SetMac(p)
    <3>1. \A q \in Port : shar'[q] = shar[q] \/ shar'[q] = q
      BY <2>1, <1>a DEF SetMac, Types
    <3> QED
      BY <2>1, <3>1, <1>a, SetUpOwn DEF SetMac, Grows, MoreTypes
  <2>2. CASE SetIp(p)
    <3>1. ip' \in [Port -> Port \cup {None}]
      BY <2>2, <1>a DEF SetIp, MoreTypes
    <3> QED
      BY <2>2, <3>1, SetUpOwn DEF SetIp, Grows
  <2>3. CASE Register(p)
    <3>1. /\ Reach(p, "ip", "registered") /\ Grows(p, "registered")
          /\ UNCHANGED <<shar, ip, link, events, port, todo, missed>>
      BY <2>3 DEF Register, Grows
    <3>2. ip' \in [Port -> Port \cup {None}]
      BY <3>1, <1>a DEF MoreTypes
    <3> QED
      BY <3>1, <3>2, SetUpOwn
  <2>4. CASE Start(p)
    BY <2>4, <1>a, SetUpOwn DEF Start, Grows, MoreTypes
  <2>5. CASE Fails(p)
    BY <2>5, <1>a, SetUpOwn DEF Fails, Grows, MoreTypes
  <2> QED
    BY <1>1, <2>1, <2>2, <2>3, <2>4, <2>5 DEF eth_w5500_init
<1>2. ASSUME NEW p \in Port, LinkUp(p)
      PROVE  MacInv'
  <2>1. /\ stage[p] = "started" /\ link' = [link EXCEPT ![p] = TRUE]
        /\ events' = Append(events, p)
        /\ UNCHANGED <<stage, shar, ip, handlers, port, todo, missed>>
    BY <1>2 DEF LinkUp
  <2>2. Waits(p)' /\ \A q \in Port : Waits(q) => Waits(q)'
    <3>1. events \in Seq(Port)
      BY <1>a DEF Types
    <3> QED
      BY <3>1, <2>1, AppendEvent DEF Waits
  <2>3. InTurn' /\ Sorted' /\ \A q \in Port : Followed(q) <=> Followed(q)'
    BY <2>1, SameStages
  <2>4. UpIsStarted' /\ MoreTypes'
    BY <2>1, <1>a DEF UpIsStarted, MoreTypes, Types
  <2>5. LastIsOwn'
    BY <2>1, <2>3, <1>a DEF LastIsOwn, Types
  <2>6. Own'
    BY <2>1, <2>2, <2>3, <1>a DEF Own, Types
  <2> QED
    BY <2>3, <2>4, <2>5, <2>6 DEF MacInv
<1>3. ASSUME NEW p \in Port, LinkDown(p) \/ ChipReset(p)
      PROVE  MacInv'
  <2>1. /\ link' = [link EXCEPT ![p] = FALSE]
        /\ \A q \in Port : q # p => shar'[q] = shar[q]
        /\ UNCHANGED <<stage, ip, handlers, events, port, todo, missed>>
    BY <1>3, <1>a DEF LinkDown, ChipReset, Types
  <2>2. InTurn' /\ Sorted' /\ \A q \in Port : Followed(q) <=> Followed(q)'
    BY <2>1, SameStages
  <2>3. UpIsStarted' /\ MoreTypes'
    BY <2>1, <1>a DEF UpIsStarted, MoreTypes, Types
  <2>4. LastIsOwn'
    BY <2>1, <2>2, <1>a DEF LastIsOwn, Types
  <2>5. Own'
    BY <2>1, <2>2, <1>a DEF Own, Types, Waits
  <2> QED
    BY <2>2, <2>3, <2>4, <2>5 DEF MacInv
<1>4. ASSUME Dispatch
      PROVE  MacInv'
  <2>1. /\ port = None /\ events # <<>>
        /\ port' = Head(events) /\ events' = Tail(events) /\ todo' = handlers
        /\ UNCHANGED <<stage, shar, ip, handlers, link, missed>>
    BY <1>4, <1>a DEF Dispatch, Working
  <2>2. /\ port' \in Port /\ stage[port'] = "started"
        /\ \A i \in DOMAIN events : events[i] # port' =>
              i - 1 \in DOMAIN events' /\ events'[i - 1] = events[i]
    BY <2>1, <1>a, HeadAndTail DEF Types, FromStarted
  <2>3. InTurn' /\ Sorted' /\ \A q \in Port : Followed(q) <=> Followed(q)'
    BY <2>1, SameStages
  <2>4. UpIsStarted' /\ MoreTypes'
    BY <2>1, <2>2, <1>a DEF UpIsStarted, MoreTypes
  <2>5. LastIsOwn'
    <3> SUFFICES ASSUME ~Followed(port')
                 PROVE  handlers[Len(handlers)] = port'
      <4>1. Followed(port') <=> Followed(port)'
        BY <2>1 DEF Followed, Registered
      <4> QED
        BY <4>1, <2>1 DEF LastIsOwn
    <3>1. /\ Len(handlers) \in Nat /\ DOMAIN handlers = 1..Len(handlers)
          /\ \A i \in DOMAIN handlers : handlers[i] \in Registered
      BY <1>a DEF Types, Sorted
    <3>2. PICK i \in DOMAIN handlers : handlers[i] = port'
      BY <2>2, <1>a DEF Sorted, Registered
    <3>3. Len(handlers) \in DOMAIN handlers
      BY <3>1, <3>2
    <3>4. \A q \in Registered : ~Before(port', q)
      BY <2>2, FollowedBefore
    <3>5. ~(i < Len(handlers))
      BY <3>1, <3>2, <3>3, <3>4, <1>a DEF Sorted
    <3> QED
      BY <3>1, <3>2, <3>5
  <2>6. Own'
    <3>1. \A q \in Port : Waits(q) => Waits(q)' \/ port' = q
      BY <2>2 DEF Waits
    <3> QED
      BY <3>1, <2>1, <2>3, <1>a DEF Own
  <2> QED
    BY <2>3, <2>4, <2>5, <2>6 DEF MacInv
<1>5. ASSUME eth_event_handler \/ MacRefused
      PROVE  MacInv'
  <2>1. /\ todo # <<>> /\ todo' = Tail(todo)
        /\ port' = IF Len(todo) = 1 THEN None ELSE port
        /\ UNCHANGED <<stage, handlers, link, events>>
    BY <1>5 DEF eth_event_handler, MacRefused, HandlerReturns
  <2>2. port \in Port /\ Head(todo) \in Port /\ todo \in Seq(Port)
    BY <2>1, <1>a, HeadAndTail DEF Types, Working
  <2>3. /\ shar'[port] = Head(todo) \/ port \in missed'
        /\ \A q \in Port : q # port => shar'[q] = shar[q] /\ (q \in missed' <=> q \in missed)
        /\ MoreTypes'
    BY <1>5, <2>2, <1>a DEF eth_event_handler, MacRefused, ApplyIp, Types, MoreTypes
  <2>4. InTurn' /\ Sorted' /\ \A q \in Port : Followed(q) <=> Followed(q)'
    BY <2>1, SameStages
  <2>5. UpIsStarted'
    BY <2>1, <1>a DEF UpIsStarted
  <2>6. /\ Len(todo) \in Nat \ {0} /\ Head(todo) = todo[1]
        /\ Len(todo) # 1 => todo'[Len(todo')] = todo[Len(todo)]
    <3>1. /\ Len(todo) \in Nat \ {0} /\ Len(todo') = Len(todo) - 1
          /\ \A i \in 1..(Len(todo) - 1) : todo'[i] = todo[i + 1]
      BY <2>1, <2>2, HeadTailProperties, EmptySeq
    <3> QED
      BY <3>1
  <2>7. LastIsOwn'
    <3>1. port' = port => (Followed(port)' <=> Followed(port))
      BY <2>1 DEF Followed, Registered
    <3> QED
      BY <3>1, <2>1, <2>6, <1>a DEF LastIsOwn
  <2>8. Own'
    <3> SUFFICES ASSUME NEW q \in Port, link[q], q \notin missed', ~Followed(q)
                 PROVE  shar'[q] = q \/ Waits(q) \/ port' = q
      BY <2>1, <2>4 DEF Own, Waits
    <3>1. CASE q # port
      BY <3>1, <2>1, <2>3, <1>a DEF Own
    <3>2. CASE q = port
      BY <3>2, <2>1, <2>2, <2>3, <2>6, <1>a DEF LastIsOwn
    <3> QED
      BY <3>1, <3>2
  <2> QED
    BY <2>3, <2>4, <2>5, <2>7, <2>8 DEF MacInv
<1>6. CASE UNCHANGED vars
  <2>1. UNCHANGED <<stage, shar, ip, handlers, link, events, port, todo, missed>>
    BY <1>6 DEF vars
  <2> QED
    BY <2>1, <1>a
    DEF MacInv, InTurn, Sorted, Registered, Before, UpIsStarted, LastIsOwn, Followed,
        Own, Waits, MoreTypes
<1> QED
  BY <1>1, <1>2, <1>3, <1>4, <1>5, <1>6 DEF Next

(* Types, and: the registered contexts are those of the instances that got *)
(* so far, each once, and none that failed and was freed.                  *)
THEOREM TypeCorrect == Spec => []TypeOK
<1>1. IInv /\ MacInv => TypeOK
  <2> SUFFICES ASSUME IInv, MacInv
               PROVE  TypeOK
    OBVIOUS
  <2>1. Types /\ Working /\ Sorted /\ MoreTypes
    BY DEF IInv, MacInv
  <2>2. \A i, j \in DOMAIN handlers : handlers[i] = handlers[j] => i = j
    <3>1. DOMAIN handlers = 1..Len(handlers) /\ Len(handlers) \in Nat
      BY <2>1 DEF Types
    <3>2. \A i, j \in DOMAIN handlers : i < j => handlers[i] # handlers[j]
      BY <2>1, Precedence DEF Sorted
    <3> QED
      BY <3>1, <3>2
  <2>3. {handlers[i] : i \in DOMAIN handlers} = Registered
    BY <2>1 DEF Sorted
  <2> QED
    BY <2>1, <2>2, <2>3 DEF TypeOK, Types, Working, MoreTypes
<1> QED
  BY <1>1, InitInvariant, StepInvariant, MacInit, MacStep, PTL DEF Spec

(* For any number of ports, a port that is up, has no link-up outstanding   *)
(* and no later port registered has its own MAC: the last handler to run   *)
(* at each of its link-ups is its own.                                     *)
THEOREM OwnMacUnlessFollowedCorrect == Spec => []OwnMacUnlessFollowed
<1>1. MacInv => OwnMacUnlessFollowed
  BY DEF MacInv, Own, Waits, OwnMacUnlessFollowed, Settled
<1> QED
  BY <1>1, InitInvariant, StepInvariant, MacInit, MacStep, PTL DEF Spec

(* The composition adds no behaviour to the ports or to the client: each   *)
(* of its steps is a step of one of them at most, so what is shown of      *)
(* EthW5500 and of MqttApp alone holds in it.                              *)
THEOREM NetworkImplements == NetSpec => Spec /\ MqttSpec
<1>1. NetInit => Init /\ MqttInit
  BY DEF NetInit
<1>2. [NetNext]_netVars => [Next]_vars /\ [MqttNext]_mqttVars
  <2> SUFFICES ASSUME [NetNext]_netVars
               PROVE  [Next]_vars /\ [MqttNext]_mqttVars
    OBVIOUS
  <2>1. CASE PortStep \/ LoopStep
    BY <2>1 DEF PortStep, LoopStep, Next
  <2>2. CASE StackFollows \/ NetStart \/ NetConnect \/ NetDisconnect
    BY <2>2, NetworkAssumption
    DEF StackFollows, NetStart, NetConnect, NetDisconnect, MqttNext
  <2>3. CASE UNCHANGED netVars
    BY <2>3 DEF netVars
  <2> QED
    BY <2>1, <2>2, <2>3 DEF NetNext
<1> QED
  BY <1>1, <1>2, PTL DEF NetSpec, Spec, MqttSpec

(* So with MQTT sessions that come and go and a default interface that is  *)
(* forced and restored, the ports keep what they promise alone.            *)
THEOREM NetworkKeepsPromises ==
    NetSpec => [](TypeOK /\ ConfiguredAfterLinkUp /\ OwnMacUnlessFollowed)
BY NetworkImplements, TypeCorrect, ConfiguredAfterLinkUpCorrect,
   OwnMacUnlessFollowedCorrect, PTL
=============================================================================
