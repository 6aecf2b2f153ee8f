--------------------------- MODULE TcpServerProofs ---------------------------
(***************************************************************************)
(* Theorems about TcpServer, for any number of descriptors, connections    *)
(* and callers, and any interleaving with the rest of the program: a send  *)
(* in progress is on the client being served, and no descriptor leaks.     *)
(***************************************************************************)
EXTENDS TcpServer, SocketsProofs

Active == {"welcome", "notify", "recv", "callback", "deactivate"}

(* The task has a descriptor exactly while it serves; it stands for the    *)
(* client it accepted, which nobody else closes.                           *)
Serves ==
    /\ pc \in Idle <=> sock = None
    /\ sock # None => file[sock] \in Client /\ InUse(file[sock])

(* The slot is set only within the life of that descriptor, and held only  *)
(* while it is set.                                                        *)
SlotInLife ==
    /\ slot # None => slot = sock /\ pc \in Active
    /\ mutex \in Caller => slot # None

IInv == Types /\ Serves /\ SlotInLife /\ NoDescriptorLeak

-----------------------------------------------------------------------------
(* The state app_main starts the task in.                                  *)
LEMMA InitInvariant == Init => IInv
<1> SUFFICES ASSUME Init
             PROVE  IInv
  OBVIOUS
<1>1. Types
  BY SocketsAssumption
  DEF Init, SocketsInit, ActiveInit, Types, SocketsType, ActiveType, LinkType,
      LinkState, Fresh, Pc
<1>2. Serves /\ SlotInLife
  BY CallerAssumption DEF Init, ActiveInit, Serves, SlotInLife, Idle
<1>3. NoDescriptorLeak
  BY SocketsAssumption, ClientAssumption DEF Init, SocketsInit, NoDescriptorLeak
<1> QED
  BY <1>1, <1>2, <1>3 DEF IInv

(* A restart of the program comes back to it. *)
LEMMA RestartInvariant ==
    ASSUME Restart
    PROVE  IInv'
<1>1. Types'
  BY SocketsAssumption
  DEF Restart, SocketsReset, ActiveReset, Types, SocketsType, ActiveType, LinkType,
      LinkState, Fresh, Pc
<1>2. Serves' /\ SlotInLife'
  BY CallerAssumption DEF Restart, ActiveReset, Serves, SlotInLife, Idle
<1>3. NoDescriptorLeak'
  BY SocketsAssumption, ClientAssumption DEF Restart, SocketsReset, NoDescriptorLeak
<1> QED
  BY <1>1, <1>2, <1>3 DEF IInv

(* The start makes no descriptor, and at most a mutex that nobody holds.   *)
LEMMA StartInvariant ==
    ASSUME IInv, tcp_server_app_start
    PROVE  IInv'
<1>1. /\ pc = "off" /\ pc' \in {"listen", "dead"} /\ mutex' \in {None, Absent}
      /\ UNCHANGED <<slot, sock, file, link>>
  BY DEF tcp_server_app_start, sockets
<1>2. Types'
  BY <1>1 DEF IInv, Types, SocketsType, ActiveType, Pc
<1>3. Serves' /\ NoDescriptorLeak'
  BY <1>1 DEF IInv, Serves, InUse, NoDescriptorLeak, Idle
<1>4. slot = None
  BY <1>1 DEF IInv, SlotInLife, Active
<1>5. SlotInLife'
  BY <1>1, <1>4, CallerAssumption DEF SlotInLife
<1> QED
  BY <1>2, <1>3, <1>5 DEF IInv

(* A step that moves neither descriptors nor the task, and frees nothing.  *)
LEMMA QuietStep ==
    ASSUME IInv, SocketsType', KeepsInUse, UNCHANGED file, UNCHANGED <<pc, sock>>,
           ActiveType', SlotInLife'
    PROVE  IInv'
<1>1. Types'
  BY DEF IInv, Types
<1>2. Serves'
  BY ClientAssumption DEF IInv, Serves, KeepsInUse
<1>3. NoDescriptorLeak'
  BY DEF IInv, NoDescriptorLeak
<1> QED
  BY <1>1, <1>2, <1>3 DEF IInv

(* A caller's send.                                                        *)
LEMMA SendInvariant ==
    ASSUME IInv, NEW k \in Caller, tcp_server_app_send(k), UNCHANGED task
    PROVE  IInv'
<1>1. /\ SocketsType /\ ActiveType /\ SlotInLife /\ UNCHANGED <<pc, sock>>
      /\ None \notin Caller /\ Absent \notin Caller
  BY CallerAssumption DEF IInv, Types, task
<1>2. CASE SendBegins(k)
  <2>1. SocketsType' /\ KeepsInUse /\ UNCHANGED file
    BY <1>1, <1>2 DEF SendBegins, sockets, SocketsType, KeepsInUse, InUse, New
  <2>2. ActiveType' /\ SlotInLife'
    BY <1>1, <1>2 DEF SendBegins, ActiveType, SlotInLife
  <2> QED
    BY <1>1, <2>1, <2>2, QuietStep
<1>3. CASE SendOk(k)
  <2>1. slot \in Fd
    BY <1>1, <1>3 DEF SendOk, ActiveType, SlotInLife
  <2>2. SocketsType' /\ KeepsInUse /\ UNCHANGED file
    BY <1>1, <1>3, <2>1, SendDoneType DEF SendOk
  <2>3. ActiveType' /\ SlotInLife'
    BY <1>1, <1>3 DEF SendOk, ActiveType, SlotInLife
  <2> QED
    BY <1>1, <2>2, <2>3, QuietStep
<1>4. CASE SendError(k)
  <2>1. SocketsType' /\ KeepsInUse /\ UNCHANGED file
    BY <1>1, <1>4 DEF SendError, sockets, SocketsType, KeepsInUse, InUse, New
  <2>2. ActiveType' /\ SlotInLife'
    BY <1>1, <1>4 DEF SendError, ActiveType, SlotInLife
  <2> QED
    BY <1>1, <2>1, <2>2, QuietStep
<1>5. CASE SendNowhere(k)
  <2>1. SocketsType' /\ KeepsInUse /\ UNCHANGED file
    BY <1>1, <1>5 DEF SendNowhere, sockets, SocketsType, KeepsInUse, InUse, New
  <2>2. ActiveType' /\ SlotInLife'
    BY <1>1, <1>5 DEF SendNowhere, active, ActiveType, SlotInLife
  <2> QED
    BY <1>1, <2>1, <2>2, QuietStep
<1> QED
  BY <1>2, <1>3, <1>4, <1>5 DEF tcp_server_app_send, SendEnds

(* The far ends and the rest of the program. *)
LEMMA EnvironmentInvariant ==
    ASSUME IInv, Environment
    PROVE  IInv'
<1>1. /\ SocketsType /\ ActiveType /\ Serves /\ SlotInLife /\ NoDescriptorLeak
      /\ pc \in Pc /\ sock \in Fd \cup {None}
  BY DEF IInv, Types
<1>2. /\ ActiveType' /\ SlotInLife' /\ UNCHANGED <<pc, sock>>
      /\ pc' \in Pc /\ sock' \in Fd \cup {None}
  BY <1>1 DEF Environment, active, task, ActiveType, SlotInLife
<1>3. ASSUME NEW c \in Conn, PeerStep(c) \/ PeerReturns(c)
      PROVE  IInv'
  <2>1. SocketsType' /\ KeepsInUse /\ UNCHANGED file
    BY <1>1, <1>3, PeerType
  <2> QED
    BY <1>2, <2>1, QuietStep
<1>4. CASE OtherStep(Conn \ Client)
  <2>1. /\ SocketsType'
        /\ \A f \in Fd : file[f] \in Client => file'[f] = file[f]
        /\ \A f \in Fd : file'[f] \in Client => file'[f] = file[f]
        /\ \A d \in Client : link'[d] = link[d]
    BY <1>1, <1>4, OtherType, ClientAssumption
  <2>2. Types'
    BY <1>2, <2>1 DEF Types
  <2>3. Serves'
    BY <1>1, <1>2, <2>1 DEF Serves, InUse
  <2>4. NoDescriptorLeak'
    BY <1>1, <1>2, <2>1 DEF NoDescriptorLeak
  <2> QED
    BY <1>2, <2>2, <2>3, <2>4 DEF IInv
<1> QED
  BY <1>3, <1>4 DEF Environment

(* The task's own steps.                                                   *)
LEMMA TaskInvariant ==
    ASSUME IInv, tcp_server_task
    PROVE  IInv'
<1>1. /\ SocketsType /\ ActiveType /\ Serves /\ SlotInLife /\ NoDescriptorLeak
      /\ pc \in Pc /\ sock \in Fd \cup {None} /\ Types
  BY DEF IInv, Types
(* Steps that only move pc. *)
<1>2. ASSUME UNCHANGED <<sock, slot, mutex, file, link>>, pc' \in Pc,
             pc' \in Idle <=> pc \in Idle,
             slot # None => pc' \in Active
      PROVE  IInv'
  <2>1. Types' /\ Serves' /\ NoDescriptorLeak'
    BY <1>1, <1>2
    DEF Types, SocketsType, ActiveType, Serves, InUse, NoDescriptorLeak
  <2>2. SlotInLife'
    BY <1>1, <1>2 DEF SlotInLife
  <2> QED
    BY <2>1, <2>2 DEF IInv
<1>3. CASE Listen \/ ListenFails \/ AcceptFails
  <2>1. slot = None
    BY <1>1, <1>3 DEF Listen, ListenFails, AcceptFails, Goto, SlotInLife, Active
  <2> QED
    BY <1>2, <1>3, <2>1
    DEF Listen, ListenFails, AcceptFails, Goto, active, sockets, Pc, Idle
<1>4. CASE WelcomeFails \/ Notify \/ CallbackReturns
  BY <1>2, <1>4
  DEF WelcomeFails, Notify, CallbackReturns, Goto, active, sockets, Pc, Idle, Active
<1>5. CASE ReceiveEnds
  BY <1>2, <1>5 DEF ReceiveEnds, RecvEnds, Goto, active, sockets, Pc, Idle, Active
(* Steps that move pc and data. *)
<1>6. ASSUME SocketsType', KeepsInUse, UNCHANGED <<file, sock, slot, mutex>>,
             pc \in Active, pc' \in Active
      PROVE  IInv'
  <2>1. pc' \in Pc /\ pc' \notin Idle /\ pc \notin Idle
    BY <1>6 DEF Active, Pc, Idle
  <2>2. Types'
    BY <1>1, <1>6, <2>1 DEF Types, ActiveType
  <2>3. Serves'
    BY <1>1, <1>6, <2>1, ClientAssumption DEF Serves, KeepsInUse
  <2>4. SlotInLife' /\ NoDescriptorLeak'
    BY <1>1, <1>6 DEF SlotInLife, NoDescriptorLeak
  <2> QED
    BY <2>2, <2>3, <2>4 DEF IInv
<1>7. CASE Welcome
  <2>1. sock \in Fd
    BY <1>1, <1>7 DEF Welcome, Goto, Serves, Idle
  <2> QED
    BY <1>1, <1>6, <1>7, <2>1, SendDoneType DEF Welcome, Goto, active, Active
<1>8. CASE Receive
  <2>1. sock \in Fd /\ file[sock] \in Conn
    BY <1>1, <1>8, ClientAssumption DEF Receive, Goto, Serves, Idle
  <2> QED
    BY <1>1, <1>6, <1>8, <2>1, RecvDoneType DEF Receive, Goto, active, Active
<1>9. ASSUME NEW c \in Client, NEW f \in Fd, Accept(c, f)
      PROVE  IInv'
  <2>1. /\ file' \in [Fd -> Conn \cup {None}]
        /\ file[f] = None /\ file'[f] = c
        /\ \A g \in Fd : g # f => file'[g] = file[g]
    BY <1>1, <1>9, AllocateType, ClientAssumption DEF Accept
  <2>2. link' \in [Conn -> LinkType] /\ link'[c].state = "up"
    BY <1>1, <1>9, ToType, ClientAssumption DEF Accept, LinkState
  <2>3. /\ pc = "accept" /\ pc' = "activate" /\ sock = None /\ sock' = f
        /\ UNCHANGED <<slot, mutex>> /\ f # None
    BY <1>1, <1>9, SocketsAssumption DEF Accept, Goto, active, Serves, Idle
  <2>4. Types'
    BY <1>1, <2>1, <2>2, <2>3 DEF Types, SocketsType, ActiveType, Pc
  <2>5. Serves'
    BY <2>1, <2>2, <2>3 DEF Serves, InUse, Idle
  <2>6. SlotInLife'
    BY <1>1, <2>3 DEF SlotInLife, Active
  <2>7. NoDescriptorLeak'
    BY <1>1, <2>1, <2>3, SocketsAssumption DEF NoDescriptorLeak
  <2> QED
    BY <2>4, <2>5, <2>6, <2>7 DEF IInv
<1>10. CASE Activate
  <2>1. /\ pc = "activate" /\ pc' = "welcome" /\ mutex = None /\ slot' = sock
        /\ UNCHANGED <<mutex, sock, file, link>>
    BY <1>10 DEF Activate, Goto, set_active_socket, sockets
  <2>2. Types' /\ Serves' /\ NoDescriptorLeak'
    BY <1>1, <2>1
    DEF Types, SocketsType, ActiveType, Serves, InUse, NoDescriptorLeak, Pc, Idle
  <2>3. SlotInLife'
    BY <1>1, <2>1 DEF SlotInLife, Active
  <2> QED
    BY <2>2, <2>3 DEF IInv
<1>11. CASE Deactivate
  <2>1. /\ pc = "deactivate" /\ pc' = "close" /\ mutex = None /\ slot' = None
        /\ UNCHANGED <<mutex, sock, file, link>>
    BY <1>11 DEF Deactivate, Goto, set_active_socket, sockets
  <2>2. Types' /\ Serves' /\ NoDescriptorLeak'
    BY <1>1, <2>1
    DEF Types, SocketsType, ActiveType, Serves, InUse, NoDescriptorLeak, Pc, Idle
  <2>3. SlotInLife'
    BY <1>1, <2>1, CallerAssumption DEF SlotInLife
  <2> QED
    BY <2>2, <2>3 DEF IInv
<1>12. CASE Close
  <2>1. /\ pc = "close" /\ pc' = "accept" /\ sock' = None /\ UNCHANGED <<slot, mutex>>
    BY <1>12 DEF Close, Goto, active
  <2>2. sock \in Fd /\ file[sock] \in Conn /\ slot = None /\ mutex \notin Caller
    BY <1>1, <2>1, ClientAssumption DEF Serves, SlotInLife, Idle, Active
  <2>3. /\ SocketsType'
        /\ file'[sock] = None
        /\ \A g \in Fd : g # sock => file'[g] = file[g]
    BY <1>1, <1>12, <2>2, ShutType DEF Close
  <2>4. Types' /\ Serves' /\ SlotInLife'
    BY <1>1, <2>1, <2>2, <2>3 DEF Types, ActiveType, Serves, SlotInLife, Pc, Idle
  <2>5. NoDescriptorLeak'
    BY <1>1, <2>1, <2>3, SocketsAssumption, ClientAssumption DEF NoDescriptorLeak
  <2> QED
    BY <2>4, <2>5 DEF IInv
<1> QED
  BY <1>3, <1>4, <1>5, <1>7, <1>8, <1>9, <1>10, <1>11, <1>12, RestartInvariant DEF tcp_server_task, Serve, ActivateCrashes

(* Every step of the system.                                               *)
LEMMA StepInvariant == IInv /\ [Next]_vars => IInv'
<1> SUFFICES ASSUME IInv, [Next]_vars
             PROVE  IInv'
  OBVIOUS
<1>1. CASE UNCHANGED vars
  BY <1>1 DEF vars, IInv, Types, SocketsType, ActiveType, Serves, InUse, SlotInLife,
              NoDescriptorLeak
<1> QED
  BY <1>1, StartInvariant, TaskInvariant, SendInvariant, RestartInvariant,
     EnvironmentInvariant DEF Next, SendCrashes

(* The invariant holds in every reachable state.                           *)
LEMMA Invariant == Spec => []IInv
BY InitInvariant, StepInvariant, PTL DEF Spec

(* Every variable keeps its type, and the task its descriptor.             *)
THEOREM TypeCorrect == Spec => []TypeOK
<1>1. IInv => TypeOK
  BY DEF IInv, Serves, TypeOK
<1> QED
  BY <1>1, Invariant, PTL

(* Whatever the other tasks close and open meanwhile, a send in progress   *)
(* is on the connection of the client being served.                        *)
THEOREM SendsToServedClientCorrect == Spec => []SendsToServedClient
<1>1. IInv => SendsToServedClient
  BY DEF IInv, SlotInLife, Serves, InUse, SendsToServedClient
<1> QED
  BY <1>1, Invariant, PTL

(* After any number of clients, at most the descriptor of the one being    *)
(* served is open.                                                         *)
THEOREM NoDescriptorLeakCorrect == Spec => []NoDescriptorLeak
<1>1. IInv => NoDescriptorLeak
  BY DEF IInv
<1> QED
  BY <1>1, Invariant, PTL
=============================================================================
