-------------------------- MODULE ProxySystemProofs --------------------------
(***************************************************************************)
(* Theorems about ProxySystem, for any number of connections, descriptors  *)
(* and messages, any size of the queues and any interleaving of the tasks, *)
(* the loops, the far ends and crashes: what the components promise holds  *)
(* when they share the sockets, and messages cross over in order.          *)
(***************************************************************************)
EXTENDS ProxySystem, SocketsProofs, SequenceTheorems

(* The server task has a descriptor exactly while it serves; it stands for *)
(* the client it accepted; the slot is set only within the life of that    *)
(* descriptor, and the mutex held only while it is set.                    *)
ServerHolds ==
    /\ s_pc \in Server!Pc
    /\ s_fd \in Fd \cup {None} /\ s_slot \in Fd \cup {None}
    /\ s_mutex \in {"loop", None, Absent}
    /\ s_pc \in Server!Idle <=> s_fd = None
    /\ s_fd # None => file[s_fd] \in Local /\ InUse(file[s_fd])
    /\ s_slot # None =>
        /\ s_slot = s_fd
        /\ s_pc \in {"welcome", "notify", "recv", "callback", "deactivate"}
    /\ s_mutex = "loop" => s_slot # None
    /\ \A f \in Fd : file[f] \in Local => f = s_fd

(* As for the client task, from socket() to close(). *)
ClientHolds ==
    /\ c_pc \in Client!Pc
    /\ c_fd \in Fd \cup {None} /\ c_slot \in Fd \cup {None}
    /\ c_mutex \in {"loop", None, Absent}
    /\ c_pc \in Client!Idle <=> c_fd = None
    /\ c_fd # None => file[c_fd] \in Remote
    /\ c_fd # None => IF c_pc = "connecting" THEN New(file[c_fd]) ELSE InUse(file[c_fd])
    /\ c_slot # None =>
        /\ c_slot = c_fd
        /\ c_pc \in {"recv", "callback", "deactivate"}
    /\ c_mutex = "loop" => c_slot # None
    /\ \A f \in Fd : file[f] \in Remote => f = c_fd

Sides == SocketsType /\ ServerHolds /\ ClientHolds

(* No more is received from a connection than it may write. *)
Counted ==
    /\ received \in [Conn -> Nat]
    /\ \A c \in Conn : received[c] + link[c].inbound <= MaxMessages[c]

(* The client starts after the server, and without it nothing comes from   *)
(* the remote host.                                                        *)
Started ==
    /\ c_pc # "off" => s_pc # "off"
    /\ c_pc = "off" =>
        /\ \A i \in DOMAIN p_pending : p_pending[i].from \in Local
        /\ p_current # None => p_current.from \in Local

(* Each task posts what its own side sent; the client task posts a packet  *)
(* to one loop and then to the other, and only while its callback runs.    *)
Posts ==
    /\ p_offer["server"] # None => p_offer["server"].from \in Local
    /\ p_offer["client"] # None => p_offer["client"].from \in Remote
    /\ c_pc # "callback" => p_offer["client"] = None /\ d_offer["client"] = None
    /\ d_offer["client"] # None =>
        p_offer["client"] = None /\ received[file[c_fd]] > 0

Loops ==
    /\ Proxy!TypeOK /\ Doppler!TypeOK
    /\ step \in {"idle", "process", "send"}
    /\ step = "idle" <=> p_current = None
    /\ got \in [Conn -> Seq(Message)]

(* What was delivered of c's messages is older than its n-th, and so is    *)
(* what waits or is being handled.                                         *)
AfterGot(c, n) == \A d \in Conn : \A i \in DOMAIN got[d] : got[d][i].from = c => got[d][i].n < n
AfterCurrent(c, n) == p_current # None /\ p_current.from = c => p_current.n < n
AfterPending(c, n) == \A i \in DOMAIN p_pending : p_pending[i].from = c => p_pending[i].n < n
Newest(c, n) == AfterGot(c, n) /\ AfterCurrent(c, n) /\ AfterPending(c, n)

(* The numbers rise from what was delivered to what is received next.      *)
Rising ==
    /\ p_current # None => AfterGot(p_current.from, p_current.n)
    /\ \A i \in DOMAIN p_pending :
        /\ AfterGot(p_pending[i].from, p_pending[i].n)
        /\ AfterCurrent(p_pending[i].from, p_pending[i].n)
    /\ \A i, j \in DOMAIN p_pending :
        i < j /\ p_pending[i].from = p_pending[j].from => p_pending[i].n < p_pending[j].n
    /\ \A t \in Task : p_offer[t] # None =>
        /\ Newest(p_offer[t].from, p_offer[t].n)
        /\ p_offer[t].n <= received[p_offer[t].from]
    /\ d_offer["client"] # None => Newest(file[c_fd], received[file[c_fd]])
    /\ \A c \in Conn : Newest(c, received[c] + 1)

Messages == Loops /\ Posts /\ Started /\ Rising /\ CrossesOver /\ InOrder

IInv == Sides /\ Counted /\ Messages

-----------------------------------------------------------------------------
(* The descriptors of one side stay as they are, its connections in use    *)
(* stay in use and those not yet made as they are.                         *)
Untouched(side) ==
    /\ \A f \in Fd : file[f] \in side \/ file'[f] \in side => file'[f] = file[f]
    /\ \A c \in side : (InUse(c) => InUse(c)') /\ (New(c) => New(c)')

SameInbound == \A c \in Conn : link'[c].inbound = link[c].inbound

(* Nothing the rest of the program does to its own descriptors disturbs    *)
(* the server task.                                                        *)
LEMMA ServerUntouched ==
    ASSUME ServerHolds, UNCHANGED server, Untouched(Local)
    PROVE  ServerHolds'
<1>1. UNCHANGED <<s_pc, s_fd, s_slot, s_mutex>>
  BY DEF server
<1> QED
  BY <1>1 DEF ServerHolds, Untouched, Server!Pc, Server!Idle

(* As for the client task. *)
LEMMA ClientUntouched ==
    ASSUME ClientHolds, UNCHANGED client, Untouched(Remote)
    PROVE  ClientHolds'
<1>1. UNCHANGED <<c_pc, c_fd, c_slot, c_mutex>>
  BY DEF client
<1> QED
  BY <1>1 DEF ClientHolds, Untouched, Client!Pc, Client!Idle

(* A step that leaves the descriptors alone and frees no connection.       *)
LEMMA KeptIsUntouched ==
    ASSUME KeepsInUse, UNCHANGED file, NEW side \in SUBSET Conn
    PROVE  Untouched(side)
BY DEF KeepsInUse, Untouched

(* The calls of tcp_server_app_send touch neither the task nor its         *)
(* descriptor, and give the mutex back when they end.                      *)
LEMMA ServerSendSides ==
    ASSUME Sides, UNCHANGED <<s_pc, s_fd, client>>,
           \/ Server!SendBegins("loop") \/ Server!SendOk("loop")
           \/ Server!SendError("loop") \/ Server!SendNowhere("loop")
    PROVE  Sides' /\ SameInbound /\ UNCHANGED file
<1>1. /\ SocketsType /\ ServerHolds /\ ClientHolds
      /\ Local \in SUBSET Conn /\ Remote \in SUBSET Conn
  BY SidesAssumption DEF Sides
<1>2. SocketsType' /\ KeepsInUse /\ UNCHANGED file /\ SameInbound
  <2>1. CASE Server!SendOk("loop")
    <3>1. s_slot \in Fd /\ SendDone(s_slot)
      BY <1>1, <2>1, AbsentAssumption
      DEF ServerHolds, Server!SendOk, Server!SendDone, Server!Room, SendDone, Room
    <3> QED
      BY <1>1, <3>1, SendDoneType DEF SameInbound
  <2>2. CASE UNCHANGED sockets
    BY <1>1, <2>2 DEF sockets, SocketsType, KeepsInUse, InUse, New, SameInbound
  <2> QED
    BY <2>1, <2>2
    DEF Server!SendBegins, Server!SendError, Server!SendNowhere, Server!sockets, sockets
<1>3. /\ s_slot' = s_slot
      /\ s_mutex' \in {"loop", None, s_mutex}
      /\ s_mutex' = "loop" => s_slot # None
  BY <1>1 DEF Server!SendBegins, Server!SendOk, Server!SendError, Server!SendNowhere,
              Server!active, ServerHolds
<1>4. ServerHolds'
  BY <1>1, <1>2, <1>3 DEF ServerHolds, KeepsInUse, Server!Pc, Server!Idle
<1>5. ClientHolds'
  BY <1>1, <1>2, KeptIsUntouched, ClientUntouched
<1> QED
  BY <1>2, <1>4, <1>5 DEF Sides

(* Those of tcp_client_app_send. *)
LEMMA ClientSendSides ==
    ASSUME Sides, UNCHANGED <<c_pc, c_fd, server>>,
           \/ Client!SendBegins("loop") \/ Client!SendOk("loop")
           \/ Client!SendError("loop") \/ Client!SendNowhere("loop")
           \/ Client!SendUnstarted("loop")
    PROVE  Sides' /\ SameInbound /\ UNCHANGED file
<1>1. /\ SocketsType /\ ServerHolds /\ ClientHolds
      /\ Local \in SUBSET Conn /\ Remote \in SUBSET Conn
  BY SidesAssumption DEF Sides
<1>2. SocketsType' /\ KeepsInUse /\ UNCHANGED file /\ SameInbound
  <2>1. CASE Client!SendOk("loop")
    <3>1. c_slot \in Fd /\ SendDone(c_slot)
      BY <1>1, <2>1, AbsentAssumption
      DEF ClientHolds, Client!SendOk, Client!SendDone, Client!Room, SendDone, Room
    <3> QED
      BY <1>1, <3>1, SendDoneType DEF SameInbound
  <2>2. CASE UNCHANGED sockets
    BY <1>1, <2>2 DEF sockets, SocketsType, KeepsInUse, InUse, New, SameInbound
  <2> QED
    BY <2>1, <2>2
    DEF Client!SendBegins, Client!SendError, Client!SendNowhere, Client!SendUnstarted,
        Client!sockets, sockets
<1>3. /\ c_slot' = c_slot
      /\ c_mutex' \in {"loop", None, c_mutex}
      /\ c_mutex' = "loop" => c_slot # None
  BY <1>1 DEF Client!SendBegins, Client!SendOk, Client!SendError, Client!SendNowhere,
              Client!SendUnstarted, Client!active, ClientHolds
<1>4. ClientHolds'
  BY <1>1, <1>2, <1>3 DEF ClientHolds, KeepsInUse, Client!Pc, Client!Idle
<1>5. ServerHolds'
  BY <1>1, <1>2, KeptIsUntouched, ServerUntouched
<1> QED
  BY <1>2, <1>4, <1>5 DEF Sides

(* A step of the server task that moves neither descriptors nor the slot.  *)
LEMMA ServerMoveSides ==
    ASSUME Sides, SocketsType', KeepsInUse,
           UNCHANGED <<file, s_fd, s_slot, client>>,
           s_mutex' \in {s_mutex, None, Absent},
           s_pc' \in Server!Pc, s_pc' \in Server!Idle <=> s_pc \in Server!Idle,
           s_slot # None => s_pc' \in {"welcome", "notify", "recv", "callback", "deactivate"}
    PROVE  Sides'
<1>1. /\ SocketsType /\ ServerHolds /\ ClientHolds
      /\ Local \in SUBSET Conn /\ Remote \in SUBSET Conn
  BY SidesAssumption DEF Sides
<1>2. ServerHolds'
  BY <1>1, AbsentAssumption DEF ServerHolds, KeepsInUse, Server!Pc, Server!Idle
<1>3. ClientHolds'
  BY <1>1, KeptIsUntouched, ClientUntouched
<1> QED
  BY <1>2, <1>3 DEF Sides

(* The server task's steps but for what it receives. *)
LEMMA ServerSides ==
    ASSUME Sides, UNCHANGED client,
           \/ Server!tcp_server_app_start \/ Server!CallbackReturns
           \/ ServerOther
    PROVE  Sides' /\ SameInbound /\ (c_fd # None => file'[c_fd] = file[c_fd])
<1>1. /\ SocketsType /\ ServerHolds /\ ClientHolds
      /\ Local \in SUBSET Conn /\ Remote \in SUBSET Conn
  BY SidesAssumption DEF Sides
<1>2. ASSUME UNCHANGED sockets
      PROVE  SocketsType' /\ KeepsInUse /\ UNCHANGED file /\ SameInbound
  BY <1>1, <1>2 DEF sockets, SocketsType, KeepsInUse, InUse, New, SameInbound
<1>3. CASE Server!tcp_server_app_start
  <2>1. s_pc = "off" /\ s_slot = None
    BY <1>1, <1>3 DEF Server!tcp_server_app_start, ServerHolds
  <2> QED
    BY <1>2, <1>3, <2>1, ServerMoveSides
    DEF Server!tcp_server_app_start, Server!sockets, sockets, Server!Pc, Server!Idle
<1>4. CASE Server!Listen \/ Server!ListenFails \/ Server!AcceptFails
  <2>1. s_slot = None
    BY <1>1, <1>4
    DEF Server!Listen, Server!ListenFails, Server!AcceptFails, Server!Goto, ServerHolds
  <2> QED
    BY <1>2, <1>4, <2>1, ServerMoveSides
    DEF Server!Listen, Server!ListenFails, Server!AcceptFails, Server!Goto,
        Server!active, Server!sockets, sockets, Server!Pc, Server!Idle
<1>5. CASE \/ Server!WelcomeFails \/ Server!Notify \/ Server!CallbackReturns
           \/ Server!ReceiveEnds
  BY <1>2, <1>5, ServerMoveSides
  DEF Server!WelcomeFails, Server!Notify, Server!CallbackReturns, Server!ReceiveEnds,
      Server!RecvEnds, Server!Goto, Server!active, Server!sockets, sockets,
      Server!Pc, Server!Idle
<1>6. CASE Server!Welcome
  <2>1. /\ s_pc = "welcome" /\ s_pc' = "notify" /\ UNCHANGED <<s_fd, s_slot, s_mutex>>
        /\ SendDone(s_fd)
    BY <1>6 DEF Server!Welcome, Server!Goto, Server!active, Server!SendDone, Server!Room,
                SendDone, Room
  <2>2. s_fd \in Fd
    BY <1>1, <2>1 DEF ServerHolds, Server!Idle
  <2>3. SocketsType' /\ KeepsInUse /\ UNCHANGED file /\ SameInbound
    BY <1>1, <2>1, <2>2, SendDoneType DEF SameInbound
  <2> QED
    BY <2>1, <2>3, ServerMoveSides DEF Server!Pc, Server!Idle
<1>7. ASSUME NEW c \in Local, NEW f \in Fd, Server!Accept(c, f)
      PROVE  Sides' /\ SameInbound /\ (c_fd # None => file'[c_fd] = file[c_fd])
  <2>1. /\ s_pc = "accept" /\ s_pc' = "activate" /\ s_fd' = f
        /\ UNCHANGED <<s_slot, s_mutex>>
        /\ Allocate(f, c) /\ To(c, "up")
    BY <1>7 DEF Server!Accept, Server!Goto, Server!active, Server!Allocate, Server!To,
                Allocate, To
  <2>2. /\ file' \in [Fd -> Conn \cup {None}]
        /\ file[f] = None /\ file'[f] = c
        /\ \A g \in Fd : g # f => file'[g] = file[g]
    BY <1>1, <2>1, AllocateType
  <2>3. /\ link' \in [Conn -> LinkType] /\ link'[c].state = "up"
        /\ link'[c].inbound = link[c].inbound
        /\ \A d \in Conn : d # c => link'[d] = link[d]
    BY <1>1, <2>1, ToType DEF LinkState
  <2>4. ServerHolds'
    <3>1. s_fd = None /\ s_slot = None /\ s_mutex # "loop" /\ f # None
      BY <1>1, <2>1, SocketsAssumption DEF ServerHolds, Server!Idle
    <3>2. \A g \in Fd : file'[g] \in Local => g = f
      BY <1>1, <2>2, <3>1, SocketsAssumption DEF ServerHolds
    <3> QED
      BY <1>1, <2>1, <2>2, <2>3, <3>1, <3>2 DEF ServerHolds, InUse, Server!Pc, Server!Idle
  <2>5. Untouched(Remote)
    BY <1>1, <2>2, <2>3, SidesAssumption, SocketsAssumption DEF Untouched, InUse, New
  <2>6. SocketsType' /\ SameInbound
    BY <1>1, <2>2, <2>3 DEF SocketsType, SameInbound
  <2> QED
    BY <1>1, <2>4, <2>5, <2>6, ClientUntouched DEF Sides, ClientHolds, Untouched
<1>8. CASE Server!Activate \/ Server!Deactivate
  <2>1. /\ s_pc \in {"activate", "deactivate"}
        /\ s_pc' \in {"welcome", "close"}
        /\ s_pc' = "close" => s_slot' = None
        /\ s_slot' \in {s_fd, None} /\ s_mutex = None
        /\ UNCHANGED <<s_fd, s_mutex, file, link>>
    BY <1>8 DEF Server!Activate, Server!Deactivate, Server!Goto, Server!set_active_socket,
                Server!sockets
  <2>2. ServerHolds'
    BY <1>1, <2>1, AbsentAssumption DEF ServerHolds, InUse, Server!Pc, Server!Idle
  <2>3. SocketsType' /\ KeepsInUse /\ SameInbound
    BY <1>2, <2>1 DEF sockets
  <2> QED
    BY <1>1, <2>1, <2>2, <2>3, KeptIsUntouched, ClientUntouched DEF Sides
<1>9. CASE Server!Close
  <2>1. /\ s_pc = "close" /\ s_pc' = "accept" /\ s_fd' = None
        /\ UNCHANGED <<s_slot, s_mutex>> /\ Shut(s_fd)
    BY <1>9 DEF Server!Close, Server!Goto, Server!active, Server!Shut, Shut
  <2>2. s_fd \in Fd /\ file[s_fd] \in Local /\ s_slot = None /\ s_mutex # "loop"
    BY <1>1, <2>1 DEF ServerHolds, Server!Idle
  <2>3. /\ SocketsType'
        /\ file'[s_fd] = None
        /\ \A g \in Fd : g # s_fd => file'[g] = file[g]
        /\ \A d \in Conn : d # file[s_fd] => link'[d] = link[d]
        /\ link'[file[s_fd]].inbound = link[file[s_fd]].inbound
    BY <1>1, <2>1, <2>2, ShutType
  <2>4. ServerHolds'
    BY <1>1, <2>1, <2>2, <2>3, SocketsAssumption DEF ServerHolds, Server!Pc, Server!Idle
  <2>5. Untouched(Remote)
    BY <1>1, <2>2, <2>3, SidesAssumption, SocketsAssumption DEF Untouched, InUse, New
  <2> QED
    BY <1>1, <2>3, <2>4, <2>5, ClientUntouched
    DEF Sides, SameInbound, ClientHolds, Untouched
<1> QED
  BY <1>3, <1>4, <1>5, <1>6, <1>7, <1>8, <1>9 DEF ServerOther

(* What the server task receives is one less to receive. *)
LEMMA ServerReceiveSides ==
    ASSUME Sides, UNCHANGED client, Server!Receive
    PROVE  /\ Sides' /\ UNCHANGED file
           /\ s_fd \in Fd /\ file[s_fd] \in Local
           /\ link'[file[s_fd]].inbound = link[file[s_fd]].inbound - 1
           /\ \A d \in Conn : d # file[s_fd] => link'[d] = link[d]
<1>1. /\ SocketsType /\ s_pc = "recv" /\ s_pc' = "callback" /\ RecvDone(s_fd)
      /\ UNCHANGED <<s_fd, s_slot, s_mutex>>
  BY DEF Sides, Server!Receive, Server!Goto, Server!active, Server!RecvDone, RecvDone
<1>2. s_fd \in Fd /\ file[s_fd] \in Local /\ file[s_fd] \in Conn
  BY <1>1, SidesAssumption DEF Sides, ServerHolds, Server!Idle
<1>3. /\ SocketsType' /\ KeepsInUse /\ UNCHANGED file
      /\ link'[file[s_fd]].inbound = link[file[s_fd]].inbound - 1
      /\ \A d \in Conn : d # file[s_fd] => link'[d] = link[d]
  BY <1>1, <1>2, RecvDoneType
<1>4. Sides'
  BY <1>1, <1>3, ServerMoveSides DEF Server!Pc, Server!Idle
<1> QED
  BY <1>2, <1>3, <1>4

(* A step of the client task that moves neither descriptors nor the slot.  *)
LEMMA ClientMoveSides ==
    ASSUME Sides, SocketsType', KeepsInUse,
           UNCHANGED <<file, c_fd, c_slot, server>>,
           c_mutex' \in {c_mutex, None, Absent},
           c_pc' \in Client!Pc, c_pc' \in Client!Idle <=> c_pc \in Client!Idle,
           c_pc # "connecting", c_pc' # "connecting",
           c_slot # None => c_pc' \in {"recv", "callback", "deactivate"}
    PROVE  Sides'
<1>1. /\ SocketsType /\ ServerHolds /\ ClientHolds
      /\ Local \in SUBSET Conn /\ Remote \in SUBSET Conn
  BY SidesAssumption DEF Sides
<1>2. ClientHolds'
  BY <1>1, AbsentAssumption DEF ClientHolds, KeepsInUse, Client!Pc, Client!Idle
<1>3. ServerHolds'
  BY <1>1, KeptIsUntouched, ServerUntouched
<1> QED
  BY <1>2, <1>3 DEF Sides

(* The client task's steps but for what it receives. *)
LEMMA ClientSides ==
    ASSUME Sides, UNCHANGED server,
           \/ Client!tcp_client_app_start \/ Client!CallbackReturns
           \/ ClientOther
    PROVE  Sides' /\ SameInbound
<1>1. /\ SocketsType /\ ServerHolds /\ ClientHolds
      /\ Local \in SUBSET Conn /\ Remote \in SUBSET Conn
  BY SidesAssumption DEF Sides
<1>2. ASSUME UNCHANGED sockets
      PROVE  SocketsType' /\ KeepsInUse /\ UNCHANGED file /\ SameInbound
  BY <1>1, <1>2 DEF sockets, SocketsType, KeepsInUse, InUse, New, SameInbound
<1>3. CASE Client!tcp_client_app_start
  <2>1. /\ c_pc = "off" /\ c_pc' \in {"connect", "dead"} /\ c_mutex' \in {None, Absent}
        /\ UNCHANGED <<c_slot, c_fd, file, link>>
    BY <1>3 DEF Client!tcp_client_app_start, Client!Start, Client!StartFails, Client!Goto,
                Client!sockets
  <2>2. c_slot = None
    BY <1>1, <2>1 DEF ClientHolds
  <2> QED
    BY <1>2, <2>1, <2>2, ClientMoveSides DEF sockets, Client!Pc, Client!Idle
<1>4. CASE Client!ResolveFails \/ Client!Delay
  <2>1. c_slot = None
    BY <1>1, <1>4 DEF Client!ResolveFails, Client!Delay, Client!Goto, ClientHolds
  <2> QED
    BY <1>2, <1>4, <2>1, ClientMoveSides
    DEF Client!ResolveFails, Client!Delay, Client!Goto, Client!active, Client!sockets,
        sockets, Client!Pc, Client!Idle
<1>5. CASE Client!CallbackReturns \/ Client!ReceiveEnds
  BY <1>2, <1>5, ClientMoveSides
  DEF Client!CallbackReturns, Client!ReceiveEnds, Client!RecvEnds, Client!Goto,
      Client!active, Client!sockets, sockets, Client!Pc, Client!Idle
<1>6. ASSUME NEW c \in Remote, NEW f \in Fd, Client!OpenSocket(c, f)
      PROVE  Sides' /\ SameInbound
  <2>1. /\ c_pc = "connect" /\ c_pc' = "connecting" /\ c_fd' = f
        /\ UNCHANGED <<c_slot, c_mutex, link>> /\ Allocate(f, c) /\ New(c)
    BY <1>6 DEF New, Client!OpenSocket, Client!Goto, Client!active, Client!Allocate, Allocate
  <2>2. /\ file' \in [Fd -> Conn \cup {None}]
        /\ file[f] = None /\ file'[f] = c
        /\ \A g \in Fd : g # f => file'[g] = file[g]
    BY <1>1, <2>1, AllocateType
  <2>3. ClientHolds'
    <3>1. c_fd = None /\ c_slot = None /\ c_mutex # "loop" /\ f # None
      BY <1>1, <2>1, SocketsAssumption DEF ClientHolds, Client!Idle
    <3>2. \A g \in Fd : file'[g] \in Remote => g = f
      BY <1>1, <2>2, <3>1, SocketsAssumption DEF ClientHolds
    <3> QED
      BY <1>1, <2>1, <2>2, <3>1, <3>2 DEF ClientHolds, New, Client!Pc, Client!Idle
  <2>4. Untouched(Local)
    BY <1>1, <2>1, <2>2, SidesAssumption, SocketsAssumption DEF Untouched, InUse, New
  <2>5. SocketsType' /\ SameInbound
    BY <1>1, <2>1, <2>2 DEF SocketsType, SameInbound
  <2> QED
    BY <1>1, <2>3, <2>4, <2>5, ServerUntouched DEF Sides
<1>7. CASE Client!Connected
  <2>1. /\ c_pc = "connecting" /\ c_pc' = "activate" /\ To(file[c_fd], "up")
        /\ UNCHANGED <<file, c_fd, c_slot, c_mutex>>
    BY <1>7 DEF Client!Connected, Client!Goto, Client!active, Client!To, To
  <2>2. file[c_fd] \in Remote /\ c_slot = None
    BY <1>1, <2>1 DEF ClientHolds, Client!Idle
  <2>3. /\ link' \in [Conn -> LinkType] /\ link'[file[c_fd]].state = "up"
        /\ link'[file[c_fd]].inbound = link[file[c_fd]].inbound
        /\ \A d \in Conn : d # file[c_fd] => link'[d] = link[d]
    BY <1>1, <2>1, <2>2, ToType DEF LinkState
  <2>4. ClientHolds'
    BY <1>1, <2>1, <2>2, <2>3 DEF ClientHolds, InUse, Client!Pc, Client!Idle
  <2>5. Untouched(Local)
    BY <1>1, <2>1, <2>2, <2>3, SidesAssumption DEF Untouched, InUse, New
  <2>6. SocketsType' /\ SameInbound
    BY <1>1, <2>1, <2>3 DEF SocketsType, SameInbound
  <2> QED
    BY <1>1, <2>4, <2>5, <2>6, ServerUntouched DEF Sides
<1>8. CASE Client!Activate \/ Client!Deactivate
  <2>1. /\ c_pc \in {"activate", "deactivate"}
        /\ c_pc' \in {"recv", "close"}
        /\ c_pc' = "close" => c_slot' = None
        /\ c_slot' \in {c_fd, None} /\ c_mutex = None
        /\ UNCHANGED <<c_fd, c_mutex, file, link>>
    BY <1>8 DEF Client!Activate, Client!Deactivate, Client!Goto, Client!set_active_socket,
                Client!sockets
  <2>2. ClientHolds'
    BY <1>1, <2>1, AbsentAssumption DEF ClientHolds, InUse, Client!Pc, Client!Idle
  <2>3. SocketsType' /\ KeepsInUse /\ SameInbound
    BY <1>2, <2>1 DEF sockets
  <2> QED
    BY <1>1, <2>1, <2>2, <2>3, KeptIsUntouched, ServerUntouched DEF Sides
<1>9. CASE Client!Close \/ Client!Refused
  <2>1. /\ c_pc \in {"close", "connecting"} /\ c_pc' = "delay" /\ c_fd' = None
        /\ UNCHANGED <<c_slot, c_mutex>> /\ Shut(c_fd)
    BY <1>9 DEF Client!Close, Client!Refused, Client!Goto, Client!active, Client!Shut, Shut
  <2>2. c_fd \in Fd /\ file[c_fd] \in Remote /\ c_slot = None /\ c_mutex # "loop"
    BY <1>1, <2>1 DEF ClientHolds, Client!Idle
  <2>3. /\ SocketsType'
        /\ file'[c_fd] = None
        /\ \A g \in Fd : g # c_fd => file'[g] = file[g]
        /\ \A d \in Conn : d # file[c_fd] => link'[d] = link[d]
        /\ link'[file[c_fd]].inbound = link[file[c_fd]].inbound
    BY <1>1, <2>1, <2>2, ShutType
  <2>4. ClientHolds'
    BY <1>1, <2>1, <2>2, <2>3, SocketsAssumption DEF ClientHolds, Client!Pc, Client!Idle
  <2>5. Untouched(Local)
    BY <1>1, <2>2, <2>3, SidesAssumption, SocketsAssumption DEF Untouched, InUse, New
  <2> QED
    BY <1>1, <2>3, <2>4, <2>5, ServerUntouched DEF Sides, SameInbound
<1> QED
  BY <1>3, <1>4, <1>5, <1>6, <1>7, <1>8, <1>9 DEF ClientOther

(* What the client task receives is one less to receive. *)
LEMMA ClientReceiveSides ==
    ASSUME Sides, UNCHANGED server, Client!Receive
    PROVE  /\ Sides' /\ UNCHANGED <<file, c_fd>>
           /\ c_pc = "recv" /\ c_pc' \in {"recv", "callback"}
           /\ c_fd \in Fd /\ file[c_fd] \in Remote
           /\ link'[file[c_fd]].inbound = link[file[c_fd]].inbound - 1
           /\ \A d \in Conn : d # file[c_fd] => link'[d] = link[d]
<1>1. /\ SocketsType /\ c_pc = "recv" /\ c_pc' \in {"recv", "callback"} /\ RecvDone(c_fd)
      /\ UNCHANGED <<c_fd, c_slot, c_mutex>>
  BY DEF Sides, Client!Receive, Client!Goto, Client!active, Client!RecvDone, RecvDone
<1>2. c_fd \in Fd /\ file[c_fd] \in Remote /\ file[c_fd] \in Conn
  BY <1>1, SidesAssumption DEF Sides, ClientHolds, Client!Idle
<1>3. /\ SocketsType' /\ KeepsInUse /\ UNCHANGED file
      /\ link'[file[c_fd]].inbound = link[file[c_fd]].inbound - 1
      /\ \A d \in Conn : d # file[c_fd] => link'[d] = link[d]
  BY <1>1, <1>2, RecvDoneType
<1>4. Sides'
  BY <1>1, <1>3, ClientMoveSides DEF Client!Pc, Client!Idle
<1> QED
  BY <1>1, <1>2, <1>3, <1>4

(* The far ends disturb neither task. *)
LEMMA PeersSides ==
    ASSUME Sides, Peers
    PROVE  Sides' /\ UNCHANGED file
<1>1. PICK c \in Conn : PeerStep(c)
  BY DEF Peers
<1>2. SocketsType' /\ KeepsInUse /\ UNCHANGED file
  BY <1>1, PeerType DEF Sides
<1>3. UNCHANGED server /\ UNCHANGED client
  BY DEF Peers
<1> QED
  BY <1>2, <1>3, KeptIsUntouched, ServerUntouched, ClientUntouched, SidesAssumption
  DEF Sides

(* The state app_main starts from. *)
LEMMA InitSides ==
    ASSUME SocketsInit, s_pc = "off", s_fd = None, s_slot = None, s_mutex = Absent,
           c_pc = "off", c_fd = None, c_slot = None, c_mutex = Absent
    PROVE  Sides /\ \A c \in Conn : link[c].inbound = 0
<1>1. SocketsType /\ \A c \in Conn : link[c].inbound = 0
  BY SocketsAssumption DEF SocketsInit, SocketsType, LinkType, LinkState, Fresh
<1>2. \A f \in Fd : file[f] \notin Local /\ file[f] \notin Remote
  BY SocketsAssumption, SidesAssumption DEF SocketsInit
<1>3. ServerHolds
  BY <1>2, AbsentAssumption DEF ServerHolds, Server!Pc, Server!Idle
<1>4. ClientHolds
  BY <1>2, AbsentAssumption DEF ClientHolds, Client!Pc, Client!Idle
<1> QED
  BY <1>1, <1>3, <1>4 DEF Sides

-----------------------------------------------------------------------------
(* What an action of the proxy's channel does to the messages it holds. *)
LEMMA OfferTypes ==
    ASSUME Proxy!TypeOK, NEW t \in Task
    PROVE  p_offer[t] # None => p_offer[t] \in Message
BY DEF Proxy!TypeOK

LEMMA PendingTypes ==
    ASSUME Proxy!TypeOK
    PROVE  /\ p_pending \in Seq(Message)
           /\ Len(p_pending) \in Nat /\ DOMAIN p_pending = 1..Len(p_pending)
           /\ \A i \in DOMAIN p_pending : p_pending[i] \in Message /\ p_pending[i] # None
           /\ p_current # None => p_current \in Message
BY DEF Proxy!TypeOK

LEMMA CallStep ==
    ASSUME Proxy!TypeOK, NEW t \in Task, NEW m \in Message, Proxy!Call(t, m)
    PROVE  /\ Proxy!TypeOK'
           /\ p_offer'[t] = m
           /\ \A u \in Task : u # t => p_offer'[u] = p_offer[u]
           /\ UNCHANGED <<p_pending, p_current>>
BY DEF Proxy!TypeOK, Proxy!Call

LEMMA DropStep ==
    ASSUME Proxy!TypeOK, NEW t \in Task, Proxy!Drop(t)
    PROVE  /\ Proxy!TypeOK'
           /\ p_offer[t] # None /\ p_offer'[t] = None
           /\ \A u \in Task : u # t => p_offer'[u] = p_offer[u]
           /\ UNCHANGED <<p_pending, p_current>>
BY DEF Proxy!TypeOK, Proxy!Drop

LEMMA AcceptStep ==
    ASSUME Proxy!TypeOK, NEW t \in Task, Proxy!Accept(t)
    PROVE  /\ Proxy!TypeOK'
           /\ p_offer[t] # None /\ p_offer'[t] = None
           /\ \A u \in Task : u # t => p_offer'[u] = p_offer[u]
           /\ DOMAIN p_pending' = 1..(Len(p_pending) + 1)
           /\ \A i \in DOMAIN p_pending : p_pending'[i] = p_pending[i]
           /\ p_pending'[Len(p_pending) + 1] = p_offer[t]
           /\ UNCHANGED p_current
<1>1. /\ p_offer[t] \in Message \ {None} /\ Len(p_pending) < QueueSize
      /\ p_pending \in Seq(Message \ {None})
      /\ p_pending' = Append(p_pending, p_offer[t])
      /\ p_offer' = [p_offer EXCEPT ![t] = None] /\ UNCHANGED p_current
  BY DEF Proxy!TypeOK, Proxy!Accept
<1>2. /\ p_pending' \in Seq(Message \ {None}) /\ Len(p_pending') = Len(p_pending) + 1
      /\ Len(p_pending) \in Nat
  BY <1>1
<1>3. Len(p_pending') <= QueueSize
  BY <1>1, <1>2, BoundsAssumption
<1>4. Proxy!TypeOK'
  BY <1>1, <1>2, <1>3 DEF Proxy!TypeOK
<1> QED
  BY <1>1, <1>2, <1>4 DEF Proxy!TypeOK

LEMMA TakeStep ==
    ASSUME Proxy!TypeOK, Proxy!Take
    PROVE  /\ Proxy!TypeOK'
           /\ p_current = None /\ p_current' = p_pending[1] /\ 1 \in DOMAIN p_pending
           /\ p_current' # None
           /\ DOMAIN p_pending' = 1..(Len(p_pending) - 1)
           /\ \A i \in DOMAIN p_pending' : p_pending'[i] = p_pending[i + 1]
           /\ UNCHANGED p_offer
<1>1. /\ p_pending \in Seq(Message \ {None}) /\ p_pending # <<>> /\ p_current = None
      /\ p_current' = Head(p_pending) /\ p_pending' = Tail(p_pending) /\ UNCHANGED p_offer
      /\ Len(p_pending) <= QueueSize
  BY DEF Proxy!TypeOK, Proxy!Take
<1>2. /\ Head(p_pending) \in Message \ {None} /\ Tail(p_pending) \in Seq(Message \ {None})
      /\ Len(Tail(p_pending)) = Len(p_pending) - 1
      /\ \A i \in 1..Len(Tail(p_pending)) : Tail(p_pending)[i] = p_pending[i + 1]
  BY <1>1, HeadTailProperties
<1>3. Len(p_pending) \in Nat /\ 1 \in DOMAIN p_pending /\ Head(p_pending) = p_pending[1]
  BY <1>1, EmptySeq
<1>4. Proxy!TypeOK'
  BY <1>1, <1>2, <1>3, BoundsAssumption DEF Proxy!TypeOK
<1> QED
  BY <1>1, <1>2, <1>3, <1>4

LEMMA DoneStep ==
    ASSUME Proxy!TypeOK, Proxy!Done
    PROVE  /\ Proxy!TypeOK' /\ p_current # None /\ p_current' = None
           /\ UNCHANGED <<p_offer, p_pending>>
BY DEF Proxy!TypeOK, Proxy!Done

(* The channel of doppler_events holds packets, and the client's own call. *)
LEMMA DopplerStep ==
    ASSUME Doppler!TypeOK,
           \/ Doppler!Call("client", "packet") \/ Doppler!Accept("client")
           \/ Doppler!Drop("client") \/ Doppler!Take \/ Doppler!Done
    PROVE  Doppler!TypeOK'
<1>1. CASE Doppler!Call("client", "packet") \/ Doppler!Drop("client") \/ Doppler!Done
  BY <1>1 DEF Doppler!TypeOK, Doppler!Call, Doppler!Drop, Doppler!Done
<1>2. CASE Doppler!Accept("client")
  <2>1. /\ d_offer["client"] \in {"packet"} \ {None} /\ Len(d_pending) < QueueSize
        /\ d_pending \in Seq({"packet"} \ {None})
        /\ d_pending' = Append(d_pending, d_offer["client"])
        /\ d_offer' = [d_offer EXCEPT !["client"] = None] /\ UNCHANGED d_current
    BY <1>2 DEF Doppler!TypeOK, Doppler!Accept
  <2>2. /\ d_pending' \in Seq({"packet"} \ {None}) /\ Len(d_pending') = Len(d_pending) + 1
        /\ Len(d_pending) \in Nat
    BY <2>1
  <2> QED
    BY <2>1, <2>2, BoundsAssumption DEF Doppler!TypeOK
<1>3. CASE Doppler!Take
  <2>1. /\ d_pending \in Seq({"packet"} \ {None}) /\ d_pending # <<>>
        /\ d_current' = Head(d_pending) /\ d_pending' = Tail(d_pending) /\ UNCHANGED d_offer
        /\ Len(d_pending) <= QueueSize
    BY <1>3 DEF Doppler!TypeOK, Doppler!Take
  <2>2. /\ Head(d_pending) \in {"packet"} \ {None}
        /\ Tail(d_pending) \in Seq({"packet"} \ {None})
        /\ Len(Tail(d_pending)) = Len(d_pending) - 1 /\ Len(d_pending) \in Nat
    BY <2>1, HeadTailProperties
  <2> QED
    BY <2>1, <2>2, BoundsAssumption DEF Doppler!TypeOK
<1> QED
  BY <1>1, <1>2, <1>3

(* The counts stay as they are when nothing is received. *)
LEMMA CountedKept ==
    ASSUME SocketsType, Counted, SameInbound, UNCHANGED received
    PROVE  Counted'
BY DEF Counted, SameInbound

(* What is received counts for what had come in. *)
LEMMA CountedReceived ==
    ASSUME Sides, Counted, NEW f \in Fd, file[f] \in Conn, Count(f),
           link'[file[f]].inbound = link[file[f]].inbound - 1,
           \A d \in Conn : d # file[f] => link'[d] = link[d]
    PROVE  /\ Counted' /\ UNCHANGED got
           /\ received'[file[f]] = received[file[f]] + 1
           /\ \A d \in Conn : d # file[f] => received'[d] = received[d]
<1>1. /\ received' = [received EXCEPT ![file[f]] = received[file[f]] + 1] /\ UNCHANGED got
      /\ received \in [Conn -> Nat]
  BY DEF Count, Counted
<1>2. /\ \A d \in Conn : link[d].inbound \in Int
      /\ \A d \in Conn : received[d] \in Nat
      /\ \A d \in Conn : MaxMessages[d] \in Nat
  <2>1. \A d \in Conn : link[d] \in LinkType
    BY DEF Sides, SocketsType
  <2>2. \A d \in Conn : link[d].inbound \in Int
    BY <2>1 DEF LinkType
  <2>3. \A d \in Conn : received[d] \in Nat
    BY <1>1
  <2>4. \A d \in Conn : MaxMessages[d] \in Nat
    BY BoundsAssumption
  <2> QED
    BY <2>2, <2>3, <2>4
<1>3. /\ received' \in [Conn -> Nat]
      /\ received'[file[f]] = received[file[f]] + 1
      /\ \A d \in Conn : d # file[f] => received'[d] = received[d]
  BY <1>1, <1>2
<1>4. ASSUME NEW c \in Conn
      PROVE  received'[c] + link'[c].inbound <= MaxMessages[c]
  <2>1. received[c] + link[c].inbound <= MaxMessages[c]
    BY DEF Counted
  <2>2. CASE c = file[f]
    BY <1>2, <1>3, <2>1, <2>2
  <2>3. CASE c # file[f]
    BY <1>3, <2>1, <2>3
  <2> QED
    BY <2>2, <2>3
<1> QED
  BY <1>1, <1>3, <1>4 DEF Counted

(* A step that neither receives nor moves messages in the proxy's channel. *)
LEMMA MessagesKept ==
    ASSUME Messages, UNCHANGED <<proxy, ghosts>>, Doppler!TypeOK',
           step' \in {step, "process", "send"}, step # "idle" \/ step' = step,
           s_pc' = "off" => c_pc' = "off", c_pc' = "off" => c_pc = "off",
           c_pc' # "callback" => p_offer["client"] = None /\ d_offer'["client"] = None,
           d_offer'["client"] # None =>
              d_offer'["client"] = d_offer["client"] /\ file'[c_fd'] = file[c_fd]
    PROVE  Messages'
<1>1. UNCHANGED <<p_offer, p_pending, p_current, received, got>>
  BY DEF proxy, ghosts
<1>2. Loops'
  BY <1>1 DEF Messages, Loops, Proxy!TypeOK
<1>3. Posts'
  BY <1>1 DEF Messages, Posts
<1>4. Started'
  BY <1>1 DEF Messages, Started
<1>5. Rising'
  <2>1. \A c, n : Newest(c, n) => Newest(c, n)'
    BY <1>1 DEF Newest, AfterGot, AfterCurrent, AfterPending
  <2>2. d_offer'["client"] # None =>
          /\ d_offer["client"] # None
          /\ file'[c_fd'] = file[c_fd] /\ Newest(file[c_fd], received[file[c_fd]])
    BY DEF Messages, Rising
  <2>3. d_offer'["client"] # None => Newest(file[c_fd], received[file[c_fd]])'
    BY <1>1, <2>2 DEF Newest, AfterGot, AfterCurrent, AfterPending
  <2> QED
    BY <1>1, <2>3 DEF Messages, Rising, Newest, AfterGot, AfterCurrent, AfterPending
<1>6. CrossesOver' /\ InOrder'
  BY <1>1 DEF Messages, CrossesOver, InOrder
<1> QED
  BY <1>2, <1>3, <1>4, <1>5, <1>6 DEF Messages

(* What was delivered are messages. *)
LEMMA GotTypes ==
    ASSUME Loops, NEW d \in Conn
    PROVE  /\ got[d] \in Seq(Message) /\ Len(got[d]) \in Nat
           /\ DOMAIN got[d] = 1..Len(got[d])
           /\ \A i \in DOMAIN got[d] : got[d][i] \in Message
<1>1. got[d] \in Seq(Message)
  BY DEF Loops
<1> QED
  BY <1>1

(* What is older than the n-th message is older than a later one. *)
LEMMA NewestMono ==
    ASSUME Loops, NEW c \in Conn, NEW n \in Nat, NEW k \in Nat, n <= k, Newest(c, n)
    PROVE  Newest(c, k)
<1>1. /\ \A i \in DOMAIN p_pending : p_pending[i].n \in Nat
      /\ p_current # None => p_current.n \in Nat
  BY PendingTypes DEF Loops, Message
<1>2. \A d \in Conn : \A i \in DOMAIN got[d] : got[d][i].n \in Nat
  BY GotTypes DEF Message
<1> QED
  BY <1>1, <1>2 DEF Newest, AfterGot, AfterCurrent, AfterPending

(* A task offers the newest message of its side.                           *)
LEMMA CallRises ==
    ASSUME Loops, Rising, NEW t \in Task, NEW m \in Message, Proxy!Call(t, m),
           UNCHANGED got, Newest(m.from, m.n), m.n <= received'[m.from],
           received \in [Conn -> Nat], received' \in [Conn -> Nat],
           \A c \in Conn : received[c] <= received'[c],
           d_offer'["client"] # None =>
              /\ file'[c_fd'] \in Conn
              /\ Newest(file'[c_fd'], received'[file'[c_fd']])
    PROVE  Rising'
<1>1. /\ p_offer'[t] = m /\ \A u \in Task : u # t => p_offer'[u] = p_offer[u]
      /\ UNCHANGED <<p_pending, p_current, got>>
  BY CallStep DEF Loops
<1>2. ASSUME NEW u \in Task, p_offer'[u] # None
      PROVE  /\ Newest(p_offer'[u].from, p_offer'[u].n)
             /\ p_offer'[u].n <= received'[p_offer'[u].from]
  <2>1. CASE u = t
    BY <1>1, <2>1
  <2>2. CASE u # t
    <3>1. p_offer[u] \in Message /\ p_offer'[u] = p_offer[u]
      BY <1>1, <1>2, <2>2, OfferTypes DEF Loops
    <3>2. /\ Newest(p_offer[u].from, p_offer[u].n)
          /\ p_offer[u].n <= received[p_offer[u].from]
      BY <1>2, <3>1 DEF Rising
    <3> QED
      BY <3>1, <3>2 DEF Message
  <2> QED
    BY <2>1, <2>2
<1>3. ASSUME NEW c \in Conn
      PROVE  Newest(c, received'[c] + 1)
  <2>1. Newest(c, received[c] + 1)
    BY DEF Rising
  <2> QED
    BY <2>1, NewestMono
<1> QED
  BY <1>1, <1>2, <1>3 DEF Rising, Newest, AfterGot, AfterCurrent, AfterPending

(* A task's call is over without its message. *)
LEMMA DropRises ==
    ASSUME Loops, Rising, NEW t \in Task, Proxy!Drop(t),
           UNCHANGED <<ghosts, d_offer, file, c_fd>>
    PROVE  Rising'
<1>1. /\ p_offer'[t] = None /\ \A u \in Task : u # t => p_offer'[u] = p_offer[u]
      /\ UNCHANGED <<p_pending, p_current, got, received, d_offer, file, c_fd>>
  BY DropStep DEF Loops, ghosts
<1> QED
  BY <1>1 DEF Rising, Newest, AfterGot, AfterCurrent, AfterPending

(* The message goes behind those that wait; no other task offers one of    *)
(* the same connection.                                                    *)
LEMMA AcceptRises ==
    ASSUME Loops, Rising, NEW t \in Task, Proxy!Accept(t), UNCHANGED ghosts,
           \A u \in Task : p_offer[u] # None /\ p_offer[u].from = p_offer[t].from => u = t,
           d_offer'["client"] # None =>
              /\ d_offer["client"] # None /\ UNCHANGED <<file, c_fd>>
              /\ file[c_fd] # p_offer[t].from,
           received \in [Conn -> Nat]
    PROVE  Rising'
<1> DEFINE m == p_offer[t]
<1>1. /\ m \in Message /\ m # None
      /\ p_offer'[t] = None /\ \A u \in Task : u # t => p_offer'[u] = p_offer[u]
      /\ DOMAIN p_pending' = 1..(Len(p_pending) + 1)
      /\ \A i \in DOMAIN p_pending : p_pending'[i] = p_pending[i]
      /\ p_pending'[Len(p_pending) + 1] = m
      /\ UNCHANGED <<p_current, got, received>>
  BY AcceptStep, OfferTypes DEF Loops, ghosts
<1>2. /\ Len(p_pending) \in Nat /\ DOMAIN p_pending = 1..Len(p_pending)
      /\ \A i \in DOMAIN p_pending : p_pending[i] \in Message
  BY PendingTypes DEF Loops
<1>3. Newest(m.from, m.n) /\ m.n <= received[m.from]
  BY <1>1 DEF Rising
<1> HIDE DEF m
<1>4. \A i \in DOMAIN p_pending' : i \in DOMAIN p_pending \/ p_pending'[i] = m
  BY <1>1, <1>2
(* m is among what waits now, so what is after it and the others is still  *)
(* after all that waits.                                                   *)
<1>5. ASSUME NEW c, NEW n, Newest(c, n), m.from = c => m.n < n
      PROVE  \A i \in DOMAIN p_pending' : p_pending'[i].from = c => p_pending'[i].n < n
  BY <1>1, <1>4, <1>5 DEF Newest, AfterPending
<1>6. \A i \in DOMAIN p_pending' :
        /\ AfterGot(p_pending'[i].from, p_pending'[i].n)
        /\ AfterCurrent(p_pending'[i].from, p_pending'[i].n)
  BY <1>1, <1>3, <1>4 DEF Rising, Newest
<1>7. \A i, j \in DOMAIN p_pending' :
        i < j /\ p_pending'[i].from = p_pending'[j].from => p_pending'[i].n < p_pending'[j].n
  <2> SUFFICES ASSUME NEW i \in DOMAIN p_pending', NEW j \in DOMAIN p_pending',
                      i < j, p_pending'[i].from = p_pending'[j].from
               PROVE  p_pending'[i].n < p_pending'[j].n
    OBVIOUS
  <2>1. i \in DOMAIN p_pending /\ p_pending'[i] = p_pending[i]
    BY <1>1, <1>2
  <2>2. CASE j \in DOMAIN p_pending
    BY <1>1, <2>1, <2>2 DEF Rising
  <2>3. CASE p_pending'[j] = m
    BY <1>3, <2>1, <2>3 DEF Newest, AfterPending
  <2> QED
    BY <1>4, <2>2, <2>3
<1>8. ASSUME NEW u \in Task, p_offer'[u] # None
      PROVE  /\ p_offer'[u] = p_offer[u] /\ m.from # p_offer[u].from
             /\ Newest(p_offer[u].from, p_offer[u].n)
             /\ p_offer[u].n <= received[p_offer[u].from]
  BY <1>1, <1>8 DEF Rising, m
<1>9. ASSUME NEW c \in Conn
      PROVE  Newest(c, received[c] + 1) /\ (m.from = c => m.n < received[c] + 1)
  BY <1>1, <1>3 DEF Rising, Message
<1>10. \A u \in Task : p_offer'[u] # None =>
          /\ Newest(p_offer[u].from, p_offer[u].n)'
          /\ p_offer'[u].n <= received'[p_offer'[u].from]
  <2> SUFFICES ASSUME NEW u \in Task, p_offer'[u] # None
               PROVE  /\ Newest(p_offer[u].from, p_offer[u].n)'
                      /\ p_offer'[u].n <= received'[p_offer'[u].from]
    OBVIOUS
  <2>1. \A i \in DOMAIN p_pending' :
           p_pending'[i].from = p_offer'[u].from => p_pending'[i].n < p_offer'[u].n
    BY <1>5, <1>8
  <2> QED
    BY <1>1, <1>8, <2>1 DEF Newest, AfterGot, AfterCurrent, AfterPending
<1>11. \A c \in Conn : Newest(c, received[c] + 1)'
  <2> SUFFICES ASSUME NEW c \in Conn
               PROVE  Newest(c, received[c] + 1)'
    OBVIOUS
  <2>1. \A i \in DOMAIN p_pending' :
           p_pending'[i].from = c => p_pending'[i].n < received[c] + 1
    BY <1>5, <1>9
  <2> QED
    BY <1>1, <1>9, <2>1 DEF Newest, AfterGot, AfterCurrent, AfterPending
<1>12. d_offer'["client"] # None => Newest(file[c_fd], received[file[c_fd]])'
  <2> SUFFICES ASSUME d_offer'["client"] # None
               PROVE  Newest(file[c_fd], received[file[c_fd]])'
    OBVIOUS
  <2>1. /\ UNCHANGED <<file, c_fd>> /\ file[c_fd] # m.from
        /\ Newest(file[c_fd], received[file[c_fd]])
    BY DEF Rising, m
  <2>2. \A i \in DOMAIN p_pending' :
           p_pending'[i].from = file[c_fd] => p_pending'[i].n < received[file[c_fd]]
    BY <1>5, <2>1
  <2> QED
    BY <1>1, <2>1, <2>2 DEF Newest, AfterGot, AfterCurrent, AfterPending
<1>13. p_current' # None => AfterGot(p_current.from, p_current.n)'
  BY <1>1 DEF Rising, AfterGot
<1>14. \A i \in DOMAIN p_pending' :
        /\ AfterGot(p_pending[i].from, p_pending[i].n)'
        /\ AfterCurrent(p_pending[i].from, p_pending[i].n)'
  BY <1>1, <1>6 DEF AfterGot, AfterCurrent
<1> QED
  BY <1>7, <1>10, <1>11, <1>12, <1>13, <1>14 DEF Rising

(* The oldest that waits is handled next. *)
LEMMA TakeRises ==
    ASSUME Loops, Rising, Proxy!Take, UNCHANGED <<ghosts, d_offer, file, c_fd>>
    PROVE  Rising'
<1>1. /\ p_current = None /\ p_current' = p_pending[1] /\ 1 \in DOMAIN p_pending
      /\ DOMAIN p_pending' = 1..(Len(p_pending) - 1)
      /\ \A i \in DOMAIN p_pending' : p_pending'[i] = p_pending[i + 1]
      /\ UNCHANGED <<p_offer, got, received, d_offer, file, c_fd>>
  BY TakeStep DEF Loops, ghosts
<1>2. Len(p_pending) \in Nat /\ DOMAIN p_pending = 1..Len(p_pending)
  BY PendingTypes DEF Loops
<1>3. \A i \in DOMAIN p_pending' : i + 1 \in DOMAIN p_pending /\ 1 < i + 1
  BY <1>1, <1>2
<1>4. ASSUME NEW c, NEW n, Newest(c, n)
      PROVE  /\ p_pending[1].from = c => p_pending[1].n < n
             /\ \A i \in DOMAIN p_pending' : p_pending'[i].from = c => p_pending'[i].n < n
  BY <1>1, <1>3, <1>4 DEF Newest, AfterPending
<1>5. \A u \in Task : p_offer'[u] # None =>
          /\ Newest(p_offer[u].from, p_offer[u].n)'
          /\ p_offer'[u].n <= received'[p_offer'[u].from]
  <2> SUFFICES ASSUME NEW u \in Task, p_offer'[u] # None
               PROVE  /\ Newest(p_offer[u].from, p_offer[u].n)'
                      /\ p_offer'[u].n <= received'[p_offer'[u].from]
    OBVIOUS
  <2>1. /\ Newest(p_offer[u].from, p_offer[u].n) /\ p_offer[u].n <= received[p_offer[u].from]
    BY <1>1 DEF Rising
  <2> QED
    BY <1>1, <1>4, <2>1 DEF Newest, AfterGot, AfterCurrent, AfterPending
<1>6. \A c \in Conn : Newest(c, received[c] + 1)'
  <2> SUFFICES ASSUME NEW c \in Conn
               PROVE  Newest(c, received[c] + 1)'
    OBVIOUS
  <2>1. Newest(c, received[c] + 1)
    BY DEF Rising
  <2> QED
    BY <1>1, <1>4, <2>1 DEF Newest, AfterGot, AfterCurrent, AfterPending
<1>7. d_offer'["client"] # None => Newest(file[c_fd], received[file[c_fd]])'
  <2> SUFFICES ASSUME d_offer'["client"] # None
               PROVE  Newest(file[c_fd], received[file[c_fd]])'
    OBVIOUS
  <2>1. Newest(file[c_fd], received[file[c_fd]])
    BY <1>1 DEF Rising
  <2> QED
    BY <1>1, <1>4, <2>1 DEF Newest, AfterGot, AfterCurrent, AfterPending
<1>8. p_current' # None => AfterGot(p_current.from, p_current.n)'
  BY <1>1 DEF Rising, AfterGot
<1>9. \A i \in DOMAIN p_pending' :
        /\ AfterGot(p_pending[i].from, p_pending[i].n)'
        /\ AfterCurrent(p_pending[i].from, p_pending[i].n)'
  <2> SUFFICES ASSUME NEW i \in DOMAIN p_pending'
               PROVE  /\ AfterGot(p_pending[i].from, p_pending[i].n)'
                      /\ AfterCurrent(p_pending[i].from, p_pending[i].n)'
    OBVIOUS
  <2>1. /\ AfterGot(p_pending[i + 1].from, p_pending[i + 1].n)
        /\ p_pending[1].from = p_pending[i + 1].from => p_pending[1].n < p_pending[i + 1].n
    BY <1>1, <1>3 DEF Rising
  <2> QED
    BY <1>1, <2>1 DEF AfterGot, AfterCurrent
<1>10. \A i, j \in DOMAIN p_pending' :
        i < j /\ p_pending'[i].from = p_pending'[j].from => p_pending'[i].n < p_pending'[j].n
  <2>1. \A i, j \in DOMAIN p_pending' : i < j => i + 1 < j + 1
    BY <1>1, <1>2
  <2> QED
    BY <1>1, <1>3, <2>1 DEF Rising
<1> QED
  BY <1>5, <1>6, <1>7, <1>8, <1>9, <1>10 DEF Rising

(* The message that was handled is delivered on d, or on no connection.    *)
LEMMA DoneRises ==
    ASSUME Loops, Rising, InOrder, Proxy!Done,
           UNCHANGED <<received, d_offer, file, c_fd>>,
           \/ UNCHANGED got
           \/ \E d \in Conn : got' = [got EXCEPT ![d] = Append(got[d], p_current)]
    PROVE  Rising' /\ InOrder' /\ got' \in [Conn -> Seq(Message)]
<1>1. /\ p_current # None /\ p_current \in Message /\ p_current' = None
      /\ UNCHANGED <<p_offer, p_pending, received, d_offer, file, c_fd>>
  BY DoneStep, PendingTypes DEF Loops
<1>2. AfterGot(p_current.from, p_current.n)
  BY <1>1 DEF Rising
<1>3. /\ got' \in [Conn -> Seq(Message)] /\ InOrder'
      /\ \A d \in Conn : \A i \in DOMAIN got'[d] :
            (i \in DOMAIN got[d] /\ got'[d][i] = got[d][i]) \/ got'[d][i] = p_current
  <2>1. CASE UNCHANGED got
    BY <2>1 DEF Loops, InOrder
  <2>2. ASSUME NEW d \in Conn, got' = [got EXCEPT ![d] = Append(got[d], p_current)]
        PROVE  /\ got' \in [Conn -> Seq(Message)] /\ InOrder'
               /\ \A e \in Conn : \A i \in DOMAIN got'[e] :
                    \/ i \in DOMAIN got[e] /\ got'[e][i] = got[e][i]
                    \/ got'[e][i] = p_current
    <3>1. /\ got[d] \in Seq(Message) /\ Len(got[d]) \in Nat
          /\ DOMAIN got[d] = 1..Len(got[d])
      BY GotTypes
    <3>2. /\ Append(got[d], p_current) \in Seq(Message)
          /\ DOMAIN Append(got[d], p_current) = 1..(Len(got[d]) + 1)
          /\ \A i \in DOMAIN got[d] : Append(got[d], p_current)[i] = got[d][i]
          /\ Append(got[d], p_current)[Len(got[d]) + 1] = p_current
      BY <1>1, <3>1
    <3>3. /\ got'[d] = Append(got[d], p_current)
          /\ \A e \in Conn : e # d => got'[e] = got[e]
          /\ got' \in [Conn -> Seq(Message)]
      BY <2>2, <3>2 DEF Loops
    <3>4. \A i \in DOMAIN got'[d] :
             \/ i \in DOMAIN got[d] /\ got'[d][i] = got[d][i]
             \/ i = Len(got[d]) + 1 /\ got'[d][i] = p_current
      BY <3>1, <3>2, <3>3
    <3>5. InOrder'
      <4> SUFFICES ASSUME NEW e \in Conn, NEW i \in DOMAIN got'[e], NEW j \in DOMAIN got'[e],
                          i < j, got'[e][i].from = got'[e][j].from
                   PROVE  got'[e][i].n < got'[e][j].n
        BY DEF InOrder
      <4>1. CASE e # d
        BY <3>3, <4>1 DEF InOrder
      <4>2. CASE e = d
        <5>1. i \in DOMAIN got[d] /\ got'[d][i] = got[d][i]
          BY <3>1, <3>2, <3>3, <4>2
        <5>2. CASE j \in DOMAIN got[d] /\ got'[d][j] = got[d][j]
          BY <4>2, <5>1, <5>2 DEF InOrder
        <5>3. CASE got'[d][j] = p_current
          BY <1>2, <4>2, <5>1, <5>3 DEF AfterGot
        <5> QED
          BY <3>4, <4>2, <5>2, <5>3
      <4> QED
        BY <4>1, <4>2
    <3> QED
      BY <3>3, <3>4, <3>5
  <2> QED
    BY <2>1, <2>2
<1>4. ASSUME NEW c, NEW n, AfterGot(c, n), AfterCurrent(c, n)
      PROVE  \A d \in Conn : \A i \in DOMAIN got'[d] : got'[d][i].from = c => got'[d][i].n < n
  BY <1>1, <1>3, <1>4 DEF AfterGot, AfterCurrent
<1>5. \A u \in Task : p_offer'[u] # None =>
          /\ Newest(p_offer[u].from, p_offer[u].n)'
          /\ p_offer'[u].n <= received'[p_offer'[u].from]
  <2> SUFFICES ASSUME NEW u \in Task, p_offer'[u] # None
               PROVE  /\ Newest(p_offer[u].from, p_offer[u].n)'
                      /\ p_offer'[u].n <= received'[p_offer'[u].from]
    OBVIOUS
  <2>1. /\ Newest(p_offer[u].from, p_offer[u].n) /\ p_offer[u].n <= received[p_offer[u].from]
    BY <1>1 DEF Rising
  <2>2. \A d \in Conn : \A i \in DOMAIN got'[d] :
           got'[d][i].from = p_offer[u].from => got'[d][i].n < p_offer[u].n
    BY <1>4, <2>1 DEF Newest
  <2> QED
    BY <1>1, <2>1, <2>2 DEF Newest, AfterGot, AfterCurrent, AfterPending
<1>6. \A c \in Conn : Newest(c, received[c] + 1)'
  <2> SUFFICES ASSUME NEW c \in Conn
               PROVE  Newest(c, received[c] + 1)'
    OBVIOUS
  <2>1. Newest(c, received[c] + 1)
    BY DEF Rising
  <2>2. \A d \in Conn : \A i \in DOMAIN got'[d] :
           got'[d][i].from = c => got'[d][i].n < received[c] + 1
    BY <1>4, <2>1 DEF Newest
  <2> QED
    BY <1>1, <2>1, <2>2 DEF Newest, AfterGot, AfterCurrent, AfterPending
<1>7. d_offer'["client"] # None => Newest(file[c_fd], received[file[c_fd]])'
  <2> SUFFICES ASSUME d_offer'["client"] # None
               PROVE  Newest(file[c_fd], received[file[c_fd]])'
    OBVIOUS
  <2>1. Newest(file[c_fd], received[file[c_fd]])
    BY <1>1 DEF Rising
  <2>2. \A d \in Conn : \A i \in DOMAIN got'[d] :
           got'[d][i].from = file[c_fd] => got'[d][i].n < received[file[c_fd]]
    BY <1>4, <2>1 DEF Newest
  <2> QED
    BY <1>1, <2>1, <2>2 DEF Newest, AfterGot, AfterCurrent, AfterPending
<1>8. \A i \in DOMAIN p_pending' :
        /\ AfterGot(p_pending[i].from, p_pending[i].n)'
        /\ AfterCurrent(p_pending[i].from, p_pending[i].n)'
  <2> SUFFICES ASSUME NEW i \in DOMAIN p_pending'
               PROVE  /\ AfterGot(p_pending[i].from, p_pending[i].n)'
                      /\ AfterCurrent(p_pending[i].from, p_pending[i].n)'
    OBVIOUS
  <2>1. /\ AfterGot(p_pending[i].from, p_pending[i].n)
        /\ AfterCurrent(p_pending[i].from, p_pending[i].n)
    BY <1>1 DEF Rising
  <2>2. \A d \in Conn : \A j \in DOMAIN got'[d] :
           got'[d][j].from = p_pending[i].from => got'[d][j].n < p_pending[i].n
    BY <1>4, <2>1
  <2> QED
    BY <1>1, <2>2 DEF AfterGot, AfterCurrent
<1>9. \A i, j \in DOMAIN p_pending' :
        i < j /\ p_pending'[i].from = p_pending'[j].from => p_pending'[i].n < p_pending'[j].n
  BY <1>1 DEF Rising
<1> QED
  BY <1>1, <1>3, <1>5, <1>6, <1>7, <1>8, <1>9 DEF Rising

-----------------------------------------------------------------------------
(* The starts and the steps that move no message. *)
LEMMA QuietInvariant ==
    ASSUME IInv, \/ ServerStart \/ ClientStart \/ ServerOther \/ ClientOther \/ Peers
                 \/ Process \/ DopplerTake \/ DopplerDone
                 \/ SendBeginsToHost \/ SendBeginsToClient
    PROVE  IInv'
<1>1. /\ Sides /\ SocketsType /\ Counted /\ Messages /\ Doppler!TypeOK /\ Posts /\ Started
  BY DEF IInv, Sides, Messages, Loops
<1>2. CASE ServerStart \/ ServerOther
  <2>1. /\ Server!tcp_server_app_start \/ ServerOther
        /\ UNCHANGED client /\ UNCHANGED proxy /\ UNCHANGED doppler
        /\ UNCHANGED step /\ UNCHANGED ghosts
    BY <1>2 DEF ServerStart, ServerOther
  <2>2. Sides' /\ SameInbound /\ (c_fd # None => file'[c_fd] = file[c_fd])
    BY <1>1, <2>1, ServerSides
  <2>3. Counted'
    BY <1>1, <2>1, <2>2, CountedKept DEF ghosts
  <2>4. s_pc' # "off"
    BY <2>1
    DEF Server!tcp_server_app_start, ServerOther, Server!Listen, Server!ListenFails,
        Server!Accept, Server!AcceptFails, Server!Activate, Server!Welcome,
        Server!WelcomeFails, Server!Notify, Server!ReceiveEnds, Server!Deactivate,
        Server!Close, Server!Goto
  <2>5. Doppler!TypeOK' /\ UNCHANGED <<c_pc, c_fd, d_offer>>
    BY <1>1, <2>1 DEF Doppler!TypeOK, doppler, client
  <2>6. d_offer["client"] # None => c_pc = "callback" /\ c_fd # None
    BY <1>1 DEF Posts, Sides, ClientHolds, Client!Idle
  <2>7. c_pc' # "callback" => p_offer["client"] = None /\ d_offer'["client"] = None
    BY <1>1, <2>5 DEF Posts
  <2>8. Messages'
    BY <1>1, <2>1, <2>2, <2>4, <2>5, <2>6, <2>7, MessagesKept
  <2> QED
    BY <2>2, <2>3, <2>8 DEF IInv
<1>3. CASE ClientStart \/ ClientOther
  <2>1. /\ Client!tcp_client_app_start \/ ClientOther
        /\ UNCHANGED server /\ UNCHANGED proxy /\ UNCHANGED doppler
        /\ UNCHANGED step /\ UNCHANGED ghosts
        /\ ClientOther \/ s_pc # "off"
    BY <1>3 DEF ClientStart, ClientOther
  <2>2. Sides' /\ SameInbound
    BY <1>1, <2>1, ClientSides
  <2>3. Counted'
    BY <1>1, <2>1, <2>2, CountedKept DEF ghosts
  <2>4. c_pc # "callback" /\ c_pc' # "off" /\ (ClientOther => c_pc # "off")
    BY <2>1
    DEF Client!tcp_client_app_start, Client!Start, Client!StartFails, ClientOther,
        Client!ResolveFails, Client!OpenSocket, Client!Connected, Client!Refused,
        Client!Activate, Client!ReceiveEnds, Client!Deactivate, Client!Close,
        Client!Delay, Client!Goto
  <2>5. Doppler!TypeOK' /\ UNCHANGED <<s_pc, d_offer>>
    BY <1>1, <2>1 DEF Doppler!TypeOK, doppler, server
  <2>6. p_offer["client"] = None /\ d_offer'["client"] = None
    BY <1>1, <2>4, <2>5 DEF Posts
  <2>7. s_pc' # "off"
    BY <1>1, <2>1, <2>4, <2>5 DEF Started
  <2>8. Messages'
    BY <1>1, <2>1, <2>4, <2>5, <2>6, <2>7, MessagesKept
  <2> QED
    BY <2>2, <2>3, <2>8 DEF IInv
<1>4. ASSUME Sides', Counted', UNCHANGED <<proxy, ghosts>>, Doppler!TypeOK',
             UNCHANGED <<s_pc, c_pc, c_fd, file, d_offer>>,
             step' \in {step, "process", "send"}, step # "idle" \/ step' = step
      PROVE  IInv'
  <2>1. c_pc' # "callback" => p_offer["client"] = None /\ d_offer'["client"] = None
    BY <1>1, <1>4 DEF Posts
  <2>2. s_pc' = "off" => c_pc' = "off"
    BY <1>1, <1>4 DEF Started
  <2>3. Messages'
    BY <1>1, <1>4, <2>1, <2>2, MessagesKept
  <2> QED
    BY <1>4, <2>3 DEF IInv
<1>5. CASE Peers
  <2>1. Sides' /\ UNCHANGED file
    BY <1>1, <1>5, PeersSides
  <2>2. /\ UNCHANGED server /\ UNCHANGED client /\ UNCHANGED proxy
        /\ UNCHANGED doppler /\ UNCHANGED step /\ UNCHANGED ghosts
    BY <1>5 DEF Peers
  <2>3. Counted'
    <3>1. PICK c \in Conn : PeerStep(c) /\ received[c] + link'[c].inbound <= MaxMessages[c]
      BY <1>5 DEF Peers
    <3>2. \A d \in Conn : d # c => link'[d] = link[d]
      BY <1>1, <3>1
      DEF SocketsType, PeerStep, PeerWrites, PeerReads, PeerCloses, PeerResets,
          PeerVanishes, GivesUp, To
    <3> QED
      BY <1>1, <2>2, <3>1, <3>2 DEF Counted, ghosts
  <2>4. Doppler!TypeOK' /\ UNCHANGED <<s_pc, c_pc, c_fd, d_offer>>
    BY <1>1, <2>2 DEF Doppler!TypeOK, doppler, server, client
  <2> QED
    BY <1>4, <2>1, <2>2, <2>3, <2>4
<1>6. CASE Process \/ DopplerTake \/ DopplerDone
  <2>1. /\ UNCHANGED sockets /\ UNCHANGED server /\ UNCHANGED client /\ UNCHANGED proxy
        /\ UNCHANGED ghosts
    BY <1>6 DEF Process, DopplerTake, DopplerDone
  <2>2. UNCHANGED <<file, link, s_pc, s_fd, s_slot, s_mutex, c_pc, c_fd, c_slot, c_mutex>>
    BY <2>1 DEF sockets, server, client
  <2>3. Sides' /\ Counted'
    BY <1>1, <2>1, <2>2
    DEF Sides, SocketsType, ServerHolds, ClientHolds, InUse, New, Counted, ghosts, Server!Pc,
        Server!Idle, Client!Pc, Client!Idle
  <2>4. Doppler!TypeOK' /\ UNCHANGED d_offer
    BY <1>1, <1>6, DopplerStep
    DEF Process, DopplerTake, DopplerDone, Doppler!TypeOK, doppler, Doppler!Take, Doppler!Done
  <2>5. step' \in {step, "process", "send"} /\ (step # "idle" \/ step' = step)
    BY <1>6 DEF Process, DopplerTake, DopplerDone
  <2> QED
    BY <1>4, <2>1, <2>2, <2>3, <2>4, <2>5
<1>7. CASE SendBeginsToHost \/ SendBeginsToClient
  <2>1. /\ UNCHANGED proxy /\ UNCHANGED doppler /\ UNCHANGED step /\ UNCHANGED ghosts
    BY <1>7 DEF SendBeginsToHost, SendBeginsToClient
  <2>2. Sides' /\ SameInbound /\ UNCHANGED file
    BY <1>1, <1>7, ClientSendSides, ServerSendSides DEF SendBeginsToHost, SendBeginsToClient
  <2>3. UNCHANGED <<s_pc, c_pc, c_fd>>
    BY <1>7 DEF SendBeginsToHost, SendBeginsToClient, server, client
  <2>4. Counted'
    BY <1>1, <2>1, <2>2, CountedKept DEF ghosts
  <2>5. Doppler!TypeOK' /\ UNCHANGED d_offer
    BY <1>1, <2>1 DEF Doppler!TypeOK, doppler
  <2> QED
    BY <1>4, <2>1, <2>2, <2>3, <2>4, <2>5
<1> QED
  BY <1>2, <1>3, <1>5, <1>6, <1>7

(* The server task receives and calls proxy_events_post_data. *)
LEMMA ServerReceivesInvariant ==
    ASSUME IInv, ServerReceives
    PROVE  IInv'
<1> DEFINE x == file[s_fd]
           m == Arrived(s_fd, received[file[s_fd]] + 1)
<1>1. /\ Sides /\ Counted /\ Messages /\ Loops /\ Posts /\ Started /\ Rising
      /\ Server!Receive /\ Proxy!Call("server", m) /\ Count(s_fd)
      /\ UNCHANGED client /\ UNCHANGED doppler /\ UNCHANGED step
  BY DEF IInv, Messages, ServerReceives
<1>2. /\ Sides' /\ UNCHANGED file
      /\ s_fd \in Fd /\ x \in Local
      /\ link'[x].inbound = link[x].inbound - 1
      /\ \A d \in Conn : d # x => link'[d] = link[d]
  BY <1>1, ServerReceiveSides
<1>3. x \in Conn /\ x \notin Remote
  BY <1>2, SidesAssumption
<1>4. /\ Counted' /\ UNCHANGED got
      /\ received'[x] = received[x] + 1
      /\ \A d \in Conn : d # x => received'[d] = received[d]
  BY <1>1, <1>2, <1>3, CountedReceived
<1>5. received \in [Conn -> Nat] /\ received' \in [Conn -> Nat]
  BY <1>1, <1>4 DEF Counted
<1>6. m \in Message /\ m.from = x /\ m.n = received[x] + 1
  BY <1>3, <1>5 DEF Arrived, Message
<1>7. /\ UNCHANGED <<c_pc, c_fd, d_offer, d_pending, d_current, step>>
  BY <1>1 DEF client, doppler
<1> HIDE DEF m
<1>8. /\ Proxy!TypeOK' /\ p_offer'["server"] = m /\ p_offer'["client"] = p_offer["client"]
      /\ UNCHANGED <<p_pending, p_current>>
  BY <1>1, <1>6, CallStep DEF Loops, Task
<1>9. d_offer["client"] # None =>
         /\ file[c_fd] \in Conn /\ file[c_fd] # x
         /\ Newest(file[c_fd], received[file[c_fd]])
  <2>1. d_offer["client"] # None => file[c_fd] \in Remote
    BY <1>1 DEF Posts, Sides, ClientHolds, Client!Idle
  <2> QED
    BY <1>1, <1>3, <2>1, SidesAssumption DEF Rising
<1>10. Rising'
  <2>1. Newest(m.from, m.n) /\ m.n <= received'[m.from]
    BY <1>1, <1>3, <1>4, <1>5, <1>6 DEF Rising
  <2>2. \A c \in Conn : received[c] <= received'[c]
    BY <1>3, <1>4, <1>5
  <2>3. d_offer'["client"] # None =>
           /\ file'[c_fd'] \in Conn
           /\ Newest(file'[c_fd'], received'[file'[c_fd']])
    BY <1>2, <1>4, <1>7, <1>9
  <2> QED
    BY <1>1, <1>4, <1>5, <1>6, <2>1, <2>2, <2>3, CallRises DEF Task
<1>11. Loops' /\ CrossesOver' /\ InOrder'
  BY <1>1, <1>4, <1>7, <1>8
  DEF Loops, Messages, Doppler!TypeOK, CrossesOver, InOrder
<1>12. Posts'
  BY <1>1, <1>2, <1>4, <1>6, <1>7, <1>8, <1>9 DEF Posts
<1>13. s_pc' # "off"
  BY <1>1 DEF Server!Receive, Server!Goto
<1>14. Started'
  BY <1>1, <1>7, <1>8, <1>13 DEF Started
<1> QED
  BY <1>2, <1>4, <1>10, <1>11, <1>12, <1>14 DEF IInv, Messages

(* The client task receives; with a packet complete it calls               *)
(* doppler_events_post_data.                                               *)
LEMMA ClientReceivesInvariant ==
    ASSUME IInv, ClientReceives \/ ClientReceivesNoPacket
    PROVE  IInv'
<1> DEFINE x == file[c_fd]
<1>1. /\ Sides /\ Counted /\ Messages /\ Loops /\ Posts /\ Started /\ Rising
      /\ Client!Receive /\ Count(c_fd)
      /\ UNCHANGED server /\ UNCHANGED proxy /\ UNCHANGED step
      /\ \/ c_pc' = "callback" /\ Doppler!Call("client", "packet")
         \/ c_pc' # "callback" /\ UNCHANGED doppler
  BY DEF IInv, Messages, ClientReceives, ClientReceivesNoPacket
<1>2. /\ Sides' /\ UNCHANGED <<file, c_fd>>
      /\ c_pc = "recv" /\ c_pc' \in {"recv", "callback"}
      /\ c_fd \in Fd /\ x \in Remote
      /\ link'[x].inbound = link[x].inbound - 1
      /\ \A d \in Conn : d # x => link'[d] = link[d]
  BY <1>1, ClientReceiveSides
<1>3. x \in Conn
  BY <1>2, SidesAssumption
<1>4. /\ Counted' /\ UNCHANGED got
      /\ received'[x] = received[x] + 1
      /\ \A d \in Conn : d # x => received'[d] = received[d]
  BY <1>1, <1>2, <1>3, CountedReceived
<1>5. received \in [Conn -> Nat] /\ received' \in [Conn -> Nat]
  BY <1>1, <1>4 DEF Counted
<1>6. UNCHANGED <<s_pc, p_offer, p_pending, p_current, step>>
  BY <1>1 DEF server, proxy
<1>7. p_offer["client"] = None /\ d_offer["client"] = None
  BY <1>1, <1>2 DEF Posts
<1>8. Doppler!TypeOK' /\ (c_pc' # "callback" => d_offer'["client"] = None)
  BY <1>1, <1>7, DopplerStep DEF Loops, Doppler!TypeOK, doppler
<1>9. Loops' /\ CrossesOver' /\ InOrder'
  BY <1>1, <1>4, <1>6, <1>8 DEF Loops, Messages, Proxy!TypeOK, CrossesOver, InOrder
<1>10. Posts'
  BY <1>1, <1>2, <1>4, <1>5, <1>3, <1>6, <1>7, <1>8 DEF Posts
<1>11. Started'
  BY <1>1, <1>2, <1>6 DEF Started
<1>12. Rising'
  <2>1. \A u \in Task : p_offer[u] # None =>
           /\ Newest(p_offer[u].from, p_offer[u].n)
           /\ p_offer[u].n <= received'[p_offer[u].from]
    <3> SUFFICES ASSUME NEW u \in Task, p_offer[u] # None
                 PROVE  /\ Newest(p_offer[u].from, p_offer[u].n)
                        /\ p_offer[u].n <= received'[p_offer[u].from]
      OBVIOUS
    <3>1. p_offer[u] \in Message
      BY <1>1, OfferTypes DEF Loops
    <3>2. /\ Newest(p_offer[u].from, p_offer[u].n)
          /\ p_offer[u].n <= received[p_offer[u].from]
      BY <1>1 DEF Rising
    <3> QED
      BY <1>4, <1>5, <3>1, <3>2 DEF Message
  <2>2. \A c \in Conn : Newest(c, received'[c] + 1)
    <3> SUFFICES ASSUME NEW c \in Conn
                 PROVE  Newest(c, received'[c] + 1)
      OBVIOUS
    <3>1. Newest(c, received[c] + 1) /\ received[c] <= received'[c]
      BY <1>1, <1>4, <1>5 DEF Rising
    <3> QED
      BY <1>1, <1>5, <3>1, NewestMono
  <2>3. Newest(x, received'[x])
    BY <1>1, <1>3, <1>4 DEF Rising
  <2> QED
    BY <1>1, <1>2, <1>4, <1>6, <2>1, <2>2, <2>3
    DEF Rising, Newest, AfterGot, AfterCurrent, AfterPending
<1> QED
  BY <1>2, <1>4, <1>9, <1>10, <1>11, <1>12 DEF IInv, Messages

(* Then it calls proxy_events_post_data with the same packet. *)
LEMMA ClientPostedDopplerInvariant ==
    ASSUME IInv, ClientPostedDoppler
    PROVE  IInv'
<1> DEFINE x == file[c_fd]
           m == Arrived(c_fd, received[file[c_fd]])
<1>1. /\ Sides /\ Counted /\ Messages /\ Loops /\ Posts /\ Started /\ Rising
      /\ d_offer["client"] # None
      /\ Doppler!Accept("client") \/ Doppler!Drop("client")
      /\ Proxy!Call("client", m)
      /\ UNCHANGED <<file, link, s_pc, s_fd, s_slot, s_mutex, c_pc, c_fd, c_slot, c_mutex>>
      /\ UNCHANGED <<step, received, got>>
  BY DEF IInv, Messages, ClientPostedDoppler, sockets, server, client, ghosts
<1>2. /\ c_pc = "callback" /\ received[x] > 0 /\ x \in Remote /\ x \in Conn
  BY <1>1, SidesAssumption DEF Posts, Sides, ClientHolds, Client!Idle
<1>3. received \in [Conn -> Nat]
  BY <1>1 DEF Counted
<1>4. m \in Message /\ m.from = x /\ m.n = received[x]
  BY <1>2, <1>3 DEF Arrived, Message
<1> HIDE DEF m
<1>5. /\ Proxy!TypeOK' /\ p_offer'["client"] = m /\ p_offer'["server"] = p_offer["server"]
      /\ UNCHANGED <<p_pending, p_current>>
  BY <1>1, <1>4, CallStep DEF Loops, Task
<1>6. Doppler!TypeOK' /\ d_offer'["client"] = None
  BY <1>1, DopplerStep DEF Loops, Doppler!TypeOK, Doppler!Accept, Doppler!Drop
<1>7. Sides' /\ Counted'
  BY <1>1
  DEF Sides, SocketsType, ServerHolds, ClientHolds, InUse, New, Counted, Server!Pc, Server!Idle,
      Client!Pc, Client!Idle
<1>8. Rising'
  <2>1. Newest(m.from, m.n) /\ m.n <= received'[m.from]
    BY <1>1, <1>2, <1>3, <1>4 DEF Rising
  <2>2. \A c \in Conn : received[c] <= received'[c]
    BY <1>1, <1>3
  <2> QED
    BY <1>1, <1>3, <1>4, <1>6, <2>1, <2>2, CallRises DEF Task
<1>9. Loops' /\ CrossesOver' /\ InOrder'
  BY <1>1, <1>5, <1>6 DEF Loops, Messages, CrossesOver, InOrder
<1>10. Posts'
  BY <1>1, <1>2, <1>4, <1>5, <1>6 DEF Posts
<1>11. Started'
  BY <1>1, <1>5 DEF Started
<1> QED
  BY <1>7, <1>8, <1>9, <1>10, <1>11 DEF IInv, Messages

(* proxy_events_post_data returns to the server task, or to the client's.  *)
LEMMA PostedInvariant ==
    ASSUME IInv, ServerPosted \/ ClientPosted
    PROVE  IInv'
<1>1. /\ Sides /\ Counted /\ Messages /\ Loops /\ Posts /\ Started /\ Rising
      /\ SocketsType /\ received \in [Conn -> Nat]
  BY DEF IInv, Messages, Sides, Counted
<1>2. UNCHANGED doppler /\ UNCHANGED step /\ UNCHANGED ghosts
  BY DEF ServerPosted, ClientPosted
<1>3. UNCHANGED <<d_offer, d_pending, d_current, received, got>>
  BY <1>2 DEF doppler, ghosts
<1>4. Sides' /\ SameInbound /\ UNCHANGED <<file, c_fd>>
  <2>1. CASE ServerPosted
    BY <1>1, <2>1, ServerSides
    DEF ServerPosted, Server!CallbackReturns, Server!sockets, client
  <2>2. CASE ClientPosted
    BY <1>1, <2>2, ClientSides
    DEF ClientPosted, Client!CallbackReturns, Client!sockets
  <2> QED
    BY <2>1, <2>2
<1>5. Counted'
  BY <1>1, <1>3, <1>4, CountedKept
<1>6. PICK t \in Task :
        /\ Proxy!Accept(t) \/ Proxy!Drop(t)
        /\ \/ t = "server" /\ s_pc' # "off" /\ UNCHANGED <<c_pc>>
           \/ t = "client" /\ c_pc = "callback" /\ c_pc' = "recv" /\ UNCHANGED <<s_pc>>
  BY DEF ServerPosted, ClientPosted, Server!CallbackReturns, Client!CallbackReturns,
         Server!Goto, Client!Goto, client, server, Task
<1>7. /\ Proxy!TypeOK'
      /\ p_offer[t] # None /\ p_offer'[t] = None
      /\ \A u \in Task : u # t => p_offer'[u] = p_offer[u]
      /\ UNCHANGED p_current
  BY <1>1, <1>6, AcceptStep, DropStep DEF Loops
<1>8. p_offer[t] \in Message
  BY <1>1, <1>7, OfferTypes DEF Loops
<1>9. t = "client" => d_offer["client"] = None
  BY <1>1, <1>7 DEF Posts
<1>10. Loops' /\ CrossesOver' /\ InOrder'
  BY <1>1, <1>2, <1>3, <1>7 DEF Loops, Messages, Doppler!TypeOK, CrossesOver, InOrder
<1>11. Posts'
  BY <1>1, <1>3, <1>4, <1>6, <1>7, <1>9 DEF Posts, Task
<1>12. Started'
  <2>1. ASSUME c_pc' = "off"
        PROVE  /\ \A i \in DOMAIN p_pending' : p_pending'[i].from \in Local
               /\ p_current' # None => p_current'.from \in Local
    <3>1. /\ t = "server" /\ c_pc = "off" /\ p_offer[t].from \in Local
          /\ \A i \in DOMAIN p_pending : p_pending[i].from \in Local
          /\ p_current # None => p_current.from \in Local
      BY <1>1, <1>6, <1>7, <2>1 DEF Posts, Started
    <3>2. CASE Proxy!Accept(t)
      <4>1. /\ DOMAIN p_pending' = 1..(Len(p_pending) + 1)
            /\ DOMAIN p_pending = 1..Len(p_pending) /\ Len(p_pending) \in Nat
            /\ \A i \in DOMAIN p_pending : p_pending'[i] = p_pending[i]
            /\ p_pending'[Len(p_pending) + 1] = p_offer[t]
        BY <1>1, <3>2, AcceptStep, PendingTypes DEF Loops
      <4>2. \A i \in DOMAIN p_pending' : i \in DOMAIN p_pending \/ i = Len(p_pending) + 1
        BY <4>1
      <4> QED
        BY <1>7, <3>1, <4>1, <4>2
    <3>3. CASE Proxy!Drop(t)
      BY <1>1, <1>7, <3>1, <3>3, DropStep DEF Loops
    <3> QED
      BY <1>6, <3>2, <3>3
  <2>2. c_pc' # "off" => s_pc' # "off"
    BY <1>1, <1>6 DEF Started
  <2> QED
    BY <2>1, <2>2 DEF Started
<1>13. Rising'
  <2>1. CASE Proxy!Accept(t)
    <3>1. /\ t = "server" => p_offer[t].from \in Local
          /\ t = "client" => p_offer[t].from \in Remote
          /\ \A u \in Task : u = "server" \/ u = "client"
          /\ p_offer["server"] # None => p_offer["server"].from \in Local
          /\ p_offer["client"] # None => p_offer["client"].from \in Remote
      BY <1>1, <1>7 DEF Posts, Task
    <3>2. \A u \in Task : p_offer[u] # None /\ p_offer[u].from = p_offer[t].from => u = t
      BY <3>1, SidesAssumption DEF Task
    <3>3. d_offer["client"] # None => file[c_fd] \in Remote /\ t = "server"
      BY <1>1, <1>6, <1>9 DEF Posts, Sides, ClientHolds, Client!Idle
    <3>4. d_offer'["client"] # None =>
             /\ d_offer["client"] # None /\ UNCHANGED <<file, c_fd>>
             /\ file[c_fd] # p_offer[t].from
      BY <1>3, <1>4, <3>1, <3>3, SidesAssumption
    <3> QED
      BY <1>1, <1>2, <2>1, <3>2, <3>4, AcceptRises
  <2>2. CASE Proxy!Drop(t)
    BY <1>1, <1>2, <1>3, <1>4, <2>2, DropRises
  <2> QED
    BY <1>6, <2>1, <2>2
<1> QED
  BY <1>4, <1>5, <1>10, <1>11, <1>12, <1>13 DEF IInv, Messages

(* The proxy's loop takes the next event. *)
LEMMA TakeInvariant ==
    ASSUME IInv, TakeEvent
    PROVE  IInv'
<1>1. /\ Sides /\ Counted /\ Messages /\ Loops /\ Posts /\ Started /\ Rising
      /\ Proxy!Take /\ step' = "process"
      /\ UNCHANGED <<file, link, s_pc, s_fd, s_slot, s_mutex, c_pc, c_fd, c_slot, c_mutex>>
      /\ UNCHANGED <<d_offer, d_pending, d_current, received, got>> /\ UNCHANGED ghosts
  BY DEF IInv, Messages, TakeEvent, sockets, server, client, doppler, ghosts
<1>2. /\ Proxy!TypeOK'
      /\ p_current' = p_pending[1] /\ 1 \in DOMAIN p_pending /\ p_current' # None
      /\ DOMAIN p_pending' = 1..(Len(p_pending) - 1)
      /\ \A i \in DOMAIN p_pending' : p_pending'[i] = p_pending[i + 1]
      /\ UNCHANGED p_offer
  BY <1>1, TakeStep DEF Loops
<1>3. Sides' /\ Counted'
  BY <1>1
  DEF Sides, SocketsType, ServerHolds, ClientHolds, InUse, New, Counted, Server!Pc, Server!Idle,
      Client!Pc, Client!Idle
<1>4. Loops' /\ CrossesOver' /\ InOrder'
  BY <1>1, <1>2 DEF Loops, Messages, Doppler!TypeOK, CrossesOver, InOrder
<1>5. Posts'
  BY <1>1, <1>2 DEF Posts
<1>6. Started'
  <2>1. DOMAIN p_pending = 1..Len(p_pending) /\ Len(p_pending) \in Nat
    BY <1>1, PendingTypes DEF Loops
  <2>2. \A i \in DOMAIN p_pending' : i + 1 \in DOMAIN p_pending
    BY <1>2, <2>1
  <2> QED
    BY <1>1, <1>2, <2>2 DEF Started
<1>7. Rising'
  BY <1>1, TakeRises
<1> QED
  BY <1>3, <1>4, <1>5, <1>6, <1>7 DEF IInv, Messages

(* A handler ends, its message delivered on d or lost.                     *)
LEMMA DoneInvariant ==
    ASSUME IInv, Sides', SameInbound, Proxy!Done, step' = "idle",
           UNCHANGED <<file, s_pc, c_pc, c_fd, received>>, UNCHANGED doppler,
           \/ UNCHANGED got
           \/ \E d \in Conn : /\ got' = [got EXCEPT ![d] = Append(got[d], p_current)]
                              /\ p_current.from \in Local <=> d \in Remote
    PROVE  IInv'
<1>1. /\ Sides /\ Counted /\ Messages /\ Loops /\ Posts /\ Started /\ Rising
      /\ InOrder /\ CrossesOver /\ SocketsType
      /\ UNCHANGED <<d_offer, d_pending, d_current>>
  BY DEF IInv, Messages, Sides, doppler
<1>2. Counted'
  BY <1>1, CountedKept
<1>3. /\ Proxy!TypeOK' /\ p_current # None /\ p_current' = None
      /\ UNCHANGED <<p_offer, p_pending>>
  BY <1>1, DoneStep DEF Loops
<1>4. Rising' /\ InOrder' /\ got' \in [Conn -> Seq(Message)]
  BY <1>1, DoneRises
<1>5. Loops'
  BY <1>1, <1>3, <1>4 DEF Loops, Doppler!TypeOK
<1>6. Posts' /\ Started'
  BY <1>1, <1>3 DEF Posts, Started
<1>7. CrossesOver'
  <2>1. CASE UNCHANGED got
    BY <1>1, <2>1 DEF CrossesOver
  <2>2. ASSUME NEW d \in Conn, got' = [got EXCEPT ![d] = Append(got[d], p_current)],
               p_current.from \in Local <=> d \in Remote
        PROVE  CrossesOver'
    <3>1. /\ got[d] \in Seq(Message) /\ p_current \in Message
          /\ Len(got[d]) \in Nat /\ DOMAIN got[d] = 1..Len(got[d])
      BY <1>1, <1>3, GotTypes, PendingTypes DEF Loops
    <3>2. /\ DOMAIN Append(got[d], p_current) = 1..(Len(got[d]) + 1)
          /\ \A i \in DOMAIN got[d] : Append(got[d], p_current)[i] = got[d][i]
          /\ Append(got[d], p_current)[Len(got[d]) + 1] = p_current
      BY <3>1
    <3>3. /\ got'[d] = Append(got[d], p_current)
          /\ \A e \in Conn : e # d => got'[e] = got[e]
      BY <1>1, <2>2 DEF Loops
    <3>4. \A i \in DOMAIN got'[d] :
             (i \in DOMAIN got[d] /\ got'[d][i] = got[d][i]) \/ got'[d][i] = p_current
      BY <3>1, <3>2, <3>3
    <3> QED
      BY <1>1, <2>2, <3>3, <3>4 DEF CrossesOver
  <2> QED
    BY <2>1, <2>2
<1> QED
  BY <1>2, <1>4, <1>5, <1>6, <1>7 DEF IInv, Messages

(* The two handlers, when the send they make returns. *)
LEMMA HandlerInvariant ==
    ASSUME IInv, \/ SendOkToHost \/ SendFailsToHost
                 \/ SendOkToClient \/ SendFailsToClient
    PROVE  IInv'
<1>1. Sides /\ Loops /\ ServerHolds /\ ClientHolds
  BY DEF IInv, Messages, Sides
<1>2. /\ Proxy!Done /\ step' = "idle" /\ UNCHANGED doppler
      /\ UNCHANGED <<s_pc, c_pc, c_fd, received>>
  BY DEF SendOkToHost, SendFailsToHost, SendOkToClient, SendFailsToClient, HandlerReturns,
         server, client, ghosts
<1>3. Sides' /\ SameInbound /\ UNCHANGED file
  BY <1>1, ClientSendSides, ServerSendSides
  DEF SendOkToHost, SendFailsToHost, SendOkToClient, SendFailsToClient
<1>4. CASE SendFailsToHost \/ SendFailsToClient
  BY <1>2, <1>3, <1>4, DoneInvariant DEF SendFailsToHost, SendFailsToClient, ghosts
<1>5. CASE SendOkToHost
  <2>1. /\ p_current.from \in Local /\ c_slot # None
        /\ got' = [got EXCEPT ![file[c_slot]] = Append(got[file[c_slot]], p_current)]
    BY <1>1, <1>5, AbsentAssumption
    DEF SendOkToHost, ToHost, Deliver, Client!SendOk, ClientHolds
  <2>2. file[c_slot] \in Remote /\ file[c_slot] \in Conn
    BY <1>1, <2>1, SidesAssumption DEF ClientHolds
  <2> QED
    BY <1>2, <1>3, <2>1, <2>2, DoneInvariant
<1>6. CASE SendOkToClient
  <2>1. /\ p_current.from \in Remote /\ s_slot # None
        /\ got' = [got EXCEPT ![file[s_slot]] = Append(got[file[s_slot]], p_current)]
    BY <1>1, <1>6, AbsentAssumption
    DEF SendOkToClient, ToClient, Deliver, Server!SendOk, ServerHolds
  <2>2. /\ file[s_slot] \in Conn
        /\ p_current.from \notin Local /\ file[s_slot] \notin Remote
    BY <1>1, <2>1, SidesAssumption DEF ServerHolds
  <2> QED
    BY <1>2, <1>3, <2>1, <2>2, DoneInvariant
<1> QED
  BY <1>4, <1>5, <1>6

-----------------------------------------------------------------------------
(* The state app_main starts from. *)
LEMMA InitInvariant == Init => IInv
<1> SUFFICES ASSUME Init
             PROVE  IInv
  OBVIOUS
<1>1. /\ SocketsInit /\ s_pc = "off" /\ s_fd = None /\ s_slot = None /\ s_mutex = Absent
      /\ c_pc = "off" /\ c_fd = None /\ c_slot = None /\ c_mutex = Absent
  BY DEF Init, Server!Init, Client!Init, Server!SocketsInit, SocketsInit, Server!ActiveInit,
         Client!ActiveInit, Server!Fresh, Fresh
<1>2. /\ p_offer = [t \in Task |-> None] /\ p_pending = <<>> /\ p_current = None
      /\ d_offer = [t \in {"client"} |-> None] /\ d_pending = <<>> /\ d_current = None
      /\ step = "idle" /\ received = [c \in Conn |-> 0] /\ got = [c \in Conn |-> <<>>]
  BY DEF Init, Proxy!Init, Doppler!Init
<1>3. Sides /\ \A c \in Conn : link[c].inbound = 0
  BY <1>1, InitSides
<1>4. Counted
  BY <1>2, <1>3, BoundsAssumption DEF Counted
<1>5. Loops
  BY <1>2, BoundsAssumption DEF Loops, Proxy!TypeOK, Doppler!TypeOK
<1>6. Posts /\ Started /\ Rising /\ CrossesOver /\ InOrder
  BY <1>1, <1>2
  DEF Posts, Started, Rising, Newest, AfterGot, AfterCurrent, AfterPending, CrossesOver,
      InOrder, Task
<1> QED
  BY <1>3, <1>4, <1>5, <1>6 DEF IInv, Messages

(* A crash of the program comes back to it. *)
LEMMA CrashStartsAgain == Crash => Init'
BY DEF Crash, Init, Server!ActivateCrashes, Server!SendCrashes, Server!Restart,
       Client!Restart, Server!SocketsReset, Client!SocketsReset, Server!ActiveReset,
       Client!ActiveReset, Server!Init, Client!Init, Server!SocketsInit, Client!SocketsInit,
       Server!ActiveInit, Client!ActiveInit, Server!Fresh, Client!Fresh, Proxy!Init,
       Doppler!Init

LEMMA CrashInvariant == Crash => IInv'
BY CrashStartsAgain, InitInvariant, PTL

(* Every step of the system. *)
LEMMA StepInvariant == IInv /\ [Next]_vars => IInv'
<1> SUFFICES ASSUME IInv, [Next]_vars
             PROVE  IInv'
  OBVIOUS
<1>1. CASE UNCHANGED vars
  <2>1. /\ UNCHANGED <<file, link, s_pc, s_fd, s_slot, s_mutex, c_pc, c_fd, c_slot, c_mutex>>
        /\ UNCHANGED <<p_offer, p_pending, p_current, d_offer, d_pending, d_current>>
        /\ UNCHANGED <<step, received, got>>
    BY <1>1 DEF vars, sockets, server, client, proxy, doppler, ghosts
  <2>2. Sides' /\ Counted'
    BY <2>1
    DEF IInv, Sides, SocketsType, ServerHolds, ClientHolds, InUse, New, Counted, Server!Pc,
        Server!Idle, Client!Pc, Client!Idle
  <2>3. Messages'
    BY <2>1
    DEF IInv, Messages, Loops, Proxy!TypeOK, Doppler!TypeOK, Posts, Started, Rising, Newest,
        AfterGot, AfterCurrent, AfterPending, CrossesOver, InOrder
  <2> QED
    BY <2>2, <2>3 DEF IInv
<1>2. CASE Crash
  BY <1>2, CrashInvariant
<1> QED
  BY <1>1, <1>2, QuietInvariant, ServerReceivesInvariant, ClientReceivesInvariant,
     ClientPostedDopplerInvariant, PostedInvariant, TakeInvariant, HandlerInvariant
  DEF Next, handle_data_from_tcp_client_event, handle_data_from_remote_host_event

(* The invariant holds in every reachable state. *)
LEMMA Invariant == Spec => []IInv
BY InitInvariant, StepInvariant, PTL DEF Spec

(* Every variable of the composed proxy keeps its type, each task has a    *)
(* descriptor exactly while it serves or connects, the channels stay       *)
(* within their queues and no connection gives more than it wrote.         *)
THEOREM TypeCorrect == Spec => []TypeOK
<1>1. IInv => TypeOK
  <2> SUFFICES ASSUME IInv
               PROVE  TypeOK
    OBVIOUS
  <2>1. Server!TypeOK
    BY DEF IInv, Sides, SocketsType, LinkType, LinkState, ServerHolds, Server!TypeOK,
           Server!Types, Server!SocketsType, Server!LinkType, Server!LinkState,
           Server!ActiveType
  <2>2. Client!TypeOK
    BY DEF IInv, Sides, SocketsType, LinkType, LinkState, ClientHolds, Client!TypeOK,
           Client!Types, Client!SocketsType, Client!LinkType, Client!LinkState,
           Client!ActiveType
  <2>3. \A c \in Conn : received[c] \in 0..MaxMessages[c]
    <3> SUFFICES ASSUME NEW c \in Conn
                 PROVE  received[c] \in 0..MaxMessages[c]
      OBVIOUS
    <3>1. received[c] \in Nat /\ received[c] + link[c].inbound <= MaxMessages[c]
      BY DEF IInv, Counted
    <3>2. link[c] \in LinkType
      BY DEF IInv, Sides, SocketsType
    <3>3. link[c].inbound \in Nat /\ MaxMessages[c] \in Nat
      BY <3>2, SocketsAssumption, BoundsAssumption DEF LinkType
    <3> QED
      BY <3>1, <3>3
  <2> QED
    BY <2>1, <2>2, <2>3 DEF IInv, Messages, Loops, TypeOK
<1> QED
  BY <1>1, Invariant, PTL

(* What a far end gets comes from the other side, however descriptors are  *)
(* closed and given out again while messages wait.                         *)
THEOREM CrossesOverCorrect == Spec => []CrossesOver
<1>1. IInv => CrossesOver
  BY DEF IInv, Messages
<1> QED
  BY <1>1, Invariant, PTL

(* A connection gets another's messages in the order they were sent, each  *)
(* at most once.                                                           *)
THEOREM InOrderCorrect == Spec => []InOrder
<1>1. IInv => InOrder
  BY DEF IInv, Messages
<1> QED
  BY <1>1, Invariant, PTL

(* No handler takes the server's mutex before the server has been started. *)
THEOREM ServerFirstCorrect == Spec => []ServerFirst
<1>1. IInv => ServerFirst
  <2> SUFFICES ASSUME IInv, step = "send", p_current.from \in Remote
               PROVE  s_pc # "off"
    BY DEF ServerFirst, ToClient
  <2>1. p_current # None /\ p_current.from \notin Local
    BY SidesAssumption DEF IInv, Messages, Loops
  <2> QED
    BY <2>1 DEF IInv, Messages, Started
<1> QED
  BY <1>1, Invariant, PTL

(* What the server's and the client's modules show of each task with an    *)
(* environment of its own holds of both when they share the sockets: a     *)
(* send of the proxy's loop is on the connection being served and open,    *)
(* and neither task leaves a descriptor open.                              *)
THEOREM PartsKeepPromises ==
    Spec => [](/\ Server!SendsToServedClient /\ Server!NoDescriptorLeak
               /\ Client!SendsToHost /\ Client!NoDescriptorLeak)
<1>1. IInv => Server!SendsToServedClient /\ Server!NoDescriptorLeak
  BY DEF IInv, Sides, ServerHolds, InUse, Server!SendsToServedClient, Server!NoDescriptorLeak
<1>2. IInv => Client!SendsToHost /\ Client!NoDescriptorLeak
  BY DEF IInv, Sides, ClientHolds, InUse, Client!SendsToHost, Client!NoDescriptorLeak
<1> QED
  BY <1>1, <1>2, Invariant, PTL

(* From one start of the program to the next, the proxy uses proxy_events  *)
(* as the bounded FIFO that EventChannel describes.                        *)
THEOREM UsesChannel ==
    Spec => Proxy!Init /\ [][Proxy!Next \/ Proxy!Init']_<<p_offer, p_pending, p_current>>
<1>1. Init => Proxy!Init
  BY DEF Init
<1>2. IInv /\ [Next]_vars =>
         [Proxy!Next \/ Proxy!Init']_<<p_offer, p_pending, p_current>>
  <2> SUFFICES ASSUME IInv, [Next]_vars
               PROVE  \/ Proxy!Next \/ Proxy!Init'
                      \/ UNCHANGED <<p_offer, p_pending, p_current>>
    BY DEF Proxy!vars
  <2>1. CASE ServerReceives
    <3>1. Arrived(s_fd, received[file[s_fd]] + 1) \in Message
      BY <2>1, ServerReceiveSides, SidesAssumption
      DEF IInv, Counted, ServerReceives, Arrived, Message
    <3> QED
      BY <2>1, <3>1 DEF ServerReceives, Proxy!Next, Task
  <2>2. CASE ClientPostedDoppler
    <3>1. file[c_fd] \in Remote /\ received[file[c_fd]] > 0
      BY <2>2 DEF IInv, Messages, Sides, Posts, ClientHolds, Client!Idle, ClientPostedDoppler
    <3>2. Arrived(c_fd, received[file[c_fd]]) \in Message
      BY <3>1, SidesAssumption DEF IInv, Counted, Arrived, Message
    <3> QED
      BY <2>2, <3>2 DEF ClientPostedDoppler, Proxy!Next, Task
  <2>3. CASE ServerPosted \/ ClientPosted
    BY <2>3 DEF ServerPosted, ClientPosted, Proxy!Next, Task
  <2>4. CASE \/ TakeEvent \/ SendOkToHost \/ SendFailsToHost
             \/ SendOkToClient \/ SendFailsToClient
    BY <2>4
    DEF TakeEvent, SendOkToHost, SendFailsToHost, SendOkToClient, SendFailsToClient,
        HandlerReturns, Proxy!Next
  <2>5. CASE Crash
    BY <2>5, CrashStartsAgain, <1>1 DEF Crash, Proxy!Init
  <2>6. CASE \/ ServerStart \/ ClientStart \/ ServerOther \/ ClientReceives
             \/ ClientReceivesNoPacket \/ ClientOther \/ Process
             \/ SendBeginsToHost \/ SendBeginsToClient
             \/ DopplerTake \/ DopplerDone \/ Peers \/ UNCHANGED vars
    BY <2>6
    DEF ServerStart, ClientStart, ServerOther, ClientReceives, ClientReceivesNoPacket,
        ClientOther, Process, SendBeginsToHost, SendBeginsToClient, DopplerTake,
        DopplerDone, Peers, vars, proxy
  <2> QED
    BY <2>1, <2>2, <2>3, <2>4, <2>5, <2>6
    DEF Next, handle_data_from_tcp_client_event, handle_data_from_remote_host_event
<1> QED
  BY <1>1, <1>2, Invariant, PTL DEF Spec

(* And the client task uses doppler_events as one, with its dispatcher.    *)
THEOREM UsesDopplerChannel ==
    Spec => Doppler!Init /\ [][Doppler!Next \/ Doppler!Init']_<<d_offer, d_pending, d_current>>
<1>1. Init => Doppler!Init
  BY DEF Init
<1>2. [Next]_vars => [Doppler!Next \/ Doppler!Init']_<<d_offer, d_pending, d_current>>
  <2> SUFFICES ASSUME [Next]_vars
               PROVE  \/ Doppler!Next \/ Doppler!Init'
                      \/ UNCHANGED <<d_offer, d_pending, d_current>>
    OBVIOUS
  <2>1. CASE ClientReceives \/ ClientPostedDoppler \/ DopplerTake \/ DopplerDone
    BY <2>1
    DEF ClientReceives, ClientPostedDoppler, DopplerTake, DopplerDone, Doppler!Next
  <2>2. CASE Crash
    BY <2>2, CrashStartsAgain, <1>1 DEF Crash, Doppler!Init
  <2>3. CASE \/ ServerStart \/ ClientStart \/ ServerReceives \/ ServerPosted
             \/ ServerOther \/ ClientReceivesNoPacket \/ ClientPosted \/ ClientOther
             \/ TakeEvent \/ Process \/ SendBeginsToHost \/ SendOkToHost
             \/ SendFailsToHost \/ SendBeginsToClient \/ SendOkToClient
             \/ SendFailsToClient \/ Peers \/ UNCHANGED vars
    BY <2>3
    DEF ServerStart, ClientStart, ServerReceives, ServerPosted, ServerOther,
        ClientReceivesNoPacket, ClientPosted, ClientOther, TakeEvent, Process,
        SendBeginsToHost, SendOkToHost, SendFailsToHost, SendBeginsToClient,
        SendOkToClient, SendFailsToClient, Peers, vars, doppler
  <2> QED
    BY <2>1, <2>2, <2>3
    DEF Next, handle_data_from_tcp_client_event, handle_data_from_remote_host_event
<1> QED
  BY <1>1, <1>2, PTL DEF Spec

-----------------------------------------------------------------------------
(* What the client task and its senders do to the sockets is what TcpServer *)
(* expects of the rest of the program.                                      *)
LEMMA ClientKeepsToItsOwn ==
    ASSUME Sides,
           \/ ClientStart \/ ClientReceives \/ ClientReceivesNoPacket \/ ClientPosted
           \/ ClientOther \/ SendBeginsToHost \/ SendOkToHost \/ SendFailsToHost
    PROVE  UNCHANGED sockets \/ OtherStep(Conn \ Local)
<1>1. ClientHolds /\ Remote = Conn \ Local
  BY SidesAssumption DEF Sides
<1>2. CASE \/ ClientStart \/ ClientPosted \/ SendBeginsToHost \/ SendFailsToHost
           \/ Client!ResolveFails \/ Client!Activate \/ Client!ReceiveEnds
           \/ Client!Deactivate \/ Client!Delay
  BY <1>2
  DEF ClientStart, ClientPosted, SendBeginsToHost, SendFailsToHost,
      Client!tcp_client_app_start, Client!Start, Client!StartFails, Client!CallbackReturns,
      Client!SendBegins, Client!SendError, Client!SendNowhere, Client!SendUnstarted,
      Client!ResolveFails, Client!Activate, Client!set_active_socket, Client!ReceiveEnds,
      Client!RecvEnds, Client!Deactivate, Client!Delay, Client!sockets, sockets
<1>3. CASE Client!Receive
  <2>1. RecvDone(c_fd) /\ c_fd \in Fd /\ file[c_fd] \in Conn \ Local
    BY <1>1, <1>3
    DEF Client!Receive, Client!Goto, Client!RecvDone, RecvDone, ClientHolds, Client!Idle
  <2> QED
    BY <2>1 DEF OtherStep
<1>4. ASSUME NEW c \in Remote, NEW f \in Fd, Client!OpenSocket(c, f)
      PROVE  OtherStep(Conn \ Local)
  <2>1. /\ link[c].state = "new" /\ Allocate(f, c) /\ UNCHANGED link
        /\ c_fd = None
    BY <1>1, <1>4
    DEF Client!OpenSocket, Client!Goto, Client!Allocate, Allocate, ClientHolds, Client!Idle
  <2>2. \A g \in Fd : file[g] # c
    BY <1>1, <2>1, SocketsAssumption DEF ClientHolds
  <2> QED
    BY <1>1, <2>1, <2>2 DEF OtherStep, OtherOpens
<1>5. CASE Client!Connected
  <2>1. /\ To(file[c_fd], "up") /\ UNCHANGED file /\ New(file[c_fd])
        /\ c_fd \in Fd /\ file[c_fd] \in Conn \ Local
    BY <1>1, <1>5
    DEF Client!Connected, Client!Goto, Client!To, To, ClientHolds, Client!Idle
  <2> QED
    BY <2>1 DEF OtherStep, OtherConnects, New
<1>6. CASE Client!Refused \/ Client!Close
  <2>1. Shut(c_fd) /\ c_fd \in Fd /\ file[c_fd] \in Conn \ Local
    BY <1>1, <1>6
    DEF Client!Refused, Client!Close, Client!Goto, Client!Shut, Shut, ClientHolds,
        Client!Idle
  <2> QED
    BY <2>1 DEF OtherStep
<1>7. CASE SendOkToHost
  <2>1. SendDone(c_slot) /\ c_slot \in Fd /\ file[c_slot] \in Conn \ Local
    BY <1>1, <1>7, AbsentAssumption
    DEF SendOkToHost, Client!SendOk, Client!SendDone, Client!Room, SendDone, Room,
        ClientHolds
  <2> QED
    BY <2>1 DEF OtherStep
<1> QED
  BY <1>2, <1>3, <1>4, <1>5, <1>6, <1>7
  DEF ClientReceives, ClientReceivesNoPacket, ClientOther

(* And the other way about. *)
LEMMA ServerKeepsToItsOwn ==
    ASSUME Sides,
           \/ ServerStart \/ ServerReceives \/ ServerPosted \/ ServerOther
           \/ SendBeginsToClient \/ SendOkToClient \/ SendFailsToClient
    PROVE  UNCHANGED sockets \/ OtherStep(Conn \ Remote)
<1>1. ServerHolds /\ Local = Conn \ Remote
  BY SidesAssumption DEF Sides
<1>2. CASE \/ ServerStart \/ ServerPosted \/ SendBeginsToClient \/ SendFailsToClient
           \/ Server!Listen \/ Server!ListenFails \/ Server!AcceptFails
           \/ Server!Activate \/ Server!WelcomeFails \/ Server!Notify
           \/ Server!ReceiveEnds \/ Server!Deactivate
  BY <1>2
  DEF ServerStart, ServerPosted, SendBeginsToClient, SendFailsToClient,
      Server!tcp_server_app_start, Server!CallbackReturns, Server!SendBegins,
      Server!SendError, Server!SendNowhere, Server!Listen, Server!ListenFails,
      Server!AcceptFails, Server!Activate, Server!set_active_socket, Server!WelcomeFails,
      Server!Notify, Server!ReceiveEnds, Server!RecvEnds, Server!Deactivate,
      Server!sockets, sockets
<1>3. CASE ServerReceives
  <2>1. RecvDone(s_fd) /\ s_fd \in Fd /\ file[s_fd] \in Conn \ Remote
    BY <1>1, <1>3
    DEF ServerReceives, Server!Receive, Server!Goto, Server!RecvDone, RecvDone,
        ServerHolds, Server!Idle
  <2> QED
    BY <2>1 DEF OtherStep
<1>4. ASSUME NEW c \in Local, NEW f \in Fd, Server!Accept(c, f)
      PROVE  OtherStep(Conn \ Remote)
  <2>1. /\ link[c].state = "new" /\ Allocate(f, c) /\ To(c, "up")
        /\ s_fd = None
    BY <1>1, <1>4
    DEF Server!Accept, Server!Goto, Server!Allocate, Allocate, Server!To, To, ServerHolds,
        Server!Idle
  <2>2. \A g \in Fd : file[g] # c
    BY <1>1, <2>1, SocketsAssumption DEF ServerHolds
  <2> QED
    BY <1>1, <2>1, <2>2 DEF OtherStep, OtherOpens
<1>5. CASE Server!Welcome
  <2>1. SendDone(s_fd) /\ s_fd \in Fd /\ file[s_fd] \in Conn \ Remote
    BY <1>1, <1>5
    DEF Server!Welcome, Server!Goto, Server!SendDone, Server!Room, SendDone, Room,
        ServerHolds, Server!Idle
  <2> QED
    BY <2>1 DEF OtherStep
<1>6. CASE Server!Close
  <2>1. Shut(s_fd) /\ s_fd \in Fd /\ file[s_fd] \in Conn \ Remote
    BY <1>1, <1>6 DEF Server!Close, Server!Goto, Server!Shut, Shut, ServerHolds, Server!Idle
  <2> QED
    BY <2>1 DEF OtherStep
<1>7. CASE SendOkToClient
  <2>1. SendDone(s_slot) /\ s_slot \in Fd /\ file[s_slot] \in Conn \ Remote
    BY <1>1, <1>7, AbsentAssumption
    DEF SendOkToClient, Server!SendOk, Server!SendDone, Server!Room, SendDone, Room,
        ServerHolds
  <2> QED
    BY <2>1 DEF OtherStep
<1> QED
  BY <1>2, <1>3, <1>4, <1>5, <1>6, <1>7 DEF ServerOther

(* The environments of the two modules are made of the same steps.         *)
LEMMA SameSteps ==
    ASSUME NEW others \in SUBSET Conn
    PROVE  /\ OtherStep(others) <=> Server!OtherStep(others)
           /\ OtherStep(others) <=> Client!OtherStep(others)
           /\ \A c \in Conn : PeerStep(c) <=> Server!PeerStep(c)
           /\ \A c \in Conn : PeerStep(c) <=> Client!PeerStep(c)
<1>1. OtherStep(others) <=> Server!OtherStep(others)
  BY DEF OtherStep, OtherOpens, OtherConnects, Allocate, To, SendDone, Room, RecvDone,
         Shut, Server!OtherStep, Server!OtherOpens, Server!OtherConnects, Server!Allocate,
         Server!To, Server!SendDone, Server!Room, Server!RecvDone, Server!Shut
<1>2. OtherStep(others) <=> Client!OtherStep(others)
  BY DEF OtherStep, OtherOpens, OtherConnects, Allocate, To, SendDone, Room, RecvDone,
         Shut, Client!OtherStep, Client!OtherOpens, Client!OtherConnects, Client!Allocate,
         Client!To, Client!SendDone, Client!Room, Client!RecvDone, Client!Shut
<1>3. \A c \in Conn : PeerStep(c) <=> Server!PeerStep(c)
  BY DEF PeerStep, PeerWrites, PeerReads, PeerCloses, PeerResets, PeerVanishes, GivesUp, To,
         Server!PeerStep, Server!PeerWrites, Server!PeerReads, Server!PeerCloses,
         Server!PeerResets, Server!PeerVanishes, Server!GivesUp, Server!To
<1>4. \A c \in Conn : PeerStep(c) <=> Client!PeerStep(c)
  BY DEF PeerStep, PeerWrites, PeerReads, PeerCloses, PeerResets, PeerVanishes, GivesUp, To,
         Client!PeerStep, Client!PeerWrites, Client!PeerReads, Client!PeerCloses,
         Client!PeerResets, Client!PeerVanishes, Client!GivesUp, Client!To
<1> QED
  BY <1>1, <1>2, <1>3, <1>4

(* Steps that are neither a task's nor a sender's. *)
LEMMA RestOfSystem ==
    ASSUME \/ ClientPostedDoppler \/ TakeEvent \/ Process \/ DopplerTake \/ DopplerDone
           \/ Peers \/ UNCHANGED vars
    PROVE  /\ UNCHANGED <<server, client>>
           /\ UNCHANGED sockets \/ \E c \in Conn : PeerStep(c)
BY DEF ClientPostedDoppler, TakeEvent, Process, DopplerTake, DopplerDone, Peers, vars

(* Every behaviour of the proxy is one of the server task alone with an    *)
(* environment: what TcpServer promises holds in it.                       *)
THEOREM ImplementsServer == Spec => Server!Spec
<1>1. Init => Server!Init
  BY DEF Init
<1>2. IInv /\ [Next]_vars => [Server!Next]_(Server!vars)
  <2> SUFFICES ASSUME IInv, [Next]_vars
               PROVE  Server!Next \/ UNCHANGED Server!vars
    OBVIOUS
  <2>1. CASE \/ ServerStart \/ ServerReceives \/ ServerPosted \/ ServerOther
    BY <2>1
    DEF ServerStart, ServerReceives, ServerPosted, ServerOther, Server!Next,
        Server!tcp_server_task, Server!Serve
  <2>2. CASE SendBeginsToClient \/ SendOkToClient \/ SendFailsToClient
    BY <2>2
    DEF SendBeginsToClient, SendOkToClient, SendFailsToClient, Server!Next,
        Server!tcp_server_app_send, Server!SendEnds, Server!task
  <2>3. CASE Crash
    BY <2>3 DEF Crash, Server!Next, Server!tcp_server_task
  <2>4. ASSUME UNCHANGED server,
               \/ UNCHANGED sockets \/ OtherStep(Conn \ Local)
               \/ \E c \in Conn : PeerStep(c)
        PROVE  Server!Next \/ UNCHANGED Server!vars
    <3>1. UNCHANGED <<s_pc, s_fd, s_slot, s_mutex>>
      BY <2>4 DEF server
    <3>2. CASE UNCHANGED sockets
      BY <3>1, <3>2 DEF sockets, Server!vars
    <3>3. CASE OtherStep(Conn \ Local) \/ \E c \in Conn : PeerStep(c)
      BY <3>1, <3>3, SameSteps DEF Server!Next, Server!Environment, Server!active, Server!task
    <3> QED
      BY <2>4, <3>2, <3>3
  <2>5. CASE \/ ClientStart \/ ClientReceives \/ ClientReceivesNoPacket \/ ClientPosted
             \/ ClientOther \/ SendBeginsToHost \/ SendOkToHost \/ SendFailsToHost
    <3>1. UNCHANGED server
      BY <2>5
      DEF ClientStart, ClientReceives, ClientReceivesNoPacket, ClientPosted, ClientOther,
          SendBeginsToHost, SendOkToHost, SendFailsToHost
    <3> QED
      BY <2>4, <2>5, <3>1, ClientKeepsToItsOwn DEF IInv
  <2> QED
    BY <2>1, <2>2, <2>3, <2>4, <2>5, RestOfSystem
    DEF Next, handle_data_from_tcp_client_event, handle_data_from_remote_host_event
<1> QED
  BY <1>1, <1>2, Invariant, PTL DEF Spec, Server!Spec

(* As for the client task. *)
THEOREM ImplementsClient == Spec => Client!Spec
<1>1. Init => Client!Init
  BY DEF Init
<1>2. IInv /\ [Next]_vars => [Client!Next]_(Client!vars)
  <2> SUFFICES ASSUME IInv, [Next]_vars
               PROVE  Client!Next \/ UNCHANGED Client!vars
    OBVIOUS
  <2>1. CASE \/ ClientStart \/ ClientReceives \/ ClientReceivesNoPacket \/ ClientPosted
             \/ ClientOther
    BY <2>1
    DEF ClientStart, ClientReceives, ClientReceivesNoPacket, ClientPosted, ClientOther,
        Client!Next, Client!tcp_client_task, Client!Attempt, Client!Work
  <2>2. CASE SendBeginsToHost \/ SendOkToHost \/ SendFailsToHost
    BY <2>2
    DEF SendBeginsToHost, SendOkToHost, SendFailsToHost, Client!Next,
        Client!tcp_client_app_send, Client!SendEnds, Client!task
  <2>3. CASE Crash
    BY <2>3 DEF Crash, Client!Next
  <2>4. ASSUME UNCHANGED client,
               \/ UNCHANGED sockets \/ OtherStep(Conn \ Remote)
               \/ \E c \in Conn : PeerStep(c)
        PROVE  Client!Next \/ UNCHANGED Client!vars
    <3>1. UNCHANGED <<c_pc, c_fd, c_slot, c_mutex>>
      BY <2>4 DEF client
    <3>2. CASE UNCHANGED sockets
      BY <3>1, <3>2 DEF sockets, Client!vars
    <3>3. CASE OtherStep(Conn \ Remote) \/ \E c \in Conn : PeerStep(c)
      BY <3>1, <3>3, SameSteps DEF Client!Next, Client!Environment, Client!active, Client!task
    <3> QED
      BY <2>4, <3>2, <3>3
  <2>5. CASE \/ ServerStart \/ ServerReceives \/ ServerPosted \/ ServerOther
             \/ SendBeginsToClient \/ SendOkToClient \/ SendFailsToClient
    <3>1. UNCHANGED client
      BY <2>5
      DEF ServerStart, ServerReceives, ServerPosted, ServerOther, SendBeginsToClient,
          SendOkToClient, SendFailsToClient
    <3> QED
      BY <2>4, <2>5, <3>1, ServerKeepsToItsOwn DEF IInv
  <2> QED
    BY <2>1, <2>2, <2>3, <2>4, <2>5, RestOfSystem
    DEF Next, handle_data_from_tcp_client_event, handle_data_from_remote_host_event
<1> QED
  BY <1>1, <1>2, Invariant, PTL DEF Spec, Client!Spec
=============================================================================
