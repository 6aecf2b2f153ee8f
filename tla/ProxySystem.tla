----------------------------- MODULE ProxySystem -----------------------------
(***************************************************************************)
(* The proxy of app_main.c put together: the server task, the client task, *)
(* the two event loops they post to, and the handlers that send what one   *)
(* side received to the other side.                                        *)
(*                                                                         *)
(*   local client  -> TcpServer -> proxy_events   -> tcp_client_app_send   *)
(*   remote host   -> TcpClient -> doppler_events -> dispatcher            *)
(*                             \-> proxy_events   -> tcp_server_app_send   *)
(*                                                                         *)
(* The event loops are taken at the level of EventChannel, which EventLoop *)
(* implements.  A message is what one recv gave the server task, or one    *)
(* packet of the remote host; what decoding does to it is in FrameParser.  *)
(***************************************************************************)
EXTENDS Sockets, Sequences

CONSTANTS
    Local,          \* connections of local clients
    Remote,         \* connections to the remote host
    Absent,         \* no mutex
    QueueSize,      \* PROXY_EVENT_QUEUE_SIZE, DOPPLER_EVENT_QUEUE_SIZE
    MaxMessages,    \* bound on the messages of each connection
    Endings         \* the ways a far end may end a connection: "fin", "rst", "gone"

ASSUME SidesAssumption == Local \cup Remote = Conn /\ Local \cap Remote = {}
ASSUME BoundsAssumption == QueueSize \in Nat \ {0} /\ MaxMessages \in [Conn -> Nat]
ASSUME AbsentAssumption == None # "loop" /\ Absent \notin {"loop", None}
ASSUME EndingsAssumption == Endings \subseteq LinkState

VARIABLES
    s_pc, s_fd, s_slot, s_mutex,        \* TcpServer: pc, sock, slot, mutex
    c_pc, c_fd, c_slot, c_mutex,        \* TcpClient
    p_offer, p_pending, p_current,      \* EventChannel of proxy_events
    d_offer, d_pending, d_current,      \* EventChannel of doppler_events
    step,       \* where the proxy handler is: "idle", "process" or "send"
    received,   \* ghost: received[c] counts the messages received from c
    got         \* ghost: got[c] is what was sent to c

server == <<s_pc, s_fd, s_slot, s_mutex>>
client == <<c_pc, c_fd, c_slot, c_mutex>>
proxy == <<p_offer, p_pending, p_current>>
doppler == <<d_offer, d_pending, d_current>>
ghosts == <<received, got>>
vars == <<sockets, server, client, proxy, doppler, step, ghosts>>

Task == {"server", "client"}

(* A message names its place in what its connection sent. *)
Message == [from : Conn, n : Nat \ {0}]

Server == INSTANCE TcpServer WITH
    pc <- s_pc, sock <- s_fd, slot <- s_slot, mutex <- s_mutex,
    Client <- Local, Caller <- {"loop"}

Client == INSTANCE TcpClient WITH
    pc <- c_pc, sock <- c_fd, slot <- c_slot, mutex <- c_mutex,
    Host <- Remote, Caller <- {"loop"}

Proxy == INSTANCE EventChannel WITH
    Producer <- Task, Data <- Message, Empty <- None, Nil <- None,
    Capacity <- QueueSize,
    offer <- p_offer, pending <- p_pending, current <- p_current

Doppler == INSTANCE EventChannel WITH
    Producer <- {"client"}, Data <- {"packet"}, Empty <- None, Nil <- None,
    Capacity <- QueueSize,
    offer <- d_offer, pending <- d_pending, current <- d_current

Init ==
    /\ Server!Init
    /\ Client!Init
    /\ Proxy!Init
    /\ Doppler!Init
    /\ step = "idle"
    /\ received = [c \in Conn |-> 0]
    /\ got = [c \in Conn |-> <<>>]

-----------------------------------------------------------------------------
(* app_main starts the server and then the client, when the event loops    *)
(* are there.  The tasks run at once, whether or not it has got further.   *)
ServerStart ==
    /\ Server!tcp_server_app_start
    /\ UNCHANGED <<client, proxy, doppler, step, ghosts>>

(* Mutant of ClientStart: the client is started whether or not the server  *)
(* has been.                                                               *)
ClientStartEarly ==
    /\ Client!tcp_client_app_start
    /\ UNCHANGED <<server, proxy, doppler, step, ghosts>>

ClientStart ==
    /\ s_pc # "off"
    /\ Client!tcp_client_app_start
    /\ UNCHANGED <<server, proxy, doppler, step, ghosts>>

(* The n-th message of the connection on f. *)
Arrived(f, n) == [from |-> file[f], n |-> n]

Count(f) ==
    /\ received' = [received EXCEPT ![file[f]] = @ + 1]
    /\ UNCHANGED got

(* The server task. *)
ServerReceives ==
    /\ Server!Receive
    /\ Proxy!Call("server", Arrived(s_fd, received[file[s_fd]] + 1))
    /\ Count(s_fd)
    /\ UNCHANGED <<client, doppler, step>>

(* on_data_from_tcp_client returns: posted or dropped. *)
ServerPosted ==
    /\ Server!CallbackReturns
    /\ Proxy!Accept("server") \/ Proxy!Drop("server")
    /\ UNCHANGED <<client, doppler, step, ghosts>>

ServerOther ==
    /\ \/ Server!Listen \/ Server!ListenFails
       \/ \E c \in Local, f \in Fd : Server!Accept(c, f)
       \/ Server!AcceptFails
       \/ Server!Activate
       \/ Server!Welcome \/ Server!WelcomeFails \/ Server!Notify
       \/ Server!ReceiveEnds \/ Server!Deactivate \/ Server!Close
    /\ UNCHANGED <<client, proxy, doppler, step, ghosts>>

(* The client task; on_data_from_remote_host posts to doppler_events first *)
(* and then to proxy_events.                                               *)
ClientReceives ==
    /\ Client!Receive
    /\ c_pc' = "callback"
    /\ Doppler!Call("client", "packet")
    /\ Count(c_fd)
    /\ UNCHANGED <<server, proxy, step>>

(* Bytes that complete no packet: part of one, or one with a defect. *)
ClientReceivesNoPacket ==
    /\ Client!Receive
    /\ c_pc' = "recv"
    /\ Count(c_fd)
    /\ UNCHANGED <<server, proxy, doppler, step>>

ClientPostedDoppler ==
    /\ d_offer["client"] # None
    /\ Doppler!Accept("client") \/ Doppler!Drop("client")
    /\ Proxy!Call("client", Arrived(c_fd, received[file[c_fd]]))
    /\ UNCHANGED <<sockets, server, client, step, ghosts>>

ClientPosted ==
    /\ Client!CallbackReturns
    /\ Proxy!Accept("client") \/ Proxy!Drop("client")
    /\ UNCHANGED <<server, doppler, step, ghosts>>

ClientOther ==
    /\ \/ Client!ResolveFails
       \/ \E c \in Remote, f \in Fd : Client!OpenSocket(c, f)
       \/ Client!Connected \/ Client!Refused
       \/ Client!Activate
       \/ Client!ReceiveEnds \/ Client!Deactivate \/ Client!Close
       \/ Client!Delay
    /\ UNCHANGED <<server, proxy, doppler, step, ghosts>>

-----------------------------------------------------------------------------

(* Mutant of TakeEvent: a stack instead of a queue. *)
TakeNewest ==
    /\ p_current = None
    /\ p_pending # <<>>
    /\ p_current' = p_pending[Len(p_pending)]
    /\ p_pending' = SubSeq(p_pending, 1, Len(p_pending) - 1)
    /\ step' = "process"
    /\ UNCHANGED <<sockets, server, client, doppler, ghosts, p_offer>>

(* The proxy's event loop and its two handlers. *)
TakeEvent ==
    /\ Proxy!Take
    /\ step' = "process"
    /\ UNCHANGED <<sockets, server, client, doppler, ghosts>>

(* process_data_from_*: what came from the remote host is published.       *)
Process ==
    /\ step = "process"
    /\ step' = "send"
    /\ UNCHANGED <<sockets, server, client, proxy, doppler, ghosts>>

(* The handler is over: evt->data is freed. *)
HandlerReturns == Proxy!Done /\ step' = "idle"

Deliver(f) == got' = [got EXCEPT ![file[f]] = Append(@, p_current)]

ToHost == step = "send" /\ p_current.from \in Local
ToClient == step = "send" /\ p_current.from \in Remote

SendOkToHost ==
    /\ ToHost /\ Client!SendOk("loop") /\ Deliver(c_slot)
    /\ HandlerReturns
    /\ UNCHANGED <<c_pc, c_fd, server, doppler, received>>

SendFailsToHost ==
    /\ ToHost
    /\ Client!SendError("loop") \/ Client!SendNowhere("loop") \/ Client!SendUnstarted("loop")
    /\ HandlerReturns
    /\ UNCHANGED <<c_pc, c_fd, server, doppler, ghosts>>

SendBeginsToHost ==
    /\ ToHost /\ Client!SendBegins("loop")
    /\ UNCHANGED <<c_pc, c_fd, server, proxy, doppler, step, ghosts>>

SendOkToClient ==
    /\ ToClient /\ Server!SendOk("loop") /\ Deliver(s_slot)
    /\ HandlerReturns
    /\ UNCHANGED <<s_pc, s_fd, client, doppler, received>>

SendFailsToClient ==
    /\ ToClient
    /\ Server!SendError("loop") \/ Server!SendNowhere("loop")
    /\ HandlerReturns
    /\ UNCHANGED <<s_pc, s_fd, client, doppler, ghosts>>

SendBeginsToClient ==
    /\ ToClient /\ Server!SendBegins("loop")
    /\ UNCHANGED <<s_pc, s_fd, client, proxy, doppler, step, ghosts>>

(* The server has no mutex, and its task or the handler takes it.          *)
Crash ==
    /\ \/ Server!ActivateCrashes
       \/ ToClient /\ Server!SendCrashes
    /\ Client!Restart
    /\ p_offer' = [t \in Task |-> None] /\ p_pending' = <<>> /\ p_current' = None
    /\ d_offer' = [t \in {"client"} |-> None] /\ d_pending' = <<>> /\ d_current' = None
    /\ step' = "idle"
    /\ received' = [c \in Conn |-> 0]
    /\ got' = [c \in Conn |-> <<>>]

handle_data_from_tcp_client_event == SendBeginsToHost \/ SendOkToHost \/ SendFailsToHost

handle_data_from_remote_host_event ==
    SendBeginsToClient \/ SendOkToClient \/ SendFailsToClient

(* The doppler event loop and its dispatcher. *)
DopplerTake ==
    /\ Doppler!Take
    /\ UNCHANGED <<sockets, server, client, proxy, step, ghosts>>

DopplerDone ==
    /\ Doppler!Done
    /\ UNCHANGED <<sockets, server, client, proxy, step, ghosts>>

(* The far ends; c writes at most MaxMessages[c] messages. *)
Peers ==
    /\ \E c \in Conn :
          /\ PeerStep(c)
          /\ received[c] + link'[c].inbound <= MaxMessages[c]
          /\ link'[c].state # link[c].state => link'[c].state \in Endings
    /\ UNCHANGED <<server, client, proxy, doppler, step, ghosts>>

Next ==
    \/ ServerStart \/ ClientStart \/ Crash
    \/ ServerReceives \/ ServerPosted \/ ServerOther
    \/ ClientReceives \/ ClientReceivesNoPacket \/ ClientPostedDoppler
    \/ ClientPosted \/ ClientOther
    \/ TakeEvent \/ Process
    \/ handle_data_from_tcp_client_event
    \/ handle_data_from_remote_host_event
    \/ DopplerTake \/ DopplerDone
    \/ Peers

Spec == Init /\ [][Next]_vars

(* The network tasks run, and a post ends at its timeout; nothing is       *)
(* assumed of the handlers, nor of the far ends.                           *)
TaskFairness ==
    /\ WF_vars(ServerReceives \/ ServerPosted)
    /\ WF_vars(\/ ClientReceives \/ ClientReceivesNoPacket
               \/ ClientPostedDoppler \/ ClientPosted)
TaskSpec == Spec /\ TaskFairness

Reading(pc) == pc \in {"recv", "callback"}

(* A far end reads, but once its connection is being served it may first   *)
(* finish a write the proxy has no room for.                               *)
ReadsInTurn(c) ==
    /\ PeerReads(c)
    /\ \/ link[c].inbound < Window
       \/ c \in Local /\ ~Reading(s_pc)
       \/ c \in Remote /\ ~Reading(c_pc)
    /\ UNCHANGED <<server, client, proxy, doppler, step, ghosts>>

(* TCP gives up on a far end that vanished, and the system of one that     *)
(* closed resets what still arrives.                                       *)
LetGo(c) ==
    /\ GivesUp(c) \/ (link[c].state = "fin" /\ PeerResets(c))
    /\ UNCHANGED <<server, client, proxy, doppler, step, ghosts>>

ServerStep ==
    ServerReceives \/ ServerPosted \/ (ServerOther /\ (s_pc = "welcome" => Ready(s_fd)))

ClientStep ==
    \/ ClientReceives \/ ClientReceivesNoPacket
    \/ ClientPostedDoppler \/ ClientPosted
    \/ ClientOther

LoopStep ==
    \/ TakeEvent \/ Process
    \/ handle_data_from_tcp_client_event /\ (c_mutex = "loop" => Ready(c_slot))
    \/ handle_data_from_remote_host_event /\ (s_mutex = "loop" => Ready(s_slot))

(* The scheduler runs every task; a wait for a mutex or for room in a      *)
(* connection is not overtaken for ever.                                   *)
SystemFairness ==
    /\ SF_vars(ServerStep) /\ SF_vars(ClientStep) /\ SF_vars(LoopStep) /\ WF_vars(Crash)
    /\ \A c \in Conn : WF_vars(ReadsInTurn(c)) /\ WF_vars(LetGo(c))

-----------------------------------------------------------------------------
(* Types of the variables added to the components' own. *)
TypeOK ==
    /\ Server!TypeOK /\ Client!TypeOK
    /\ Proxy!TypeOK /\ Doppler!TypeOK
    /\ step \in {"idle", "process", "send"}
    /\ \A c \in Conn : received[c] \in 0..MaxMessages[c]
    /\ got \in [Conn -> Seq(Message)]

(* What a far end gets comes from the other side, whatever descriptors are *)
(* closed and given out again meanwhile: nothing is echoed back or sent to *)
(* a connection of the wrong side (README.md:136-142).                     *)
CrossesOver ==
    \A c \in Conn : \A i \in DOMAIN got[c] :
        got[c][i].from \in Local <=> c \in Remote

(* What a connection gets of another's messages is in the order they were  *)
(* sent, each at most once.                                                *)
InOrder ==
    \A c \in Conn : \A i, j \in DOMAIN got[c] :
        i < j /\ got[c][i].from = got[c][j].from => got[c][i].n < got[c][j].n

(* No handler calls tcp_server_app_send, which takes its mutex unchecked   *)
(* (tcp_server_app.c:40), before tcp_server_app_start has run: there is    *)
(* nothing from the remote host before the client is started, and a        *)
(* message of a local client meets a client that may not be started, which *)
(* tcp_client_app_send tests (tcp_client_app.c:175; app_main.c:467-470).   *)
ServerFirst == ToClient => s_pc # "off"

(* A task in its receive loop keeps taking what its far end sends, even    *)
(* when a handler or the far end it is sending to never finishes           *)
(* (README.md:145-155, "nunca atrasa a leitura do socket";                 *)
(* proxy_events.h:64-66).                                                  *)
Waiting(f) == f # None /\ link[file[f]].inbound > 0
KeepsReading ==
    /\ Reading(s_pc) /\ Waiting(s_fd) ~> ~Waiting(s_fd) \/ ~Reading(s_pc)
    /\ Reading(c_pc) /\ Waiting(c_fd) ~> ~Waiting(c_fd) \/ ~Reading(c_pc)

(* A handler always finishes when far ends read in turn: tasks, loop and   *)
(* far ends never wait for each other in a circle, though the loop sends   *)
(* with the mutex held and a far end may want to write before it reads     *)
(* (app_main.c:182-213).                                                   *)
HandlersFinish == SystemFairness => (step # "idle" ~> step = "idle")
=============================================================================
