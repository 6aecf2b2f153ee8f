------------------------------ MODULE TcpClient ------------------------------
(***************************************************************************)
(* tcp_client_app: the task that keeps a connection to the remote host     *)
(* (tcp_client_task, connect_to_remote_host), and the calls of             *)
(* tcp_client_app_send that other tasks make meanwhile.  pc names the      *)
(* place of the task:                                                      *)
(*                                                                         *)
(*   off -> connect -> connecting -> activate -> recv                      *)
(*   recv -> callback -> recv   (a packet is complete: on_data_received)   *)
(*   recv -> deactivate -> close -> delay -> connect                       *)
(*                                                                         *)
(* "dead": the start failed and there is no task.                          *)
(* The bytes received are taken a packet at a time: what the parser does   *)
(* within a packet is in FrameParser and RadarLink.                        *)
(***************************************************************************)
EXTENDS ActiveSocket

CONSTANT Host       \* connections to the remote host; the rest of Conn is others'

ASSUME HostAssumption == Host \subseteq Conn

VARIABLES
    pc,         \* where tcp_client_task is
    sock        \* its local variable sock, None when it has none

task == <<pc, sock>>
vars == <<file, link, slot, mutex, pc, sock>>

Pc == {"off", "connect", "connecting", "activate", "recv", "callback", "deactivate",
       "close", "delay", "dead"}

Init ==
    /\ SocketsInit
    /\ ActiveInit
    /\ pc = "off"
    /\ sock = None

(* Another part of the program crashes. *)
Restart == SocketsReset /\ ActiveReset /\ pc' = "off" /\ sock' = None

Goto(from, to) == pc = from /\ pc' = to

Start ==
    /\ Goto("off", "connect")
    /\ mutex' = None
    /\ UNCHANGED <<slot, sock, sockets>>

(* No mutex, no memory for the arguments or no task: nothing reports it.   *)
StartFails ==
    /\ Goto("off", "dead")
    /\ mutex' \in {None, Absent}
    /\ UNCHANGED <<slot, sock, sockets>>

tcp_client_app_start == Start \/ StartFails

(* Mutant of ResolveFails: -1 is taken for a connection. *)
ResolveFailsUnchecked == Goto("connect", "activate") /\ UNCHANGED <<sock, active, sockets>>

(* getaddrinfo or socket fails. *)
ResolveFails == Goto("connect", "delay") /\ UNCHANGED <<sock, active, sockets>>

(* The name is resolved; socket() gives a descriptor. *)
OpenSocket(c, f) ==
    /\ Goto("connect", "connecting")
    /\ link[c].state = "new"
    /\ Allocate(f, c)
    /\ sock' = f
    /\ UNCHANGED <<link, active>>

Connected ==
    /\ Goto("connecting", "activate")
    /\ To(file[sock], "up")
    /\ UNCHANGED <<file, sock, active>>

(* Mutant of Refused: the descriptor stays open. *)
RefusedLeak ==
    /\ Goto("connecting", "delay")
    /\ To(file[sock], "closed")
    /\ sock' = None
    /\ UNCHANGED <<file, active>>

(* connect() fails: the descriptor is closed and -1 returned. *)
Refused ==
    /\ Goto("connecting", "delay")
    /\ Shut(sock)
    /\ sock' = None
    /\ UNCHANGED active

Activate ==
    /\ Goto("activate", "recv")
    /\ set_active_socket(sock)
    /\ UNCHANGED <<sock, sockets>>

(* recv() returns bytes that complete a packet, or bytes that do not. *)
Receive ==
    /\ Goto("recv", "callback") \/ Goto("recv", "recv")
    /\ RecvDone(sock)
    /\ UNCHANGED <<sock, active>>

(* on_data_received returns. *)
CallbackReturns == Goto("callback", "recv") /\ UNCHANGED <<sock, active, sockets>>

(* Mutant of ReceiveEnds: the end of the connection is not noticed. *)
ReceiveEndsUnseen ==
    /\ Goto("recv", "recv")
    /\ RecvEnds(sock)
    /\ UNCHANGED <<sock, active>>

ReceiveEnds ==
    /\ Goto("recv", "deactivate")
    /\ RecvEnds(sock)
    /\ UNCHANGED <<sock, active>>

(* Mutant of Deactivate: the slot keeps the descriptor. *)
DeactivateForgotten == Goto("deactivate", "close") /\ UNCHANGED <<sock, active, sockets>>

Deactivate ==
    /\ Goto("deactivate", "close")
    /\ set_active_socket(None)
    /\ UNCHANGED <<sock, sockets>>

Close ==
    /\ Goto("close", "delay")
    /\ Shut(sock)
    /\ sock' = None
    /\ UNCHANGED active

(* RECONNECT_DELAY_MS have passed. *)
Delay == Goto("delay", "connect") /\ UNCHANGED <<sock, active, sockets>>

Attempt ==
    \/ ResolveFails
    \/ \E c \in Host, f \in Fd : OpenSocket(c, f)
    \/ Connected \/ Refused

Work ==
    \/ Activate
    \/ Receive \/ CallbackReturns \/ ReceiveEnds
    \/ Deactivate \/ Close
    \/ Delay

tcp_client_task == Attempt \/ Work

(* Called before the start, or after one that made no mutex: false.        *)
SendUnstarted(k) ==
    /\ mutex = Absent
    /\ UNCHANGED <<active, sockets>>

tcp_client_app_send(k) ==
    SendBegins(k) \/ SendEnds(k) \/ SendNowhere(k) \/ SendUnstarted(k)

(* The far ends and the rest of the program. *)
Environment ==
    /\ (\E c \in Conn : PeerStep(c) \/ PeerReturns(c)) \/ OtherStep(Conn \ Host)
    /\ UNCHANGED <<active, task>>

Next ==
    \/ tcp_client_app_start
    \/ tcp_client_task
    \/ \E k \in Caller : tcp_client_app_send(k) /\ UNCHANGED task
    \/ Environment
    \/ Restart

Spec == Init /\ [][Next]_vars

(* The scheduler runs the tasks, connect() returns in the end, the mutex   *)
(* comes to the task that waits for it, and the far end of a connection it *)
(* has closed reads or resets.                                             *)
Fairness ==
    /\ WF_vars(Attempt) /\ WF_vars(Work) /\ SF_vars(Activate) /\ SF_vars(Deactivate)
    /\ \A k \in Caller : WF_vars(SendReturns(k) /\ UNCHANGED task)
    /\ \A c \in Conn : WF_vars(PeerFinishes(c) /\ UNCHANGED <<active, task>>)
    /\ \A c \in Conn : WF_vars(GivesUp(c) /\ UNCHANGED <<active, task>>)
FairSpec == Spec /\ Fairness

-----------------------------------------------------------------------------
Types ==
    /\ SocketsType
    /\ ActiveType
    /\ pc \in Pc
    /\ sock \in Fd \cup {None}

Idle == {"off", "connect", "delay", "dead"}

(* Types of the state; the task has a descriptor exactly while it connects *)
(* or is connected, and it is open to the host, whatever the rest of the   *)
(* program opens and closes.                                               *)
TypeOK ==
    /\ Types
    /\ pc \in Idle <=> sock = None
    /\ sock # None => file[sock] \in Host

(* A send in progress is on the connection the task made and still holds:  *)
(* never on a descriptor already closed or opened again by another part of *)
(* the program (tcp_client_app.h:65-70, "Thread-safe"; the order of        *)
(* tcp_client_app.c:346-348).                                              *)
SendsToHost ==
    mutex \in Caller =>
        /\ slot = sock
        /\ file[slot] \in Host
        /\ link[file[slot]].state # "closed"

(* However often the host refuses or drops a connection, no descriptor is  *)
(* left open (tcp_client_app.c:304, :348).                                 *)
NoDescriptorLeak == \A f \in Fd : file[f] \in Host => f = sock

(* A connection that the host closes or that breaks is given up and a new  *)
(* attempt made (tcp_client_app.h:42-43, README.md:64), unless the whole   *)
(* program starts again meanwhile.                                         *)
Broken == sock # None /\ pc # "connecting" /\ link[file[sock]].state \in {"fin", "rst"}
Reconnects == Broken ~> pc \in {"connect", "off"}
=============================================================================
