------------------------------ MODULE TcpServer ------------------------------
(***************************************************************************)
(* tcp_server_app: the task that serves one local TCP client after another *)
(* (tcp_server_task), and the calls of tcp_server_app_send that other      *)
(* tasks make meanwhile.  pc names the place of the task:                  *)
(*                                                                         *)
(*   off -> listen -> accept -> activate -> welcome -> notify -> recv      *)
(*   recv -> callback -> recv          (on_data_received, a task's time)   *)
(*   recv -> deactivate -> close -> accept                                 *)
(*                                                                         *)
(* "dead": the task has ended, or could not be created.  The rest of the   *)
(* program opens and closes descriptors too.                               *)
(***************************************************************************)
EXTENDS ActiveSocket

CONSTANT Client     \* the connections of local clients; the rest of Conn is others'

ASSUME ClientAssumption == Client \subseteq Conn

VARIABLES
    pc,         \* where tcp_server_task is
    sock        \* its local variable sock, None when it has none

task == <<pc, sock>>
vars == <<file, link, slot, mutex, pc, sock>>

Pc == {"off", "listen", "accept", "activate", "welcome", "notify", "recv", "callback",
       "deactivate", "close", "dead"}

Init ==
    /\ SocketsInit
    /\ ActiveInit
    /\ pc = "off"
    /\ sock = None

Restart == SocketsReset /\ ActiveReset /\ pc' = "off" /\ sock' = None

Goto(from, to) == pc = from /\ pc' = to

(* tcp_server_app_start: mutex or task may be missing, and nothing checks. *)
tcp_server_app_start ==
    /\ pc = "off"
    /\ pc' \in {"listen", "dead"}
    /\ mutex' \in {None, Absent}
    /\ UNCHANGED <<slot, sock, sockets>>

(* socket, bind and listen. *)
Listen == Goto("listen", "accept") /\ UNCHANGED <<sock, active, sockets>>

ListenFails == Goto("listen", "dead") /\ UNCHANGED <<sock, active, sockets>>

Accept(c, f) ==
    /\ Goto("accept", "activate")
    /\ link[c].state = "new"
    /\ Allocate(f, c)
    /\ To(c, "up")
    /\ sock' = f
    /\ UNCHANGED active

(* Mutant of AcceptFails: -1 is taken for a client. *)
AcceptFailsUnchecked == Goto("accept", "activate") /\ UNCHANGED <<sock, active, sockets>>

(* accept fails: the task ends for good. *)
AcceptFails == Goto("accept", "dead") /\ UNCHANGED <<sock, active, sockets>>

Activate ==
    /\ Goto("activate", "welcome")
    /\ set_active_socket(sock)
    /\ UNCHANGED <<sock, sockets>>

(* xSemaphoreTake(NULL): the program starts again. *)
ActivateCrashes == pc = "activate" /\ mutex = Absent /\ Restart

(* The welcome message goes out without the mutex; its failure is ignored. *)
Welcome ==
    /\ Goto("welcome", "notify")
    /\ SendDone(sock)
    /\ UNCHANGED <<sock, active>>

WelcomeFails == Goto("welcome", "notify") /\ UNCHANGED <<sock, active, sockets>>

(* on_client_connected. *)
Notify == Goto("notify", "recv") /\ UNCHANGED <<sock, active, sockets>>

Receive ==
    /\ Goto("recv", "callback")
    /\ RecvDone(sock)
    /\ UNCHANGED <<sock, active>>

(* on_data_received returns. *)
CallbackReturns == Goto("callback", "recv") /\ UNCHANGED <<sock, active, sockets>>

ReceiveEnds ==
    /\ Goto("recv", "deactivate")
    /\ RecvEnds(sock)
    /\ UNCHANGED <<sock, active>>

(* Mutant of Deactivate: the slot keeps the descriptor. *)
DeactivateForgotten == Goto("deactivate", "close") /\ UNCHANGED <<sock, active, sockets>>

Deactivate ==
    /\ Goto("deactivate", "close")
    /\ set_active_socket(None)
    /\ UNCHANGED <<sock, sockets>>

(* Mutant of Close: the descriptor stays open. *)
CloseForgotten ==
    /\ Goto("close", "accept")
    /\ sock' = None
    /\ UNCHANGED <<active, sockets>>

Close ==
    /\ Goto("close", "accept")
    /\ Shut(sock)
    /\ sock' = None
    /\ UNCHANGED active

(* When the task may count on the end of the welcome message's send. *)
WelcomeReturns == (Welcome \/ WelcomeFails) /\ Ready(sock)

(* The steps of the task while it serves a client. *)
Serve ==
    \/ Activate \/ Notify
    \/ Receive \/ CallbackReturns \/ ReceiveEnds
    \/ Deactivate \/ Close

tcp_server_task ==
    \/ Listen \/ ListenFails
    \/ \E c \in Client, f \in Fd : Accept(c, f)
    \/ AcceptFails
    \/ ActivateCrashes
    \/ Welcome \/ WelcomeFails
    \/ Serve

tcp_server_app_send(k) == SendBegins(k) \/ SendEnds(k) \/ SendNowhere(k)

(* The same xSemaphoreTake(NULL) in a call of tcp_server_app_send. *)
SendCrashes == mutex = Absent /\ Restart

(* The far ends and the rest of the program. *)
Environment ==
    /\ (\E c \in Conn : PeerStep(c) \/ PeerReturns(c)) \/ OtherStep(Conn \ Client)
    /\ UNCHANGED <<active, task>>

Next ==
    \/ tcp_server_app_start
    \/ tcp_server_task
    \/ \E k \in Caller : tcp_server_app_send(k) /\ UNCHANGED task
    \/ SendCrashes
    \/ Environment

Spec == Init /\ [][Next]_vars

(* The scheduler runs the tasks; a task that waits for the mutex gets it   *)
(* (FreeRTOS queues the waiters), and a send that waits for room is not    *)
(* overtaken for ever by later ones (lwIP refuses those); the far end of a *)
(* closed connection reads or resets, and TCP gives up on one that         *)
(* vanished with data outstanding.                                         *)
Fairness ==
    /\ WF_vars(Serve) /\ SF_vars(Activate) /\ SF_vars(Deactivate)
    /\ WF_vars(ActivateCrashes)
    /\ SF_vars(WelcomeReturns)
    /\ \A k \in Caller : SF_vars(SendReturns(k) /\ UNCHANGED task)
    /\ \A c \in Conn : WF_vars(PeerFinishes(c) /\ UNCHANGED <<active, task>>)
    /\ \A c \in Conn : WF_vars(GivesUp(c) /\ UNCHANGED <<active, task>>)
FairSpec == Spec /\ Fairness

-----------------------------------------------------------------------------
Types ==
    /\ SocketsType
    /\ ActiveType
    /\ pc \in Pc
    /\ sock \in Fd \cup {None}

Idle == {"off", "listen", "accept", "dead"}

(* Types of the state; the task has a descriptor exactly while it serves a *)
(* client, and it is that client's, whatever the rest of the program opens *)
(* and closes.                                                             *)
TypeOK ==
    /\ Types
    /\ pc \in Idle <=> sock = None
    /\ sock # None => file[sock] \in Client

(* A send in progress is on the connection of the client being served:     *)
(* never on a descriptor already closed, or opened again by another part   *)
(* of the program (tcp_server_app.h:70-75, "Thread-safe"; the order of     *)
(* tcp_server_app.c:151-153).                                              *)
SendsToServedClient ==
    mutex \in Caller =>
        /\ slot = sock
        /\ file[slot] \in Client
        /\ link[file[slot]].state # "closed"

(* A descriptor of a client the task no longer serves has been closed: no  *)
(* sequence of connections exhausts lwIP's sockets.                        *)
NoDescriptorLeak == \A f \in Fd : file[f] \in Client => f = sock

(* A client that closes or breaks its connection is let go, so the next    *)
(* one can be accepted, even when a send to it is blocked when it leaves;  *)
(* a restart lets it go too.                                               *)
LeaverIsReleased ==
    \A c \in Client : link[c].state \in {"fin", "rst"} ~> link[c].state \in {"closed", "new"}
=============================================================================
