---------------------------- MODULE ActiveSocket ----------------------------
(***************************************************************************)
(* The descriptor of the connection a TCP task serves, which other tasks   *)
(* send on: s_client_sock of tcp_server_app.c and s_sock of                *)
(* tcp_client_app.c, each with its s_sock_mutex, set_active_socket and     *)
(* *_send.  *_send holds the mutex during a blocking send.                 *)
(***************************************************************************)
EXTENDS Sockets

CONSTANTS
    Caller,     \* the tasks that call *_send
    Absent      \* NULL: no mutex has been created

ASSUME CallerAssumption == None \notin Caller /\ Absent \notin Caller \cup {None}

VARIABLES
    slot,       \* s_client_sock, s_sock
    mutex       \* the caller that holds s_sock_mutex while it sends, None, or Absent

active == <<slot, mutex>>

ActiveType == slot \in Fd \cup {None} /\ mutex \in Caller \cup {None, Absent}

ActiveInit == slot = None /\ mutex = Absent

ActiveReset == slot' = None /\ mutex' = Absent

(* Take, assign, give: nothing else is seen of it. *)
set_active_socket(f) ==
    /\ mutex = None
    /\ slot' = f
    /\ UNCHANGED mutex

(* *_send takes the mutex and enters send(). *)
SendBegins(k) ==
    /\ mutex = None
    /\ slot # None
    /\ mutex' = k
    /\ UNCHANGED <<slot, sockets>>

(* send() returns and the mutex is given. *)
SendOk(k) ==
    /\ mutex = k
    /\ SendDone(slot)
    /\ mutex' = None
    /\ UNCHANGED slot

(* Mutant of SendError: an early return without giving the mutex. *)
SendErrorKeepsMutex(k) ==
    /\ mutex = k
    /\ UNCHANGED <<active, sockets>>

SendError(k) ==
    /\ mutex = k
    /\ mutex' = None
    /\ UNCHANGED <<slot, sockets>>

SendEnds(k) == SendOk(k) \/ SendError(k)

(* When the caller may count on its end. *)
SendReturns(k) == SendEnds(k) /\ Ready(slot)

(* No connection: *_send returns false. *)
SendNowhere(k) ==
    /\ mutex = None
    /\ slot = None
    /\ UNCHANGED <<active, sockets>>
=============================================================================
