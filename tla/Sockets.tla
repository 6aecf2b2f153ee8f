------------------------------- MODULE Sockets -------------------------------
(***************************************************************************)
(* The sockets of lwIP as the two TCP tasks use them, with the far ends of *)
(* their connections.  External to the repository: modelled from the calls *)
(* in tcp_server_app.c and tcp_client_app.c and what those calls test.     *)
(*                                                                         *)
(* A descriptor that was closed is handed out again.  A blocking send      *)
(* waits until the far end has made room; a blocking recv waits for data,  *)
(* for the far end to close or for an error.  Neither has a timeout.       *)
(***************************************************************************)
EXTENDS Naturals

CONSTANTS
    Fd,         \* descriptors
    Conn,       \* connections
    Window,     \* sends a connection holds until the far end reads
    None        \* -1

ASSUME SocketsAssumption == None \notin Fd \cup Conn /\ Window \in Nat \ {0}

VARIABLES
    file,       \* file[f]: the connection descriptor f stands for, or None
    link        \* link[c]: the state of connection c

sockets == <<file, link>>

(* "gone": the far end vanished without a word (power or cable).           *)
LinkState == {"new", "up", "fin", "rst", "gone", "closed"}

LinkType == [state : LinkState, inbound : 0..Window, unread : 0..Window]

SocketsType ==
    /\ file \in [Fd -> Conn \cup {None}]
    /\ link \in [Conn -> LinkType]

Fresh == [state |-> "new", inbound |-> 0, unread |-> 0]

SocketsInit ==
    /\ file = [f \in Fd |-> None]
    /\ link = [c \in Conn |-> Fresh]

(* The program starts again, and with it its connections. *)
SocketsReset ==
    /\ file' = [f \in Fd |-> None]
    /\ link' = [c \in Conn |-> Fresh]

To(c, state) == link' = [link EXCEPT ![c].state = state]

(* socket(), or the socket that accept() makes. *)
Allocate(f, c) ==
    /\ file[f] = None
    /\ file' = [file EXCEPT ![f] = c]

(* shutdown() and close(). *)
Shut(f) ==
    /\ link' = [link EXCEPT ![file[f]].state = "closed"]
    /\ file' = [file EXCEPT ![f] = None]

(* send() on f queues the data when there is room.  It may also fail at    *)
(* any time, for lack of memory or because another task is sending on the  *)
(* same connection; on a broken connection or a closed descriptor it can   *)
(* only fail.                                                              *)
Room(f) ==
    /\ file[f] # None
    /\ link[file[f]].state \in {"up", "fin", "gone"}
    /\ link[file[f]].unread < Window

SendDone(f) ==
    /\ Room(f)
    /\ link' = [link EXCEPT ![file[f]].unread = @ + 1]
    /\ UNCHANGED file

Failed(f) == file[f] # None => link[file[f]].state = "rst"

(* send() on f returns without waiting. *)
Ready(f) == Room(f) \/ Failed(f)

(* recv() on f returns data, or 0 or an error. *)
RecvDone(f) ==
    /\ link[file[f]].inbound > 0
    /\ link' = [link EXCEPT ![file[f]].inbound = @ - 1]
    /\ UNCHANGED file

RecvEnds(f) ==
    LET l == link[file[f]]
    IN  /\ \/ l.state = "fin" /\ l.inbound = 0
           \/ l.state = "rst"
        /\ UNCHANGED sockets

(* The rest of the program: it opens a connection of its own - the one it  *)
(* accepted, or one it connects later - sends, receives and closes.        *)
OtherOpens(c, f) ==
    /\ link[c].state = "new"
    /\ \A g \in Fd : file[g] # c
    /\ Allocate(f, c)
    /\ To(c, "up") \/ UNCHANGED link

OtherConnects(f) == link[file[f]].state = "new" /\ To(file[f], "up") /\ UNCHANGED file

OtherStep(others) ==
    \/ \E c \in others, f \in Fd : OtherOpens(c, f)
    \/ \E f \in Fd :
          /\ file[f] \in others
          /\ OtherConnects(f) \/ SendDone(f) \/ RecvDone(f) \/ Shut(f)

-----------------------------------------------------------------------------
(* The far end. *)
PeerWrites(c) ==
    /\ link[c].state = "up"
    /\ link[c].inbound < Window
    /\ link' = [link EXCEPT ![c].inbound = @ + 1]
    /\ UNCHANGED file

PeerReads(c) ==
    /\ link[c].state \in {"up", "fin"}
    /\ link[c].unread > 0
    /\ link' = [link EXCEPT ![c].unread = @ - 1]
    /\ UNCHANGED file

PeerCloses(c) == link[c].state = "up" /\ To(c, "fin") /\ UNCHANGED file

PeerResets(c) == link[c].state \in {"up", "fin"} /\ To(c, "rst") /\ UNCHANGED file

PeerVanishes(c) == link[c].state = "up" /\ To(c, "gone") /\ UNCHANGED file

(* TCP gives up retransmitting to a far end that vanished. *)
GivesUp(c) ==
    /\ link[c].state = "gone"
    /\ link[c].unread > 0
    /\ To(c, "rst")
    /\ UNCHANGED file

(* A far end whose connection is over connects anew. *)
PeerReturns(c) ==
    /\ link[c].state = "closed"
    /\ link' = [link EXCEPT ![c] = Fresh]
    /\ UNCHANGED file

PeerStep(c) ==
    \/ PeerWrites(c) \/ PeerReads(c)
    \/ PeerCloses(c) \/ PeerResets(c) \/ PeerVanishes(c)
    \/ GivesUp(c)

(* A far end that has closed reads what it was sent or resets.             *)
PeerFinishes(c) == link[c].state = "fin" /\ (PeerReads(c) \/ PeerResets(c))
=============================================================================
