---------------------------- MODULE SocketsProofs ----------------------------
(***************************************************************************)
(* Lemmas about Sockets, for any descriptors, connections and window: what *)
(* each call and each step of a far end does to the types and to the       *)
(* connections in use.                                                     *)
(***************************************************************************)
EXTENDS Sockets, TLAPS

(* A connection with a descriptor that has not been closed. *)
InUse(c) == link[c].state \in {"up", "fin", "rst", "gone"}

New(c) == link[c].state = "new"

(* A step of a connection that leaves those in use in use, and those not   *)
(* yet made as they are.                                                   *)
KeepsInUse == \A c \in Conn : (InUse(c) => InUse(c)') /\ (New(c) => New(c)')

(* A new state for a connection keeps the records' type and disturbs no    *)
(* other connection.                                                       *)
LEMMA ToType ==
    ASSUME SocketsType, NEW c \in Conn, NEW s \in LinkState, To(c, s)
    PROVE  /\ link' \in [Conn -> LinkType]
           /\ link'[c].state = s
           /\ link'[c].inbound = link[c].inbound
           /\ \A d \in Conn : d # c => link'[d] = link[d]
BY DEF SocketsType, To, LinkType

(* A blocking call that returns moves only the counter it is about. *)
LEMMA SendDoneType ==
    ASSUME SocketsType, NEW f \in Fd, SendDone(f)
    PROVE  /\ SocketsType' /\ KeepsInUse /\ UNCHANGED file
           /\ \A d \in Conn : link'[d].inbound = link[d].inbound
<1> DEFINE c == file[f]
<1>1. c \in Conn /\ link[c] \in LinkType
  BY DEF SocketsType, SendDone, Room
<1>2. link[c].unread + 1 \in 0..Window
  BY <1>1, SocketsAssumption DEF SendDone, Room, LinkType
<1>3. link' = [link EXCEPT ![c] = [link[c] EXCEPT !.unread = link[c].unread + 1]]
  BY DEF SendDone
<1>4. UNCHANGED file
  BY DEF SendDone
<1> HIDE DEF c
<1>5. [link[c] EXCEPT !.unread = link[c].unread + 1] \in LinkType
  BY <1>1, <1>2 DEF LinkType
<1>6. link' \in [Conn -> LinkType]
  BY <1>1, <1>3, <1>5 DEF SocketsType
<1>7. KeepsInUse
  BY <1>1, <1>3 DEF KeepsInUse, InUse, New, SocketsType, LinkType
<1>8. \A d \in Conn : link'[d].inbound = link[d].inbound
  BY <1>1, <1>3 DEF SocketsType, LinkType
<1> QED
  BY <1>4, <1>6, <1>7, <1>8 DEF SocketsType

(* As for a send. *)
LEMMA RecvDoneType ==
    ASSUME SocketsType, NEW f \in Fd, file[f] \in Conn, RecvDone(f)
    PROVE  /\ SocketsType' /\ KeepsInUse /\ UNCHANGED file
           /\ link'[file[f]].inbound = link[file[f]].inbound - 1
           /\ \A d \in Conn : d # file[f] => link'[d] = link[d]
<1> DEFINE c == file[f]
<1>1. c \in Conn /\ link[c] \in LinkType
  BY DEF SocketsType
<1>2. link[c].inbound - 1 \in 0..Window
  BY <1>1, SocketsAssumption DEF RecvDone, LinkType
<1>3. link' = [link EXCEPT ![c] = [link[c] EXCEPT !.inbound = link[c].inbound - 1]]
  BY DEF RecvDone
<1>4. UNCHANGED file
  BY DEF RecvDone
<1> HIDE DEF c
<1>5. [link[c] EXCEPT !.inbound = link[c].inbound - 1] \in LinkType
  BY <1>1, <1>2 DEF LinkType
<1>6. link' \in [Conn -> LinkType]
  BY <1>1, <1>3, <1>5 DEF SocketsType
<1>7. KeepsInUse
  BY <1>1, <1>3 DEF KeepsInUse, InUse, New, SocketsType, LinkType
<1>8. /\ link'[c].inbound = link[c].inbound - 1
      /\ \A d \in Conn : d # c => link'[d] = link[d]
  BY <1>1, <1>3 DEF SocketsType, LinkType
<1> QED
  BY <1>4, <1>6, <1>7, <1>8 DEF SocketsType, c

(* No far end closes a descriptor of the program or frees a connection in  *)
(* use.                                                                    *)
LEMMA PeerType ==
    ASSUME SocketsType, NEW c \in Conn, PeerStep(c) \/ PeerReturns(c)
    PROVE  SocketsType' /\ KeepsInUse /\ UNCHANGED file
<1>0. link[c] \in LinkType /\ UNCHANGED file
  BY DEF SocketsType, PeerStep, PeerWrites, PeerReads, PeerCloses, PeerResets,
         PeerVanishes, GivesUp, PeerReturns
<1>1. ASSUME NEW s \in {"fin", "rst", "gone"}, To(c, s), ~New(c)
      PROVE  link' \in [Conn -> LinkType] /\ KeepsInUse
  BY <1>1, ToType DEF KeepsInUse, InUse, New, LinkState
<1>2. CASE PeerCloses(c) \/ PeerResets(c) \/ PeerVanishes(c) \/ GivesUp(c)
  BY <1>0, <1>1, <1>2 DEF PeerCloses, PeerResets, PeerVanishes, GivesUp, SocketsType, New
<1>3. CASE PeerWrites(c)
  <2>1. link' = [link EXCEPT ![c] = [link[c] EXCEPT !.inbound = link[c].inbound + 1]]
    BY <1>3 DEF PeerWrites
  <2>2. [link[c] EXCEPT !.inbound = link[c].inbound + 1] \in LinkType
    BY <1>0, <1>3, SocketsAssumption DEF PeerWrites, LinkType
  <2>3. link' \in [Conn -> LinkType]
    BY <2>1, <2>2 DEF SocketsType
  <2>4. KeepsInUse
    BY <2>1, <1>0 DEF KeepsInUse, InUse, New, SocketsType, LinkType
  <2> QED
    BY <2>3, <2>4, <1>0 DEF SocketsType
<1>4. CASE PeerReads(c)
  <2>1. link' = [link EXCEPT ![c] = [link[c] EXCEPT !.unread = link[c].unread - 1]]
    BY <1>4 DEF PeerReads
  <2>2. [link[c] EXCEPT !.unread = link[c].unread - 1] \in LinkType
    BY <1>0, <1>4, SocketsAssumption DEF PeerReads, LinkType
  <2>3. link' \in [Conn -> LinkType]
    BY <2>1, <2>2 DEF SocketsType
  <2>4. KeepsInUse
    BY <2>1, <1>0 DEF KeepsInUse, InUse, New, SocketsType, LinkType
  <2> QED
    BY <2>3, <2>4, <1>0 DEF SocketsType
<1>5. CASE PeerReturns(c)
  <2>1. link' = [link EXCEPT ![c] = Fresh] /\ link[c].state = "closed"
    BY <1>5 DEF PeerReturns
  <2>2. Fresh \in LinkType
    BY SocketsAssumption DEF Fresh, LinkType, LinkState
  <2>3. link' \in [Conn -> LinkType]
    BY <2>1, <2>2 DEF SocketsType
  <2>4. KeepsInUse
    BY <2>1 DEF KeepsInUse, InUse, New, SocketsType
  <2> QED
    BY <2>3, <2>4, <1>0 DEF SocketsType
<1> QED
  BY <1>2, <1>3, <1>4, <1>5 DEF PeerStep

(* A closed descriptor is free, its connection is closed, and no other is  *)
(* touched.                                                                *)
LEMMA ShutType ==
    ASSUME SocketsType, NEW f \in Fd, file[f] \in Conn, Shut(f)
    PROVE  /\ SocketsType'
           /\ file'[f] = None
           /\ \A g \in Fd : g # f => file'[g] = file[g]
           /\ \A d \in Conn : d # file[f] => link'[d] = link[d]
           /\ link'[file[f]].state = "closed"
           /\ link'[file[f]].inbound = link[file[f]].inbound
<1>1. To(file[f], "closed") /\ file' = [file EXCEPT ![f] = None]
  BY DEF Shut, To
<1>2. "closed" \in LinkState
  BY DEF LinkState
<1> QED
  BY <1>1, <1>2, ToType DEF SocketsType

(* A new descriptor was free, and the others stand for what they did. *)
LEMMA AllocateType ==
    ASSUME SocketsType, NEW f \in Fd, NEW c \in Conn, Allocate(f, c)
    PROVE  /\ file' \in [Fd -> Conn \cup {None}]
           /\ file[f] = None /\ file'[f] = c
           /\ \A g \in Fd : g # f => file'[g] = file[g]
BY DEF SocketsType, Allocate

(* The rest of the program keeps to its own: a descriptor or a connection  *)
(* that is not one of the others stays as it is.                           *)
LEMMA OtherType ==
    ASSUME SocketsType, NEW others \in SUBSET Conn, OtherStep(others)
    PROVE  /\ SocketsType'
           /\ \A f \in Fd : file[f] \in Conn \ others => file'[f] = file[f]
           /\ \A f \in Fd : file'[f] \in Conn \ others => file'[f] = file[f]
           /\ \A d \in Conn \ others : link'[d] = link[d]
<1>1. ASSUME NEW c \in others, NEW f \in Fd, OtherOpens(c, f)
      PROVE  /\ SocketsType'
             /\ file[f] = None /\ file'[f] = c
             /\ \A g \in Fd : g # f => file'[g] = file[g]
             /\ \A d \in Conn : d # c => link'[d] = link[d]
  <2>1. CASE To(c, "up")
    BY <1>1, <2>1, AllocateType, ToType DEF OtherOpens, SocketsType, LinkState
  <2>2. CASE UNCHANGED link
    BY <1>1, <2>2, AllocateType DEF OtherOpens, SocketsType
  <2> QED
    BY <1>1, <2>1, <2>2 DEF OtherOpens
<1>2. ASSUME NEW f \in Fd, file[f] \in others, OtherConnects(f)
      PROVE  /\ SocketsType' /\ UNCHANGED file
             /\ \A d \in Conn : d # file[f] => link'[d] = link[d]
  BY <1>2, ToType DEF OtherConnects, SocketsType, LinkState
<1>3. ASSUME NEW f \in Fd, file[f] \in others, SendDone(f)
      PROVE  /\ SocketsType' /\ UNCHANGED file
             /\ \A d \in Conn : d # file[f] => link'[d] = link[d]
  <2>1. SocketsType' /\ UNCHANGED file
    BY <1>3, SendDoneType
  <2>2. \A d \in Conn : d # file[f] => link'[d] = link[d]
    BY <1>3 DEF SendDone, SocketsType
  <2> QED
    BY <2>1, <2>2
<1>4. ASSUME NEW f \in Fd, file[f] \in others, RecvDone(f)
      PROVE  /\ SocketsType' /\ UNCHANGED file
             /\ \A d \in Conn : d # file[f] => link'[d] = link[d]
  BY <1>4, RecvDoneType
<1>5. ASSUME NEW f \in Fd, file[f] \in others, Shut(f)
      PROVE  /\ SocketsType'
             /\ file'[f] = None
             /\ \A g \in Fd : g # f => file'[g] = file[g]
             /\ \A d \in Conn : d # file[f] => link'[d] = link[d]
  BY <1>5, ShutType
<1>6. CASE \E c \in others, f \in Fd : OtherOpens(c, f)
  BY <1>1, <1>6, SocketsAssumption
<1>7. CASE \E f \in Fd : file[f] \in others /\ (OtherConnects(f) \/ SendDone(f) \/ RecvDone(f))
  BY <1>2, <1>3, <1>4, <1>7
<1>8. CASE \E f \in Fd : file[f] \in others /\ Shut(f)
  BY <1>5, <1>8, SocketsAssumption
<1> QED
  BY <1>6, <1>7, <1>8 DEF OtherStep
=============================================================================
