------------------------------ MODULE RadarLink ------------------------------
(***************************************************************************)
(* The parser at work in tcp_client_task: the remote host sends whole      *)
(* packets over a connection that may be lost between any two bytes, and   *)
(* the task reconnects.  The parser is a local variable of the task, reset *)
(* once before its loop and not when a connection replaces another.  The   *)
(* packets are those of a radar, or those that tcp_client_app_send_command *)
(* builds.                                                                 *)
(***************************************************************************)
EXTENDS FrameParser

CONSTANTS
    Packets,        \* the byte sequences the remote host sends
    Commands,       \* command and payload of the commands to send, as records
    MaxReconnects   \* bound on lost connections

ASSUME PacketsAssumption == Packets \subseteq Seq(Byte)
ASSUME CommandsAssumption ==
    \A c \in Commands : c.command \in 0..(Base - 1) /\ c.payload \in Seq(Byte)
ASSUME ReconnectAssumption == MaxReconnects \in Nat

VARIABLES
    packet,         \* the packet being sent, <<>> before the first
    line,           \* its bytes not yet received
    expect,         \* the frame the packet is to be delivered as, or None
    reconnects,     \* connections lost so far
    tx_frame_number \* s_tx_frame_number

linkVars == <<packet, line, expect, reconnects, tx_frame_number>>

LinkInit ==
    /\ Init
    /\ packet = <<>>
    /\ line = <<>>
    /\ expect = None
    /\ reconnects = 0
    /\ tx_frame_number = 0

Start(bytes, frame) ==
    /\ line = <<>>
    /\ packet' = bytes
    /\ line' = bytes
    /\ expect' = frame
    /\ out' = None
    /\ UNCHANGED <<parser, overrun, raw, reconnects>>

(* What tcp_client_app.c:87-169 delivers: a packet in the format the       *)
(* parser reads whose whole length passes the test of :120.  That leaves   *)
(* MaxPayloadSize - Overhead bytes for the payload, 1017 of the 1024 that  *)
(* README.md:194 speaks of; a good packet with more is discarded.          *)
Deliverable(s) == WellFormed(s) /\ Len(s) <= MaxPayloadSize

(* The remote host starts a packet. *)
SendPacket ==
    \E s \in Packets :
        /\ Start(s, IF Deliverable(s) THEN Decoded(s) ELSE None)
        /\ UNCHANGED tx_frame_number

(* What tcp_client_app_send_command puts on the wire: header, payload      *)
(* length, command, frame number, payload, checksum, footer.               *)
TxBytes(c, number) ==
    LET n == Len(c.payload)
        body == <<n \div Base, n % Base, c.command, number>> \o c.payload
    IN  <<Header>> \o body \o <<SumOf(body), Footer>>

UseNumber == tx_frame_number' = (tx_frame_number + 1) % Base

(* A command is built and sent to an end that reads as this parser does. *)
send_command ==
    \E c \in Commands :
        LET s == TxBytes(c, tx_frame_number)
        IN  /\ Len(c.payload) <= MaxPayloadSize
            /\ UseNumber
            /\ Start(s, [command |-> c.command, frame_number |-> tx_frame_number,
                         payload |-> c.payload, latency |-> Len(s) - 1])

(* The send fails after the command was built: its number is used up.      *)
send_command_fails ==
    /\ Commands # {}
    /\ UseNumber
    /\ UNCHANGED <<vars, packet, line, expect, reconnects>>

(* recv returns the next byte of the packet. *)
Receive ==
    /\ line # <<>>
    /\ process_byte(Head(line))
    /\ line' = Tail(line)
    /\ UNCHANGED <<packet, expect, reconnects, tx_frame_number>>

(* recv fails or returns 0: the task closes the socket and connects again; *)
(* what was not received is lost.                                          *)
Reconnect ==
    /\ reconnects < MaxReconnects
    /\ reconnects' = reconnects + 1
    /\ packet' = <<>>
    /\ line' = <<>>
    /\ expect' = None
    /\ out' = None
    /\ UNCHANGED <<parser, overrun, raw, tx_frame_number>>

(* What an overrun leads to is not modelled. *)
Undefined == overrun /\ UNCHANGED <<vars, linkVars>>

LinkNext == SendPacket \/ Receive \/ Reconnect \/ Undefined
LinkSpec == LinkInit /\ [][LinkNext]_<<vars, linkVars>>

(* The remote host keeps sending, TCP keeps delivering. *)
LinkFairness == WF_<<vars, linkVars>>(SendPacket) /\ WF_<<vars, linkVars>>(Receive)
FairLinkSpec == LinkSpec /\ LinkFairness

TxNext == send_command \/ send_command_fails \/ Receive
TxSpec == LinkInit /\ [][TxNext]_<<vars, linkVars>>

-----------------------------------------------------------------------------
(* When the last byte of a packet has been processed, the packet has been  *)
(* delivered with its fields if it is deliverable, and nothing has been    *)
(* delivered if its checksum or footer is wrong or it is longer than the   *)
(* maximum (tcp_client_app.h:13-14, "chamado sempre que um pacote do radar *)
(* é decodificado com sucesso"; README.md:195; tcp_client_app.c:120-123,   *)
(* "Descartando pacote").                                                  *)
PacketsDelivered == packet # <<>> /\ line = <<>> => out = expect

(* That is what the parser does while the first connection lasts.          *)
FirstConnectionDelivers == reconnects = 0 => PacketsDelivered

(* The parser finds its way back: from some time on every whole packet is  *)
(* delivered and packets keep arriving, when the packets have no header    *)
(* byte inside and the misplaced bytes were not taken for a short length   *)
(* (README.md:195-196, "volta pra STATE_WAIT_HEADER e continua ouvindo").  *)
Plain == \A i \in DOMAIN packet : packet[i] = Header => i = 1

Resynchronises ==
    <>[](Plain /\ ~overrun) =>
        /\ <>[]PacketsDelivered
        /\ []<>(packet # <<>> /\ line = <<>>)
=============================================================================
