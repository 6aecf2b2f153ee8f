----------------------------- MODULE MCRadarLink -----------------------------
(* Packets for RadarLink on 4-bit bytes: header 13, footer 12, good        *)
(* packets up to the length the parser takes, good packets just above it   *)
(* and with a payload of MaxPayloadSize, and packets with each defect.     *)
EXTENDS RadarLink

MCPacket(command, number, payload) ==
    LET n == Overhead + Len(payload)
        body == <<command, n \div Base, n % Base, number>> \o payload
    IN  <<Header>> \o body \o <<SumOf(body), Footer>>

MCByte == 0..(Base - 1)

Good == {MCPacket(1, 0, <<>>), MCPacket(2, 1, <<13>>), MCPacket(3, 13, <<12, 0, 5>>),
         MCPacket(13, 12, <<13, 13>>), MCPacket(0, 2, <<5>>)}

(* One byte too long, and the payload of MaxPayloadSize bytes.             *)
TooLongGood == {MCPacket(4, 3, <<1, 2, 3, 4>>),
                MCPacket(5, 4, [i \in 1..MaxPayloadSize |-> 1])}

WrongChecksum == <<13, 1, 0, 7, 0, 9, 12>>
WrongFooter == <<13, 1, 0, 7, 0, 8, 11>>
Oversize == <<13, 1, 2, 0, 0, 8, 12>>
MCPackets == Good \cup TooLongGood \cup {WrongChecksum, WrongFooter, Oversize}

(* A packet that counts its payload only, as TxBytes does.                 *)
MCShortPackets == Good \cup {<<13, 1, 0, 3, 0, 1, 2, 3, 10, 12>>}

MCCommands == {[command |-> 1, payload |-> <<>>], [command |-> 2, payload |-> <<13>>],
               [command |-> 3, payload |-> <<12, 0, 5>>]}
MCNoCommands == {}
MCNoPackets == {}
=============================================================================
