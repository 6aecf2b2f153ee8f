---------------------------- MODULE FrameParser ----------------------------
(***************************************************************************)
(* The receive side of the radar protocol: the byte-by-byte parser of      *)
(* tcp_client_app.c (reset_parser, process_byte), fed by recv with bytes   *)
(* in chunks of any size, which for the parser is one byte after another.  *)
(*                                                                         *)
(* Bytes are 0..Base-1 and the 16-bit length is two of them, so Base = 256 *)
(* is the program and a smaller Base a smaller program with the same       *)
(* arithmetic.                                                             *)
(***************************************************************************)
EXTENDS Naturals, Sequences

CONSTANTS
    Base,           \* values of a byte; uint16_t is Base * Base
    Byte,           \* the bytes the remote host sends
    Header, Footer, \* FRAME_HEADER, FRAME_FOOTER
    MaxPayloadSize, \* MAX_PAYLOAD_SIZE
    None            \* no frame

Overhead == 7       \* header, command, length (2), frame number, checksum, footer

ASSUME BaseAssumption == Base \in Nat \ {0} /\ Base * Base > MaxPayloadSize + Overhead
ASSUME ByteAssumption == Byte \subseteq 0..(Base - 1) /\ Header \in Byte /\ Footer \in Byte
ASSUME MaxAssumption == MaxPayloadSize \in Nat /\ MaxPayloadSize >= Overhead

VARIABLES
    parser,     \* protocol_parser_t; payload holds the payload_index bytes written,
                \* age counts the bytes received since start_timestamp_us was taken
    out,        \* the frame the callback was given for the last byte, or None
    overrun,    \* a byte was written past the end of payload: undefined from there
    raw         \* ghost: the bytes of the frame being assembled

vars == <<parser, out, overrun, raw>>

States == {"header", "cmd", "len_h", "len_l", "frame", "payload", "checksum", "footer"}

(* Mutant of LessOverhead: a signed subtraction. *)
LessOverheadSigned(n) == n - Overhead

(* n - Overhead in a uint16_t *)
LessOverhead(n) == IF n >= Overhead THEN n - Overhead ELSE n + Base * Base - Overhead

Add(sum, b) == (sum + b) % Base

(* Mutant of Reset: the sum of the last frame is kept. *)
ResetKeepsChecksum(p) ==
    [p EXCEPT !.state = "header", !.expected = 0, !.payload = <<>>]

(* reset_parser; the fields it leaves alone are overwritten before they    *)
(* are read again.                                                         *)
Reset(p) ==
    [p EXCEPT !.state = "header", !.expected = 0, !.payload = <<>>, !.calculated = 0]

Init ==
    /\ parser = [state |-> "header", expected |-> 0, payload |-> <<>>,
                 command |-> 0, frame_number |-> 0,
                 calculated |-> 0, received |-> 0, age |-> 0]
    /\ out = None
    /\ overrun = FALSE
    /\ raw = <<>>

In(state) == ~overrun /\ parser.state = state

(* The next state within a frame, the byte counted as part of it. *)
Continue(b, p) ==
    /\ parser' = [p EXCEPT !.age = parser.age + 1]
    /\ raw' = Append(raw, b)
    /\ out' = None
    /\ UNCHANGED overrun

(* The frame is over or abandoned. *)
Abandon ==
    /\ parser' = Reset(parser)
    /\ raw' = <<>>
    /\ out' = None
    /\ UNCHANGED overrun

Summed(b) == [parser EXCEPT !.calculated = Add(parser.calculated, b)]

NotHeader(b) == In("header") /\ b # Header /\ Abandon

HeaderByte(b) ==
    /\ In("header")
    /\ b = Header
    /\ parser' = [Reset(parser) EXCEPT !.state = "cmd", !.age = 0]
    /\ raw' = <<b>>
    /\ out' = None
    /\ UNCHANGED overrun

CommandByte(b) ==
    /\ In("cmd")
    /\ Continue(b, [Summed(b) EXCEPT !.command = b, !.state = "len_h"])

LengthHigh(b) ==
    /\ In("len_h")
    /\ Continue(b, [Summed(b) EXCEPT !.expected = b * Base, !.state = "len_l"])

Length(b) == parser.expected + b

(* Mutant of Exceeds: off by one. *)
ExceedsOrEquals(b) == Length(b) >= MaxPayloadSize

(* The length of the whole frame is compared with the maximum, before the  *)
(* overhead is taken off.                                                  *)
Exceeds(b) == Length(b) > MaxPayloadSize

TooLong(b) ==
    /\ In("len_l")
    /\ Exceeds(b)
    /\ Abandon

(* Mutant of LengthLow: the maximum is not tested. *)
LengthLowUnchecked(b) ==
    /\ In("len_l")
    /\ Continue(b, [Summed(b) EXCEPT
                      !.expected = LessOverhead(Length(b)),
                      !.state = "frame"])

(* The length counts the whole frame; what is left for the payload is      *)
(* computed in a uint16_t and wraps when the length is below Overhead.     *)
LengthLow(b) ==
    /\ In("len_l")
    /\ ~Exceeds(b)
    /\ Continue(b, [Summed(b) EXCEPT
                      !.expected = LessOverhead(Length(b)),
                      !.state = "frame"])

FrameNumber(b) ==
    /\ In("frame")
    /\ Continue(b, [Summed(b) EXCEPT
                      !.frame_number = b,
                      !.state = IF parser.expected > 0 THEN "payload" ELSE "checksum"])

Index == Len(parser.payload)

(* Mutant of PayloadByte: off by one at the last byte. *)
PayloadLastByteEarly(b) ==
    /\ In("payload")
    /\ Index < MaxPayloadSize
    /\ Continue(b, [Summed(b) EXCEPT
                      !.payload = Append(parser.payload, b),
                      !.state = IF Index + 1 > parser.expected THEN "checksum" ELSE "payload"])

PayloadByte(b) ==
    /\ In("payload")
    /\ Index < MaxPayloadSize
    /\ Continue(b, [Summed(b) EXCEPT
                      !.payload = Append(parser.payload, b),
                      !.state = IF Index + 1 >= parser.expected THEN "checksum" ELSE "payload"])

(* payload[payload_index] past its end: no further step is meaningful.     *)
PayloadOverrun(b) ==
    /\ In("payload")
    /\ Index >= MaxPayloadSize
    /\ overrun' = TRUE
    /\ UNCHANGED <<parser, out, raw>>

ChecksumByte(b) ==
    /\ In("checksum")
    /\ Continue(b, [parser EXCEPT !.received = b, !.state = "footer"])

(* The call of on_data_received. *)
Frame == [command |-> parser.command, frame_number |-> parser.frame_number,
          payload |-> parser.payload, latency |-> parser.age + 1]

(* Mutant of FooterByte: no reset after a defective frame. *)
FooterByteKeepsPlace(b) ==
    /\ In("footer")
    /\ LET good == b = Footer /\ parser.calculated = parser.received
       IN  /\ parser' = IF good THEN Reset(parser) ELSE parser
           /\ out' = IF good THEN Frame ELSE None
    /\ raw' = <<>>
    /\ UNCHANGED overrun

FooterByte(b) ==
    /\ In("footer")
    /\ parser' = Reset(parser)
    /\ raw' = <<>>
    /\ out' = IF b = Footer /\ parser.calculated = parser.received THEN Frame ELSE None
    /\ UNCHANGED overrun

process_byte(b) ==
    \/ NotHeader(b) \/ HeaderByte(b) \/ CommandByte(b)
    \/ LengthHigh(b) \/ LengthLow(b) \/ TooLong(b)
    \/ FrameNumber(b)
    \/ PayloadByte(b) \/ PayloadOverrun(b)
    \/ ChecksumByte(b) \/ FooterByte(b)

Next == \E b \in Byte : process_byte(b)

Spec == Init /\ [][Next]_vars

-----------------------------------------------------------------------------
(* The format the parser reads, stated on whole frames:                    *)
(* header, command, length high, length low, frame number, payload,        *)
(* checksum of everything between header and checksum, footer; the length  *)
(* is that of the whole frame.                                             *)
SumOf(s) ==
    LET sum[i \in 0..Len(s)] == IF i = 0 THEN 0 ELSE Add(sum[i - 1], s[i])
    IN  sum[Len(s)]

Announced(s) == s[3] * Base + s[4]

Middle(s) == SubSeq(s, 2, Len(s) - 2)

WellFormed(s) ==
    /\ Len(s) >= Overhead
    /\ s[1] = Header
    /\ Announced(s) = Len(s)
    /\ s[Len(s) - 1] = SumOf(Middle(s))
    /\ s[Len(s)] = Footer

Decoded(s) ==
    [command |-> s[2], frame_number |-> s[5], payload |-> SubSeq(s, 6, Len(s) - 2),
     latency |-> Len(s) - 1]

-----------------------------------------------------------------------------
InByte == 0..(Base - 1)
(* Types and widths of the parser's fields.                                *)
TypeOK ==
    /\ parser \in [state : States, expected : 0..(Base * Base - 1), payload : Seq(InByte),
                   command : InByte, frame_number : InByte,
                   calculated : InByte, received : InByte, age : Nat]
    /\ overrun \in BOOLEAN
    /\ raw \in Seq(InByte)

(* The callback is given a frame exactly when the bytes from the last      *)
(* accepted header on are one, with that frame's fields, its payload and   *)
(* the latency since its first byte (tcp_client_app.h:13-35).              *)
DeliversFrames ==
    [][\A b \in Byte : process_byte(b) /\ In("footer") =>
         LET s == Append(raw, b)
         IN  out' = IF WellFormed(s) THEN Decoded(s) ELSE None]_vars

(* Within a frame that announces a length of at least the overhead the     *)
(* state is the one of the byte the parser is at, and the parser waits for *)
(* no more bytes than were announced (for such lengths, README.md:195-196, *)
(* "sem travar o parser").  A shorter length, which tcp_client_app.c:125   *)
(* does not test for, keeps it in payload, waiting for the wrapped length. *)
KeepsPosition ==
    LET n == Len(raw)
        left == Announced(raw) - n
    IN  /\ n = 0 => parser.state = "header"
        /\ n = 1 => parser.state = "cmd"
        /\ n = 2 => parser.state = "len_h"
        /\ n = 3 => parser.state = "len_l"
        /\ n = 4 => parser.state = "frame"
        /\ n > 4 /\ Announced(raw) >= Overhead =>
              /\ left > 2 => parser.state = "payload"
              /\ left = 2 => parser.state = "checksum"
              /\ left = 1 => parser.state = "footer"
              /\ left >= 1
        /\ n > 4 /\ Announced(raw) < Overhead => parser.state = "payload"

(* No byte is written outside payload[MAX_PAYLOAD_SIZE]                    *)
(* (tcp_client_app.c:67, :120-123, "Payload excedeu tamanho maximo ...     *)
(* Descartando pacote").                                                   *)
PayloadInBounds == ~overrun

(* The one way out of bounds is a length below the seven bytes of overhead *)
(* (tcp_client_app.c:125); the maximum of :120 stops every other one.      *)
OverrunOnlyIfShort == overrun => Announced(raw) < Overhead
=============================================================================
