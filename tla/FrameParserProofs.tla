-------------------------- MODULE FrameParserProofs --------------------------
(***************************************************************************)
(* Theorems about FrameParser for any byte width, any maximum payload and  *)
(* any stream of bytes, with and without lost connections: the parser      *)
(* keeps its place in the frame, the payload buffer is overrun only after  *)
(* a length below the overhead, the callback is given the frames of the    *)
(* format the parser reads and nothing else, and a connection that is not  *)
(* lost delivers every packet up to the maximum length on it.  Last, what  *)
(* send_command builds is never read as the command it was given.          *)
(***************************************************************************)
EXTENDS RadarLink, TLAPS, SequenceTheorems

(* From the low byte of the length on, what is expected is the announced   *)
(* length less the overhead, and the length has passed the maximum check.  *)
Expected ==
    /\ Announced(raw) <= MaxPayloadSize
    /\ parser.expected = LessOverhead(Announced(raw))

(* Where the parser is in the frame, state by state. *)
Place ==
    /\ parser.state = "header" => Len(raw) = 0 /\ parser.payload = <<>>
    /\ parser.state = "cmd" => Len(raw) = 1 /\ parser.payload = <<>>
    /\ parser.state = "len_h" => Len(raw) = 2 /\ parser.payload = <<>>
    /\ parser.state = "len_l" =>
          Len(raw) = 3 /\ parser.payload = <<>> /\ parser.expected = raw[3] * Base
    /\ parser.state = "frame" =>
          Len(raw) = 4 /\ parser.payload = <<>> /\ Expected
    /\ parser.state = "payload" =>
          /\ Len(raw) = 5 + Index /\ Index <= MaxPayloadSize
          /\ Index < parser.expected /\ Expected
    /\ parser.state = "checksum" =>
          /\ Len(raw) = 5 + Index /\ Index <= MaxPayloadSize
          /\ Index = parser.expected /\ Expected
    /\ parser.state = "footer" =>
          /\ Len(raw) = 6 + Index /\ Index <= MaxPayloadSize
          /\ Index = parser.expected /\ Expected

(* Only the payload state, at the end of the buffer, overruns it. *)
OverrunPlace ==
    overrun => parser.state = "payload" /\ Index >= MaxPayloadSize

IInv == TypeOK /\ Place /\ OverrunPlace

-----------------------------------------------------------------------------
(* The high byte of a length fits in a uint16_t. *)
LEMMA HighByte ==
    ASSUME NEW b \in InByte
    PROVE  b * Base \in 0..(Base * Base - 1)
<1>1. Base \in Nat /\ b \in Nat /\ Base >= 1 /\ Base - 1 - b >= 0
  BY BaseAssumption DEF InByte
<1>2. \A m, n \in Nat : m * n \in Nat
  OBVIOUS
<1>3. (Base - 1 - b) * Base \in Nat
  BY <1>1, <1>2
<1>4. (Base - 1 - b) * Base = Base * Base - Base - b * Base
  BY <1>1
<1> QED
  BY <1>1, <1>2, <1>3, <1>4

(* The checksum stays a byte. *)
LEMMA AddType ==
    ASSUME NEW m \in InByte, NEW n \in InByte
    PROVE  Add(m, n) \in InByte
BY BaseAssumption DEF Add, InByte

(* What is expected after the overhead fits in a uint16_t. *)
LEMMA LessOverheadType ==
    ASSUME NEW n \in Nat, n <= MaxPayloadSize
    PROVE  LessOverhead(n) \in 0..(Base * Base - 1)
<1>1. Base * Base \in Nat /\ MaxPayloadSize \in Nat /\ Base * Base > MaxPayloadSize
      /\ MaxPayloadSize >= 7
  <2>1. Base \in Nat
    BY BaseAssumption
  <2> QED
    BY <2>1, BaseAssumption, MaxAssumption DEF Overhead
<1> DEFINE W == Base * Base
<1>2. W \in Nat /\ W > MaxPayloadSize
  BY <1>1
<1> HIDE DEF W
<1>3. (IF n >= 7 THEN n - 7 ELSE n + W - 7) \in 0..(W - 1)
  BY <1>1, <1>2
<1> QED
  BY <1>3 DEF LessOverhead, Overhead, W

(* A byte added to the frame leaves the earlier ones as they were. *)
LEMMA AppendByte ==
    ASSUME NEW s \in Seq(InByte), NEW b \in InByte
    PROVE  /\ Append(s, b) \in Seq(InByte)
           /\ Len(Append(s, b)) = Len(s) + 1
           /\ Len(s) \in Nat
           /\ Append(s, b)[Len(s) + 1] = b
           /\ Len(s) >= 3 => Append(s, b)[3] = s[3]
           /\ Len(s) >= 4 => Append(s, b)[4] = s[4]
OBVIOUS

(* A parser that waits for a header has fields of their types. *)
LEMMA ResetType ==
    ASSUME TypeOK
    PROVE  Reset(parser) \in [state : States, expected : 0..(Base * Base - 1),
                             payload : Seq(InByte), command : InByte,
                             frame_number : InByte, calculated : InByte,
                             received : InByte, age : Nat]
<1> DEFINE W == 0..(Base * Base - 1)
<1>1. 0 \in InByte /\ 0 \in W /\ <<>> \in Seq(InByte) /\ "header" \in States
  BY HighByte, BaseAssumption DEF InByte, States
<1>2. parser \in [state : States, expected : W,
                  payload : Seq(InByte), command : InByte,
                  frame_number : InByte, calculated : InByte,
                  received : InByte, age : Nat]
  BY DEF TypeOK
<1> HIDE DEF W
<1>3. Reset(parser) \in [state : States, expected : W,
                  payload : Seq(InByte), command : InByte,
                  frame_number : InByte, calculated : InByte,
                  received : InByte, age : Nat]
  BY <1>1, <1>2 DEF Reset
<1> QED
  BY <1>3 DEF W

(* A parser that has just been reset, in tcp_client_task. *)
LEMMA InitInvariant == Init => IInv
<1> SUFFICES ASSUME Init
             PROVE  IInv
  OBVIOUS
<1> DEFINE W == 0..(Base * Base - 1)
<1>1. 0 \in InByte /\ 0 \in W /\ <<>> \in Seq(InByte) /\ "header" \in States
  BY HighByte, BaseAssumption DEF InByte, States
<1> HIDE DEF W
<1>2. parser \in [state : States, expected : W,
                  payload : Seq(InByte), command : InByte,
                  frame_number : InByte, calculated : InByte,
                  received : InByte, age : Nat]
  BY <1>1 DEF Init
<1>3. TypeOK
  BY <1>1, <1>2 DEF Init, TypeOK, W
<1> QED
  BY <1>3 DEF Init, IInv, Place, OverrunPlace

(* Every byte moves the parser from one place in the frame to the next or  *)
(* back to the header.                                                     *)
LEMMA StepInvariant == IInv /\ [Next]_vars => IInv'
<1> SUFFICES ASSUME IInv, [Next]_vars
             PROVE  IInv'
  OBVIOUS
<1>a. TypeOK /\ Place /\ OverrunPlace
  BY DEF IInv
<1>b. /\ parser.state \in States /\ parser.payload \in Seq(InByte)
      /\ parser.calculated \in InByte /\ parser.command \in InByte
      /\ parser.frame_number \in InByte /\ parser.received \in InByte
      /\ parser.expected \in 0..(Base * Base - 1) /\ parser.age \in Nat
      /\ raw \in Seq(InByte) /\ Len(raw) \in Nat /\ Index \in Nat
      /\ parser = [state |-> parser.state, expected |-> parser.expected,
                   payload |-> parser.payload, command |-> parser.command,
                   frame_number |-> parser.frame_number,
                   calculated |-> parser.calculated,
                   received |-> parser.received, age |-> parser.age]
  BY <1>a DEF TypeOK, Index
<1>c. 0 \in InByte /\ 0 \in 0..(Base * Base - 1) /\ Base \in Nat
  BY HighByte, BaseAssumption DEF InByte
<1>1. ASSUME NEW b \in InByte, NotHeader(b) \/ TooLong(b) \/ FooterByte(b)
      PROVE  IInv'
  <2>1. parser' = Reset(parser) /\ raw' = <<>> /\ overrun' = overrun /\ ~overrun
    BY <1>1 DEF NotHeader, TooLong, FooterByte, Abandon, In
  <2>2. TypeOK'
    <3>1. <<>> \in Seq(InByte)
      OBVIOUS
    <3> QED
      BY <3>1, <2>1, <1>a, ResetType DEF TypeOK
  <2>3. parser'.state = "header" /\ parser'.payload = <<>>
    BY <2>1, <1>b DEF Reset
  <2> QED
    BY <2>1, <2>2, <2>3 DEF IInv, Place, OverrunPlace
<1>2. ASSUME NEW b \in InByte, HeaderByte(b)
      PROVE  IInv'
  <2>1. /\ parser' = [Reset(parser) EXCEPT !.state = "cmd", !.age = 0]
        /\ raw' = <<b>> /\ overrun' = overrun /\ ~overrun
    BY <1>2 DEF HeaderByte, In
  <2>2. TypeOK'
    <3>1. <<b>> \in Seq(InByte) /\ 0 \in Nat /\ "cmd" \in States
      BY DEF States
    <3> QED
      BY <3>1, <2>1, <1>a, ResetType DEF TypeOK
  <2>3. parser'.state = "cmd" /\ parser'.payload = <<>> /\ Len(raw') = 1
    BY <2>1, <1>b DEF Reset
  <2> QED
    BY <2>1, <2>2, <2>3 DEF IInv, Place, OverrunPlace
(* The steps within a frame have this in common. *)
<1>d. ASSUME NEW b \in InByte, NEW p, Continue(b, p),
             p \in [state : States, expected : 0..(Base * Base - 1),
                    payload : Seq(InByte), command : InByte,
                    frame_number : InByte, calculated : InByte,
                    received : InByte, age : Nat]
      PROVE  /\ TypeOK'
             /\ parser'.state = p.state /\ parser'.expected = p.expected
             /\ parser'.payload = p.payload
             /\ Len(raw') = Len(raw) + 1 /\ raw'[Len(raw) + 1] = b
             /\ Len(raw) >= 3 => raw'[3] = raw[3]
             /\ Len(raw) >= 4 => raw'[4] = raw[4]
             /\ overrun' = overrun
  <2>1. parser' = [p EXCEPT !.age = parser.age + 1] /\ raw' = Append(raw, b)
        /\ overrun' = overrun
    BY <1>d DEF Continue
  <2>2. parser.age + 1 \in Nat
    BY <1>b
  <2>3. TypeOK'
    BY <2>1, <2>2, <1>a, <1>b, <1>d, AppendByte DEF TypeOK
  <2> QED
    BY <2>1, <2>3, <1>b, <1>d, AppendByte
<1>e. ASSUME NEW b \in InByte
      PROVE  Add(parser.calculated, b) \in InByte
  BY <1>b, <1>e, AddType
<1>3. ASSUME NEW b \in InByte, CommandByte(b)
      PROVE  IInv'
  <2> DEFINE p == [Summed(b) EXCEPT !.command = b, !.state = "len_h"]
  <2>1. p = [parser EXCEPT !.calculated = Add(parser.calculated, b),
                           !.command = b, !.state = "len_h"]
    BY <1>b DEF Summed
  <2>2. p \in [state : States, expected : 0..(Base * Base - 1),
               payload : Seq(InByte), command : InByte, frame_number : InByte,
               calculated : InByte, received : InByte, age : Nat]
    BY <2>1, <1>b, <1>e DEF States
  <2>3. p.state = "len_h" /\ p.payload = parser.payload
    BY <2>1, <1>b
  <2>4. Continue(b, p) /\ ~overrun /\ Len(raw) = 1 /\ parser.payload = <<>>
    BY <1>3, <1>a DEF CommandByte, In, Place
  <2> HIDE DEF p
  <2> QED
    BY <2>2, <2>3, <2>4, <1>d DEF IInv, Place, OverrunPlace
<1>4. ASSUME NEW b \in InByte, LengthHigh(b)
      PROVE  IInv'
  <2> DEFINE p == [Summed(b) EXCEPT !.expected = b * Base, !.state = "len_l"]
  <2>1. p = [parser EXCEPT !.calculated = Add(parser.calculated, b),
                           !.expected = b * Base, !.state = "len_l"]
    BY <1>b DEF Summed
  <2>2. p \in [state : States, expected : 0..(Base * Base - 1),
               payload : Seq(InByte), command : InByte, frame_number : InByte,
               calculated : InByte, received : InByte, age : Nat]
    <3>1. b * Base \in 0..(Base * Base - 1)
      BY HighByte
    <3> QED
      BY <3>1, <2>1, <1>b, <1>e DEF States
  <2>3. p.state = "len_l" /\ p.payload = parser.payload /\ p.expected = b * Base
    BY <2>1, <1>b
  <2>4. Continue(b, p) /\ ~overrun /\ Len(raw) = 2 /\ parser.payload = <<>>
    BY <1>4, <1>a DEF LengthHigh, In, Place
  <2> HIDE DEF p
  <2>5. raw'[3] = b /\ parser'.expected = b * Base
    BY <2>2, <2>3, <2>4, <1>d
  <2> QED
    BY <2>2, <2>3, <2>4, <2>5, <1>d DEF IInv, Place, OverrunPlace
<1>5. ASSUME NEW b \in InByte, LengthLow(b)
      PROVE  IInv'
  <2> DEFINE n == parser.expected + b
             p == [Summed(b) EXCEPT !.expected = LessOverhead(n), !.state = "frame"]
  <2>0. n \in Nat /\ n <= MaxPayloadSize
    BY <1>5, <1>b, MaxAssumption DEF LengthLow, Exceeds, Length, InByte
  <2>1. p = [parser EXCEPT !.calculated = Add(parser.calculated, b),
                           !.expected = LessOverhead(n), !.state = "frame"]
    BY <1>b DEF Summed
  <2>2. p \in [state : States, expected : 0..(Base * Base - 1),
               payload : Seq(InByte), command : InByte, frame_number : InByte,
               calculated : InByte, received : InByte, age : Nat]
    <3>1. LessOverhead(n) \in 0..(Base * Base - 1)
      BY <2>0, LessOverheadType
    <3> QED
      BY <3>1, <2>1, <1>b, <1>e DEF States
  <2>3. p.state = "frame" /\ p.payload = parser.payload /\ p.expected = LessOverhead(n)
    BY <2>1, <1>b
  <2>4. Continue(b, p) /\ ~overrun /\ Len(raw) = 3 /\ parser.payload = <<>>
        /\ parser.expected = raw[3] * Base
    BY <1>5, <1>a DEF LengthLow, Length, In, Place
  <2> HIDE DEF p
  <2>5. raw'[3] = raw[3] /\ raw'[4] = b /\ Len(raw') = 4
        /\ parser'.expected = LessOverhead(n) /\ parser'.state = "frame"
        /\ parser'.payload = <<>> /\ overrun' = overrun /\ TypeOK'
    BY <2>2, <2>3, <2>4, <1>d
  <2>6. Announced(raw') = n
    BY <2>4, <2>5 DEF Announced
  <2>7. Expected'
    BY <2>0, <2>5, <2>6 DEF Expected
  <2> QED
    BY <2>4, <2>5, <2>7 DEF IInv, Place, OverrunPlace
<1>f. ASSUME Expected, Len(raw) >= 4, raw'[3] = raw[3], raw'[4] = raw[4],
             parser'.expected = parser.expected
      PROVE  Expected'
  BY <1>f DEF Expected, Announced
<1>6. ASSUME NEW b \in InByte, FrameNumber(b)
      PROVE  IInv'
  <2> DEFINE next == IF parser.expected > 0 THEN "payload" ELSE "checksum"
             p == [Summed(b) EXCEPT !.frame_number = b, !.state = next]
  <2>1. p = [parser EXCEPT !.calculated = Add(parser.calculated, b),
                           !.frame_number = b, !.state = next]
    BY <1>b DEF Summed
  <2>2. p \in [state : States, expected : 0..(Base * Base - 1),
               payload : Seq(InByte), command : InByte, frame_number : InByte,
               calculated : InByte, received : InByte, age : Nat]
    BY <2>1, <1>b, <1>e DEF States
  <2>3. p.state = next /\ p.payload = parser.payload /\ p.expected = parser.expected
    BY <2>1, <1>b
  <2>4. Continue(b, p) /\ ~overrun /\ Len(raw) = 4 /\ parser.payload = <<>> /\ Expected
    BY <1>6, <1>a DEF FrameNumber, In, Place
  <2> HIDE DEF p
  <2>5. Len(raw') = 5 /\ raw'[3] = raw[3] /\ raw'[4] = raw[4]
        /\ parser'.expected = parser.expected /\ parser'.state = next
        /\ parser'.payload = <<>> /\ overrun' = overrun /\ TypeOK'
    BY <2>2, <2>3, <2>4, <1>d
  <2>6. Expected'
    BY <2>4, <2>5, <1>f
  <2>7. Index' = 0
    BY <2>5 DEF Index
  <2>8. parser.expected \in Nat
    BY <1>b
  <2> QED
    BY <2>4, <2>5, <2>6, <2>7, <2>8, MaxAssumption DEF IInv, Place, OverrunPlace
<1>7. ASSUME NEW b \in InByte, PayloadByte(b)
      PROVE  IInv'
  <2> DEFINE next == IF Index + 1 >= parser.expected THEN "checksum" ELSE "payload"
             p == [Summed(b) EXCEPT !.payload = Append(parser.payload, b), !.state = next]
  <2>1. p = [parser EXCEPT !.calculated = Add(parser.calculated, b),
                           !.payload = Append(parser.payload, b), !.state = next]
    BY <1>b DEF Summed
  <2>2. p \in [state : States, expected : 0..(Base * Base - 1),
               payload : Seq(InByte), command : InByte, frame_number : InByte,
               calculated : InByte, received : InByte, age : Nat]
    <3> DEFINE W == 0..(Base * Base - 1)
    <3>1. /\ Append(parser.payload, b) \in Seq(InByte)
          /\ Add(parser.calculated, b) \in InByte
          /\ next \in States /\ parser.expected \in W
      BY <1>b, <1>e, AppendByte DEF States
    <3>2. parser \in [state : States, expected : W,
               payload : Seq(InByte), command : InByte, frame_number : InByte,
               calculated : InByte, received : InByte, age : Nat]
      BY <1>a DEF TypeOK
    <3> HIDE DEF W, next
    <3>3. p \in [state : States, expected : W,
               payload : Seq(InByte), command : InByte, frame_number : InByte,
               calculated : InByte, received : InByte, age : Nat]
      BY <3>1, <3>2, <2>1
    <3> QED
      BY <3>3 DEF W
  <2>3. p.state = next /\ p.payload = Append(parser.payload, b)
        /\ p.expected = parser.expected
    BY <2>1, <1>b
  <2>4. Continue(b, p) /\ ~overrun /\ Len(raw) = 5 + Index /\ Index < parser.expected
        /\ Expected /\ Index < MaxPayloadSize
    BY <1>7, <1>a DEF PayloadByte, In, Place
  <2> HIDE DEF p
  <2>5. Len(raw') = 6 + Index /\ raw'[3] = raw[3] /\ raw'[4] = raw[4]
        /\ parser'.expected = parser.expected /\ parser'.state = next
        /\ parser'.payload = Append(parser.payload, b)
        /\ overrun' = overrun /\ TypeOK'
    BY <2>2, <2>3, <2>4, <1>b, <1>d
  <2>6. Expected'
    BY <2>4, <2>5, <1>b, <1>f
  <2>7. Index' = Index + 1
    BY <2>5, <1>b, AppendByte DEF Index
  <2>8. parser.expected \in Nat
    BY <1>b
  <2> QED
    BY <2>4, <2>5, <2>6, <2>7, <2>8, <1>b, MaxAssumption DEF IInv, Place, OverrunPlace
<1>8. ASSUME NEW b \in InByte, PayloadOverrun(b)
      PROVE  IInv'
  <2>1. /\ parser.state = "payload" /\ Index >= MaxPayloadSize
        /\ overrun' = TRUE /\ UNCHANGED <<parser, out, raw>>
    BY <1>8 DEF PayloadOverrun, In
  <2> QED
    BY <2>1, <1>a
    DEF IInv, TypeOK, Place, OverrunPlace, Expected, Announced, Index
<1>9. ASSUME NEW b \in InByte, ChecksumByte(b)
      PROVE  IInv'
  <2> DEFINE p == [parser EXCEPT !.received = b, !.state = "footer"]
  <2>1. p \in [state : States, expected : 0..(Base * Base - 1),
               payload : Seq(InByte), command : InByte, frame_number : InByte,
               calculated : InByte, received : InByte, age : Nat]
    BY <1>b DEF States
  <2>2. p.state = "footer" /\ p.payload = parser.payload /\ p.expected = parser.expected
    BY <1>b
  <2>3. Continue(b, p) /\ ~overrun /\ Len(raw) = 5 + Index /\ Index = parser.expected
        /\ Expected /\ Index <= MaxPayloadSize
    BY <1>9, <1>a DEF ChecksumByte, In, Place
  <2> HIDE DEF p
  <2>4. Len(raw') = 6 + Index /\ raw'[3] = raw[3] /\ raw'[4] = raw[4]
        /\ parser'.expected = parser.expected /\ parser'.state = "footer"
        /\ parser'.payload = parser.payload /\ overrun' = overrun /\ TypeOK'
    BY <2>1, <2>2, <2>3, <1>b, <1>d
  <2>5. Expected'
    BY <2>3, <2>4, <1>b, <1>f
  <2>6. Index' = Index
    BY <2>4 DEF Index
  <2> QED
    BY <2>3, <2>4, <2>5, <2>6 DEF IInv, Place, OverrunPlace
<1>10. CASE UNCHANGED vars
  BY <1>10, <1>a DEF vars, IInv, TypeOK, Place, OverrunPlace, Expected, Announced, Index
<1>11. \A b \in Byte : b \in InByte
  BY ByteAssumption DEF InByte
<1> QED
  BY <1>1, <1>2, <1>3, <1>4, <1>5, <1>6, <1>7, <1>8, <1>9, <1>10, <1>11
  DEF Next, process_byte

(* The invariant holds in every reachable state. *)
LEMMA Invariant == Spec => []IInv
<1>1. Init => IInv
  BY InitInvariant
<1> QED
  BY <1>1, StepInvariant, PTL DEF Spec

(* The fields keep their widths, whatever the remote host sends.           *)
THEOREM TypeCorrect == Spec => []TypeOK
<1>1. IInv => TypeOK
  BY DEF IInv
<1> QED
  BY <1>1, Invariant, PTL

(* The invariant rules out every other way past the end.                   *)
LEMMA ShortOverruns == IInv => OverrunOnlyIfShort
<1> SUFFICES ASSUME IInv, overrun
             PROVE  Announced(raw) < Overhead
  BY DEF OverrunOnlyIfShort
<1>1. /\ raw \in Seq(InByte) /\ Index \in Nat
      /\ Len(raw) = 5 + Index
      /\ Index < parser.expected /\ Index >= MaxPayloadSize
      /\ Expected
  BY DEF IInv, TypeOK, Place, OverrunPlace, Index
<1>2. raw[3] \in InByte /\ raw[4] \in InByte
  BY <1>1
<1>3. Announced(raw) \in Nat
  BY <1>2, HighByte, BaseAssumption DEF Announced, InByte
<1>4. Announced(raw) >= Overhead => parser.expected = Announced(raw) - Overhead
  BY <1>1 DEF Expected, LessOverhead
<1> QED
  BY <1>1, <1>3, <1>4, MaxAssumption DEF Expected, Overhead

(* Bytes are written outside the payload buffer only after a frame that    *)
(* announced fewer bytes than its own overhead.                            *)
THEOREM OverrunOnlyIfShortCorrect == Spec => []OverrunOnlyIfShort
BY ShortOverruns, Invariant, PTL

(* The invariant says at each state how many bytes of the frame are there. *)
LEMMA PlaceIsPosition == IInv => KeepsPosition
<1> SUFFICES ASSUME IInv
             PROVE  KeepsPosition
  OBVIOUS
<1> DEFINE n == Len(raw)
           m == Announced(raw)
           W == Base * Base
<1>1. /\ raw \in Seq(InByte) /\ n \in Nat /\ Index \in Nat
      /\ parser.state \in States /\ parser.payload \in Seq(InByte)
      /\ W \in Nat /\ W > MaxPayloadSize + Overhead
  BY BaseAssumption DEF IInv, TypeOK, Index
<1>2. ASSUME n >= 4
      PROVE  m \in Nat
  <2>1. raw[3] \in InByte /\ raw[4] \in InByte
    BY <1>1, <1>2
  <2> QED
    BY <2>1, HighByte, BaseAssumption DEF Announced, InByte
<1>3. /\ n = 0 <=> parser.state = "header"
      /\ n = 1 <=> parser.state = "cmd"
      /\ n = 2 <=> parser.state = "len_h"
      /\ n = 3 <=> parser.state = "len_l"
      /\ n = 4 <=> parser.state = "frame"
      /\ n > 4 <=> parser.state \in {"payload", "checksum", "footer"}
  <2> HIDE DEF n
  <2>1. /\ parser.state = "header" => n = 0
        /\ parser.state = "cmd" => n = 1
        /\ parser.state = "len_h" => n = 2
        /\ parser.state = "len_l" => n = 3
        /\ parser.state = "frame" => n = 4
        /\ parser.state \in {"payload", "checksum", "footer"} => n > 4
    BY <1>1 DEF IInv, Place, n
  <2> QED
    BY <2>1, <1>1 DEF States
<1>4. ASSUME n > 4
      PROVE  IF m >= Overhead
             THEN LET left == m - n
                  IN  /\ left > 2 => parser.state = "payload"
                      /\ left = 2 => parser.state = "checksum"
                      /\ left = 1 => parser.state = "footer"
                      /\ left >= 1
             ELSE parser.state = "payload"
  <2>1. /\ m \in Nat /\ m <= MaxPayloadSize
        /\ parser.expected = LessOverhead(m)
        /\ Index <= MaxPayloadSize
    BY <1>2, <1>3, <1>4 DEF IInv, Place, Expected
  <2>2. /\ parser.state = "payload" => n = 5 + Index /\ Index < parser.expected
        /\ parser.state = "checksum" => n = 5 + Index /\ Index = parser.expected
        /\ parser.state = "footer" => n = 6 + Index /\ Index = parser.expected
    BY DEF IInv, Place
  <2>3. parser.state \in {"payload", "checksum", "footer"}
    BY <1>3, <1>4
  <2>4. /\ m >= Overhead => parser.expected = m - Overhead
        /\ ~(m >= Overhead) => parser.expected = m + W - Overhead
    BY <2>1 DEF LessOverhead
  <2> HIDE DEF n, m, W
  <2> QED
    BY <1>1, <2>1, <2>2, <2>3, <2>4, MaxAssumption DEF Overhead
<1> QED
  <2>1. n \in Nat /\ (n > 4 => m \in Nat)
    BY <1>1, <1>2
  <2> HIDE DEF m
  <2>2. CASE n > 4 /\ m >= Overhead
    BY <1>3, <1>4, <2>1, <2>2 DEF KeepsPosition, m, Overhead
  <2>3. CASE n > 4 /\ ~(m >= Overhead)
    BY <1>3, <1>4, <2>1, <2>3 DEF KeepsPosition, m, Overhead
  <2>4. CASE n \in 0..4
    BY <1>3, <2>4 DEF KeepsPosition
  <2>5. CASE n > 4
    <3>1. CASE m >= Overhead
      BY <2>2, <2>5, <3>1
    <3>2. CASE ~(m >= Overhead)
      BY <2>3, <2>5, <3>2
    <3> QED
      BY <3>1, <3>2
  <2> HIDE DEF n
  <2> QED
    BY <2>1, <2>4, <2>5

(* For any stream of bytes the parser is at the byte of the frame its      *)
(* state says and, when the frame announces a length of at least the       *)
(* overhead, waits for no more bytes than that.  In a frame that announces *)
(* less it is in payload from its fifth byte on (tcp_client_app.c:125).    *)
THEOREM KeepsPositionCorrect == Spec => []KeepsPosition
BY PlaceIsPosition, Invariant, PTL

-----------------------------------------------------------------------------
(* What is delivered.  The checksum of the format is a recursive sum over  *)
(* the whole frame; the parser's is a running one, and each of its steps   *)
(* is the step of an induction on the length of the frame.                 *)

(* f gives the sums of the beginnings of s. *)
IsSum(f, s) == f = [i \in 0..Len(s) |-> IF i = 0 THEN 0 ELSE Add(f[i - 1], s[i])]

(* There is such a function, and by each of them the sum of s is v.        *)
SumIs(s, v) == (\E f : IsSum(f, s)) /\ (\A f : IsSum(f, s) => f[Len(s)] = v)

LEMMA SumOfIs ==
    ASSUME NEW s, NEW v, SumIs(s, v)
    PROVE  SumOf(s) = v
<1> DEFINE g == CHOOSE f : IsSum(f, s)
<1>1. IsSum(g, s)
  BY DEF SumIs
<1>2. SumOf(s) = g[Len(s)]
  BY DEF SumOf, IsSum
<1> QED
  BY <1>1, <1>2 DEF SumIs

LEMMA SumEmpty == SumIs(<<>>, 0)
<1>1. IsSum([i \in 0..0 |-> 0], <<>>)
  BY DEF IsSum
<1>2. \A f : IsSum(f, <<>>) => f[0] = 0
  BY DEF IsSum
<1> QED
  BY <1>1, <1>2 DEF SumIs

LEMMA SumAppend ==
    ASSUME NEW s \in Seq(InByte), NEW v, NEW b \in InByte, SumIs(s, v)
    PROVE  SumIs(Append(s, b), Add(v, b))
<1> DEFINE t == Append(s, b)
           n == Len(s)
<1>0. n \in Nat /\ Len(t) = n + 1 /\ t[n + 1] = b /\ \A i \in 1..n : t[i] = s[i]
  OBVIOUS
<1> HIDE DEF t, n
<1>1. PICK f : IsSum(f, s)
  BY DEF SumIs
<1>2. f[n] = v
  BY <1>1 DEF SumIs, n
<1>3. \A i \in 0..n : f[i] = IF i = 0 THEN 0 ELSE Add(f[i - 1], s[i])
  BY <1>1 DEF IsSum, n
<1> DEFINE g == [i \in 0..(n + 1) |-> IF i = n + 1 THEN Add(v, b) ELSE f[i]]
<1>4. \A i \in 0..(n + 1) : g[i] = IF i = 0 THEN 0 ELSE Add(g[i - 1], t[i])
  <2> TAKE i \in 0..(n + 1)
  <2>1. CASE i = n + 1
    BY <1>0, <1>2, <2>1
  <2>2. CASE i \in 1..n
    BY <1>0, <1>3, <2>2
  <2>3. CASE i = 0
    BY <1>0, <1>3, <2>3
  <2> QED
    BY <1>0, <2>1, <2>2, <2>3
<1>5. IsSum(g, t)
  <2> HIDE DEF g
  <2>1. g = [i \in 0..(n + 1) |-> g[i]]
    BY DEF g
  <2> QED
    BY <1>0, <1>4, <2>1 DEF IsSum
(* A sum of t is one of s before its last element. *)
<1>6. ASSUME NEW h, IsSum(h, t)
      PROVE  h[n + 1] = Add(v, b)
  <2>1. \A i \in 0..(n + 1) : h[i] = IF i = 0 THEN 0 ELSE Add(h[i - 1], t[i])
    BY <1>0, <1>6 DEF IsSum
  <2> DEFINE k == [i \in 0..n |-> h[i]]
  <2>2. \A i \in 0..n : k[i] = IF i = 0 THEN 0 ELSE Add(k[i - 1], s[i])
    BY <1>0, <2>1
  <2>3. IsSum(k, s)
    <3> HIDE DEF k
    <3>1. k = [i \in 0..n |-> k[i]]
      BY DEF k
    <3> QED
      BY <2>2, <3>1 DEF IsSum, n
  <2>4. k[n] = v
    BY <2>3 DEF SumIs, n
  <2> QED
    BY <1>0, <2>1, <2>4
<1> QED
  BY <1>0, <1>5, <1>6 DEF SumIs, t

(* A part of a sequence that ends before its end does not see what is      *)
(* appended; one that reaches the end grows by it.                         *)
LEMMA PartOfAppend ==
    ASSUME NEW s \in Seq(InByte), NEW b \in InByte, NEW m \in Nat \ {0}, NEW n \in Nat,
           n <= Len(s) \/ n < m
    PROVE  SubSeq(Append(s, b), m, n) = SubSeq(s, m, n)
<1> DEFINE t == Append(s, b)
<1>1. /\ Len(s) \in Nat /\ Len(t) = Len(s) + 1
      /\ \A i \in 1..Len(s) : t[i] = s[i] /\ s[i] \in InByte
  OBVIOUS
<1> HIDE DEF t
<1>2. CASE n < m
  BY <1>2, SubSeqEmpty DEF t
<1>3. CASE m <= n /\ n <= Len(s)
  <2>1. \A i \in m..n : s[i] \in InByte /\ t[i] = s[i]
    BY <1>1, <1>3
  <2>2. /\ SubSeq(s, m, n) \in Seq(InByte) /\ Len(SubSeq(s, m, n)) = n - m + 1
        /\ \A i \in 1..(n - m + 1) : SubSeq(s, m, n)[i] = s[m + i - 1]
    BY <1>3, <2>1, SubSeqProperties
  <2>3. /\ SubSeq(t, m, n) \in Seq(InByte) /\ Len(SubSeq(t, m, n)) = n - m + 1
        /\ \A i \in 1..(n - m + 1) : SubSeq(t, m, n)[i] = t[m + i - 1]
    BY <1>3, <2>1, SubSeqProperties
  <2>4. \A i \in 1..(n - m + 1) : SubSeq(t, m, n)[i] = SubSeq(s, m, n)[i]
    BY <1>3, <2>1, <2>2, <2>3
  <2> QED
    BY <2>2, <2>3, <2>4, SeqEqual DEF t
<1> QED
  BY <1>1, <1>2, <1>3

LEMMA EndOfAppend ==
    ASSUME NEW s \in Seq(InByte), NEW b \in InByte, NEW m \in Nat \ {0}, m <= Len(s) + 1
    PROVE  /\ SubSeq(s, m, Len(s)) \in Seq(InByte)
           /\ SubSeq(Append(s, b), m, Len(s) + 1) = Append(SubSeq(s, m, Len(s)), b)
<1> DEFINE t == Append(s, b)
           n == Len(s)
           p == SubSeq(s, m, n)
           q == SubSeq(t, m, n + 1)
<1>1. /\ n \in Nat /\ m <= n + 1 /\ Len(t) = n + 1 /\ t[n + 1] = b
      /\ \A i \in 1..n : t[i] = s[i] /\ s[i] \in InByte
  OBVIOUS
<1> HIDE DEF t, n
<1>2. \A i \in m..n : s[i] \in InByte /\ t[i] = s[i]
  BY <1>1
<1>3. \A i \in m..(n + 1) : t[i] \in InByte
  BY <1>1, <1>2
<1>4. /\ p \in Seq(InByte) /\ Len(p) = n - m + 1
      /\ \A i \in 1..(n - m + 1) : p[i] = s[m + i - 1]
  BY <1>1, <1>2, SubSeqProperties DEF n
<1>5. /\ q \in Seq(InByte) /\ Len(q) = n - m + 2
      /\ \A i \in 1..(n - m + 2) : q[i] = t[m + i - 1]
  <2>1. /\ q \in Seq(InByte) /\ Len(q) = IF m <= n + 1 THEN n + 1 - m + 1 ELSE 0
        /\ \A i \in 1..(n + 1 - m + 1) : q[i] = t[m + i - 1]
    BY <1>1, <1>3, SubSeqProperties
  <2> QED
    BY <1>1, <2>1 DEF n
<1> HIDE DEF p, q
<1>6. /\ Append(p, b) \in Seq(InByte) /\ Len(Append(p, b)) = n - m + 2
      /\ \A i \in 1..(n - m + 1) : Append(p, b)[i] = p[i]
      /\ Append(p, b)[n - m + 2] = b
  <2> DEFINE l == n - m + 1
  <2>1. l \in Nat /\ l + 1 = n - m + 2 /\ Len(p) = l
    BY <1>1, <1>4
  <2>2. /\ Append(p, b) \in Seq(InByte) /\ Len(Append(p, b)) = l + 1
        /\ \A i \in 1..l : Append(p, b)[i] = p[i]
        /\ Append(p, b)[l + 1] = b
    BY <1>4, <2>1, AppendProperties
  <2> QED
    BY <2>1, <2>2
<1>7. \A i \in 1..(n - m + 2) : q[i] = Append(p, b)[i]
  <2> TAKE i \in 1..(n - m + 2)
  <2>0. i \in Nat /\ (i = n - m + 2 \/ i \in 1..(n - m + 1))
    BY <1>1
  <2>1. CASE i = n - m + 2
    BY <1>1, <1>5, <1>6, <2>1
  <2>2. CASE i \in 1..(n - m + 1)
    <3>1. m + i - 1 \in m..n /\ i \in 1..(n - m + 2)
      BY <1>1, <2>2
    <3>2. q[i] = t[m + i - 1] /\ t[m + i - 1] = s[m + i - 1]
      BY <1>2, <1>5, <3>1
    <3>3. Append(p, b)[i] = p[i] /\ p[i] = s[m + i - 1]
      BY <1>4, <1>6, <2>2
    <3> QED
      BY <3>2, <3>3
  <2> QED
    BY <2>0, <2>1, <2>2
<1>8. q = Append(p, b)
  BY <1>1, <1>5, <1>6, <1>7, SeqEqual
<1> QED
  BY <1>4, <1>8 DEF p, q, t, n

(* What the parser has kept of the frame so far is what it was sent. *)
Kept ==
    /\ raw[1] = Header
    /\ parser.age = Len(raw) - 1
    /\ Len(raw) >= 2 => parser.command = raw[2]
    /\ Len(raw) >= 5 => parser.frame_number = raw[5]
    /\ parser.payload = SubSeq(raw, 6, 5 + Index)

Summing ==
    IF parser.state = "footer"
    THEN /\ parser.received = raw[Len(raw)]
         /\ SumIs(SubSeq(raw, 2, Len(raw) - 1), parser.calculated)
    ELSE SumIs(SubSeq(raw, 2, Len(raw)), parser.calculated)

Content == raw # <<>> => Kept /\ Summing

(* Every byte adds to both, or starts again. *)
LEMMA ContentStep ==
    ASSUME IInv, IInv', Content, [Next]_vars
    PROVE  Content'
<1>a. TypeOK /\ Place /\ TypeOK' /\ Place'
  BY DEF IInv
<1>b. /\ parser.state \in States /\ parser.payload \in Seq(InByte)
      /\ parser.calculated \in InByte /\ parser.command \in InByte
      /\ parser.frame_number \in InByte /\ parser.received \in InByte
      /\ parser.expected \in 0..(Base * Base - 1) /\ parser.age \in Nat
      /\ raw \in Seq(InByte) /\ Len(raw) \in Nat /\ Index \in Nat
      /\ parser = [state |-> parser.state, expected |-> parser.expected,
                   payload |-> parser.payload, command |-> parser.command,
                   frame_number |-> parser.frame_number,
                   calculated |-> parser.calculated,
                   received |-> parser.received, age |-> parser.age]
  BY <1>a DEF TypeOK, Index
<1>1. ASSUME NEW b \in InByte, NotHeader(b) \/ TooLong(b) \/ FooterByte(b)
      PROVE  Content'
  BY <1>1 DEF NotHeader, TooLong, FooterByte, Abandon, Content
<1>2. ASSUME NEW b \in InByte, HeaderByte(b)
      PROVE  Content'
  <2>1. /\ raw' = <<b>> /\ b = Header /\ Len(raw') = 1 /\ raw'[1] = b
        /\ parser' = [Reset(parser) EXCEPT !.state = "cmd", !.age = 0]
    BY <1>2 DEF HeaderByte
  <2>2. /\ parser'.age = 0 /\ parser'.payload = <<>> /\ parser'.calculated = 0
        /\ parser'.state = "cmd" /\ Index' = 0
    BY <1>b, <2>1 DEF Reset, Index
  <2>3. SubSeq(raw', 6, 5) = <<>> /\ SubSeq(raw', 2, 1) = <<>>
    BY SubSeqEmpty
  <2>4. 5 + Index' = 5 /\ Len(raw') - 1 = 0
    BY <2>1, <2>2
  <2>5. Kept'
    <3>1. raw'[1] = Header /\ parser'.age = Len(raw') - 1
      BY <2>1, <2>2
    <3>2. ~(Len(raw') >= 2) /\ ~(Len(raw') >= 5)
      BY <2>1
    <3>3. parser'.payload = SubSeq(raw', 6, 5 + Index')
      BY <2>2, <2>3, <2>4
    <3> QED
      BY <3>1, <3>2, <3>3 DEF Kept
  <2>6. Summing'
    BY <2>1, <2>2, <2>3, SumEmpty DEF Summing
  <2> QED
    BY <2>5, <2>6 DEF Content
<1>c. raw \in Seq(InByte) /\ Len(raw) \in Nat /\ Index \in Nat
  BY <1>b
(* The steps within a frame have this in common. *)
<1>3. ASSUME NEW b \in InByte, parser.state # "header", raw' = Append(raw, b),
             parser'.age = parser.age + 1
      PROVE  /\ Kept /\ Summing /\ raw # <<>>
             /\ Len(raw') = Len(raw) + 1 /\ raw'[Len(raw) + 1] = b
             /\ \A i \in 1..Len(raw) : raw'[i] = raw[i]
             /\ raw'[1] = Header
             /\ parser'.age = Len(raw') - 1
             /\ Index = 0 \/ 5 + Index <= Len(raw)
  <2>1. Len(raw) >= 1 /\ (Index = 0 \/ 5 + Index <= Len(raw))
    BY <1>a, <1>b, <1>3 DEF Place, States, Index
  <2>2. /\ Len(raw') = Len(raw) + 1 /\ raw'[Len(raw) + 1] = b
        /\ \A i \in 1..Len(raw) : raw'[i] = raw[i]
    BY <1>b, <1>3, AppendProperties
  <2>3. raw # <<>>
    BY <2>1
  <2>4. Kept /\ Summing
    BY <2>3 DEF Content
  <2>5. raw'[1] = Header
    BY <1>b, <2>1, <2>2, <2>4 DEF Kept
  <2>6. parser'.age = Len(raw') - 1
    BY <1>b, <1>3, <2>2, <2>4 DEF Kept
  <2> QED
    BY <2>1, <2>2, <2>3, <2>4, <2>5, <2>6
(* The payload stays what it was. *)
<1>4. ASSUME NEW b \in InByte, raw' = Append(raw, b), parser'.payload = parser.payload, Kept,
             Index = 0 \/ 5 + Index <= Len(raw)
      PROVE  parser'.payload = SubSeq(raw', 6, 5 + Index')
  <2>1. Index' = Index
    BY <1>4 DEF Index
  <2>2. SubSeq(raw', 6, 5 + Index) = SubSeq(raw, 6, 5 + Index)
    BY <1>b, <1>4, PartOfAppend
  <2> QED
    BY <1>4, <2>1, <2>2 DEF Kept
(* The byte is added to the sum. *)
<1>5. ASSUME NEW b \in InByte, raw' = Append(raw, b), Len(raw) >= 1,
             Len(raw') = Len(raw) + 1, Summing,
             parser.state # "footer", parser'.state # "footer",
             parser'.calculated = Add(parser.calculated, b)
      PROVE  Summing'
  <2>1. SumIs(SubSeq(raw, 2, Len(raw)), parser.calculated)
    BY <1>5 DEF Summing
  <2>2. /\ SubSeq(raw, 2, Len(raw)) \in Seq(InByte)
        /\ SubSeq(raw', 2, Len(raw')) = Append(SubSeq(raw, 2, Len(raw)), b)
    <3>1. 2 \in Nat \ {0} /\ 2 <= Len(raw) + 1
      BY <1>c, <1>5
    <3> QED
      BY <1>c, <1>5, <3>1, EndOfAppend
  <2>3. SumIs(SubSeq(raw', 2, Len(raw')), parser'.calculated)
    BY <1>5, <2>1, <2>2, SumAppend
  <2> QED
    BY <1>5, <2>3 DEF Summing
<1>6. ASSUME NEW b \in InByte, CommandByte(b) \/ LengthHigh(b) \/ LengthLow(b) \/ FrameNumber(b)
      PROVE  Content'
  <2>1. /\ raw' = Append(raw, b) /\ parser.state \in {"cmd", "len_h", "len_l", "frame"}
        /\ parser'.age = parser.age + 1 /\ parser'.payload = parser.payload
        /\ parser'.calculated = Add(parser.calculated, b)
        /\ parser'.state # "footer"
        /\ parser.state = "cmd" => parser'.command = b
        /\ parser.state # "cmd" => parser'.command = parser.command
        /\ parser.state = "frame" => parser'.frame_number = b
        /\ parser.state = "frame" => Len(raw) = 4
        /\ parser.state # "frame" => Len(raw) < 4
        /\ parser.state = "cmd" => Len(raw) = 1
        /\ parser.state # "cmd" => Len(raw) >= 2
    <3>1. CASE CommandByte(b)
      BY <1>a, <1>b, <3>1 DEF CommandByte, Continue, Summed, In, Place
    <3>2. CASE LengthHigh(b)
      BY <1>a, <1>b, <3>2 DEF LengthHigh, Continue, Summed, In, Place
    <3>3. CASE LengthLow(b)
      BY <1>a, <1>b, <3>3 DEF LengthLow, Continue, Summed, In, Place
    <3>4. CASE FrameNumber(b)
      BY <1>a, <1>b, <3>4 DEF FrameNumber, Continue, Summed, In, Place
    <3> QED
      BY <1>6, <3>1, <3>2, <3>3, <3>4
  <2>2. /\ Kept /\ Summing /\ raw # <<>>
        /\ Len(raw') = Len(raw) + 1 /\ raw'[Len(raw) + 1] = b
        /\ \A i \in 1..Len(raw) : raw'[i] = raw[i]
        /\ raw'[1] = Header
        /\ parser'.age = Len(raw') - 1
        /\ Index = 0 \/ 5 + Index <= Len(raw)
    BY <1>3, <2>1
  <2>3. parser'.payload = SubSeq(raw', 6, 5 + Index')
    BY <1>4, <2>1, <2>2
  <2>4. Summing'
    BY <1>5, <1>b, <2>1, <2>2
  <2>5. Len(raw') >= 2 => parser'.command = raw'[2]
    BY <1>b, <2>1, <2>2 DEF Kept
  <2>6. Len(raw') >= 5 => parser'.frame_number = raw'[5]
    <3>1. CASE parser.state = "frame"
      <4>1. Len(raw) = 4 /\ raw'[Len(raw) + 1] = b /\ parser'.frame_number = b
        BY <2>1, <2>2, <3>1
      <4>2. Len(raw) + 1 = 5
        BY <4>1
      <4>3. raw'[5] = b
        BY <4>1, <4>2, Zenon
      <4> QED
        BY <4>1, <4>3
    <3>2. CASE parser.state # "frame"
      BY <1>c, <2>1, <2>2, <3>2
    <3> QED
      BY <3>1, <3>2
  <2> QED
    BY <2>2, <2>3, <2>4, <2>5, <2>6 DEF Content, Kept
<1>7. ASSUME NEW b \in InByte, PayloadByte(b)
      PROVE  Content'
  <2>1. /\ raw' = Append(raw, b) /\ parser.state = "payload"
        /\ parser'.age = parser.age + 1 /\ parser'.payload = Append(parser.payload, b)
        /\ parser'.calculated = Add(parser.calculated, b)
        /\ parser'.state # "footer"
        /\ parser'.command = parser.command /\ parser'.frame_number = parser.frame_number
        /\ Len(raw) = 5 + Index
    BY <1>a, <1>b, <1>7 DEF PayloadByte, Continue, Summed, In, Place
  <2>2. /\ Kept /\ Summing /\ raw # <<>>
        /\ Len(raw') = Len(raw) + 1 /\ raw'[Len(raw) + 1] = b
        /\ \A i \in 1..Len(raw) : raw'[i] = raw[i]
        /\ raw'[1] = Header
        /\ parser'.age = Len(raw') - 1
    BY <1>3, <2>1
  <2>3. Index' = Index + 1
    BY <1>b, <2>1 DEF Index
  <2>4. SubSeq(raw', 6, Len(raw) + 1) = Append(SubSeq(raw, 6, Len(raw)), b)
    <3>1. 6 \in Nat \ {0} /\ 6 <= Len(raw) + 1
      BY <1>c, <2>1
    <3> QED
      BY <1>c, <2>1, <3>1, EndOfAppend
  <2>5. parser'.payload = SubSeq(raw', 6, 5 + Index')
    <3>1. 5 + Index' = Len(raw) + 1 /\ parser.payload = SubSeq(raw, 6, Len(raw))
      BY <1>c, <2>1, <2>2, <2>3 DEF Kept
    <3> QED
      BY <2>1, <2>4, <3>1
  <2>6. Summing'
    BY <1>5, <1>c, <2>1, <2>2
  <2>7. parser'.command = raw'[2] /\ parser'.frame_number = raw'[5]
    BY <1>c, <2>1, <2>2 DEF Kept
  <2> QED
    BY <2>2, <2>5, <2>6, <2>7 DEF Content, Kept
<1>8. ASSUME NEW b \in InByte, ChecksumByte(b)
      PROVE  Content'
  <2>1. /\ raw' = Append(raw, b) /\ parser.state = "checksum"
        /\ parser'.age = parser.age + 1 /\ parser'.payload = parser.payload
        /\ parser'.calculated = parser.calculated /\ parser'.received = b
        /\ parser'.state = "footer"
        /\ parser'.command = parser.command /\ parser'.frame_number = parser.frame_number
        /\ Len(raw) = 5 + Index
    BY <1>a, <1>b, <1>8 DEF ChecksumByte, Continue, In, Place
  <2>2. /\ Kept /\ Summing /\ raw # <<>>
        /\ Len(raw') = Len(raw) + 1 /\ raw'[Len(raw) + 1] = b
        /\ \A i \in 1..Len(raw) : raw'[i] = raw[i]
        /\ raw'[1] = Header
        /\ parser'.age = Len(raw') - 1
        /\ Index = 0 \/ 5 + Index <= Len(raw)
    BY <1>3, <2>1
  <2>3. parser'.payload = SubSeq(raw', 6, 5 + Index')
    BY <1>4, <2>1, <2>2
  <2>4. SubSeq(raw', 2, Len(raw') - 1) = SubSeq(raw, 2, Len(raw))
    <3>1. Len(raw') - 1 = Len(raw)
      BY <1>c, <2>2
    <3> QED
      BY <1>c, <2>1, <3>1, PartOfAppend
  <2>5. Summing'
    BY <2>1, <2>2, <2>4 DEF Summing
  <2>6. parser'.command = raw'[2] /\ parser'.frame_number = raw'[5]
    BY <1>c, <2>1, <2>2 DEF Kept
  <2> QED
    BY <2>2, <2>3, <2>5, <2>6 DEF Content, Kept
<1>9. ASSUME NEW b \in InByte, PayloadOverrun(b)
      PROVE  Content'
  BY <1>9 DEF PayloadOverrun, Content, Kept, Summing, Index
<1>10. CASE UNCHANGED vars
  BY <1>10 DEF vars, Content, Kept, Summing, Index
<1>11. \A b \in Byte : b \in InByte
  BY ByteAssumption DEF InByte
<1> QED
  BY <1>1, <1>2, <1>6, <1>7, <1>8, <1>9, <1>10, <1>11 DEF Next, process_byte

LEMMA InitContent == Init => Content
BY DEF Init, Content

LEMMA ContentInvariant == Spec => [](IInv /\ Content)
<1>1. Init => IInv /\ Content
  BY InitInvariant, InitContent
<1>2. IInv /\ Content /\ [Next]_vars => IInv' /\ Content'
  BY StepInvariant, ContentStep
<1> QED
  BY <1>1, <1>2, PTL DEF Spec

(* At the footer the frame is complete: its length is the announced one,   *)
(* since a length below the overhead would have asked for a payload beyond *)
(* the maximum.                                                            *)
LEMMA FooterDecides ==
    ASSUME IInv, Content, NEW b \in InByte, In("footer")
    PROVE  LET s == Append(raw, b)
           IN  /\ WellFormed(s) <=> b = Footer /\ parser.calculated = parser.received
               /\ Decoded(s) = Frame
<1> DEFINE s == Append(raw, b)
           n == Len(raw)
<1>1. /\ raw \in Seq(InByte) /\ n \in Nat /\ Index \in Nat /\ n = 6 + Index
      /\ Index <= MaxPayloadSize /\ Index = parser.expected /\ Expected
  BY DEF IInv, TypeOK, Place, In, Index
<1>2. raw # <<>>
  BY <1>1
<1>3. /\ raw[1] = Header /\ parser.age = n - 1
      /\ parser.command = raw[2] /\ parser.frame_number = raw[5]
      /\ parser.payload = SubSeq(raw, 6, 5 + Index)
      /\ parser.received = raw[n] /\ SumIs(SubSeq(raw, 2, n - 1), parser.calculated)
  BY <1>1, <1>2 DEF Content, Kept, Summing, In
<1>4. /\ Len(s) = n + 1 /\ s[n + 1] = b
      /\ \A i \in 1..n : s[i] = raw[i]
  BY <1>1, AppendProperties
<1>5. /\ s[1] = Header /\ s[2] = parser.command /\ s[3] = raw[3] /\ s[4] = raw[4]
      /\ s[5] = parser.frame_number /\ s[n] = parser.received
  <2>1. n \in Nat /\ n >= 6
    BY <1>1
  <2> HIDE DEF s, n
  <2>2. /\ 1 \in 1..n /\ 2 \in 1..n /\ 3 \in 1..n
        /\ 4 \in 1..n /\ 5 \in 1..n /\ n \in 1..n
    BY <2>1
  <2> QED
    BY <1>3, <1>4, <2>2
<1>6. Announced(s) = 7 + Index
  <2> DEFINE m == Announced(raw)
             W == Base * Base
  <2>1. W \in Nat /\ W > MaxPayloadSize + 7 /\ MaxPayloadSize \in Nat
    BY BaseAssumption, MaxAssumption DEF Overhead
  <2>2. m \in Nat
    <3>1. raw[3] \in InByte /\ raw[4] \in InByte
      BY <1>1
    <3> QED
      BY <3>1, HighByte, BaseAssumption DEF Announced, InByte
  <2>3. Index = IF m >= 7 THEN m - 7 ELSE m + W - 7
    BY <1>1 DEF Expected, LessOverhead, Overhead
  <2>4. Announced(s) = m
    BY <1>5 DEF Announced
  <2> HIDE DEF m, W
  <2> QED
    BY <1>1, <2>1, <2>2, <2>3, <2>4
<1>7. Len(s) = 7 + Index /\ Len(s) - 1 = n /\ Len(s) - 2 = n - 1 /\ n - 1 = 5 + Index
  BY <1>1, <1>4
<1>8. Middle(s) = SubSeq(raw, 2, n - 1)
  <2>1. 2 \in Nat \ {0} /\ n - 1 \in Nat /\ n - 1 <= n
    BY <1>1
  <2>2. SubSeq(s, 2, n - 1) = SubSeq(raw, 2, n - 1)
    BY <1>1, <2>1, PartOfAppend
  <2> QED
    BY <1>7, <2>2 DEF Middle
<1>9. SumOf(Middle(s)) = parser.calculated
  BY <1>3, <1>8, SumOfIs
<1>10. SubSeq(s, 6, Len(s) - 2) = parser.payload
  <2>1. 6 \in Nat \ {0} /\ n - 1 \in Nat /\ n - 1 <= n
    BY <1>1
  <2>2. SubSeq(s, 6, n - 1) = SubSeq(raw, 6, n - 1)
    BY <1>1, <2>1, PartOfAppend
  <2> QED
    BY <1>3, <1>7, <2>2
<1>11. WellFormed(s) <=> b = Footer /\ parser.calculated = parser.received
  <2>1. /\ Len(s) >= Overhead /\ s[1] = Header /\ Announced(s) = Len(s)
        /\ s[Len(s) - 1] = parser.received /\ s[Len(s)] = b
    <3>1. s[Len(s) - 1] = parser.received
      BY <1>5, <1>7
    <3>2. s[Len(s)] = b
      BY <1>4
    <3> QED
      BY <1>1, <1>5, <1>6, <1>7, <3>1, <3>2 DEF Overhead
  <2> HIDE DEF s
  <2> QED
    BY <1>9, <2>1 DEF WellFormed
<1>12. Decoded(s) = Frame
  <2>1. Len(s) - 1 = parser.age + 1
    BY <1>1, <1>3, <1>7
  <2> HIDE DEF s
  <2> QED
    BY <1>5, <1>10, <2>1 DEF Decoded, Frame
<1> QED
  BY <1>11, <1>12

LEMMA FooterDelivers ==
    ASSUME IInv, Content, NEW b \in InByte, In("footer"), process_byte(b)
    PROVE  LET s == Append(raw, b)
           IN  out' = IF WellFormed(s) THEN Decoded(s) ELSE None
<1>1. FooterByte(b)
  BY DEF process_byte, In, NotHeader, HeaderByte, CommandByte, LengthHigh, LengthLow,
         TooLong, FrameNumber, PayloadByte, PayloadOverrun, ChecksumByte
<1>2. out' = IF b = Footer /\ parser.calculated = parser.received THEN Frame ELSE None
  BY <1>1 DEF FooterByte
<1> QED
  BY <1>2, FooterDecides

LEMMA EveryFrameDelivered ==
    IInv /\ Content =>
      \A b \in Byte : process_byte(b) /\ In("footer") =>
        LET s == Append(raw, b)
        IN  out' = IF WellFormed(s) THEN Decoded(s) ELSE None
<1>1. \A b \in Byte : b \in InByte
  BY ByteAssumption DEF InByte
<1> QED
  BY <1>1, FooterDelivers

(* The callback is given a frame exactly when the bytes from the last      *)
(* accepted header on are one, with that frame's fields, for every stream  *)
(* of bytes.                                                               *)
THEOREM DeliversFramesCorrect == Spec => DeliversFrames
BY EveryFrameDelivered, ContentInvariant, PTL DEF DeliversFrames

-----------------------------------------------------------------------------
(* The same parser over connections that are lost anywhere.                *)

(* What the remote host has still to send is bytes.                        *)
LineOK == line \in Seq(Byte)

(* Packets and reconnections leave the parser alone, and what it receives  *)
(* is a byte; the radar's packets are all that LinkSpec sends.             *)
LEMMA LinkInvariant == LinkSpec => [](IInv /\ LineOK)
<1>1. LinkInit => IInv /\ LineOK
  BY InitInvariant DEF LinkInit, LineOK
<1>2. IInv /\ LineOK /\ [LinkNext]_<<vars, linkVars>> => IInv' /\ LineOK'
  <2> SUFFICES ASSUME IInv, LineOK, [LinkNext]_<<vars, linkVars>>
               PROVE  IInv' /\ LineOK'
    OBVIOUS
  <2>a. ASSUME UNCHANGED <<parser, overrun, raw>>
        PROVE  IInv'
    BY <2>a DEF IInv, TypeOK, Place, OverrunPlace, Expected, Announced, Index
  <2>1. CASE SendPacket
    <3>1. line' \in Packets /\ UNCHANGED <<parser, overrun, raw>>
      BY <2>1 DEF SendPacket, Start
    <3> QED
      BY <3>1, <2>a, PacketsAssumption DEF LineOK
  <2>2. CASE Receive
    <3>1. Head(line) \in Byte /\ Tail(line) \in Seq(Byte)
      BY <2>2 DEF Receive, LineOK
    <3>2. Next /\ line' = Tail(line)
      BY <2>2, <3>1 DEF Receive, Next
    <3> QED
      BY <3>1, <3>2, StepInvariant DEF LineOK
  <2>3. CASE Reconnect
    <3>1. line' = <<>> /\ UNCHANGED <<parser, overrun, raw>>
      BY <2>3 DEF Reconnect
    <3> QED
      BY <3>1, <2>a DEF LineOK
  <2>4. CASE Undefined \/ UNCHANGED <<vars, linkVars>>
    <3>1. UNCHANGED <<parser, overrun, raw, line>>
      BY <2>4 DEF Undefined, vars, linkVars
    <3> QED
      BY <3>1, <2>a DEF LineOK
  <2> QED
    BY <2>1, <2>2, <2>3, <2>4 DEF LinkNext
<1> QED
  BY <1>1, <1>2, PTL DEF LinkSpec

(* Whatever packets the remote host sends and wherever its connections     *)
(* break, the payload buffer is overrun only after a short length.         *)
THEOREM LinkOverrunOnlyIfShort == LinkSpec => []OverrunOnlyIfShort
BY ShortOverruns, LinkInvariant, PTL
LEMMA LinkContent == LinkSpec => [](IInv /\ LineOK /\ Content)
<1>1. LinkInit => Content
  BY InitContent DEF LinkInit
<1>2. IInv /\ LineOK /\ IInv' /\ Content /\ [LinkNext]_<<vars, linkVars>> => Content'
  <2> SUFFICES ASSUME IInv, LineOK, IInv', Content, [LinkNext]_<<vars, linkVars>>
               PROVE  Content'
    OBVIOUS
  <2>1. CASE Receive
    <3>1. Head(line) \in Byte
      BY <2>1 DEF Receive, LineOK
    <3>2. Next
      BY <2>1, <3>1 DEF Receive, Next
    <3> QED
      BY <3>2, ContentStep
  <2>2. CASE SendPacket \/ Reconnect \/ Undefined \/ UNCHANGED <<vars, linkVars>>
    <3>1. UNCHANGED <<parser, raw>>
      BY <2>2 DEF SendPacket, Start, Reconnect, Undefined, vars
    <3> QED
      BY <3>1 DEF Content, Kept, Summing, Index
  <2> QED
    BY <2>1, <2>2 DEF LinkNext
<1> QED
  BY <1>1, <1>2, LinkInvariant, PTL DEF LinkSpec

(* With lost connections, too, no other bytes are delivered as a frame:    *)
(* what is delivered is what the bytes from the last accepted header on    *)
(* are.                                                                    *)
THEOREM LinkDeliversFrames == LinkSpec => DeliversFrames
BY EveryFrameDelivered, LinkContent, PTL DEF DeliversFrames

-----------------------------------------------------------------------------
(* What a whole connection delivers.                                       *)

(* A frame of the length it announces, its checksum and footer whatever    *)
(* they are.                                                               *)
Framed(s) ==
    /\ Len(s) \in Overhead..MaxPayloadSize
    /\ s[1] = Header
    /\ Announced(s) = Len(s)

(* A packet that announces more than the maximum, well formed or not, and  *)
(* in which the parser then finds no other header.  Good packets whose     *)
(* payload has more than MaxPayloadSize - Overhead bytes are among them.   *)
Rejected(s) ==
    /\ Len(s) >= 4
    /\ s[1] = Header
    /\ Announced(s) > MaxPayloadSize
    /\ \A i \in 5..Len(s) : s[i] # Header

(* The parser has the beginning of the packet, the line the rest ...       *)
Halfway == packet = raw \o line /\ (Rejected(packet) => Len(raw) <= 3)

(* ... or it has dropped the packet and waits for the next one.            *)
Dropped ==
    /\ Rejected(packet)
    /\ raw = <<>>
    /\ \A i \in 1..Len(line) : line[i] # Header

InStep ==
    reconnects = 0 =>
       /\ line = <<>> => raw = <<>>
       /\ line # <<>> => packet # <<>> /\ (Halfway \/ Dropped)
       /\ packet # <<>> =>
             /\ packet \in Packets
             /\ expect = IF Deliverable(packet) THEN Decoded(packet) ELSE None
             /\ line = <<>> => out = expect

(* Connections lost are counted. *)
ReconnectsType == reconnects \in Nat

(* The bytes received and the rest of the packet are still the packet when *)
(* one byte has moved.                                                     *)
LEMMA MoveByte ==
    ASSUME NEW s \in Seq(InByte), NEW t \in Seq(InByte), t # <<>>
    PROVE  LET p == s \o t
           IN  /\ p = Append(s, Head(t)) \o Tail(t)
               /\ p \in Seq(InByte) /\ Len(p) = Len(s) + Len(t)
               /\ Len(s) \in Nat /\ Len(t) \in Nat \ {0}
               /\ p[Len(s) + 1] = Head(t)
               /\ \A i \in 1..Len(s) : p[i] = s[i]
               /\ \A i \in 1..Len(Tail(t)) : Tail(t)[i] = p[Len(s) + 1 + i]
               /\ Len(Tail(t)) = Len(t) - 1
<1> DEFINE p == s \o t
           q == Append(s, Head(t)) \o Tail(t)
<1>1. /\ Len(s) \in Nat /\ Len(t) \in Nat \ {0}
      /\ Head(t) \in InByte /\ Tail(t) \in Seq(InByte)
      /\ Len(Tail(t)) = Len(t) - 1 /\ Head(t) = t[1]
      /\ \A i \in 1..Len(Tail(t)) : Tail(t)[i] = t[i + 1]
  OBVIOUS
<1>2. /\ p \in Seq(InByte) /\ Len(p) = Len(s) + Len(t)
      /\ \A i \in 1..Len(s) : p[i] = s[i]
      /\ \A i \in (Len(s) + 1)..Len(p) : p[i] = t[i - Len(s)]
  OBVIOUS
<1>3. /\ Append(s, Head(t)) \in Seq(InByte) /\ Len(Append(s, Head(t))) = Len(s) + 1
      /\ \A i \in 1..Len(s) : Append(s, Head(t))[i] = s[i]
      /\ Append(s, Head(t))[Len(s) + 1] = Head(t)
  BY <1>1, AppendProperties
<1> DEFINE a == Append(s, Head(t))
           u == Tail(t)
<1> HIDE DEF a, u
<1>4. /\ a \o u \in Seq(InByte) /\ Len(a \o u) = Len(a) + Len(u)
      /\ \A i \in 1..Len(a) : (a \o u)[i] = a[i]
      /\ \A i \in (Len(a) + 1)..Len(a \o u) : (a \o u)[i] = u[i - Len(a)]
  BY <1>1, <1>3 DEF a, u
<1> HIDE DEF p
<1>5. \A i \in 1..Len(p) : p[i] = (a \o u)[i]
  <2> TAKE i \in 1..Len(p)
  <2>0. /\ Len(a) = Len(s) + 1 /\ Len(u) = Len(t) - 1 /\ Len(p) = Len(a \o u)
        /\ Len(s) \in Nat /\ Len(t) \in Nat \ {0} /\ Len(p) = Len(s) + Len(t)
    BY <1>1, <1>2, <1>3, <1>4 DEF a, u
  <2>1. CASE i \in 1..Len(s)
    BY <1>2, <1>3, <1>4, <2>0, <2>1 DEF a
  <2>2. CASE i = Len(s) + 1
    <3>1. p[i] = t[1]
      BY <1>2, <2>0, <2>2
    <3>2. (a \o u)[i] = a[i] /\ a[i] = Head(t)
      BY <1>3, <1>4, <2>0, <2>2 DEF a
    <3> QED
      BY <1>1, <3>1, <3>2
  <2>3. CASE i \in (Len(s) + 2)..Len(p)
    <3>1. p[i] = t[i - Len(s)]
      BY <1>2, <2>0, <2>3
    <3>2. (a \o u)[i] = u[i - Len(s) - 1]
      BY <1>4, <2>0, <2>3
    <3>3. i - Len(s) - 1 \in 1..Len(u)
      BY <2>0, <2>3
    <3>4. u[i - Len(s) - 1] = t[i - Len(s) - 1 + 1] /\ i - Len(s) - 1 + 1 = i - Len(s)
      BY <1>1, <2>0, <3>3 DEF u
    <3> QED
      BY <3>1, <3>2, <3>4
  <2> QED
    BY <2>0, <2>1, <2>2, <2>3
<1>6. p = a \o u
  <2>1. Len(p) = Len(a \o u)
    BY <1>1, <1>2, <1>3, <1>4 DEF a, u
  <2> QED
    BY <1>2, <1>4, <1>5, <2>1, SeqEqual
<1>7. p[Len(s) + 1] = Head(t)
  <2>1. Len(s) + 1 \in (Len(s) + 1)..Len(p) /\ Len(s) + 1 - Len(s) = 1
    BY <1>1, <1>2
  <2> QED
    BY <1>1, <1>2, <2>1
<1>8. \A i \in 1..Len(u) : u[i] = p[Len(s) + 1 + i]
  <2> TAKE i \in 1..Len(u)
  <2>1. Len(s) + 1 + i \in (Len(s) + 1)..Len(p) /\ Len(s) + 1 + i - Len(s) = i + 1
    BY <1>1, <1>2 DEF u
  <2>2. p[Len(s) + 1 + i] = t[i + 1]
    BY <1>2, <2>1
  <2> QED
    BY <1>1, <2>2 DEF u
<1> QED
  BY <1>1, <1>2, <1>6, <1>7, <1>8 DEF p, a, u

(* A packet that is as long as it says is not delivered when it says more  *)
(* than the maximum.                                                       *)
LEMMA RejectedNotDeliverable ==
    ASSUME NEW s, Rejected(s), Len(s) \in Nat
    PROVE  ~Deliverable(s)
BY MaxAssumption DEF Rejected, Deliverable, WellFormed

(* One byte of a packet in step, on a connection that has not been lost.   *)
LEMMA ReceiveInStep ==
    ASSUME IInv, Content, line \in Seq(InByte), line # <<>>,
           packet # <<>>, Len(packet) \in Nat, Halfway \/ Dropped, Framed(packet) \/ Rejected(packet),
           process_byte(Head(line)), line' = Tail(line), packet' = packet
    PROVE  /\ line' = <<>> => raw' = <<>>
           /\ line' # <<>> => Halfway' \/ Dropped'
           /\ line' = <<>> =>
                 out' = IF Deliverable(packet) THEN Decoded(packet) ELSE None
<1> DEFINE b == Head(line)
           n == Len(raw)
<1>1. /\ raw \in Seq(InByte) /\ n \in Nat /\ Index \in Nat
      /\ b \in InByte /\ Tail(line) \in Seq(InByte) /\ b = line[1]
      /\ Len(line) \in Nat \ {0}
      /\ Len(Tail(line)) = Len(line) - 1
      /\ \A i \in 1..Len(Tail(line)) : Tail(line)[i] = line[i + 1]
      /\ parser.state \in States
      /\ raw = <<>> <=> n = 0
  BY DEF IInv, TypeOK, Index
<1>2. packet[1] = Header
  BY DEF Framed, Rejected
<1>3. ASSUME raw' = <<>>, out' = None, Rejected(packet),
             \A i \in 1..Len(line') : line'[i] # Header
      PROVE  /\ line' = <<>> => raw' = <<>>
             /\ line' # <<>> => Halfway' \/ Dropped'
             /\ line' = <<>> =>
                   out' = IF Deliverable(packet) THEN Decoded(packet) ELSE None
  <2>1. Rejected(packet)' /\ ~Deliverable(packet)
    BY <1>3, RejectedNotDeliverable DEF Rejected
  <2> QED
    BY <1>3, <2>1 DEF Dropped
(* A dropped packet has no header left: its bytes are passed over.         *)
<1>4. ASSUME Dropped
      PROVE  raw' = <<>> /\ out' = None /\ \A i \in 1..Len(line') : line'[i] # Header
  <2>1. b # Header /\ \A i \in 1..Len(line') : line'[i] # Header
    <3>1. 1 \in 1..Len(line) /\ \A i \in 1..Len(line') : i + 1 \in 1..Len(line)
      BY <1>1
    <3> QED
      BY <1>1, <1>4, <3>1 DEF Dropped
  <2>2. parser.state = "header"
    BY <1>1, <1>4 DEF Dropped, IInv, Place, States
  <2>3. NotHeader(b)
    BY <2>1, <2>2 DEF process_byte, In, NotHeader, HeaderByte, CommandByte, LengthHigh,
       LengthLow, TooLong, FrameNumber, PayloadByte, PayloadOverrun, ChecksumByte, FooterByte
  <2> QED
    BY <2>1, <2>3 DEF NotHeader, Abandon
<1>5. ASSUME Halfway
      PROVE  /\ line' = <<>> => raw' = <<>>
             /\ line' # <<>> => Halfway' \/ Dropped'
             /\ line' = <<>> =>
                   out' = IF Deliverable(packet) THEN Decoded(packet) ELSE None
  <2>1. /\ packet = Append(raw, b) \o Tail(line)
        /\ packet \in Seq(InByte) /\ Len(packet) = n + Len(line)
        /\ packet[n + 1] = b
        /\ \A i \in 1..n : packet[i] = raw[i]
        /\ \A i \in 1..Len(Tail(line)) : Tail(line)[i] = packet[n + 1 + i]
    BY <1>1, <1>5, MoveByte DEF Halfway
  (* The byte is within the packet and the parser keeps it. *)
  <2>2. ASSUME raw' = Append(raw, b), n + 1 < Len(packet), Rejected(packet) => n + 1 <= 3
        PROVE  line' # <<>> /\ Halfway'
    <3>1. Len(line') >= 1 /\ line' \in Seq(InByte)
      BY <1>1, <2>1, <2>2
    <3>2. packet' = raw' \o line' /\ Len(raw') = n + 1
      BY <1>1, <2>1, <2>2, AppendProperties
    <3>3. Rejected(packet') => Len(raw') <= 3
      BY <2>2, <3>2
    <3>4. Len(<<>>) # Len(line')
      BY <3>1
    <3>5. line' # <<>>
      BY <3>4
    <3> QED
      BY <3>2, <3>3, <3>5 DEF Halfway
  <2>3. ASSUME n >= 4
        PROVE  Framed(packet) /\ Announced(raw) = Len(packet)
    <3>1. Framed(packet)
      BY <1>1, <1>5, <2>3 DEF Halfway
    <3>2. packet[3] = raw[3] /\ packet[4] = raw[4]
      BY <1>1, <2>1, <2>3
    <3> QED
      BY <3>1, <3>2 DEF Framed, Announced
  <2>4. Len(packet) >= 4 /\ Len(packet) \in Nat
    BY <2>1 DEF Framed, Rejected, Overhead
  <2>5. ASSUME n >= 4, Expected
        PROVE  /\ parser.expected = Len(packet) - 7
               /\ Len(packet) \in 7..MaxPayloadSize
    BY <2>3, <2>5, MaxAssumption DEF Framed, Expected, LessOverhead, Overhead
  <2>6. CASE NotHeader(b)
    <3>1. n = 0 /\ b # Header
      BY <2>6 DEF NotHeader, In, IInv, Place
    <3> QED
      BY <1>2, <2>1, <3>1
  <2>7. CASE HeaderByte(b)
    <3>1. n = 0 /\ raw' = <<b>> /\ raw = <<>>
      BY <1>1, <2>7 DEF HeaderByte, In, IInv, Place
    <3>2. raw' = Append(raw, b) /\ n + 1 < Len(packet) /\ n + 1 <= 3
      BY <2>4, <3>1
    <3> QED
      BY <2>2, <3>2
  <2>8. CASE CommandByte(b) \/ LengthHigh(b)
    <3>1. (n = 1 \/ n = 2) /\ raw' = Append(raw, b)
      BY <2>8 DEF CommandByte, LengthHigh, Continue, In, IInv, Place
    <3>2. n + 1 < Len(packet) /\ n + 1 <= 3
      <4> HIDE DEF n
      <4> QED
        BY <2>4, <3>1
    <3> QED
      BY <2>2, <3>1, <3>2
  <2>9. CASE TooLong(b) \/ LengthLow(b)
    <3>1. n = 3 /\ parser.expected = raw[3] * Base
      BY <2>9 DEF TooLong, LengthLow, In, IInv, Place
    <3>2. packet[3] = raw[3] /\ packet[4] = b
      <4>1. 3 \in 1..n /\ n + 1 = 4
        BY <3>1
      <4>2. packet[n + 1] = packet[4]
        BY <4>1
      <4> QED
        BY <2>1, <4>1, <4>2
    <3>3. Length(b) = Announced(packet)
      BY <3>1, <3>2 DEF Length, Announced
    <3>4. CASE TooLong(b)
      <4>1. Announced(packet) > MaxPayloadSize /\ raw' = <<>> /\ out' = None
        BY <3>3, <3>4 DEF TooLong, Exceeds, Abandon
      <4>2. Rejected(packet)
        BY <2>4, <4>1, MaxAssumption DEF Framed
      <4>3. \A i \in 1..Len(line') : line'[i] # Header
        <5>1. \A i \in 1..Len(line') : n + 1 + i \in 5..Len(packet)
          BY <1>1, <2>1, <3>1
        <5> QED
          BY <2>1, <4>2, <5>1 DEF Rejected
      <4> QED
        BY <1>3, <4>1, <4>2, <4>3
    <3>5. CASE LengthLow(b)
      <4>1. ~(Announced(packet) > MaxPayloadSize) /\ raw' = Append(raw, b)
        <5>1. Announced(packet) \in Nat
          <6>1. packet[3] \in InByte /\ packet[4] \in InByte
            BY <2>1, <2>4
          <6>2. packet[3] * Base \in Nat /\ packet[4] \in Nat
            <7>1. Base * Base \in Nat
              BY BaseAssumption
            <7> QED
              BY <6>1, <7>1, HighByte DEF InByte
          <6> QED
            BY <6>2 DEF Announced
        <5> QED
          BY <3>3, <3>5, <5>1, MaxAssumption DEF LengthLow, Exceeds, Continue
      <4>2. ~Rejected(packet) /\ Len(packet) >= 7
        BY <4>1, <2>4 DEF Rejected, Framed, Overhead
      <4>3. n + 1 < Len(packet)
        BY <2>4, <3>1, <4>2
      <4> QED
        BY <2>2, <4>1, <4>2, <4>3
    <3> QED
      BY <2>9, <3>4, <3>5
  <2>10. CASE FrameNumber(b) \/ PayloadByte(b) \/ ChecksumByte(b)
    <3>1. n >= 4 /\ Expected /\ raw' = Append(raw, b)
      <4>1. CASE FrameNumber(b)
        <5>1. parser.state = "frame" /\ raw' = Append(raw, b)
          BY <4>1 DEF FrameNumber, Continue, In
        <5>2. n = 4 /\ Expected
          BY <5>1 DEF IInv, Place
        <5> QED
          BY <5>1, <5>2
      <4>2. CASE PayloadByte(b)
        BY <1>1, <4>2 DEF PayloadByte, Continue, In, IInv, Place
      <4>3. CASE ChecksumByte(b)
        BY <1>1, <4>3 DEF ChecksumByte, Continue, In, IInv, Place
      <4> QED
        BY <2>10, <4>1, <4>2, <4>3
    <3>2. n = 4 \/ (n = 5 + Index /\ Index <= parser.expected)
      BY <2>10 DEF FrameNumber, PayloadByte, ChecksumByte, In, IInv, Place, TypeOK, Index
    <3>3. ~Rejected(packet)
      BY <1>5, <1>1, <3>1 DEF Halfway
    <3>4. n + 1 < Len(packet)
      <4>1. parser.expected = Len(packet) - 7 /\ Len(packet) \in 7..MaxPayloadSize
        BY <2>5, <3>1
      <4>2. n \in Nat /\ Index \in Nat /\ Len(packet) \in Nat
        BY <1>1, <2>4
      <4> HIDE DEF n
      <4> QED
        BY <3>2, <4>1, <4>2
    <3> QED
      BY <2>2, <3>1, <3>3, <3>4
  (* The payload of a packet of its length fits. *)
  <2>11. CASE PayloadOverrun(b)
    <3>1. /\ n >= 4 /\ Expected /\ Index < parser.expected
          /\ Index >= MaxPayloadSize
      BY <1>1, <2>11 DEF PayloadOverrun, In, IInv, Place
    <3>2. parser.expected = Len(packet) - 7 /\ Len(packet) \in 7..MaxPayloadSize
      BY <2>5, <3>1
    <3> QED
      BY <1>1, <3>1, <3>2, MaxAssumption
  <2>12. CASE FooterByte(b)
    <3>1. n = 6 + Index /\ Index = parser.expected /\ Expected /\ In("footer")
      BY <2>12 DEF FooterByte, In, IInv, Place
    <3>2. parser.expected = Len(packet) - 7 /\ Framed(packet)
      BY <1>1, <2>3, <2>5, <3>1
    <3>3. n + 1 = Len(packet)
      BY <1>1, <2>4, <3>1, <3>2
    <3>4. line' = <<>>
      BY <1>1, <2>1, <3>3
    <3>5. packet = Append(raw, b)
      <4>1. Append(raw, b) \in Seq(InByte)
        BY <1>1, AppendProperties
      <4> QED
        BY <2>1, <3>4, <4>1, ConcatEmptySeq
    <3>6. out' = IF WellFormed(packet) THEN Decoded(packet) ELSE None
      BY <1>1, <3>1, <3>5, FooterDelivers
    <3>7. WellFormed(packet) => Deliverable(packet)
      BY <3>2, MaxAssumption DEF Deliverable, Framed, Overhead
    <3>8. raw' = <<>>
      BY <2>12 DEF FooterByte
    <3> QED
      BY <3>4, <3>6, <3>7, <3>8 DEF Deliverable
  <2> QED
    BY <2>6, <2>7, <2>8, <2>9, <2>10, <2>11, <2>12 DEF process_byte
<1> QED
  <2>1. CASE Halfway
    BY <1>5, <2>1
  <2>2. CASE Dropped
    <3>1. Rejected(packet)
      BY <2>2 DEF Dropped
    <3> QED
      BY <1>3, <1>4, <2>2, <3>1
  <2> QED
    BY <2>1, <2>2

(* Each packet is a frame of the length it announces, at most              *)
(* MAX_PAYLOAD_SIZE in all, or announces more than that and holds no       *)
(* second header byte.                                                     *)
LengthsMatch == \A s \in Packets : Framed(s) \/ Rejected(s)

LEMMA InStepStep ==
    ASSUME LengthsMatch, IInv, LineOK, Content, InStep, [LinkNext]_<<vars, linkVars>>,
           ReconnectsType, ReconnectsType'
    PROVE  InStep'
<1>1. CASE SendPacket
  <2>1. PICK s \in Packets : Start(s, IF Deliverable(s) THEN Decoded(s) ELSE None)
    BY <1>1 DEF SendPacket
  <2>2. /\ line = <<>> /\ packet' = s /\ line' = s /\ raw' = raw
        /\ expect' = IF Deliverable(s) THEN Decoded(s) ELSE None
        /\ reconnects' = reconnects
    BY <2>1 DEF Start
  <2>3. s \in Seq(Byte) /\ s # <<>>
    <3>1. Len(s) >= 4
      BY <2>1, MaxAssumption DEF LengthsMatch, Framed, Rejected, Overhead
    <3>2. s # <<>>
      <4>1. Len(<<>>) # Len(s)
        BY <3>1
      <4> QED
        BY <4>1
    <3> QED
      BY <2>1, <3>2, PacketsAssumption
  <2>4. ASSUME reconnects = 0
        PROVE  Halfway'
    <3>1. raw' = <<>> /\ packet' = <<>> \o line' /\ Len(raw') <= 3
      BY <2>2, <2>3, <2>4, ConcatEmptySeq DEF InStep
    <3> QED
      BY <3>1 DEF Halfway
  <2>5. packet' # <<>> /\ line' # <<>>
    BY <2>2, <2>3
  <2>6. packet' \in Packets
        /\ expect' = IF Deliverable(packet') THEN Decoded(packet') ELSE None
    BY <2>1, <2>2
  <2> QED
    BY <2>2, <2>4, <2>5, <2>6 DEF InStep
<1>2. CASE Receive
  <2>1. /\ line # <<>> /\ process_byte(Head(line)) /\ line' = Tail(line)
        /\ packet' = packet /\ expect' = expect /\ reconnects' = reconnects
    BY <1>2 DEF Receive
  <2>2. line \in Seq(InByte)
    <3>1. Byte \subseteq InByte
      BY ByteAssumption DEF InByte
    <3> QED
      BY <3>1 DEF LineOK
  <2>3. ASSUME reconnects = 0
        PROVE  /\ packet # <<>> /\ (Halfway \/ Dropped) /\ packet \in Packets
               /\ expect = IF Deliverable(packet) THEN Decoded(packet) ELSE None
    BY <2>1, <2>3 DEF InStep
  <2>4. ASSUME reconnects = 0
        PROVE  /\ line' = <<>> => raw' = <<>>
               /\ line' # <<>> => Halfway' \/ Dropped'
               /\ line' = <<>> =>
                     out' = IF Deliverable(packet) THEN Decoded(packet) ELSE None
    <3>1. Framed(packet) \/ Rejected(packet)
      BY <2>3, <2>4 DEF LengthsMatch
    <3>2. Len(packet) \in Nat
      <4>1. packet \in Seq(Byte)
        BY <2>3, <2>4, PacketsAssumption
      <4> QED
        BY <4>1
    <3> QED
      BY <2>1, <2>2, <2>3, <2>4, <3>1, <3>2, ReceiveInStep
  <2> QED
    BY <2>1, <2>3, <2>4 DEF InStep
<1>3. CASE Reconnect
  <2>1. reconnects' # 0
    BY <1>3 DEF Reconnect, ReconnectsType
  <2> QED
    BY <2>1 DEF InStep
<1>4. CASE Undefined \/ UNCHANGED <<vars, linkVars>>
  <2>1. UNCHANGED <<raw, out, packet, line, expect, reconnects>>
    BY <1>4 DEF Undefined, vars, linkVars
  <2> QED
    BY <2>1 DEF InStep, Halfway, Dropped
<1> QED
  BY <1>1, <1>2, <1>3, <1>4 DEF LinkNext

(* When each packet has the length it announces, up to MaxPayloadSize for  *)
(* the whole packet, or announces more and holds no second header byte: as *)
(* long as no connection is lost, one of the first kind is delivered with  *)
(* its fields at its last byte if its checksum and footer are right, and   *)
(* nothing is delivered otherwise.  That discards good packets, too, when  *)
(* their payload is longer than MaxPayloadSize - Overhead (:120); after    *)
(* each packet the parser is back in step.                                 *)
THEOREM FirstConnectionCorrect ==
    LengthsMatch => (LinkSpec => []FirstConnectionDelivers)
<1> SUFFICES ASSUME LengthsMatch
             PROVE  LinkSpec => []FirstConnectionDelivers
  OBVIOUS
<1>1. LinkInit => InStep /\ ReconnectsType
  BY DEF LinkInit, Init, InStep, ReconnectsType
<1>2. ReconnectsType /\ [LinkNext]_<<vars, linkVars>> => ReconnectsType'
  BY DEF ReconnectsType, LinkNext, SendPacket, Start, Receive, Reconnect, Undefined, linkVars
<1>3. IInv /\ LineOK /\ Content /\ InStep /\ ReconnectsType /\ ReconnectsType'
      /\ [LinkNext]_<<vars, linkVars>> => InStep'
  BY InStepStep
<1>4. InStep => FirstConnectionDelivers
  BY DEF InStep, FirstConnectionDelivers, PacketsDelivered
<1> QED
  BY <1>1, <1>2, <1>3, <1>4, LinkContent, PTL DEF LinkSpec

-----------------------------------------------------------------------------
(* What tcp_client_app_send_command builds is not what the parser reads.   *)

(* A length in digits of Base. *)
LEMMA Digits ==
    ASSUME NEW n \in Nat, NEW B \in Nat, B > 0
    PROVE  n \div B \in Nat /\ n % B \in Nat /\ n = B * (n \div B) + (n % B)
OBVIOUS

(* Two sequences put together. *)
LEMMA Joined ==
    ASSUME NEW S, NEW s \in Seq(S), NEW t \in Seq(S), NEW k \in Nat, NEW l \in Nat,
           Len(s) = k, Len(t) = l
    PROVE  /\ s \o t \in Seq(S) /\ Len(s \o t) = k + l
           /\ \A i \in 1..k : (s \o t)[i] = s[i]
           /\ \A i \in 1..l : (s \o t)[k + i] = t[i]
<1>1. /\ s \o t \in Seq(S) /\ Len(s \o t) = k + l
      /\ \A i \in 1..(k + l) : (s \o t)[i] = IF i <= k THEN s[i] ELSE t[i - k]
  BY ConcatProperties
<1>2. \A i \in 1..k : i \in 1..(k + l) /\ i <= k
  OBVIOUS
<1>3. \A i \in 1..l : k + i \in 1..(k + l) /\ ~(k + i <= k) /\ k + i - k = i
  OBVIOUS
<1> QED
  BY <1>1, <1>2, <1>3

(* The bytes that the two sides take for command and length.               *)
LEMMA TxPlaces ==
    ASSUME NEW c, c.command \in InByte, c.payload \in Seq(InByte), NEW number \in InByte
    PROVE  LET s == TxBytes(c, number)
               n == Len(c.payload)
           IN  /\ Len(s) = n + 7
               /\ s[2] = n \div Base /\ s[3] = n % Base /\ s[4] = c.command
<1> DEFINE n == Len(c.payload)
           head == <<n \div Base, n % Base, c.command, number>>
           body == head \o c.payload
           x == SumOf(body)
           S == Nat \cup {Header, x, Footer}
<1>1. n \in Nat /\ n \div Base \in Nat /\ n % Base \in Nat
  <2>1. n \in Nat /\ Base \in Nat /\ Base > 0
    BY BaseAssumption
  <2> QED
    BY <2>1, Digits
<1>2. InByte \subseteq S /\ x \in S /\ Header \in S /\ Footer \in S /\ Nat \subseteq S
  BY DEF InByte
<1> HIDE DEF x, S
<1>3. c.payload \in Seq(S)
  BY <1>2
<1> DEFINE a == n \div Base
           d == n % Base
           com == c.command
<1>4. a \in S /\ d \in S /\ com \in S /\ number \in S
  BY <1>1, <1>2
<1> HIDE DEF a, d, com
<1>5. /\ <<a, d, com, number>> \in Seq(S) /\ Len(<<a, d, com, number>>) = 4
      /\ <<a, d, com, number>>[1] = a /\ <<a, d, com, number>>[2] = d
      /\ <<a, d, com, number>>[3] = com
  BY <1>4
<1>h. head = <<a, d, com, number>>
  BY DEF a, d, com
<1> HIDE DEF head
<1>6. /\ body \in Seq(S) /\ Len(body) = 4 + n
      /\ body[1] = a /\ body[2] = d /\ body[3] = com
  <2>1. /\ head \in Seq(S) /\ Len(head) = 4
        /\ head[1] = a /\ head[2] = d /\ head[3] = com
    BY <1>5, <1>h
  <2>2. /\ head \o c.payload \in Seq(S) /\ Len(head \o c.payload) = 4 + n
        /\ \A i \in 1..4 : (head \o c.payload)[i] = head[i]
    <3> DEFINE k == 4
    <3>1. k \in Nat /\ n \in Nat /\ Len(c.payload) = n /\ Len(head) = k
      BY <1>1, <2>1
    <3> HIDE DEF n, k
    <3>2. /\ head \o c.payload \in Seq(S) /\ Len(head \o c.payload) = k + n
          /\ \A i \in 1..k : (head \o c.payload)[i] = head[i]
      BY <1>3, <2>1, <3>1, Joined
    <3> QED
      BY <3>2 DEF k
  <2> QED
    BY <2>1, <2>2
<1> DEFINE tail == <<x, Footer>>
           start == <<Header>>
           front == start \o body
<1>7. tail \in Seq(S) /\ Len(tail) = 2 /\ start \in Seq(S) /\ Len(start) = 1
  BY <1>2
<1> HIDE DEF body, tail, start, n
<1>9. /\ front \in Seq(S) /\ Len(front) = 5 + n
      /\ front[2] = a /\ front[3] = d /\ front[4] = com
  <2>1. /\ start \o body \in Seq(S) /\ Len(start \o body) = 1 + (4 + n)
        /\ \A i \in 1..(4 + n) : (start \o body)[1 + i] = body[i]
    <3> DEFINE k == 1
               l == 4 + n
    <3>1. /\ start \in Seq(S) /\ body \in Seq(S)
          /\ k \in Nat /\ l \in Nat /\ Len(start) = k /\ Len(body) = l
      BY <1>1, <1>6, <1>7
    <3> HIDE DEF k, l
    <3>2. /\ start \o body \in Seq(S) /\ Len(start \o body) = k + l
          /\ \A i \in 1..l : (start \o body)[k + i] = body[i]
      BY <3>1, Joined
    <3> QED
      BY <3>2 DEF k, l
  <2>2. 1 \in 1..(4 + n) /\ 2 \in 1..(4 + n) /\ 3 \in 1..(4 + n)
    BY <1>1
  <2>3. /\ (start \o body)[1 + 1] = body[1] /\ (start \o body)[1 + 2] = body[2]
        /\ (start \o body)[1 + 3] = body[3]
    BY <2>1, <2>2
  <2> QED
    BY <1>1, <1>6, <2>1, <2>3
<1> HIDE DEF front
<1>10. /\ Len(front \o tail) = n + 7
       /\ (front \o tail)[2] = a /\ (front \o tail)[3] = d
       /\ (front \o tail)[4] = com
  <2>1. /\ Len(front \o tail) = (5 + n) + 2
        /\ \A i \in 1..(5 + n) : (front \o tail)[i] = front[i]
    <3> DEFINE k == 5 + n
               l == 2
    <3>1. k \in Nat /\ l \in Nat /\ Len(front) = k /\ Len(tail) = l
      BY <1>1, <1>7, <1>9
    <3> HIDE DEF k, l
    <3>2. /\ Len(front \o tail) = k + l
          /\ \A i \in 1..k : (front \o tail)[i] = front[i]
      BY <1>7, <1>9, <3>1, Joined
    <3> QED
      BY <3>2 DEF k, l
  <2>2. 2 \in 1..(5 + n) /\ 3 \in 1..(5 + n) /\ 4 \in 1..(5 + n)
    BY <1>1
  <2> QED
    BY <1>1, <1>9, <2>1, <2>2
<1>11. TxBytes(c, number) = front \o tail
  BY DEF TxBytes, front, start, body, head, tail, x, n
<1> QED
  BY <1>10, <1>11 DEF n, a, d, com

(* With lengths of two bytes no length field can make up for the swap.     *)
LEMMA NoLengthFits ==
    ASSUME NEW q \in Nat, NEW r \in Nat, NEW B \in Nat, B > 8
    PROVE  r * B + q # (q * B + r) + 7
<1>1. CASE r <= q
  <2>1. PICK k \in Nat : q = r + k
    <3>1. q - r \in Nat /\ q = r + (q - r)
      BY <1>1
    <3> QED
      BY <3>1
  <2>2. q * B = r * B + k * B /\ k * B \in Nat /\ r * B \in Nat
    BY <2>1
  <2>3. k <= k * B
    <3>1. k * B = k + k * (B - 1) /\ k * (B - 1) \in Nat
      <4>1. B - 1 \in Nat
        OBVIOUS
      <4>2. \A y \in Nat : k * y \in Nat /\ k * (y + 1) = k + k * y
        OBVIOUS
      <4> QED
        BY <4>1, <4>2
    <3> QED
      BY <2>2, <3>1
  <2> QED
    BY <2>1, <2>2, <2>3
<1>2. CASE r > q
  <2>1. PICK k \in Nat : r = q + 1 + k
    <3>1. r - q - 1 \in Nat /\ r = q + 1 + (r - q - 1)
      BY <1>2
    <3> QED
      BY <3>1
  <2>2. r * B = q * B + B + k * B /\ k * B \in Nat /\ q * B \in Nat
    BY <2>1
  <2>3. k * B >= k
    <3>1. B - 1 \in Nat
      OBVIOUS
    <3>2. \A y \in Nat : k * y \in Nat /\ k * (y + 1) = k + k * y
      OBVIOUS
    <3>3. k * (B - 1) \in Nat /\ k * B = k + k * (B - 1)
      BY <3>1, <3>2
    <3> QED
      BY <3>3
  <2> QED
    BY <2>1, <2>2, <2>3
<1> QED
  BY <1>1, <1>2

(* What tcp_client_app_send_command builds is, to the parser of the same   *)
(* file, no packet at all or one with another command, whatever command,   *)
(* frame number and payload it was given (tcp_client_app.c:211-223,        *)
(* :100-126); without a payload the command 7 is read as command 0.        *)
THEOREM CommandsAreMisread ==
    ASSUME Base > 8,
           NEW c, c.command \in InByte, c.payload \in Seq(InByte), NEW number \in InByte
    PROVE  LET s == TxBytes(c, number)
           IN  WellFormed(s) => Decoded(s).command # c.command
<1> DEFINE s == TxBytes(c, number)
           n == Len(c.payload)
<1>1. /\ Len(s) = n + 7
      /\ s[2] = n \div Base /\ s[3] = n % Base /\ s[4] = c.command
  BY TxPlaces
<1> HIDE DEF s
<1> SUFFICES ASSUME WellFormed(s), Decoded(s).command = c.command
             PROVE  FALSE
  BY DEF s
<1>2. Decoded(s).command = s[2]
  BY DEF Decoded
<1>3. n \div Base = c.command
  BY <1>1, <1>2
<1>4. (n % Base) * Base + (n \div Base) = n + 7
  BY <1>1, <1>3 DEF WellFormed, Announced
<1>5. n \in Nat /\ Base \in Nat \ {0}
  BY BaseAssumption
<1> DEFINE q == n \div Base
           r == n % Base
<1>6. q \in Nat /\ r \in Nat /\ n = Base * q + r
  <2>1. Base > 0
    BY <1>5
  <2> HIDE DEF n
  <2> QED
    BY <1>5, <2>1, Digits
<1> HIDE DEF n, q, r
<1>7. n = q * Base + r
  BY <1>5, <1>6
<1>8. r * Base + q # (q * Base + r) + 7
  BY <1>5, <1>6, NoLengthFits
<1> QED
  BY <1>4, <1>7, <1>8 DEF q, r
=============================================================================
