-------------------------- MODULE ConfigPathProofs --------------------------
(***************************************************************************)
(* Theorems about the path of a configuration from the broker to flash:    *)
(* about DeviceConfig for any set of configurations, any CRC and any       *)
(* number of publications, NVS errors, resets and erasures; about MqttApp  *)
(* for any messages, limits and interfaces; and about ConfigPath, which    *)
(* gives DeviceConfig only what it accepts, so that what is proved of it   *)
(* holds of the path.                                                      *)
(***************************************************************************)
EXTENDS ConfigPath, TLAPS

-----------------------------------------------------------------------------
(* DeviceConfig.                                                           *)

(* A call past its check has a payload that fits and has written it; past  *)
(* the second write the hash is the payload's too.                         *)
CallOK ==
    /\ call.at \in {"setHash", "commit"} =>
        /\ call.payload \notin Oversize
        /\ view.raw = call.payload
        /\ call.payload \in attempts
    /\ call.at = "commit" => view.hash = Crc[call.payload]

(* The writes still to come without another publication or fault: those of *)
(* the call in progress, and those of another delivery of the last message *)
(* that arrived once that call is over.                                    *)
CallOwes ==
    IF At("check") /\ Valid /\ ~SameHash THEN 2
    ELSE IF At("setHash") THEN 1 ELSE 0

HashAfterCall ==
    IF call = Idle \/ call.payload \in Oversize THEN view.hash ELSE Crc[call.payload]

Last == published[seen]

LastOwes ==
    IF seen = 0 \/ Last \in Oversize \/ HashAfterCall = Crc[Last] THEN 0 ELSE 2

WearInv == writes + CallOwes + LastOwes <= 2 * (seen + faults)

IInv == TypeOK /\ CallOK /\ HashComesWithRaw /\ SavedIsDurable

-----------------------------------------------------------------------------
(* An empty NVS satisfies the invariant. *)
LEMMA InitInvariant == Init => IInv /\ WearInv
<1> SUFFICES ASSUME Init
             PROVE  IInv /\ WearInv
  OBVIOUS
<1> USE NoneAssumption DEF Init
<1>1. Blank \in Contents
  BY DEF Blank, Contents
<1>2. TypeOK
  <2>1. result \in [of : Payload \cup {None},
                  is : {"none", "invalid", "unchanged", "changed", "error"}]
    BY DEF NoResult
  <2>2. view \in survivors /\ survivors \subseteq Contents
    BY <1>1
  <2>3. up \in BOOLEAN /\ boot_cfg \in Payload \cup {None} /\ call = Idle
    OBVIOUS
  <2>4. /\ published \in Seq(Payload) /\ seen \in 0..Len(published) /\ faults \in Nat /\ writes \in Nat
        /\ acked \in Payload \cup {None} /\ attempts \subseteq Payload
    OBVIOUS
  <2> QED
    BY <2>1, <2>2, <2>3, <2>4 DEF TypeOK
<1>3. CallOK /\ HashComesWithRaw /\ SavedIsDurable
  BY DEF CallOK, HashComesWithRaw, SavedIsDurable, Blank, Idle
<1>4. CallOwes = 0
  BY DEF CallOwes, At, Idle
<1>5. LastOwes = 0
  BY DEF LastOwes
<1>6. WearInv
  BY <1>4, <1>5 DEF WearInv
<1> QED
  BY <1>2, <1>3, <1>6 DEF IInv

(* Types, the order of the two writes and durability survive every step.   *)
LEMMA StepInvariant == IInv /\ [Next]_vars => IInv'
<1> SUFFICES ASSUME IInv, [Next]_vars
             PROVE  IInv'
  OBVIOUS
<1> USE NoneAssumption, OversizeAssumption
<1>a. TypeOK /\ CallOK /\ HashComesWithRaw /\ SavedIsDurable
  BY DEF IInv
<1> USE DEF IInv, CallOK, HashComesWithRaw, SavedIsDurable, At, broker
<1>1. ASSUME NEW p \in Payload, Publish(p)
      PROVE  IInv'
  <2>1. published' \in Seq(Payload) /\ seen' \in 0..Len(published')
    BY <1>a, <1>1 DEF Publish, TypeOK
  <2> QED
    BY <2>1, <1>a, <1>1 DEF Publish, TypeOK, ghosts
<1>2. ASSUME NEW i \in DOMAIN published, Receive(i)
      PROVE  IInv'
  <2>1. published[i] \in Payload /\ i \in 0..Len(published)
    BY <1>a DEF TypeOK
  <2>2. call' \in [at : {"check", "setHash", "commit"}, payload : Payload]
        /\ call'.at = "check"
    BY <2>1, <1>2 DEF Receive
  <2> QED
    BY <2>1, <2>2, <1>a, <1>2 DEF Receive, TypeOK, ghosts
<1>3. ASSUME Reject \/ Unchanged
      PROVE  IInv'
  <2>1. call' = Idle /\ result'.of = call.payload
        /\ result'.is \in {"invalid", "unchanged"}
        /\ result' = [of |-> call.payload, is |-> result'.is]
        /\ UNCHANGED <<broker, view, survivors, up, boot_cfg, ghosts, faults>>
    BY <1>3 DEF Reject, Unchanged, ReturnResult
  <2>2. call.payload \in Payload
    BY <1>a, <1>3 DEF Reject, Unchanged, TypeOK, Idle
  <2> QED
    BY <2>1, <2>2, <1>a DEF TypeOK, Idle, ghosts
<1>4. ASSUME SetRaw
      PROVE  IInv'
  <2>1. call \in [at : {"check", "setHash", "commit"}, payload : Payload] /\ up
    BY <1>a, <1>4 DEF SetRaw, TypeOK, Idle
  <2>2. /\ view' = [view EXCEPT !.raw = call.payload]
        /\ survivors' = survivors \cup {view'}
        /\ writes' = writes + 1
        /\ call' = [call EXCEPT !.at = "setHash"]
        /\ attempts' = attempts \cup {call.payload}
        /\ call.payload \notin Oversize
        /\ UNCHANGED <<broker, up, boot_cfg, result, acked, faults>>
    BY <1>4 DEF SetRaw, Write, Valid
  <2>3. view' \in Contents /\ view'.raw = call.payload /\ view'.hash = view.hash
    BY <2>1, <2>2, <1>a DEF TypeOK, Contents
  <2>4. call' \in [at : {"check", "setHash", "commit"}, payload : Payload]
        /\ call'.at = "setHash" /\ call'.payload = call.payload
    BY <2>1, <2>2
  <2>5. TypeOK'
    BY <2>1, <2>2, <2>3, <2>4, <1>a DEF TypeOK
  <2>6. \A s \in survivors' : s \in survivors \/ s.raw = call.payload
    BY <2>2, <2>3
  <2> QED
    BY <2>1, <2>2, <2>3, <2>4, <2>5, <2>6, <1>a
<1>5. ASSUME SetHash
      PROVE  IInv'
  <2>1. call \in [at : {"check", "setHash", "commit"}, payload : Payload] /\ up
    BY <1>a, <1>5 DEF SetHash, TypeOK, Idle
  <2>2. /\ view' = [view EXCEPT !.hash = Crc[call.payload]]
        /\ survivors' = survivors \cup {view'}
        /\ writes' = writes + 1
        /\ call' = [call EXCEPT !.at = "commit"]
        /\ UNCHANGED <<broker, up, boot_cfg, result, acked, attempts, faults>>
    BY <1>5 DEF SetHash, Write
  <2>3. /\ view' \in Contents /\ view'.raw = view.raw
        /\ view'.hash = Crc[call.payload]
    BY <2>1, <2>2, <1>a DEF TypeOK, Contents
  <2>4. call' \in [at : {"check", "setHash", "commit"}, payload : Payload]
        /\ call'.at = "commit" /\ call'.payload = call.payload
    BY <2>1, <2>2
  <2>5. TypeOK'
    BY <2>1, <2>2, <2>3, <2>4, <1>a DEF TypeOK
  <2>6. \A s \in survivors' : s \in survivors \/ s.raw = view.raw
    BY <2>2, <2>3
  <2>7. view.raw = call.payload /\ call.payload \in attempts /\ call.payload \notin Oversize
    BY <1>a, <1>5 DEF SetHash
  <2> QED
    BY <2>1, <2>2, <2>3, <2>4, <2>5, <2>6, <2>7, <1>a
<1>6. ASSUME Commit
      PROVE  IInv'
  <2>1. call.payload \in Payload /\ view.raw = call.payload
    BY <1>a, <1>6 DEF Commit, TypeOK, Idle
  <2>2. /\ survivors' = {view} /\ view' = view
        /\ call' = Idle /\ result' = [of |-> call.payload, is |-> "changed"]
        /\ acked' = call.payload /\ attempts' = {}
        /\ UNCHANGED <<broker, up, boot_cfg, writes, faults>>
    BY <1>6 DEF Commit, ReturnResult
  <2>3. TypeOK'
    BY <2>1, <2>2, <1>a DEF TypeOK
  <2> QED
    BY <2>1, <2>2, <2>3 DEF Idle
<1>7. ASSUME NvsError
      PROVE  IInv'
  <2>1. call.payload \in Payload
    BY <1>a, <1>7 DEF NvsError, TypeOK, Idle
  <2>2. /\ call' = Idle /\ result' = [of |-> call.payload, is |-> "error"]
        /\ faults' = faults + 1
        /\ UNCHANGED <<broker, view, survivors, up, boot_cfg, ghosts>>
    BY <1>7 DEF NvsError, Fault, ReturnResult
  <2> QED
    BY <2>1, <2>2, <1>a DEF TypeOK, Idle, ghosts
<1>8. ASSUME Reset
      PROVE  IInv'
  <2>1. /\ view' \in survivors /\ survivors' = {view'}
        /\ up' = FALSE /\ boot_cfg' = None /\ call' = Idle /\ result' = NoResult
        /\ faults' = faults + 1
        /\ UNCHANGED <<broker, ghosts>>
    BY <1>8 DEF Reset, Fault
  <2>2. TypeOK'
    <3>1. result' \in [of : Payload \cup {None},
                     is : {"none", "invalid", "unchanged", "changed", "error"}]
      BY <2>1 DEF NoResult
    <3>2. view' \in survivors' /\ survivors' \subseteq Contents
      BY <2>1, <1>a DEF TypeOK
    <3>3. up' \in BOOLEAN /\ boot_cfg' \in Payload \cup {None} /\ call' = Idle
      BY <2>1
    <3>4. /\ published' \in Seq(Payload) /\ seen' \in 0..Len(published') /\ faults' \in Nat /\ writes' \in Nat
          /\ acked' \in Payload \cup {None} /\ attempts' \subseteq Payload
      BY <2>1, <1>a DEF TypeOK, ghosts
    <3> QED
      BY <3>1, <3>2, <3>3, <3>4 DEF TypeOK
  <2> QED
    BY <2>1, <2>2, <1>a DEF Idle, ghosts
<1>9. ASSUME Boot
      PROVE  IInv'
  BY <1>a, <1>9 DEF Boot, TypeOK, Contents, Idle, ghosts
<1>10. ASSUME BootErasing
       PROVE  IInv'
  BY <1>a, <1>10 DEF BootErasing, Fault, TypeOK, Contents, Blank, Idle
<1>11. CASE UNCHANGED vars
  BY <1>a, <1>11 DEF vars, ghosts, TypeOK
<1> QED
  BY <1>1, <1>2, <1>3, <1>4, <1>5, <1>6, <1>7, <1>8, <1>9, <1>10, <1>11
  DEF Next, Apply

(* The invariant holds in every reachable state. *)
LEMMA Invariant == Spec => []IInv
<1>1. Init => IInv
  BY InitInvariant
<1> QED
  BY <1>1, StepInvariant, PTL DEF Spec

(* The state keeps its types. *)
THEOREM TypeCorrect == Spec => []TypeOK
<1>1. IInv => TypeOK
  BY DEF IInv
<1> QED
  BY <1>1, Invariant, PTL

(* At no moment can a reset leave a stored hash without a stored blob.     *)
THEOREM HashComesWithRawCorrect == Spec => []HashComesWithRaw
<1>1. IInv => HashComesWithRaw
  BY DEF IInv
<1> QED
  BY <1>1, Invariant, PTL

(* A configuration once reported as saved is never lost to a reset or an   *)
(* NVS error, only replaced by one whose save was begun later.             *)
THEOREM SavedIsDurableCorrect == Spec => []SavedIsDurable
<1>1. IInv => SavedIsDurable
  BY DEF IInv
<1> QED
  BY <1>1, Invariant, PTL

-----------------------------------------------------------------------------
(* Wear.  Each debt is 0, 1 or 2.                                          *)
LEMMA Debts ==
    /\ CallOwes \in 0..2
    /\ LastOwes \in 0..2
BY DEF CallOwes, LastOwes

(* A step spends at most what is owed; only a new message or a fault       *)
(* raises the debt, by two, and each of them raises the bound by two.      *)
LEMMA StepWear == IInv /\ WearInv /\ [Next]_vars => WearInv'
<1> SUFFICES ASSUME IInv, WearInv, [Next]_vars
             PROVE  WearInv'
  OBVIOUS
<1> USE NoneAssumption, OversizeAssumption
<1>a. TypeOK /\ CallOK
  BY DEF IInv
<1>b. /\ writes \in Nat /\ faults \in Nat /\ seen \in Nat
      /\ CallOwes \in 0..2 /\ LastOwes \in 0..2
      /\ CallOwes' \in 0..2 /\ LastOwes' \in 0..2
      /\ writes + CallOwes + LastOwes <= 2 * (seen + faults)
  <2>1. CallOwes' \in 0..2 /\ LastOwes' \in 0..2
    BY DEF CallOwes, LastOwes
  <2> QED
    BY <2>1, <1>a, Debts DEF TypeOK, WearInv
<1>c. call = Idle \/ call.at \in {"check", "setHash", "commit"}
  BY <1>a DEF TypeOK
<1>1. ASSUME NEW p \in Payload, Publish(p)
      PROVE  WearInv'
  <2>1. seen' = seen /\ (seen # 0 => Last' = Last)
    BY <1>a, <1>1 DEF Publish, TypeOK, Last
  <2>2. HashAfterCall' = HashAfterCall /\ CallOwes' = CallOwes
    BY <1>1 DEF Publish, HashAfterCall, CallOwes, Idle, At, Valid, SameHash
  <2>3. LastOwes' = LastOwes
    BY <2>1, <2>2 DEF LastOwes
  <2>4. writes' = writes /\ faults' = faults
    BY <1>1 DEF Publish, ghosts
  <2> QED
    BY <2>1, <2>2, <2>3, <2>4, <1>b DEF WearInv
<1>2. ASSUME NEW i \in DOMAIN published, Receive(i)
      PROVE  WearInv'
  <2>1. /\ call = Idle /\ seen <= i /\ seen' = i
        /\ call' = [at |-> "check", payload |-> published[i]]
        /\ UNCHANGED <<published, view, writes, faults>>
        /\ i \in Nat \ {0}
    BY <1>2, <1>a DEF Receive, ghosts, TypeOK
  <2>2. Last' = published[i] /\ call'.payload = published[i] /\ call'.at = "check"
    BY <2>1 DEF Last
  <2>3. CallOwes = 0 /\ HashAfterCall = view.hash
    BY <2>1 DEF CallOwes, HashAfterCall, At, Idle
  <2>4. LastOwes' = 0
    <3>1. call' # Idle
      BY <2>1 DEF Idle
    <3>2. published[i] \notin Oversize => HashAfterCall' = Crc[published[i]]
      BY <3>1, <2>2 DEF HashAfterCall, Idle
    <3> QED
      BY <3>2, <2>2 DEF LastOwes
  <2>5. seen = i => CallOwes' = LastOwes
    <3>1. CallOwes' = IF published[i] \in Oversize \/ view.hash = Crc[published[i]]
                      THEN 0 ELSE 2
      BY <2>1, <2>2 DEF CallOwes, At, Valid, SameHash
    <3>2. seen = i => LastOwes = IF published[i] \in Oversize \/ view.hash = Crc[published[i]]
                                 THEN 0 ELSE 2
      BY <2>1, <2>3 DEF LastOwes, Last
    <3> QED
      BY <3>1, <3>2
  <2>6. CASE seen = i
    BY <2>1, <2>3, <2>4, <2>5, <2>6, <1>b DEF WearInv
  <2>7. CASE seen < i
    BY <2>1, <2>3, <2>4, <2>7, <1>b DEF WearInv
  <2> QED
    BY <2>1, <2>6, <2>7, <1>b
(* A call that ends without a fault leaves the hash it was to leave.       *)
<1>d. ASSUME call' = Idle, UNCHANGED <<published, seen, view, writes, faults>>,
             HashAfterCall = view.hash
      PROVE  WearInv'
  <2>1. CallOwes' = 0
    BY <1>d DEF CallOwes, At, Idle
  <2>2. HashAfterCall' = view.hash
    BY <1>d DEF HashAfterCall, Idle
  <2>3. LastOwes' = LastOwes
    BY <1>d, <2>2 DEF LastOwes, Last
  <2> QED
    BY <2>1, <2>3, <1>b, <1>d DEF WearInv
<1>3. ASSUME Reject \/ Unchanged \/ Commit
      PROVE  WearInv'
  <2>1. call' = Idle /\ UNCHANGED <<published, seen, view, writes, faults>>
    BY <1>3 DEF Reject, Unchanged, Commit, ReturnResult, ghosts, broker
  <2>2. HashAfterCall = view.hash
    BY <1>3, <1>a
    DEF Reject, Unchanged, Commit, CallOK, HashAfterCall, At, Valid, SameHash
  <2> QED
    BY <2>1, <2>2, <1>d
<1>4. ASSUME SetRaw \/ SetHash
      PROVE  WearInv'
  <2>1. call \in [at : {"check", "setHash", "commit"}, payload : Payload]
    BY <1>4, <1>a DEF SetRaw, SetHash, TypeOK, At, Idle
  <2>2. /\ call'.payload = call.payload /\ call # Idle /\ call' # Idle
        /\ call.payload \notin Oversize
    BY <2>1, <1>4, <1>a DEF SetRaw, SetHash, CallOK, At, Valid, Idle
  <2>3. writes' = writes + 1 /\ UNCHANGED <<published, seen, faults>>
    BY <1>4 DEF SetRaw, SetHash, Write, broker
  <2>4. CallOwes' = CallOwes - 1
    <3>1. CASE SetRaw
      <4>1. CallOwes = 2
        BY <3>1 DEF SetRaw, CallOwes
      <4>2. call'.at = "setHash"
        BY <3>1, <2>1 DEF SetRaw
      <4> QED
        BY <4>1, <4>2 DEF CallOwes, At
    <3>2. CASE SetHash
      <4>1. CallOwes = 1
        BY <3>2 DEF SetHash, CallOwes, At
      <4>2. call'.at = "commit"
        BY <3>2, <2>1 DEF SetHash
      <4> QED
        BY <4>1, <4>2 DEF CallOwes, At
    <3> QED
      BY <3>1, <3>2, <1>4
  <2>5. HashAfterCall' = HashAfterCall
    BY <2>2 DEF HashAfterCall, Idle
  <2>6. LastOwes' = LastOwes
    BY <2>3, <2>5 DEF LastOwes, Last
  <2> QED
    BY <2>3, <2>4, <2>6, <1>b DEF WearInv
<1>5. ASSUME NvsError \/ Reset \/ BootErasing
      PROVE  WearInv'
  <2>1. faults' = faults + 1 /\ UNCHANGED <<published, seen, writes>>
    BY <1>5 DEF NvsError, Reset, BootErasing, Fault, ghosts, broker
  <2>2. call' = Idle
    BY <1>5, <1>a DEF NvsError, Reset, BootErasing, ReturnResult, TypeOK
  <2>3. CallOwes' = 0
    BY <2>2 DEF CallOwes, At, Idle
  <2>4. seen' = seen /\ writes' = writes /\ faults' = faults + 1
    BY <2>1
  <2>5. writes + LastOwes' <= 2 * (seen + faults) + 2
    <3>1. LastOwes' \in Nat /\ LastOwes' <= 2
      BY <1>b
    <3>2. writes <= 2 * (seen + faults)
      BY <1>b
    <3>3. writes \in Nat /\ 2 * (seen + faults) \in Nat
      BY <1>b
    <3> QED
      BY <3>1, <3>2, <3>3
  <2>6. writes' + CallOwes' + LastOwes' = writes + LastOwes'
    BY <2>3, <2>4, <1>b
  <2>7. 2 * (seen' + faults') = 2 * (seen + faults) + 2
    BY <2>4, <1>b
  <2> QED
    BY <2>5, <2>6, <2>7 DEF WearInv
<1>6. ASSUME Boot \/ UNCHANGED vars
      PROVE  WearInv'
  <2>1. UNCHANGED <<published, seen, view, call, writes, faults>>
    BY <1>6 DEF Boot, vars, ghosts, broker
  <2>2. CallOwes' = CallOwes /\ LastOwes' = LastOwes
    BY <2>1 DEF CallOwes, LastOwes, HashAfterCall, Last, Idle, At,
                Valid, SameHash
  <2> QED
    BY <2>1, <2>2, <1>b DEF WearInv
<1> QED
  BY <1>1, <1>2, <1>3, <1>4, <1>5, <1>6 DEF Next, Apply

(* However often a retained message is delivered, the flash is written at  *)
(* most twice for each publication and each fault.                         *)
THEOREM WearIsBoundedCorrect == Spec => []WearIsBounded
<1>1. Init => IInv /\ WearInv
  BY InitInvariant
<1>2. IInv /\ WearInv /\ [Next]_vars => IInv' /\ WearInv'
  BY StepInvariant, StepWear
<1>3. IInv /\ WearInv => WearIsBounded
  <2> SUFFICES ASSUME IInv, WearInv
               PROVE  WearIsBounded
    OBVIOUS
  <2>1. writes \in Nat /\ faults \in Nat /\ seen \in 0..Len(published)
    BY DEF IInv, TypeOK
  <2> QED
    BY <2>1, Debts DEF WearInv, WearIsBounded
<1> QED
  BY <1>1, <1>2, <1>3, PTL DEF Spec
-----------------------------------------------------------------------------
(* "Unchanged".  CRCs that tell the configurations apart.                  *)
Distinct == \A p, q \in Payload : Crc[p] = Crc[q] => p = q

(* While no save has been begun since the last complete one, each hash a   *)
(* reset may leave is that of the blob it comes with.                      *)
Matched ==
    /\ ~up => result = NoResult
    /\ attempts = {} =>
        /\ \A s \in survivors : s.hash # None => s.raw # None /\ s.hash = Crc[s.raw]
        /\ UnchangedMeansSaved

(* The writes leave the case at once, and the commit comes back to it.     *)
LEMMA StepMatched ==
    ASSUME Distinct, IInv, Matched, [Next]_vars
    PROVE  Matched'
<1> USE NoneAssumption DEF At, UnchangedMeansSaved, Matched
<1>a. TypeOK /\ CallOK
  BY DEF IInv
<1>b. ~up => call = Idle
  BY <1>a DEF TypeOK
<1>1. CASE (\E p \in Payload : Publish(p)) \/ Boot \/ UNCHANGED vars
  BY <1>1 DEF Publish, Boot, vars, ghosts, broker
<1>2. CASE \E i \in DOMAIN published : Receive(i)
  BY <1>2 DEF Receive, ghosts
<1>3. CASE Reject \/ NvsError
  <2>1. /\ result'.is # "unchanged" /\ up
        /\ UNCHANGED <<view, survivors, up, attempts>>
    BY <1>3, <1>b DEF Reject, NvsError, ReturnResult, ghosts, Idle
  <2> QED
    BY <2>1
<1>4. CASE Unchanged
  <2>1. /\ up /\ view.hash = Crc[call.payload]
        /\ result' = [of |-> call.payload, is |-> "unchanged"]
        /\ UNCHANGED <<view, survivors, up, attempts>>
    BY <1>4, <1>b DEF Unchanged, SameHash, ReturnResult, ghosts, Idle
  <2>2. call.payload \in Payload /\ view \in survivors /\ view \in Contents
    BY <1>4, <1>a DEF Unchanged, TypeOK, Idle
  <2>3. attempts = {} => view.raw # None /\ Crc[view.raw] = Crc[call.payload]
    BY <2>1, <2>2
  <2>4. attempts = {} => view.raw = call.payload
    BY <2>2, <2>3 DEF Distinct, Contents
  <2> QED
    BY <2>1, <2>4
<1>5. CASE SetRaw \/ SetHash
  <2>1. call.payload \in attempts' /\ up /\ up'
    BY <1>5, <1>a, <1>b DEF SetRaw, SetHash, CallOK, Idle
  <2> QED
    BY <2>1
<1>6. CASE Commit
  <2>1. /\ up /\ up' /\ survivors' = {view} /\ result'.is = "changed"
        /\ view.raw = call.payload /\ view.hash = Crc[call.payload]
        /\ call.payload \in Payload
    BY <1>6, <1>a, <1>b DEF Commit, CallOK, ReturnResult, TypeOK, Idle
  <2> QED
    BY <2>1
<1>7. CASE Reset
  <2>1. /\ view' \in survivors /\ survivors' = {view'} /\ result' = NoResult
        /\ UNCHANGED attempts
    BY <1>7 DEF Reset, ghosts
  <2> QED
    BY <2>1 DEF NoResult
<1>8. CASE BootErasing
  <2>1. up' /\ survivors' = {Blank} /\ result' = NoResult
    BY <1>8 DEF BootErasing
  <2> QED
    BY <2>1 DEF NoResult, Blank
<1> QED
  BY <1>1, <1>2, <1>3, <1>4, <1>5, <1>6, <1>7, <1>8 DEF Next, Apply

(* With CRCs that tell the configurations apart, "unchanged" is wrong only *)
(* after a save that was begun and did not end.                            *)
THEOREM UnchangedAfterCompleteSaveCorrect ==
    ASSUME Distinct
    PROVE  Spec => []UnchangedAfterCompleteSave
<1>1. Init => IInv /\ Matched
  <2>1. Init => Matched
    BY DEF Init, Matched, NoResult, Blank, UnchangedMeansSaved
  <2> QED
    BY <2>1, InitInvariant
<1>2. IInv /\ Matched /\ [Next]_vars => IInv' /\ Matched'
  BY StepInvariant, StepMatched
<1>3. Matched => UnchangedAfterCompleteSave
  BY DEF Matched, UnchangedAfterCompleteSave
<1> QED
  BY <1>1, <1>2, <1>3, PTL DEF Spec

-----------------------------------------------------------------------------
(* MqttApp and ConfigPath.                                                 *)

(* The fragment due next starts within its message. *)
InMessage == Arriving => message \in Message /\ offset \in 0..(Size[message] - 1)

(* The bytes of m up to k are in their places in a block for m. *)
Holds(block, m, k) ==
    /\ block = [i \in 1..Size[m] |-> block[i]]
    /\ \A i \in 1..k : block[i] = <<m, i>>

(* Between two fragments the buffer holds the first offset bytes of the    *)
(* message, unless that one was discarded.                                 *)
Partial ==
    Arriving /\ offset > 0 /\ rx_buf # <<>> =>
        rx_len = offset /\ Holds(rx_buf, message, offset)

(* on_data is given a message when its last fragment has come. *)
NotYet == Arriving => handed = <<>>

Reception == InMessage /\ Partial /\ NotYet /\ OnlyWhole

(* The default interface, and the one to be put back. *)
Route ==
    /\ default \in Netif \cup {Nil} /\ found \in Netif \cup {Nil}
    /\ s_client = "none" => via = Nil
    /\ s_client # "none" /\ via = Nil => default = eth /\ previous = found
    /\ via # Nil => previous = Nil /\ default = IF found = Nil THEN eth ELSE found

-----------------------------------------------------------------------------
(* The two ends of the fragment due. *)
LEMMA Ends ==
    ASSUME InMessage, Arriving
    PROVE  /\ Size[message] \in Nat \ {0} /\ offset \in Nat /\ Upto \in Nat
           /\ offset < Upto /\ Upto <= Size[message]
<1>1. Size[message] \in Nat \ {0} /\ offset \in Nat /\ offset < Size[message]
  BY MessageAssumption DEF InMessage
<1> QED
  BY <1>1, MessageAssumption DEF Upto

(* Moving on within a message. *)
LEMMA NextInMessage ==
    ASSUME InMessage, Arriving, NextFragment
    PROVE  /\ InMessage'
           /\ Upto < Size[message] =>
                Arriving' /\ message' = message /\ offset' = Upto
           /\ ~(Upto < Size[message]) => ~Arriving'
<1>1. /\ Size[message] \in Nat \ {0} /\ Upto \in Nat /\ message \in Message
      /\ transfer' = IF Upto < Size[message] THEN <<message, Upto>> ELSE <<>>
  BY Ends DEF NextFragment, InMessage
<1>2. CASE Upto < Size[message]
  <2>1. transfer' = <<message, Upto>>
    BY <1>1, <1>2
  <2>2. Arriving' /\ message' = message /\ offset' = Upto
    BY <2>1 DEF Arriving, message, offset
  <2> QED
    BY <1>1, <1>2, <2>2 DEF InMessage
<1>3. CASE ~(Upto < Size[message])
  BY <1>1, <1>3 DEF InMessage, Arriving
<1> QED
  BY <1>2, <1>3

(* A fragment stored after all those before it keeps the invariant, and    *)
(* completes the message only when it is the last one.                     *)
LEMMA StoreCorrect ==
    ASSUME Reception, Arriving, NEW block, Holds(block, message, offset),
           Store(block, offset)
    PROVE  Reception'
<1> DEFINE m == message
           copied == [i \in DOMAIN block |->
                        IF offset < i /\ i <= Upto THEN <<m, i>> ELSE block[i]]
<1>1. /\ Size[m] \in Nat \ {0} /\ offset \in Nat /\ Upto \in Nat
      /\ offset < Upto /\ Upto <= Size[m]
  BY Ends DEF Reception
<1>2. offset + (Upto - offset) = Upto
  BY <1>1
<1>3. /\ NextFragment
      /\ IF Upto < Size[m]
         THEN rx_buf' = copied /\ rx_len' = Upto /\ UNCHANGED handed
         ELSE rx_buf' = <<>> /\ rx_len' = 0 /\ handed' = <<m, copied, Upto>>
  BY <1>2 DEF Store
<1>4. /\ InMessage'
      /\ Upto < Size[m] => Arriving' /\ message' = m /\ offset' = Upto
      /\ ~(Upto < Size[m]) => ~Arriving'
  BY <1>3, NextInMessage DEF Reception
<1>5. DOMAIN block = 1..Size[m]
  BY DEF Holds
<1>6. /\ copied = [i \in 1..Size[m] |-> copied[i]]
      /\ \A i \in 1..Upto : copied[i] = <<m, i>>
  <2>1. copied = [i \in 1..Size[m] |-> copied[i]]
    BY <1>5
  <2>2. ASSUME NEW i \in 1..Upto
        PROVE  copied[i] = <<m, i>>
    <3>1. i \in 1..Size[m] /\ i <= Upto /\ (~(offset < i) => i \in 1..offset)
      BY <1>1
    <3>2. block[i] = <<m, i>> \/ offset < i
      BY <3>1 DEF Holds
    <3> QED
      BY <1>5, <3>1, <3>2
  <2> QED
    BY <2>1, <2>2
<1> HIDE DEF copied, m
<1>7. CASE Upto < Size[m]
  <2>1. Partial'
    BY <1>3, <1>4, <1>6, <1>7 DEF Partial, Holds
  <2>2. NotYet' /\ OnlyWhole'
    BY <1>3, <1>7 DEF Reception, NotYet, OnlyWhole
  <2> QED
    BY <1>4, <2>1, <2>2 DEF Reception
<1>8. CASE ~(Upto < Size[m])
  <2>1. Upto = Size[m]
    BY <1>1, <1>8
  <2>2. copied = Bytes(m)
    BY <1>6, <2>1 DEF Bytes
  <2>3. handed' = <<m, Bytes(m), Size[m]>>
    BY <1>3, <1>8, <2>1, <2>2
  <2>4. OnlyWhole'
    BY <2>3 DEF OnlyWhole, Bytes
  <2> QED
    BY <1>4, <1>8, <2>4 DEF Reception, Partial, NotYet
<1> QED
  BY <1>7, <1>8

(* No message is on its way at the start. *)
LEMMA ReceptionInit == MqttInit => Reception
BY DEF MqttInit, Reception, InMessage, Partial, NotYet, OnlyWhole, Arriving

(* Every step of the client, its sessions and the broker keeps it.         *)
LEMMA ReceptionStep == Reception /\ [MqttNext]_mqttVars => Reception'
<1> SUFFICES ASSUME Reception, [MqttNext]_mqttVars
             PROVE  Reception'
  OBVIOUS
<1>1. ASSUME UNCHANGED reception
      PROVE  Reception'
  BY <1>1 DEF reception, Reception, InMessage, Partial, NotYet, OnlyWhole, Arriving,
              message, offset, Holds
<1>2. CASE \/ \E n \in Netif \cup {Nil} : StackChooses(n)
          \/ mqtt_app_start \/ Connected \/ ConnectedDeaf
          \/ UNCHANGED mqttVars
  <2>1. UNCHANGED reception
    BY <1>2 DEF StackChooses, mqtt_app_start, StartClient, StartClientFails, ForceDefault,
                Connected, ConnectedDeaf, Connects, mqttVars
  <2> QED
    BY <1>1, <2>1
<1>3. CASE Disconnected
  BY <1>3 DEF Disconnected, Reception, InMessage, Partial, NotYet, OnlyWhole, Arriving
<1>4. ASSUME NEW m \in Message, Send(m)
      PROVE  Reception'
  <2>1. transfer' = <<m, 0>> /\ handed' = <<>>
    BY <1>4 DEF Send
  <2>2. message' = m /\ offset' = 0
    BY <2>1 DEF message, offset
  <2>3. InMessage'
    BY <2>2, MessageAssumption DEF InMessage
  <2> QED
    BY <2>1, <2>2, <2>3 DEF Reception, Partial, NotYet, OnlyWhole
<1>5. CASE DiscardTooLong \/ DiscardNoMemory
  <2>1. Arriving /\ NextFragment /\ rx_buf' = <<>> /\ UNCHANGED handed
    BY <1>5 DEF DiscardTooLong, DiscardNoMemory, Discard
  <2> QED
    BY <2>1, NextInMessage DEF Reception, Partial, NotYet, OnlyWhole
<1>6. CASE Ignore
  <2>1. Arriving /\ NextFragment /\ rx_buf' = <<>> /\ UNCHANGED handed
    BY <1>6 DEF Ignore
  <2> QED
    BY <2>1, NextInMessage DEF Reception, Partial, NotYet, OnlyWhole
<1>7. CASE StoreFirst
  <2>1. Arriving /\ offset = 0 /\ Store(Block(message), offset)
    BY <1>7 DEF StoreFirst
  <2>2. Holds(Block(message), message, offset)
    BY <2>1 DEF Holds, Block
  <2> QED
    BY <2>1, <2>2, StoreCorrect
<1>8. CASE StoreFurther
  <2>1. Arriving /\ offset > 0 /\ rx_buf # <<>> /\ Store(rx_buf, rx_len)
    BY <1>8 DEF StoreFurther
  <2>2. rx_len = offset /\ Holds(rx_buf, message, offset)
    BY <2>1 DEF Reception, Partial
  <2> QED
    BY <2>1, <2>2, StoreCorrect
<1>9. CASE MqttReset
  BY <1>9 DEF MqttReset, Reception, InMessage, Partial, NotYet, OnlyWhole, Arriving
<1> QED
  BY <1>2, <1>3, <1>4, <1>5, <1>6, <1>7, <1>8, <1>9
  DEF MqttNext, mqtt_app_handle_data_event

LEMMA ReceptionInvariant == MqttSpec => []Reception
BY ReceptionInit, ReceptionStep, PTL DEF MqttSpec

(* Whatever is lost, too long or finds no memory, for any lengths and      *)
(* limits, on_data is given whole messages only.                           *)
THEOREM OnlyWholeCorrect == MqttSpec => []OnlyWhole
<1>1. Reception => OnlyWhole
  BY DEF Reception
<1> QED
  BY <1>1, ReceptionInvariant, PTL

(* No fragment is ever written outside the block its message was given.    *)
THEOREM CopiesInsideCorrect == MqttSpec => []CopiesInside
<1>1. Reception => CopiesInside
  <2> SUFFICES ASSUME Reception, Arriving, offset > 0, rx_buf # <<>>
               PROVE  Upto \in DOMAIN rx_buf
    BY DEF CopiesInside
  <2>1. DOMAIN rx_buf = 1..Size[message]
    BY DEF Reception, Partial, Holds
  <2> QED
    BY <2>1, Ends DEF Reception
<1> QED
  BY <1>1, ReceptionInvariant, PTL

-----------------------------------------------------------------------------
(* The default interface before, during and after the first session.       *)
LEMMA RouteStep == Route /\ [MqttNext]_mqttVars => Route'
<1> SUFFICES ASSUME Route, [MqttNext]_mqttVars
             PROVE  Route'
  OBVIOUS
<1> USE NetifAssumption
<1>1. CASE \E n \in Netif \cup {Nil} : StackChooses(n)
  BY <1>1 DEF StackChooses, Route
<1>2. CASE mqtt_app_start
  BY <1>2 DEF mqtt_app_start, StartClient, StartClientFails, ForceDefault, Route
<1>3. CASE Connected \/ ConnectedDeaf
  <2>1. /\ s_client = "started" /\ via' = default /\ previous' = Nil
        /\ default' = IF previous = Nil THEN default ELSE previous
        /\ UNCHANGED <<s_client, found>>
    BY <1>3 DEF Connected, ConnectedDeaf, Connects
  <2>2. CASE via = Nil
    BY <2>1, <2>2 DEF Route
  <2>3. CASE via # Nil
    BY <2>1, <2>3 DEF Route
  <2> QED
    BY <2>2, <2>3
<1>4. CASE MqttReset
  BY <1>4 DEF MqttReset, Route
<1>5. CASE \/ Disconnected \/ \E m \in Message : Send(m)
          \/ mqtt_app_handle_data_event \/ UNCHANGED mqttVars
  <2>1. UNCHANGED <<s_client, route>>
    BY <1>5 DEF Disconnected, Send, mqtt_app_handle_data_event, DiscardTooLong,
                DiscardNoMemory, Discard, Ignore, StoreFirst, StoreFurther, Store,
                NextFragment, mqttVars
  <2> QED
    BY <2>1 DEF route, Route
<1> QED
  BY <1>1, <1>2, <1>3, <1>4, <1>5 DEF MqttNext

(* The first session goes by ETH1 whatever the links do; after it the      *)
(* default is the earlier one, or ETH1 when there was none.                *)
THEOREM DefaultRouteCorrect == MqttSpec => []DefaultRoute
<1>1. MqttInit => Route
  BY DEF MqttInit, Route
<1>2. Route => DefaultRoute
  BY DEF Route, DefaultRoute
<1> QED
  BY <1>1, <1>2, RouteStep, PTL DEF MqttSpec

-----------------------------------------------------------------------------
(* ConfigPath.  What the session has sent lies between what device_config  *)
(* has seen and what is published, and there is no session before the      *)
(* device is up.                                                           *)
Path ==
    /\ published \in Seq(Payload) /\ seen \in 0..Len(published) /\ next \in Nat \ {0}
    /\ s_client # "none" => up
    /\ s_client = "none" => session = "down"
    /\ session # "up" => ~Arriving
    /\ session = "up" => seen <= next
    /\ Arriving =>
        /\ next - 1 \in DOMAIN published /\ seen <= next - 1
        /\ message = published[next - 1]

PathInv == Path /\ Reception

(* Every step of the path is one of MqttApp, or none of its own.           *)
LEMMA PathIsMqtt == Path /\ [PathNext]_pathVars => [MqttNext]_mqttVars
<1> SUFFICES ASSUME Path, [PathNext]_pathVars
             PROVE  [MqttNext]_mqttVars
  OBVIOUS
<1>1. CASE \/ \E p \in Payload : PathPublish(p)
          \/ PathApply \/ PathBoot \/ UNCHANGED pathVars
  BY <1>1 DEF PathPublish, PathApply, PathBoot, pathVars
<1>2. CASE PathReset \/ PathStart \/ Subscribes \/ SessionEnds \/ SessionLost
  BY <1>2 DEF PathReset, PathStart, mqtt_app_start, Subscribes, SessionEnds, SessionLost,
              MqttNext
<1>3. CASE BrokerSends
  <2>1. published[next] \in Message
    BY <1>3, PathAssumption DEF BrokerSends, Path
  <2> QED
    BY <1>3, <2>1 DEF BrokerSends, MqttNext
<1>4. CASE PathFragment \/ PathNoMemory \/ PathComplete
  BY <1>4 DEF PathFragment, PathNoMemory, PathComplete, MqttNext, mqtt_app_handle_data_event
<1> QED
  BY <1>1, <1>2, <1>3, <1>4 DEF PathNext

(* A fragment moves within its message or ends it, and nothing else. *)
LEMMA FragmentStep ==
    ASSUME Reception, mqtt_app_handle_data_event
    PROVE  /\ Arriving /\ UNCHANGED <<s_client, session>>
           /\ Arriving' => message' = message
<1>1. Arriving /\ NextFragment
  BY DEF mqtt_app_handle_data_event, DiscardTooLong, DiscardNoMemory, Discard, Ignore,
         StoreFirst, StoreFurther, Store
<1> QED
  BY <1>1, NextInMessage DEF Reception, NextFragment

(* A fragment that completes a message gives it to on_data. *)
LEMMA Handed ==
    ASSUME Reception, StoreFirst \/ StoreFurther, handed' # <<>>
    PROVE  handed'[1] = message
BY DEF StoreFirst, StoreFurther, Store, Reception, NotYet

(* The session and the reset. *)
LEMMA PathStep == PathInv /\ [PathNext]_pathVars => Path'
<1> SUFFICES ASSUME PathInv, [PathNext]_pathVars
             PROVE  Path'
  OBVIOUS
<1>a. Path /\ Reception
  BY DEF PathInv
<1>b. Len(published) \in Nat /\ DOMAIN published = 1..Len(published)
  BY <1>a DEF Path
<1>1. ASSUME NEW p \in Payload, PathPublish(p)
      PROVE  Path'
  <2>1. /\ published' = Append(published, p) /\ UNCHANGED <<seen, up, next>>
        /\ UNCHANGED <<s_client, session, transfer>>
    BY <1>1 DEF PathPublish, Publish, mqttVars, reception
  <2>2. /\ published' \in Seq(Payload) /\ Len(published') = Len(published) + 1
        /\ \A i \in DOMAIN published : i \in DOMAIN published' /\ published'[i] = published[i]
    BY <2>1, <1>a DEF Path
  <2> QED
    BY <2>1, <2>2, <1>a, <1>b DEF Path, Arriving, message
<1>2. CASE PathApply \/ UNCHANGED pathVars
  <2>1. UNCHANGED <<published, seen, up, next, s_client, session, transfer>>
    BY <1>2 DEF PathApply, Apply, NvsError, Reject, Unchanged, SetRaw, SetHash, Commit,
                broker, vars, pathVars, mqttVars, reception
  <2> QED
    BY <2>1, <1>a DEF Path, Arriving, message
<1>3. CASE PathBoot
  <2>1. UNCHANGED <<published, seen, next, s_client, session, transfer>> /\ up'
    BY <1>3 DEF PathBoot, Boot, BootErasing, broker, mqttVars, reception
  <2> QED
    BY <2>1, <1>a DEF Path, Arriving, message
<1>4. CASE PathReset
  BY <1>4, <1>a DEF PathReset, Reset, MqttReset, broker, Path, Arriving
<1>5. CASE PathStart
  BY <1>5, <1>a DEF PathStart, StartClient, StartClientFails, ForceDefault, reception, vars,
                    Path, Arriving, message
<1>6. CASE Subscribes
  <2>1. /\ next' = IF published = <<>> THEN 1 ELSE Len(published)
        /\ s_client = "started" /\ session = "down" /\ session' \in {"up", "deaf"}
        /\ UNCHANGED <<published, seen, up, s_client, transfer>>
    BY <1>6 DEF Subscribes, Connected, ConnectedDeaf, Connects, reception, vars
  <2>2. next' \in Nat \ {0} /\ seen <= next'
    BY <2>1, <1>a, <1>b DEF Path
  <2> QED
    BY <2>1, <2>2, <1>a DEF Path, Arriving
<1>7. CASE SessionEnds \/ SessionLost
  <2>1. /\ next' = 1 /\ session' = "down" /\ transfer' = <<>>
        /\ UNCHANGED <<published, seen, up, s_client>>
    BY <1>7 DEF SessionEnds, SessionLost, Disconnected, vars
  <2> QED
    BY <2>1, <1>a DEF Path, Arriving
<1>8. CASE BrokerSends
  <2>1. /\ next \in DOMAIN published /\ session = "up" /\ transfer' = <<published[next], 0>>
        /\ next' = next + 1
        /\ UNCHANGED <<published, seen, up, s_client, session>>
    BY <1>8 DEF BrokerSends, Send, vars
  <2>2. next' - 1 = next /\ next' \in Nat \ {0} /\ seen <= next' - 1 /\ seen <= next'
    BY <2>1, <1>a DEF Path
  <2> QED
    BY <2>1, <2>2, <1>a DEF Path, Arriving, message
<1>9. CASE PathFragment \/ PathNoMemory
  <2>1. mqtt_app_handle_data_event /\ UNCHANGED <<published, seen, up, next>>
    BY <1>9 DEF PathFragment, PathNoMemory, mqtt_app_handle_data_event, vars
  <2> QED
    BY <2>1, <1>a, FragmentStep DEF Path
<1>10. CASE PathComplete
  <2>1. /\ mqtt_app_handle_data_event /\ seen' = next - 1
        /\ UNCHANGED <<published, up, next>>
    BY <1>10 DEF PathComplete, mqtt_app_handle_data_event
  <2>2. /\ Arriving /\ UNCHANGED <<s_client, session>>
        /\ Arriving' => message' = message
    BY <2>1, <1>a, FragmentStep
  <2>3. next \in Nat \ {0} /\ next - 1 \in DOMAIN published /\ session = "up"
    BY <2>2, <1>a DEF Path
  <2>4. seen' \in 0..Len(published) /\ seen' <= next - 1 /\ seen' <= next
    BY <2>1, <2>3, <1>b
  <2>5. next' - 1 \in DOMAIN published' /\ seen' <= next' - 1 /\ seen' <= next'
    BY <2>1, <2>3, <2>4
  <2>6. Arriving' => message' = published'[next' - 1]
    BY <2>1, <2>2, <1>a DEF Path
  <2> QED
    BY <2>1, <2>2, <2>3, <2>4, <2>5, <2>6, <1>a DEF Path
<1> QED
  BY <1>1, <1>2, <1>3, <1>4, <1>5, <1>6, <1>7, <1>8, <1>9, <1>10 DEF PathNext

LEMMA PathInvariant == PathSpec => []PathInv
<1>1. PathInit => PathInv
  <2> SUFFICES ASSUME PathInit
               PROVE  PathInv
    OBVIOUS
  <2>1. Path
    BY DEF PathInit, Init, MqttInit, Path, Arriving
  <2> QED
    BY <2>1, ReceptionInit DEF PathInit, PathInv
<1>2. PathInv /\ [PathNext]_pathVars => PathInv'
  BY PathStep, PathIsMqtt, ReceptionStep DEF PathInv
<1> QED
  BY <1>1, <1>2, PTL DEF PathSpec

(* The messages that reach device_config through sessions lost at any      *)
(* point, failed subscriptions, lack of memory and resets are whole        *)
(* publications in their order, given to it after its initialisation.      *)
THEOREM ImplementsDeviceConfigCorrect == PathSpec => ImplementsDeviceConfig
<1>1. PathInit => Init
  BY DEF PathInit
<1>2. PathInv /\ [PathNext]_pathVars => [Next]_vars
  <2> SUFFICES ASSUME PathInv, [PathNext]_pathVars
               PROVE  [Next]_vars
    OBVIOUS
  <2>1. CASE \/ \E p \in Payload : PathPublish(p)
            \/ PathApply \/ PathBoot \/ PathReset
    BY <2>1 DEF PathPublish, PathApply, PathBoot, PathReset, Next
  <2>2. CASE \/ PathStart \/ Subscribes \/ SessionEnds \/ SessionLost
            \/ BrokerSends \/ PathFragment \/ PathNoMemory \/ UNCHANGED pathVars
    BY <2>2 DEF PathStart, Subscribes, SessionEnds, SessionLost, BrokerSends, PathFragment,
                PathNoMemory, pathVars
  <2>3. CASE PathComplete
    <3>1. Arriving /\ handed'[1] = message
      BY <2>3, FragmentStep, Handed DEF PathComplete, PathInv, mqtt_app_handle_data_event
    <3>2. /\ up /\ next - 1 \in DOMAIN published /\ seen <= next - 1
          /\ message = published[next - 1]
      BY <3>1 DEF PathInv, Path
    <3>3. Receive(next - 1)
      BY <2>3, <3>1, <3>2 DEF PathComplete, Receive, Free
    <3> QED
      BY <3>2, <3>3 DEF Next
  <2> QED
    BY <2>1, <2>2, <2>3 DEF PathNext
<1> QED
  BY <1>1, <1>2, PathInvariant, PTL DEF PathSpec, ImplementsDeviceConfig, Spec

(* The path is a user of the client: each of its steps is one of MqttApp   *)
(* or none of its own, so messages are whole on it too.                    *)
THEOREM PathImplementsMqtt == PathSpec => MqttSpec /\ []OnlyWhole
<1>1. PathInit => MqttInit
  BY DEF PathInit
<1>2. PathInv => Path
  BY DEF PathInv
<1> QED
  BY <1>1, <1>2, PathIsMqtt, PathInvariant, OnlyWholeCorrect, PTL DEF PathSpec, MqttSpec

(* So whatever is lost on the way, what is proved of DeviceConfig holds of *)
(* the whole path: what was reported as saved survives, no reset leaves a  *)
(* hash without its blob, and redeliveries after any number of sessions do *)
(* not wear the flash.                                                     *)
THEOREM PathSavesDurably ==
    PathSpec => [](TypeOK /\ HashComesWithRaw /\ SavedIsDurable /\ WearIsBounded)
<1>1. PathSpec => Spec
  BY ImplementsDeviceConfigCorrect DEF ImplementsDeviceConfig
<1> QED
  BY <1>1, TypeCorrect, HashComesWithRawCorrect, SavedIsDurableCorrect,
     WearIsBoundedCorrect, PTL

(* And, without two configurations of one CRC: a configuration that came   *)
(* again over MQTT and was reported as unchanged is the one in flash, once *)
(* a save is complete and until the next one begins.                       *)
THEOREM PathUnchangedAfterCompleteSave ==
    ASSUME Distinct
    PROVE  PathSpec => []UnchangedAfterCompleteSave
<1>1. PathSpec => Spec
  BY ImplementsDeviceConfigCorrect DEF ImplementsDeviceConfig
<1>2. Spec => []UnchangedAfterCompleteSave
  BY UnchangedAfterCompleteSaveCorrect
<1> QED
  BY <1>1, <1>2, PTL
=============================================================================
