--------------------------- MODULE EventLoopProofs ---------------------------
(***************************************************************************)
(* Theorems about EventLoop for any number of posting tasks, any heap and  *)
(* any queue size.  Ownership is inductive only together with the types    *)
(* and with CallOK, which ties a call's copy to the buffer it was given.   *)
(***************************************************************************)
EXTENDS EventLoop, TLAPS

(* A call that holds a copy is in progress, its buffer is not empty, and   *)
(* the copy is of that buffer.                                             *)
CallOK ==
    \A p \in Producer :
        copy[p] # Nil => rx[p] \notin {Nil, Empty} /\ mem[copy[p]] = rx[p]

IInv == TypeOK /\ Ownership /\ CallOK

(* The state app_main leaves the loop in satisfies the invariant.          *)
LEMMA InitInvariant == Init => IInv
BY QueueSizeAssumption, NilAssumption
DEF Init, IInv, TypeOK, Ownership, NoLeak, SingleHolder, CallOK, Held, Queued

(* Appending keeps the old elements and adds one.                          *)
LEMMA AppendElements ==
    ASSUME NEW S, NEW s \in Seq(S), NEW e \in S
    PROVE  /\ Append(s, e) \in Seq(S)
           /\ Len(Append(s, e)) = Len(s) + 1
           /\ DOMAIN Append(s, e) = 1..(Len(s) + 1)
           /\ \A i \in DOMAIN s : Append(s, e)[i] = s[i]
           /\ Append(s, e)[Len(s) + 1] = e
OBVIOUS

(* The tail of a non-empty sequence is the sequence shifted by one.        *)
LEMMA TailElements ==
    ASSUME NEW S, NEW s \in Seq(S), s # <<>>
    PROVE  /\ Head(s) \in S
           /\ Head(s) = s[1]
           /\ Len(s) \in Nat /\ Len(s) >= 1
           /\ Tail(s) \in Seq(S)
           /\ Len(Tail(s)) = Len(s) - 1
           /\ DOMAIN Tail(s) = 1..(Len(s) - 1)
           /\ \A i \in DOMAIN Tail(s) : i + 1 \in DOMAIN s /\ Tail(s)[i] = s[i + 1]
OBVIOUS

(* Every step preserves types, ownership and the tie between a call's copy *)
(* and its buffer.                                                         *)
LEMMA StepInvariant == IInv /\ [Next]_vars => IInv'
<1> SUFFICES ASSUME IInv, [Next]_vars
             PROVE  IInv'
  OBVIOUS
<1> USE QueueSizeAssumption, NilAssumption, EmptyAssumption
<1>a. TypeOK /\ NoLeak /\ SingleHolder /\ CallOK
  BY DEF IInv, Ownership
<1>1. ASSUME NEW p \in Producer, NEW d \in Data, Call(p, d)
      PROVE  IInv'
  BY <1>a, <1>1
  DEF Call, IInv, TypeOK, Ownership, NoLeak, SingleHolder, CallOK, Held, Queued
<1>2. ASSUME NEW p \in Producer, ReturnEmpty(p) \/ NoMemory(p)
      PROVE  IInv'
  <2>1. copy[p] = Nil
    BY <1>a, <1>2 DEF ReturnEmpty, NoMemory, CallOK
  <2>2. copy' = copy /\ UNCHANGED <<mem, queue, running>>
    BY <2>1, <1>a, <1>2 DEF ReturnEmpty, NoMemory, Return, TypeOK
  <2>3. rx' = [rx EXCEPT ![p] = Nil]
    BY <1>2 DEF ReturnEmpty, NoMemory, Return
  <2> QED
    BY <2>1, <2>2, <2>3, <1>a
    DEF IInv, TypeOK, Ownership, NoLeak, SingleHolder, CallOK, Held, Queued
<1>3. ASSUME NEW p \in Producer, NEW a \in Addr, Copy(p, a)
      PROVE  IInv'
  <2>1. ~Held(a) /\ ~Queued(a) /\ running # a
    BY <1>a, <1>3 DEF NoLeak, Copy
  <2>2. TypeOK'
    BY <1>a, <1>3 DEF Copy, TypeOK
  <2>3. NoLeak'
    BY <1>a, <1>3 DEF Copy, TypeOK, NoLeak, Held, Queued
  <2>4. SingleHolder'
    BY <1>a, <1>3, <2>1 DEF Copy, TypeOK, SingleHolder, Held, Queued
  <2>5. CallOK'
    BY <1>a, <1>3, <2>1 DEF Copy, TypeOK, CallOK, Held
  <2> QED
    BY <2>2, <2>3, <2>4, <2>5 DEF IInv, Ownership
<1>4. ASSUME NEW p \in Producer, Post(p)
      PROVE  IInv'
  <2> DEFINE c == copy[p]
  <2>1. c \in Addr /\ Held(c) /\ mem[c] # Nil /\ ~Queued(c) /\ running # c
    BY <1>a, <1>4 DEF Post, TypeOK, Held, NoLeak, SingleHolder
  <2>2. /\ queue' \in Seq(Addr)
        /\ Len(queue') = Len(queue) + 1
        /\ DOMAIN queue' = 1..(Len(queue) + 1)
        /\ DOMAIN queue = 1..Len(queue)
        /\ \A i \in DOMAIN queue : queue'[i] = queue[i]
        /\ queue'[Len(queue) + 1] = c
        /\ Len(queue) \in Nat
    BY <2>1, <1>a, <1>4, AppendElements DEF Post, TypeOK
  <2>3. \A a \in Addr : Queued(a)' <=> Queued(a) \/ a = c
    BY <2>2 DEF Queued
  <2>4. \A a \in Addr : Held(a)' <=> Held(a) /\ a # c
    BY <2>1, <1>a, <1>4 DEF Post, Return, TypeOK, Held, SingleHolder
  <2>5. UNCHANGED <<mem, running>>
    BY <1>4 DEF Post
  <2>6. TypeOK'
    BY <2>2, <2>5, <1>a, <1>4 DEF Post, Room, Return, TypeOK
  <2>7. NoLeak'
    BY <2>1, <2>3, <2>4, <2>5, <1>a DEF NoLeak
  <2>8. SingleHolder'
    <3>1. \A i, j \in DOMAIN queue' : queue'[i] = queue'[j] => i = j
      BY <2>1, <2>2, <1>a DEF SingleHolder, Queued
    <3>2. \A r, q \in Producer : copy'[r] = copy'[q] /\ copy'[r] # Nil => r = q
      BY <1>a, <1>4 DEF Post, Return, TypeOK, SingleHolder
    <3>3. \A a \in Addr : ~(Held(a)' /\ Queued(a)')
      BY <2>3, <2>4, <1>a DEF SingleHolder
    <3>4. running' # Nil => ~Held(running)' /\ ~Queued(running)'
      <4> SUFFICES ASSUME running # Nil
                   PROVE  ~Held(running)' /\ ~Queued(running)'
        BY <2>5
      <4>1. running \in Addr /\ ~Held(running) /\ ~Queued(running)
        BY <1>a DEF TypeOK, SingleHolder
      <4>2. running' = running
        BY <2>5
      <4> QED
        BY <4>1, <4>2, <2>1, <2>3, <2>4 DEF Held, Queued
    <3> QED
      BY <3>1, <3>2, <3>3, <3>4 DEF SingleHolder
  <2>9. CallOK'
    BY <2>5, <1>a, <1>4 DEF Post, Return, TypeOK, CallOK
  <2> QED
    BY <2>6, <2>7, <2>8, <2>9 DEF IInv, Ownership
<1>5. ASSUME NEW p \in Producer, PostTimeout(p) \/ PostNoMemory(p)
      PROVE  IInv'
  <2> DEFINE c == copy[p]
  <2>1. /\ c # Nil
        /\ mem' = [mem EXCEPT ![c] = Nil]
        /\ rx' = [rx EXCEPT ![p] = Nil]
        /\ copy' = [copy EXCEPT ![p] = Nil]
        /\ UNCHANGED <<queue, running>>
    BY <1>5 DEF PostTimeout, PostNoMemory, Free, Return
  <2>2. c \in Addr /\ ~Queued(c) /\ running # c
    BY <2>1, <1>a DEF TypeOK, Held, SingleHolder
  <2>3. TypeOK'
    BY <2>1, <1>a DEF TypeOK
  <2>4. \A q \in Producer : q # p => copy[q] # c
    BY <2>1, <1>a DEF SingleHolder
  <2>5. NoLeak'
    BY <2>1, <2>2, <2>4, <1>a DEF TypeOK, NoLeak, Held, Queued
  <2>6. SingleHolder'
    BY <2>1, <1>a DEF TypeOK, SingleHolder, Held, Queued
  <2>7. CallOK'
    BY <2>1, <2>4, <1>a DEF TypeOK, CallOK
  <2> QED
    BY <2>3, <2>5, <2>6, <2>7 DEF IInv, Ownership
<1>6. ASSUME Dispatch
      PROVE  IInv'
  <2>1. /\ Head(queue) \in Addr
        /\ Head(queue) = queue[1]
        /\ Len(queue) \in Nat /\ Len(queue) >= 1
        /\ DOMAIN queue = 1..Len(queue)
        /\ queue' \in Seq(Addr)
        /\ Len(queue') = Len(queue) - 1
        /\ DOMAIN queue' = 1..(Len(queue) - 1)
        /\ \A i \in DOMAIN queue' : i + 1 \in DOMAIN queue /\ queue'[i] = queue[i + 1]
    BY <1>a, <1>6, TailElements DEF Dispatch, TypeOK
  <2>2. running = Nil /\ running' = queue[1] /\ UNCHANGED <<mem, rx, copy>>
    BY <2>1, <1>6 DEF Dispatch
  <2>3. TypeOK'
    BY <2>1, <2>2, <1>a DEF TypeOK
  <2>4. \A a \in Addr : Queued(a) <=> Queued(a)' \/ a = queue[1]
    <3> SUFFICES ASSUME NEW a \in Addr
                 PROVE  Queued(a) <=> Queued(a)' \/ a = queue[1]
      OBVIOUS
    <3>1. ASSUME NEW i \in DOMAIN queue, queue[i] = a, i # 1
          PROVE  Queued(a)'
      <4>1. i - 1 \in DOMAIN queue' /\ (i - 1) + 1 = i
        BY <2>1, <3>1
      <4>2. queue'[i - 1] = queue[i]
        BY <2>1, <4>1
      <4> QED
        BY <3>1, <4>1, <4>2 DEF Queued
    <3>2. Queued(a)' => Queued(a)
      BY <2>1 DEF Queued
    <3> QED
      BY <3>1, <3>2, <2>1 DEF Queued
  <2>5. \A i \in DOMAIN queue' : queue'[i] # queue[1]
    BY <2>1, <1>a DEF SingleHolder
  <2>6. NoLeak'
    BY <2>2, <2>4, <1>a DEF NoLeak, Held
  <2>7. SingleHolder'
    <3>1. \A i, j \in DOMAIN queue' : queue'[i] = queue'[j] => i = j
      <4> SUFFICES ASSUME NEW i \in DOMAIN queue', NEW j \in DOMAIN queue',
                          queue'[i] = queue'[j]
                   PROVE  i = j
        OBVIOUS
      <4>1. i + 1 \in DOMAIN queue /\ j + 1 \in DOMAIN queue /\ queue[i + 1] = queue[j + 1]
        BY <2>1
      <4>2. i + 1 = j + 1
        BY <4>1, <1>a DEF SingleHolder
      <4> QED
        BY <4>2, <2>1
    <3>2. \A p, q \in Producer : copy'[p] = copy'[q] /\ copy'[p] # Nil => p = q
      BY <2>2, <1>a DEF SingleHolder
    <3>3. \A a \in Addr : ~(Held(a)' /\ Queued(a)')
      BY <2>2, <2>4, <1>a DEF SingleHolder, Held
    <3>4. ~Held(running)' /\ ~Queued(running)'
      <4>1. Queued(queue[1]) /\ ~Held(queue[1])
        BY <2>1, <1>a DEF SingleHolder, Queued
      <4> QED
        BY <4>1, <2>2, <2>5 DEF Held, Queued
    <3> QED
      BY <3>1, <3>2, <3>3, <3>4 DEF SingleHolder
  <2>8. CallOK'
    BY <2>2, <1>a DEF CallOK
  <2> QED
    BY <2>3, <2>6, <2>7, <2>8 DEF IInv, Ownership
<1>7. ASSUME Release
      PROVE  IInv'
  <2>1. running \in Addr /\ ~Held(running) /\ ~Queued(running)
    BY <1>a, <1>7 DEF Release, TypeOK, SingleHolder
  <2>2. /\ mem' = [mem EXCEPT ![running] = Nil]
        /\ running' = Nil
        /\ UNCHANGED <<rx, copy, queue>>
    BY <1>7 DEF Release, Free
  <2> QED
    BY <2>1, <2>2, <1>a
    DEF IInv, TypeOK, Ownership, NoLeak, SingleHolder, CallOK, Held, Queued
<1>8. CASE UNCHANGED vars
  BY <1>a, <1>8
  DEF vars, IInv, TypeOK, Ownership, NoLeak, SingleHolder, CallOK, Held, Queued
<1> QED
  BY <1>1, <1>2, <1>3, <1>4, <1>5, <1>6, <1>7, <1>8 DEF Next, CallStep

(* The invariant holds in every reachable state.                           *)
LEMMA Invariant == Spec => []IInv
<1>1. Init => IInv
  BY InitInvariant
<1>2. IInv /\ [Next]_vars => IInv'
  BY StepInvariant
<1> QED
  BY <1>1, <1>2, PTL DEF Spec

(* The state keeps its types and the queue never grows past the size it    *)
(* was created with.                                                       *)
THEOREM TypeCorrect == Spec => []TypeOK
<1>1. IInv => TypeOK
  BY DEF IInv
<1> QED
  BY <1>1, Invariant, PTL

(* Whatever the interleaving of calls, timeouts, allocation failures and   *)
(* handlers, every heap copy has exactly one owner until it is freed: no   *)
(* leak, no double free, no use after free.                                *)
THEOREM OwnershipCorrect == Spec => []Ownership
<1>1. IInv => Ownership
  BY DEF IInv
<1> QED
  BY <1>1, Invariant, PTL

-----------------------------------------------------------------------------
(* What the queue shows through the mapping: the contents of its blocks.   *)
Contents == [i \in DOMAIN queue |-> mem[queue[i]]]

(* The mapping is a sequence of data of the same length.                   *)
LEMMA ContentsType ==
    ASSUME IInv
    PROVE  /\ Contents \in Seq(Data \cup {Nil})
           /\ DOMAIN Contents = 1..Len(queue)
           /\ Len(Contents) = Len(queue)
           /\ Len(queue) \in Nat
<1>1. queue \in Seq(Addr) /\ mem \in [Addr -> Data \cup {Nil}]
  BY DEF IInv, TypeOK
<1>2. Len(queue) \in Nat /\ DOMAIN queue = 1..Len(queue)
  BY <1>1
<1>3. Contents \in [1..Len(queue) -> Data \cup {Nil}]
  BY <1>1, <1>2 DEF Contents
<1> QED
  BY <1>2, <1>3

(* Two sequences with the same length and elements are equal.              *)
LEMMA SameElements ==
    ASSUME NEW S, NEW s \in Seq(S), NEW t \in Seq(S), Len(s) = Len(t),
           \A i \in 1..Len(s) : s[i] = t[i]
    PROVE  s = t
OBVIOUS

(* The state the loop starts in is the empty channel.                      *)
LEMMA InitMaps == Init => Channel!Init
<1> SUFFICES ASSUME Init
             PROVE  Channel!Init
  OBVIOUS
<1>1. queue = <<>> /\ DOMAIN queue = {}
  BY DEF Init
<1>2. Contents = <<>>
  BY <1>1 DEF Contents
<1> QED
  BY <1>2 DEF Init, Channel!Init, Content, Contents

(* Every step of the loop is a step of the channel or leaves it unchanged. *)
LEMMA StepMaps == IInv /\ [Next]_vars => [Channel!Next]_(Channel!vars)
<1> SUFFICES ASSUME IInv, [Next]_vars
             PROVE  Channel!Next \/ UNCHANGED <<rx, Contents, Content(running)>>
  BY DEF Channel!vars, Contents
<1> USE NilAssumption, EmptyAssumption
<1>a. TypeOK /\ NoLeak /\ SingleHolder /\ CallOK /\ IInv'
  BY StepInvariant DEF IInv, Ownership
<1>b. /\ Contents \in Seq(Data \cup {Nil})
      /\ DOMAIN Contents = 1..Len(queue) /\ DOMAIN queue = 1..Len(queue)
      /\ Len(Contents) = Len(queue)
      /\ Len(queue) \in Nat
  BY <1>a, ContentsType DEF TypeOK
<1>c. /\ Contents' \in Seq(Data \cup {Nil})
      /\ DOMAIN Contents' = 1..Len(queue')
      /\ Len(Contents') = Len(queue')
      /\ Len(queue') \in Nat
  <2>1. TypeOK'
    BY <1>a DEF IInv
  <2>2. queue' \in Seq(Addr) /\ mem' \in [Addr -> Data \cup {Nil}]
    BY <2>1 DEF TypeOK
  <2>3. Len(queue') \in Nat /\ DOMAIN queue' = 1..Len(queue')
    BY <2>2
  <2>4. Contents' \in [1..Len(queue') -> Data \cup {Nil}]
    BY <2>2, <2>3 DEF Contents
  <2> QED
    BY <2>3, <2>4
<1>d. \A a \in Addr : Queued(a) \/ running = a => mem[a] # Nil
  BY <1>a DEF NoLeak
(* A step that leaves the queue, the running event and their blocks alone  *)
(* leaves the channel's two variables alone.                               *)
<1>e. ASSUME UNCHANGED <<queue, running>>,
             \A a \in Addr : Queued(a) \/ running = a => mem'[a] = mem[a]
      PROVE  UNCHANGED <<Contents, Content(running)>>
  <2>1. \A i \in DOMAIN queue : mem'[queue[i]] = mem[queue[i]]
    BY <1>e, <1>a DEF TypeOK, Queued
  <2>2. Contents' = Contents
    BY <1>e, <2>1 DEF Contents
  <2>3. Content(running)' = Content(running)
    BY <1>e, <1>a DEF Content, TypeOK
  <2> QED
    BY <2>2, <2>3
<1>1. ASSUME NEW p \in Producer, NEW d \in Data, Call(p, d)
      PROVE  Channel!Next
  <2>1. UNCHANGED <<Contents, Content(running)>>
    BY <1>1, <1>e DEF Call
  <2> QED
    BY <2>1, <1>1 DEF Call, Channel!Next, Channel!Call, Contents
<1>2. ASSUME NEW p \in Producer, ReturnEmpty(p) \/ NoMemory(p)
      PROVE  Channel!Next
  <2>1. UNCHANGED <<Contents, Content(running)>>
    BY <1>2, <1>e DEF ReturnEmpty, NoMemory
  <2>2. rx[p] # Nil /\ rx' = [rx EXCEPT ![p] = Nil]
    BY <1>2 DEF ReturnEmpty, NoMemory, Return
  <2> QED
    BY <2>1, <2>2 DEF Channel!Next, Channel!Drop, Contents
<1>3. ASSUME NEW p \in Producer, NEW a \in Addr, Copy(p, a)
      PROVE  UNCHANGED <<rx, Contents, Content(running)>>
  <2>1. ~Queued(a) /\ running # a
    BY <1>3, <1>d DEF Copy
  <2>2. UNCHANGED <<Contents, Content(running)>>
    BY <2>1, <1>3, <1>a, <1>e DEF Copy, TypeOK
  <2> QED
    BY <2>2, <1>3 DEF Copy
<1>4. ASSUME NEW p \in Producer, Post(p)
      PROVE  Channel!Next
  <2>1. /\ copy[p] \in Addr
        /\ rx[p] \notin {Nil, Empty}
        /\ mem[copy[p]] = rx[p]
    BY <1>4, <1>a DEF Post, TypeOK, CallOK
  <2>2. /\ Len(queue') = Len(queue) + 1
        /\ \A i \in DOMAIN queue : queue'[i] = queue[i]
        /\ queue'[Len(queue) + 1] = copy[p]
    BY <2>1, <1>4, <1>a, AppendElements DEF Post, TypeOK
  <2>3. UNCHANGED <<mem, running>>
    BY <1>4 DEF Post
  <2>4. Contents' = Append(Contents, rx[p])
    <3> DEFINE t == Append(Contents, rx[p])
    <3>1. rx[p] \in Data \cup {Nil}
      BY <1>a DEF TypeOK
    <3>2. /\ t \in Seq(Data \cup {Nil})
          /\ Len(t) = Len(queue) + 1
          /\ \A i \in 1..Len(queue) : t[i] = Contents[i]
          /\ t[Len(queue) + 1] = rx[p]
      BY <3>1, <1>b, AppendElements
    <3>3. \A i \in 1..Len(queue) : Contents'[i] = Contents[i]
      BY <2>2, <2>3, <1>b, <1>c DEF Contents
    <3>4. Contents'[Len(queue) + 1] = rx[p]
      BY <2>1, <2>2, <2>3, <1>b, <1>c DEF Contents
    <3>5. \A i \in 1..Len(Contents') : Contents'[i] = t[i]
      BY <3>2, <3>3, <3>4, <2>2, <1>b, <1>c
    <3> HIDE DEF t
    <3>6. Len(Contents') = Len(t)
      BY <3>2, <2>2, <1>c
    <3>7. Contents' = t
      BY <3>2, <3>5, <3>6, <1>c, SameElements
    <3> QED
      BY <3>7 DEF t
  <2>5. Content(running)' = Content(running)
    BY <2>3 DEF Content
  <2>6. Len(Contents) < QueueSize
    BY <1>4, <1>b DEF Post, Room
  <2>7. rx' = [rx EXCEPT ![p] = Nil]
    BY <1>4 DEF Post, Return
  <2> QED
    BY <2>1, <2>4, <2>5, <2>6, <2>7 DEF Channel!Next, Channel!Accept, Contents
<1>5. ASSUME NEW p \in Producer, PostTimeout(p) \/ PostNoMemory(p)
      PROVE  Channel!Next
  <2>1. /\ copy[p] \in Addr /\ rx[p] # Nil
        /\ ~Queued(copy[p]) /\ running # copy[p]
    BY <1>5, <1>a DEF PostTimeout, PostNoMemory, TypeOK, CallOK, SingleHolder, Held
  <2>2. /\ mem' = [mem EXCEPT ![copy[p]] = Nil]
        /\ rx' = [rx EXCEPT ![p] = Nil]
        /\ UNCHANGED <<queue, running>>
    BY <1>5 DEF PostTimeout, PostNoMemory, Free, Return
  <2>3. UNCHANGED <<Contents, Content(running)>>
    BY <2>1, <2>2, <1>a, <1>e DEF TypeOK
  <2> QED
    BY <2>1, <2>2, <2>3 DEF Channel!Next, Channel!Drop, Contents
<1>6. ASSUME Dispatch
      PROVE  Channel!Next
  <2>1. /\ Head(queue) = queue[1] /\ queue[1] \in Addr
        /\ Len(queue) >= 1
        /\ Len(queue') = Len(queue) - 1
        /\ DOMAIN queue' = 1..(Len(queue) - 1)
        /\ \A i \in DOMAIN queue' : i + 1 \in DOMAIN queue /\ queue'[i] = queue[i + 1]
    BY <1>6, <1>a, TailElements DEF Dispatch, TypeOK
  <2>2. running = Nil /\ running' = queue[1] /\ UNCHANGED <<mem, rx, copy>>
    BY <2>1, <1>6 DEF Dispatch
  <2>3. Contents # <<>>
    BY <2>1, <1>b
  <2>4. /\ Head(Contents) = Contents[1]
        /\ Tail(Contents) \in Seq(Data \cup {Nil})
        /\ Len(Tail(Contents)) = Len(queue) - 1
        /\ \A i \in 1..(Len(queue) - 1) : Tail(Contents)[i] = Contents[i + 1]
    BY <2>3, <1>b, TailElements
  <2>5. Contents' = Tail(Contents)
    <3>1. \A i \in 1..(Len(queue) - 1) : Contents'[i] = Contents[i + 1]
      BY <2>1, <2>2, <1>b, <1>c DEF Contents
    <3>2. \A i \in 1..Len(Contents') : Contents'[i] = Tail(Contents)[i]
      BY <3>1, <2>1, <2>4, <1>c
    <3>3. Len(Contents') = Len(Tail(Contents))
      BY <2>1, <2>4, <1>c
    <3> QED
      BY <3>2, <3>3, <2>4, <1>c, SameElements
  <2>6. Content(running)' = Head(Contents)
    BY <2>1, <2>2, <2>4, <1>b DEF Content, Contents
  <2>7. Content(running) = Nil
    BY <2>2 DEF Content
  <2> QED
    BY <2>2, <2>3, <2>5, <2>6, <2>7 DEF Channel!Next, Channel!Take, Contents
<1>7. ASSUME Release
      PROVE  Channel!Next
  <2>1. running \in Addr /\ ~Queued(running) /\ mem[running] # Nil
    BY <1>7, <1>a, <1>d DEF Release, TypeOK, SingleHolder
  <2>2. /\ mem' = [mem EXCEPT ![running] = Nil]
        /\ running' = Nil
        /\ UNCHANGED <<rx, copy, queue>>
    BY <1>7 DEF Release, Free
  <2>3. \A i \in DOMAIN queue : mem'[queue[i]] = mem[queue[i]]
    BY <2>1, <2>2, <1>a DEF TypeOK, Queued
  <2>4. Contents' = Contents
    BY <2>2, <2>3 DEF Contents
  <2>5. Content(running) # Nil /\ Content(running)' = Nil
    BY <2>1, <2>2 DEF Content
  <2> QED
    BY <2>2, <2>4, <2>5 DEF Channel!Next, Channel!Done, Contents
<1>8. CASE UNCHANGED vars
  <2>1. UNCHANGED <<mem, rx, copy, queue, running>>
    BY <1>8 DEF vars
  <2> QED
    BY <2>1 DEF Contents, Content
<1> QED
  BY <1>1, <1>2, <1>3, <1>4, <1>5, <1>6, <1>7, <1>8 DEF Next, CallStep

(* The loop is a bounded FIFO of what the calls were given: accepted data  *)
(* is handled in order, once, and with the content it had at the call      *)
(* although the caller's buffer is reused at once.                         *)
THEOREM ImplementsChannel == Spec => ChannelSafety
<1>1. Init => Channel!Init
  BY InitMaps
<1>2. IInv /\ [Next]_vars => [Channel!Next]_(Channel!vars)
  BY StepMaps
<1> QED
  BY <1>1, <1>2, Invariant, PTL DEF Spec, ChannelSafety, Channel!Safety
=============================================================================
