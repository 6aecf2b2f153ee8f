------------------------------ MODULE EventLoop ------------------------------
(***************************************************************************)
(* A dedicated ESP-IDF event loop and the code that posts to it:           *)
(* components/proxy_events (proxy_events.c) and, with the same code,       *)
(* components/doppler_events (doppler_events.c).  Network tasks call       *)
(* *_events_post_data from their receive callback; the call copies the     *)
(* receive buffer to the heap and queues a pointer to the copy, waiting at *)
(* most the post timeout for room.  The loop's task runs the registered    *)
(* handler, which owns the copy and frees it.                              *)
(*                                                                         *)
(* The state starts after app_main has created the loop and registered its *)
(* handlers (app_main.c:455-465), before it starts the tasks that post.    *)
(***************************************************************************)
EXTENDS Naturals, Sequences

CONSTANTS
    Producer,   \* the network tasks that post
    Addr,       \* heap blocks
    Data,       \* what a receive callback can carry
    Empty,      \* data of length zero
    QueueSize,  \* *_EVENT_QUEUE_SIZE
    Nil         \* NULL, and the content of a free block

ASSUME QueueSizeAssumption == QueueSize \in Nat \ {0}
ASSUME NilAssumption == Nil \notin Addr /\ Nil \notin Data
ASSUME EmptyAssumption == Empty \in Data

VARIABLES
    mem,        \* mem[a]: content of block a, Nil when it is free
    rx,         \* rx[p]: the buffer p's call in progress was given, or Nil
    copy,       \* copy[p]: the local variable of that call, or Nil
    queue,      \* the loop's queue, of the data pointers of the events
    running     \* the data pointer of the event being handled, or Nil

vars == <<mem, rx, copy, queue, running>>

Init ==
    /\ mem = [a \in Addr |-> Nil]
    /\ rx = [p \in Producer |-> Nil]
    /\ copy = [p \in Producer |-> Nil]
    /\ queue = <<>>
    /\ running = Nil

(* The end of a call: its local variables and its buffer are gone.         *)
Return(p) ==
    /\ rx' = [rx EXCEPT ![p] = Nil]
    /\ copy' = [copy EXCEPT ![p] = Nil]

Free(a) == mem' = [mem EXCEPT ![a] = Nil]

(* A network task enters its receive callback with d in its buffer.        *)
Call(p, d) ==
    /\ rx[p] = Nil
    /\ rx' = [rx EXCEPT ![p] = d]
    /\ UNCHANGED <<mem, copy, queue, running>>

(* len == 0: nothing to post. *)
ReturnEmpty(p) ==
    /\ rx[p] = Empty
    /\ Return(p)
    /\ UNCHANGED <<mem, queue, running>>

(* malloc and memcpy. *)
Copy(p, a) ==
    /\ rx[p] \notin {Nil, Empty}
    /\ copy[p] = Nil
    /\ mem[a] = Nil
    /\ mem' = [mem EXCEPT ![a] = rx[p]]
    /\ copy' = [copy EXCEPT ![p] = a]
    /\ UNCHANGED <<rx, queue, running>>

(* malloc returns NULL; the heap is shared with the whole program, so it   *)
(* may do so at any time.                                                  *)
NoMemory(p) ==
    /\ rx[p] \notin {Nil, Empty}
    /\ copy[p] = Nil
    /\ Return(p)
    /\ UNCHANGED <<mem, queue, running>>

(* Mutant of Room: off by one. *)
RoomForOneMore == Len(queue) <= QueueSize

Room == Len(queue) < QueueSize

(* Mutant of Post: the new event overtakes the queued ones. *)
PostToFront(p) ==
    /\ copy[p] # Nil
    /\ Room
    /\ queue' = <<copy[p]>> \o queue
    /\ Return(p)
    /\ UNCHANGED <<mem, running>>

(* esp_event_post_to queues the event. *)
Post(p) ==
    /\ copy[p] # Nil
    /\ Room
    /\ queue' = Append(queue, copy[p])
    /\ Return(p)
    /\ UNCHANGED <<mem, running>>

(* Mutant of PostTimeout: the copy is not freed. *)
PostTimeoutLeak(p) ==
    /\ copy[p] # Nil
    /\ ~Room
    /\ Return(p)
    /\ UNCHANGED <<mem, queue, running>>

(* Mutant of PostTimeout: portMAX_DELAY as the post timeout. *)
PostNeverGivesUp(p) == FALSE /\ Free(copy[p]) /\ Return(p)

(* esp_event_post_to gives up on a queue that stays full. *)
PostTimeout(p) ==
    /\ copy[p] # Nil
    /\ ~Room
    /\ Free(copy[p])
    /\ Return(p)
    /\ UNCHANGED <<queue, running>>

(* esp_event_post_to fails for lack of memory for its own copy of evt. *)
PostNoMemory(p) ==
    /\ copy[p] # Nil
    /\ Free(copy[p])
    /\ Return(p)
    /\ UNCHANGED <<queue, running>>

(* Mutant of Dispatch: the copy is freed before the handler has used it. *)
DispatchFreed ==
    /\ running = Nil
    /\ queue # <<>>
    /\ running' = Head(queue)
    /\ queue' = Tail(queue)
    /\ Free(Head(queue))
    /\ UNCHANGED <<rx, copy>>

(* The loop's task takes the next event and calls the handler. *)
Dispatch ==
    /\ running = Nil
    /\ queue # <<>>
    /\ running' = Head(queue)
    /\ queue' = Tail(queue)
    /\ UNCHANGED <<mem, rx, copy>>

(* The handler has used evt->data and frees it before it returns. *)
Release ==
    /\ running # Nil
    /\ Free(running)
    /\ running' = Nil
    /\ UNCHANGED <<rx, copy, queue>>

(* The steps that a call of *_events_post_data by p may count on: the heap *)
(* either has a block or has none, the queue either has room or times out. *)
CallStep(p) ==
    \/ ReturnEmpty(p)
    \/ \E a \in Addr : Copy(p, a)
    \/ NoMemory(p)
    \/ Post(p)
    \/ PostTimeout(p)

Next ==
    \/ \E p \in Producer :
        \/ \E d \in Data : Call(p, d)
        \/ CallStep(p)
        \/ PostNoMemory(p)
    \/ Dispatch
    \/ Release

Spec == Init /\ [][Next]_vars

(* The scheduler runs the network tasks and the loop's task (same          *)
(* priority, round robin), and a wait on the queue ends at its timeout.    *)
(* Nothing is assumed of the handler: Release may never happen.            *)
CallFairness == \A p \in Producer : WF_vars(CallStep(p))
FairSpec == Spec /\ CallFairness /\ WF_vars(Dispatch)

(* A handler that is running returns. *)
HandlersReturn == WF_vars(Release)

-----------------------------------------------------------------------------
(* Types and bounds of the state; the loop never queues more pointers than *)
(* the queue it was created with holds (proxy_events.c:25).                *)
TypeOK ==
    /\ mem \in [Addr -> Data \cup {Nil}]
    /\ rx \in [Producer -> Data \cup {Nil}]
    /\ copy \in [Producer -> Addr \cup {Nil}]
    /\ queue \in Seq(Addr)
    /\ Len(queue) <= QueueSize
    /\ running \in Addr \cup {Nil}

Queued(a) == \E i \in DOMAIN queue : queue[i] = a
Held(a) == \E p \in Producer : copy[p] = a

(* A block is in use exactly while a call, the queue or the handler holds  *)
(* a pointer to it: nothing leaks and no pointer outlives its block        *)
(* (the frees of proxy_events.c:80, app_main.c:194, :212,                  *)
(* doppler_events.c:87 and doppler_processing.c:94).                       *)
NoLeak ==
    \A a \in Addr : mem[a] # Nil <=> Held(a) \/ Queued(a) \/ running = a

(* A block has one holder, so it is freed once: a call that posted a       *)
(* pointer no longer has it, and an event is handled once.                 *)
SingleHolder ==
    /\ \A i, j \in DOMAIN queue : queue[i] = queue[j] => i = j
    /\ \A p, q \in Producer : copy[p] = copy[q] /\ copy[p] # Nil => p = q
    /\ \A a \in Addr : ~(Held(a) /\ Queued(a))
    /\ running # Nil => ~Held(running) /\ ~Queued(running)

(* Buffer ownership, as the comments of proxy_events.h:23-24 and           *)
(* doppler_events.h:17-18 state it: one owner at a time, from malloc to    *)
(* free.                                                                   *)
Ownership == NoLeak /\ SingleHolder

(* A network task is never held up by the loop: each call of               *)
(* *_events_post_data returns, even when a handler never does              *)
(* (proxy_events.h:64-66, "evita bloquear a task de rede                   *)
(* indefinidamente").                                                      *)
CallReturns == \A p \in Producer : rx[p] # Nil ~> rx[p] = Nil

(* The loop implements the FIFO channel: the content of the queued blocks  *)
(* is what the calls were given, in the order they posted it.              *)
Content(a) == IF a = Nil THEN Nil ELSE mem[a]

Channel == INSTANCE EventChannel WITH
    Capacity <- QueueSize,
    offer <- rx,
    pending <- [i \in DOMAIN queue |-> mem[queue[i]]],
    current <- Content(running)

ChannelSafety == Channel!Safety

(* With handlers that return, the loop keeps the channel's promises too:   *)
(* every call is accepted or dropped, every accepted event handled.        *)
ChannelLiveness ==
    HandlersReturn => Channel!ReturnFairness /\ Channel!HandlingFairness
=============================================================================
