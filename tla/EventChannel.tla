---------------------------- MODULE EventChannel ----------------------------
(***************************************************************************)
(* What proxy_events and doppler_events promise to the network tasks that  *)
(* post to them and to the handlers registered on them: a bounded FIFO.    *)
(* A call of *_events_post_data either accepts the data, in the order of   *)
(* acceptance and with the content it had during the call, or drops it;    *)
(* data that was accepted is handled once, one event at a time.            *)
(***************************************************************************)
EXTENDS Naturals, Sequences

CONSTANTS
    Producer,   \* the network tasks that call *_events_post_data
    Data,       \* what a call can carry
    Empty,      \* data of length zero
    Capacity,   \* how many accepted events wait for the handler
    Nil         \* no data

VARIABLES
    offer,      \* offer[p]: the data of p's call in progress, or Nil
    pending,    \* accepted, not yet taken by the loop's task
    current     \* the data the handler is working on, or Nil

vars == <<offer, pending, current>>

TypeOK ==
    /\ offer \in [Producer -> Data \cup {Nil}]
    /\ pending \in Seq(Data \ {Empty})
    /\ Len(pending) <= Capacity
    /\ current \in (Data \ {Empty}) \cup {Nil}

Init ==
    /\ offer = [p \in Producer |-> Nil]
    /\ pending = <<>>
    /\ current = Nil

Call(p, d) ==
    /\ offer[p] = Nil
    /\ offer' = [offer EXCEPT ![p] = d]
    /\ UNCHANGED <<pending, current>>

(* Mutant of Accept: the bound of the queue is not tested. *)
AcceptOverfull(p) ==
    /\ offer[p] \notin {Nil, Empty}
    /\ pending' = Append(pending, offer[p])
    /\ offer' = [offer EXCEPT ![p] = Nil]
    /\ UNCHANGED current

Accept(p) ==
    /\ offer[p] \notin {Nil, Empty}
    /\ Len(pending) < Capacity
    /\ pending' = Append(pending, offer[p])
    /\ offer' = [offer EXCEPT ![p] = Nil]
    /\ UNCHANGED current

(* Mutant of Drop: a post waits for room without a timeout. *)
NeverDrop(p) == FALSE /\ offer' = [offer EXCEPT ![p] = Nil]

(* The heap is shared with the rest of the program: a call may be dropped  *)
(* for lack of memory at any moment, whatever the length of the queue.     *)
Drop(p) ==
    /\ offer[p] # Nil
    /\ offer' = [offer EXCEPT ![p] = Nil]
    /\ UNCHANGED <<pending, current>>

Take ==
    /\ current = Nil
    /\ pending # <<>>
    /\ current' = Head(pending)
    /\ pending' = Tail(pending)
    /\ UNCHANGED offer

Done ==
    /\ current # Nil
    /\ current' = Nil
    /\ UNCHANGED <<offer, pending>>

Next ==
    \/ \E p \in Producer : \/ \E d \in Data : Call(p, d)
                           \/ Accept(p)
                           \/ Drop(p)
    \/ Take
    \/ Done

Safety == Init /\ [][Next]_vars

(* What the callers may count on even when a handler never returns.        *)
ReturnFairness ==
    \A p \in Producer : WF_vars(Accept(p) \/ Drop(p))

(* With handlers that return, everything accepted is handled.              *)
HandlingFairness == WF_vars(Take) /\ WF_vars(Done)

Spec == Safety /\ ReturnFairness /\ HandlingFairness
=============================================================================
