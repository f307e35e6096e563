------------------------------ MODULE EventLog ------------------------------
(* What SystemEvents promises a receiver: from some event on, every event,  *)
(* once, in the order of the posts.                                         *)
EXTENDS Naturals, Sequences

CONSTANTS Receivers, Events

VARIABLES posted,  \* every event ever posted
          first,   \* the first event a receiver is owed, 0 before it registers
          seen     \* the events a receiver was called with

vars == <<posted, first, seen>>

Init == /\ posted = <<>>
        /\ first = [r \in Receivers |-> 0]
        /\ seen = [r \in Receivers |-> <<>>]

Post(e) == /\ posted' = Append(posted, e)
           /\ UNCHANGED <<first, seen>>

(* Events that are still queued may be delivered to a newcomer. *)
Subscribe(r) == /\ first[r] = 0
                /\ \E n \in 1 .. Len(posted) + 1 : first' = [first EXCEPT ![r] = n]
                /\ UNCHANGED <<posted, seen>>

Deliver(r) == /\ first[r] # 0
              /\ first[r] + Len(seen[r]) <= Len(posted)
              /\ seen' = [seen EXCEPT ![r] = Append(@, posted[first[r] + Len(@)])]
              /\ UNCHANGED <<posted, first>>

Next == \/ \E e \in Events : Post(e)
        \/ \E r \in Receivers : Subscribe(r) \/ Deliver(r)

Spec == Init /\ [][Next]_vars
=============================================================================
