----------------------------- MODULE EventQueue -----------------------------
(* SystemEvents: the queue of posted events and update(), which calls every *)
(* receiver with every queued event, one step per call and per pop.         *)
EXTENDS Integers, Sequences, Functions

CONSTANTS Receivers,  \* the functions passed to register_receiver
          Events,     \* what an event can be: its type, context and payload
          MaxEvents   \* bound: events posted

ASSUME EventQueueAssumption == MaxEvents \in Nat

VARIABLES receivers,  \* m_receivers
          messages,   \* m_messages, the front first
          current,    \* in update(): the receiver the loop is at; 0 outside it
          posted,     \* every event ever posted
          first,      \* where in posted a receiver's events begin
          seen        \* the events a receiver was called with

history == <<posted, first, seen>>
vars    == <<receivers, messages, current, history>>

TypeOK == /\ receivers \in Seq(Receivers)
          /\ messages \in Seq(Events)
          /\ current \in 0 .. Len(receivers) + 1
          /\ posted \in Seq(Events)
          /\ first \in [Receivers -> Nat]
          /\ seen \in [Receivers -> Seq(Events)]

Init == /\ receivers = <<>>
        /\ messages = <<>>
        /\ current = 0
        /\ posted = <<>>
        /\ first = [r \in Receivers |-> 0]
        /\ seen = [r \in Receivers |-> <<>>]

(* Not from inside a receiver: update() iterates over the vector. *)
RegisterReceiver(r) ==
  /\ current = 0
  /\ r \notin Range(receivers)
  /\ receivers' = Append(receivers, r)
  /\ first' = [first EXCEPT ![r] = Len(posted) - Len(messages) + 1]
  /\ UNCHANGED <<messages, current, posted, seen>>

\* Mutant: the event goes to the front of the queue.
MutPostEvent_Front(e) ==
  /\ current # 1
  /\ Len(posted) < MaxEvents
  /\ messages' = <<e>> \o messages
  /\ posted' = Append(posted, e)
  /\ UNCHANGED <<receivers, current, first, seen>>

(* Outside update(), or by the receiver that update() is calling. *)
PostEvent(e) ==
  /\ current # 1
  /\ Len(posted) < MaxEvents
  /\ messages' = Append(messages, e)
  /\ posted' = Append(posted, e)
  /\ UNCHANGED <<receivers, current, first, seen>>

BeginUpdate == /\ current = 0
               /\ current' = 1
               /\ UNCHANGED <<receivers, messages, history>>

CallReceiver ==
  /\ current \in 1 .. Len(receivers)
  /\ messages # <<>>
  /\ LET r == receivers[current] IN seen' = [seen EXCEPT ![r] = Append(@, Head(messages))]
  /\ current' = current + 1
  /\ UNCHANGED <<receivers, messages, posted, first>>

\* Mutant: the last receiver is not called.
MutPopMessage_Early ==
  /\ current >= Len(receivers)
  /\ current > 0
  /\ messages # <<>>
  /\ messages' = Tail(messages)
  /\ current' = 1
  /\ UNCHANGED <<receivers, history>>

PopMessage ==
  /\ current = Len(receivers) + 1
  /\ messages # <<>>
  /\ messages' = Tail(messages)
  /\ current' = 1
  /\ UNCHANGED <<receivers, history>>

\* Mutant: update() handles one event, not all of them.
MutEndUpdate_One == /\ current = 1
                    /\ current' = 0
                    /\ UNCHANGED <<receivers, messages, history>>

EndUpdate == /\ current = 1
             /\ messages = <<>>
             /\ current' = 0
             /\ UNCHANGED <<receivers, messages, history>>

Update == BeginUpdate \/ CallReceiver \/ PopMessage \/ EndUpdate

Next == \/ \E r \in Receivers : RegisterReceiver(r)
        \/ \E e \in Events : PostEvent(e)
        \/ Update

Spec == Init /\ [][Next]_vars

-----------------------------------------------------------------------------
(* The place in posted that a receiver has got to. *)
Reached(r) == first[r] + Len(seen[r]) - 1

(* No receiver is called with an event before every receiver has been called *)
(* with the one before: the earlier ones of the list are at most one ahead.  *)
LockStep ==
  \A i, j \in DOMAIN receivers :
    i < j => Reached(receivers[i]) - Reached(receivers[j]) \in {0, 1}

(* update() returns with nothing queued, not even what the receivers posted  *)
(* meanwhile, and every receiver has then seen all it is owed.               *)
UpdateDrains ==
  [][current # 0 /\ current' = 0 =>
       messages = <<>> /\ \A r \in Range(receivers) : Reached(r) = Len(posted)]_vars

(* Every receiver sees every event from its first on, once, in order.        *)
Log == INSTANCE EventLog
ImplementsEventLog == Log!Spec
=============================================================================
