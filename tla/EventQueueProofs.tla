-------------------------- MODULE EventQueueProofs --------------------------
(* Theorems about EventQueue for every set of receivers and events and any  *)
(* number of posts.                                                         *)
EXTENDS EventQueue, SequenceTheorems, TLAPS

Popped == Len(posted) - Len(messages)

-----------------------------------------------------------------------------
(* The inductive invariant: the queue is the end of posted, and a receiver   *)
(* has got to the last event popped, or one further when update() has called *)
(* it with the front already.                                                *)

Backlog == /\ Len(messages) <= Len(posted)
           /\ \A k \in 1 .. Len(messages) : messages[k] = posted[Popped + k]

Once == \A i, j \in 1 .. Len(receivers) : receivers[i] = receivers[j] => i = j

Place(i) == /\ first[receivers[i]] >= 1
            /\ first[receivers[i]] + Len(seen[receivers[i]]) - 1 =
                 Popped + (IF i < current THEN 1 ELSE 0)

Position == \A i \in 1 .. Len(receivers) : Place(i)

Newcomers == \A r \in Receivers : r \notin Range(receivers) => first[r] = 0 /\ seen[r] = <<>>

FrontStays == current > 1 => messages # <<>>

Inv == TypeOK /\ Backlog /\ Once /\ Position /\ Newcomers /\ FrontStays

-----------------------------------------------------------------------------
(* The typing facts the steps use. *)
LEMMA Typed ==
  ASSUME TypeOK
  PROVE  /\ Len(posted) \in Nat /\ Len(messages) \in Nat /\ Len(receivers) \in Nat
         /\ current \in Nat /\ current <= Len(receivers) + 1
         /\ DOMAIN receivers = 1 .. Len(receivers)
         /\ \A i \in 1 .. Len(receivers) : receivers[i] \in Receivers
         /\ \A r \in Receivers : first[r] \in Nat /\ seen[r] \in Seq(Events) /\ Len(seen[r]) \in Nat
<1>1. /\ receivers \in Seq(Receivers) /\ messages \in Seq(Events) /\ posted \in Seq(Events)
      /\ first \in [Receivers -> Nat] /\ seen \in [Receivers -> Seq(Events)]
      /\ current \in 0 .. Len(receivers) + 1
  BY DEF TypeOK
<1>2. \A i \in 1 .. Len(receivers) : receivers[i] \in Receivers
  BY <1>1, ElementOfSeq
<1>3. \A r \in Receivers : first[r] \in Nat /\ seen[r] \in Seq(Events)
  BY <1>1
<1> QED BY <1>1, <1>2, <1>3

(* The empty queue satisfies the invariant. *)
LEMMA InitInv == Init => Inv
<1> SUFFICES ASSUME Init PROVE Inv
  OBVIOUS
<1>1. TypeOK
  BY EmptySeq DEF Init, TypeOK
<1>2. 1 .. Len(messages) = {} /\ 1 .. Len(receivers) = {} /\ Len(messages) <= Len(posted)
  BY DEF Init
<1>3. Newcomers
  BY DEF Init, Newcomers
<1> QED BY <1>1, <1>2, <1>3 DEF Init, Inv, Backlog, Once, Position, FrontStays

(* A new receiver starts at the event at the front of the queue. *)
LEMMA RegisterReceiverInv ==
  ASSUME Inv, NEW r \in Receivers, RegisterReceiver(r)
  PROVE  Inv'
<1> DEFINE n == Len(receivers) + 1
<1>1. /\ current = 0 /\ r \notin Range(receivers) /\ receivers' = Append(receivers, r)
      /\ first' = [first EXCEPT ![r] = Popped + 1]
      /\ UNCHANGED <<messages, current, posted, seen>>
  BY DEF RegisterReceiver, Popped
<1>2. /\ receivers' \in Seq(Receivers) /\ Len(receivers') = n
      /\ \A i \in 1 .. Len(receivers) : receivers'[i] = receivers[i]
      /\ receivers'[n] = r
  BY <1>1, AppendProperties DEF Inv, TypeOK
<1>3. /\ Popped \in Nat /\ Popped' = Popped /\ Len(receivers) \in Nat
      /\ first \in [Receivers -> Nat] /\ DOMAIN receivers = 1 .. Len(receivers)
  BY <1>1, Typed DEF Inv, TypeOK, Backlog, Popped
<1> HIDE DEF n
<1>4. \A i \in 1 .. n : i \in 1 .. Len(receivers) \/ i = n
  BY <1>3 DEF n
<1>5. \A i \in 1 .. Len(receivers) : receivers[i] \in Receivers /\ receivers[i] # r
  BY <1>1, <1>3, Typed DEF Inv, Range
<1>6. /\ first'[r] = Popped + 1 /\ seen'[r] = <<>>
      /\ \A q \in Receivers : q # r => first'[q] = first[q]
  BY <1>1, <1>3 DEF Inv, Newcomers
<1>7. TypeOK'
  <2>1. first' \in [Receivers -> Nat]
    BY <1>1, <1>3
  <2>2. current' \in 0 .. Len(receivers') + 1
    BY <1>1, <1>2, <1>3 DEF n
  <2> QED BY <1>1, <1>2, <2>1, <2>2 DEF Inv, TypeOK
<1>8. Backlog' /\ FrontStays'
  BY <1>1, <1>3 DEF Inv, Backlog, FrontStays
<1>9. Once'
  BY <1>2, <1>4, <1>5 DEF Inv, Once
<1>10. Position'
  <2>1. \A i \in 1 .. Len(receivers) : Place(i)'
    BY <1>1, <1>2, <1>3, <1>5, <1>6 DEF Inv, Position, Place
  <2>2. Len(seen'[r]) = 0 /\ ~(n < current')
    BY <1>1, <1>3, <1>6 DEF n
  <2>3. ASSUME NEW i \in 1 .. n, i = n PROVE Place(i)'
    <3>1. receivers'[i] = r /\ first'[receivers'[i]] = Popped + 1 /\ ~(i < current')
      BY <1>2, <1>6, <2>2, <2>3
    <3>2. Len(seen'[receivers'[i]]) = 0
      BY <2>2, <3>1
    <3> QED BY <1>3, <3>1, <3>2 DEF Place
  <2> QED BY <1>2, <1>4, <2>1, <2>3 DEF Position
<1>11. Newcomers'
  <2>1. Range(receivers) \subseteq Range(receivers') /\ r \in Range(receivers')
    <3>1. DOMAIN receivers' = 1 .. n /\ n \in 1 .. n /\ 1 .. Len(receivers) \subseteq 1 .. n
      BY <1>2, <1>3 DEF n
    <3> QED BY <1>2, <1>3, <3>1 DEF Range
  <2> QED BY <1>1, <1>6, <2>1 DEF Inv, Newcomers
<1> QED BY <1>7, <1>8, <1>9, <1>10, <1>11 DEF Inv

(* post_event, inside update() or out of it, moves no receiver. *)
LEMMA PostEventInv ==
  ASSUME Inv, NEW e \in Events, PostEvent(e)
  PROVE  Inv'
<1>1. /\ current # 1 /\ messages' = Append(messages, e) /\ posted' = Append(posted, e)
      /\ UNCHANGED <<receivers, current, first, seen>>
  BY DEF PostEvent
<1>2. /\ messages' \in Seq(Events) /\ Len(messages') = Len(messages) + 1
      /\ \A i \in 1 .. Len(messages) : messages'[i] = messages[i]
      /\ messages'[Len(messages) + 1] = e
  BY <1>1, AppendProperties DEF Inv, TypeOK
<1>3. /\ posted' \in Seq(Events) /\ Len(posted') = Len(posted) + 1
      /\ \A i \in 1 .. Len(posted) : posted'[i] = posted[i]
      /\ posted'[Len(posted) + 1] = e
  BY <1>1, AppendProperties DEF Inv, TypeOK
<1>4. Len(posted) \in Nat /\ Len(messages) \in Nat /\ Len(messages) <= Len(posted)
  BY Typed DEF Inv, Backlog
<1>5. Popped' = Popped /\ Popped \in Nat
  BY <1>2, <1>3, <1>4 DEF Popped
<1>6. TypeOK'
  BY <1>1, <1>2, <1>3 DEF Inv, TypeOK
<1>7. Backlog'
  <2>1. ASSUME NEW k \in 1 .. Len(messages') PROVE messages'[k] = posted'[Popped + k]
    <3>1. CASE k \in 1 .. Len(messages)
      <4>1. messages[k] = posted[Popped + k]
        BY <3>1 DEF Inv, Backlog
      <4>2. Popped + k \in 1 .. Len(posted)
        BY <1>4, <3>1 DEF Popped
      <4> QED BY <1>2, <1>3, <3>1, <4>1, <4>2
    <3>2. CASE k = Len(messages) + 1
      <4>1. Popped + k = Len(posted) + 1
        BY <1>4, <3>2 DEF Popped
      <4> QED BY <1>2, <1>3, <3>2, <4>1
    <3> QED BY <1>2, <1>4, <3>1, <3>2
  <2>2. Len(messages') <= Len(posted')
    BY <1>2, <1>3, <1>4
  <2> QED BY <1>5, <2>1, <2>2 DEF Backlog
<1>8. Position'
  BY <1>1, <1>5 DEF Inv, Position, Place
<1>9. FrontStays'
  <2>1. messages' # <<>>
    BY <1>2, <1>4
  <2> QED BY <2>1 DEF FrontStays
<1>10. Once' /\ Newcomers'
  BY <1>1 DEF Inv, Once, Newcomers
<1> QED BY <1>6, <1>7, <1>8, <1>9, <1>10 DEF Inv

(* The receiver called moves one further than the events popped. *)
LEMMA CallReceiverInv ==
  ASSUME Inv, CallReceiver
  PROVE  Inv'
<1> DEFINE r == receivers[current]
<1>1. /\ current \in 1 .. Len(receivers) /\ messages # <<>>
      /\ seen' = [seen EXCEPT ![r] = Append(seen[r], Head(messages))]
      /\ current' = current + 1
      /\ UNCHANGED <<receivers, messages, posted, first>>
  BY DEF CallReceiver
<1>2. /\ r \in Receivers /\ Len(receivers) \in Nat /\ seen \in [Receivers -> Seq(Events)]
      /\ seen[r] \in Seq(Events) /\ Len(seen[r]) \in Nat /\ Head(messages) \in Events
  <2>1. messages \in Seq(Events)
    BY DEF Inv, TypeOK
  <2>2. Head(messages) \in Events
    BY <1>1, <2>1, HeadTailProperties
  <2> QED BY <1>1, <2>2, Typed DEF Inv, TypeOK
<1>3. \A i \in 1 .. Len(receivers) : receivers[i] = r => i = current
  BY <1>1 DEF Inv, Once
<1> HIDE DEF r
<1>4. /\ seen' \in [Receivers -> Seq(Events)] /\ Len(seen'[r]) = Len(seen[r]) + 1
      /\ \A q \in Receivers : q # r => seen'[q] = seen[q]
  <2>1. /\ Append(seen[r], Head(messages)) \in Seq(Events)
        /\ Len(Append(seen[r], Head(messages))) = Len(seen[r]) + 1
    BY <1>2, AppendProperties
  <2> QED BY <1>1, <1>2, <2>1
<1>5. TypeOK'
  <2>1. current' \in 0 .. Len(receivers') + 1
    BY <1>1, <1>2
  <2> QED BY <1>1, <1>4, <2>1 DEF Inv, TypeOK
<1>6. Position'
  <2>1. Popped' = Popped /\ Popped \in Int
    BY <1>1, Typed DEF Popped, Inv
  <2>2. ASSUME NEW i \in 1 .. Len(receivers) PROVE Place(i)'
    <3>1. Place(i) /\ receivers[i] \in Receivers
      BY Typed DEF Inv, Position
    <3>2. first[receivers[i]] \in Nat /\ Len(seen[receivers[i]]) \in Nat
      BY <3>1, Typed DEF Inv
    <3>3. CASE i = current
      BY <1>1, <1>2, <1>4, <2>1, <3>1, <3>2, <3>3 DEF Place, r
    <3>4. CASE i # current
      <4>1. receivers[i] # r
        BY <1>3, <3>4
      <4>2. seen'[receivers[i]] = seen[receivers[i]]
        BY <1>4, <3>1, <4>1
      <4>3. (i < current) <=> (i < current')
        BY <1>1, <1>2, <3>4
      <4> QED BY <1>1, <2>1, <3>1, <4>2, <4>3 DEF Place
    <3> QED BY <3>3, <3>4
  <2> QED BY <1>1, <2>2 DEF Position
<1>7. Newcomers'
  <2>1. r \in Range(receivers)
    BY <1>1, Typed DEF Inv, Range, r
  <2> QED BY <1>1, <1>4, <2>1 DEF Inv, Newcomers
<1>8. Backlog' /\ Once' /\ FrontStays'
  BY <1>1 DEF Inv, Backlog, Popped, Once, FrontStays
<1> QED BY <1>5, <1>6, <1>7, <1>8 DEF Inv

(* Every receiver is one further than the events popped: then one more is.   *)
LEMMA PopMessageInv ==
  ASSUME Inv, PopMessage
  PROVE  Inv'
<1>1. /\ current = Len(receivers) + 1 /\ messages # <<>> /\ messages' = Tail(messages)
      /\ current' = 1
      /\ UNCHANGED <<receivers, posted, first, seen>>
  BY DEF PopMessage, history
<1>2. /\ messages' \in Seq(Events) /\ Len(messages') = Len(messages) - 1
      /\ \A k \in 1 .. Len(messages') : messages'[k] = messages[k + 1]
      /\ Len(messages) \in Nat /\ Len(messages) >= 1
  <2>1. messages \in Seq(Events)
    BY DEF Inv, TypeOK
  <2> QED BY <1>1, <2>1, HeadTailProperties, EmptySeq
<1>3. /\ Len(posted) \in Nat /\ Len(receivers) \in Nat /\ Len(messages) <= Len(posted)
      /\ Popped' = Popped + 1 /\ Popped \in Nat
  BY <1>1, <1>2, Typed DEF Inv, Backlog, Popped
<1>4. TypeOK'
  <2>1. current' \in 0 .. Len(receivers') + 1
    BY <1>1, <1>3
  <2> QED BY <1>1, <1>2, <2>1 DEF Inv, TypeOK
<1>5. Backlog'
  <2>1. ASSUME NEW k \in 1 .. Len(messages') PROVE messages'[k] = posted'[Popped' + k]
    <3>1. k + 1 \in 1 .. Len(messages) /\ Popped' + k = Popped + (k + 1)
      BY <1>2, <1>3
    <3> QED BY <1>1, <1>2, <3>1 DEF Inv, Backlog
  <2> QED BY <1>1, <1>2, <1>3, <2>1 DEF Backlog
<1>6. Position'
  <2>1. ASSUME NEW i \in 1 .. Len(receivers) PROVE Place(i)'
    <3>1. Place(i) /\ i < current /\ ~(i < current')
      BY <1>1, <1>3 DEF Inv, Position
    <3> QED BY <1>1, <1>3, <3>1 DEF Place
  <2> QED BY <1>1, <2>1 DEF Position
<1>7. Once' /\ Newcomers' /\ FrontStays'
  BY <1>1 DEF Inv, Once, Newcomers, FrontStays
<1> QED BY <1>4, <1>5, <1>6, <1>7 DEF Inv

(* update() begins and ends with all receivers level. *)
LEMMA BeginEndInv ==
  ASSUME Inv, BeginUpdate \/ EndUpdate \/ UNCHANGED vars
  PROVE  Inv'
<1>1. /\ UNCHANGED <<receivers, messages, posted, first, seen>>
      /\ \/ current = 0 /\ current' = 1
         \/ current = 1 /\ current' = 0
         \/ current' = current
  BY DEF BeginUpdate, EndUpdate, vars, history
<1>2. Len(receivers) \in Nat
  BY Typed DEF Inv
<1>3. TypeOK'
  BY <1>1, <1>2 DEF Inv, TypeOK
<1>4. Position'
  <2>1. \A i \in 1 .. Len(receivers) : (i < current') <=> (i < current)
    BY <1>1
  <2> QED BY <1>1, <2>1 DEF Inv, Position, Place, Popped
<1>5. Backlog' /\ Once' /\ Newcomers' /\ FrontStays'
  BY <1>1 DEF Inv, Backlog, Popped, Once, Newcomers, FrontStays
<1> QED BY <1>3, <1>4, <1>5 DEF Inv

(* Inv is preserved by registrations, by posts, in update() and outside it,  *)
(* and by every step of update().                                            *)
THEOREM InvStep == Inv /\ [Next]_vars => Inv'
<1> SUFFICES ASSUME Inv, [Next]_vars PROVE Inv'
  OBVIOUS
<1> QED BY RegisterReceiverInv, PostEventInv, CallReceiverInv, PopMessageInv, BeginEndInv
        DEF Next, Update

(* Inv holds in every reachable state. *)
THEOREM Invariance == Spec => []Inv
<1>1. Init => Inv
  BY InitInv
<1>2. Inv /\ [Next]_vars => Inv'
  BY InvStep
<1> QED BY <1>1, <1>2, PTL DEF Spec

-----------------------------------------------------------------------------
(* The queue, the receivers and the position in update() keep their types.   *)
THEOREM TypeCorrect == Spec => []TypeOK
<1>1. Inv => TypeOK
  BY DEF Inv
<1> QED BY <1>1, Invariance, PTL

(* Receivers advance in lock step, whatever is posted and registered when.   *)
THEOREM ReceiversInStep == Spec => []LockStep
<1>1. Inv => LockStep
  <2> SUFFICES ASSUME Inv, NEW i \in DOMAIN receivers, NEW j \in DOMAIN receivers, i < j
               PROVE  Reached(receivers[i]) - Reached(receivers[j]) \in {0, 1}
    BY DEF LockStep
  <2>1. Place(i) /\ Place(j) /\ i \in Nat /\ j \in Nat
    BY Typed DEF Inv, Position
  <2>2. Popped \in Int /\ current \in Nat
    BY Typed DEF Inv, Popped
  <2> QED BY <2>1, <2>2 DEF Place, Reached
<1> QED BY <1>1, Invariance, PTL

(* When update() returns, nothing is queued and no receiver is owed an event. *)
THEOREM UpdateLeavesNothing == Spec => UpdateDrains
<1>1. Inv /\ [Next]_vars =>
        [current # 0 /\ current' = 0 =>
           messages = <<>> /\ \A r \in Range(receivers) : Reached(r) = Len(posted)]_vars
  <2> SUFFICES ASSUME Inv, Next, current # 0, current' = 0
               PROVE  messages = <<>> /\ \A r \in Range(receivers) : Reached(r) = Len(posted)
    BY DEF vars
  <2>1. current \in Nat /\ Len(posted) \in Nat /\ DOMAIN receivers = 1 .. Len(receivers)
    BY Typed DEF Inv
  <2>2. current = 1 /\ messages = <<>>
    BY <2>1 DEF Next, Update, RegisterReceiver, PostEvent, BeginUpdate, CallReceiver,
               PopMessage, EndUpdate
  <2>3. Popped = Len(posted)
    BY <2>1, <2>2 DEF Popped
  <2>4. \A i \in 1 .. Len(receivers) : Reached(receivers[i]) = Len(posted)
    BY <2>1, <2>2, <2>3 DEF Inv, Position, Place, Reached
  <2> QED BY <2>1, <2>2, <2>4 DEF Range
<1> QED BY <1>1, Invariance, PTL DEF Spec, UpdateDrains

-----------------------------------------------------------------------------
(* A call of a receiver delivers the log's next event to it. *)
LEMMA CallDelivers ==
  ASSUME Inv, CallReceiver
  PROVE  \E r \in Receivers : Log!Deliver(r)
<1> DEFINE r == receivers[current]
<1>1. /\ current \in 1 .. Len(receivers) /\ messages # <<>>
      /\ seen' = [seen EXCEPT ![r] = Append(seen[r], Head(messages))]
      /\ UNCHANGED <<posted, first>>
  BY DEF CallReceiver
<1>2. /\ Len(posted) \in Nat /\ Len(messages) \in Nat /\ r \in Receivers
      /\ first[r] \in Nat /\ Len(seen[r]) \in Nat /\ Popped \in Int
  BY <1>1, Typed DEF Inv, Popped
<1>3. first[r] >= 1 /\ first[r] + Len(seen[r]) - 1 = Popped
  <2>1. Place(current) /\ current \in Nat
    BY <1>1, Typed DEF Inv, Position
  <2>2. ~(current < current)
    BY <2>1
  <2> QED BY <1>2, <2>1, <2>2 DEF Place
<1> HIDE DEF r
<1>4. Len(messages) >= 1 /\ Head(messages) = messages[1]
  <2>1. messages \in Seq(Events)
    BY DEF Inv, TypeOK
  <2> QED BY <1>1, <2>1, HeadTailProperties, EmptySeq
<1>5. first[r] + Len(seen[r]) = Popped + 1 /\ Popped + 1 <= Len(posted)
  BY <1>2, <1>3, <1>4 DEF Popped
<1>6. Head(messages) = posted[first[r] + Len(seen[r])]
  <2>1. 1 \in 1 .. Len(messages)
    BY <1>2, <1>4
  <2> QED BY <1>4, <1>5, <2>1 DEF Inv, Backlog
<1>7. seen' = [seen EXCEPT ![r] = Append(seen[r], posted[first[r] + Len(seen[r])])]
  BY <1>1, <1>6
<1>8. first[r] # 0 /\ first[r] + Len(seen[r]) <= Len(posted)
  BY <1>3, <1>5
<1>9. Log!Deliver(r)
  BY <1>1, <1>7, <1>8 DEF Log!Deliver
<1> QED BY <1>2, <1>9

(* register_receiver is a subscription from the front of the queue on. *)
LEMMA RegisterSubscribes ==
  ASSUME Inv, NEW r \in Receivers, RegisterReceiver(r)
  PROVE  Log!Subscribe(r)
<1>1. first[r] = 0
  BY DEF RegisterReceiver, Inv, Newcomers
<1>2. Len(posted) - Len(messages) + 1 \in 1 .. Len(posted) + 1
  BY Typed DEF Inv, Backlog
<1> QED BY <1>1, <1>2 DEF RegisterReceiver, Log!Subscribe

(* SystemEvents implements the event log: each receiver sees the events from *)
(* its first one on, each once, in the order of the posts.                   *)
THEOREM ImplementsLog == Spec => ImplementsEventLog
<1>1. Init => Log!Init
  BY DEF Init, Log!Init
<1>2. Inv /\ [Next]_vars => [Log!Next]_(Log!vars)
  <2> SUFFICES ASSUME Inv, [Next]_vars PROVE Log!Next \/ UNCHANGED Log!vars
    OBVIOUS
  <2>1. ASSUME NEW r \in Receivers, RegisterReceiver(r) PROVE Log!Next
    BY <2>1, RegisterSubscribes DEF Log!Next
  <2>2. ASSUME NEW e \in Events, PostEvent(e) PROVE Log!Next
    BY <2>2 DEF PostEvent, Log!Next, Log!Post
  <2>3. CASE CallReceiver
    BY <2>3, CallDelivers DEF Log!Next
  <2>4. CASE BeginUpdate \/ PopMessage \/ EndUpdate \/ UNCHANGED vars
    BY <2>4 DEF BeginUpdate, PopMessage, EndUpdate, vars, history, Log!vars
  <2> QED BY <2>1, <2>2, <2>3, <2>4 DEF Next, Update
<1> QED BY <1>1, <1>2, Invariance, PTL DEF Spec, ImplementsEventLog, Log!Spec
=============================================================================
