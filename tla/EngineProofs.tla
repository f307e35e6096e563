---------------------------- MODULE EngineProofs ----------------------------
(* Theorems about Engine for every set of events and any number of posts: no *)
(* system is called before it is up, the program does not log into nothing,  *)
(* and what a receiver sees of the events is the log of EventLog.            *)
EXTENDS Engine, SequenceTheorems, TLAPS

QueueProofs == INSTANCE EventQueueProofs

-----------------------------------------------------------------------------
(* The table of the seven systems.                                           *)

UpTo(n) == {Registrations[i].system : i \in 1 .. n}

(* The systems are registered by descending priority, none of them twice.    *)
LEMMA Table ==
  /\ Registrations \in Seq([system : Systems, priority : Nat])
  /\ Len(Registrations) = 7 /\ DOMAIN Registrations = 1 .. 7
  /\ \A i, j \in 1 .. 7 : i < j => Registrations[i].priority > Registrations[j].priority
  /\ \A i, j \in 1 .. 7 : i # j => Registrations[i].system # Registrations[j].system
  /\ \A i \in 1 .. 7 : Registrations[i].system \in Systems
  /\ \A i \in 1 .. 7 : Registrations[i].priority \in Nat
<1>1. Len(Registrations) = 7 /\ DOMAIN Registrations = 1 .. 7
  BY DEF Registrations
<1>2. \A i, j \in 1 .. 7 : i < j => Registrations[i].priority > Registrations[j].priority
  BY DEF Registrations
<1>3. \A i, j \in 1 .. 7 : i # j => Registrations[i].system # Registrations[j].system
  BY DEF Registrations
<1>4. \A i \in 1 .. 7 : Registrations[i].system \in Systems
  BY <1>1 DEF Systems
<1>5. \A i \in 1 .. 7 : Registrations[i].priority \in Nat
  BY DEF Registrations
<1>6. \A i \in 1 .. 7 : Registrations[i] =
        [system |-> Registrations[i].system, priority |-> Registrations[i].priority]
  BY DEF Registrations
<1>7. \A i \in 1 .. 7 : Registrations[i] \in [system : Systems, priority : Nat]
  BY <1>4, <1>5, <1>6
<1>8. Registrations = [i \in 1 .. 7 |-> Registrations[i]]
  BY DEF Registrations
<1>9. Registrations \in Seq([system : Systems, priority : Nat])
  BY <1>7, <1>8, IsASeq
<1> QED BY <1>1, <1>2, <1>3, <1>4, <1>5, <1>9

(* The names that the engine's actions test for. *)
LEMMA Names ==
  /\ Registrations[1].system = "SystemLogging" /\ Registrations[2].system = "SystemEvents"
  /\ Registrations[3].system = "SystemPlatform" /\ Registrations[4].system = "SystemRenderer"
  /\ Registrations[5].system = "SystemScripting" /\ Registrations[6].system = "SystemResources"
  /\ Registrations[7].system = "SystemScene"
BY DEF Registrations

(* One system more, and one system less. *)
LEMMA UpToStep ==
  ASSUME NEW n \in 1 .. 7
  PROVE  /\ UpTo(n - 1) \cup {Registrations[n].system} = UpTo(n)
         /\ UpTo(n) \ {Registrations[n].system} = UpTo(n - 1)
         /\ UpTo(n) \subseteq Systems
<1>1. 1 .. n = (1 .. n - 1) \cup {n}
  OBVIOUS
<1>2. \A i \in 1 .. n - 1 : i \in 1 .. 7 /\ i # n
  OBVIOUS
<1>3. UpTo(n) = UpTo(n - 1) \cup {Registrations[n].system}
  BY <1>1 DEF UpTo
<1>4. Registrations[n].system \notin UpTo(n - 1)
  BY <1>2, Table DEF UpTo
<1>5. UpTo(n) \subseteq Systems
  BY <1>1, <1>2, Table DEF UpTo
<1> QED BY <1>3, <1>4, <1>5

LEMMA UpToNone == UpTo(0) = {}
<1>1. 1 .. 0 = {}
  OBVIOUS
<1> QED BY <1>1 DEF UpTo

(* Once the whole table is up, no system is missing. *)
LEMMA UpToAll == UpTo(7) = Systems
BY Table DEF UpTo, Systems

-----------------------------------------------------------------------------
(* What InsertAt makes of a sequence. *)
LEMMA InsertAtProperties ==
  ASSUME NEW S, NEW s \in Seq(S), NEW e \in S, NEW i \in 1 .. Len(s) + 1
  PROVE  /\ InsertAt(s, i, e) \in Seq(S) /\ Len(InsertAt(s, i, e)) = Len(s) + 1
         /\ InsertAt(s, i, e)[i] = e
         /\ i <= Len(s) => InsertAt(s, i, e)[i + 1] = s[i]
         /\ i = Len(s) + 1 => InsertAt(s, i, e) = Append(s, e)
<1> DEFINE front == SubSeq(s, 1, i - 1)
           back  == SubSeq(s, i, Len(s))
           longer == front \o <<e>>
<1>1. Len(s) \in Nat
  BY LenProperties
<1>2. /\ front \in Seq(S) /\ Len(front) = i - 1 /\ \A k \in 1 .. i - 1 : front[k] = s[k]
  BY <1>1, SubSeqProperties
<1>3. /\ back \in Seq(S) /\ Len(back) = Len(s) - i + 1
      /\ \A k \in 1 .. Len(s) - i + 1 : back[k] = s[i + k - 1]
  BY <1>1, SubSeqProperties
<1>4. <<e>> \in Seq(S) /\ Len(<<e>>) = 1 /\ <<e>>[1] = e
  OBVIOUS
<1> HIDE DEF front, back
<1>5. longer \in Seq(S) /\ Len(longer) = i /\ longer[i] = e
  <2>1. longer \in Seq(S) /\ Len(longer) = Len(front) + Len(<<e>>)
        /\ \A k \in 1 .. Len(front) + Len(<<e>>) :
             longer[k] = IF k <= Len(front) THEN front[k] ELSE <<e>>[k - Len(front)]
    BY <1>2, <1>4, ConcatProperties
  <2>2. i \in 1 .. Len(front) + Len(<<e>>) /\ ~(i <= Len(front)) /\ i - Len(front) = 1
    BY <1>1, <1>2, <1>4
  <2>3. longer[i] = <<e>>[i - Len(front)]
    BY <2>1, <2>2
  <2>4. <<e>>[i - Len(front)] = e
    BY <1>4, <2>2
  <2>5. Len(longer) = i
    BY <1>1, <1>2, <1>4, <2>1
  <2> HIDE DEF longer
  <2> QED BY <2>1, <2>3, <2>4, <2>5
<1>6. InsertAt(s, i, e) = longer \o back
  BY DEF InsertAt, front, back
<1> HIDE DEF longer
<1>7. /\ longer \o back \in Seq(S) /\ Len(longer \o back) = Len(longer) + Len(back)
      /\ \A k \in 1 .. Len(longer) + Len(back) :
           (longer \o back)[k] = IF k <= Len(longer) THEN longer[k] ELSE back[k - Len(longer)]
  BY <1>3, <1>5, ConcatProperties
<1>8. InsertAt(s, i, e) \in Seq(S) /\ Len(InsertAt(s, i, e)) = Len(s) + 1
  BY <1>1, <1>3, <1>5, <1>6, <1>7
<1>9. InsertAt(s, i, e)[i] = e
  BY <1>1, <1>3, <1>5, <1>6, <1>7
<1>10. i <= Len(s) => InsertAt(s, i, e)[i + 1] = s[i]
  BY <1>1, <1>3, <1>5, <1>6, <1>7
<1>11. ASSUME i = Len(s) + 1 PROVE InsertAt(s, i, e) = Append(s, e)
  <2>1. front = s
    BY <1>1, <1>2, <1>11, SeqEqual
  <2>2. back = <<>>
    BY <1>1, <1>3, <1>11, EmptySeq
  <2>3. longer \o back = longer
    BY <1>5, <2>2, ConcatEmptySeq
  <2>4. longer = Append(s, e)
    BY <2>1, AppendIsConcat DEF longer
  <2> QED BY <1>6, <2>3, <2>4
<1> QED BY <1>8, <1>9, <1>10, <1>11

-----------------------------------------------------------------------------
(* The inductive invariant. *)

Booting == {"register", "initialise"}
Serving == {"load", "update", "flush"}

(* m_systemPriorityVec is the table, as far as it has been registered.       *)
Ordered == IF pc = "register" THEN at \in 1 .. 7 /\ order = SubSeq(Registrations, 1, at - 1)
                              ELSE order = Registrations

(* The systems that are up are the first ones of the order, and the logger   *)
(* is open as long as the first of them is.                                  *)
Standing ==
  /\ pc = "register"   => up = {}
  /\ pc = "initialise" => at \in 1 .. 8 /\ up = UpTo(at - 1) /\ (at > 1 => logger = "open")
  /\ pc \in Serving    => up = UpTo(7) /\ logger = "open"
  /\ pc = "update"     => at \in 1 .. 8
  /\ pc = "shutdown"   => at \in 0 .. 7 /\ up = UpTo(at) /\ (at >= 1 => logger = "open")
  /\ pc = "shutdown" /\ at = 0 => ~unflushed
  /\ pc \in {"threw", "undefined"} => \E n \in 0 .. 7 : up = UpTo(n)
  /\ pc = "returned"   => up = {} /\ ~unflushed

(* SystemEvents is inside its update() only while the frame is at it. *)
Dispatching == current # 0 => pc = "update" /\ at = 2

(* What the queue holds once SystemEvents has been updated, the platform     *)
(* posted in this frame.                                                     *)
ThisFrame == pc = "flush" \/ (pc = "update" /\ at > 2) => Len(messages) <= Len(posted) - frameStart

Inv == /\ TypeOK /\ QueueProofs!Inv
       /\ Ordered /\ Standing /\ Dispatching /\ ThisFrame /\ NeverCrashes

-----------------------------------------------------------------------------
(* The engine moves the queue of SystemEvents only by the queue's own steps. *)
LEMMA QueueSteps == [Next]_vars => [Queue!Next]_(Queue!vars)
<1> SUFFICES ASSUME [Next]_vars PROVE Queue!Next \/ UNCHANGED Queue!vars
  OBVIOUS
<1> USE DEF queue, Queue!vars, Queue!history
<1>1. ASSUME UNCHANGED queue PROVE UNCHANGED Queue!vars
  BY <1>1
<1>2. CASE Register \/ InitialiseThrows \/ InitialiseUndefined \/ CreateWindow
             \/ CreateWindowUndefined \/ LoadScene \/ LoadSceneThrows
  BY <1>2 DEF Register, InitialiseThrows, InitialiseUndefined, CreateWindow,
              CreateWindowUndefined, LoadScene, LoadSceneThrows
<1>3. CASE InitialiseSystem
  <2>1. "SystemRenderer" \in Receivers
    BY DEF Receivers
  <2> QED BY <1>3, <2>1 DEF InitialiseSystem, Queue!Next
<1>4. CASE UpdateSystem \/ CheckClose \/ PollClose \/ PollReturns
  BY <1>4 DEF UpdateSystem, CheckClose, PollClose, PollReturns
<1>5. CASE DispatchEvents
  BY <1>5 DEF DispatchEvents, BeginEvents, DeliverEvent, PopEvent, EndEvents,
              Queue!Next, Queue!Update
<1>6. ASSUME NEW e \in Events, PollResize(e) PROVE Queue!Next
  BY <1>6 DEF PollResize, Queue!Next
<1>7. CASE EndFrame \/ Shutdown \/ Terminated \/ UNCHANGED vars
  BY <1>7 DEF EndFrame, FlushThrows, NextFrame, LeaveLoop, Shutdown, ShutdownSystem, Return,
              Terminated, vars
<1> QED BY <1>2, <1>3, <1>4, <1>5, <1>6, <1>7 DEF Next, Run, Initialise, Update, Poll

(* The theorems of EventQueueProofs are about the engine's own queue. *)
LEMMA SameQueue ==
  /\ Queue!Init <=> QueueProofs!Init
  /\ [Queue!Next]_(Queue!vars) <=> [QueueProofs!Next]_(QueueProofs!vars)
  /\ Queue!TypeOK <=> QueueProofs!TypeOK
<1>1. Queue!Init <=> QueueProofs!Init
  BY DEF Queue!Init, QueueProofs!Init
<1>2. Queue!TypeOK <=> QueueProofs!TypeOK
  BY DEF Queue!TypeOK, QueueProofs!TypeOK
<1>3. Queue!vars = QueueProofs!vars /\ Queue!history = QueueProofs!history
  BY DEF Queue!vars, QueueProofs!vars, Queue!history, QueueProofs!history
<1>4. \A r \in Receivers : Queue!RegisterReceiver(r) <=> QueueProofs!RegisterReceiver(r)
  BY DEF Queue!RegisterReceiver, QueueProofs!RegisterReceiver, Queue!Range, QueueProofs!Range
<1>5. \A e \in Events : Queue!PostEvent(e) <=> QueueProofs!PostEvent(e)
  BY DEF Queue!PostEvent, QueueProofs!PostEvent
<1>6. Queue!Update <=> QueueProofs!Update
  BY DEF Queue!history, QueueProofs!history, Queue!Update, QueueProofs!Update,
         Queue!BeginUpdate, QueueProofs!BeginUpdate,
         Queue!CallReceiver, QueueProofs!CallReceiver, Queue!PopMessage,
         QueueProofs!PopMessage, Queue!EndUpdate, QueueProofs!EndUpdate
<1>7. Queue!Next <=> QueueProofs!Next
  BY <1>4, <1>5, <1>6 DEF Queue!Next, QueueProofs!Next
<1>8. UNCHANGED Queue!vars <=> UNCHANGED QueueProofs!vars
  BY DEF Queue!vars, QueueProofs!vars, Queue!history, QueueProofs!history
<1> QED BY <1>1, <1>2, <1>7, <1>8

LEMMA QueueKept ==
  ASSUME Inv, [Next]_vars
  PROVE  QueueProofs!Inv' /\ Queue!TypeOK'
<1>1. [QueueProofs!Next]_(QueueProofs!vars)
  BY QueueSteps, SameQueue
<1>2. QueueProofs!Inv'
  BY <1>1, EngineAssumption, QueueProofs!InvStep DEF Inv, QueueProofs!EventQueueAssumption
<1>3. QueueProofs!TypeOK'
  BY <1>2 DEF QueueProofs!Inv
<1>4. Queue!TypeOK'
  BY <1>3 DEF QueueProofs!TypeOK, Queue!TypeOK
<1> QED BY <1>2, <1>4

-----------------------------------------------------------------------------
(* Each phase preserves the invariant. *)

(* The phases after the registrations work on the whole table. *)
LEMMA Built ==
  ASSUME Inv, pc # "register"
  PROVE  /\ order = Registrations /\ Len(order) = 7 /\ System = Registrations[at].system
         /\ at \in 0 .. 8
BY Table DEF Inv, Ordered, System, TypeOK

LEMMA InitInv == Init => Inv
<1> SUFFICES ASSUME Init PROVE Inv
  OBVIOUS
<1>1. QueueProofs!Inv /\ Queue!TypeOK
  BY EngineAssumption, SameQueue, QueueProofs!InitInv
     DEF Init, QueueProofs!Inv, QueueProofs!EventQueueAssumption
<1>2. Ordered
  BY Table, SubSeqEmpty DEF Init, Ordered
<1>3. TypeOK
  <2>1. order \in Seq([system : Systems, priority : Nat])
    BY EmptySeq DEF Init
  <2>2. frameStart \in 0 .. Len(posted)
    BY EmptySeq DEF Init, Queue!Init
  <2>3. at \in 0 .. Len(Registrations) + 1
    BY Table DEF Init
  <2> QED BY <1>1, <2>1, <2>2, <2>3 DEF Init, TypeOK, Phases
<1>4. Standing /\ ThisFrame /\ NeverCrashes
  BY DEF Init, Standing, Serving, ThisFrame, NeverCrashes
<1>5. Dispatching
  BY DEF Init, Queue!Init, Dispatching
<1> QED BY <1>1, <1>2, <1>3, <1>4, <1>5 DEF Inv

(* The next registration goes to the end: its priority is the lowest yet.    *)
LEMMA RegisterInv ==
  ASSUME Inv, Register
  PROVE  Inv'
<1> DEFINE T == [system : Systems, priority : Nat]
<1>1. /\ pc = "register" /\ at \in 1 .. 7 /\ order = SubSeq(Registrations, 1, at - 1)
      /\ up = {} /\ current = 0
  BY DEF Inv, Register, Ordered, Standing, Dispatching
<1>2. Registrations \in Seq(T) /\ Len(Registrations) = 7
  BY Table
<1> HIDE DEF T
<1>3. \A k \in 1 .. 7 : Registrations[k] \in T
  BY <1>2, ElementOfSeq
<1>4. /\ order \in Seq(T) /\ Len(order) = at - 1
      /\ \A i \in 1 .. at - 1 : order[i] = Registrations[i]
  <2>1. \A i \in 1 .. at - 1 : Registrations[i] \in T
    BY <1>1, <1>3
  <2> QED BY <1>1, <2>1, SubSeqProperties
<1>5. PICK i \in 1 .. Len(order) + 1 :
        order' = InsertAt(order, i, Registrations[at]) /\ Sorted(order')
  BY DEF Register
<1>6. /\ order' \in Seq(T) /\ Len(order') = at /\ order'[i] = Registrations[at]
      /\ i <= Len(order) => order'[i + 1] = order[i]
      /\ i = Len(order) + 1 => order' = Append(order, Registrations[at])
  <2>1. Len(order) + 1 = at /\ Registrations[at] \in T
    BY <1>1, <1>4, <1>3
  <2> DEFINE e == Registrations[at]
  <2>2. order \in Seq(T) /\ e \in T /\ i \in 1 .. Len(order) + 1
    BY <1>4, <1>5, <2>1
  <2>3. order' = InsertAt(order, i, e)
    BY <1>5
  <2> HIDE DEF e
  <2>4. /\ InsertAt(order, i, e) \in Seq(T)
        /\ Len(InsertAt(order, i, e)) = Len(order) + 1
        /\ InsertAt(order, i, e)[i] = e
        /\ i <= Len(order) => InsertAt(order, i, e)[i + 1] = order[i]
        /\ i = Len(order) + 1 => InsertAt(order, i, e) = Append(order, e)
    BY <2>2, InsertAtProperties
  <2> QED BY <2>1, <2>3, <2>4 DEF e
<1>7. i = at
  <2> SUFFICES ASSUME i <= at - 1 PROVE FALSE
    BY <1>1, <1>4, <1>5
  <2>1. order'[i] = Registrations[at] /\ order'[i + 1] = Registrations[i]
    BY <1>1, <1>4, <1>6
  <2>2. i \in DOMAIN order' /\ i + 1 \in DOMAIN order'
    BY <1>1, <1>4, <1>6, LenProperties
  <2>3. Registrations[at].priority >= Registrations[i].priority
    BY <1>5, <2>1, <2>2 DEF Sorted
  <2>4. i \in 1 .. 7 /\ i < at
    BY <1>1, <1>4, <1>5
  <2>5. Registrations[i].priority > Registrations[at].priority
    BY <1>1, <2>4, Table
  <2>6. Registrations[i].priority \in Nat /\ Registrations[at].priority \in Nat
    BY <1>1, <2>4, Table
  <2> QED BY <2>3, <2>5, <2>6
<1>8. order' = SubSeq(Registrations, 1, at)
  <2>1. order' = Append(order, Registrations[at])
    BY <1>1, <1>4, <1>7, <1>6
  <2>2. SubSeq(Registrations, 1, at) = SubSeq(Registrations, 1, at - 1) \o <<Registrations[at]>>
    BY <1>1, Table, SubSeqRecursiveSecond
  <2> QED BY <1>1, <1>2, <1>4, <2>1, <2>2, AppendIsConcat
<1>9. /\ IF at = 7 THEN at' = 1 /\ pc' = "initialise" ELSE at' = at + 1 /\ pc' = "register"
      /\ UNCHANGED <<up, logger, unflushed, closeRequested, isRunning, frameStart, queue>>
  BY Table DEF Register
<1>10. Ordered'
  <2>1. CASE at = 7
    BY <1>8, <1>9, <2>1, Table, SubSeqFull DEF Ordered
  <2>2. CASE at # 7
    BY <1>1, <1>8, <1>9, <2>2 DEF Ordered
  <2> QED BY <2>1, <2>2
<1>11. QueueProofs!Inv' /\ Queue!TypeOK'
  BY QueueKept DEF Next, Run, Initialise
<1>12. TypeOK'
  <2>1. order' \in Seq([system : Systems, priority : Nat])
    BY <1>1, <1>4, <1>7, <1>3, <1>6, AppendProperties DEF T
  <2>2. at' \in 0 .. Len(Registrations) + 1
    BY <1>1, <1>2, <1>9
  <2>3. pc' \in Phases
    BY <1>9 DEF Phases
  <2> QED BY <1>9, <1>11, <2>1, <2>2, <2>3 DEF Inv, TypeOK, queue
<1>13. Standing' /\ Dispatching' /\ ThisFrame' /\ NeverCrashes'
  BY <1>1, <1>9, UpToNone DEF Standing, Serving, Dispatching, ThisFrame, NeverCrashes, queue
<1> QED BY <1>10, <1>11, <1>12, <1>13 DEF Inv

(* initialise() brings the next system up, the logging system first. *)
LEMMA InitialiseSystemInv ==
  ASSUME Inv, InitialiseSystem
  PROVE  Inv'
<1>1. /\ pc = "initialise" /\ at \in 1 .. 7 /\ up = UpTo(at - 1) /\ (at > 1 => logger = "open")
      /\ order = Registrations /\ System = Registrations[at].system
  BY Built DEF Inv, InitialiseSystem, Standing
<1>2. /\ up' = up \cup {System} /\ at' = at + 1 /\ unflushed' = TRUE
      /\ logger' = (IF System = "SystemLogging" THEN "open" ELSE logger)
      /\ pc' = (IF logger' = "open" THEN "initialise" ELSE "crashed")
      /\ UNCHANGED <<order, closeRequested, isRunning, frameStart, messages, posted, current>>
  BY DEF InitialiseSystem, queue, Queue!RegisterReceiver
<1>3. logger' = "open" /\ pc' = "initialise"
  <2>1. at = 1 => System = "SystemLogging"
    BY <1>1, Names
  <2> QED BY <1>1, <1>2, <2>1
<1>4. up' = UpTo(at) /\ up' \subseteq Systems
  BY <1>1, <1>2, UpToStep
<1>5. QueueProofs!Inv' /\ Queue!TypeOK'
  BY QueueKept DEF Next, Run, Initialise
<1>6. TypeOK'
  <2>1. at' \in 0 .. Len(Registrations) + 1
    BY <1>1, <1>2, Table
  <2>2. order' \in Seq([system : Systems, priority : Nat])
    BY <1>1, <1>2 DEF Inv, TypeOK
  <2>3. pc' \in Phases
    BY <1>3 DEF Phases
  <2>4. unflushed' \in BOOLEAN /\ closeRequested' \in BOOLEAN /\ isRunning' \in BOOLEAN
        /\ frameStart' \in 0 .. Len(posted')
    BY <1>2 DEF Inv, TypeOK
  <2> QED BY <1>3, <1>4, <1>5, <2>1, <2>2, <2>3, <2>4 DEF TypeOK
<1>7. Standing'
  BY <1>1, <1>2, <1>3, <1>4 DEF Standing, Serving
<1> QED BY <1>1, <1>2, <1>3, <1>5, <1>6, <1>7
        DEF Inv, Ordered, Dispatching, ThisFrame, NeverCrashes

(* The other steps of initialise() and the load of the first scene. *)
LEMMA StartInv ==
  ASSUME Inv,
         \/ InitialiseThrows \/ InitialiseUndefined \/ CreateWindow \/ CreateWindowUndefined
         \/ LoadScene \/ LoadSceneThrows
  PROVE  Inv'
<1>1. pc \in {"initialise", "load"} /\ order = Registrations /\ at \in 0 .. 8 /\ Len(order) = 7
  BY Built DEF InitialiseThrows, InitialiseUndefined, CreateWindow, CreateWindowUndefined,
               LoadScene, LoadSceneThrows
<1>2. QueueProofs!Inv' /\ Queue!TypeOK'
  BY QueueKept DEF Next, Run, Initialise
<1>3. UNCHANGED queue /\ current = 0 /\ current' = 0 /\ order' = order
  BY <1>1 DEF Inv, Dispatching, queue, engine, InitialiseThrows, InitialiseUndefined,
              CreateWindow, CreateWindowUndefined, LoadScene, LoadSceneThrows
<1>4. CASE InitialiseThrows \/ InitialiseUndefined \/ CreateWindowUndefined \/ LoadSceneThrows
  <2>1. pc' \in {"threw", "undefined"} /\ UNCHANGED engine
    BY <1>4 DEF InitialiseThrows, InitialiseUndefined, CreateWindowUndefined, LoadSceneThrows
  <2>2. \E n \in 0 .. 7 : up = UpTo(n)
    <3>1. CASE pc = "initialise"
      BY <3>1 DEF Inv, Standing
    <3>2. CASE pc = "load"
      BY <3>2 DEF Inv, Standing, Serving
    <3> QED BY <1>1, <3>1, <3>2
  <2>3. TypeOK'
    BY <1>2, <1>3, <2>1 DEF Inv, TypeOK, Ended, engine, queue
  <2> QED BY <1>1, <1>2, <1>3, <2>1, <2>2, <2>3
          DEF Inv, Ordered, Standing, Serving, Dispatching, ThisFrame, NeverCrashes, engine
<1>5. CASE CreateWindow
  <2>1. /\ pc = "initialise" /\ at = 8 /\ up = UpTo(7) /\ logger = "open"
        /\ pc' = "load" /\ unflushed' = TRUE
        /\ UNCHANGED <<order, at, up, logger, closeRequested, isRunning, frameStart>>
    <3>1. pc = "initialise" /\ at = 8
      BY <1>1, <1>5 DEF CreateWindow, Inv, Standing
    <3> QED BY <1>5, <3>1 DEF CreateWindow, LogThen, Inv, Standing
  <2>2. TypeOK'
    BY <1>2, <1>3, <2>1 DEF Inv, TypeOK, Phases, queue
  <2> QED BY <1>1, <1>2, <1>3, <2>1, <2>2
          DEF Inv, Ordered, Standing, Serving, Dispatching, ThisFrame, NeverCrashes
<1>6. CASE LoadScene
  <2>1. /\ up = UpTo(7) /\ logger = "open"
        /\ isRunning' = TRUE /\ at' = 1 /\ frameStart' = Len(posted) /\ pc' = "update"
        /\ UNCHANGED <<order, up, logger, unflushed, closeRequested>>
    BY <1>6 DEF LoadScene, Inv, Standing, Serving
  <2>2. Len(posted) \in Nat
    BY LenProperties DEF Inv, TypeOK, Queue!TypeOK
  <2>3. TypeOK'
    BY <1>2, <1>3, <2>1, <2>2, Table DEF Inv, TypeOK, Phases, queue
  <2> QED BY <1>1, <1>2, <1>3, <2>1, <2>3
          DEF Inv, Ordered, Standing, Serving, Dispatching, ThisFrame, NeverCrashes
<1> QED BY <1>4, <1>5, <1>6

(* What the steps of update() share: the systems stay up, the logger open.   *)
LEMMA UpdateFacts ==
  ASSUME Inv, pc = "update"
  PROVE  /\ at \in 1 .. 8 /\ up = UpTo(7) /\ logger = "open"
         /\ order = Registrations /\ Len(order) = 7 /\ System = Registrations[at].system
         /\ Len(messages) \in Nat /\ Len(posted) \in Nat /\ frameStart \in 0 .. Len(posted)
         /\ current # 0 => at = 2
<1>1. messages \in Seq(Events) /\ posted \in Seq(Events)
  BY DEF Inv, TypeOK, Queue!TypeOK
<1>2. /\ at \in 1 .. 8 /\ up = UpTo(7) /\ logger = "open" /\ frameStart \in 0 .. Len(posted)
      /\ current # 0 => at = 2
  BY DEF Inv, Standing, Serving, TypeOK, Dispatching
<1> QED BY <1>1, <1>2, Built, LenProperties

(* Only the systems of those names stand at these places. *)
LEMMA Places ==
  ASSUME NEW n \in 1 .. 7
  PROVE  /\ Registrations[n].system = "SystemEvents" <=> n = 2
         /\ Registrations[n].system = "SystemPlatform" <=> n = 3
         /\ Registrations[n].system = "SystemLogging" <=> n = 1
<1>1. \A k \in 1 .. 7 : n # k => Registrations[n].system # Registrations[k].system
  BY Table
<1>2. n # 1 => Registrations[n].system # Registrations[1].system
  BY <1>1
<1>3. n # 2 => Registrations[n].system # Registrations[2].system
  BY <1>1
<1>4. n # 3 => Registrations[n].system # Registrations[3].system
  BY <1>1
<1> QED BY <1>2, <1>3, <1>4, Names

(* A step of update() that leaves the phase and the engine's books as they   *)
(* are, but for the place it is at and the close request.                    *)
LEMMA WithinUpdateInv ==
  ASSUME Inv, [Next]_vars, pc = "update", pc' = "update", at' \in 1 .. 8,
         UNCHANGED <<order, up, logger, frameStart, isRunning>>,
         unflushed' \in BOOLEAN, closeRequested' \in BOOLEAN,
         Len(posted) <= Len(posted'), Dispatching', ThisFrame'
  PROVE  Inv'
<1>1. /\ up = UpTo(7) /\ logger = "open" /\ order = Registrations
      /\ frameStart \in 0 .. Len(posted)
  BY UpdateFacts
<1>2. QueueProofs!Inv' /\ Queue!TypeOK'
  BY QueueKept
<1>3. Len(posted) \in Nat /\ Len(posted') \in Nat
  BY <1>2, UpdateFacts, LenProperties DEF Queue!TypeOK
<1>4. TypeOK'
  <2>1. at' \in 0 .. Len(Registrations) + 1
    BY Table
  <2>2. order' \in Seq([system : Systems, priority : Nat]) /\ up' \in SUBSET Systems
        /\ isRunning' \in BOOLEAN
    BY DEF Inv, TypeOK
  <2>3. pc' \in Phases
    BY DEF Phases
  <2>4. frameStart' \in 0 .. Len(posted')
    BY <1>1, <1>3
  <2> QED BY <1>1, <1>2, <2>1, <2>2, <2>3, <2>4 DEF TypeOK
<1>5. Standing' /\ Ordered' /\ NeverCrashes'
  BY <1>1 DEF Standing, Serving, Ordered, NeverCrashes
<1> QED BY <1>2, <1>4, <1>5 DEF Inv

(* The systems are updated in order; SystemEvents leaves its update() with   *)
(* nothing queued, and after that only the platform posts.                   *)
LEMMA UpdateSystemInv ==
  ASSUME Inv, UpdateSystem \/ PollClose \/ PollReturns
  PROVE  Inv'
<1>1. /\ pc = "update" /\ pc' = "update" /\ at \in 1 .. 7 /\ at # 2 /\ at' \in {at, at + 1}
      /\ closeRequested' \in BOOLEAN /\ unflushed' \in BOOLEAN
      /\ UNCHANGED <<order, up, logger, frameStart, isRunning, messages, posted, current>>
      /\ (at = 1 \/ at >= 3)
  <2>1. pc = "update" /\ at <= Len(order) /\ System # "SystemEvents"
    BY DEF UpdateSystem, PollClose, PollReturns, Updating
  <2>2. at \in 1 .. 7 /\ at # 2
    <3>1. at \in 1 .. 8 /\ System = Registrations[at].system /\ Len(order) = 7
      BY <2>1, UpdateFacts
    <3>2. at \in 1 .. 7
      BY <2>1, <3>1
    <3> QED BY <2>1, <3>1, <3>2, Places
  <2>3. closeRequested \in BOOLEAN /\ unflushed \in BOOLEAN
    BY DEF Inv, TypeOK
  <2>4. /\ pc' = pc /\ at' \in {at, at + 1} /\ (closeRequested' = TRUE \/ UNCHANGED closeRequested)
        /\ UNCHANGED <<order, up, logger, unflushed, frameStart, isRunning>>
        /\ UNCHANGED <<messages, posted, current>>
    BY DEF UpdateSystem, PollClose, PollReturns, queue
  <2>5. at = 1 \/ at >= 3
    BY <2>2
  <2>6. closeRequested' \in BOOLEAN /\ unflushed' \in BOOLEAN
    BY <2>3, <2>4, Zenon
  <2> QED BY <2>1, <2>2, <2>4, <2>5, <2>6
<1>2. current = 0 /\ Len(posted) \in Nat
  BY <1>1, UpdateFacts
<1>3. Dispatching'
  BY <1>1, <1>2 DEF Dispatching
<1>4. ThisFrame'
  BY <1>1 DEF Inv, ThisFrame
<1> QED BY <1>1, <1>2, <1>3, <1>4, WithinUpdateInv DEF Next, Run, Update, Poll

LEMMA DispatchInv ==
  ASSUME Inv, DispatchEvents
  PROVE  Inv'
<1>1. pc = "update" /\ at = 2
  <2>1. pc = "update" /\ at <= Len(order) /\ System = "SystemEvents"
    BY DEF DispatchEvents, BeginEvents, DeliverEvent, PopEvent, EndEvents, Updating
  <2>2. at \in 1 .. 8 /\ System = Registrations[at].system /\ Len(order) = 7
    BY <2>1, UpdateFacts
  <2>3. at \in 1 .. 7
    BY <2>1, <2>2
  <2> QED BY <2>1, <2>2, <2>3, Places
<1>2. logger = "open" /\ Len(posted) \in Nat /\ frameStart \in 0 .. Len(posted)
  BY <1>1, UpdateFacts
<1>3. /\ pc' = "update" /\ unflushed' \in BOOLEAN /\ closeRequested' \in BOOLEAN
      /\ UNCHANGED <<order, up, logger, frameStart, isRunning, posted>>
  BY <1>1, <1>2 DEF DispatchEvents, BeginEvents, DeliverEvent, PopEvent, EndEvents, LogThen,
         Queue!BeginUpdate, Queue!CallReceiver, Queue!PopMessage, Queue!EndUpdate,
         Queue!history, engine, Inv, TypeOK
<1>4. at' = 2 \/ (at' = 3 /\ messages' = <<>> /\ current' = 0)
  BY <1>1 DEF DispatchEvents, BeginEvents, DeliverEvent, PopEvent, EndEvents,
              Queue!EndUpdate, engine
<1>5. Dispatching'
  BY <1>3, <1>4 DEF Dispatching
<1>6. ThisFrame'
  <2>1. CASE at' = 2
    BY <1>3, <2>1 DEF ThisFrame
  <2>2. CASE messages' = <<>>
    BY <1>2, <1>3, <2>2 DEF ThisFrame
  <2> QED BY <1>4, <2>1, <2>2
<1> QED BY <1>1, <1>2, <1>3, <1>4, <1>5, <1>6, WithinUpdateInv DEF Next, Run, Update

LEMMA PollResizeInv ==
  ASSUME Inv, NEW e \in Events, PollResize(e)
  PROVE  Inv'
<1>1. pc = "update" /\ at = 3
  <2>1. pc = "update" /\ at <= Len(order) /\ System = "SystemPlatform"
    BY DEF PollResize, Updating
  <2>2. at \in 1 .. 8 /\ System = Registrations[at].system /\ Len(order) = 7
    BY <2>1, UpdateFacts
  <2>3. at \in 1 .. 7
    BY <2>1, <2>2
  <2> QED BY <2>1, <2>2, <2>3, Places
<1>2. /\ pc' = "update" /\ at' = 3
      /\ unflushed' \in BOOLEAN /\ closeRequested' \in BOOLEAN
      /\ UNCHANGED <<order, up, logger, frameStart, isRunning, current>>
      /\ messages' = Append(messages, e) /\ posted' = Append(posted, e)
  BY <1>1 DEF PollResize, engine, Inv, TypeOK, Queue!PostEvent
<1>3. Len(messages') = Len(messages) + 1 /\ Len(posted') = Len(posted) + 1
  BY <1>2, AppendProperties DEF Inv, TypeOK, Queue!TypeOK
<1>4. /\ current = 0 /\ Len(posted) \in Nat /\ Len(messages) \in Nat
      /\ frameStart \in 0 .. Len(posted)
  BY <1>1, UpdateFacts
<1>5. Dispatching'
  BY <1>2, <1>4 DEF Dispatching
<1>6. ThisFrame'
  BY <1>1, <1>2, <1>3, <1>4 DEF Inv, ThisFrame
<1> QED BY <1>1, <1>2, <1>3, <1>4, <1>5, <1>6, WithinUpdateInv DEF Next, Run, Update, Poll

(* The end of update(), and the two ways out of flush(). *)
LEMMA EndFrameInv ==
  ASSUME Inv, CheckClose \/ EndFrame
  PROVE  Inv'
<1>1. /\ pc \in {"update", "flush"} /\ up = UpTo(7) /\ logger = "open" /\ order = Registrations
      /\ Len(order) = 7
  <2>1. pc \in {"update", "flush"}
    BY DEF CheckClose, EndFrame, FlushThrows, NextFrame, LeaveLoop
  <2> QED BY <2>1, Built DEF Inv, Standing, Serving
<1>2. QueueProofs!Inv' /\ Queue!TypeOK'
  BY QueueKept DEF Next, Run, Update
<1>3. /\ UNCHANGED <<order, up, logger, closeRequested, queue>>
  BY DEF CheckClose, EndFrame, FlushThrows, NextFrame, LeaveLoop, engine
<1>4. current = 0
  <2>1. pc = "update" => at > 7
    BY <1>1 DEF CheckClose, EndFrame, FlushThrows, NextFrame, LeaveLoop
  <2> QED BY <1>1, <2>1 DEF Inv, Dispatching
<1>5. Dispatching' /\ Ordered'
  <2>1. pc' # "register"
    BY <1>1 DEF CheckClose, EndFrame, FlushThrows, NextFrame, LeaveLoop, LogThen
  <2> QED BY <1>1, <1>3, <1>4, <2>1 DEF Dispatching, Ordered, queue
<1>6. Len(posted) \in Nat /\ isRunning \in BOOLEAN /\ closeRequested \in BOOLEAN
  BY LenProperties DEF Inv, TypeOK, Queue!TypeOK
<1>7. CASE CheckClose
  <2>1. /\ pc = "update" /\ at \in 1 .. 8 /\ at > 7 /\ pc' = "flush"
        /\ UNCHANGED <<at, unflushed, frameStart>>
    BY <1>1, <1>7 DEF CheckClose, Inv, Standing
  <2>2. isRunning' \in BOOLEAN
    BY <1>6, <1>7 DEF CheckClose
  <2>3. TypeOK'
    BY <1>1, <1>2, <1>3, <2>1, <2>2 DEF Inv, TypeOK, Phases, queue
  <2>4. Standing' /\ NeverCrashes'
    BY <1>1, <1>3, <2>1 DEF Standing, Serving, NeverCrashes
  <2>5. ThisFrame'
    BY <1>3, <2>1 DEF Inv, ThisFrame, queue
  <2> QED BY <1>2, <1>5, <2>3, <2>4, <2>5 DEF Inv
<1>8. CASE FlushThrows
  <2>1. pc' = "threw" /\ UNCHANGED engine
    BY <1>8 DEF FlushThrows
  <2>2. TypeOK'
    BY <1>2, <1>3, <2>1 DEF Inv, TypeOK, Ended, engine, queue
  <2>3. Standing' /\ NeverCrashes' /\ ThisFrame'
    BY <1>1, <1>3, <2>1 DEF Standing, Serving, NeverCrashes, ThisFrame
  <2> QED BY <1>2, <1>5, <2>2, <2>3 DEF Inv
<1>9. CASE NextFrame
  <2>1. at' = 1 /\ frameStart' = Len(posted) /\ pc' = "update" /\ UNCHANGED <<unflushed, isRunning>>
    BY <1>9 DEF NextFrame
  <2>2. TypeOK'
    BY <1>2, <1>3, <1>6, <2>1, Table DEF Inv, TypeOK, Phases, queue
  <2>3. Standing' /\ NeverCrashes' /\ ThisFrame'
    BY <1>1, <1>3, <2>1 DEF Standing, Serving, NeverCrashes, ThisFrame
  <2> QED BY <1>2, <1>5, <2>2, <2>3 DEF Inv
<1>10. CASE LeaveLoop
  <2>1. at' = 7 /\ unflushed' = TRUE /\ pc' = "shutdown" /\ UNCHANGED <<isRunning, frameStart>>
    BY <1>1, <1>10 DEF LeaveLoop, LogThen
  <2>2. TypeOK'
    BY <1>2, <1>3, <2>1, Table DEF Inv, TypeOK, Phases, queue
  <2>3. Standing' /\ NeverCrashes' /\ ThisFrame'
    BY <1>1, <1>3, <2>1 DEF Standing, Serving, NeverCrashes, ThisFrame
  <2> QED BY <1>2, <1>5, <2>2, <2>3 DEF Inv
<1> QED BY <1>7, <1>8, <1>9, <1>10 DEF EndFrame

(* shutdown() takes the systems down in reverse, the logging system last.    *)
LEMMA ShutdownInv ==
  ASSUME Inv, Shutdown \/ Terminated \/ UNCHANGED vars
  PROVE  Inv'
<1>1. QueueProofs!Inv' /\ Queue!TypeOK' /\ UNCHANGED queue
  BY QueueKept DEF Next, Run, Shutdown, ShutdownSystem, Return, Terminated, vars
<1>2. CASE ShutdownSystem
  <2>1. /\ pc = "shutdown" /\ at \in 1 .. 7 /\ up = UpTo(at) /\ logger = "open"
        /\ order = Registrations /\ System = Registrations[at].system
    BY <1>2, Built DEF ShutdownSystem, Inv, Standing
  <2>2. /\ up' = up \ {System} /\ at' = at - 1 /\ pc' = "shutdown"
        /\ logger' = (IF System = "SystemLogging" THEN "null" ELSE logger)
        /\ unflushed' = (System # "SystemLogging")
        /\ UNCHANGED <<order, closeRequested, isRunning, frameStart>>
    BY <1>2, <2>1 DEF ShutdownSystem, LogThen
  <2>3. up' = UpTo(at - 1) /\ (System = "SystemLogging" <=> at = 1)
    BY <2>1, <2>2, UpToStep, Places
  <2>4. TypeOK'
    <3>1. up' \subseteq Systems
      BY <2>2 DEF Inv, TypeOK
    <3>2. at' \in 0 .. Len(Registrations) + 1
      BY <2>1, <2>2, Table
    <3> QED BY <1>1, <2>1, <2>2, <3>1, <3>2 DEF Inv, TypeOK, queue, Phases
  <2>5. Standing'
    <3>1. pc' = "shutdown" /\ at' \in 0 .. 7 /\ up' = UpTo(at')
      BY <2>1, <2>2, <2>3
    <3>2. at' >= 1 => logger' = "open"
      BY <2>1, <2>2, <2>3
    <3>3. at' = 0 => System = "SystemLogging"
      BY <2>1, <2>2, <2>3
    <3>4. at' = 0 => ~unflushed'
      BY <2>2, <3>3, Zenon
    <3> QED BY <3>1, <3>2, <3>4 DEF Standing, Serving
  <2>6. Ordered' /\ Dispatching' /\ ThisFrame' /\ NeverCrashes'
    BY <1>1, <2>1, <2>2 DEF Inv, Ordered, Dispatching, ThisFrame, NeverCrashes, queue
  <2> QED BY <1>1, <2>4, <2>5, <2>6 DEF Inv
<1>3. CASE Return
  <2>1. pc = "shutdown" /\ at = 0 /\ pc' = "returned" /\ UNCHANGED engine
    BY <1>3 DEF Return
  <2>2. up = {} /\ ~unflushed
    BY <2>1, UpToNone DEF Inv, Standing
  <2>3. TypeOK'
    BY <1>1, <2>1 DEF Inv, TypeOK, Ended, engine, queue
  <2> QED BY <1>1, <2>1, <2>2, <2>3
          DEF Inv, Ordered, Standing, Serving, Dispatching, ThisFrame, NeverCrashes, engine, queue
<1>4. CASE Terminated \/ UNCHANGED vars
  <2>1. UNCHANGED vars
    BY <1>4 DEF Terminated
  <2> QED BY <1>1, <2>1 DEF Inv, TypeOK, Ordered, Standing, Dispatching, ThisFrame, NeverCrashes,
                            vars, engine, queue
<1> QED BY <1>2, <1>3, <1>4 DEF Shutdown

(* Inv holds in every reachable state. *)
THEOREM Invariance == Spec => []Inv
<1>1. Init => Inv
  BY InitInv
<1>2. Inv /\ [Next]_vars => Inv'
  BY RegisterInv, InitialiseSystemInv, StartInv, UpdateSystemInv, DispatchInv, PollResizeInv,
     EndFrameInv, ShutdownInv
     DEF Next, Run, Initialise, Update, Poll
<1> QED BY <1>1, <1>2, PTL DEF Spec

-----------------------------------------------------------------------------
(* The engine's and the queue's books keep their types, and frameStart never *)
(* counts an event that was not posted.                                      *)
THEOREM TypeCorrect == Spec => []TypeOK
<1>1. Inv => TypeOK
  BY DEF Inv
<1> QED BY <1>1, Invariance, PTL

(* Nothing is logged while there is no logger, in no phase of run().         *)
THEOREM LoggerWhenNeeded == Spec => []NeverCrashes
<1>1. Inv => NeverCrashes
  BY DEF Inv
<1> QED BY <1>1, Invariance, PTL

(* The systems that are up are the first ones of the order: all of them as   *)
(* long as they serve run() and call one another, the logging system and the *)
(* events from before any other's initialise() needs them, the logging       *)
(* system until every other has shut down.                                   *)
THEOREM NoneCalledWhenDown == Spec => []CalledAreUp
<1>1. Inv => CalledAreUp
  <2> SUFFICES ASSUME Inv PROVE CalledAreUp
    OBVIOUS
  <2>1. ASSUME pc = "initialise", at <= Len(order)
        PROVE  AtInitialise[System] \subseteq up \cup {System}
    <3>1. at \in 1 .. 7 /\ up = UpTo(at - 1) /\ System = Registrations[at].system
      BY <2>1, Built DEF Inv, Standing
    <3>2. System \in Systems /\ (System = "SystemRenderer" => at = 4)
      BY <3>1, Table, Names
    <3>3. at > 1 => "SystemLogging" \in up
      <4>1. at > 1 => 1 \in 1 .. at - 1
        BY <3>1
      <4> QED BY <3>1, <4>1, Names DEF UpTo
    <3>4. at = 1 => System = "SystemLogging"
      BY <3>1, Names
    <3>5. at = 4 => "SystemEvents" \in up
      <4>1. at = 4 => 2 \in 1 .. at - 1
        OBVIOUS
      <4> QED BY <3>1, <4>1, Names DEF UpTo
    <3>6. "SystemLogging" \in up \cup {System}
      BY <3>1, <3>3, <3>4
    <3> QED BY <3>2, <3>5, <3>6 DEF AtInitialise
  <2>2. ASSUME pc \in Serving \/ (pc = "initialise" /\ at > Len(order))
        PROVE  RunCalls \subseteq up /\ \A s \in up : AtRun[s] \subseteq up
    <3>1. up = Systems
      <4>1. CASE pc \in Serving
        BY <4>1, UpToAll DEF Inv, Standing
      <4>2. CASE pc = "initialise" /\ at > Len(order)
        <5>1. at = 8 /\ up = UpTo(at - 1)
          BY <4>2, Built DEF Inv, Standing
        <5> QED BY <5>1, UpToAll
      <4> QED BY <2>2, <4>1, <4>2
    <3>2. {"SystemLogging", "SystemEvents", "SystemPlatform", "SystemRenderer",
           "SystemScripting", "SystemResources", "SystemScene"} \subseteq Systems
      BY Table, Names
    <3>3. ASSUME NEW s \in Systems PROVE AtRun[s] \subseteq Systems
      <4>1. PICK i \in 1 .. 7 : s = Registrations[i].system
        BY Table DEF Systems
      <4>2. CASE i = 1
        BY <3>2, <4>1, <4>2, Names DEF AtRun
      <4>3. CASE i = 2
        BY <3>2, <4>1, <4>3, Names DEF AtRun
      <4>4. CASE i = 3
        BY <3>2, <4>1, <4>4, Names DEF AtRun
      <4>5. CASE i = 4
        BY <3>2, <4>1, <4>5, Names DEF AtRun
      <4>6. CASE i = 5
        BY <3>2, <4>1, <4>6, Names DEF AtRun
      <4>7. CASE i = 6
        BY <3>2, <4>1, <4>7, Names DEF AtRun
      <4>8. CASE i = 7
        BY <3>2, <4>1, <4>8, Names DEF AtRun
      <4> QED BY <4>1, <4>2, <4>3, <4>4, <4>5, <4>6, <4>7, <4>8
    <3> QED BY <3>1, <3>2, <3>3 DEF RunCalls
  <2>3. ASSUME pc = "shutdown", at >= 1
        PROVE  AtShutdown[System] \subseteq up
    <3>1. at \in 1 .. 7 /\ up = UpTo(at) /\ System = Registrations[at].system
      BY <2>3, Built DEF Inv, Standing
    <3>2. System \in Systems /\ "SystemLogging" \in up
      <4>1. 1 \in 1 .. at
        BY <3>1
      <4> QED BY <3>1, <4>1, Table, Names DEF UpTo
    <3> QED BY <3>2 DEF AtShutdown
  <2> QED BY <2>1, <2>2, <2>3 DEF CalledAreUp, Serving
<1> QED BY <1>1, Invariance, PTL

(* An event waits for no more than the next frame, however many there are.   *)
THEOREM DeliveredWithinAFrame == Spec => []EventsWithinAFrame
<1>1. Inv => EventsWithinAFrame
  <2> SUFFICES ASSUME Inv PROVE EventsWithinAFrame
    OBVIOUS
  <2>1. pc = "flush" => Len(messages) <= Len(posted) - frameStart
    BY DEF Inv, ThisFrame
  <2>2. ASSUME NEW i \in DOMAIN order, pc = "update", order[i].system = "SystemEvents", i < at
        PROVE  Len(messages) <= Len(posted) - frameStart
    <3>1. i = 2
      BY <2>2, UpdateFacts, Places, Table
    <3> QED BY <2>2, <3>1, UpdateFacts DEF Inv, ThisFrame
  <2> QED BY <2>1, <2>2 DEF EventsWithinAFrame
<1> QED BY <1>1, Invariance, PTL

(* run() returns only with every system down and the log on the disk.        *)
THEOREM ReturnsClean == Spec => []CleanExit
<1>1. Inv => CleanExit
  BY DEF Inv, Standing, CleanExit
<1> QED BY <1>1, Invariance, PTL

(* The whole engine drives SystemEvents as its specification says: the queue *)
(* the window posts to and update() drains is the one EventQueue is about.   *)
THEOREM DrivesTheQueue == Spec => Queue!Spec
<1>1. Init => Queue!Init
  BY DEF Init
<1> QED BY <1>1, QueueSteps, PTL DEF Spec, Queue!Spec

(* Hence the renderer's receiver sees the window's events each once and in   *)
(* the order of their posts, across all the frames of a run.                 *)
THEOREM DeliversTheLog == Spec => QueueProofs!ImplementsEventLog
<1>1. Init => QueueProofs!Init
  BY SameQueue DEF Init
<1>2. [Next]_vars => [QueueProofs!Next]_(QueueProofs!vars)
  BY QueueSteps, SameQueue
<1>3. QueueProofs!Spec => QueueProofs!ImplementsEventLog
  BY EngineAssumption, QueueProofs!ImplementsLog DEF QueueProofs!EventQueueAssumption
<1> QED BY <1>1, <1>2, <1>3, PTL DEF Spec, QueueProofs!Spec
=============================================================================
