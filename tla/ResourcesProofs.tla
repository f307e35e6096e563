-------------------------- MODULE ResourcesProofs --------------------------
(* Theorems about Resources for every set of ids, every set of data         *)
(* directories, cyclic ones included, and every depth of the stack.         *)
EXTENDS Resources, SequenceTheorems, TLAPS

-----------------------------------------------------------------------------
(* The inductive invariant. Every call below the innermost one is waiting   *)
(* at a dependency, which is the resource of the call above it; the         *)
(* dependencies before that one are settled. A call of a resource that is   *)
(* already being loaded further out never gets past the dependency the      *)
(* outer call waits at (NoLap): it is what keeps a cyclic registry from     *)
(* running a factory twice or early, and it ends only when the stack does.  *)

Deps(i)    == dependencies[stack[i].id]
Waiting(i) == i < Len(stack)

StackRunning == stack # <<>> => status = "running"

FrameBounds == \A i \in 1 .. Len(stack) : stack[i].next <= Len(Deps(i)) + 1

Chained == \A i \in 1 .. Len(stack) : Waiting(i) =>
             /\ stack[i].at = "dependencies"
             /\ stack[i].next > 1
             /\ stack[i + 1].id = Deps(i)[stack[i].next - 1]

FactoryFrame == \A i \in 1 .. Len(stack) : stack[i].at = "factory" =>
                  /\ stack[i].next = Len(Deps(i)) + 1
                  /\ type[stack[i].id] \in Factories

FrameState == \A i \in 1 .. Len(stack) :
                state[stack[i].id] = IF stack[i].at = "factory" THEN "Loading" ELSE "NotLoaded"

Visited == \A i \in 1 .. Len(stack) : \A k \in 1 .. Len(Deps(i)) :
             (IF Waiting(i) THEN k + 1 < stack[i].next ELSE k < stack[i].next)
               => Settled(Deps(i)[k])

NoLap == \A i, j \in 1 .. Len(stack) : i < j /\ stack[i].id = stack[j].id =>
           IF Waiting(j) THEN stack[j].next <= stack[i].next
                         ELSE stack[j].next < stack[i].next

LoadingIsTop == status = "running" =>
  \A id \in Ids : state[id] = "Loading" =>
    stack # <<>> /\ Top.at = "factory" /\ Top.id = id

NothingYet == status \in {"starting", "registry"} =>
  \A id \in Ids : state[id] = "NotLoaded" /\ resource[id] = "null"

Inv == /\ TypeOK
       /\ StackRunning
       /\ FrameBounds
       /\ Chained
       /\ FactoryFrame
       /\ FrameState
       /\ Visited
       /\ NoLap
       /\ LoadingIsTop
       /\ NothingYet
       /\ LoadedMeansPresent
       /\ LoadedClosed

-----------------------------------------------------------------------------
(* The three ways in which an action changes the stack, position by position. *)

(* The caller moves past a dependency: only the last frame's index changes. *)
LEMMA AdvancedFrames ==
  ASSUME TypeOK, stack # <<>>
  PROVE  /\ Advanced \in Seq(Frame)
         /\ Len(Advanced) = Len(stack)
         /\ \A i \in 1 .. Len(stack) :
              /\ Advanced[i].id = stack[i].id
              /\ Advanced[i].at = stack[i].at
              /\ Advanced[i].next = IF i = Len(stack) THEN stack[i].next + 1
                                                      ELSE stack[i].next
<1>1. stack \in Seq(Frame) /\ Len(stack) \in 1 .. Len(stack)
  BY DEF TypeOK
<1> DEFINE moved == [stack[Len(stack)] EXCEPT !.next = @ + 1]
<1>2. stack[Len(stack)] \in Frame
  BY <1>1, ElementOfSeq
<1>3. moved \in Frame /\ moved.id = stack[Len(stack)].id
      /\ moved.at = stack[Len(stack)].at /\ moved.next = stack[Len(stack)].next + 1
  BY <1>2 DEF Frame
<1>4. Advanced = [stack EXCEPT ![Len(stack)] = moved]
  BY <1>1 DEF Advanced
<1> HIDE DEF moved
<1>5. /\ Advanced \in Seq(Frame)
      /\ Len(Advanced) = Len(stack)
      /\ \A i \in 1 .. Len(stack) : Advanced[i] = IF i = Len(stack) THEN moved ELSE stack[i]
  BY <1>1, <1>3, <1>4, ExceptSeq
<1> QED BY <1>3, <1>5

(* A call returns: the other frames stay. *)
LEMMA PoppedFrames ==
  ASSUME TypeOK, stack # <<>>
  PROVE  /\ Pop \in Seq(Frame)
         /\ Len(Pop) = Len(stack) - 1
         /\ \A i \in 1 .. Len(stack) - 1 : Pop[i] = stack[i]
<1>1. stack \in Seq(Frame) /\ Len(stack) \in Nat /\ Len(stack) > 0
  BY DEF TypeOK
<1> DEFINE n == Len(stack) - 1
<1>2. n \in Int /\ \A i \in 1 .. n : stack[i] \in Frame
  BY <1>1, ElementOfSeq
<1>3. /\ SubSeq(stack, 1, n) \in Seq(Frame)
      /\ Len(SubSeq(stack, 1, n)) = IF 1 <= n THEN n - 1 + 1 ELSE 0
      /\ \A i \in 1 .. n - 1 + 1 : SubSeq(stack, 1, n)[i] = stack[1 + i - 1]
  <2> HIDE DEF n
  <2> QED BY <1>2, SubSeqProperties
<1>4. n - 1 + 1 = n /\ \A i \in 1 .. n : 1 + i - 1 = i
  BY <1>1
<1>5. (IF 1 <= n THEN n - 1 + 1 ELSE 0) = n
  <2> n \in Nat
    BY <1>1
  <2> HIDE DEF n
  <2> CASE n = 0
    OBVIOUS
  <2> CASE n >= 1
    OBVIOUS
  <2> QED OBVIOUS
<1> HIDE DEF n
<1>6. /\ SubSeq(stack, 1, n) \in Seq(Frame)
      /\ Len(SubSeq(stack, 1, n)) = n
      /\ \A i \in 1 .. n : SubSeq(stack, 1, n)[i] = stack[i]
  BY <1>2, <1>3, <1>4, <1>5
<1>7. Pop = SubSeq(stack, 1, n)
  BY DEF Pop, n
<1>8. n = Len(stack) - 1
  BY DEF n
<1> QED BY <1>6, <1>7, <1>8, Zenon

(* A call begins, with the caller moved past it. *)
LEMMA PushedFrames ==
  ASSUME TypeOK, NEW id \in Ids,
         NEW pushed, pushed = Append(Advanced, [id |-> id, next |-> 1, at |-> "dependencies"])
  PROVE  /\ pushed \in Seq(Frame)
         /\ Len(pushed) = Len(stack) + 1
         /\ pushed[Len(pushed)] = [id |-> id, next |-> 1, at |-> "dependencies"]
         /\ \A i \in 1 .. Len(stack) :
              /\ pushed[i].id = stack[i].id
              /\ pushed[i].at = stack[i].at
              /\ pushed[i].next = IF i = Len(stack) THEN stack[i].next + 1
                                                    ELSE stack[i].next
<1> DEFINE new == [id |-> id, next |-> 1, at |-> "dependencies"]
<1>1. new \in Frame
  BY DEF Frame
<1>2. CASE stack = <<>>
  <2>1. stack \in Seq(Frame) /\ pushed = Append(stack, new)
    BY <1>2 DEF Advanced, TypeOK
  <2>2. Len(stack) = 0
    BY <1>2
  <2> HIDE DEF new
  <2>3. /\ Append(stack, new) \in Seq(Frame)
        /\ Len(Append(stack, new)) = Len(stack) + 1
        /\ Append(stack, new)[Len(stack) + 1] = new
    BY <1>1, <2>1, AppendProperties
  <2>4. pushed \in Seq(Frame) /\ Len(pushed) = Len(stack) + 1 /\ pushed[Len(stack) + 1] = new
    BY <2>1, <2>3, Zenon
  <2>5. 1 .. Len(stack) = {}
    BY <2>2
  <2>6. pushed[Len(pushed)] = new
    BY <2>4, Zenon
  <2> QED BY <2>4, <2>5, <2>6, Zenon DEF new
<1>3. CASE stack # <<>>
  <2> HIDE DEF new
  <2>1. /\ pushed \in Seq(Frame)
        /\ Len(pushed) = Len(Advanced) + 1
        /\ \A i \in 1 .. Len(Advanced) : pushed[i] = Advanced[i]
        /\ pushed[Len(Advanced) + 1] = new
    BY <1>1, <1>3, AdvancedFrames, AppendProperties DEF new
  <2> QED BY <1>3, <2>1, AdvancedFrames DEF new
<1> QED BY <1>2, <1>3

-----------------------------------------------------------------------------
(* Inv is inductive: the initial state, the steps made with no call active,  *)
(* then one lemma for each of the ways a call of load() goes on.             *)

StackInv == StackRunning /\ FrameBounds /\ Chained /\ FactoryFrame
              /\ FrameState /\ Visited /\ NoLap

(* What is said of the stack is empty when the stack is. *)
LEMMA EmptyStackInv == /\ stack = <<>> => StackInv
                       /\ stack' = <<>> => StackInv'
<1>1. ASSUME stack = <<>> PROVE StackInv
  <2>1. Len(stack) = 0 /\ 1 .. Len(stack) = {}
    BY <1>1
  <2> QED BY <1>1, <2>1 DEF StackInv, StackRunning, FrameBounds, Chained, FactoryFrame,
                            FrameState, Visited, NoLap
<1>2. ASSUME stack' = <<>> PROVE StackInv'
  <2>1. Len(stack') = 0 /\ 1 .. Len(stack') = {}
    BY <1>2
  <2> QED BY <1>2, <2>1 DEF StackInv, StackRunning, FrameBounds, Chained, FactoryFrame,
                            FrameState, Visited, NoLap
<1> QED BY <1>1, <1>2

(* The system as constructed satisfies the invariant. *)
LEMMA InitInv == Init => Inv
<1> SUFFICES ASSUME Init PROVE Inv
  OBVIOUS
<1>1. disk \in Disk
  BY ConstantsAssumption DEF Init
<1>2. TypeOK
  <2>1. nextEntry \in 1 .. Len(disk.registry) + 1
    BY <1>1 DEF Init, Disk
  <2>2. dependencies \in [Ids -> Seq(Ids)] /\ stack \in Seq(Frame)
    BY EmptySeq DEF Init
  <2> QED BY <2>1, <2>2 DEF Init, TypeOK, Status, ResourceType, ResourceState
<1>3. StackInv
  BY EmptyStackInv DEF Init
<1>4. LoadingIsTop /\ NothingYet /\ LoadedMeansPresent /\ LoadedClosed
  BY DEF Init, LoadingIsTop, NothingYet, LoadedMeansPresent, LoadedClosed
<1> QED BY <1>2, <1>3, <1>4 DEF Inv, StackInv

(* Reading the registry and walking the directory: nothing is loaded yet.    *)
LEMMA InitialiseInv == Inv /\ Initialise => Inv'
<1> SUFFICES ASSUME Inv, Initialise PROVE Inv'
  OBVIOUS
<1>1. /\ stack' = stack /\ disk' = disk /\ resource' = resource
      /\ status \in {"starting", "registry"}
  BY DEF Initialise, OpenRegistry, RegisterEntry, RegistryFails, RegisterFromDisk, metadata
<1>2. stack = <<>> /\ stack' = <<>>
  BY <1>1 DEF Inv, StackRunning
<1>3. disk \in Disk /\ TypeOK
  BY ConstantsAssumption DEF Inv, TypeOK
<1>4. TypeOK' /\ \A id \in Ids : state'[id] = "NotLoaded"
  <2>0. \A id \in Ids : state[id] = "NotLoaded"
    BY <1>1 DEF Inv, NothingYet
  <2>1. CASE OpenRegistry \/ RegistryFails
    BY <1>3, <2>0, <2>1 DEF OpenRegistry, RegistryFails, metadata, TypeOK, Status, Ended
  <2>2. CASE RegisterEntry
    <3> DEFINE e == disk.registry[nextEntry]
    <3>1. nextEntry \in 1 .. Len(disk.registry) /\ disk.registry \in Seq(Entry)
      BY <1>3, <2>2 DEF TypeOK, Disk, RegisterEntry
    <3>2. e \in Entry
      BY <3>1, ElementOfSeq
    <3>3. e.id \in Ids /\ e.type \in ResourceType /\ e.deps \in Seq(Ids)
      BY <3>2 DEF Entry
    <3>4. dependencies[e.id] \o e.deps \in Seq(Ids)
      BY <1>3, <3>3, ConcatProperties DEF TypeOK
    <3> HIDE DEF e
    <3>5. /\ registered' = registered \cup {e.id}
          /\ type' = [type EXCEPT ![e.id] = e.type]
          /\ state' = [state EXCEPT ![e.id] = "NotLoaded"]
          /\ dependencies' = [dependencies EXCEPT ![e.id] = @ \o e.deps]
          /\ nextEntry' = nextEntry + 1
          /\ UNCHANGED <<disk, status, resource, stack>>
      BY <2>2 DEF RegisterEntry, e
    <3>6. nextEntry' \in 1 .. Len(disk'.registry) + 1
      BY <3>1, <3>5
    <3>7. \A id \in Ids : state'[id] = "NotLoaded"
      BY <1>3, <2>0, <3>3, <3>5 DEF TypeOK
    <3>8. dependencies' \in [Ids -> Seq(Ids)]
      BY <1>3, <3>3, <3>4, <3>5 DEF TypeOK
    <3> QED BY <1>3, <3>3, <3>5, <3>6, <3>7, <3>8 DEF TypeOK, ResourceState
  <2>3. CASE RegisterFromDisk
    <3>1. disk.bins \subseteq Ids
      BY <1>3 DEF Disk
    <3>2. /\ registered' = registered \cup disk.bins
          /\ type' = [id \in Ids |-> IF id \in disk.bins THEN "StaticMesh" ELSE type[id]]
          /\ state' = [id \in Ids |-> IF id \in disk.bins THEN "NotLoaded" ELSE state[id]]
          /\ status' = "running"
          /\ UNCHANGED <<disk, nextEntry, resource, dependencies, stack>>
      BY <2>3 DEF RegisterFromDisk
    <3> QED BY <1>3, <2>0, <3>1, <3>2 DEF TypeOK, Status, ResourceType, ResourceState
  <2> QED BY <2>1, <2>2, <2>3 DEF Initialise
<1>5. StackInv'
  BY <1>2, EmptyStackInv
<1>6. \A id \in Ids : resource'[id] = "null"
  BY <1>1 DEF Inv, NothingYet
<1>7. LoadingIsTop' /\ NothingYet' /\ LoadedMeansPresent' /\ LoadedClosed'
  BY <1>4, <1>6 DEF LoadingIsTop, NothingYet, LoadedMeansPresent, LoadedClosed
<1> QED BY <1>4, <1>5, <1>7 DEF Inv, StackInv

(* The steps that unwind every call and end the engine. *)
Unwinds == /\ stack' = <<>>
           /\ status' \in Ended
           /\ UNCHANGED <<disk, nextEntry, metadata>>

(* An exception that unwinds the stack keeps the invariant. *)
LEMMA UnwindsInv == Inv /\ Unwinds => Inv'
<1> SUFFICES ASSUME Inv, Unwinds PROVE Inv'
  OBVIOUS
<1>1. TypeOK'
  BY EmptySeq DEF Inv, TypeOK, Unwinds, metadata, Status
<1>2. StackInv'
  BY EmptyStackInv DEF Unwinds
<1>3. LoadingIsTop' /\ NothingYet' /\ LoadedMeansPresent' /\ LoadedClosed'
  BY DEF Inv, Unwinds, metadata, Ended, LoadingIsTop, NothingYet, LoadedMeansPresent,
         LoadedClosed, Settled
<1> QED BY <1>1, <1>2, <1>3 DEF Inv, StackInv

(* unload and add_resource, made while no call is active. *)
LEMMA UnloadInv == ASSUME Inv, NEW id \in Ids, Unload(id) PROVE Inv'
<1>1. TypeOK'
  BY DEF Inv, TypeOK, Unload, ResourceState
<1>2. StackInv'
  BY EmptyStackInv DEF Unload, Idle
<1>3. /\ id \in Unloadable /\ status' = "running" /\ status = "running" /\ stack = <<>>
      /\ state' = [state EXCEPT ![id] = "NotLoaded"]
      /\ resource' = [resource EXCEPT ![id] = "null"]
      /\ type' = type /\ dependencies' = dependencies
  BY DEF Unload, Idle
<1>4. \A i \in Ids : /\ state'[i] = IF i = id THEN "NotLoaded" ELSE state[i]
                     /\ resource'[i] = IF i = id THEN "null" ELSE resource[i]
                     /\ Range(dependencies[i]) \subseteq Ids
  BY <1>3 DEF Inv, TypeOK, Range
<1>5. LoadingIsTop' /\ NothingYet' /\ LoadedMeansPresent'
  BY <1>3, <1>4 DEF Inv, LoadingIsTop, NothingYet, LoadedMeansPresent
<1>6. LoadedClosed'
  BY <1>3, <1>4 DEF Inv, LoadedClosed, Settled
<1> QED BY <1>1, <1>2, <1>5, <1>6 DEF Inv, StackInv

(* add_resource keeps the invariant: the id is loaded and there. *)
LEMMA AddResourceInv ==
  ASSUME Inv, NEW id \in Ids, NEW kind \in Factories, AddResource(id, kind)
  PROVE  Inv'
<1>1. TypeOK'
  BY DEF Inv, TypeOK, AddResource, ResourceState
<1>2. StackInv'
  BY EmptyStackInv DEF AddResource, Idle
<1>3. /\ id \in AppIds /\ status' = "running" /\ status = "running" /\ stack = <<>>
      /\ state' = [state EXCEPT ![id] = "Loaded"]
      /\ resource' = [resource EXCEPT ![id] = kind]
      /\ type' = type /\ dependencies' = dependencies
  BY DEF AddResource, Idle
<1>4. \A i \in Ids : /\ state'[i] = IF i = id THEN "Loaded" ELSE state[i]
                     /\ resource'[i] = IF i = id THEN kind ELSE resource[i]
                     /\ Range(dependencies[i]) \subseteq Ids
  BY <1>3 DEF Inv, TypeOK, Range
<1>5. LoadingIsTop' /\ NothingYet' /\ LoadedMeansPresent'
  BY <1>3, <1>4 DEF Inv, LoadingIsTop, NothingYet, LoadedMeansPresent, Factories
<1>6. LoadedClosed'
  BY <1>3, <1>4 DEF Inv, LoadedClosed, Settled
<1> QED BY <1>1, <1>2, <1>5, <1>6 DEF Inv, StackInv

(* The innermost call, and the type facts the next lemmas use. *)
LEMMA TopFacts ==
  ASSUME Inv, stack # <<>>
  PROVE  /\ Len(stack) \in Nat \ {0} /\ Top = stack[Len(stack)]
         /\ status = "running"
         /\ \A i \in 1 .. Len(stack) :
              /\ stack[i] \in Frame
              /\ stack[i].id \in Ids
              /\ stack[i].next \in Nat \ {0}
              /\ Deps(i) \in Seq(Ids)
              /\ Len(Deps(i)) \in Nat
              /\ \A k \in 1 .. Len(Deps(i)) : Deps(i)[k] \in Ids
<1>1. stack \in Seq(Frame) /\ dependencies \in [Ids -> Seq(Ids)]
  BY DEF Inv, TypeOK
<1>2. \A i \in 1 .. Len(stack) : stack[i] \in Frame
  BY <1>1, ElementOfSeq
<1>3. \A i \in 1 .. Len(stack) : stack[i].id \in Ids /\ stack[i].next \in Nat \ {0}
  BY <1>2 DEF Frame
<1>4. \A i \in 1 .. Len(stack) : Deps(i) \in Seq(Ids)
  BY <1>1, <1>3 DEF Deps
<1>5. \A i \in 1 .. Len(stack) :
        Len(Deps(i)) \in Nat /\ \A k \in 1 .. Len(Deps(i)) : Deps(i)[k] \in Ids
  BY <1>4, ElementOfSeq
<1>6. Len(stack) \in Nat \ {0}
  BY <1>1
<1>7. Top = stack[Len(stack)] /\ status = "running"
  BY DEF Inv, StackRunning, Top
<1> QED BY <1>2, <1>3, <1>4, <1>5, <1>6, <1>7

(* A dependency that is loaded already: the caller moves past it. With no   *)
(* call active nothing changes.                                             *)
LEMMA AlreadyLoadedInv == ASSUME Inv, NEW id \in Ids, AlreadyLoaded(id) PROVE Inv'
<1>1. /\ status' = status /\ disk' = disk /\ nextEntry' = nextEntry /\ UNCHANGED metadata
      /\ stack' = Advanced
      /\ Calls(id) /\ state[id] # "NotLoaded" /\ status = "running"
  BY DEF AlreadyLoaded, Calls
<1>2. /\ registered' = registered /\ type' = type /\ state' = state
      /\ resource' = resource /\ dependencies' = dependencies
  BY <1>1 DEF metadata
<1>3. NothingYet' /\ LoadedMeansPresent' /\ LoadedClosed'
  BY <1>1, <1>2 DEF Inv, NothingYet, LoadedMeansPresent, LoadedClosed, Settled
<1>4. CASE stack = <<>>
  <2>1. stack' = stack
    BY <1>1, <1>4 DEF Advanced
  <2>2. StackInv'
    BY <1>4, <2>1, EmptyStackInv
  <2>3. TypeOK' /\ LoadingIsTop'
    BY <1>1, <1>2, <2>1 DEF Inv, TypeOK, LoadingIsTop, Top
  <2> QED BY <1>3, <2>2, <2>3 DEF Inv, StackInv
<1>5. CASE stack # <<>>
  <2> DEFINE n == Len(stack)
  <2>1. TypeOK
    BY DEF Inv
  <2>2. /\ stack' \in Seq(Frame) /\ Len(stack') = n /\ stack' # <<>>
        /\ \A i \in 1 .. n :
              /\ stack'[i].id = stack[i].id
              /\ stack'[i].at = stack[i].at
              /\ stack'[i].next = IF i = n THEN stack[i].next + 1 ELSE stack[i].next
    BY <1>1, <1>5, <2>1, AdvancedFrames, TopFacts
  <2>3. /\ Top = stack[n] /\ Top.at = "dependencies" /\ Top.next <= Len(Deps(n))
        /\ id = Deps(n)[Top.next]
    BY <1>1, <1>5, TopFacts DEF Calls, InLoop, Deps
  <2>4. /\ n \in Nat \ {0}
        /\ \A i \in 1 .. n :
              /\ stack[i].next \in Nat \ {0}
              /\ Len(Deps(i)) \in Nat
              /\ Deps(i)' = Deps(i)
              /\ Waiting(i)' <=> Waiting(i)
    BY <1>2, <1>5, <2>2, TopFacts DEF Deps, Waiting
  <2>5. state[id] = "Loaded"
    BY <1>1, <2>1, <2>3 DEF Inv, TypeOK, ResourceState, LoadingIsTop
  <2>6. TypeOK'
    BY <1>1, <1>2, <2>1, <2>2 DEF TypeOK
  <2>7. StackRunning' /\ LoadingIsTop'
    BY <1>1, <1>2, <2>2, <2>3 DEF Inv, StackRunning, LoadingIsTop, Top
  <2>8. FrameBounds'
    BY <2>2, <2>3, <2>4 DEF Inv, FrameBounds
  <2>9. Chained'
    <3> SUFFICES ASSUME NEW i \in 1 .. n, Waiting(i)
                 PROVE  /\ stack'[i].at = "dependencies"
                        /\ stack'[i].next > 1
                        /\ stack'[i + 1].id = Deps(i)[stack'[i].next - 1]
      BY <2>2, <2>4 DEF Chained
    <3>1. i # n /\ i + 1 \in 1 .. n
      BY <2>4 DEF Waiting
    <3> QED BY <2>2, <3>1 DEF Inv, Chained
  <2>10. FactoryFrame' /\ FrameState'
    <3>1. \A i \in 1 .. n : stack[i].at = "factory" => i # n
      BY <2>3
    <3>2. FactoryFrame'
      BY <1>2, <2>2, <2>4, <3>1 DEF Inv, FactoryFrame
    <3>3. FrameState'
      BY <1>2, <2>2 DEF Inv, FrameState
    <3> QED BY <3>2, <3>3
  <2>11. Visited'
    <3> SUFFICES ASSUME NEW i \in 1 .. n, NEW k \in 1 .. Len(Deps(i)),
                        IF Waiting(i) THEN k + 1 < stack'[i].next ELSE k < stack'[i].next
                 PROVE  Settled(Deps(i)[k])
      BY <1>2, <2>2, <2>4 DEF Visited, Settled
    <3>1. CASE i = n
      <4>1. k = Top.next \/ k < Top.next
        BY <2>2, <2>3, <2>4, <3>1 DEF Waiting
      <4> QED BY <2>3, <2>4, <2>5, <3>1, <4>1 DEF Inv, Visited, Settled, Waiting
    <3>2. CASE i # n
      BY <2>2, <3>2 DEF Inv, Visited
    <3> QED BY <3>1, <3>2
  <2>12. NoLap'
    <3> SUFFICES ASSUME NEW i \in 1 .. n, NEW j \in 1 .. n, i < j, stack[i].id = stack[j].id
                 PROVE  IF Waiting(j) THEN stack'[j].next <= stack'[i].next
                                      ELSE stack'[j].next < stack'[i].next
      BY <2>2, <2>4 DEF NoLap
    <3>1. i # n /\ Waiting(i)
      BY <2>4 DEF Waiting
    <3>2. CASE j # n
      BY <2>2, <3>1, <3>2 DEF Inv, NoLap
    <3>3. CASE j = n
      (* The caller stands before the dependency the outer call waits at,   *)
      (* and that dependency is on the stack, so it is not loaded.           *)
      <4>1. stack[n].next < stack[i].next
        BY <3>3 DEF Inv, NoLap, Waiting
      <4>2. i + 1 \in 1 .. n /\ stack[i + 1].id = Deps(i)[stack[i].next - 1]
        BY <2>4, <3>1 DEF Inv, Chained, Waiting
      <4>3. state[stack[i + 1].id] # "Loaded"
        BY <4>2 DEF Inv, FrameState
      <4>4. Deps(i) = Deps(n)
        BY <3>3 DEF Deps
      <4>5. stack[i].next - 1 # stack[n].next
        BY <2>3, <2>5, <4>2, <4>3, <4>4
      <4>6. stack'[n].next < stack'[i].next
        BY <2>2, <2>4, <3>1, <4>1, <4>5
      <4> QED BY <2>4, <3>3, <4>6 DEF Waiting
    <3> QED BY <3>2, <3>3
  <2> QED BY <1>3, <2>6, <2>7, <2>8, <2>9, <2>10, <2>11, <2>12 DEF Inv
<1> QED BY <1>4, <1>5

(* A call begins: its caller waits at the dependency, and the resource is    *)
(* still NotLoaded.                                                         *)
LEMMA EnterLoadInv == ASSUME Inv, NEW id \in Ids, EnterLoad(id) PROVE Inv'
<1>0. PICK n \in Nat : n = Len(stack)
  BY DEF Inv, TypeOK
<1> DEFINE f == [id |-> id, next |-> 1, at |-> "dependencies"]
<1>1. /\ status' = status /\ disk' = disk /\ nextEntry' = nextEntry /\ UNCHANGED metadata
      /\ stack' = Append(Advanced, f)
      /\ Calls(id) /\ state[id] = "NotLoaded" /\ status = "running"
  BY DEF EnterLoad, Calls
<1>2. /\ registered' = registered /\ type' = type /\ state' = state
      /\ resource' = resource /\ dependencies' = dependencies
  BY <1>1 DEF metadata
<1>3. NothingYet' /\ LoadedMeansPresent' /\ LoadedClosed'
  BY <1>1, <1>2 DEF Inv, NothingYet, LoadedMeansPresent, LoadedClosed, Settled
<1>4. TypeOK
  BY DEF Inv
<1>5. /\ stack' \in Seq(Frame) /\ Len(stack') = n + 1
      /\ stack'[n + 1].id = id /\ stack'[n + 1].next = 1 /\ stack'[n + 1].at = "dependencies"
      /\ \A i \in 1 .. n :
            /\ stack'[i].id = stack[i].id
            /\ stack'[i].at = stack[i].at
            /\ stack'[i].next = IF i = n THEN stack[i].next + 1 ELSE stack[i].next
  <2>1. Append(Advanced, f) = stack'
    BY <1>1
  <2> QED BY <1>0, <1>4, <2>1, PushedFrames
<1>6. n \in Nat /\ (stack # <<>> => n # 0) /\ (n = 0 => stack = <<>>) /\ stack' # <<>>
  BY <1>0, <1>4, <1>5 DEF TypeOK
<1>7. n # 0 => /\ Top = stack[n] /\ stack[n].at = "dependencies"
               /\ stack[n].next <= Len(Deps(n)) /\ id = Deps(n)[stack[n].next]
  BY <1>0, <1>1, <1>6 DEF Calls, InLoop, Deps, Top
<1>8. /\ \A i \in 1 .. n :
            /\ stack[i].next \in Nat \ {0}
            /\ Len(Deps(i)) \in Nat
            /\ Deps(i)' = Deps(i)
            /\ Waiting(i)'
      /\ ~Waiting(n + 1)'
      /\ Len(Deps(n + 1)') \in Nat
      /\ \A i \in 1 .. n + 1 : i \in 1 .. n \/ i = n + 1
  <2>1. \A i \in 1 .. n : stack[i].next \in Nat \ {0} /\ Len(Deps(i)) \in Nat
    BY <1>0, <1>6, TopFacts
  <2>2. \A i \in 1 .. n : Deps(i)' = Deps(i)
    BY <1>0, <1>2, <1>5 DEF Deps
  <2>3. Deps(n + 1)' \in Seq(Ids)
    BY <1>0, <1>2, <1>4, <1>5 DEF Deps, TypeOK
  <2> QED BY <1>0, <1>5, <1>6, <2>1, <2>2, <2>3 DEF Waiting
<1>9. TypeOK'
  BY <1>0, <1>1, <1>2, <1>4, <1>5 DEF TypeOK
<1>10. StackRunning' /\ LoadingIsTop'
  <2>1. \A i \in Ids : state[i] # "Loading"
    BY <1>0, <1>1, <1>6, <1>7 DEF Inv, LoadingIsTop
  <2> QED BY <1>0, <1>1, <1>2, <2>1 DEF StackRunning, LoadingIsTop
<1>11. FrameBounds'
  <2>1. ASSUME NEW i \in 1 .. n
        PROVE  stack'[i].next <= Len(Deps(i)) + 1
    <3>1. stack[i].next <= Len(Deps(i)) + 1
      BY <1>0 DEF Inv, FrameBounds
    <3>2. CASE i = n
      BY <1>5, <1>6, <1>7, <1>8, <3>2
    <3> QED BY <1>5, <3>1, <3>2
  <2>2. ASSUME NEW i \in 1 .. n + 1
        PROVE  stack'[i].next <= Len(Deps(i)') + 1
    <3>1. CASE i \in 1 .. n
      BY <1>8, <2>1, <3>1
    <3>2. CASE i = n + 1
      BY <1>5, <1>8, <3>2
    <3> QED BY <1>8, <3>1, <3>2
  <2> QED BY <1>5, <2>2 DEF FrameBounds
<1>12. Chained'
  <2> SUFFICES ASSUME NEW i \in 1 .. n
               PROVE  /\ stack'[i].at = "dependencies"
                      /\ stack'[i].next > 1
                      /\ stack'[i + 1].id = Deps(i)[stack'[i].next - 1]
    BY <1>0, <1>5, <1>8 DEF Chained
  <2>1. CASE i = n
    BY <1>0, <1>5, <1>6, <1>7, <1>8, <2>1
  <2>2. CASE i # n
    <3>1. Waiting(i) /\ i + 1 \in 1 .. n
      BY <1>0, <1>6, <2>2 DEF Waiting
    <3> QED BY <1>0, <1>5, <2>2, <3>1 DEF Inv, Chained
  <2> QED BY <2>1, <2>2
<1>13. FactoryFrame' /\ FrameState'
  <2>1. \A i \in 1 .. n : stack[i].at = "factory" => i # n
    BY <1>0, <1>7
  <2>2. FactoryFrame'
    BY <1>0, <1>2, <1>5, <1>8, <2>1 DEF Inv, FactoryFrame
  <2>3. FrameState'
    <3> SUFFICES ASSUME NEW i \in 1 .. n + 1
                 PROVE  state[stack'[i].id] = IF stack'[i].at = "factory" THEN "Loading"
                                                                        ELSE "NotLoaded"
      BY <1>2, <1>5 DEF FrameState
    <3>1. CASE i \in 1 .. n
      BY <1>0, <1>5, <3>1 DEF Inv, FrameState
    <3>2. CASE i = n + 1
      BY <1>1, <1>5, <3>2
    <3> QED BY <1>8, <3>1, <3>2
  <2> QED BY <2>2, <2>3
<1>14. Visited'
  <2> SUFFICES ASSUME NEW i \in 1 .. n, NEW k \in 1 .. Len(Deps(i)), k + 1 < stack'[i].next
               PROVE  Settled(Deps(i)[k])
    <3>1. \A i \in 1 .. n + 1 : \A k \in 1 .. Len(Deps(i)') :
             (IF Waiting(i)' THEN k + 1 < stack'[i].next ELSE k < stack'[i].next)
               => Settled(Deps(i)'[k])
      <4> SUFFICES ASSUME NEW i \in 1 .. n + 1, NEW k \in 1 .. Len(Deps(i)'),
                          IF Waiting(i)' THEN k + 1 < stack'[i].next ELSE k < stack'[i].next
                   PROVE  Settled(Deps(i)'[k])
        OBVIOUS
      <4>1. CASE i \in 1 .. n
        BY <1>8, <4>1
      <4>2. CASE i = n + 1
        BY <1>5, <1>8, <4>2
      <4> QED BY <1>8, <4>1, <4>2
    <3> QED BY <1>2, <1>5, <3>1 DEF Visited, Settled
  <2>1. CASE i = n
    BY <1>0, <1>5, <1>6, <1>8, <2>1 DEF Inv, Visited, Waiting
  <2>2. CASE i # n
    <3>1. Waiting(i)
      BY <1>0, <1>6, <2>2 DEF Waiting
    <3> QED BY <1>0, <1>5, <2>2, <3>1 DEF Inv, Visited
  <2> QED BY <2>1, <2>2
<1>15. NoLap'
  <2>1. ASSUME NEW i \in 1 .. n, NEW j \in 1 .. n, i < j, stack[i].id = stack[j].id
        PROVE  stack'[j].next <= stack'[i].next
    <3>1. i # n
      BY <1>0, <1>6, <2>1
    <3>2. CASE j = n
      BY <1>0, <1>5, <1>8, <2>1, <3>1, <3>2 DEF Inv, NoLap, Waiting
    <3>3. CASE j # n
      BY <1>0, <1>5, <1>6, <1>8, <2>1, <3>1, <3>3 DEF Inv, NoLap, Waiting
    <3> QED BY <3>2, <3>3
  <2>2. \A i \in 1 .. n : stack'[n + 1].next < stack'[i].next
    BY <1>0, <1>5, <1>8, <1>12 DEF Chained
  <2> QED BY <1>0, <1>5, <1>6, <1>8, <2>1, <2>2 DEF NoLap
<1> QED BY <1>0, <1>3, <1>9, <1>10, <1>11, <1>12, <1>13, <1>14, <1>15 DEF Inv

(* A call that has visited all its dependencies is the only one on its       *)
(* resource: an outer one on the same resource would wait further on.        *)
LEMMA CompleteIsAlone ==
  ASSUME Inv, stack # <<>>, Top.next > Len(dependencies[Top.id])
  PROVE  /\ Top.next = Len(dependencies[Top.id]) + 1
         /\ \A i \in 1 .. Len(stack) - 1 : stack[i].id # Top.id
<1>1. PICK n \in Nat \ {0} : n = Len(stack)
  BY TopFacts
<1>2. Top = stack[n] /\ dependencies[Top.id] = Deps(n)
  BY <1>1 DEF Top, Deps
<1>3. \A i \in 1 .. n : stack[i].next \in Nat /\ Len(Deps(i)) \in Nat
                        /\ stack[i].next <= Len(Deps(i)) + 1
  BY <1>1, TopFacts DEF Inv, FrameBounds
<1>4. ASSUME NEW i \in 1 .. n - 1, stack[i].id = Top.id PROVE FALSE
  <2>1. stack[n].next < stack[i].next
    BY <1>1, <1>2, <1>4 DEF Inv, NoLap, Waiting
  <2>2. Len(Deps(i)) = Len(Deps(n))
    BY <1>2, <1>4 DEF Deps
  <2> QED BY <1>2, <1>3, <2>1, <2>2
<1> QED BY <1>1, <1>2, <1>3, <1>4

(* The innermost call returns, its resource loaded or of a type without a    *)
(* factory.                                                                 *)
Returns == /\ stack # <<>>
           /\ Top.next > Len(dependencies[Top.id])
           /\ stack' = Pop
           /\ UNCHANGED <<disk, status, nextEntry, registered, type, dependencies>>
           /\ state' \in [Ids -> ResourceState]
           /\ resource' \in [Ids -> Factories \cup {"null"}]
           /\ \A id \in Ids : id # Top.id => /\ state'[id] = state[id]
                                             /\ resource'[id] = resource[id]
           /\ state'[Top.id] # "Loading"
           /\ state'[Top.id] = "Loaded" <=> resource'[Top.id] # "null"
           /\ state[Top.id] # "Loaded"
           /\ state'[Top.id] = "Loaded" \/ type[Top.id] \notin Factories

(* A return of the innermost call keeps the invariant. *)
LEMMA ReturnsInv == Inv /\ Returns => Inv'
<1> SUFFICES ASSUME Inv, Returns PROVE Inv'
  OBVIOUS
<1>1. PICK n \in Nat \ {0} : n = Len(stack)
  BY TopFacts DEF Returns
<1>2. /\ stack' \in Seq(Frame) /\ Len(stack') = n - 1
      /\ \A i \in 1 .. n - 1 : stack'[i] = stack[i]
  BY <1>1, PoppedFrames DEF Inv, Returns
<1>3. /\ disk' = disk /\ status' = status /\ nextEntry' = nextEntry
      /\ registered' = registered /\ type' = type /\ dependencies' = dependencies
      /\ status = "running"
  BY TopFacts DEF Returns
<1>4. /\ Top = stack[n] /\ Top.id \in Ids
      /\ \A i \in 1 .. n : stack[i].id \in Ids /\ stack[i].next \in Nat /\ Len(Deps(i)) \in Nat
      /\ \A i \in 1 .. n : \A k \in 1 .. Len(Deps(i)) : Deps(i)[k] \in Ids
      /\ \A i \in 1 .. n - 1 : /\ Deps(i)' = Deps(i)
                               /\ stack[i].id # Top.id
                               /\ Waiting(i)
                               /\ Waiting(i)' <=> i # n - 1
  BY <1>1, <1>2, <1>3, TopFacts, CompleteIsAlone DEF Returns, Deps, Waiting
<1> DEFINE After(d) == state'[d] = "Loaded" \/ type[d] \notin Factories
<1>5. \A d \in Ids : Settled(d) => After(d)
  BY <1>3, <1>4 DEF Returns, Settled
<1>6. TypeOK'
  BY <1>2, <1>3 DEF Inv, Returns, TypeOK
<1>7. StackRunning' /\ NothingYet' /\ LoadingIsTop'
  <2>1. \A id \in Ids : state'[id] # "Loading"
    BY <1>3, <1>4 DEF Inv, LoadingIsTop, Returns
  <2> QED BY <1>3, <2>1 DEF StackRunning, NothingYet, LoadingIsTop
<1>8. LoadedMeansPresent'
  BY DEF Inv, Returns, LoadedMeansPresent
<1>9. FrameBounds' /\ Chained' /\ FactoryFrame'
  <2>1. FrameBounds'
    <3> SUFFICES ASSUME NEW i \in 1 .. n - 1
                 PROVE  stack[i].next <= Len(Deps(i)) + 1
      BY <1>2, <1>4 DEF FrameBounds
    <3>1. i \in 1 .. Len(stack)
      BY <1>1
    <3> QED BY <3>1 DEF Inv, FrameBounds
  <2>2. Chained'
    <3> SUFFICES ASSUME NEW i \in 1 .. n - 1, i # n - 1
                 PROVE  /\ stack[i].at = "dependencies"
                        /\ stack[i].next > 1
                        /\ stack[i + 1].id = Deps(i)[stack[i].next - 1]
      <4>1. ASSUME NEW i \in 1 .. n - 1, Waiting(i)'
            PROVE  /\ stack'[i].at = "dependencies"
                   /\ stack'[i].next > 1
                   /\ stack'[i + 1].id = Deps(i)'[stack'[i].next - 1]
        <5>1. i # n - 1 /\ Deps(i)' = Deps(i) /\ i + 1 \in 1 .. n - 1
          BY <1>4, <4>1
        <5>2. stack'[i] = stack[i] /\ stack'[i + 1] = stack[i + 1]
          BY <1>2, <5>1
        <5> QED BY <5>1, <5>2
      <4> QED BY <1>2, <4>1 DEF Chained
    <3>1. i \in 1 .. Len(stack) /\ Waiting(i)
      BY <1>1, <1>4
    <3> QED BY <3>1 DEF Inv, Chained
  <2>3. FactoryFrame'
    BY <1>1, <1>2, <1>3, <1>4 DEF Inv, FactoryFrame
  <2> QED BY <2>1, <2>2, <2>3
<1>10. FrameState'
  <2> SUFFICES ASSUME NEW i \in 1 .. n - 1
               PROVE  state'[stack[i].id] = IF stack[i].at = "factory" THEN "Loading"
                                                                       ELSE "NotLoaded"
    BY <1>2 DEF FrameState
  <2>1. i \in 1 .. Len(stack) /\ i \in 1 .. n
    BY <1>1
  <2>2. state'[stack[i].id] = state[stack[i].id]
    BY <1>4, <2>1 DEF Returns
  <2> QED BY <2>1, <2>2 DEF Inv, FrameState
<1>11. Visited'
  <2> SUFFICES ASSUME NEW i \in 1 .. n - 1, NEW k \in 1 .. Len(Deps(i)), k < stack[i].next,
                      i # n - 1 => k + 1 < stack[i].next
               PROVE  After(Deps(i)[k])
    <3>1. ASSUME NEW i \in 1 .. n - 1, NEW k \in 1 .. Len(Deps(i)),
                 IF Waiting(i)' THEN k + 1 < stack'[i].next ELSE k < stack'[i].next
          PROVE  After(Deps(i)[k])
      <4>1. k < stack[i].next /\ (i # n - 1 => k + 1 < stack[i].next)
        BY <1>2, <1>4, <3>1
      <4> QED BY <4>1
    <3>2. ASSUME NEW i \in 1 .. n - 1, NEW k \in 1 .. Len(Deps(i)'),
                 IF Waiting(i)' THEN k + 1 < stack'[i].next ELSE k < stack'[i].next
          PROVE  Settled(Deps(i)[k])'
      <4>1. Deps(i)' = Deps(i)
        BY <1>4
      <4>2. After(Deps(i)[k])
        BY <3>1, <3>2, <4>1
      <4> QED BY <1>3, <4>1, <4>2 DEF Settled
    <3> QED BY <1>2, <3>2 DEF Visited
  <2>1. CASE k + 1 < stack[i].next
    <3>1. i \in 1 .. Len(stack) /\ Waiting(i) /\ Deps(i)[k] \in Ids
      BY <1>1, <1>4
    <3>2. Settled(Deps(i)[k])
      BY <2>1, <3>1 DEF Inv, Visited
    <3> QED BY <1>5, <3>1, <3>2
  <2>2. CASE k + 1 = stack[i].next /\ i = n - 1
    <3>1. Deps(i)[k] = Top.id
      <4>1. i \in 1 .. Len(stack) /\ Waiting(i) /\ i + 1 = n /\ stack[i].next - 1 = k
        BY <1>1, <1>4, <2>2
      <4>2. stack[i + 1].id = Deps(i)[stack[i].next - 1]
        BY <4>1 DEF Inv, Chained
      <4> QED BY <1>4, <4>1, <4>2
    <3> QED BY <3>1 DEF Returns
  <2> QED BY <1>4, <2>1, <2>2
<1>12. NoLap'
  <2> SUFFICES ASSUME NEW i \in 1 .. n - 1, NEW j \in 1 .. n - 1, i < j,
                      stack[i].id = stack[j].id
               PROVE  IF j # n - 1 THEN stack[j].next <= stack[i].next
                                   ELSE stack[j].next < stack[i].next
    <3>1. ASSUME NEW i \in 1 .. n - 1, NEW j \in 1 .. n - 1, i < j,
                 stack'[i].id = stack'[j].id
          PROVE  IF Waiting(j)' THEN stack'[j].next <= stack'[i].next
                                ELSE stack'[j].next < stack'[i].next
      <4>1. stack'[i] = stack[i] /\ stack'[j] = stack[j] /\ (Waiting(j)' <=> j # n - 1)
        BY <1>2, <1>4
      <4> QED BY <3>1, <4>1
    <3> QED BY <1>2, <3>1 DEF NoLap
  <2>1. stack[j].next <= stack[i].next
    <3>1. i \in 1 .. Len(stack) /\ j \in 1 .. Len(stack) /\ Waiting(j)
      BY <1>1, <1>4
    <3> QED BY <3>1 DEF Inv, NoLap
  <2>2. CASE j = n - 1
    (* Equal, the call that returns would be on the resource of frame i + 1. *)
    <3>1. stack[n].id = Deps(n - 1)[stack[j].next - 1]
      BY <1>1, <1>4, <2>2 DEF Inv, Chained
    <3>2. stack[i + 1].id = Deps(i)[stack[i].next - 1]
      BY <1>1, <1>4 DEF Inv, Chained
    <3>3. Deps(i) = Deps(n - 1) /\ i + 1 \in 1 .. n - 1
      BY <2>2 DEF Deps
    <3>4. stack[j].next # stack[i].next
      BY <1>4, <3>1, <3>2, <3>3
    <3> QED BY <1>4, <2>1, <2>2, <3>4
  <2> QED BY <2>1, <2>2
<1>13. LoadedClosed'
  <2>1. \A k \in 1 .. Len(Deps(n)) : Settled(Deps(n)[k])
    <3>1. n \in 1 .. Len(stack) /\ ~Waiting(n)
      BY <1>1 DEF Waiting
    <3>2. Deps(n) = dependencies[Top.id] /\ stack[n].next > Len(Deps(n))
      BY <1>4 DEF Deps, Returns
    <3>3. stack[n].next \in Nat /\ Len(Deps(n)) \in Nat
      BY <1>4
    <3>4. \A k \in 1 .. Len(Deps(n)) : k < stack[n].next => Settled(Deps(n)[k])
      BY <3>1 DEF Inv, Visited
    <3> QED BY <3>2, <3>3, <3>4
  <2>2. \A d \in Range(dependencies[Top.id]) : d \in Ids /\ Settled(d)
    <3>1. dependencies[Top.id] = Deps(n) /\ dependencies[Top.id] \in Seq(Ids)
      BY <1>4 DEF Deps, Inv, TypeOK
    <3> QED BY <1>4, <2>1, <3>1 DEF Range
  <2>3. \A id \in Ids : Range(dependencies[id]) \subseteq Ids
    BY DEF Inv, TypeOK, Range
  <2> SUFFICES ASSUME NEW id \in Ids \ AppIds, state'[id] = "Loaded",
                      NEW d \in Range(dependencies[id])
               PROVE  After(d) \/ d \in Unloadable
    BY <1>3 DEF LoadedClosed, Settled
  <2>4. CASE id = Top.id
    BY <1>5, <2>2, <2>4
  <2>5. CASE id # Top.id
    BY <1>5, <2>3, <2>5 DEF Inv, LoadedClosed, Returns
  <2> QED BY <2>4, <2>5
<1> QED BY <1>6, <1>7, <1>8, <1>9, <1>10, <1>11, <1>12, <1>13 DEF Inv

(* The return for a type without a factory is such a return. *)
LEMMA NoFactoryInv == Inv /\ NoFactory => Inv'
<1> SUFFICES ASSUME Inv, NoFactory PROVE Inv'
  OBVIOUS
<1>1. PICK n \in Nat \ {0} : n = Len(stack)
  BY TopFacts DEF NoFactory, LoopDone, InLoop
<1>2. /\ stack # <<>> /\ Top.at = "dependencies" /\ stack' = Pop
      /\ Top.next > Len(dependencies[Top.id]) /\ type[Top.id] \notin Factories
      /\ UNCHANGED <<disk, status, nextEntry, registered, type, state, resource, dependencies>>
  BY DEF NoFactory, LoopDone, InLoop, metadata
<1>3. Top.id \in Ids /\ state[Top.id] = "NotLoaded" /\ resource[Top.id] = "null"
  BY <1>1, <1>2, TopFacts DEF Inv, FrameState, LoadedMeansPresent
<1>4. Returns
  BY <1>2, <1>3 DEF Returns, Inv, TypeOK
<1> QED BY <1>4, ReturnsInv

(* The return after the factory is such a return. *)
LEMMA FactoryReturnsInv == Inv /\ FactoryReturns => Inv'
<1> SUFFICES ASSUME Inv, FactoryReturns PROVE Inv'
  OBVIOUS
<1>1. PICK n \in Nat \ {0} : n = Len(stack)
  BY TopFacts DEF FactoryReturns, InFactory
<1>2. /\ stack # <<>> /\ Top.at = "factory" /\ stack' = Pop
      /\ resource' = [resource EXCEPT ![Top.id] = type[Top.id]]
      /\ state' = [state EXCEPT ![Top.id] = "Loaded"]
      /\ UNCHANGED <<disk, status, nextEntry, registered, type, dependencies>>
  BY DEF FactoryReturns, InFactory
<1>3. /\ Top.id \in Ids /\ state[Top.id] = "Loading" /\ type[Top.id] \in Factories
      /\ Top.next = Len(dependencies[Top.id]) + 1
      /\ Len(dependencies[Top.id]) \in Nat
  BY <1>1, <1>2, TopFacts DEF Inv, FrameState, FactoryFrame, Deps
<1>4. /\ state' \in [Ids -> ResourceState]
      /\ resource' \in [Ids -> Factories \cup {"null"}]
      /\ state'[Top.id] = "Loaded" /\ resource'[Top.id] = type[Top.id]
      /\ \A id \in Ids : id # Top.id => /\ state'[id] = state[id]
                                        /\ resource'[id] = resource[id]
  BY <1>2, <1>3 DEF Inv, TypeOK, ResourceState
<1>5. resource'[Top.id] # "null"
  BY <1>3, <1>4 DEF Factories
<1>6. Top.next > Len(dependencies[Top.id])
  BY <1>3
<1>7. Returns
  BY <1>2, <1>3, <1>4, <1>5, <1>6 DEF Returns
<1> QED BY <1>7, ReturnsInv

(* The factory is entered: only the innermost frame and its resource change, *)
(* and no other frame is on that resource.                                  *)
LEMMA BeginFactoryInv == Inv /\ BeginFactory => Inv'
<1> SUFFICES ASSUME Inv, BeginFactory PROVE Inv'
  OBVIOUS
<1>1. PICK n \in Nat \ {0} : n = Len(stack)
  BY TopFacts DEF BeginFactory, LoopDone, InLoop
<1>2. /\ stack # <<>> /\ Top = stack[n] /\ stack[n].at = "dependencies" /\ status = "running"
      /\ Top.next > Len(dependencies[Top.id]) /\ type[Top.id] \in Factories
      /\ state' = [state EXCEPT ![Top.id] = "Loading"]
      /\ stack' = [stack EXCEPT ![Len(stack)].at = "factory"]
      /\ UNCHANGED <<disk, status, nextEntry, registered, type, resource, dependencies>>
  BY <1>1 DEF BeginFactory, LoopDone, InLoop, Top
<1>3. /\ Top \in Frame /\ Top.id \in Ids /\ Len(Deps(n)) \in Nat
      /\ Top.next = Len(Deps(n)) + 1
      /\ \A i \in 1 .. n - 1 : stack[i].id # Top.id
      /\ state[Top.id] = "NotLoaded"
  BY <1>1, <1>2, TopFacts, CompleteIsAlone DEF Deps, Inv, FrameState
<1> DEFINE entered == [Top EXCEPT !.at = "factory"]
<1>4. /\ entered \in Frame /\ entered.id = Top.id /\ entered.next = Top.next
      /\ entered.at = "factory"
  BY <1>3 DEF Frame
<1>5. stack' = [stack EXCEPT ![n] = entered]
  BY <1>1, <1>2 DEF Inv, TypeOK
<1> HIDE DEF entered
<1>6. /\ stack' \in Seq(Frame) /\ Len(stack') = n /\ stack' # <<>>
      /\ \A i \in 1 .. n : /\ stack'[i].id = stack[i].id
                           /\ stack'[i].next = stack[i].next
                           /\ stack'[i].at = IF i = n THEN "factory" ELSE stack[i].at
  <2>1. stack \in Seq(Frame) /\ n \in 1 .. Len(stack)
    BY <1>1 DEF Inv, TypeOK
  <2>2. /\ stack' \in Seq(Frame) /\ Len(stack') = n
        /\ \A i \in 1 .. n : stack'[i] = IF i = n THEN entered ELSE stack[i]
    BY <1>1, <1>4, <1>5, <2>1, ExceptSeq
  <2> QED BY <1>1, <1>2, <1>4, <2>2
<1>7. /\ Top' = stack'[n] /\ stack'[n].id = Top.id
      /\ \A id \in Ids : state'[id] = IF id = Top.id THEN "Loading" ELSE state[id]
      /\ \A i \in 1 .. n : stack[i].id \in Ids /\ Deps(i)' = Deps(i)
                            /\ (Waiting(i)' <=> Waiting(i))
  BY <1>1, <1>2, <1>6, TopFacts DEF Top, Deps, Waiting, Inv, TypeOK
<1>8. \A d \in Ids : Settled(d)' <=> Settled(d)
  BY <1>2, <1>3, <1>7 DEF Settled
<1>9. TypeOK'
  BY <1>2, <1>3, <1>6 DEF Inv, TypeOK, ResourceState
<1>10. StackRunning' /\ NothingYet' /\ LoadingIsTop'
  <2>1. \A id \in Ids : state'[id] = "Loading" => id = Top.id
    BY <1>1, <1>2, <1>7, TopFacts DEF Inv, LoadingIsTop
  <2> QED BY <1>1, <1>2, <1>6, <1>7, <2>1 DEF StackRunning, NothingYet, LoadingIsTop
<1>11. LoadedMeansPresent'
  BY <1>2, <1>3, <1>7 DEF Inv, LoadedMeansPresent
<1>12. FrameBounds' /\ Chained'
  <2>1. FrameBounds'
    BY <1>1, <1>6, <1>7 DEF Inv, FrameBounds
  <2>2. Chained'
    <3> SUFFICES ASSUME NEW i \in 1 .. n, Waiting(i)
                 PROVE  /\ stack'[i].at = "dependencies"
                        /\ stack'[i].next > 1
                        /\ stack'[i + 1].id = Deps(i)[stack'[i].next - 1]
      BY <1>6, <1>7 DEF Chained
    <3>1. i # n /\ i + 1 \in 1 .. n
      BY <1>1 DEF Waiting
    <3> QED BY <1>1, <1>6, <3>1 DEF Inv, Chained
  <2> QED BY <2>1, <2>2
<1>13. FactoryFrame'
  BY <1>1, <1>2, <1>3, <1>6, <1>7 DEF Inv, FactoryFrame
<1>14. FrameState'
  <2> SUFFICES ASSUME NEW i \in 1 .. n
               PROVE  state'[stack[i].id] = IF stack'[i].at = "factory" THEN "Loading"
                                                                       ELSE "NotLoaded"
    BY <1>6 DEF FrameState
  <2>1. CASE i = n
    BY <1>2, <1>3, <1>6, <1>7, <2>1
  <2>2. CASE i # n
    <3>1. i \in 1 .. n - 1 /\ i \in 1 .. Len(stack)
      BY <1>1, <2>2
    <3>2. state'[stack[i].id] = state[stack[i].id]
      BY <1>3, <1>7, <3>1
    <3> QED BY <1>6, <2>2, <3>1, <3>2 DEF Inv, FrameState
  <2> QED BY <2>1, <2>2
<1>15. Visited'
  <2> SUFFICES ASSUME NEW i \in 1 .. n, NEW k \in 1 .. Len(Deps(i)),
                      IF Waiting(i) THEN k + 1 < stack[i].next ELSE k < stack[i].next,
                      NEW d \in Ids, d = Deps(i)[k]
               PROVE  Settled(d)'
    <3>1. \A i \in 1 .. n : \A k \in 1 .. Len(Deps(i)) : Deps(i)[k] \in Ids
      BY <1>1, <1>2, TopFacts
    <3>2. ASSUME NEW i \in 1 .. n, NEW k \in 1 .. Len(Deps(i)),
                 IF Waiting(i) THEN k + 1 < stack[i].next ELSE k < stack[i].next
          PROVE  state'[Deps(i)[k]] = "Loaded" \/ type'[Deps(i)[k]] \notin Factories
      BY <3>1, <3>2 DEF Settled
    <3> QED BY <1>6, <1>7, <3>2 DEF Visited, Settled
  <2>1. Settled(d)
    BY <1>1 DEF Inv, Visited
  <2> QED BY <1>8, <2>1
<1>16. NoLap'
  BY <1>1, <1>6, <1>7 DEF Inv, NoLap
<1>17. LoadedClosed'
  <2>1. \A id \in Ids : Range(dependencies[id]) \subseteq Ids
    BY DEF Inv, TypeOK, Range
  <2> SUFFICES ASSUME NEW id \in Ids \ AppIds, state'[id] = "Loaded",
                      NEW d \in Range(dependencies[id])
               PROVE  Settled(d)' \/ d \in Unloadable
    BY <1>2 DEF LoadedClosed
  <2> QED BY <1>7, <1>8, <2>1 DEF Inv, LoadedClosed
<1> QED BY <1>9, <1>10, <1>11, <1>12, <1>13, <1>14, <1>15, <1>16, <1>17 DEF Inv

(* Every step of the resource system keeps the invariant. *)
THEOREM InvStep == Inv /\ [Next]_vars => Inv'
<1> SUFFICES ASSUME Inv, [Next]_vars PROVE Inv'
  OBVIOUS
<1>1. CASE Initialise
  BY <1>1, InitialiseInv
<1>2. ASSUME NEW id \in Ids, Load(id) PROVE Inv'
  <2>1. CASE MetadataMissing(id) \/ StackOverflows(id)
    BY <2>1, UnwindsInv DEF MetadataMissing, StackOverflows, Unwinds, Ended
  <2>2. CASE AlreadyLoaded(id)
    BY <2>2, AlreadyLoadedInv
  <2>3. CASE EnterLoad(id)
    BY <2>3, EnterLoadInv
  <2> QED BY <1>2, <2>1, <2>2, <2>3 DEF Load
<1>3. ASSUME NEW id \in Ids, Unload(id) PROVE Inv'
  BY <1>3, UnloadInv
<1>4. ASSUME NEW id \in Ids, NEW kind \in Factories, AddResource(id, kind) PROVE Inv'
  BY <1>4, AddResourceInv
<1>5. CASE Factory
  <2>1. CASE FactoryThrows \/ FactoryMissesTexture \/ FactoryMisusesTexture
    BY <2>1, UnwindsInv
    DEF FactoryThrows, FactoryMissesTexture, FactoryMisusesTexture, Unwinds, Ended
  <2> QED BY <1>5, <2>1, NoFactoryInv, BeginFactoryInv, FactoryReturnsInv DEF Factory
<1>6. CASE UNCHANGED vars
  BY <1>6 DEF vars, metadata, Inv, TypeOK, StackRunning, FrameBounds, Chained, FactoryFrame,
              FrameState, Visited, NoLap, LoadingIsTop, NothingYet, LoadedMeansPresent,
              LoadedClosed, Waiting, Deps, Settled, Top
<1> QED BY <1>1, <1>2, <1>3, <1>4, <1>5, <1>6 DEF Next, Terminated

-----------------------------------------------------------------------------
(* The theorems. *)

(* Inv holds in every reachable state. *)
THEOREM Invariance == Spec => []Inv
BY InitInv, InvStep, PTL DEF Spec

(* Type correctness of the metadata map and of the calls of load(). *)
THEOREM TypeCorrect == Spec => []TypeOK
<1>1. Inv => TypeOK
  BY DEF Inv
<1> QED BY <1>1, Invariance, PTL

(* is_loaded() and a resource to dereference are the same thing. *)
THEOREM LoadedIsPresent == Spec => []LoadedMeansPresent
<1>1. Inv => LoadedMeansPresent
  BY DEF Inv
<1> QED BY <1>1, Invariance, PTL

(* A loaded resource's dependencies stay loaded, up to unload(). *)
THEOREM LoadedIsClosed == Spec => []LoadedClosed
<1>1. Inv => LoadedClosed
  BY DEF Inv
<1> QED BY <1>1, Invariance, PTL

(* The invariant implies that running factories have their dependencies. *)
LEMMA FactoryReady == Inv => FactoryDependenciesReady
<1> SUFFICES ASSUME Inv, NEW i \in 1 .. Len(stack), stack[i].at = "factory",
                    NEW d \in Range(dependencies[stack[i].id])
             PROVE  Settled(d)
  BY DEF FactoryDependenciesReady
<1>1. stack # <<>> /\ Len(stack) \in Nat
  BY DEF Inv, TypeOK
<1>2. Deps(i) \in Seq(Ids) /\ Len(Deps(i)) \in Nat /\ dependencies[stack[i].id] = Deps(i)
  BY <1>1, TopFacts DEF Deps
<1>3. PICK k \in 1 .. Len(Deps(i)) : d = Deps(i)[k]
  BY <1>2 DEF Range
<1>4. stack[i].next = Len(Deps(i)) + 1 /\ ~Waiting(i)
  BY DEF Inv, FactoryFrame, Chained
<1> QED BY <1>2, <1>3, <1>4 DEF Inv, Visited

(* A factory runs only when all the dependencies are loaded, for every       *)
(* registry.                                                                *)
THEOREM FactoryIsReady == Spec => []FactoryDependenciesReady
BY FactoryReady, Invariance, PTL

(* A step that starts a factory starts it on an absent resource. *)
LEMMA NeverRebuiltStep ==
  Inv /\ [Next]_vars =>
    [\A id \in Ids : state'[id] = "Loading" /\ state[id] # "Loading" =>
       state[id] = "NotLoaded" /\ resource[id] = "null"]_vars
<1> SUFFICES ASSUME Inv, Next, NEW id \in Ids, state'[id] = "Loading", state[id] # "Loading"
             PROVE  state[id] = "NotLoaded" /\ resource[id] = "null"
  OBVIOUS
<1>1. SUFFICES state[id] # "Loaded"
  BY DEF Inv, TypeOK, ResourceState, LoadedMeansPresent
<1>2. CASE BeginFactory
  <2>1. stack # <<>> /\ Top.at = "dependencies" /\ Len(stack) \in Nat \ {0}
    BY <1>2, TopFacts DEF BeginFactory, LoopDone, InLoop
  <2>2. id = Top.id
    BY <1>2 DEF BeginFactory, Inv, TypeOK
  <2> QED BY <2>1, <2>2 DEF Inv, FrameState, Top
<1>3. CASE Initialise
  <2>1. status \in {"starting", "registry"}
    BY <1>3 DEF Initialise, OpenRegistry, RegisterEntry, RegistryFails, RegisterFromDisk
  <2> QED BY <2>1 DEF Inv, NothingYet
<1>4. ASSUME NEW i \in Ids, Load(i) PROVE FALSE
  BY <1>4 DEF Load, MetadataMissing, AlreadyLoaded, EnterLoad, StackOverflows, metadata
<1>5. ASSUME NEW i \in Ids, Unload(i) PROVE FALSE
  BY <1>5 DEF Unload, Inv, TypeOK
<1>6. ASSUME NEW i \in Ids, NEW kind \in Factories, AddResource(i, kind) PROVE FALSE
  BY <1>6 DEF AddResource, Inv, TypeOK
<1>7. CASE NoFactory \/ FactoryThrows \/ FactoryMissesTexture \/ FactoryMisusesTexture
  BY <1>7 DEF NoFactory, FactoryThrows, FactoryMissesTexture, FactoryMisusesTexture, metadata
<1>8. CASE FactoryReturns
  BY <1>8 DEF FactoryReturns, Inv, TypeOK
<1>9. CASE Terminated
  BY <1>9 DEF Terminated, vars, metadata
<1> QED BY <1>2, <1>3, <1>4, <1>5, <1>6, <1>7, <1>8, <1>9 DEF Next, Factory

(* No resource is built over one that is there. *)
THEOREM NothingRebuilt == Spec => NeverRebuilt
<1> QED BY NeverRebuiltStep, Invariance, PTL DEF Spec, NeverRebuilt

(* A step that empties the stack leaves the outermost resource loaded. *)
LEMMA ReturnStep ==
  Inv /\ [Next]_vars =>
    [stack # <<>> /\ stack' = <<>> /\ status' = "running" =>
       (state'[stack[1].id] = "Loaded" \/ type[stack[1].id] \notin Factories)]_vars
<1> SUFFICES ASSUME Inv, Next, stack # <<>>, stack' = <<>>, status' = "running"
             PROVE  state'[stack[1].id] = "Loaded" \/ type[stack[1].id] \notin Factories
  OBVIOUS
<1>1. Len(stack) \in Nat \ {0} /\ status = "running" /\ Top = stack[Len(stack)] /\ Top.id \in Ids
  BY TopFacts
<1>2. ASSUME stack' = Pop PROVE Top = stack[1]
  <2>1. Len(stack) = 1
    BY <1>1, <1>2, PoppedFrames DEF Inv
  <2> QED BY <1>1, <2>1
<1>3. CASE NoFactory
  BY <1>2, <1>3 DEF NoFactory
<1>4. CASE FactoryReturns
  BY <1>1, <1>2, <1>4 DEF FactoryReturns, Inv, TypeOK
<1>5. ASSUME NEW id \in Ids, Load(id) PROVE FALSE
  <2>1. CASE AlreadyLoaded(id)
    BY <1>1, <2>1, AdvancedFrames DEF AlreadyLoaded, Inv
  <2>2. CASE EnterLoad(id)
    <3>1. Len(stack') = Len(stack) + 1
      BY <2>2, PushedFrames DEF EnterLoad, Inv
    <3> QED BY <1>1, <3>1
  <2> QED BY <1>5, <2>1, <2>2 DEF Load, MetadataMissing, StackOverflows
<1>6. CASE BeginFactory
  <2>1. Len(stack') = Len(stack)
    BY <1>6 DEF BeginFactory, Inv, TypeOK
  <2> QED BY <1>1, <2>1
<1> QED BY <1>1, <1>3, <1>4, <1>5, <1>6
    DEF Next, Initialise, OpenRegistry, RegisterEntry, RegistryFails, RegisterFromDisk, Factory,
        FactoryThrows, FactoryMissesTexture, FactoryMisusesTexture, Unload, AddResource, Idle,
        Terminated, Ended

(* What an outermost load() returns from is loaded. *)
THEOREM ReturnIsLoaded == Spec => ReturnMeansLoaded
BY ReturnStep, Invariance, PTL DEF Spec, ReturnMeansLoaded

-----------------------------------------------------------------------------
(* Refinement: the metadata map implements the store. *)

(* At first nothing is loaded, as in the store. *)
LEMMA StoreInit == Init => Store!Init
<1> SUFFICES ASSUME Init PROVE Store!Init
  OBVIOUS
<1>1. \A id \in Ids : Range(dependencies[id]) = {}
  BY DEF Init, Range
<1> QED BY <1>1 DEF Init, Store!Init, Needs, Ready

(* Every step configures the store, makes one resource ready, drops one, or     *)
(* changes nothing of it.                                                      *)
LEMMA StoreStep == Inv /\ [Next]_vars => [Store!Next]_(Store!vars)
<1> SUFFICES ASSUME Inv, [Next]_vars PROVE Store!Next \/ UNCHANGED <<Needs, Ready>>
  BY DEF Store!vars
<1>1. ASSUME type' = type, dependencies' = dependencies PROVE Needs' = Needs
  BY <1>1 DEF Needs
<1>2. ASSUME state' = state PROVE Ready' = Ready
  BY <1>2 DEF Ready
<1>3. CASE Initialise
  <2>1. status \in {"starting", "registry"}
    BY <1>3 DEF Initialise, OpenRegistry, RegisterEntry, RegistryFails, RegisterFromDisk
  <2>2. Ready = {}
    BY <2>1 DEF Inv, NothingYet, Ready
  <2>3. Inv'
    BY InvStep
  <2>4. resource' = resource /\ \A id \in Ids : resource[id] = "null"
    BY <1>3, <2>1 DEF Inv, NothingYet, Initialise, OpenRegistry, RegisterEntry, RegistryFails,
                      RegisterFromDisk, metadata
  <2>5. Ready' = {}
    BY <2>3, <2>4 DEF Inv, LoadedMeansPresent, Ready
  <2>6. Needs' \in [Ids -> SUBSET Ids]
    BY <2>3 DEF Inv, TypeOK, Needs, Range
  <2> QED BY <2>2, <2>5, <2>6 DEF Store!Next, Store!Configure
<1>4. ASSUME NEW id \in Ids, Load(id) PROVE UNCHANGED <<Needs, Ready>>
  BY <1>1, <1>2, <1>4 DEF Load, MetadataMissing, AlreadyLoaded, EnterLoad, StackOverflows, metadata
<1>5. ASSUME NEW id \in Ids, Unload(id) PROVE Store!Evict(id)
  <2>1. Needs' = Needs /\ id \in Unloadable
    BY <1>1, <1>5 DEF Unload
  <2>2. Ready' = Ready \ {id}
    BY <1>5 DEF Unload, Ready, Inv, TypeOK
  <2> QED BY <2>1, <2>2 DEF Store!Evict
<1>6. ASSUME NEW id \in Ids, NEW kind \in Factories, AddResource(id, kind) PROVE Store!Adopt(id)
  <2>1. Needs' = Needs /\ id \in AppIds
    BY <1>1, <1>6 DEF AddResource
  <2>2. Ready' = Ready \cup {id}
    BY <1>6 DEF AddResource, Ready, Inv, TypeOK
  <2> QED BY <2>1, <2>2 DEF Store!Adopt
<1>7. CASE NoFactory \/ FactoryThrows \/ FactoryMissesTexture \/ FactoryMisusesTexture
  BY <1>1, <1>2, <1>7 DEF NoFactory, FactoryThrows, FactoryMissesTexture, FactoryMisusesTexture,
                          metadata
<1>8. CASE BeginFactory
  <2>1. stack # <<>> /\ Top.at = "dependencies" /\ Len(stack) \in Nat \ {0}
    BY <1>8, TopFacts DEF BeginFactory, LoopDone, InLoop
  <2>2. state[Top.id] = "NotLoaded"
    BY <2>1 DEF Inv, FrameState, Top
  <2>3. Ready' = Ready
    BY <1>8, <2>2 DEF BeginFactory, Ready, Inv, TypeOK
  <2> QED BY <1>1, <1>8, <2>3 DEF BeginFactory
<1>9. CASE FactoryReturns
  <2>1. /\ stack # <<>> /\ Top.at = "factory" /\ Len(stack) \in Nat \ {0}
        /\ Top.id \in Ids /\ Top = stack[Len(stack)]
    BY <1>9, TopFacts DEF FactoryReturns, InFactory
  <2>2. state[Top.id] = "Loading"
    BY <2>1 DEF Inv, FrameState
  <2>3. Needs[Top.id] \subseteq Ready
    <3> SUFFICES ASSUME NEW d \in Range(dependencies[Top.id]), type[d] \in Factories
                 PROVE  d \in Ready
      BY <2>1 DEF Needs
    <3>1. Settled(d)
      BY <2>1, FactoryReady DEF FactoryDependenciesReady
    <3>2. d \in Ids
      BY <2>1 DEF Inv, TypeOK, Range
    <3> QED BY <3>1, <3>2 DEF Settled, Ready
  <2>4. Ready' = Ready \cup {Top.id} /\ Top.id \notin Ready
    BY <1>9, <2>1, <2>2 DEF FactoryReturns, Ready, Inv, TypeOK
  <2>5. Needs' = Needs
    BY <1>1, <1>9 DEF FactoryReturns
  <2>6. Store!Build(Top.id)
    BY <2>3, <2>4, <2>5 DEF Store!Build
  <2> QED BY <2>1, <2>6 DEF Store!Next
<1>10. CASE UNCHANGED vars
  BY <1>1, <1>2, <1>10 DEF vars, metadata
<1>11. CASE Terminated
  BY <1>10, <1>11 DEF Terminated
<1> QED BY <1>3, <1>4, <1>5, <1>6, <1>7, <1>8, <1>9, <1>10, <1>11
    DEF Next, Factory, Store!Next

(* Every behaviour of the metadata map and of load() is one of the store: a  *)
(* resource becomes ready only after all it needs, and only unload() and     *)
(* add_resource() intervene.                                                *)
THEOREM ImplementsResourceStore == Spec => ImplementsStore
BY StoreInit, StoreStep, Invariance, PTL DEF Spec, Store!Spec, ImplementsStore, Store!vars

-----------------------------------------------------------------------------
(* Well-formed directories. The registry's entries are in the map as they    *)
(* are in the file, a resource is of its metadata's type, and the call that  *)
(* is i deep on the stack is at the end of i - 1 dependencies in a row; as   *)
(* no row is longer than the stack, no call finds it full.                   *)

EntriesRead ==
  /\ \A k \in 1 .. nextEntry - 1 :
       /\ disk.registry[k].id \in registered
       /\ type[disk.registry[k].id] = disk.registry[k].type
       /\ dependencies[disk.registry[k].id] = disk.registry[k].deps
  /\ \A id \in Ids : (\A k \in 1 .. nextEntry - 1 : disk.registry[k].id # id) =>
       type[id] = "StaticMesh" /\ dependencies[id] = <<>>
  /\ status = "running" => nextEntry = Len(disk.registry) + 1 /\ disk.bins \subseteq registered

OfItsType == \A id \in Ids \ AppIds : resource[id] # "null" => resource[id] = type[id]

Descending == \A i \in 1 .. Len(stack) : i <= MaxDepth /\ stack[i].id \in Reached(disk)[i - 1]

Sound == WellFormed(disk) => EntriesRead /\ OfItsType /\ Descending

(* A row of n dependencies is a row of n - 1 and one more: the definition of *)
(* Reached, of which one solution is the ends of such rows.                  *)
LEMMA ReachedIs ==
  ASSUME NEW d \in Disk
  PROVE  /\ Reached(d)[0] = Ids
         /\ \A n \in 1 .. MaxDepth :
              Reached(d)[n] = UNION {Range(e.deps) :
                                       e \in {g \in Entries(d) : g.id \in Reached(d)[n - 1]}}
<1> DEFINE Val(R, n) == IF n = 0 THEN Ids
                        ELSE UNION {Range(e.deps) : e \in {g \in Entries(d) : g.id \in R[n - 1]}}
           Row(n)    == {c \in [0 .. n -> Ids] :
                           \A i \in 1 .. n : \E e \in Entries(d) : /\ e.id = c[i - 1]
                                                               /\ c[i] \in Range(e.deps)}
           F         == [n \in 0 .. MaxDepth |-> {c[n] : c \in Row(n)}]
           f         == CHOOSE R : R = [n \in 0 .. MaxDepth |-> Val(R, n)]
<1>1. MaxDepth \in Nat
  BY ConstantsAssumption
<1>2. \A e \in Entries(d) : Range(e.deps) \subseteq Ids
  <2>1. d.registry \in Seq(Entry)
    BY DEF Disk
  <2>2. ASSUME NEW e \in Entries(d) PROVE Range(e.deps) \subseteq Ids
    <3>1. e \in Entry
      BY <2>1, <2>2, ElementOfSeq DEF Entries, Range
    <3>2. e.deps \in Seq(Ids)
      BY <3>1 DEF Entry
    <3> QED BY <3>2, ElementOfSeq DEF Range
  <2> QED BY <2>2
<1>3. ASSUME NEW x \in Ids PROVE x \in F[0]
  <2> DEFINE c == [i \in 0 .. 0 |-> x]
  <2>1. c \in Row(0) /\ c[0] = x
    OBVIOUS
  <2>2. F[0] = {g[0] : g \in Row(0)}
    BY <1>1
  <2> HIDE DEF F, Row, c
  <2> QED BY <2>1, <2>2
<1>4. F[0] \subseteq Ids
  BY <1>1
<1>5. ASSUME NEW n \in 1 .. MaxDepth, NEW x \in F[n] PROVE x \in Val(F, n)
  <2>1. PICK c \in Row(n) : x = c[n]
    BY <1>1, <1>5
  <2>2. PICK e \in Entries(d) : e.id = c[n - 1] /\ c[n] \in Range(e.deps)
    BY <1>1, <2>1
  <2> DEFINE b == [i \in 0 .. n - 1 |-> c[i]]
  <2>3. b \in Row(n - 1) /\ b[n - 1] = c[n - 1]
    <3>1. b \in [0 .. n - 1 -> Ids] /\ \A i \in 0 .. n - 1 : b[i] = c[i]
      BY <1>1
    <3>2. \A i \in 1 .. n - 1 : i \in 1 .. n /\ i \in 0 .. n - 1 /\ i - 1 \in 0 .. n - 1
      BY <1>1
    <3> HIDE DEF b
    <3>3. \A i \in 1 .. n - 1 : \E g \in Entries(d) : g.id = b[i - 1] /\ b[i] \in Range(g.deps)
      BY <3>1, <3>2
    <3> QED BY <1>1, <3>1, <3>3
  <2>4. n - 1 \in 0 .. MaxDepth
    BY <1>1
  <2> HIDE DEF b, Row
  <2>5. e.id \in F[n - 1]
    BY <2>2, <2>3, <2>4
  <2> HIDE DEF F
  <2> QED BY <2>1, <2>2, <2>5
<1>6. ASSUME NEW n \in 1 .. MaxDepth, NEW x \in Val(F, n) PROVE x \in F[n]
  <2> HIDE DEF F
  <2>1. PICK e \in Entries(d) : e.id \in F[n - 1] /\ x \in Range(e.deps)
    BY <1>1, <1>6
  <2>2. n - 1 \in 0 .. MaxDepth /\ n \in 0 .. MaxDepth
    BY <1>1
  <2> HIDE DEF Row
  <2>3. PICK b \in Row(n - 1) : e.id = b[n - 1]
    BY <2>1, <2>2 DEF F
  <2>4. x \in Ids
    BY <1>2, <2>1
  <2> DEFINE c == [i \in 0 .. n |-> IF i = n THEN x ELSE b[i]]
  <2>5. c \in Row(n) /\ c[n] = x
    <3>1. b \in [0 .. n - 1 -> Ids]
      BY DEF Row
    <3>2. c \in [0 .. n -> Ids] /\ c[n] = x /\ \A i \in 0 .. n - 1 : c[i] = b[i]
      BY <1>1, <2>4, <3>1
    <3> HIDE DEF c
    <3>3. ASSUME NEW i \in 1 .. n
          PROVE  \E g \in Entries(d) : g.id = c[i - 1] /\ c[i] \in Range(g.deps)
      <4>1. CASE i = n
        BY <1>1, <2>1, <2>3, <3>2, <4>1
      <4>2. CASE i # n
        <5>1. i \in 1 .. n - 1 /\ i - 1 \in 0 .. n - 1 /\ i \in 0 .. n - 1
          BY <1>1, <4>2
        <5>2. PICK g \in Entries(d) : g.id = b[i - 1] /\ b[i] \in Range(g.deps)
          BY <5>1 DEF Row
        <5> QED BY <3>2, <5>1, <5>2
      <4> QED BY <4>1, <4>2
    <3> QED BY <3>2, <3>3 DEF Row
  <2> HIDE DEF c
  <2> QED BY <2>2, <2>5 DEF F
<1>7. F = [n \in 0 .. MaxDepth |-> Val(F, n)]
  <2>1. ASSUME NEW n \in 0 .. MaxDepth PROVE F[n] = Val(F, n)
    <3>1. CASE n = 0
      BY <1>3, <1>4, <3>1
    <3>2. CASE n # 0
      <4>1. n \in 1 .. MaxDepth
        BY <1>1, <3>2
      <4> HIDE DEF F, Val
      <4> QED BY <1>5, <1>6, <4>1
    <3> QED BY <3>1, <3>2
  <2>2. F = [n \in 0 .. MaxDepth |-> F[n]]
    OBVIOUS
  <2> HIDE DEF F, Val
  <2> QED BY <2>1, <2>2
<1>8. f = [n \in 0 .. MaxDepth |-> Val(f, n)]
  <2> HIDE DEF F, Val
  <2> QED BY <1>7
<1>9. Reached(d) = f
  BY DEF Reached
<1> HIDE DEF f
<1>10. f[0] = Val(f, 0) /\ \A n \in 1 .. MaxDepth : f[n] = Val(f, n) /\ n # 0
  <2>1. 0 \in 0 .. MaxDepth /\ \A n \in 1 .. MaxDepth : n \in 0 .. MaxDepth
    BY <1>1
  <2> HIDE DEF Val
  <2>2. \A n \in 0 .. MaxDepth : f[n] = Val(f, n)
    BY <1>8
  <2> QED BY <1>1, <2>1, <2>2
<1> QED BY <1>9, <1>10

(* The next dependency of the call that is i deep is i dependencies away.    *)
LEMMA ReachedNext ==
  ASSUME NEW d \in Disk, NEW n \in 1 .. MaxDepth,
         NEW e \in Entries(d), e.id \in Reached(d)[n - 1], NEW x \in Range(e.deps)
  PROVE  x \in Reached(d)[n]
BY ReachedIs

(* What a well-formed directory says of one of its entries, and what the map *)
(* has of it once the engine runs.                                           *)
LEMMA EntryFacts ==
  ASSUME TypeOK, WellFormed(disk), EntriesRead, status = "running", NEW e \in Entries(disk)
  PROVE  /\ type[e.id] = e.type /\ dependencies[e.id] = e.deps /\ e.id \notin AppIds
         /\ Range(e.deps) \subseteq registered
         /\ e.type = "Material" => /\ TexturesKnown(e.id)
                                  /\ disk.textures[e.id] # <<>>
                                  /\ disk.textures[e.id][1] \in Textures(disk) \cap Range(e.deps)
<1>1. disk \in Disk /\ disk.registry \in Seq(Entry)
  BY ConstantsAssumption DEF TypeOK, Disk
<1>2. DOMAIN disk.registry = 1 .. Len(disk.registry) /\ Len(disk.registry) \in Nat
  BY <1>1, LenProperties
<1>3. nextEntry - 1 = Len(disk.registry) /\ disk.bins \subseteq registered
  BY <1>2 DEF EntriesRead
<1>4. \A g \in Entries(disk) :
        /\ g.id \in registered /\ type[g.id] = g.type /\ dependencies[g.id] = g.deps
  BY <1>2, <1>3 DEF EntriesRead, Entries, Range
<1>5. Known(disk) \subseteq registered
  BY <1>3, <1>4 DEF Known
<1>6. Range(e.deps) \subseteq Known(disk) /\ e.id \notin AppIds
  BY DEF WellFormed, UniqueIds
<1>7. ASSUME e.type = "Material"
      PROVE  /\ Range(disk.textures[e.id]) \subseteq Known(disk)
             /\ disk.textures[e.id] # <<>>
             /\ disk.textures[e.id][1] \in Textures(disk) \cap Range(e.deps)
  <2>1. MaterialOK(disk, e)
    BY <1>7 DEF WellFormed
  <2> QED BY <2>1 DEF MaterialOK
<1> QED BY <1>4, <1>5, <1>6, <1>7 DEF TexturesKnown

(* Whatever has dependencies or another type than a mesh is an entry.        *)
LEMMA EntryOf ==
  ASSUME TypeOK, WellFormed(disk), EntriesRead, status = "running", NEW id \in Ids,
         type[id] # "StaticMesh" \/ dependencies[id] # <<>>
  PROVE  \E e \in Entries(disk) : e.id = id
<1>1. PICK k \in 1 .. nextEntry - 1 : disk.registry[k].id = id
  BY DEF EntriesRead
<1>2. disk \in Disk /\ disk.registry \in Seq(Entry)
  BY ConstantsAssumption DEF TypeOK, Disk
<1>3. DOMAIN disk.registry = 1 .. Len(disk.registry) /\ Len(disk.registry) \in Nat
  BY <1>2, LenProperties
<1>4. k \in DOMAIN disk.registry
  BY <1>3 DEF EntriesRead
<1> QED BY <1>1, <1>4 DEF Entries, Range

(* On a well-formed directory, what a running call calls is registered and   *)
(* one dependency further down.                                              *)
LEMMA CalledIsDeeper ==
  ASSUME Inv, WellFormed(disk), Sound, stack # <<>>, NEW id, Calls(id)
  PROVE  id \in registered /\ Len(stack) \in 1 .. MaxDepth /\ id \in Reached(disk)[Len(stack)]
<1>1. /\ status = "running" /\ Len(stack) \in Nat \ {0} /\ Top = stack[Len(stack)]
      /\ Top.id \in Ids /\ Top \in Frame
  BY TopFacts
<1>2. EntriesRead /\ Descending /\ TypeOK
  BY DEF Sound, Inv
<1>3. Top.next <= Len(dependencies[Top.id]) /\ id = dependencies[Top.id][Top.next]
  BY DEF Calls
<1>4. dependencies[Top.id] \in Seq(Ids)
  BY <1>1, <1>2 DEF TypeOK
<1>5. Top.next \in 1 .. Len(dependencies[Top.id])
  BY <1>1, <1>3, <1>4, LenProperties DEF Frame
<1>6. id \in Range(dependencies[Top.id]) /\ dependencies[Top.id] # <<>>
  BY <1>3, <1>4, <1>5, LenProperties, EmptySeq DEF Range
<1>7. PICK e \in Entries(disk) : e.id = Top.id
  BY <1>1, <1>2, <1>6, EntryOf
<1>8. dependencies[Top.id] = e.deps /\ Range(e.deps) \subseteq registered
  BY <1>1, <1>2, <1>7, EntryFacts
<1>9. Len(stack) \in 1 .. MaxDepth /\ e.id \in Reached(disk)[Len(stack) - 1]
  BY <1>1, <1>2, <1>7, ConstantsAssumption DEF Descending
<1>10. disk \in Disk
  BY <1>2, ConstantsAssumption DEF TypeOK
<1>11. id \in Reached(disk)[Len(stack)]
  BY <1>6, <1>8, <1>9, <1>10, ReachedNext
<1> QED BY <1>6, <1>8, <1>9, <1>11

-----------------------------------------------------------------------------
(* Sound is kept. *)

(* Steps of load() and of the application leave what the registry said.      *)
LEMMA EntriesKept ==
  ASSUME EntriesRead, UNCHANGED <<disk, nextEntry, type, dependencies>>,
         registered \subseteq registered', status' = "running" => status = "running"
  PROVE  EntriesRead'
BY DEF EntriesRead

(* Calls that stay on the stack are as deep as they were. *)
LEMMA DescendingKept ==
  ASSUME Descending, disk' = disk, Len(stack) \in Nat, Len(stack') \in Nat,
         Len(stack') <= Len(stack), \A i \in 1 .. Len(stack') : stack'[i].id = stack[i].id
  PROVE  Descending'
BY DEF Descending

(* No call is active. *)
LEMMA DescendingEmpty == stack' = <<>> => Descending'
<1> SUFFICES ASSUME stack' = <<>> PROVE Descending'
  OBVIOUS
<1>1. 1 .. Len(stack') = {}
  OBVIOUS
<1> QED BY <1>1 DEF Descending

(* No entry has been read and no call made. *)
LEMMA SoundInit == Init => Sound
<1> SUFFICES ASSUME Init PROVE EntriesRead /\ OfItsType /\ Descending
  BY DEF Sound
<1>1. Len(stack) = 0 /\ 1 .. 0 = {} /\ nextEntry - 1 = 0
  BY DEF Init
<1> QED BY <1>1 DEF Init, EntriesRead, OfItsType, Descending

(* The registry is read: an entry's id is new, so that it gets the entry's   *)
(* type and dependencies and keeps them, from the directory walk too.        *)
LEMMA SoundInitialise ==
  ASSUME Inv, Sound, WellFormed(disk), Initialise
  PROVE  EntriesRead' /\ OfItsType' /\ Descending'
<1>1. TypeOK /\ EntriesRead /\ OfItsType /\ Descending
  BY DEF Inv, Sound
<1>2. disk \in Disk /\ disk.registry \in Seq(Entry) /\ disk.bins \in SUBSET Ids
  BY <1>1, ConstantsAssumption DEF TypeOK, Disk
<1>3. /\ DOMAIN disk.registry = 1 .. Len(disk.registry) /\ Len(disk.registry) \in Nat
      /\ \A k \in 1 .. Len(disk.registry) : disk.registry[k] \in Entry
  BY <1>2, LenProperties, ElementOfSeq
<1>4. nextEntry \in 1 .. Len(disk.registry) + 1
  BY <1>1 DEF TypeOK
<1>5. /\ disk' = disk /\ resource' = resource /\ stack' = stack
      /\ status \in {"starting", "registry"}
  BY DEF Initialise, OpenRegistry, RegisterEntry, RegistryFails, RegisterFromDisk, metadata
<1>6. OfItsType' /\ Descending'
  <2>1. \A id \in Ids : resource[id] = "null"
    BY <1>5 DEF Inv, NothingYet
  <2>2. OfItsType'
    BY <1>5, <2>1 DEF OfItsType
  <2> QED BY <1>1, <1>5, <2>2 DEF Descending
<1>7. CASE OpenRegistry \/ RegistryFails
  BY <1>1, <1>6, <1>7, EntriesKept DEF OpenRegistry, RegistryFails, metadata
<1>8. CASE RegisterEntry
  <2> DEFINE e == disk.registry[nextEntry]
  <2>1. /\ nextEntry \in 1 .. Len(disk.registry) /\ nextEntry' = nextEntry + 1
        /\ registered' = registered \cup {e.id}
        /\ type' = [type EXCEPT ![e.id] = e.type]
        /\ dependencies' = [dependencies EXCEPT ![e.id] = @ \o e.deps]
        /\ status' = "registry"
    BY <1>3, <1>4, <1>8 DEF RegisterEntry
  <2>2. e.id \in Ids /\ e.deps \in Seq(Ids)
    BY <1>3, <2>1 DEF Entry
  <2>3. \A k \in 1 .. nextEntry - 1 : disk.registry[k].id # e.id
    BY <1>3, <2>1 DEF WellFormed, UniqueIds
  <2>4. dependencies[e.id] = <<>>
    BY <1>1, <2>2, <2>3 DEF EntriesRead
  <2>5. dependencies[e.id] \o e.deps = e.deps
    BY <2>2, <2>4, ConcatEmptySeq
  <2>6. /\ type'[e.id] = e.type /\ dependencies'[e.id] = e.deps
        /\ \A id \in Ids : id # e.id => /\ type'[id] = type[id]
                                       /\ dependencies'[id] = dependencies[id]
    BY <1>1, <2>1, <2>2, <2>5 DEF TypeOK
  <2>7. \A k \in 1 .. nextEntry : k \in 1 .. nextEntry - 1 \/ k = nextEntry
    BY <2>1
  <2>8. \A k \in 1 .. nextEntry - 1 : disk.registry[k].id \in Ids
    BY <1>3, <2>1 DEF Entry
  <2>9. \A k \in 1 .. nextEntry :
          /\ disk.registry[k].id \in registered'
          /\ type'[disk.registry[k].id] = disk.registry[k].type
          /\ dependencies'[disk.registry[k].id] = disk.registry[k].deps
    <3> SUFFICES ASSUME NEW k \in 1 .. nextEntry
                 PROVE  /\ disk.registry[k].id \in registered'
                        /\ type'[disk.registry[k].id] = disk.registry[k].type
                        /\ dependencies'[disk.registry[k].id] = disk.registry[k].deps
      OBVIOUS
    <3>1. CASE k = nextEntry
      BY <2>1, <2>6, <3>1
    <3>2. CASE k \in 1 .. nextEntry - 1
      BY <1>1, <2>1, <2>3, <2>6, <2>8, <3>2 DEF EntriesRead
    <3> QED BY <2>7, <3>1, <3>2
  <2>10. ASSUME NEW id \in Ids, \A k \in 1 .. nextEntry : disk.registry[k].id # id
         PROVE  type'[id] = "StaticMesh" /\ dependencies'[id] = <<>>
    <3>1. id # e.id /\ \A k \in 1 .. nextEntry - 1 : disk.registry[k].id # id
      BY <2>1, <2>10
    <3> QED BY <1>1, <2>6, <3>1 DEF EntriesRead
  <2>11. nextEntry' - 1 = nextEntry
    BY <2>1
  <2>12. EntriesRead'
    BY <1>5, <2>1, <2>9, <2>10, <2>11 DEF EntriesRead
  <2> QED BY <1>6, <2>12
<1>9. CASE RegisterFromDisk
  <2>1. /\ nextEntry = Len(disk.registry) + 1 /\ nextEntry' = nextEntry
        /\ registered' = registered \cup disk.bins /\ dependencies' = dependencies
        /\ type' = [id \in Ids |-> IF id \in disk.bins THEN "StaticMesh" ELSE type[id]]
    BY <1>9 DEF RegisterFromDisk
  <2>2. \A k \in 1 .. nextEntry - 1 : /\ disk.registry[k].id \in Ids
                                     /\ disk.registry[k].id \notin disk.bins
    <3>1. ASSUME NEW k \in 1 .. nextEntry - 1
          PROVE  disk.registry[k].id \in Ids /\ disk.registry[k].id \notin disk.bins
      <4>1. k \in DOMAIN disk.registry /\ disk.registry[k] \in Entry
        BY <1>3, <2>1
      <4>2. disk.registry[k] \in Entries(disk)
        BY <4>1 DEF Entries, Range
      <4> QED BY <4>1, <4>2 DEF WellFormed, UniqueIds, Entry
    <3> QED BY <3>1
  <2>3. EntriesRead'
    BY <1>1, <1>5, <2>1, <2>2 DEF EntriesRead
  <2> QED BY <1>6, <2>3
<1> QED BY <1>7, <1>8, <1>9 DEF Initialise

(* A call of load(): the depth of a new one is that of its caller and one.   *)
LEMMA SoundLoad ==
  ASSUME Inv, Sound, WellFormed(disk), NEW id \in Ids, Load(id)
  PROVE  EntriesRead' /\ OfItsType' /\ Descending'
<1>1. EntriesRead /\ OfItsType /\ Descending /\ TypeOK
  BY DEF Inv, Sound
<1>2. UNCHANGED <<disk, nextEntry, registered, type, state, resource, dependencies>>
  BY DEF Load, MetadataMissing, AlreadyLoaded, EnterLoad, StackOverflows, metadata
<1>3. status = "running"
  BY DEF Load, MetadataMissing, AlreadyLoaded, EnterLoad, StackOverflows, Calls
<1>4. EntriesRead' /\ OfItsType'
  BY <1>1, <1>2, <1>3, EntriesKept DEF OfItsType
<1>5. Len(stack) \in Nat
  BY <1>1 DEF TypeOK
<1>6. CASE MetadataMissing(id) \/ StackOverflows(id)
  BY <1>4, <1>6, DescendingEmpty DEF MetadataMissing, StackOverflows
<1>7. CASE AlreadyLoaded(id)
  <2>1. stack' = Advanced
    BY <1>7 DEF AlreadyLoaded
  <2>2. CASE stack = <<>>
    BY <1>4, <2>1, <2>2, DescendingEmpty DEF Advanced
  <2>3. CASE stack # <<>>
    <3>1. Len(stack') = Len(stack) /\ \A i \in 1 .. Len(stack) : stack'[i].id = stack[i].id
      BY <1>1, <2>1, <2>3, AdvancedFrames
    <3> QED BY <1>1, <1>2, <1>4, <1>5, <3>1, DescendingKept
  <2> QED BY <2>2, <2>3
<1>8. CASE EnterLoad(id)
  <2>1. Len(stack) < MaxDepth /\ Calls(id)
    BY <1>8 DEF EnterLoad
  <2>2. /\ Len(stack') = Len(stack) + 1 /\ stack'[Len(stack) + 1].id = id
        /\ \A i \in 1 .. Len(stack) : stack'[i].id = stack[i].id
    BY <1>1, <1>5, <1>8, PushedFrames DEF EnterLoad
  <2>3. id \in Reached(disk)[Len(stack)]
    <3>1. CASE stack = <<>>
      <4>1. Len(stack) = 0 /\ disk \in Disk
        BY <1>1, <3>1, ConstantsAssumption DEF TypeOK
      <4> QED BY <4>1, ReachedIs
    <3>2. CASE stack # <<>>
      BY <2>1, <3>2, CalledIsDeeper
    <3> QED BY <3>1, <3>2
  <2>4. ASSUME NEW i \in 1 .. Len(stack')
        PROVE  i <= MaxDepth /\ stack'[i].id \in Reached(disk)[i - 1]
    <3>1. CASE i = Len(stack) + 1
      <4>1. i - 1 = Len(stack) /\ i <= MaxDepth
        BY <1>5, <2>1, <3>1, ConstantsAssumption
      <4> QED BY <2>2, <2>3, <3>1, <4>1
    <3>2. CASE i # Len(stack) + 1
      <4>1. i \in 1 .. Len(stack)
        BY <1>5, <2>2, <3>2
      <4> QED BY <1>1, <2>2, <4>1 DEF Descending
    <3> QED BY <3>1, <3>2
  <2>5. Descending'
    BY <1>2, <2>4 DEF Descending
  <2> QED BY <1>4, <2>5
<1> QED BY <1>6, <1>7, <1>8 DEF Load

(* A factory gives the resource its metadata's type, and add_resource and    *)
(* unload are about the application's ids or leave nothing there.            *)
LEMMA SoundRest ==
  ASSUME Inv, Sound, WellFormed(disk),
         \/ Factory
         \/ \E id \in Ids : Unload(id)
         \/ \E id \in Ids, kind \in Factories : AddResource(id, kind)
  PROVE  EntriesRead' /\ OfItsType' /\ Descending'
<1> USE DEF Factory, NoFactory, BeginFactory, FactoryReturns, FactoryThrows, FactoryMissesTexture,
            FactoryMisusesTexture, Unload, AddResource
<1>1. EntriesRead /\ OfItsType /\ Descending /\ TypeOK
  BY DEF Inv, Sound
<1>2. UNCHANGED <<disk, nextEntry, type, dependencies>> /\ registered \subseteq registered'
  BY DEF metadata
<1>3. status = "running"
  BY DEF InFactory, Idle
<1>4. EntriesRead'
  BY <1>1, <1>2, <1>3, EntriesKept
<1>5. Len(stack) \in Nat
  BY <1>1 DEF TypeOK
<1>6. OfItsType'
  <2>1. \A id \in Ids \ AppIds : resource'[id] \in {resource[id], type[id], "null"}
    <3>1. CASE resource' = resource
      BY <3>1
    <3>2. CASE FactoryReturns
      <4>1. resource' = [resource EXCEPT ![Top.id] = type[Top.id]]
        BY <3>2
      <4> QED BY <1>1, <4>1 DEF TypeOK
    <3>3. ASSUME NEW id \in Ids, Unload(id)
          PROVE  \A x \in Ids : resource'[x] \in {resource[x], "null"}
      BY <1>1, <3>3 DEF TypeOK
    <3>4. ASSUME NEW id \in Ids, NEW kind \in Factories, AddResource(id, kind)
          PROVE  \A x \in Ids \ AppIds : resource'[x] = resource[x]
      BY <1>1, <3>4 DEF TypeOK
    <3>5. Factory => resource' = resource \/ FactoryReturns
      BY DEF metadata
    <3> QED BY <3>1, <3>2, <3>3, <3>4, <3>5
  <2> QED BY <1>1, <1>2, <2>1 DEF OfItsType
<1>7. Descending'
  <2>1. CASE stack' = stack
    BY <1>1, <1>2, <2>1 DEF Descending
  <2>2. CASE stack' = <<>>
    BY <2>2, DescendingEmpty
  <2>3. CASE stack' = Pop /\ stack # <<>>
    <3>1. Len(stack') = Len(stack) - 1 /\ \A i \in 1 .. Len(stack) - 1 : stack'[i] = stack[i]
      BY <1>1, <2>3, PoppedFrames
    <3>2. Len(stack) # 0
      BY <1>1, <2>3, EmptySeq DEF TypeOK
    <3> QED BY <1>1, <1>2, <1>5, <3>1, <3>2, DescendingKept
  <2>4. CASE BeginFactory
    <3>1. /\ stack' = [stack EXCEPT ![Len(stack)].at = "factory"]
          /\ stack \in Seq(Frame) /\ stack # <<>>
      BY <1>1, <2>4 DEF TypeOK, LoopDone, InLoop
    <3>2. Len(stack') = Len(stack) /\ \A i \in 1 .. Len(stack) : stack'[i].id = stack[i].id
      BY <1>5, <3>1, ElementOfSeq DEF Frame
    <3> QED BY <1>1, <1>2, <1>5, <3>2, DescendingKept
  <2> QED BY <2>1, <2>2, <2>3, <2>4 DEF LoopDone, InLoop, InFactory, Idle
<1> QED BY <1>4, <1>6, <1>7

(* Sound is inductive. *)
LEMMA SoundStep == Inv /\ Sound /\ [Next]_vars => Sound'
<1> SUFFICES ASSUME Inv, Sound, [Next]_vars, WellFormed(disk')
             PROVE  EntriesRead' /\ OfItsType' /\ Descending'
  BY DEF Sound
<1>1. CASE UNCHANGED vars
  BY <1>1 DEF vars, metadata, Sound, EntriesRead, OfItsType, Descending
<1>2. CASE Next /\ ~UNCHANGED vars
  <2>1. disk' = disk
    BY <1>2 DEF Next, Initialise, OpenRegistry, RegisterEntry, RegistryFails, RegisterFromDisk,
                Load, MetadataMissing, AlreadyLoaded, EnterLoad, StackOverflows, Factory, NoFactory,
                BeginFactory, FactoryReturns, FactoryThrows, FactoryMissesTexture,
                FactoryMisusesTexture, Unload, AddResource, Terminated, vars
  <2>2. WellFormed(disk)
    BY <2>1
  <2> QED BY <1>2, <2>2, SoundInitialise, SoundLoad, SoundRest DEF Next, Terminated
<1> QED BY <1>1, <1>2

(* A step out of a running load() on a well-formed directory.                *)
LEMMA WellFormedStep ==
  Inv /\ Sound /\ [Next]_vars =>
    [WellFormed(disk) /\ stack # <<>> => status' \in {"running", "exception"}]_vars
<1> SUFFICES ASSUME Inv, Sound, Next, WellFormed(disk), stack # <<>>
             PROVE  status' \in {"running", "exception"}
  OBVIOUS
<1>1. /\ status = "running" /\ Len(stack) \in Nat \ {0} /\ Top = stack[Len(stack)]
      /\ Top.id \in Ids
  BY TopFacts
<1>2. EntriesRead /\ OfItsType /\ TypeOK
  BY DEF Sound, Inv
<1>3. ASSUME NEW id \in Ids, Load(id) PROVE status' = "running"
  <2>1. ASSUME MetadataMissing(id) PROVE FALSE
    BY <2>1, CalledIsDeeper DEF MetadataMissing
  <2>2. ASSUME StackOverflows(id) PROVE FALSE
    <3>1. id \in Reached(disk)[MaxDepth]
      BY <2>2, CalledIsDeeper DEF StackOverflows
    <3> QED BY <3>1 DEF WellFormed, Ranked
  <2> QED BY <1>1, <1>3, <2>1, <2>2 DEF Load, AlreadyLoaded, EnterLoad
<1>4. ASSUME InFactory, type[Top.id] = "Material"
      PROVE  TexturesKnown(Top.id) /\ TextureBindable(Top.id)
  <2>1. PICK e \in Entries(disk) : e.id = Top.id
    BY <1>1, <1>2, <1>4, EntryOf
  <2>2. /\ dependencies[Top.id] = e.deps /\ TexturesKnown(Top.id)
        /\ disk.textures[Top.id] # <<>>
        /\ disk.textures[Top.id][1] \in Textures(disk) \cap Range(e.deps)
    BY <1>1, <1>2, <1>4, <2>1, EntryFacts
  <2> DEFINE t == disk.textures[Top.id][1]
  <2>3. PICK g \in Entries(disk) : g.id = t /\ g.type = "Texture"
    BY <2>2 DEF Textures
  <2>4. type[t] = "Texture" /\ t \notin AppIds
    BY <1>1, <1>2, <2>3, EntryFacts
  <2>5. Settled(t)
    <3>1. stack[Len(stack)].at = "factory" /\ Len(stack) \in 1 .. Len(stack)
      BY <1>1, <1>4 DEF InFactory
    <3>2. t \in Range(dependencies[stack[Len(stack)].id])
      BY <1>1, <2>2
    <3> HIDE DEF t
    <3> QED BY <3>1, <3>2, FactoryReady DEF FactoryDependenciesReady
  <2>6. state[t] = "Loaded" /\ t \in Ids
    <3>1. dependencies[Top.id] \in Seq(Ids)
      BY <1>1, <1>2 DEF TypeOK
    <3>2. t \in Ids
      BY <2>2, <3>1, ElementOfSeq DEF Range
    <3> QED BY <2>4, <2>5, <3>2 DEF Settled, Factories
  <2>7. resource[t] = "Texture"
    BY <1>2, <2>4, <2>6 DEF Inv, LoadedMeansPresent, OfItsType
  <2> QED BY <2>2, <2>7 DEF TextureBindable
<1>5. Factory => status' \in {"running", "exception"}
  BY <1>1, <1>4 DEF Factory, NoFactory, BeginFactory, FactoryReturns, FactoryThrows,
                    FactoryMissesTexture, FactoryMisusesTexture
<1> QED BY <1>1, <1>3, <1>5
    DEF Next, Initialise, OpenRegistry, RegisterEntry, RegistryFails, RegisterFromDisk,
        Unload, AddResource, Terminated, Ended, Idle

(* On a directory without mistakes, of any size, load() finds every id and   *)
(* every texture it needs and comes to the end of every chain.               *)
THEOREM WellFormedIsLoaded == Spec => WellFormedLoads
<1>1. Spec => []Sound
  BY SoundInit, SoundStep, Invariance, PTL DEF Spec
<1> QED BY <1>1, WellFormedStep, Invariance, PTL DEF Spec, WellFormedLoads
=============================================================================
