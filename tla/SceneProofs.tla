----------------------------- MODULE SceneProofs -----------------------------
(* Theorems about Scene for all scene files, resource types, script classes,  *)
(* cursors and numbers of entities and frames.                                *)
EXTENDS Scene, SequenceTheorems, FiniteSetTheorems, TLAPS

-----------------------------------------------------------------------------
(* The inductive invariant. *)

Vec    == [x : Int, y : Int]
Angles == [x : -Limit .. Limit, y : Int]
Entity == [has : SUBSET Components, position : Positions, rotation : Angles,
           mesh : Ids \cup {NoMesh}, materials : Seq(Ids), window : {Null, Primary},
           class : STRING \cup {NoClass}, written : SUBSET Components]

(* What the renderer is handed of an entity. *)
Item    == [entity : Nat, position : Positions, rotation : Angles]
Pose(e) == [entity |-> e, position |-> registry[e].position, rotation |-> registry[e].rotation]

(* The rest of the state's shape. *)
Shape == /\ registry = [e \in Live |-> registry[e]]
         /\ loadedScenes = [f \in DOMAIN loadedScenes |-> loadedScenes[f]]
         /\ pc = "load" => file \in DOMAIN loadedScenes
         /\ next >= 1
         /\ views \in Seq(Item) /\ draws \in Seq(Item)
         /\ lastCursorPos \in Vec
         /\ polled \in [cursor : Vec, seen : BOOLEAN, yawPitch : Angles]
         /\ loaded \subseteq Buildable

(* Outside update() no view is being run through; each of the three runs     *)
(* through entities that have what it asks for.                               *)
Phases == /\ pc \in {"idle", "load"} => todo = {}
          /\ pc \in {"idle", "load", "cameras", "meshes"} => self = 0
          /\ pc \in {"idle", "load", "scripts"} => views = <<>>
          /\ pc \in {"idle", "load", "scripts", "cameras"} => draws = <<>>
          /\ pc = "scripts" => /\ todo \subseteq With({"ScriptBehaviour"})
                               /\ self \in With({"ScriptBehaviour"}) \cup {0}
          /\ pc = "cameras" => todo \subseteq With({"Camera", "Transform"})
          /\ pc = "meshes" => todo \subseteq With({"Transform", "StaticRenderer"})

(* Of what the application has not written, an entity is what its node says:  *)
(* its renderer fits and the first material was loaded, its script fits.      *)
Ready(r) == /\ r.mesh # NoMesh /\ "StaticRenderer" \notin r.written =>
                 RendererFits(r) /\ r.materials[1] \in loaded \cup unloaded
            /\ "ScriptBehaviour" \in r.has \ r.written => ScriptFits(r)

WellFormedScenes == \A f \in DOMAIN loadedScenes : \A i \in DOMAIN Files[f] :
                      WellFormedNode(Files[f][i])

Faulty == \E e \in Live : AtFault(registry[e])

Sound == WellFormedScenes => /\ \A e \in Live : Ready(registry[e])
                             /\ pc = "undefined" => Faulty

(* Until the frame's first camera the angles and the remembered cursor are    *)
(* those the frame before has left; from then on the cursor is counted, up    *)
(* and down while no view has come to the limit.                              *)
Before == /\ yawPitch = polled.yawPitch
          /\ polled.seen => lastCursorPos = cursor /\ cursor = polled.cursor

Inside == (1 - Limit) .. (Limit - 1)

Counted == /\ lastCursorPos = cursor
           /\ held => views[Len(views)].rotation = yawPitch
           /\ polled.seen /\ held =>
                /\ yawPitch.y = polled.yawPitch.y + Moved(polled.cursor, cursor).x
                /\ (\A i \in 1 .. Len(views) : views[i].rotation.x \in Inside) =>
                     yawPitch.x = polled.yawPitch.x + Moved(polled.cursor, cursor).y
           /\ ~held => yawPitch = polled.yawPitch

Turning == pc \notin Ended => IF views = <<>> THEN Before ELSE Counted

(* The entities the two views have come to are with the renderer. *)
Viewed(rest) == {e \in With({"Camera", "Transform"}) \ rest : registry[e].window # Null}
Shown(rest)  == {e \in With({"Transform", "StaticRenderer"}) \ rest : registry[e].mesh \in loaded}

Handed == /\ pc = "cameras" => ShowsEach(views, Viewed(todo))
          /\ pc = "meshes" => ShowsEach(views, Viewed({})) /\ ShowsEach(draws, Shown(todo))

Inv == /\ TypeOK
       /\ Shape
       /\ Phases
       /\ Sound
       /\ Turning
       /\ Handed

-----------------------------------------------------------------------------
(* The angles. *)

(* The pitch stays in its bounds, and what does not come to them is not cut.  *)
LEMMA ClampInRange ==
  \A v \in Int : /\ Clamp(v) \in -Limit .. Limit
                 /\ Clamp(v) \in Inside => Clamp(v) = v
<1>1. Limit \in Nat
  BY SceneAssumption
<1> QED BY <1>1 DEF Clamp, Inside

(* A movement turns angles into angles, by its length where it is not cut.    *)
LEMMA TurnedAngles ==
  ASSUME NEW angles \in Angles, NEW from \in Vec, NEW to \in Vec
  PROVE  LET turned == Turned(angles, Moved(from, to)) IN
         /\ turned \in Angles
         /\ turned.y = angles.y + (to.x - from.x)
         /\ turned.x \in Inside => turned.x = angles.x + (to.y - from.y)
<1>1. /\ angles.x \in Int /\ angles.y \in Int
      /\ to.x - from.x \in Int /\ to.y - from.y \in Int
  <2>1. Limit \in Nat
    BY SceneAssumption
  <2> QED BY <2>1 DEF Angles, Vec
<1>2. Moved(from, to).x = to.x - from.x /\ Moved(from, to).y = to.y - from.y
  BY DEF Moved
<1>3. /\ angles.x + Moved(from, to).y \in Int /\ angles.y + Moved(from, to).x \in Int
  BY <1>1, <1>2
<1>4. /\ Turned(angles, Moved(from, to)).x = Clamp(angles.x + Moved(from, to).y)
      /\ Turned(angles, Moved(from, to)).y = angles.y + Moved(from, to).x
      /\ Turned(angles, Moved(from, to)) =
           [x |-> Clamp(angles.x + Moved(from, to).y), y |-> angles.y + Moved(from, to).x]
  BY DEF Turned
<1>5. Turned(angles, Moved(from, to)) \in Angles
  BY <1>3, <1>4, ClampInRange DEF Angles
<1>6. Clamp(angles.x + Moved(from, to).y) \in Inside =>
        Clamp(angles.x + Moved(from, to).y) = angles.x + Moved(from, to).y
  BY <1>3, ClampInRange
<1> QED BY <1>2, <1>4, <1>5, <1>6

-----------------------------------------------------------------------------
(* The registry. *)

(* Live entities are typed, and are numbers from 1. *)
LEMMA Registered ==
  ASSUME TypeOK
  PROVE  /\ \A e \in Live : registry[e] \in Entity
         /\ Live \subseteq 1 .. created /\ created \in Nat
         /\ \A e \in Live : e \in Nat \ {0}
         /\ IsFiniteSet(Live)
<1>1. /\ \A e \in Live : registry[e] \in Entity
      /\ Live \subseteq 1 .. created /\ created \in 0 .. MaxEntities
  BY DEF TypeOK, Entity, Angles
<1>2. created \in Nat
  BY <1>1, SceneAssumption
<1>3. IsFiniteSet(Live)
  <2>1. IsFiniteSet(1 .. created)
    BY <1>2, FS_Interval
  <2> QED BY <1>1, <2>1, FS_Subset
<1>4. \A e \in Live : e \in Nat \ {0}
  BY <1>1, <1>2
<1> QED BY <1>1, <1>2, <1>3, <1>4

(* A new entity has a handle of its own; the others are as they were. *)
LEMMA NewEntityRegistered ==
  ASSUME TypeOK, NEW c \in Entity, NewEntity(c)
  PROVE  /\ created' = created + 1 /\ created' \in 0 .. MaxEntities /\ created' \in Handles
         /\ Live' = Live \cup {created'} /\ created' \notin Live
         /\ Live' \subseteq 1 .. created'
         /\ registry'[created'] = c /\ \A e \in Live : registry'[e] = registry[e]
         /\ \A e \in Live' : registry'[e] \in Entity
         /\ registry' = [e \in Live' |-> registry'[e]]
<1>1. /\ created < MaxEntities /\ created' = created + 1
      /\ registry' = [e \in Live \cup {created'} |-> IF e = created' THEN c ELSE registry[e]]
  BY DEF NewEntity
<1>2. /\ \A e \in Live : registry[e] \in Entity
      /\ Live \subseteq 1 .. created /\ created \in Nat /\ MaxEntities \in Nat
  BY Registered, SceneAssumption
<1>3. /\ created' \in 0 .. MaxEntities /\ created' \in Handles /\ created' \notin Live
      /\ Live \cup {created'} \subseteq 1 .. created'
  BY <1>1, <1>2 DEF Handles
<1>4. Live' = Live \cup {created'}
  BY <1>1 DEF Live
<1> QED BY <1>1, <1>2, <1>3, <1>4

(* A change to one component field keeps the registry typed. *)
LEMMA ChangeRegistered ==
  ASSUME TypeOK, Shape, NEW e \in Live, NEW r \in Entity, registry' = [registry EXCEPT ![e] = r]
  PROVE  /\ Live' = Live
         /\ registry'[e] = r /\ \A g \in Live : g # e => registry'[g] = registry[g]
         /\ \A g \in Live' : registry'[g] \in Entity
         /\ registry' = [g \in Live' |-> registry'[g]]
<1>1. registry = [g \in Live |-> registry[g]] /\ \A g \in Live : registry[g] \in Entity
  BY Registered DEF Shape
<1>2. registry' = [g \in Live |-> IF g = e THEN r ELSE registry[g]]
  BY <1>1
<1>3. Live' = Live
  BY <1>2 DEF Live
<1> QED BY <1>1, <1>2, <1>3

(* A type-correct registry makes for a type-correct state. *)
LEMMA TypeFromRegistry ==
  ASSUME TypeOK,
         pc' \in {"idle", "load", "scripts", "cameras", "meshes"} \cup Ended,
         file' \in DOMAIN Files /\ next' \in Nat,
         created' \in 0 .. MaxEntities /\ Live' \subseteq 1 .. created',
         \A e \in Live' : registry'[e] \in Entity,
         \A f \in DOMAIN loadedScenes' : loadedScenes'[f] \in Seq(Handles),
         loaded' \subseteq Ids /\ unloaded' \subseteq Ids,
         cursor' \in Vec /\ held' \in BOOLEAN /\ yawPitch' \in Angles,
         todo' \subseteq Live' /\ self' \in Live' \cup {0},
         frames' \in 0 .. MaxFrames /\ calls' \in 0 .. MaxCalls
  PROVE  TypeOK'
BY DEF TypeOK, Entity, Angles, Vec

(* The system as constructed satisfies the invariant. *)
LEMMA InitInv == Init => Inv
<1> SUFFICES ASSUME Init PROVE Inv
  OBVIOUS
<1>1. /\ pc = "idle" /\ file \in DOMAIN Files /\ next = 1 /\ created = 0
      /\ registry = <<>> /\ loadedScenes = <<>> /\ loaded = {} /\ unloaded = {}
      /\ cursor = [x |-> 0, y |-> 0] /\ held = FALSE
      /\ lastCursorPos = [x |-> 0, y |-> 0] /\ yawPitch = [x |-> 0, y |-> 0]
      /\ todo = {} /\ self = 0 /\ views = <<>> /\ draws = <<>> /\ frames = 0 /\ calls = 0
      /\ polled = [cursor |-> cursor, seen |-> FALSE, yawPitch |-> yawPitch]
  BY DEF Init
<1>2. Live = {} /\ DOMAIN loadedScenes = {} /\ registry = [e \in {} |-> registry[e]]
      /\ loadedScenes = [f \in {} |-> loadedScenes[f]]
  BY <1>1 DEF Live
<1>3. Limit \in Nat /\ MaxEntities \in Nat /\ MaxFrames \in Nat /\ MaxCalls \in Nat
  BY SceneAssumption
<1>4. yawPitch \in Angles /\ lastCursorPos \in Vec /\ cursor \in Vec
  BY <1>1, <1>3 DEF Angles, Vec
<1>5. TypeOK
  <2>1. 0 \in 0 .. MaxEntities /\ 0 \in 0 .. MaxFrames /\ 0 \in 0 .. MaxCalls
    BY <1>3
  <2> QED BY <1>1, <1>2, <1>4, <2>1 DEF TypeOK, Angles, Vec
<1>6. Shape
  BY <1>1, <1>2, <1>4, EmptySeq DEF Shape
<1>7. Phases /\ Sound /\ Handed
  BY <1>1, <1>2 DEF Phases, Sound, Handed
<1>8. Turning
  BY <1>1 DEF Turning, Before
<1> QED BY <1>5, <1>6, <1>7, <1>8 DEF Inv

-----------------------------------------------------------------------------
(* What the steps leave alone. *)

(* Outside update() nothing of the frame changes. *)
LEMMA OutsideStep ==
  ASSUME Phases, Turning, pc \in {"idle", "load"}, pc' \in {"idle", "load", "threw"},
         UNCHANGED <<input, todo, self, views, draws>>
  PROVE  Phases' /\ Turning' /\ Handed'
<1>1. UNCHANGED <<cursor, held, lastCursorPos, yawPitch, polled>>
  BY DEF input
<1>2. todo = {} /\ self = 0 /\ views = <<>> /\ draws = <<>>
  BY DEF Phases
<1>3. Phases'
  BY <1>2 DEF Phases
<1>4. Turning'
  BY <1>1, <1>2 DEF Turning, Before, Ended
<1> QED BY <1>3, <1>4 DEF Handed

(* Scenes are only ever added to those loaded. *)
LEMMA WellFormedBefore ==
  ASSUME DOMAIN loadedScenes \subseteq DOMAIN loadedScenes'
  PROVE  WellFormedScenes' => WellFormedScenes
BY DEF WellFormedScenes

(* An entity is as ready as it was: what is loaded no more, the application   *)
(* has unloaded.                                                              *)
LEMMA ReadyKept ==
  ASSUME loaded \cup unloaded \subseteq loaded' \cup unloaded'
  PROVE  \A r : Ready(r) => Ready(r)'
BY DEF Ready

(* A registry that is left alone, in a step that does not fail. *)
LEMMA SoundKept ==
  ASSUME Sound, UNCHANGED <<registry, loaded, unloaded>>,
         DOMAIN loadedScenes \subseteq DOMAIN loadedScenes',
         WellFormedScenes /\ pc' = "undefined" => pc = "undefined" \/ Faulty
  PROVE  Sound'
<1>1. \A r : Ready(r) => Ready(r)'
  BY ReadyKept
<1>2. Live' = Live /\ \A e \in Live : registry'[e] = registry[e]
  BY DEF Live
<1>3. Faulty => Faulty'
  BY <1>2 DEF Faulty, AtFault
<1> QED BY <1>1, <1>2, <1>3, WellFormedBefore DEF Sound

(* The entities of a view that is left alone, and what they show. *)
LEMMA ViewsKept ==
  ASSUME UNCHANGED <<registry, loaded>>
  PROVE  /\ Live' = Live
         /\ \A C : With(C)' = With(C)
         /\ \A rest : Viewed(rest)' = Viewed(rest) /\ Shown(rest)' = Shown(rest)
         /\ \A seq, S : ShowsEach(seq, S) => ShowsEach(seq, S)'
<1>1. Live' = Live /\ registry' = registry /\ loaded' = loaded
  BY DEF Live
<1>2. \A C : With(C)' = With(C)
  BY <1>1 DEF With
<1>3. \A rest : Viewed(rest)' = Viewed(rest) /\ Shown(rest)' = Shown(rest)
  BY <1>1, <1>2 DEF Viewed, Shown
<1>4. \A seq, S : ShowsEach(seq, S) => ShowsEach(seq, S)'
  BY <1>1 DEF ShowsEach
<1> QED BY <1>1, <1>2, <1>3, <1>4

-----------------------------------------------------------------------------
(* Loading a scene. *)

(* A scene that is loaded for the first time has no entities yet. *)
LEMMA LoadSceneInv ==
  ASSUME Inv, NEW f \in DOMAIN Files, LoadScene(f)
  PROVE  Inv'
<1>1. /\ pc = "idle" /\ pc' = "load" /\ file' = f /\ next' = 1
      /\ loadedScenes' = [g \in DOMAIN loadedScenes \cup {f} |->
                            IF g \in DOMAIN loadedScenes THEN loadedScenes[g] ELSE <<>>]
      /\ UNCHANGED <<created, loaded, unloaded, registry, input, todo, self, views, draws, frames,
                     calls>>
  BY DEF LoadScene, pass
<1> USE DEF input
<1>2. \A g \in DOMAIN loadedScenes' : loadedScenes'[g] \in Seq(Handles)
  BY <1>1, EmptySeq DEF Inv, TypeOK
<1>3. TypeOK'
  BY <1>1, <1>2 DEF Inv, TypeOK, Live
<1>4. Shape'
  <2>1. registry' = [e \in Live' |-> registry'[e]]
    BY <1>1 DEF Inv, Shape, Live
  <2>2. loadedScenes' = [g \in DOMAIN loadedScenes' |-> loadedScenes'[g]]
    BY <1>1
  <2> QED BY <1>1, <2>1, <2>2 DEF Inv, Shape
<1>5. Sound'
  BY <1>1, SoundKept DEF Inv
<1>6. Phases' /\ Turning' /\ Handed'
  BY <1>1, OutsideStep DEF Inv
<1> QED BY <1>3, <1>4, <1>5, <1>6 DEF Inv

(* The node an entity is made from is one of the file that is being loaded. *)
LEMMA LoadEntityInv ==
  ASSUME Inv, LoadEntity
  PROVE  Inv'
<1> DEFINE node == Files[file][next]
           mesh == IF "StaticRenderer" \in node.has THEN node.mesh ELSE NoMesh
           materials == IF "StaticRenderer" \in node.has THEN node.materials ELSE <<>>
           window == IF "Camera" \in node.has THEN Primary ELSE Null
           class == IF "ScriptBehaviour" \in node.has THEN node.class ELSE NoClass
           made == [Blank EXCEPT !.has = node.has, !.mesh = mesh, !.materials = materials,
                                 !.window = window, !.class = class]
<1>1. /\ pc = "load" /\ pc' = "load" /\ next <= Len(Files[file]) /\ file' = file
      /\ Unregistered \notin Range(Named(node)) /\ NewEntity(made)
      /\ loadedScenes' = [loadedScenes EXCEPT ![file] = Append(loadedScenes[file], created')]
      /\ loaded' = loaded \cup Loads(node) /\ unloaded' = unloaded \ Loads(node)
      /\ next' = next + 1
      /\ UNCHANGED <<input, todo, self, views, draws, frames, calls>>
  BY DEF LoadEntity, pass
<1>2. /\ file \in DOMAIN Files /\ file \in DOMAIN loadedScenes /\ next \in Nat /\ next >= 1
      /\ Files[file] \in Seq(EntityNode)
  BY <1>1, SceneAssumption DEF Inv, TypeOK, Shape
<1>3. next \in DOMAIN Files[file] /\ node \in EntityNode
  BY <1>1, <1>2, ElementOfSeq
<1> HIDE DEF node
<1>4. /\ node.has \in SUBSET Components /\ node.mesh \in Ids \cup {Unregistered}
      /\ node.materials \in Seq(Ids \cup {Unregistered}) /\ node.class \in STRING
  BY <1>3 DEF EntityNode
<1>5. "StaticRenderer" \in node.has => /\ node.mesh \in Range(Named(node)) /\ node.mesh \in Ids
                                       /\ node.materials \in Seq(Ids)
                                       /\ Range(node.materials) \subseteq Range(Named(node))
  <2> SUFFICES ASSUME "StaticRenderer" \in node.has
               PROVE  /\ node.mesh \in Range(Named(node)) /\ node.mesh \in Ids
                      /\ node.materials \in Seq(Ids)
                      /\ Range(node.materials) \subseteq Range(Named(node))
    OBVIOUS
  <2>1. Named(node) = <<node.mesh>> \o node.materials
    BY DEF Named
  <2>2. /\ <<node.mesh>> \in Seq(Ids \cup {Unregistered}) /\ Len(<<node.mesh>>) = 1
        /\ <<node.mesh>>[1] = node.mesh
        /\ Len(node.materials) \in Nat /\ DOMAIN node.materials = 1 .. Len(node.materials)
    BY <1>4
  <2>3. /\ Len(Named(node)) = 1 + Len(node.materials)
        /\ Named(node) \in Seq(Ids \cup {Unregistered})
        /\ \A i \in 1 .. 1 + Len(node.materials) :
             Named(node)[i] = IF i <= 1 THEN <<node.mesh>>[i] ELSE node.materials[i - 1]
    BY <1>4, <2>1, <2>2, ConcatProperties
  <2>4. DOMAIN Named(node) = 1 .. 1 + Len(node.materials)
    BY <2>3
  <2>5. node.mesh \in Range(Named(node))
    <3>1. 1 \in DOMAIN Named(node) /\ Named(node)[1] = node.mesh
      BY <2>2, <2>3, <2>4
    <3> QED BY <3>1 DEF Range
  <2>6. \A i \in 1 .. Len(node.materials) : node.materials[i] \in Range(Named(node))
    <3> SUFFICES ASSUME NEW i \in 1 .. Len(node.materials)
                 PROVE  node.materials[i] \in Range(Named(node))
      OBVIOUS
    <3>1. i + 1 \in DOMAIN Named(node) /\ Named(node)[i + 1] = node.materials[i]
      BY <2>2, <2>3, <2>4
    <3> QED BY <3>1 DEF Range
  <2>7. \A i \in 1 .. Len(node.materials) : node.materials[i] \in Ids
    BY <1>1, <1>4, <2>6, ElementOfSeq
  <2>8. node.materials \in Seq(Ids)
    BY <1>4, <2>2, <2>7
  <2>9. Range(node.materials) \subseteq Range(Named(node))
    BY <2>2, <2>6 DEF Range
  <2> QED BY <1>1, <1>4, <2>5, <2>8, <2>9
<1>6. /\ mesh \in Ids \cup {NoMesh} /\ materials \in Seq(Ids) /\ window \in {Null, Primary}
      /\ class \in STRING \cup {NoClass}
  BY <1>4, <1>5, EmptySeq
<1>7. made \in Entity /\ made.has = node.has /\ made.mesh = mesh /\ made.materials = materials
      /\ made.class = class /\ made.written = {}
  <2> HIDE DEF mesh, materials, window, class
  <2>1. made = [has |-> node.has, position |-> 0, rotation |-> [x |-> 0, y |-> 0],
                mesh |-> mesh, materials |-> materials, window |-> window, class |-> class,
                written |-> {}]
    <3>1. /\ made.has = node.has /\ made.position = 0 /\ made.rotation = [x |-> 0, y |-> 0]
          /\ made.mesh = mesh /\ made.materials = materials /\ made.window = window
          /\ made.class = class /\ made.written = {}
      BY DEF Blank
    <3>2. DOMAIN made = {"has", "position", "rotation", "mesh", "materials", "window", "class",
                         "written"}
      BY DEF Blank
    <3>3. made = [x \in DOMAIN made |-> made[x]]
      OBVIOUS
    <3> HIDE DEF made
    <3> QED BY <3>1, <3>2, <3>3
  <2>2. [x |-> 0, y |-> 0] \in Angles
    <3>1. Limit \in Nat
      BY SceneAssumption
    <3> QED BY <3>1 DEF Angles
  <2>3. 0 \in Positions
    BY SceneAssumption
  <2>4. made \in Entity
    BY <1>4, <1>6, <2>1, <2>2, <2>3 DEF Entity
  <2> QED BY <2>1, <2>4
<1> HIDE DEF made
<1>8. /\ created' \in 0 .. MaxEntities /\ created' \in Handles /\ created' \notin Live
      /\ Live' = Live \cup {created'} /\ Live' \subseteq 1 .. created'
      /\ registry'[created'] = made /\ \A e \in Live : registry'[e] = registry[e]
      /\ \A e \in Live' : registry'[e] \in Entity
      /\ registry' = [e \in Live' |-> registry'[e]]
  BY <1>1, <1>7, NewEntityRegistered DEF Inv
<1>9. /\ DOMAIN loadedScenes' = DOMAIN loadedScenes
      /\ loadedScenes' = [f \in DOMAIN loadedScenes' |-> loadedScenes'[f]]
      /\ \A f \in DOMAIN loadedScenes' : loadedScenes'[f] \in Seq(Handles)
  <2>1. loadedScenes = [f \in DOMAIN loadedScenes |-> loadedScenes[f]]
    BY DEF Inv, Shape
  <2>2. \A f \in DOMAIN loadedScenes : loadedScenes[f] \in Seq(Handles)
    BY DEF Inv, TypeOK
  <2>3. Append(loadedScenes[file], created') \in Seq(Handles)
    BY <1>2, <1>8, <2>2, AppendProperties
  <2> QED BY <1>1, <1>2, <2>1, <2>2, <2>3
<1>10. /\ loaded' \subseteq Ids /\ unloaded' \subseteq Ids /\ loaded' \subseteq Buildable
       /\ loaded \cup unloaded \subseteq loaded' \cup unloaded'
  BY <1>1 DEF Buildable, Loads, Inv, TypeOK, Shape
<1>11. TypeOK'
  <2>1. /\ todo' \subseteq Live' /\ self' \in Live' \cup {0}
    BY <1>1, <1>8 DEF Inv, TypeOK
  <2>2. /\ cursor' \in Vec /\ held' \in BOOLEAN /\ yawPitch' \in Angles
        /\ frames' \in 0 .. MaxFrames /\ calls' \in 0 .. MaxCalls
    BY <1>1 DEF Inv, TypeOK, Angles, Vec, input
  <2>3. file' \in DOMAIN Files /\ next' \in Nat
    BY <1>1, <1>2
  <2> QED BY <1>1, <1>8, <1>9, <1>10, <2>1, <2>2, <2>3, TypeFromRegistry DEF Inv
<1>12. Shape'
  <2>1. next' >= 1 /\ file' \in DOMAIN loadedScenes'
    BY <1>1, <1>2, <1>9
  <2> QED BY <1>1, <1>8, <1>9, <1>10, <2>1 DEF Inv, Shape, input
<1>13. Sound'
  <2> SUFFICES ASSUME WellFormedScenes' PROVE \A e \in Live' : Ready(registry[e])'
    BY <1>1 DEF Sound
  <2>1. WellFormedScenes
    BY <1>9, WellFormedBefore
  <2>2. WellFormedNode(node)
    BY <1>2, <1>3, <2>1 DEF WellFormedScenes, node
  <2>3. \A r : r = made => Ready(r)'
    <3> SUFFICES ASSUME NEW r, r = made PROVE Ready(r)'
      OBVIOUS
    <3>1. ASSUME made.mesh # NoMesh
          PROVE  RendererFits(made) /\ made.materials[1] \in loaded'
      <4>1. /\ "StaticRenderer" \in node.has /\ made.mesh = node.mesh
            /\ made.materials = node.materials
        BY <1>7, <3>1
      <4>2. RendererFits(node)
        BY <2>2, <4>1 DEF WellFormedNode
      <4>3. /\ node.materials # <<>> /\ node.materials[1] \in Ids
            /\ TypeOf[node.materials[1]] = "Material"
        BY <4>2 DEF RendererFits
      <4>4. node.materials[1] \in Range(node.materials)
        <5>1. 1 \in DOMAIN node.materials
          BY <1>4, <4>3
        <5> QED BY <5>1 DEF Range
      <4>5. node.materials[1] \in Loads(node)
        BY <1>5, <4>1, <4>3, <4>4 DEF Loads, Buildable, Factories
      <4>6. RendererFits(made)
        BY <4>1, <4>2 DEF RendererFits
      <4> QED BY <1>1, <4>1, <4>5, <4>6
    <3>2. "ScriptBehaviour" \in made.has => ScriptFits(made)
      BY <1>7, <2>2 DEF WellFormedNode, ScriptFits
    <3> QED BY <3>1, <3>2 DEF Ready
  <2>4. \A r : Ready(r) => Ready(r)'
    BY <1>10, ReadyKept
  <2> QED BY <1>1, <1>8, <2>1, <2>3, <2>4 DEF Inv, Sound
<1>14. Phases' /\ Turning' /\ Handed'
  BY <1>1, OutsideStep DEF Inv
<1> QED BY <1>11, <1>12, <1>13, <1>14 DEF Inv

(* The exception and the return change nothing else. *)
LEMMA LoadEndsInv ==
  ASSUME Inv, LoadThrows \/ LoadReturns
  PROVE  Inv'
<1>1. /\ pc = "load" /\ pc' \in {"threw", "idle"}
      /\ UNCHANGED <<file, next, created, loadedScenes, loaded, unloaded, registry, input, todo, self,
                     views, draws, frames, calls>>
  BY DEF LoadThrows, LoadReturns, loading, pass
<1>2. TypeOK'
  BY <1>1 DEF Inv, TypeOK, Live, input, Ended
<1>3. Shape'
  BY <1>1 DEF Inv, Shape, Live, input
<1>4. Sound'
  BY <1>1, SoundKept DEF Inv
<1>5. Phases' /\ Turning' /\ Handed'
  BY <1>1, OutsideStep DEF Inv
<1> QED BY <1>2, <1>3, <1>4, <1>5 DEF Inv

-----------------------------------------------------------------------------
(* The application's calls. *)

(* A call that keeps the registry typed and its entities ready. *)
LEMMA CalledInv ==
  ASSUME Inv, Called, UNCHANGED <<file, next, loadedScenes, input>>,
         created' \in 0 .. MaxEntities, Live' \subseteq 1 .. created',
         \A e \in Live' : registry'[e] \in Entity,
         registry' = [e \in Live' |-> registry'[e]],
         loaded' \subseteq Buildable /\ unloaded' \subseteq Ids,
         WellFormedScenes => \A e \in Live' : Ready(registry[e])'
  PROVE  Inv'
<1>1. /\ pc = "idle" /\ pc' = "idle" /\ calls < MaxCalls /\ calls' = calls + 1
      /\ UNCHANGED <<todo, self, views, draws, frames>>
  BY DEF Called
<1>2. todo' = {} /\ self' = 0
  BY <1>1 DEF Inv, Phases
<1>3. calls' \in 0 .. MaxCalls
  <2>1. calls \in 0 .. MaxCalls /\ MaxCalls \in Nat
    BY SceneAssumption DEF Inv, TypeOK
  <2> QED BY <1>1, <2>1
<1>4. TypeOK'
  <2>1. /\ file' \in DOMAIN Files /\ next' \in Nat
        /\ \A f \in DOMAIN loadedScenes' : loadedScenes'[f] \in Seq(Handles)
        /\ cursor' \in Vec /\ held' \in BOOLEAN /\ yawPitch' \in Angles
        /\ frames' \in 0 .. MaxFrames /\ loaded' \subseteq Ids
    BY <1>1 DEF Inv, TypeOK, Angles, Vec, input, Buildable
  <2> QED BY <1>1, <1>2, <1>3, <2>1, TypeFromRegistry DEF Inv
<1>5. Shape'
  BY <1>1 DEF Inv, Shape, input
<1>6. Sound'
  BY <1>1, WellFormedBefore DEF Sound
<1>7. Phases' /\ Turning' /\ Handed'
  BY <1>1, OutsideStep DEF Inv
<1> QED BY <1>4, <1>5, <1>6, <1>7 DEF Inv

(* An entity without components, as the registry makes it. *)
LEMMA BlankEntity == Blank \in Entity /\ \A r : r = Blank => Ready(r) /\ Ready(r)'
<1>1. [x |-> 0, y |-> 0] \in Angles
  <2>1. Limit \in Nat
    BY SceneAssumption
  <2> QED BY <2>1 DEF Angles
<1>2. 0 \in Positions
  BY SceneAssumption
<1>3. Blank \in Entity
  BY <1>1, <1>2, EmptySeq DEF Entity, Blank
<1> QED BY <1>3 DEF Blank, Ready

(* create_entity *)
LEMMA CreateEntityInv ==
  ASSUME Inv, CreateEntity
  PROVE  Inv'
<1>1. Called /\ NewEntity(Blank) /\ UNCHANGED <<file, next, loadedScenes, loaded, unloaded, input>>
  BY DEF CreateEntity
<1>2. /\ created' \in 0 .. MaxEntities /\ Live' = Live \cup {created'}
      /\ Live' \subseteq 1 .. created'
      /\ registry'[created'] = Blank /\ \A e \in Live : registry'[e] = registry[e]
      /\ \A e \in Live' : registry'[e] \in Entity
      /\ registry' = [e \in Live' |-> registry'[e]]
  BY <1>1, BlankEntity, NewEntityRegistered DEF Inv
<1>3. WellFormedScenes => \A e \in Live' : Ready(registry[e])'
  BY <1>1, <1>2, ReadyKept, BlankEntity DEF Inv, Sound
<1>4. loaded' \subseteq Buildable /\ unloaded' \subseteq Ids
  BY <1>1 DEF Inv, TypeOK, Shape
<1> QED BY <1>1, <1>2, <1>3, <1>4, CalledInv

(* destroy_entity *)
LEMMA DestroyEntityInv ==
  ASSUME Inv, NEW e \in Live, DestroyEntity(e)
  PROVE  Inv'
<1>1. /\ Called /\ registry' = [g \in Live \ {e} |-> registry[g]]
      /\ UNCHANGED <<file, next, created, loadedScenes, loaded, unloaded, input>>
  BY DEF DestroyEntity, loading
<1>2. Live' = Live \ {e}
  BY <1>1 DEF Live
<1>3. /\ \A g \in Live' : registry'[g] = registry[g] /\ registry'[g] \in Entity
      /\ registry' = [g \in Live' |-> registry'[g]]
  BY <1>1, <1>2, Registered DEF Inv
<1>4. WellFormedScenes => \A g \in Live' : Ready(registry[g])'
  BY <1>1, <1>2, <1>3, ReadyKept DEF Inv, Sound
<1>5. /\ created' \in 0 .. MaxEntities /\ Live' \subseteq 1 .. created'
      /\ loaded' \subseteq Buildable /\ unloaded' \subseteq Ids
  BY <1>1, <1>2 DEF Inv, TypeOK, Shape
<1> QED BY <1>1, <1>3, <1>4, <1>5, CalledInv

(* clear_scene *)
LEMMA ClearSceneInv ==
  ASSUME Inv, ClearScene
  PROVE  Inv'
<1>1. /\ Called /\ registry' = <<>> /\ created' = 0
      /\ UNCHANGED <<file, next, loadedScenes, loaded, unloaded, input>>
  BY DEF ClearScene
<1>2. Live' = {} /\ registry' = [e \in Live' |-> registry'[e]]
  BY <1>1 DEF Live
<1>3. created' \in 0 .. MaxEntities /\ loaded' \subseteq Buildable /\ unloaded' \subseteq Ids
  BY <1>1, SceneAssumption DEF Inv, TypeOK, Shape
<1> QED BY <1>1, <1>2, <1>3, CalledInv

(* A change to one entity that stays ready. *)
LEMMA ChangeInv ==
  ASSUME Inv, NEW e \in Live, NEW r \in Entity, Called,
         registry' = [registry EXCEPT ![e] = r],
         UNCHANGED <<file, next, created, loadedScenes, loaded, unloaded, input>>,
         Ready(registry[e]) => \A s : s = r => Ready(s)
  PROVE  Inv'
<1>1. /\ Live' = Live
      /\ registry'[e] = r /\ \A g \in Live : g # e => registry'[g] = registry[g]
      /\ \A g \in Live' : registry'[g] \in Entity
      /\ registry' = [g \in Live' |-> registry'[g]]
  BY ChangeRegistered DEF Inv
<1>2. WellFormedScenes => \A g \in Live' : Ready(registry[g])'
  BY <1>1, ReadyKept DEF Inv, Sound
<1>3. /\ created' \in 0 .. MaxEntities /\ Live' \subseteq 1 .. created'
      /\ loaded' \subseteq Buildable /\ unloaded' \subseteq Ids
  BY <1>1 DEF Inv, TypeOK, Shape
<1> QED BY <1>1, <1>2, <1>3, CalledInv

(* add_component: a component more is nothing less. *)
LEMMA AddComponentInv ==
  ASSUME Inv, NEW e \in Live, NEW c \in {"Transform", "Camera"}, AddComponent(e, c)
  PROVE  Inv'
<1> DEFINE r == [registry[e] EXCEPT !.has = registry[e].has \cup {c}]
<1>1. /\ Called /\ registry' = [registry EXCEPT ![e] = r]
      /\ UNCHANGED <<file, next, created, loadedScenes, loaded, unloaded, input>>
  BY DEF AddComponent, loading
<1>2. registry[e] \in Entity
  BY Registered DEF Inv
<1>3. /\ r \in Entity /\ r.has = registry[e].has \cup {c} /\ r.mesh = registry[e].mesh
      /\ r.materials = registry[e].materials /\ r.class = registry[e].class
      /\ r.written = registry[e].written
  BY <1>2 DEF Entity, Components
<1> HIDE DEF r
<1>4. Ready(registry[e]) => \A s : s = r => Ready(s)
  BY <1>3 DEF Ready, RendererFits, ScriptFits
<1> QED BY <1>1, <1>3, <1>4, ChangeInv

(* A script the application adds is its own matter; the renderer stays.       *)
LEMMA AddScriptInv ==
  ASSUME Inv, NEW e \in Live, NEW class \in AppClasses \cup {NoClass}, AddScript(e, class)
  PROVE  Inv'
<1> DEFINE r == [registry[e] EXCEPT !.has = registry[e].has \cup {"ScriptBehaviour"},
                                    !.class = class,
                                    !.written = registry[e].written \cup {"ScriptBehaviour"}]
<1>1. /\ Called /\ registry' = [registry EXCEPT ![e] = r]
      /\ UNCHANGED <<file, next, created, loadedScenes, loaded, unloaded, input>>
  BY DEF AddScript, loading
<1>2. registry[e] \in Entity /\ class \in STRING \cup {NoClass}
  BY Registered, SceneAssumption DEF Inv
<1>3. /\ r \in Entity /\ r.mesh = registry[e].mesh /\ r.materials = registry[e].materials
      /\ r.written = registry[e].written \cup {"ScriptBehaviour"}
  BY <1>2 DEF Entity, Components
<1> HIDE DEF r
<1>4. Ready(registry[e]) => \A s : s = r => Ready(s)
  BY <1>3 DEF Ready, RendererFits
<1> QED BY <1>1, <1>3, <1>4, ChangeInv

(* So is a renderer; the script has what it had. *)
LEMMA AddRendererInv ==
  ASSUME Inv, NEW e \in Live, NEW mesh \in Ids \cup {NoMesh}, NEW list \in Lists,
         AddRenderer(e, mesh, list)
  PROVE  Inv'
<1> DEFINE r == [registry[e] EXCEPT !.has = registry[e].has \cup {"StaticRenderer"},
                                    !.mesh = mesh, !.materials = list,
                                    !.written = registry[e].written \cup {"StaticRenderer"}]
<1>1. /\ Called /\ registry' = [registry EXCEPT ![e] = r]
      /\ UNCHANGED <<file, next, created, loadedScenes, loaded, unloaded, input>>
  BY DEF AddRenderer, loading
<1>2. registry[e] \in Entity /\ list \in Seq(Ids)
  <2>1. list \in Seq(Ids)
    <3>1. CASE list = <<>>
      BY <3>1, EmptySeq
    <3>2. CASE list # <<>>
      <4>1. PICK id \in Ids : list = <<id>>
        BY <3>2 DEF Lists
      <4>2. <<id>> \in Seq(Ids)
        OBVIOUS
      <4> QED BY <4>1, <4>2
    <3> QED BY <3>1, <3>2
  <2> QED BY <2>1, Registered DEF Inv
<1>3. /\ r \in Entity /\ r.has = registry[e].has \cup {"StaticRenderer"}
      /\ r.class = registry[e].class
      /\ r.written = registry[e].written \cup {"StaticRenderer"}
  BY <1>2 DEF Entity, Components
<1> HIDE DEF r
<1>4. Ready(registry[e]) => \A s : s = r => Ready(s)
  BY <1>3 DEF Ready, ScriptFits
<1> QED BY <1>1, <1>3, <1>4, ChangeInv

(* The window of a camera. *)
LEMMA SetWindowInv ==
  ASSUME Inv, NEW e \in Live, NEW w \in {Null, Primary}, SetWindow(e, w)
  PROVE  Inv'
<1> DEFINE r == [registry[e] EXCEPT !.window = w]
<1>1. /\ Called /\ registry' = [registry EXCEPT ![e] = r]
      /\ UNCHANGED <<file, next, created, loadedScenes, loaded, unloaded, input>>
  BY DEF SetWindow, loading
<1>2. registry[e] \in Entity
  BY Registered DEF Inv
<1>3. /\ r \in Entity /\ r.has = registry[e].has /\ r.mesh = registry[e].mesh
      /\ r.materials = registry[e].materials /\ r.class = registry[e].class
      /\ r.written = registry[e].written
  BY <1>2 DEF Entity
<1> HIDE DEF r
<1>4. Ready(registry[e]) => \A s : s = r => Ready(s)
  BY <1>3 DEF Ready, RendererFits, ScriptFits
<1> QED BY <1>1, <1>3, <1>4, ChangeInv

(* What is unloaded, of any type, is known to be. *)
LEMMA UnloadInv ==
  ASSUME Inv, NEW id \in Ids, Unload(id)
  PROVE  Inv'
<1>1. /\ Called /\ loaded' = loaded \ {id} /\ unloaded' = unloaded \cup {id}
      /\ UNCHANGED <<file, next, created, loadedScenes, registry, input>>
  BY DEF Unload
<1>2. Live' = Live /\ \A e \in Live : registry'[e] = registry[e]
  BY <1>1 DEF Live
<1>3. \A r : Ready(r) => Ready(r)'
  BY <1>1, ReadyKept
<1>4. WellFormedScenes => \A e \in Live' : Ready(registry[e])'
  BY <1>2, <1>3 DEF Inv, Sound
<1>5. /\ created' \in 0 .. MaxEntities /\ Live' \subseteq 1 .. created'
      /\ loaded' \subseteq Buildable /\ unloaded' \subseteq Ids
      /\ \A e \in Live' : registry'[e] \in Entity
      /\ registry' = [e \in Live' |-> registry'[e]]
  BY <1>1, <1>2, Registered DEF Inv, TypeOK, Shape
<1> QED BY <1>1, <1>4, <1>5, CalledInv

-----------------------------------------------------------------------------
(* update(): the scripts. *)

(* A step of the frame that leaves the registry and the resources alone. *)
LEMMA FrameStep ==
  ASSUME Inv, UNCHANGED <<loading, registry, calls>>,
         pc' \in {"idle", "scripts", "cameras", "meshes"} \cup Ended,
         frames' \in 0 .. MaxFrames,
         cursor' \in Vec /\ held' \in BOOLEAN /\ yawPitch' \in Angles,
         todo' \subseteq Live /\ self' \in Live \cup {0},
         views' \in Seq(Item) /\ draws' \in Seq(Item) /\ lastCursorPos' \in Vec,
         polled' \in [cursor : Vec, seen : BOOLEAN, yawPitch : Angles],
         WellFormedScenes /\ pc' = "undefined" => Faulty
  PROVE  TypeOK' /\ Shape' /\ Sound'
<1>1. /\ UNCHANGED <<file, next, created, loadedScenes, loaded, unloaded, registry, calls>>
      /\ Live' = Live
  BY DEF loading, Live
<1>2. TypeOK'
  <2>1. /\ file' \in DOMAIN Files /\ next' \in Nat
        /\ created' \in 0 .. MaxEntities /\ Live' \subseteq 1 .. created'
        /\ \A f \in DOMAIN loadedScenes' : loadedScenes'[f] \in Seq(Handles)
        /\ loaded' \subseteq Ids /\ unloaded' \subseteq Ids /\ calls' \in 0 .. MaxCalls
    BY <1>1 DEF Inv, TypeOK
  <2>2. \A e \in Live' : registry'[e] \in Entity
    BY <1>1, Registered DEF Inv
  <2>3. todo' \subseteq Live' /\ self' \in Live' \cup {0}
    BY <1>1
  <2> QED BY <2>1, <2>2, <2>3, TypeFromRegistry DEF Inv
<1>3. Shape'
  BY <1>1 DEF Inv, Shape, Ended
<1>4. Sound'
  BY <1>1, SoundKept DEF Inv
<1> QED BY <1>2, <1>3, <1>4

(* The types of what a step of the frame mostly leaves alone. *)
LEMMA FrameTyped ==
  ASSUME Inv
  PROVE  /\ frames \in 0 .. MaxFrames
         /\ cursor \in Vec /\ held \in BOOLEAN /\ yawPitch \in Angles
         /\ todo \subseteq Live /\ self \in Live \cup {0}
         /\ views \in Seq(Item) /\ draws \in Seq(Item) /\ lastCursorPos \in Vec
         /\ polled \in [cursor : Vec, seen : BOOLEAN, yawPitch : Angles]
BY DEF Inv, TypeOK, Shape, Angles, Vec

(* The frame begins with the scripts; the button is as it was polled. *)
LEMMA BeginUpdateInv ==
  ASSUME Inv, BeginUpdate
  PROVE  Inv'
<1>1. /\ pc = "idle" /\ frames < MaxFrames /\ frames' = frames + 1 /\ pc' = "scripts"
      /\ held' \in BOOLEAN /\ todo' = With({"ScriptBehaviour"})
      /\ UNCHANGED <<loading, registry, cursor, lastCursorPos, yawPitch, polled, self, views, draws,
                     calls>>
  BY DEF BeginUpdate
<1>2. frames' \in 0 .. MaxFrames /\ With({"ScriptBehaviour"}) \subseteq Live
  BY <1>1, FrameTyped, SceneAssumption DEF With
<1>3. TypeOK' /\ Shape' /\ Sound'
  BY <1>1, <1>2, FrameTyped, FrameStep
<1>4. self = 0 /\ views = <<>> /\ draws = <<>>
  BY <1>1 DEF Inv, Phases
<1>5. Phases'
  <2>1. \A C : With(C)' = With(C)
    BY <1>1, ViewsKept DEF loading
  <2> QED BY <1>1, <1>4, <2>1 DEF Phases
<1>6. Turning' /\ Handed'
  BY <1>1, <1>4 DEF Inv, Turning, Before, Handed, Ended
<1> QED BY <1>3, <1>5, <1>6 DEF Inv

(* While the scripts run nothing has been handed to the renderer, and the    *)
(* angles stay.                                                              *)
LEMMA ScriptStep ==
  ASSUME Inv, pc = "scripts", pc' \in {"scripts", "undefined"},
         UNCHANGED <<input, views, draws>>,
         pc' = "scripts" => /\ todo' \subseteq With({"ScriptBehaviour"})'
                            /\ self' \in With({"ScriptBehaviour"})' \cup {0}
  PROVE  Phases' /\ Turning' /\ Handed'
<1>1. UNCHANGED <<cursor, held, lastCursorPos, yawPitch, polled>> /\ views = <<>> /\ draws = <<>>
  BY DEF input, Inv, Phases
<1>2. Phases'
  BY <1>1 DEF Phases
<1>3. Turning' /\ Handed'
  BY <1>1 DEF Inv, Turning, Before, Handed, Ended
<1> QED BY <1>2, <1>3

(* A step of the scripts that leaves the registry alone. *)
LEMMA ScriptStays ==
  ASSUME Inv, pc = "scripts", pc' \in {"scripts", "undefined"},
         UNCHANGED <<loading, registry, input, views, draws, frames, calls>>,
         todo' \subseteq todo, self' \in {self, 0} \cup todo,
         WellFormedScenes /\ pc' = "undefined" => Faulty
  PROVE  Inv'
<1>1. UNCHANGED <<cursor, held, lastCursorPos, yawPitch, polled>>
  BY DEF input
<1>2. TypeOK' /\ Shape' /\ Sound'
  <2>1. todo' \subseteq Live /\ self' \in Live \cup {0}
    BY FrameTyped
  <2> QED BY <1>1, <2>1, FrameTyped, FrameStep DEF Ended
<1>3. Phases' /\ Turning' /\ Handed'
  <2>1. \A C : With(C)' = With(C)
    BY ViewsKept DEF loading
  <2> QED BY <2>1, ScriptStep DEF Inv, Phases
<1> QED BY <1>2, <1>3 DEF Inv

(* A script that is not there, or asks for what its entity does not have, is  *)
(* one the application has written, where the scenes are well formed.         *)
LEMMA ScriptFault ==
  ASSUME Inv, WellFormedScenes, NEW e \in With({"ScriptBehaviour"}),
         \/ registry[e].class \notin AppClasses
         \/ Asks[registry[e].class] \in Components \ registry[e].has
         \/ Asks[registry[e].class] = "destroy"
  PROVE  Faulty
<1>1. e \in Live /\ "ScriptBehaviour" \in registry[e].has /\ registry[e].has \subseteq Components
  BY Registered DEF With, Inv, Entity
<1>2. ~ScriptFits(registry[e])
  BY <1>1 DEF ScriptFits, Components
<1>3. Ready(registry[e])
  BY <1>1 DEF Inv, Sound
<1>4. "ScriptBehaviour" \in registry[e].written
  BY <1>1, <1>2, <1>3 DEF Ready
<1> QED BY <1>1, <1>2, <1>4 DEF Faulty, AtFault

(* An entity's class is looked up. *)
LEMMA InvokeScriptInv ==
  ASSUME Inv, NEW e \in todo, InvokeScript(e)
  PROVE  Inv'
<1>1. /\ pc = "scripts" /\ todo' = todo \ {e}
      /\ IF registry[e].class \in AppClasses THEN self' = e /\ UNCHANGED pc
                                             ELSE pc' = "undefined" /\ UNCHANGED self
      /\ UNCHANGED <<loading, registry, input, views, draws, frames, calls>>
  BY DEF InvokeScript
<1>2. WellFormedScenes /\ pc' = "undefined" => Faulty
  BY <1>1, ScriptFault DEF Inv, Phases
<1>3. pc' \in {"scripts", "undefined"} /\ todo' \subseteq todo /\ self' \in {self, 0} \cup todo
  BY <1>1
<1> QED BY <1>1, <1>2, <1>3, ScriptStays

(* A script of a scene asks only for what its entity has, and destroys none. *)
LEMMA ScriptEndsInv ==
  ASSUME Inv, ScriptAsks \/ ScriptDestroys
  PROVE  Inv'
<1>1. /\ pc = "scripts" /\ self # 0 /\ pc' = "undefined"
      /\ \/ Asks[registry[self].class] \in Components \ registry[self].has
         \/ Asks[registry[self].class] = "destroy"
      /\ UNCHANGED <<loading, registry, input, todo, self, views, draws, frames, calls>>
  BY DEF ScriptAsks, ScriptDestroys, pass
<1>2. WellFormedScenes => Faulty
  <2>1. self \in With({"ScriptBehaviour"})
    BY <1>1 DEF Inv, Phases
  <2> QED BY <1>1, <2>1, ScriptFault
<1> QED BY <1>1, <1>2, ScriptStays

(* A script moves its entity: its components are the same. *)
LEMMA ScriptMovesInv ==
  ASSUME Inv, NEW p \in Positions, ScriptMoves(p)
  PROVE  Inv'
<1> DEFINE r == [registry[self] EXCEPT !.position = p]
<1>1. /\ pc = "scripts" /\ pc' = "scripts" /\ self # 0
      /\ registry' = [registry EXCEPT ![self] = r]
      /\ UNCHANGED <<file, next, created, loadedScenes, loaded, unloaded, input, todo, self, views,
                     draws, frames, calls>>
  BY DEF ScriptMoves, ScriptHas, loading, pass
<1>2. self \in With({"ScriptBehaviour"}) /\ self \in Live
  BY <1>1 DEF Inv, Phases, With
<1>3. registry[self] \in Entity
  BY <1>2, Registered DEF Inv
<1>4. /\ r \in Entity /\ r.has = registry[self].has /\ r.mesh = registry[self].mesh
      /\ r.materials = registry[self].materials /\ r.class = registry[self].class
      /\ r.written = registry[self].written
  BY <1>3 DEF Entity
<1> HIDE DEF r
<1>5. /\ Live' = Live
      /\ registry'[self] = r /\ \A g \in Live : g # self => registry'[g] = registry[g]
      /\ \A g \in Live' : registry'[g] \in Entity
      /\ registry' = [g \in Live' |-> registry'[g]]
  BY <1>1, <1>2, <1>4, ChangeRegistered DEF Inv
<1>6. \A C : With(C)' = With(C)
  BY <1>4, <1>5 DEF With
<1>7. TypeOK'
  <2>1. /\ file' \in DOMAIN Files /\ next' \in Nat
        /\ created' \in 0 .. MaxEntities /\ Live' \subseteq 1 .. created'
        /\ \A f \in DOMAIN loadedScenes' : loadedScenes'[f] \in Seq(Handles)
        /\ loaded' \subseteq Ids /\ unloaded' \subseteq Ids
        /\ cursor' \in Vec /\ held' \in BOOLEAN /\ yawPitch' \in Angles
        /\ todo' \subseteq Live' /\ self' \in Live' \cup {0}
        /\ frames' \in 0 .. MaxFrames /\ calls' \in 0 .. MaxCalls
    BY <1>1, <1>5 DEF Inv, TypeOK, Angles, Vec, input
  <2> QED BY <1>1, <1>5, <2>1, TypeFromRegistry DEF Inv
<1>8. Shape'
  BY <1>1, <1>5 DEF Inv, Shape, input
<1>9. Sound'
  <2>1. WellFormedScenes' => WellFormedScenes
    BY <1>1, WellFormedBefore
  <2>2. \A s : Ready(s) => Ready(s)'
    BY <1>1, ReadyKept
  <2>3. Ready(registry[self]) => \A s : s = r => Ready(s)
    BY <1>4 DEF Ready, RendererFits, ScriptFits
  <2> QED BY <1>1, <1>2, <1>5, <2>1, <2>2, <2>3 DEF Inv, Sound
<1>10. Phases' /\ Turning' /\ Handed'
  BY <1>1, <1>6, ScriptStep DEF Inv, Phases
<1> QED BY <1>7, <1>8, <1>9, <1>10 DEF Inv

(* A script creates an entity: it has no component. *)
LEMMA ScriptCreatesInv ==
  ASSUME Inv, ScriptCreates
  PROVE  Inv'
<1>1. /\ pc = "scripts" /\ pc' = "scripts" /\ NewEntity(Blank)
      /\ UNCHANGED <<file, next, loadedScenes, loaded, unloaded, input, todo, self, views, draws,
                     frames, calls>>
  BY DEF ScriptCreates, pass
<1>2. /\ created' \in 0 .. MaxEntities /\ Live' = Live \cup {created'}
      /\ Live' \subseteq 1 .. created' /\ created' \notin Live
      /\ registry'[created'] = Blank /\ \A e \in Live : registry'[e] = registry[e]
      /\ \A e \in Live' : registry'[e] \in Entity
      /\ registry' = [e \in Live' |-> registry'[e]]
  BY <1>1, BlankEntity, NewEntityRegistered DEF Inv
<1>3. With({"ScriptBehaviour"}) \subseteq With({"ScriptBehaviour"})'
  BY <1>2 DEF With
<1>4. TypeOK'
  <2>1. /\ file' \in DOMAIN Files /\ next' \in Nat
        /\ \A f \in DOMAIN loadedScenes' : loadedScenes'[f] \in Seq(Handles)
        /\ loaded' \subseteq Ids /\ unloaded' \subseteq Ids
        /\ cursor' \in Vec /\ held' \in BOOLEAN /\ yawPitch' \in Angles
        /\ todo' \subseteq Live' /\ self' \in Live' \cup {0}
        /\ frames' \in 0 .. MaxFrames /\ calls' \in 0 .. MaxCalls
    BY <1>1, <1>2 DEF Inv, TypeOK, Angles, Vec, input
  <2> QED BY <1>1, <1>2, <2>1, TypeFromRegistry DEF Inv
<1>5. Shape'
  BY <1>1, <1>2 DEF Inv, Shape, input
<1>6. Sound'
  <2>1. WellFormedScenes' => WellFormedScenes
    BY <1>1, WellFormedBefore
  <2>2. \A s : Ready(s) => Ready(s)'
    BY <1>1, ReadyKept
  <2> QED BY <1>1, <1>2, <2>1, <2>2, BlankEntity DEF Inv, Sound
<1>7. Phases' /\ Turning' /\ Handed'
  BY <1>1, <1>3, ScriptStep DEF Inv, Phases
<1> QED BY <1>4, <1>5, <1>6, <1>7 DEF Inv

(* The script's return. *)
LEMMA ScriptReturnsInv ==
  ASSUME Inv, ScriptReturns
  PROVE  Inv'
<1>1. /\ pc = "scripts" /\ pc' = "scripts" /\ self' = 0
      /\ UNCHANGED <<loading, registry, input, todo, views, draws, frames, calls>>
  BY DEF ScriptReturns
<1> QED BY <1>1, ScriptStays

-----------------------------------------------------------------------------
(* update(): the cameras. *)

(* Nothing shows nothing. *)
LEMMA ShowsNothing ==
  ASSUME NEW S, S = {}
  PROVE  ShowsEach(<<>>, S) /\ ShowsEach(<<>>, S)'
<1>1. Range(<<>>) = {} /\ Len(<<>>) = 0 /\ Cardinality(S) = 0
  BY FS_EmptySet DEF Range
<1> QED BY <1>1 DEF ShowsEach

(* What is appended shows one entity more, if the others show what they did.  *)
LEMMA ShowsOneMore ==
  ASSUME NEW seq \in Seq(Item), NEW x \in Item, NEW S, IsFiniteSet(S), NEW e, e \notin S,
         ShowsEach(seq, S), \A g \in S : registry'[g] = registry[g],
         x = [entity |-> e, position |-> registry'[e].position, rotation |-> registry'[e].rotation]
  PROVE  ShowsEach(Append(seq, x), S \cup {e})'
<1> DEFINE t == Append(seq, x)
<1>1. /\ t \in Seq(Item) /\ Len(t) = Len(seq) + 1 /\ Len(seq) \in Nat
      /\ \A i \in 1 .. Len(seq) : t[i] = seq[i]
      /\ t[Len(seq) + 1] = x
  BY AppendProperties
<1>2. DOMAIN t = 1 .. Len(seq) + 1 /\ DOMAIN seq = 1 .. Len(seq)
  BY <1>1
<1> HIDE DEF t
<1>3. Range(t) = Range(seq) \cup {x}
  <2>1. Range(t) \subseteq Range(seq) \cup {x}
    BY <1>1, <1>2 DEF Range
  <2>2. Range(seq) \cup {x} \subseteq Range(t)
    BY <1>1, <1>2 DEF Range
  <2> QED BY <2>1, <2>2
<1>4. Len(t) = Cardinality(S \cup {e})
  <2>1. Cardinality(S \cup {e}) = Cardinality(S) + 1
    BY FS_AddElement
  <2> QED BY <1>1, <2>1 DEF ShowsEach
<1>5. Range(t) = {[entity |-> g, position |-> registry'[g].position,
                   rotation |-> registry'[g].rotation] : g \in S \cup {e}}
  BY <1>3 DEF ShowsEach
<1> QED BY <1>4, <1>5 DEF ShowsEach, t

(* The views are of finitely many entities. *)
LEMMA ViewsFinite ==
  ASSUME Inv
  PROVE  \A rest : IsFiniteSet(Viewed(rest)) /\ IsFiniteSet(Shown(rest))
<1>1. \A rest : Viewed(rest) \subseteq Live /\ Shown(rest) \subseteq Live
  BY DEF Viewed, Shown, With
<1>2. IsFiniteSet(Live)
  BY Registered DEF Inv
<1> QED BY <1>1, <1>2, FS_Subset

(* The scripts are through; no camera has been rendered. *)
LEMMA EndScriptsInv ==
  ASSUME Inv, EndScripts
  PROVE  Inv'
<1>1. /\ pc = "scripts" /\ pc' = "cameras" /\ self = 0 /\ todo' = With({"Camera", "Transform"})
      /\ UNCHANGED <<loading, registry, input, self, views, draws, frames, calls>>
  BY DEF EndScripts
<1>2. UNCHANGED <<cursor, held, lastCursorPos, yawPitch, polled>>
  BY <1>1 DEF input
<1>3. TypeOK' /\ Shape' /\ Sound'
  <2>1. With({"Camera", "Transform"}) \subseteq Live
    BY DEF With
  <2> QED BY <1>1, <1>2, <2>1, FrameTyped, FrameStep
<1>4. views = <<>> /\ draws = <<>>
  BY <1>1 DEF Inv, Phases
<1>5. /\ \A C : With(C)' = With(C)
      /\ \A rest : Viewed(rest)' = Viewed(rest) /\ Shown(rest)' = Shown(rest)
  BY <1>1, ViewsKept DEF loading
<1>6. Phases'
  BY <1>1, <1>4, <1>5 DEF Phases
<1>7. Turning'
  BY <1>1, <1>2, <1>4 DEF Inv, Turning, Before, Ended
<1>8. Handed'
  <2>1. Viewed(todo)' = {}
    BY <1>1, <1>5 DEF Viewed
  <2>2. ShowsEach(views, Viewed(todo))'
    BY <1>1, <1>4, <2>1, ShowsNothing DEF ShowsEach
  <2> QED BY <1>1, <2>2 DEF Handed
<1> QED BY <1>3, <1>6, <1>7, <1>8 DEF Inv

(* A camera without a window is not to be seen. *)
LEMMA SkipCameraInv ==
  ASSUME Inv, NEW e \in todo, SkipCamera(e)
  PROVE  Inv'
<1>1. /\ pc = "cameras" /\ pc' = "cameras" /\ registry[e].window = Null /\ todo' = todo \ {e}
      /\ UNCHANGED <<loading, registry, input, self, views, draws, frames, calls>>
  BY DEF SkipCamera
<1>2. UNCHANGED <<cursor, held, lastCursorPos, yawPitch, polled>>
  BY <1>1 DEF input
<1>3. TypeOK' /\ Shape' /\ Sound'
  <2>1. todo' \subseteq Live
    BY <1>1, FrameTyped
  <2> QED BY <1>1, <1>2, <2>1, FrameTyped, FrameStep
<1>4. /\ \A C : With(C)' = With(C)
      /\ \A rest : Viewed(rest)' = Viewed(rest)
      /\ \A seq, S : ShowsEach(seq, S) => ShowsEach(seq, S)'
  BY <1>1, ViewsKept DEF loading
<1>5. Phases'
  BY <1>1, <1>4 DEF Inv, Phases
<1>6. Turning'
  BY <1>1, <1>2 DEF Inv, Turning, Before, Counted, Ended
<1>7. Handed'
  <2>1. PICK rest : rest = todo \ {e}
    OBVIOUS
  <2>2. Viewed(rest) = Viewed(todo)
    BY <1>1, <2>1 DEF Viewed
  <2>3. ShowsEach(views, Viewed(rest))
    BY <1>1, <2>2 DEF Inv, Handed
  <2>4. ShowsEach(views, Viewed(rest))'
    BY <1>1, <1>4, <2>3
  <2> QED BY <1>1, <2>1, <2>4 DEF Handed
<1> QED BY <1>3, <1>5, <1>6, <1>7 DEF Inv

(* What a camera that is run leaves of the angles: the ways the cursor made   *)
(* between the cameras add up to its way since the frame before.              *)
LEMMA RunCameraAngles ==
  ASSUME Inv, NEW e \in todo, RunCamera(e)
  PROVE  /\ lastCursorPos' = cursor' /\ cursor' \in Vec /\ yawPitch' \in Angles
         /\ polled.seen /\ held =>
              /\ yawPitch'.y = polled.yawPitch.y + Moved(polled.cursor, cursor').x
              /\ /\ yawPitch'.x \in Inside
                 /\ \A i \in 1 .. Len(views) : views[i].rotation.x \in Inside
                 => yawPitch'.x = polled.yawPitch.x + Moved(polled.cursor, cursor').y
         /\ ~held => yawPitch' = polled.yawPitch
<1>1. /\ pc = "cameras" /\ lastCursorPos' = cursor' /\ cursor' \in Vec
      /\ IF held THEN yawPitch' = Turned(yawPitch, Moved(lastCursorPos, cursor'))
                 ELSE yawPitch' = yawPitch
  BY SceneAssumption DEF RunCamera, Remembered, Vec
<1>2. /\ yawPitch \in Angles /\ cursor \in Vec /\ lastCursorPos \in Vec
      /\ polled.cursor \in Vec /\ polled.yawPitch \in Angles
  BY FrameTyped
<1>3. /\ yawPitch' \in Angles
      /\ held => /\ yawPitch'.y = yawPitch.y + (cursor'.x - lastCursorPos.x)
                 /\ yawPitch'.x \in Inside =>
                      yawPitch'.x = yawPitch.x + (cursor'.y - lastCursorPos.y)
  <2>1. CASE held
    <3>1. PICK to : to = cursor'
      OBVIOUS
    <3>2. to \in Vec /\ yawPitch' = Turned(yawPitch, Moved(lastCursorPos, to))
      BY <1>1, <2>1, <3>1
    <3>3. /\ yawPitch' \in Angles
          /\ yawPitch'.y = yawPitch.y + (to.x - lastCursorPos.x)
          /\ yawPitch'.x \in Inside => yawPitch'.x = yawPitch.x + (to.y - lastCursorPos.y)
      BY <1>2, <3>2, TurnedAngles
    <3> QED BY <3>1, <3>3
  <2>2. CASE ~held
    BY <1>1, <1>2, <2>2
  <2> QED BY <2>1, <2>2
<1>4. \A to : /\ Moved(polled.cursor, to).x = to.x - polled.cursor.x
              /\ Moved(polled.cursor, to).y = to.y - polled.cursor.y
  BY DEF Moved
<1>5. CASE views = <<>>
  BY <1>1, <1>3, <1>4, <1>5 DEF Inv, Turning, Before, Ended
<1>6. CASE views # <<>>
  <2>1. Counted
    BY <1>1, <1>6 DEF Inv, Turning, Ended
  <2>2. /\ \A v \in Vec : v.x \in Int /\ v.y \in Int
        /\ \A a \in Angles : a.x \in Int /\ a.y \in Int
    <3>1. Limit \in Nat
      BY SceneAssumption
    <3> QED BY <3>1 DEF Vec, Angles
  <2>3. ASSUME polled.seen, held
        PROVE  /\ yawPitch'.y = polled.yawPitch.y + (cursor'.x - polled.cursor.x)
               /\ /\ yawPitch'.x \in Inside
                  /\ \A i \in 1 .. Len(views) : views[i].rotation.x \in Inside
                  => yawPitch'.x = polled.yawPitch.x + (cursor'.y - polled.cursor.y)
    <3>1. /\ lastCursorPos = cursor
          /\ yawPitch.y = polled.yawPitch.y + (cursor.x - polled.cursor.x)
          /\ (\A i \in 1 .. Len(views) : views[i].rotation.x \in Inside) =>
               yawPitch.x = polled.yawPitch.x + (cursor.y - polled.cursor.y)
      BY <1>4, <2>1, <2>3 DEF Counted
    <3>2. /\ cursor.x \in Int /\ cursor.y \in Int /\ cursor'.x \in Int /\ cursor'.y \in Int
          /\ polled.cursor.x \in Int /\ polled.cursor.y \in Int
          /\ polled.yawPitch.x \in Int /\ polled.yawPitch.y \in Int
      BY <1>1, <1>2, <2>2
    <3>3. /\ yawPitch'.y = yawPitch.y + (cursor'.x - cursor.x)
          /\ yawPitch'.x \in Inside => yawPitch'.x = yawPitch.x + (cursor'.y - cursor.y)
      BY <1>3, <2>3, <3>1
    <3>4. yawPitch'.y = polled.yawPitch.y + (cursor'.x - polled.cursor.x)
      BY <3>1, <3>2, <3>3
    <3>5. ASSUME yawPitch'.x \in Inside,
                 \A i \in 1 .. Len(views) : views[i].rotation.x \in Inside
          PROVE  yawPitch'.x = polled.yawPitch.x + (cursor'.y - polled.cursor.y)
      <4>1. /\ yawPitch'.x = yawPitch.x + (cursor'.y - cursor.y)
            /\ yawPitch.x = polled.yawPitch.x + (cursor.y - polled.cursor.y)
        BY <3>1, <3>3, <3>5
      <4> QED BY <3>2, <4>1
    <3> QED BY <3>4, <3>5
  <2> QED BY <1>1, <1>3, <1>4, <2>1, <2>3 DEF Counted
<1> QED BY <1>5, <1>6

(* What it leaves of the registry: the camera's own pose may change. *)
LEMMA RunCameraRegistry ==
  ASSUME Inv, NEW e \in todo, RunCamera(e)
  PROVE  /\ Live' = Live /\ \A g \in Live : g # e => registry'[g] = registry[g]
         /\ \A g \in Live : /\ registry'[g] \in Entity
                            /\ registry'[g].has = registry[g].has
                            /\ registry'[g].window = registry[g].window
                            /\ Ready(registry[g]) => \A s : s = registry'[g] => Ready(s)
         /\ registry' = [g \in Live' |-> registry'[g]]
         /\ held => registry'[e].rotation = yawPitch'
<1>1. e \in Live /\ registry[e] \in Entity
  BY FrameTyped, Registered DEF Inv
<1>2. CASE held
  <2>1. PICK p \in Positions :
          registry' = [registry EXCEPT ![e].position = p, ![e].rotation = yawPitch']
    BY <1>2 DEF RunCamera
  <2> DEFINE r == [registry[e] EXCEPT !.position = p, !.rotation = yawPitch']
  <2>2. registry' = [registry EXCEPT ![e] = r]
    BY <2>1
  <2>3. /\ r \in Entity /\ r.has = registry[e].has /\ r.mesh = registry[e].mesh
        /\ r.materials = registry[e].materials /\ r.class = registry[e].class
        /\ r.window = registry[e].window /\ r.written = registry[e].written
        /\ r.rotation = yawPitch'
    BY <1>1, RunCameraAngles DEF Entity
  <2> HIDE DEF r
  <2>4. /\ Live' = Live
        /\ registry'[e] = r /\ \A g \in Live : g # e => registry'[g] = registry[g]
        /\ \A g \in Live' : registry'[g] \in Entity
        /\ registry' = [g \in Live' |-> registry'[g]]
    BY <1>1, <2>2, <2>3, ChangeRegistered DEF Inv
  <2>5. Ready(registry[e]) => \A s : s = r => Ready(s)
    BY <2>3 DEF Ready, RendererFits, ScriptFits
  <2>6. \A g \in Live : Ready(registry[g]) => \A s : s = registry'[g] => Ready(s)
    BY <2>4, <2>5
  <2> QED BY <2>3, <2>4, <2>6
<1>3. CASE ~held
  <2>1. registry' = registry /\ Live' = Live
    BY <1>3 DEF RunCamera, Live
  <2> QED BY <1>3, <2>1, Registered DEF Inv, Shape
<1> QED BY <1>2, <1>3

(* A camera is rendered where this frame's keys and cursor have put it. *)
LEMMA RunCameraInv ==
  ASSUME Inv, NEW e \in todo, RunCamera(e)
  PROVE  Inv'
<1> DEFINE x == [entity |-> e, position |-> registry'[e].position,
                 rotation |-> registry'[e].rotation]
<1>1. /\ pc = "cameras" /\ pc' = "cameras" /\ registry[e].window # Null
      /\ views' = Append(views, x) /\ todo' = todo \ {e}
      /\ UNCHANGED <<file, next, created, loadedScenes, loaded, unloaded, held, polled, self, draws,
                     frames, calls>>
  BY DEF RunCamera, View, loading
<1>2. /\ lastCursorPos' = cursor' /\ cursor' \in Vec /\ yawPitch' \in Angles
      /\ polled.seen /\ held =>
           /\ yawPitch'.y = polled.yawPitch.y + Moved(polled.cursor, cursor').x
           /\ /\ yawPitch'.x \in Inside
              /\ \A i \in 1 .. Len(views) : views[i].rotation.x \in Inside
              => yawPitch'.x = polled.yawPitch.x + Moved(polled.cursor, cursor').y
      /\ ~held => yawPitch' = polled.yawPitch
  BY RunCameraAngles
<1>3. /\ Live' = Live /\ \A g \in Live : g # e => registry'[g] = registry[g]
      /\ \A g \in Live : /\ registry'[g] \in Entity
                         /\ registry'[g].has = registry[g].has
                         /\ registry'[g].window = registry[g].window
                         /\ Ready(registry[g]) => \A s : s = registry'[g] => Ready(s)
      /\ registry' = [g \in Live' |-> registry'[g]]
      /\ held => registry'[e].rotation = yawPitch'
  BY RunCameraRegistry
<1>4. e \in Live /\ e \in Nat /\ views \in Seq(Item)
  BY FrameTyped, Registered DEF Inv
<1>5. x \in Item /\ x.rotation = registry'[e].rotation
  BY <1>3, <1>4 DEF Item, Entity
<1> HIDE DEF x
<1>6. /\ views' \in Seq(Item) /\ Len(views') = Len(views) + 1 /\ Len(views) \in Nat
      /\ \A i \in 1 .. Len(views) : views'[i] = views[i]
      /\ views'[Len(views) + 1] = x
  BY <1>1, <1>4, <1>5, AppendProperties
<1>7. \A C : With(C)' = With(C)
  BY <1>3 DEF With
<1>8. TypeOK'
  <2>1. /\ file' \in DOMAIN Files /\ next' \in Nat
        /\ created' \in 0 .. MaxEntities /\ Live' \subseteq 1 .. created'
        /\ \A f \in DOMAIN loadedScenes' : loadedScenes'[f] \in Seq(Handles)
        /\ loaded' \subseteq Ids /\ unloaded' \subseteq Ids /\ held' \in BOOLEAN
        /\ todo' \subseteq Live' /\ self' \in Live' \cup {0}
        /\ frames' \in 0 .. MaxFrames /\ calls' \in 0 .. MaxCalls
    BY <1>1, <1>3 DEF Inv, TypeOK
  <2> QED BY <1>1, <1>2, <1>3, <2>1, TypeFromRegistry DEF Inv
<1>9. Shape'
  BY <1>1, <1>2, <1>3, <1>6 DEF Inv, Shape
<1>10. Sound'
  <2>1. WellFormedScenes' => WellFormedScenes
    BY <1>1, WellFormedBefore
  <2>2. \A s : Ready(s) => Ready(s)'
    BY <1>1, ReadyKept
  <2> QED BY <1>1, <1>3, <2>1, <2>2 DEF Inv, Sound
<1>11. Phases'
  BY <1>1, <1>7 DEF Inv, Phases
<1>12. Turning'
  <2>1. views' # <<>> /\ Len(views') \in Nat
    BY <1>6
  <2>2. held => views'[Len(views')].rotation = yawPitch'
    BY <1>3, <1>5, <1>6
  <2>3. ASSUME polled.seen, held, \A i \in 1 .. Len(views') : views'[i].rotation.x \in Inside
        PROVE  yawPitch'.x = polled.yawPitch.x + Moved(polled.cursor, cursor').y
    <3>1. yawPitch'.x \in Inside
      <4>1. Len(views') \in 1 .. Len(views')
        BY <1>6
      <4> QED BY <2>2, <2>3, <4>1
    <3>2. \A i \in 1 .. Len(views) : views[i].rotation.x \in Inside
      <4>1. \A i \in 1 .. Len(views) : i \in 1 .. Len(views') /\ views'[i] = views[i]
        BY <1>6
      <4> QED BY <2>3, <4>1
    <3> QED BY <1>2, <2>3, <3>1, <3>2
  <2>4. Counted'
    BY <1>1, <1>2, <2>2, <2>3 DEF Counted
  <2> QED BY <2>1, <2>4 DEF Turning
<1>13. Handed'
  <2>1. PICK rest : rest = todo \ {e}
    OBVIOUS
  <2>2. PICK seen, seq, y : seen = Viewed(todo) /\ seq = views /\ y = x
    OBVIOUS
  <2>3. e \in With({"Camera", "Transform"})
    BY <1>1 DEF Inv, Phases
  <2>4. Viewed(rest)' = seen \cup {e}
    BY <1>1, <1>3, <1>7, <2>1, <2>2, <2>3 DEF Viewed, With
  <2>5. e \notin seen /\ IsFiniteSet(seen) /\ \A g \in seen : registry'[g] = registry[g]
    BY <1>3, <2>2, ViewsFinite DEF Viewed, With
  <2>6. ShowsEach(seq, seen)
    BY <1>1, <2>2 DEF Inv, Handed
  <2>7. /\ seq \in Seq(Item) /\ y \in Item
        /\ y = [entity |-> e, position |-> registry'[e].position,
                rotation |-> registry'[e].rotation]
    BY <1>4, <1>5, <2>2 DEF x
  <2>8. ShowsEach(Append(seq, y), seen \cup {e})'
    BY <2>5, <2>6, <2>7, ShowsOneMore
  <2>9. views' = Append(seq, y)
    BY <1>1, <2>2
  <2> QED BY <1>1, <2>1, <2>4, <2>8, <2>9 DEF Handed
<1> QED BY <1>8, <1>9, <1>10, <1>11, <1>12, <1>13 DEF Inv

(* The cameras are through: every one with a window has been rendered. *)
LEMMA EndCamerasInv ==
  ASSUME Inv, EndCameras
  PROVE  Inv'
<1>1. /\ pc = "cameras" /\ pc' = "meshes" /\ todo = {}
      /\ todo' = With({"Transform", "StaticRenderer"})
      /\ UNCHANGED <<loading, registry, input, self, views, draws, frames, calls>>
  BY DEF EndCameras
<1>2. UNCHANGED <<cursor, held, lastCursorPos, yawPitch, polled>>
  BY <1>1 DEF input
<1>3. TypeOK' /\ Shape' /\ Sound'
  <2>1. With({"Transform", "StaticRenderer"}) \subseteq Live
    BY DEF With
  <2> QED BY <1>1, <1>2, <2>1, FrameTyped, FrameStep
<1>4. draws = <<>>
  BY <1>1 DEF Inv, Phases
<1>5. /\ \A C : With(C)' = With(C)
      /\ \A rest : Viewed(rest)' = Viewed(rest) /\ Shown(rest)' = Shown(rest)
      /\ \A seq, S : ShowsEach(seq, S) => ShowsEach(seq, S)'
  BY <1>1, ViewsKept DEF loading
<1>6. Phases'
  BY <1>1, <1>5 DEF Inv, Phases
<1>7. Turning'
  BY <1>1, <1>2 DEF Inv, Turning, Before, Counted, Ended
<1>8. Handed'
  <2>1. ShowsEach(views, Viewed({}))'
    BY <1>1, <1>5 DEF Inv, Handed
  <2>2. Shown(todo)' = {}
    BY <1>1, <1>5 DEF Shown
  <2>3. ShowsEach(draws, Shown(todo))'
    BY <1>1, <1>4, <2>2, ShowsNothing DEF ShowsEach
  <2> QED BY <1>1, <2>1, <2>3 DEF Handed
<1> QED BY <1>3, <1>6, <1>7, <1>8 DEF Inv

-----------------------------------------------------------------------------
(* update(): the meshes. *)

(* A mesh that is not loaded is not drawn. *)
LEMMA SkipMeshInv ==
  ASSUME Inv, NEW e \in todo, SkipMesh(e)
  PROVE  Inv'
<1>1. /\ pc = "meshes" /\ pc' = "meshes" /\ registry[e].mesh \notin loaded /\ todo' = todo \ {e}
      /\ UNCHANGED <<loading, registry, input, self, views, draws, frames, calls>>
  BY DEF SkipMesh, MeshLoaded
<1>2. UNCHANGED <<cursor, held, lastCursorPos, yawPitch, polled>>
  BY <1>1 DEF input
<1>3. TypeOK' /\ Shape' /\ Sound'
  <2>1. todo' \subseteq Live
    BY <1>1, FrameTyped
  <2> QED BY <1>1, <1>2, <2>1, FrameTyped, FrameStep
<1>4. /\ \A C : With(C)' = With(C)
      /\ \A rest : Viewed(rest)' = Viewed(rest) /\ Shown(rest)' = Shown(rest)
      /\ \A seq, S : ShowsEach(seq, S) => ShowsEach(seq, S)'
  BY <1>1, ViewsKept DEF loading
<1>5. Phases'
  BY <1>1, <1>4 DEF Inv, Phases
<1>6. Turning'
  BY <1>1, <1>2 DEF Inv, Turning, Before, Counted, Ended
<1>7. Handed'
  <2>1. PICK rest : rest = todo \ {e}
    OBVIOUS
  <2>2. Shown(rest) = Shown(todo)
    BY <1>1, <2>1 DEF Shown
  <2>3. ShowsEach(draws, Shown(rest)) /\ ShowsEach(views, Viewed({}))
    BY <1>1, <2>2 DEF Inv, Handed
  <2>4. ShowsEach(draws, Shown(rest))' /\ ShowsEach(views, Viewed({}))'
    BY <1>1, <1>4, <2>3
  <2> QED BY <1>1, <2>1, <2>4 DEF Handed
<1> QED BY <1>3, <1>5, <1>6, <1>7 DEF Inv

(* A loaded mesh is drawn; where the scenes are well formed, only what the    *)
(* application has written cannot be.                                         *)
LEMMA DrawMeshInv ==
  ASSUME Inv, NEW e \in todo, DrawMesh(e)
  PROVE  Inv'
<1> DEFINE x == [entity |-> e, position |-> registry[e].position,
                 rotation |-> registry[e].rotation]
<1>1. /\ pc = "meshes" /\ registry[e].mesh \in loaded /\ draws' = Append(draws, x)
      /\ todo' = todo \ {e} /\ pc' = (IF Drawable(e) THEN pc ELSE "undefined")
      /\ UNCHANGED <<loading, registry, input, self, views, frames, calls>>
  BY DEF DrawMesh, MeshLoaded
<1>2. UNCHANGED <<cursor, held, lastCursorPos, yawPitch, polled>>
  BY <1>1 DEF input
<1>3. e \in Live /\ e \in Nat /\ draws \in Seq(Item) /\ registry[e] \in Entity
  BY FrameTyped, Registered DEF Inv
<1>4. x \in Item
  BY <1>3 DEF Item, Entity
<1> HIDE DEF x
<1>5. draws' \in Seq(Item)
  BY <1>1, <1>3, <1>4, AppendProperties
<1>6. WellFormedScenes /\ ~Drawable(e) => Faulty
  <2> SUFFICES ASSUME WellFormedScenes, ~Drawable(e) PROVE Faulty
    OBVIOUS
  <2>1. registry[e].mesh # NoMesh /\ Ready(registry[e])
    BY <1>1, <1>3, SceneAssumption DEF Inv, TypeOK, Sound
  <2>2. loaded \subseteq Buildable
    BY DEF Inv, Shape
  <2>3. ~RendererFits(registry[e])
    BY <2>2 DEF Drawable, RendererFits
  <2>4. "StaticRenderer" \in registry[e].written
    BY <2>1, <2>3 DEF Ready
  <2> QED BY <1>1, <1>3, <2>3, <2>4 DEF Faulty, AtFault
<1>7. TypeOK' /\ Shape' /\ Sound'
  <2>1. todo' \subseteq Live
    BY <1>1, FrameTyped
  <2>2. (WellFormedScenes /\ pc' = "undefined" => Faulty) /\ pc' \in {"meshes", "undefined"}
    BY <1>1, <1>6
  <2> QED BY <1>1, <1>2, <1>5, <2>1, <2>2, FrameTyped, FrameStep DEF Ended
<1>8. /\ \A C : With(C)' = With(C)
      /\ \A rest : Viewed(rest)' = Viewed(rest) /\ Shown(rest)' = Shown(rest)
      /\ \A seq, S : ShowsEach(seq, S) => ShowsEach(seq, S)'
  BY <1>1, ViewsKept DEF loading
<1>9. Phases'
  BY <1>1, <1>8 DEF Inv, Phases
<1>10. Turning'
  BY <1>1, <1>2 DEF Inv, Turning, Before, Counted, Ended
<1>11. Handed'
  <2>1. PICK rest, shown, seq, y : /\ rest = todo \ {e} /\ shown = Shown(todo)
                                   /\ seq = draws /\ y = x
    OBVIOUS
  <2>2. e \in With({"Transform", "StaticRenderer"})
    BY <1>1 DEF Inv, Phases
  <2>3. Shown(rest)' = shown \cup {e}
    BY <1>1, <1>8, <2>1, <2>2 DEF Shown
  <2>4. e \notin shown /\ IsFiniteSet(shown) /\ \A g \in shown : registry'[g] = registry[g]
    BY <1>1, <2>1, ViewsFinite DEF Shown
  <2>5. /\ ShowsEach(seq, shown) /\ seq \in Seq(Item) /\ y \in Item
        /\ y = [entity |-> e, position |-> registry'[e].position,
                rotation |-> registry'[e].rotation]
    BY <1>1, <1>3, <1>4, <2>1 DEF Inv, Handed, x
  <2>6. ShowsEach(Append(seq, y), shown \cup {e})'
    BY <2>4, <2>5, ShowsOneMore
  <2>7. draws' = Append(seq, y)
    BY <1>1, <2>1
  <2>8. pc' = "meshes" => ShowsEach(views, Viewed({}))'
    BY <1>1, <1>8 DEF Inv, Handed
  <2>9. pc' # "cameras"
    BY <1>1
  <2> QED BY <1>1, <2>1, <2>3, <2>6, <2>7, <2>8, <2>9 DEF Handed
<1> QED BY <1>7, <1>9, <1>10, <1>11 DEF Inv

(* The frame ends; whether a camera saw its cursor is remembered. *)
LEMMA EndUpdateInv ==
  ASSUME Inv, EndUpdate
  PROVE  Inv'
<1>1. /\ pc = "meshes" /\ pc' = (IF MaterialsBound THEN "idle" ELSE "undefined")
      /\ todo = {} /\ views' = <<>> /\ draws' = <<>>
      /\ polled' = [cursor |-> cursor, seen |-> polled.seen \/ views # <<>>, yawPitch |-> yawPitch]
      /\ UNCHANGED <<loading, registry, cursor, held, lastCursorPos, yawPitch, todo, self, frames,
                     calls>>
  BY DEF EndUpdate
<1>2. polled' \in [cursor : Vec, seen : BOOLEAN, yawPitch : Angles]
  BY <1>1, FrameTyped
<1>3. WellFormedScenes /\ ~MaterialsBound => Faulty
  <2> SUFFICES ASSUME WellFormedScenes, ~MaterialsBound PROVE Faulty
    OBVIOUS
  <2>1. PICK i \in DOMAIN draws : registry[draws[i].entity].materials[1] \notin loaded
    BY DEF MaterialsBound
  <2>2. PICK e \in Shown({}) : draws[i] = Pose(e)
    <3>1. ShowsEach(draws, Shown({}))
      BY <1>1 DEF Inv, Handed
    <3>2. draws[i] \in Range(draws)
      BY DEF Range
    <3> QED BY <3>1, <3>2 DEF ShowsEach, Pose
  <2>3. /\ e \in Live /\ registry[e].mesh \in loaded /\ registry[e].materials[1] \notin loaded
        /\ registry[e].mesh # NoMesh
    BY <2>1, <2>2, SceneAssumption DEF Shown, With, Pose, Inv, TypeOK
  <2>4. CASE "StaticRenderer" \in registry[e].written
    BY <2>3, <2>4 DEF Faulty, AtFault
  <2>5. CASE "StaticRenderer" \notin registry[e].written
    <3>1. RendererFits(registry[e]) /\ registry[e].materials[1] \in loaded \cup unloaded
      BY <2>3, <2>5 DEF Inv, Sound, Ready
    <3> QED BY <2>3, <3>1 DEF Faulty, AtFault, RendererFits
  <2> QED BY <2>4, <2>5
<1>4. TypeOK' /\ Shape' /\ Sound'
  <2>1. views' \in Seq(Item) /\ draws' \in Seq(Item)
    BY <1>1, EmptySeq
  <2>2. pc' \in {"idle", "undefined"} /\ (WellFormedScenes /\ pc' = "undefined" => Faulty)
    BY <1>1, <1>3
  <2> QED BY <1>1, <1>2, <2>1, <2>2, FrameTyped, FrameStep DEF Ended
<1>5. Phases'
  BY <1>1 DEF Inv, Phases
<1>6. Turning'
  <2>1. Before'
    BY <1>1 DEF Inv, Turning, Before, Counted, Ended
  <2> QED BY <1>1, <2>1 DEF Turning
<1> QED BY <1>1, <1>4, <1>5, <1>6 DEF Inv, Handed

-----------------------------------------------------------------------------
(* A step that changes nothing. *)
LEMMA StutterInv ==
  ASSUME Inv, UNCHANGED vars
  PROVE  Inv'
<1>1. /\ UNCHANGED <<file, next, created, loadedScenes, loaded, unloaded, registry, pc>>
      /\ UNCHANGED <<cursor, held, lastCursorPos, yawPitch, polled>>
      /\ UNCHANGED <<todo, self, views, draws, frames, calls>>
  BY DEF vars, loading, input, pass
<1>2. /\ Live' = Live /\ \A C : With(C)' = With(C)
      /\ \A rest : Viewed(rest)' = Viewed(rest) /\ Shown(rest)' = Shown(rest)
      /\ \A seq, S : ShowsEach(seq, S) => ShowsEach(seq, S)'
  BY <1>1, ViewsKept
<1>3. TypeOK'
  BY <1>1, <1>2 DEF Inv, TypeOK
<1>4. Shape' /\ Phases'
  BY <1>1, <1>2 DEF Inv, Shape, Phases
<1>5. Sound'
  BY <1>1, SoundKept DEF Inv
<1>6. Turning'
  BY <1>1 DEF Inv, Turning, Before, Counted
<1>7. Handed'
  BY <1>1, <1>2 DEF Inv, Handed
<1> QED BY <1>3, <1>4, <1>5, <1>6, <1>7 DEF Inv

(* The invariant is kept by every step of a load, of the application, of the  *)
(* scripts and of a frame's three passes.                                     *)
THEOREM InvStep == Inv /\ [Next]_vars => Inv'
<1> SUFFICES ASSUME Inv, [Next]_vars PROVE Inv'
  OBVIOUS
<1>1. CASE Load
  BY <1>1, LoadSceneInv, LoadEntityInv, LoadEndsInv DEF Load
<1>2. CASE App
  BY <1>2, CreateEntityInv, ClearSceneInv, DestroyEntityInv, AddComponentInv, AddScriptInv,
     AddRendererInv, SetWindowInv, UnloadInv DEF App
<1>3. CASE BeginUpdate
  BY <1>3, BeginUpdateInv
<1>4. CASE Script
  BY <1>4, InvokeScriptInv, ScriptEndsInv, ScriptMovesInv, ScriptCreatesInv, ScriptReturnsInv
     DEF Script
<1>5. CASE Pass
  BY <1>5, SkipCameraInv, RunCameraInv, SkipMeshInv, DrawMeshInv, EndScriptsInv, EndCamerasInv,
     EndUpdateInv DEF Pass
<1>6. CASE UNCHANGED vars
  BY <1>6, StutterInv
<1> QED BY <1>1, <1>2, <1>3, <1>4, <1>5, <1>6 DEF Next

(* Inv holds in every reachable state. *)
THEOREM Invariance == Spec => []Inv
<1>1. Init => Inv
  BY InitInv
<1>2. Inv /\ [Next]_vars => Inv'
  BY InvStep
<1> QED BY <1>1, <1>2, PTL DEF Spec

(* The registry, the loaded scenes, the camera's input and the frame's        *)
(* position keep their types.                                                 *)
THEOREM TypeCorrect == Spec => []TypeOK
<1>1. Inv => TypeOK
  BY DEF Inv
<1> QED BY <1>1, Invariance, PTL

(* Over scenes that fit, update() casts a resource to a type it is not of,    *)
(* misses a material, or runs a class or reads a component that is not there  *)
(* only for an entity the application itself has put wrong: by a script or a  *)
(* renderer it wrote, or by unloading the material under a loaded mesh.       *)
THEOREM UpdateIsDefined == Spec => []NothingUndefined
<1>1. Inv => NothingUndefined
  BY DEF Inv, Sound, WellFormedScenes, Faulty, NothingUndefined
<1> QED BY <1>1, Invariance, PTL

(* A frame hands over each camera with a window, and each entity with a       *)
(* loaded mesh, exactly once and as this frame has left it.                   *)
THEOREM FrameIsComplete == Spec => []FrameComplete
<1>1. Inv => FrameComplete
  <2> SUFFICES ASSUME Inv, pc = "meshes", todo = {}
               PROVE  /\ ShowsEach(views, {e \in With({"Camera", "Transform"}) :
                                             registry[e].window # Null})
                      /\ ShowsEach(draws, {e \in With({"Transform", "StaticRenderer"}) :
                                             registry[e].mesh \in loaded})
    BY DEF FrameComplete
  <2>1. ShowsEach(views, Viewed({})) /\ ShowsEach(draws, Shown({}))
    BY DEF Inv, Handed
  <2>2. /\ Viewed({}) = {e \in With({"Camera", "Transform"}) : registry[e].window # Null}
        /\ Shown({}) = {e \in With({"Transform", "StaticRenderer"}) : registry[e].mesh \in loaded}
    BY DEF Viewed, Shown
  <2> QED BY <2>1, <2>2
<1> QED BY <1>1, Invariance, PTL

(* However many cameras there are, and however the cursor moves between them, *)
(* its way since the frame before turns the shared angles once.               *)
THEOREM CursorCounts == Spec => []CursorCountedOnce
<1>1. Inv => CursorCountedOnce
  <2> SUFFICES ASSUME Inv, pc = "meshes", views # <<>>, polled.seen
               PROVE  IF held
                      THEN /\ yawPitch.y = polled.yawPitch.y + Moved(polled.cursor, cursor).x
                           /\ (\A i \in DOMAIN views : views[i].rotation.x \in Inside) =>
                                yawPitch.x = polled.yawPitch.x + Moved(polled.cursor, cursor).y
                           /\ views[Len(views)].rotation = yawPitch
                      ELSE yawPitch = polled.yawPitch
    BY DEF CursorCountedOnce, Inside
  <2>1. Counted
    BY DEF Inv, Turning, Ended
  <2>2. DOMAIN views = 1 .. Len(views)
    BY DEF Inv, Shape
  <2> QED BY <2>1, <2>2 DEF Counted
<1> QED BY <1>1, Invariance, PTL
=============================================================================
