-------------------------------- MODULE Scene --------------------------------
(* SystemScene: a scene file becomes entities with components and loads the  *)
(* resources they name; every frame update() calls the scripts, steers and   *)
(* submits the cameras, and submits the meshes. Between frames the public    *)
(* members change the registry and resources come and go.                    *)
EXTENDS Integers, Sequences, FiniteSets, SequencesExt

CONSTANTS Files,        \* file name -> the entities the file lists
          TypeOf,       \* resource id -> its type, for the ids of the registry
          AppClasses,   \* script classes of the application's assembly
          Asks,         \* AppClasses -> a component its Update asks for, "destroy", "none"
          Cursors,      \* where the cursor of a window may be, [x : Int, y : Int]
          Positions,    \* where a script or a key may move an entity
          Limit,        \* the angle the pitch is clamped to
          MaxEntities,  \* bound: entities created in a run
          MaxFrames,    \* bound: frames in a run
          MaxCalls      \* bound: calls the application makes between frames in a run

Components   == {"Transform", "StaticRenderer", "Camera", "ScriptBehaviour"}
Factories    == {"StaticMesh", "Texture", "Material"}
NoMesh       == "no_mesh"
NoClass      == "no_class"
Null         == "null"
Primary      == "primary"
Ids          == DOMAIN TypeOf
Unregistered == "unregistered"
Handles      == 1 .. MaxEntities

(* What a scene file says of an entity: the components listed, the resources *)
(* and the class they name. A field of the wrong kind makes it malformed.    *)
EntityNode == [has : SUBSET Components, mesh : Ids \cup {Unregistered},
               materials : Seq(Ids \cup {Unregistered}), class : STRING, malformed : BOOLEAN]

(* The components of an entity; a field counts when its component is there.  *)
(* "written" is history: the components whose fields the application wrote.  *)
Blank == [has |-> {}, position |-> 0, rotation |-> [x |-> 0, y |-> 0],
          mesh |-> NoMesh, materials |-> <<>>, window |-> Null, class |-> NoClass,
          written |-> {}]

ASSUME SceneAssumption ==
         /\ \A f \in DOMAIN Files : Files[f] \in Seq(EntityNode)
         /\ \A id \in Ids : TypeOf[id] \in Factories \cup {"Other"}
         /\ NoMesh \notin Ids /\ NoClass \notin AppClasses
         /\ AppClasses \subseteq STRING
         /\ Asks \in [AppClasses -> Components \cup {"destroy", "none"}]
         /\ Cursors \subseteq [x : Int, y : Int]
         /\ 0 \in Positions
         /\ Limit \in Nat /\ MaxEntities \in Nat /\ MaxFrames \in Nat /\ MaxCalls \in Nat

VARIABLES
  pc,            \* what the main thread is in: "idle", a part of load_scene or update()
  file, next,    \* load_yaml_scene: the file and the entity node it is at
  created,       \* entities created so far: the registry's next handle
  registry,      \* m_registry: live handle -> components
  loadedScenes,  \* m_loadedSceneMap: file -> the entities it created
  loaded,        \* resources whose handle answers is_loaded()
  unloaded,      \* history: those the application unloaded and no load made again
  cursor, held,  \* the primary window's cursor and right button, as last asked for
  lastCursorPos, yawPitch,  \* m_lastCursorPos and m_yawPitch
  todo,          \* entities the view has not come to
  self,          \* the entity whose script is running, or 0
  views, draws,  \* what the frame has handed to the renderer
  frames, calls, \* frames begun, and calls the application has made
  polled         \* history: the frame before, the cursor last asked for, whether
                 \* a camera ever asked, and the angles it left

loading  == <<file, next, created, loadedScenes, loaded, unloaded>>
input    == <<cursor, held, lastCursorPos, yawPitch, polled>>
pass     == <<todo, self, views, draws, frames, calls>>
vars     == <<pc, loading, registry, input, pass>>

Live    == DOMAIN registry
With(C) == {e \in Live : C \subseteq registry[e].has}

Ended == {"threw", "undefined"}

TypeOK ==
  /\ pc \in {"idle", "load", "scripts", "cameras", "meshes"} \cup Ended
  /\ file \in DOMAIN Files /\ next \in Nat
  /\ created \in 0 .. MaxEntities
  /\ Live \subseteq 1 .. created
  /\ \A e \in Live :
       registry[e] \in [has : SUBSET Components, position : Positions,
                        rotation : [x : -Limit .. Limit, y : Int],
                        mesh : Ids \cup {NoMesh}, materials : Seq(Ids),
                        window : {Null, Primary}, class : STRING \cup {NoClass},
                        written : SUBSET Components]
  /\ \A f \in DOMAIN loadedScenes : loadedScenes[f] \in Seq(Handles)
  /\ loaded \subseteq Ids /\ unloaded \subseteq Ids
  /\ cursor \in [x : Int, y : Int] /\ held \in BOOLEAN
  /\ yawPitch \in [x : -Limit .. Limit, y : Int]
  /\ todo \subseteq Live /\ self \in Live \cup {0}
  /\ frames \in 0 .. MaxFrames /\ calls \in 0 .. MaxCalls

Init == /\ pc = "idle"
        /\ file \in DOMAIN Files /\ next = 1
        /\ created = 0 /\ registry = <<>> /\ loadedScenes = <<>>
        /\ loaded = {} /\ unloaded = {}
        /\ cursor = [x |-> 0, y |-> 0] /\ held = FALSE
        /\ lastCursorPos = [x |-> 0, y |-> 0] /\ yawPitch = [x |-> 0, y |-> 0]
        /\ todo = {} /\ self = 0 /\ views = <<>> /\ draws = <<>>
        /\ frames = 0 /\ calls = 0
        /\ polled = [cursor |-> cursor, seen |-> FALSE, yawPitch |-> yawPitch]

(* EnTT: a fresh handle. Recycled handles differ in their version, so one    *)
(* registry never hands out a handle twice.                                  *)
NewEntity(components) ==
  /\ created < MaxEntities
  /\ created' = created + 1
  /\ registry' = [e \in Live \cup {created'} |->
                    IF e = created' THEN components ELSE registry[e]]

-----------------------------------------------------------------------------
(* load_scene() *)

LoadScene(f) ==
  /\ pc = "idle"
  /\ created + Len(Files[f]) <= MaxEntities
  /\ file' = f /\ next' = 1
  /\ pc' = "load"
  /\ loadedScenes' = [g \in DOMAIN loadedScenes \cup {f} |->
                        IF g \in DOMAIN loadedScenes THEN loadedScenes[g] ELSE <<>>]
  /\ UNCHANGED <<created, loaded, unloaded, registry, input, pass>>

(* The resources a node's StaticRenderer names, in the order they are loaded. *)
Named(node) == IF "StaticRenderer" \in node.has THEN <<node.mesh>> \o node.materials ELSE <<>>

Buildable == {id \in Ids : TypeOf[id] \in Factories}

\* Mutant: a material is not loaded when it is first named.
MutLoads_MeshOnly(node) == {Named(node)[i] : i \in DOMAIN Named(node) \cap {1}} \cap Buildable

(* What loading them leaves ready: a type without a factory stays unloaded.  *)
Loads(node) == Range(Named(node)) \cap Buildable

(* One turn of the loop over the file's entities. A camera renders to the    *)
(* primary window.                                                           *)
LoadEntity ==
  LET node == Files[file][next] IN
  /\ pc = "load"
  /\ next <= Len(Files[file])
  /\ ~node.malformed
  /\ Unregistered \notin Range(Named(node))
  /\ NewEntity([Blank EXCEPT
                  !.has = node.has,
                  !.mesh = IF "StaticRenderer" \in node.has THEN node.mesh ELSE NoMesh,
                  !.materials = IF "StaticRenderer" \in node.has THEN node.materials ELSE <<>>,
                  !.window = IF "Camera" \in node.has THEN Primary ELSE Null,
                  !.class = IF "ScriptBehaviour" \in node.has THEN node.class ELSE NoClass])
  /\ loadedScenes' = [loadedScenes EXCEPT ![file] = Append(@, created')]
  /\ loaded' = loaded \cup Loads(node)
  /\ unloaded' = unloaded \ Loads(node)
  /\ next' = next + 1
  /\ UNCHANGED <<pc, file, input, pass>>

(* A conversion, get_ptr() of an unknown id, or a load() that fails.         *)
LoadThrows ==
  /\ pc = "load"
  /\ next <= Len(Files[file])
  /\ \/ Files[file][next].malformed
     \/ Named(Files[file][next]) # <<>>
  /\ pc' = "threw"
  /\ UNCHANGED <<loading, registry, input, pass>>

LoadReturns == /\ pc = "load"
               /\ next > Len(Files[file])
               /\ pc' = "idle"
               /\ UNCHANGED <<loading, registry, input, pass>>

-----------------------------------------------------------------------------
(* The other members, which the application calls between frames. *)

Called == /\ pc = "idle"
          /\ calls < MaxCalls
          /\ calls' = calls + 1
          /\ UNCHANGED <<pc, todo, self, views, draws, frames>>

CreateEntity == /\ Called
                /\ NewEntity(Blank)
                /\ UNCHANGED <<file, next, loadedScenes, loaded, unloaded, input>>

DestroyEntity(e) == /\ Called
                    /\ registry' = [g \in Live \ {e} |-> registry[g]]
                    /\ UNCHANGED <<loading, input>>

(* A new registry counts its handles from the start; m_loadedSceneMap keeps  *)
(* the old ones.                                                             *)
ClearScene == /\ Called
              /\ registry' = <<>> /\ created' = 0
              /\ UNCHANGED <<file, next, loadedScenes, loaded, unloaded, input>>

(* add_component: a component that is there is left as it is.                *)
AddComponent(e, c) ==
  /\ Called
  /\ registry' = [registry EXCEPT ![e].has = @ \cup {c}]
  /\ UNCHANGED <<loading, input>>

(* The component add_component returns is the application's to write: a      *)
(* class of the assembly or not, whatever its Update asks for.               *)
AddScript(e, class) ==
  /\ Called
  /\ registry' = [registry EXCEPT ![e].has = @ \cup {"ScriptBehaviour"}, ![e].class = class,
                                 ![e].written = @ \cup {"ScriptBehaviour"}]
  /\ UNCHANGED <<loading, input>>

(* Handles of any resources, loaded or not, of any type; bound: at most one  *)
(* material, the only one that is drawn with.                                *)
Lists == {<<>>} \cup {<<id>> : id \in Ids}

AddRenderer(e, mesh, materials) ==
  /\ Called
  /\ registry' = [registry EXCEPT ![e].has = @ \cup {"StaticRenderer"}, ![e].mesh = mesh,
                                 ![e].materials = materials,
                                 ![e].written = @ \cup {"StaticRenderer"}]
  /\ UNCHANGED <<loading, input>>

(* get_component<Camera>()->targetWindow is a member anyone may write.       *)
SetWindow(e, w) ==
  /\ Called
  /\ "Camera" \in registry[e].has
  /\ registry' = [registry EXCEPT ![e].window = w]
  /\ UNCHANGED <<loading, input>>

(* unload() asks neither for the type nor for who uses the resource.         *)
Unload(id) == /\ Called
              /\ loaded' = loaded \ {id}
              /\ unloaded' = unloaded \cup {id}
              /\ UNCHANGED <<file, next, created, loadedScenes, registry, input>>

-----------------------------------------------------------------------------
(* update(): the scripts *)

(* The platform has been polled: the button is as it is for the rest of the  *)
(* frame; the cursor moves on.                                               *)
BeginUpdate ==
  /\ pc = "idle"
  /\ frames < MaxFrames
  /\ frames' = frames + 1
  /\ held' \in BOOLEAN
  /\ pc' = "scripts"
  /\ todo' = With({"ScriptBehaviour"})
  /\ UNCHANGED <<loading, registry, cursor, lastCursorPos, yawPitch, polled, self, views, draws,
                 calls>>

(* invoke_method: a class the assembly does not have is a null class.        *)
InvokeScript(e) ==
  /\ pc = "scripts" /\ self = 0
  /\ e \in todo
  /\ todo' = todo \ {e}
  /\ IF registry[e].class \in AppClasses THEN self' = e /\ UNCHANGED pc
                                         ELSE pc' = "undefined" /\ UNCHANGED self
  /\ UNCHANGED <<loading, registry, input, views, draws, frames, calls>>

(* Entity.HasComponent<T> of Update's entity: registry.get on an entity that *)
(* may not have T, whose address is then compared with nullptr.              *)
ScriptAsks ==
  /\ pc = "scripts" /\ self # 0
  /\ Asks[registry[self].class] \in Components \ registry[self].has
  /\ pc' = "undefined"
  /\ UNCHANGED <<loading, registry, input, pass>>

ScriptHas(c) == self # 0 /\ Asks[registry[self].class] = c /\ c \in registry[self].has

ScriptMoves(p) ==
  /\ pc = "scripts"
  /\ ScriptHas("Transform")
  /\ registry' = [registry EXCEPT ![self].position = p]
  /\ UNCHANGED <<pc, loading, input, pass>>

(* Entity.Create: the new entity has no component, no view comes to it.      *)
ScriptCreates ==
  /\ pc = "scripts" /\ self # 0
  /\ NewEntity(Blank)
  /\ UNCHANGED <<pc, file, next, loadedScenes, loaded, unloaded, input, pass>>

(* Entity.Destroy hands the glue the address of the managed reference, whose *)
(* bits are taken for the handle.                                            *)
ScriptDestroys == /\ pc = "scripts" /\ self # 0
                  /\ Asks[registry[self].class] = "destroy"
                  /\ pc' = "undefined"
                  /\ UNCHANGED <<loading, registry, input, pass>>

ScriptReturns == /\ pc = "scripts" /\ self # 0
                 /\ Asks[registry[self].class] \notin Components \ registry[self].has
                 /\ self' = 0
                 /\ UNCHANGED <<pc, loading, registry, input, todo, views, draws, frames, calls>>

EndScripts == /\ pc = "scripts" /\ self = 0 /\ todo = {}
              /\ pc' = "cameras"
              /\ todo' = With({"Camera", "Transform"})
              /\ UNCHANGED <<loading, registry, input, self, views, draws, frames, calls>>

-----------------------------------------------------------------------------
(* update(): the cameras *)

\* Mutant: a camera without a window ends the loop.
MutSkipCamera_Break(e) ==
  /\ pc = "cameras"
  /\ e \in todo
  /\ registry[e].window = Null
  /\ todo' = {}
  /\ UNCHANGED <<pc, loading, registry, input, self, views, draws, frames, calls>>

SkipCamera(e) ==
  /\ pc = "cameras"
  /\ e \in todo
  /\ registry[e].window = Null
  /\ todo' = todo \ {e}
  /\ UNCHANGED <<pc, loading, registry, input, self, views, draws, frames, calls>>

\* Mutant: the pitch is not clamped from below.
MutClamp_Above(v) == IF v > Limit THEN Limit ELSE v

Clamp(v) == IF v > Limit THEN Limit ELSE IF v < -Limit THEN -Limit ELSE v

(* The angles after the cursor has moved by delta: up and down is the pitch. *)
Turned(angles, delta) == [x |-> Clamp(angles.x + delta.y), y |-> angles.y + delta.x]

Moved(from, to) == [x |-> to.x - from.x, y |-> to.y - from.y]

\* Mutant: the cursor is remembered only while the button is held.
MutRemembered_WhenHeld == IF held THEN cursor' ELSE lastCursorPos

Remembered == cursor'

(* The components the view matrix is computed from.                          *)
View(e) == registry'[e]

(* Each camera asks for the cursor, which may have moved since the last one  *)
(* asked. Free movement with the right button: position by the keys,         *)
(* rotation from the angles all cameras share; then render_camera.           *)
RunCamera(e) ==
  /\ pc = "cameras"
  /\ e \in todo
  /\ registry[e].window # Null
  /\ cursor' \in Cursors
  /\ lastCursorPos' = Remembered
  /\ IF held
     THEN /\ yawPitch' = Turned(yawPitch, Moved(lastCursorPos, cursor'))
          /\ \E p \in Positions :
               registry' = [registry EXCEPT ![e].position = p, ![e].rotation = yawPitch']
     ELSE UNCHANGED <<yawPitch, registry>>
  /\ views' = Append(views, [entity |-> e, position |-> View(e).position,
                             rotation |-> View(e).rotation])
  /\ todo' = todo \ {e}
  /\ UNCHANGED <<pc, loading, held, polled, self, draws, frames, calls>>

EndCameras == /\ pc = "cameras" /\ todo = {}
              /\ pc' = "meshes"
              /\ todo' = With({"Transform", "StaticRenderer"})
              /\ UNCHANGED <<loading, registry, input, self, views, draws, frames, calls>>

-----------------------------------------------------------------------------
(* update(): the meshes *)

MeshLoaded(e) == registry[e].mesh \in loaded

SkipMesh(e) ==
  /\ pc = "meshes"
  /\ e \in todo
  /\ ~MeshLoaded(e)
  /\ todo' = todo \ {e}
  /\ UNCHANGED <<pc, loading, registry, input, self, views, draws, frames, calls>>

(* What is handed to render_static_mesh: the mesh and all materials are cast *)
(* to their types, those that are not loaded are null pointers; the first of *)
(* the materials, which must be there, is taken.                             *)
Drawable(e) ==
  LET materials == registry[e].materials IN
  /\ TypeOf[registry[e].mesh] = "StaticMesh"
  /\ materials # <<>>
  /\ \A i \in DOMAIN materials : materials[i] \in loaded => TypeOf[materials[i]] = "Material"

DrawMesh(e) ==
  /\ pc = "meshes"
  /\ e \in todo
  /\ MeshLoaded(e)
  /\ draws' = Append(draws, [entity |-> e, position |-> registry[e].position,
                             rotation |-> registry[e].rotation])
  /\ todo' = todo \ {e}
  /\ pc' = (IF Drawable(e) THEN pc ELSE "undefined")
  /\ UNCHANGED <<loading, registry, input, self, views, frames, calls>>

(* geometry_pass follows the pointer to each draw's material, once a camera. *)
MaterialsBound ==
  views # <<>> => \A i \in DOMAIN draws : registry[draws[i].entity].materials[1] \in loaded

(* The renderer flushes what it was handed before the next update.           *)
EndUpdate ==
  /\ pc = "meshes" /\ todo = {}
  /\ pc' = (IF MaterialsBound THEN "idle" ELSE "undefined")
  /\ polled' = [cursor |-> cursor, seen |-> polled.seen \/ views # <<>>, yawPitch |-> yawPitch]
  /\ views' = <<>> /\ draws' = <<>>
  /\ UNCHANGED <<loading, registry, cursor, held, lastCursorPos, yawPitch, todo, self, frames,
                 calls>>

-----------------------------------------------------------------------------
Load   == (\E f \in DOMAIN Files : LoadScene(f)) \/ LoadEntity \/ LoadThrows \/ LoadReturns
App    == \/ CreateEntity \/ ClearScene
          \/ \E e \in Live :
               \/ DestroyEntity(e)
               \/ \E c \in {"Transform", "Camera"} : AddComponent(e, c)
               \/ \E c \in AppClasses \cup {NoClass} : AddScript(e, c)
               \/ \E m \in Ids \cup {NoMesh}, l \in Lists : AddRenderer(e, m, l)
               \/ \E w \in {Null, Primary} : SetWindow(e, w)
          \/ \E id \in Ids : Unload(id)
Script == \/ \E e \in todo : InvokeScript(e)
          \/ ScriptAsks \/ (\E p \in Positions : ScriptMoves(p)) \/ ScriptCreates
          \/ ScriptDestroys \/ ScriptReturns
Pass   == \/ \E e \in todo : SkipCamera(e) \/ RunCamera(e) \/ SkipMesh(e) \/ DrawMesh(e)
          \/ EndScripts \/ EndCameras \/ EndUpdate
Next   == Load \/ App \/ BeginUpdate \/ Script \/ Pass

Spec == Init /\ [][Next]_vars

-----------------------------------------------------------------------------
(* What an entity or its node has to say for update() to be defined: a mesh  *)
(* is a mesh, materials are materials or of a type that is never loaded, the *)
(* first is one; a script is of the assembly and has what it asks for.       *)
RendererFits(r) ==
  /\ r.mesh \in Ids /\ TypeOf[r.mesh] = "StaticMesh"
  /\ r.materials # <<>> /\ r.materials[1] \in Ids /\ TypeOf[r.materials[1]] = "Material"
  /\ \A i \in DOMAIN r.materials :
       r.materials[i] \in Buildable => TypeOf[r.materials[i]] = "Material"

ScriptFits(r) == r.class \in AppClasses /\ Asks[r.class] \in r.has \cup {"none"}

WellFormedNode(node) == /\ "StaticRenderer" \in node.has => RendererFits(node)
                        /\ "ScriptBehaviour" \in node.has => ScriptFits(node)

(* The application's own mistakes: a script or a renderer it wrote that does *)
(* not fit, and a material it unloaded, or named and never loaded, under a   *)
(* loaded mesh.                                                              *)
AtFault(r) ==
  \/ "ScriptBehaviour" \in r.written /\ ~ScriptFits(r)
  \/ "StaticRenderer" \in r.written /\ r.mesh \in loaded
       /\ ~(RendererFits(r) /\ r.materials[1] \in loaded)
  \/ r.mesh \in loaded /\ r.materials # <<>> /\ r.materials[1] \in unloaded

(* Over scene files that fit, update() has no defined outcome only while an  *)
(* entity has one of those: no loading, reloading, creating, destroying and  *)
(* clearing, no unloading of meshes, no script and no input makes it cast a  *)
(* resource to a type it is not of, take a material that is not there, run a *)
(* missing class or read a missing component. The code tests the mesh only.  *)
NothingUndefined ==
  pc = "undefined" /\ (\A f \in DOMAIN loadedScenes : \A i \in DOMAIN Files[f] :
                         WellFormedNode(Files[f][i]))
    => \E e \in Live : AtFault(registry[e])

(* seq has one element for each entity of S, with the transform it has now.  *)
ShowsEach(seq, S) ==
  /\ Len(seq) = Cardinality(S)
  /\ Range(seq) = {[entity |-> e, position |-> registry[e].position,
                    rotation |-> registry[e].rotation] : e \in S}

(* A frame hands every camera with a window and every entity with a loaded   *)
(* mesh to the renderer once, where the scripts and the cameras of this very *)
(* frame have left them.                                                     *)
FrameComplete ==
  pc = "meshes" /\ todo = {} =>
    /\ ShowsEach(views, {e \in With({"Camera", "Transform"}) : registry[e].window # Null})
    /\ ShowsEach(draws, {e \in With({"Transform", "StaticRenderer"}) :
                           registry[e].mesh \in loaded})

(* However many cameras share the window, and however the cursor moves while *)
(* they ask for it, its way since it was last asked for in a frame before    *)
(* turns the shared angles once and only while the button is held: sideways  *)
(* always, up and down while the limit is not reached. The frame's last      *)
(* camera looks along the angles it leaves.                                  *)
CursorCountedOnce ==
  pc = "meshes" /\ views # <<>> /\ polled.seen =>
    IF held
    THEN /\ yawPitch.y = polled.yawPitch.y + Moved(polled.cursor, cursor).x
         /\ (\A i \in DOMAIN views : views[i].rotation.x \in (1 - Limit) .. (Limit - 1)) =>
              yawPitch.x = polled.yawPitch.x + Moved(polled.cursor, cursor).y
         /\ views[Len(views)].rotation = yawPitch
    ELSE yawPitch = polled.yawPitch

(* Rune-ScriptCore's GetComponent: a component the entity does not have is   *)
(* null to the script that asks for it.                                      *)
MissingComponentIsNull == pc = "undefined" => self = 0
=============================================================================
