------------------------------ MODULE MCScene ------------------------------
(* Scene files for TLC. "shipped" has the shape of Sandbox/data/scene_01: a  *)
(* scripted camera and a mesh with a material. The others are what a file    *)
(* written by hand can say: no material, a material for a mesh, a type       *)
(* without a factory, an id of no registry, a class of no assembly, a script *)
(* on an entity without the component it asks for or one that destroys it.   *)
EXTENDS Scene

Types == [mesh |-> "StaticMesh", material |-> "Material", sound |-> "Other"]

Node(has, mesh, materials, class) ==
  [has |-> has, mesh |-> mesh, materials |-> materials, class |-> class, malformed |-> FALSE]

CameraNode == Node({"Transform", "Camera", "ScriptBehaviour"}, Unregistered, <<>>, "Mover")
MeshNode   == Node({"Transform", "StaticRenderer"}, "mesh", <<"material">>, NoClass)

WithMesh(mesh, materials) == <<Node({"Transform", "StaticRenderer"}, mesh, materials, NoClass)>>

Written == [shipped   |-> <<CameraNode, MeshNode>>,
            twin      |-> <<Node({"Transform", "Camera", "StaticRenderer"}, "mesh",
                                 <<"material", "sound">>, NoClass)>>,
            bare      |-> WithMesh("mesh", <<>>),
            swapped   |-> WithMesh("material", <<"mesh">>),
            silent    |-> WithMesh("mesh", <<"sound", "material">>),
            lost      |-> WithMesh("mesh", <<"material", Unregistered>>),
            unknown   |-> <<Node({"Transform", "ScriptBehaviour"}, Unregistered, <<>>, "Gone")>>,
            reaper    |-> <<Node({"Transform", "ScriptBehaviour"}, Unregistered, <<>>, "Reaper")>>,
            untouched |-> <<Node({"ScriptBehaviour"}, Unregistered, <<>>, "Mover")>>,
            malformed |-> <<[MeshNode EXCEPT !.malformed = TRUE]>>]

Bodiless == [untouched |-> <<Node({"ScriptBehaviour", "Camera"}, Unregistered, <<>>, "Mover")>>,
             shipped   |-> <<CameraNode>>]

Classes == {"Mover", "Idle", "Reaper"}
Needed  == [Mover |-> "Transform", Idle |-> "none", Reaper |-> "destroy"]
Screen  == {[x |-> 0, y |-> 0], [x |-> 1, y |-> 1], [x |-> 1, y |-> 3]}
=============================================================================
