------------------------------ MODULE MeshFiles ------------------------------
(* From an artist's file to the GPU: the asset tool imports every mesh of    *)
(* its input files and writes each to a file of its own format, item by      *)
(* item; it may die at any item. The engine's factory reads what is there.   *)
(* A vertex, a normal, a texture coordinate, an index and a submesh are one  *)
(* item each; so is a count.                                                 *)
EXTENDS Integers, Sequences, SequencesExt

CONSTANTS Inputs,  \* the files the tool is called with: stem of the name and scene
          Byte     \* how many values the submesh count on disk has (256)

Zero == <<>>  \* a vector that value-initialisation leaves

(* assimp: meshes that nodes name by index, nodes in a tree, numbered from   *)
(* the root so that children come after their parent. A face has 1 to 3      *)
(* indices, since the import triangulates.                                   *)
ASSUME InputsAssumption ==
  /\ Byte \in Nat \ {0, 1}
  /\ Inputs \in Seq(Range(Inputs))
  /\ \A i \in DOMAIN Inputs :
       LET scene == Inputs[i].scene IN
       /\ scene.nodes \in Seq(Range(scene.nodes)) /\ scene.nodes # <<>>
       /\ \A n \in DOMAIN scene.nodes :
            /\ scene.nodes[n].meshes \in Seq(DOMAIN scene.meshes)
            /\ scene.nodes[n].children \in Seq(n + 1 .. Len(scene.nodes))
       /\ \A m \in Range(scene.meshes) :
            /\ m.numVertices \in Nat
            /\ m.faces \in Seq(Seq(0 .. m.numVertices - 1))
            /\ \A f \in DOMAIN m.faces : Len(m.faces[f]) \in 1 .. 3

VARIABLES
  status,    \* "import", "export", "done", or "killed"
  at,        \* the input file the tool is at
  imported,  \* importedMeshes: what import_static_mesh_raw returned for it
  mesh,      \* the place in imported of the mesh being exported
  name,      \* the name of the file that is open
  disk,      \* file name -> items written
  source     \* history: file name -> the mesh it was opened for

vars == <<status, at, imported, mesh, name, disk, source>>

-----------------------------------------------------------------------------
(* import_static_mesh_raw() *)

\* Mutant: the attribute that is missing is not given a place.
MutAttribute_Skipped(m, has, kind) ==
  IF has THEN [i \in 1 .. m.numVertices |-> <<m.data, kind, i>>] ELSE <<>>

(* An attribute of every vertex, zero when the file does not have it.        *)
Attribute(m, has, kind) ==
  [i \in 1 .. m.numVertices |-> IF has THEN <<m.data, kind, i>> ELSE Zero]

\* Mutant: indices count from one.
MutCorner_FromOne(face, j) == IF j \in DOMAIN face THEN face[j] + 1 ELSE 0

(* A point or a line leaves the other corners of its triangle at zero.       *)
Corner(face, j) == IF j \in DOMAIN face THEN face[j] ELSE 0

(* assimp_process_mesh, whose target is always empty.                        *)
ProcessMesh(m) ==
  [positions |-> Attribute(m, TRUE, "position"),
   normals   |-> Attribute(m, m.hasNormals, "normal"),
   texCoords |-> Attribute(m, m.hasTexCoords, "texCoord"),
   triangles |-> [k \in 1 .. 3 * Len(m.faces) |->
                    Corner(m.faces[((k - 1) \div 3) + 1], ((k - 1) % 3) + 1)],
   submeshes |-> <<[indexOffset |-> 0, indexCount |-> 3 * Len(m.faces)]>>]

(* assimp_process_node: a node's own meshes, then its children's.            *)
ProcessNode(scene) ==
  LET node == scene.nodes
      meshes[n \in DOMAIN node] ==
        [i \in DOMAIN node[n].meshes |-> ProcessMesh(scene.meshes[node[n].meshes[i]])]
          \o FlattenSeq([i \in DOMAIN node[n].children |-> meshes[node[n].children[i]]])
  IN meshes[1]

-----------------------------------------------------------------------------
(* The optimised format: five lists, each behind its length. *)

Listed(list) == <<Len(list)>> \o list

\* Mutant: normals and texture coordinates are written in the other order.
MutExported_Swapped(m) ==
  Listed(m.positions) \o Listed(m.texCoords) \o Listed(m.normals) \o Listed(m.triangles)
    \o <<Len(m.submeshes) % Byte>> \o m.submeshes

(* export_static_mesh_optimised *)
Exported(m) ==
  Listed(m.positions) \o Listed(m.normals) \o Listed(m.texCoords) \o Listed(m.triangles)
    \o <<Len(m.submeshes) % Byte>> \o m.submeshes

(* A read after the end of the file leaves a count at 0 and an element as    *)
(* resize() made it (none), and does not fail.                               *)
ReadList(items, start, none) ==
  LET count == IF start \in DOMAIN items THEN items[start] ELSE 0 IN
  [list |-> [i \in 1 .. count |-> IF start + i \in DOMAIN items THEN items[start + i] ELSE none],
   end  |-> start + count + 1]

(* import_static_mesh_optimised *)
ReadMesh(items) ==
  LET atPositions == ReadList(items, 1, Zero)
      atNormals   == ReadList(items, atPositions.end, Zero)
      atTexCoords == ReadList(items, atNormals.end, Zero)
      atTriangles == ReadList(items, atTexCoords.end, 0)
      atSubmeshes == ReadList(items, atTriangles.end, [indexOffset |-> 0, indexCount |-> 0])
  IN [positions |-> atPositions.list, normals |-> atNormals.list, texCoords |-> atTexCoords.list,
      triangles |-> atTriangles.list, submeshes |-> atSubmeshes.list]

-----------------------------------------------------------------------------
(* main(), without --batch *)

Init == /\ status = "import"
        /\ at = 1 /\ imported = <<>> /\ mesh = 1
        /\ name = <<>> /\ disk = <<>> /\ source = <<>>

(* A file assimp cannot read counts as one without meshes.                   *)
Import ==
  /\ status = "import"
  /\ at <= Len(Inputs)
  /\ imported' \in {ProcessNode(Inputs[at].scene), <<>>}
  /\ mesh' = 1
  /\ status' = "export"
  /\ UNCHANGED <<at, name, disk, source>>

(* The index in the name: i, which the loop does not advance.                *)
Suffix == 0

(* The file is opened, which empties it.                                     *)
Open ==
  /\ status = "export" /\ name = <<>>
  /\ mesh <= Len(imported)
  /\ name' = <<Inputs[at].stem, Suffix>>
  /\ disk' = [f \in DOMAIN disk \cup {name'} |-> IF f = name' THEN <<>> ELSE disk[f]]
  /\ source' = [f \in DOMAIN disk' |-> IF f = name' THEN imported[mesh] ELSE source[f]]
  /\ UNCHANGED <<status, at, imported, mesh>>

Write ==
  /\ status = "export" /\ name # <<>>
  /\ Len(disk[name]) < Len(Exported(imported[mesh]))
  /\ disk' = [disk EXCEPT ![name] = Append(@, Exported(imported[mesh])[Len(@) + 1])]
  /\ UNCHANGED <<status, at, imported, mesh, name, source>>

Close ==
  /\ status = "export" /\ name # <<>>
  /\ Len(disk[name]) = Len(Exported(imported[mesh]))
  /\ name' = <<>>
  /\ mesh' = mesh + 1
  /\ UNCHANGED <<status, at, imported, disk, source>>

NextInput ==
  /\ status = "export" /\ name = <<>>
  /\ mesh > Len(imported)
  /\ at' = at + 1
  /\ status' = (IF at = Len(Inputs) THEN "done" ELSE "import")
  /\ UNCHANGED <<imported, mesh, name, disk, source>>

(* The tool is killed, or the disk is full: no write is checked.             *)
Killed == /\ status \in {"import", "export"}
          /\ status' = "killed"
          /\ UNCHANGED <<at, imported, mesh, name, disk, source>>

Finished == status \in {"done", "killed"} /\ UNCHANGED vars

Next == Import \/ Open \/ Write \/ Close \/ NextInput \/ Killed \/ Finished
Spec == Init /\ [][Next]_vars

-----------------------------------------------------------------------------
Closed(f) == f \in DOMAIN disk /\ f # name

(* Every file that was closed is read back as the mesh it was written for.   *)
RoundTrip == \A f \in DOMAIN disk : Closed(f) => ReadMesh(disk[f]) = source[f]

(* "Imported {} separate meshes", each of which the loop gives a file whose  *)
(* name has a number: when the input is done its meshes are on disk.         *)
EveryMeshExported ==
  status = "export" /\ name = <<>> =>
    \A i \in 1 .. mesh - 1 : \E f \in DOMAIN disk : ReadMesh(disk[f]) = imported[i]
=============================================================================
