------------------------------ MODULE MeshUpload ------------------------------
(* The two ways a StaticMesh is filled, from a mesh file by its factory and  *)
(* by a generator, and apply(), which moves its lists into three buffers of  *)
(* the GPU. The asset tool writes the files meanwhile; the engine takes a    *)
(* file as it is at the moment. Every StaticMesh is new and on its own, so   *)
(* one is made in a run.                                                     *)
EXTENDS MeshFiles

CONSTANTS Resolutions  \* as in Primitives

ASSUME ResolutionsAssumption == Resolutions \subseteq Nat \X Nat

VARIABLES
  phase, shape, width, height, x, y, position, texCoord, positions, normals, texCoords, triangles,
             \* as in Primitives
  uploading, \* "none", the list apply() is at, "done", or how it ended:
             \* "unmapped" wrote to no buffer, "overread" read behind a list
  lists,     \* m_positions, m_normals, m_texCoords, m_triangles
  buffers,   \* m_positionsBuffer, m_otherAttribBuffer, m_indexBuffer
  fileRead   \* history: the items the factory found and the mesh they were for

Shapes == INSTANCE Primitives

tool      == vars
generator == <<phase, shape, width, height, x, y, position, texCoord, positions, normals,
               texCoords, triangles>>
upload    == <<uploading, lists, buffers, fileRead>>

NoLists == [positions |-> <<>>, normals |-> <<>>, texCoords |-> <<>>, triangles |-> <<>>]
NoFile  == [items |-> 0, mesh |-> NoLists]

UploadInit == /\ Init /\ Shapes!Init
              /\ uploading = "none"
              /\ lists = NoLists
              /\ buffers = [positions |-> <<>>, attributes |-> <<>>, indices |-> <<>>]
              /\ fileRead = NoFile

-----------------------------------------------------------------------------
(* factory_load_static_mesh: what import_static_mesh_optimised finds goes to *)
(* the mesh but for the submeshes.                                           *)
LoadFile(f) ==
  LET m == ReadMesh(disk[f]) IN
  /\ uploading = "none" /\ phase = "start"
  /\ lists' = [positions |-> m.positions, normals |-> m.normals, texCoords |-> m.texCoords,
               triangles |-> m.triangles]
  /\ fileRead' = [items |-> Len(disk[f]), mesh |-> source[f]]
  /\ uploading' = "positions"
  /\ UNCHANGED <<tool, generator, buffers>>

(* The ends of generate_plane and generate_cube. *)
SetShape ==
  /\ uploading = "none" /\ phase = "made"
  /\ lists' = [positions |-> positions, normals |-> normals, texCoords |-> texCoords,
               triangles |-> FlattenSeq(triangles)]
  /\ uploading' = "positions"
  /\ UNCHANGED <<tool, generator, buffers, fileRead>>

-----------------------------------------------------------------------------
(* StaticMesh::apply() *)

Copied == [positions |-> lists.positions, attributes |-> lists.normals,
           indices   |-> lists.triangles]

(* Nothing tests whether a buffer was made and mapped: if not, its contents, *)
(* unless there are none, go where the pointer was left.                     *)
BufferFails ==
  /\ uploading \in DOMAIN Copied
  /\ Copied[uploading] # <<>>
  /\ uploading' = "unmapped"
  /\ UNCHANGED <<tool, generator, lists, buffers, fileRead>>

ApplyPositions ==
  /\ uploading = "positions"
  /\ buffers' = [buffers EXCEPT !.positions = lists.positions]
  /\ lists' = [lists EXCEPT !.positions = <<>>]
  /\ uploading' = "attributes"
  /\ UNCHANGED <<tool, generator, fileRead>>

(* A texture coordinate is taken for every normal.                           *)
ApplyAttributes ==
  /\ uploading = "attributes"
  /\ Len(lists.normals) <= Len(lists.texCoords)
  /\ buffers' = [buffers EXCEPT !.attributes =
                   [i \in DOMAIN lists.normals |-> <<lists.normals[i], lists.texCoords[i]>>]]
  /\ lists' = [lists EXCEPT !.normals = <<>>, !.texCoords = <<>>]
  /\ uploading' = "indices"
  /\ UNCHANGED <<tool, generator, fileRead>>

ApplyOverreads ==
  /\ uploading = "attributes"
  /\ Len(lists.normals) > Len(lists.texCoords)
  /\ uploading' = "overread"
  /\ UNCHANGED <<tool, generator, lists, buffers, fileRead>>

ApplyIndices ==
  /\ uploading = "indices"
  /\ buffers' = [buffers EXCEPT !.indices = lists.triangles]
  /\ lists' = [lists EXCEPT !.triangles = <<>>]
  /\ uploading' = "done"
  /\ UNCHANGED <<tool, generator, fileRead>>

-----------------------------------------------------------------------------
Apply == ApplyPositions \/ ApplyAttributes \/ ApplyOverreads \/ ApplyIndices \/ BufferFails

UploadNext == \/ Next /\ UNCHANGED <<generator, upload>>
              \/ uploading = "none" /\ Shapes!Next /\ UNCHANGED <<tool, upload>>
              \/ \E f \in DOMAIN disk : LoadFile(f)
              \/ SetShape
              \/ Apply

UploadSpec == UploadInit /\ [][UploadNext]_<<tool, generator, upload>>

-----------------------------------------------------------------------------
(* Whoever made the mesh, and however little of its file was there: a draw   *)
(* of all its indices finds a position and attributes for each of them.      *)
DrawnInRange ==
  uploading = "done" =>
    \A k \in DOMAIN buffers.indices :
      buffers.indices[k] \in 0 .. Len(buffers.positions) - 1
        /\ Len(buffers.attributes) = Len(buffers.positions)

(* apply() stays inside its lists but for a file that ends behind the number *)
(* of normals and before that of texture coordinates.                        *)
OverreadOnlyWhenTorn ==
  uploading = "overread" =>
    fileRead.items \in Len(fileRead.mesh.positions) + 2 ..
                       Len(fileRead.mesh.positions) + Len(fileRead.mesh.normals) + 2

(* A generated mesh has neither hole nor overlap, and all its triangles face  *)
(* the same way.                                                             *)
Watertight == Shapes!FacesAlike /\ Shapes!Watertight
=============================================================================
