----------------------------- MODULE MCMeshFiles -----------------------------
(* Input files for TLC: a tree whose root and child share a mesh, a mesh     *)
(* without normals or texture coordinates, a line among the triangles, and   *)
(* two files of the same stem.                                               *)
EXTENDS MeshFiles

Quad == [data |-> "quad", numVertices |-> 4, hasNormals |-> TRUE, hasTexCoords |-> TRUE,
         faces |-> <<<<0, 1, 2>>, <<2, 1, 3>>>>]
Wire == [data |-> "wire", numVertices |-> 2, hasNormals |-> FALSE, hasTexCoords |-> FALSE,
         faces |-> <<<<1, 0>>>>]
Flat == [data |-> "flat", numVertices |-> 3, hasNormals |-> TRUE, hasTexCoords |-> FALSE,
         faces |-> <<<<2, 1, 0>>>>]

Tree == [meshes |-> <<Quad, Wire>>,
         nodes  |-> <<[meshes |-> <<1>>, children |-> <<3, 2>>],
                      [meshes |-> <<2, 1>>, children |-> <<>>],
                      [meshes |-> <<>>, children |-> <<>>]>>]
Leaf == [meshes |-> <<Flat>>, nodes |-> <<[meshes |-> <<1>>, children |-> <<>>]>>]
Bare == [meshes |-> <<>>, nodes |-> <<[meshes |-> <<>>, children |-> <<>>]>>]

Directory == <<[stem |-> "prop", scene |-> Tree], [stem |-> "rock", scene |-> Leaf],
               [stem |-> "none", scene |-> Bare], [stem |-> "prop", scene |-> Leaf]>>
=============================================================================
