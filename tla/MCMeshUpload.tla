---------------------------- MODULE MCMeshUpload ----------------------------
(* The tool on the four files of MCMeshFiles; planes of up to three by three *)
(* cells, and a cube.                                                        *)
EXTENDS MeshUpload, MCMeshFiles

UpToThree == (0 .. 3) \X (0 .. 3)
=============================================================================
