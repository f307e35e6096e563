------------------------------ MODULE MCUploads ------------------------------
(* The renderer and the textures loaded onto it, for TLC.                     *)
EXTENDS Uploads
=============================================================================
