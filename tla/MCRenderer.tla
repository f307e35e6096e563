----------------------------- MODULE MCRenderer ----------------------------
(* The renderer for TLC. The number of flushes, cameras and draws bounds the *)
(* history of submitted lists, so the state space is finite.                 *)
EXTENDS Renderer
=============================================================================
