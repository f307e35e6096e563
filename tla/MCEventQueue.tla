---------------------------- MODULE MCEventQueue ----------------------------
(* SystemEvents for TLC: three receivers, four events of two kinds.          *)
EXTENDS EventQueue
=============================================================================
