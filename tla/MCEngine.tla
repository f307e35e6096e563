------------------------------ MODULE MCEngine ------------------------------
(* The engine for TLC: two kinds of events, four of them in a run.           *)
EXTENDS Engine
=============================================================================
