------------------------------ MODULE MCGesture ------------------------------
(* Small instances of Gesture for TLC: the constants are in the configurations. *)
EXTENDS Gesture
==============================================================================
