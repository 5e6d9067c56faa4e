------------------------------- MODULE MCBlind -------------------------------
(* Small instances of Blind for TLC: the constants are in the configurations. *)
EXTENDS Blind
==============================================================================
