------------------------------- MODULE MCCover -------------------------------
(* Small instances of Cover for TLC: the constants are in the configurations. *)
EXTENDS Cover
==============================================================================
