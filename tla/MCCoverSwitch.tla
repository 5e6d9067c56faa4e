---------------------------- MODULE MCCoverSwitch ----------------------------
(* Small instances of CoverSwitch for TLC: the constants are in the *)
(* configurations.                                                  *)
EXTENDS CoverSwitch
==============================================================================
