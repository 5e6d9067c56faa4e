------------------------------ MODULE MCMotion ------------------------------
(* Two rules that share a light and a sensor, as a stairwell and a corridor    *)
(* do; the sensor they share is local in one wiring and remote in the other.   *)
EXTENDS Motion, TLC

CONSTANTS pir, far, lamp, fan

SharedLocal == 1 :> {pir, far} @@ 2 :> {pir}
SharedRemote == 1 :> {far} @@ 2 :> {pir, far}
Wiring == 1 :> {lamp, fan} @@ 2 :> {lamp}
=============================================================================
