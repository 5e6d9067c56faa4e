-------------------------------- MODULE Motor --------------------------------
(***************************************************************************)
(* What a two-winding blind motor must be able to rely on, whoever drives  *)
(* it: the two windings are never live together, and a winding only goes   *)
(* live once both have been dead for the rest period.  A driver that dates *)
(* a release early owes that much less of the rest after it.  Cover        *)
(* implements this specification; there is no class for it in the code, it *)
(* is the promise of the `motorRestMs` comment in cover.h and of           *)
(* releaseRelays.                                                          *)
(***************************************************************************)
EXTENDS Naturals

CONSTANTS Rest,     \* ms both windings must have been dead
          Elapsed   \* the lengths a step of time may have, in ms

VARIABLES winding,  \* the winding that is live, or "Off"
          cooled,   \* ms both have been dead, counted up to Rest; 0 while one is live
          early     \* by how many ms the last release was dated early

vars == <<winding, cooled, early>>

Windings == {"Off", "Up", "Down"}

AtMost(n, bound) == IF n <= bound THEN n ELSE bound

(* Power-up: there is nothing to rest from. *)
Init == winding = "Off" /\ cooled = Rest /\ early = 0

(* Time passes while nothing is live. *)
Cool(e) ==
  /\ winding = "Off"
  /\ cooled' = AtMost(cooled + e, Rest)
  /\ UNCHANGED <<winding, early>>

(* A winding goes live: both must have been dead for the rest.  Only with no  *)
(* rest configured at all may one follow the other at once.                   *)
Energise(w) ==
  /\ w # winding
  /\ IF winding = "Off" THEN cooled + early >= Rest ELSE Rest = 0
  /\ winding' = w /\ cooled' = 0 /\ early' = 0

(* A live winding drops out; the rest starts here, or is dated e ms early. *)
Release(e) ==
  /\ winding # "Off"
  /\ winding' = "Off" /\ cooled' = 0 /\ early' = e

Next ==
  \/ \E e \in Elapsed : Cool(e)
  \/ \E w \in Windings \ {"Off"} : Energise(w)
  \/ \E e \in Elapsed \cup {0} : Release(e)

Spec == Init /\ [][Next]_vars
==============================================================================
