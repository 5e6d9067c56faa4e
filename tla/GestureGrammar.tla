---------------------------- MODULE GestureGrammar ----------------------------
(***************************************************************************)
(* What a listener of one switch may count on, however the switch is       *)
(* wired, sampled and bounced: a hold is announced, at most once promoted  *)
(* to a long hold, and ended before anything else is said; and nothing is  *)
(* said that producesGesture(kind, mode, ...) denies, which is what the    *)
(* configuration check of a binding relies on.                             *)
(***************************************************************************)
EXTENDS Sequences

VARIABLES
  producible,  \* the gestures producesGesture admits for this switch
  hold,        \* "Idle", "Held" or "Long"
  emitted      \* what one update says, in order

vars == <<producible, hold, emitted>>

Presses == {"Press1", "Press2", "Press3"}
Holds == {"HoldStart", "HoldLong", "HoldEnd"}

Init ==
  /\ producible \in SUBSET (Presses \cup Holds)
  /\ hold = "Idle"
  /\ emitted = <<>>

Silence == emitted' = <<>> /\ UNCHANGED hold

Press ==
  /\ hold = "Idle"
  /\ \E g \in Presses \cap producible : emitted' = <<g>>
  /\ UNCHANGED hold

HoldBegins ==
  /\ hold = "Idle" /\ Holds \subseteq producible
  /\ \/ hold' = "Held" /\ emitted' = <<"HoldStart">>
     \/ hold' = "Long" /\ emitted' = <<"HoldStart", "HoldLong">>

HoldGetsLong ==
  /\ hold = "Held"
  /\ hold' = "Long" /\ emitted' = <<"HoldLong">>

HoldEnds ==
  /\ hold # "Idle"
  /\ hold' = "Idle" /\ emitted' = <<"HoldEnd">>

Next ==
  /\ UNCHANGED producible
  /\ Silence \/ Press \/ HoldBegins \/ HoldGetsLong \/ HoldEnds

Spec == Init /\ [][Next]_vars
==============================================================================
