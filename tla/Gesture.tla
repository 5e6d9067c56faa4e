------------------------------- MODULE Gesture -------------------------------
(***************************************************************************)
(* One switch: the GestureDetector of core/src/gesture_detector.cpp, which *)
(* Button feeds the pin once per iteration of the control loop.            *)
(*                                                                         *)
(* The detector keeps readings of the clock and compares only how long ago *)
(* they were with a threshold, so the model keeps those ages, counted up   *)
(* to the threshold.  An age the code does not read is kept at 0: heldFor  *)
(* while the switch is up, sinceRelease while no press is counted.         *)
(***************************************************************************)
EXTENDS Naturals, Sequences

CONSTANTS
  Debounce,  \* Timing.debounceMs
  Gap,       \* Timing.multiPressGapMs
  Hold,      \* Timing.holdMs
  HoldLong,  \* Timing.holdLongMs
  Elapsed    \* ms between two iterations of the control loop

ASSUME GestureAssumption ==
  /\ Debounce \in Nat /\ Gap \in Nat
  /\ Hold \in Nat \ {0} /\ HoldLong \in Nat /\ Hold <= HoldLong
  /\ Elapsed \subseteq Nat

VARIABLES
  kind, mode,             \* kind_, mode_: fixed by the configuration
  rawLast, rawSince,      \* the pin as last sampled, and since when
  stable,                 \* the debounced position
  holding, holdLongSent,
  presses,                \* pressCount_
  heldFor, sinceRelease,  \* since pressStartMs_ and releaseMs_
  emitted,                \* the gestures of the last update, in order
  touched                 \* history: the pin has moved since power-up

switch == <<kind, mode>>
debouncer == <<rawLast, rawSince, stable>>
gestureVars == <<switch, debouncer, holding, holdLongSent, presses, heldFor,
                 sinceRelease, emitted, touched>>

Kinds == {"Momentary", "Toggle"}
Modes == {"Instant", "Full"}
Presses == {"Press1", "Press2", "Press3"}
Holds == {"HoldStart", "HoldLong", "HoldEnd"}

(* producesGesture(kind, mode, gesture) *)
Producible ==
  IF mode = "Instant" THEN {"Press1"}
  ELSE IF kind = "Toggle" THEN Presses
  ELSE Presses \cup Holds

UpTo(ms, threshold) == IF ms <= threshold THEN ms ELSE threshold

(* Mutant: prime() that forgets the debounced position. *)
GestureInitUnsettled ==
  /\ kind \in Kinds /\ mode \in Modes
  /\ rawLast \in BOOLEAN /\ rawSince = Debounce
  /\ stable = FALSE
  /\ holding = FALSE /\ holdLongSent = FALSE
  /\ presses = 0 /\ heldFor = 0 /\ sinceRelease = 0
  /\ emitted = <<>>
  /\ touched = FALSE

(* prime() at boot: the position is adopted, and pressStartMs_ is 0, which is *)
(* longer ago than any threshold when the loop starts (main sleeps 1.5 s).    *)
GestureInit ==
  /\ kind \in Kinds /\ mode \in Modes
  /\ rawLast \in BOOLEAN /\ rawSince = Debounce
  /\ stable = rawLast
  /\ holding = FALSE /\ holdLongSent = FALSE
  /\ presses = 0
  /\ heldFor = (IF stable /\ kind = "Momentary" /\ mode = "Full" THEN HoldLong ELSE 0)
  /\ sinceRelease = 0
  /\ emitted = <<>>
  /\ touched = FALSE

(* The start of update(pressed, now), e ms after the last one. *)
Sample(pressed, e) ==
  /\ rawLast' = pressed
  /\ rawSince' = IF pressed # rawLast THEN 0 ELSE UpTo(rawSince + e, Debounce)
  /\ touched' = (touched \/ pressed # rawLast)
  /\ UNCHANGED switch

Edge == rawLast' # stable /\ rawSince' >= Debounce
Settle == stable' = IF Edge THEN rawLast' ELSE stable

(* Mutants: the window is a ms longer than it is; a press is only ever reported *)
(* with two more.                                                              *)
CountedOutPastWindow(n, ms) == n >= 3 \/ (n > 0 /\ ms > Gap)
CountedOutWhenFull(n, ms) == n >= 3

(* The count of presses stands at n, ms after the last of them: report it at *)
(* once if it is full, else once the window has passed.                      *)
CountedOut(n, ms) == n >= 3 \/ (n > 0 /\ ms >= Gap)
PressGesture(n) == IF n = 1 THEN "Press1" ELSE IF n = 2 THEN "Press2" ELSE "Press3"

CountPresses(n, ms, said) ==
  /\ presses' = IF CountedOut(n, ms) THEN 0 ELSE n
  /\ sinceRelease' = IF n = 0 \/ CountedOut(n, ms) THEN 0 ELSE UpTo(ms, Gap)
  /\ emitted' = IF CountedOut(n, ms) THEN Append(said, PressGesture(n)) ELSE said

(* Mode Instant: act on the edge. *)
InstantUpdate(pressed, e) ==
  /\ mode = "Instant"
  /\ Sample(pressed, e)
  /\ Settle
  /\ emitted' = IF Edge /\ (kind = "Toggle" \/ stable') THEN <<"Press1">> ELSE <<>>
  /\ UNCHANGED <<holding, holdLongSent, presses, heldFor, sinceRelease>>

(* Mutant: the long hold repeats. *)
HeldUpdateRepeats(pressed, e) ==
  /\ mode = "Full" /\ kind = "Momentary"
  /\ Sample(pressed, e)
  /\ Settle
  /\ stable'
  /\ heldFor' = IF Edge THEN 0 ELSE UpTo(heldFor + e, HoldLong)
  /\ LET starts == ~holding /\ presses = 0 /\ heldFor' >= Hold
         lengthens == (holding \/ starts) /\ heldFor' >= HoldLong IN
     /\ holding' = (holding \/ starts)
     /\ holdLongSent' = (holdLongSent \/ lengthens)
     /\ emitted' = (IF starts THEN <<"HoldStart">> ELSE <<>>)
                     \o (IF lengthens THEN <<"HoldLong">> ELSE <<>>)
  /\ sinceRelease' = IF presses = 0 THEN 0 ELSE UpTo(sinceRelease + e, Gap)
  /\ UNCHANGED presses

(* A momentary switch that is down: only the hold is timed. *)
HeldUpdate(pressed, e) ==
  /\ mode = "Full" /\ kind = "Momentary"
  /\ Sample(pressed, e)
  /\ Settle
  /\ stable'
  /\ heldFor' = IF Edge THEN 0 ELSE UpTo(heldFor + e, HoldLong)
  /\ LET starts == ~holding /\ presses = 0 /\ heldFor' >= Hold
         lengthens == (holding \/ starts) /\ ~holdLongSent /\ heldFor' >= HoldLong IN
     /\ holding' = (holding \/ starts)
     /\ holdLongSent' = (holdLongSent \/ lengthens)
     /\ emitted' = (IF starts THEN <<"HoldStart">> ELSE <<>>)
                     \o (IF lengthens THEN <<"HoldLong">> ELSE <<>>)
  /\ sinceRelease' = IF presses = 0 THEN 0 ELSE UpTo(sinceRelease + e, Gap)
  /\ UNCHANGED presses

(* A momentary switch that is, or comes, up: end the hold or count the press. *)
UpUpdate(pressed, e) ==
  /\ mode = "Full" /\ kind = "Momentary"
  /\ Sample(pressed, e)
  /\ Settle
  /\ ~stable'
  /\ IF Edge /\ holding
     THEN /\ holding' = FALSE /\ holdLongSent' = FALSE
          /\ CountPresses(presses, sinceRelease + e, <<"HoldEnd">>)
     ELSE /\ IF Edge
             THEN CountPresses(presses + 1, 0, <<>>)
             ELSE CountPresses(presses, sinceRelease + e, <<>>)
          /\ UNCHANGED <<holding, holdLongSent>>
  /\ heldFor' = 0

(* A toggle switch rests in both positions: every flip counts. *)
ToggleUpdate(pressed, e) ==
  /\ mode = "Full" /\ kind = "Toggle"
  /\ Sample(pressed, e)
  /\ Settle
  /\ IF Edge
     THEN CountPresses(presses + 1, 0, <<>>)
     ELSE CountPresses(presses, sinceRelease + e, <<>>)
  /\ UNCHANGED <<holding, holdLongSent, heldFor>>

GestureUpdate(pressed, e) ==
  \/ InstantUpdate(pressed, e)
  \/ HeldUpdate(pressed, e)
  \/ UpUpdate(pressed, e)
  \/ ToggleUpdate(pressed, e)

GestureNext == \E pressed \in BOOLEAN, e \in Elapsed : GestureUpdate(pressed, e)

GestureSpec == GestureInit /\ [][GestureNext]_gestureVars

(* The control loop never blocks and its clock advances: a pin that stays as it *)
(* is goes on being sampled.                                                    *)
FairGestureSpec ==
  /\ GestureSpec
  /\ WF_gestureVars(\E e \in Elapsed \ {0} : GestureUpdate(rawLast, e))

------------------------------------------------------------------------------
(* Types; an age stays below the threshold it is counted up to. *)
GestureTypeOK ==
  /\ kind \in Kinds /\ mode \in Modes
  /\ rawLast \in BOOLEAN /\ rawSince \in 0..Debounce /\ stable \in BOOLEAN
  /\ holding \in BOOLEAN /\ holdLongSent \in BOOLEAN
  /\ presses \in 0..2
  /\ heldFor \in 0..HoldLong /\ sinceRelease \in 0..Gap
  /\ emitted \in Seq(Producible) /\ Len(emitted) <= 2
  /\ touched \in BOOLEAN

(* A count whose window has passed is reported by the very update that sees it *)
(* pass: with the switch up, no press is left waiting (line 101).              *)
NoPressOverdue ==
  presses > 0 /\ ~(kind = "Momentary" /\ stable) => sinceRelease < Gap

(* The detector speaks the grammar its listeners rely on: holds are bracketed, *)
(* promoted at most once, never mixed with presses, and nothing is said that   *)
(* producesGesture (gesture.h:68-72) rules out.                                *)
HoldPhase == IF ~holding THEN "Idle" ELSE IF holdLongSent THEN "Long" ELSE "Held"
Grammar == INSTANCE GestureGrammar WITH producible <- Producible, hold <- HoldPhase
FollowsGrammar == Grammar!Spec

(* A switch left alone leaves nothing unsaid: once the pin stays up (or, for a *)
(* rocker, stays put), every press is reported and every hold ended.           *)
LeftAloneIsReported ==
  (<>[]~rawLast \/ (kind = "Toggle" /\ <>[]rawLast)) => <>[](presses = 0 /\ ~holding)

(* Nobody has touched the switch yet: a rocker resting in its "on" position is  *)
(* not a flip, and no press is reported however often the pin is sampled        *)
(* (button.cpp:21-24).  A momentary switch that is held may report its hold.    *)
BootReportsNoPress == ~touched => \A i \in DOMAIN emitted : emitted[i] \in Holds
==============================================================================
