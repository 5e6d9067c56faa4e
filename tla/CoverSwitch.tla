----------------------------- MODULE CoverSwitch -----------------------------
(***************************************************************************)
(* A cover worked by one wall switch and by MQTT at the same time: the     *)
(* Cover, the GestureDetector of a momentary switch in Full mode, the      *)
(* CoverRule of core/src/binding.cpp between them, and the control loop of *)
(* controller/src/main.cpp that drives all three.                          *)
(*                                                                         *)
(* One iteration of the loop reads the clock, handles the commands that    *)
(* came in, then updates the cover and then the button, both with that     *)
(* reading; what the button emits reaches the rule synchronously.  The     *)
(* detector never looks at the cover, so its update is one step with the   *)
(* cover's, and the gestures of that update are dispatched, in order,      *)
(* before anything else happens.                                           *)
(***************************************************************************)
EXTENDS Cover, Sequences

CONSTANTS Debounce, Gap, Hold, HoldLong  \* the timing of the switch

VARIABLES
  kind, mode, rawLast, rawSince, stable, holding, holdLongSent, presses,
  heldFor, sinceRelease, emitted, touched,
  deadMan   \* history: what last set the cover going was a HoldStart

Switch == INSTANCE Gesture

switchVars == <<kind, mode, rawLast, rawSince, stable, holding, holdLongSent,
                presses, heldFor, sinceRelease, touched>>
pairVars == <<vars, switchVars, emitted, deadMan>>

PairInit ==
  /\ Init
  /\ Switch!GestureInit
  /\ kind = "Momentary" /\ mode = "Full"
  /\ deadMan = FALSE

(* An iteration begins. *)
Begin(e) ==
  /\ emitted = <<>>
  /\ ReadClock(e)
  /\ UNCHANGED <<switchVars, emitted, deadMan>>

(* registry.updateAll: actuators before buttons, both at the same now. *)
Iterate ==
  /\ emitted = <<>>
  /\ Update
  /\ \E pressed \in BOOLEAN : Switch!GestureUpdate(pressed, late)
  /\ UNCHANGED deadMan

(* CoverRule::handle. *)
React(gesture) ==
  \/ gesture = "Press1" /\ IsMoving /\ Stop
  \/ gesture = "Press1" /\ ~IsMoving /\ StepAlongDirection
  \/ gesture = "Press2" /\ ToggleDirection
  \/ gesture = "Press3" /\ UNCHANGED vars
  \/ gesture = "HoldStart" /\ MoveAlongDirection
  \/ gesture = "HoldLong" /\ MoveToEnd
  \/ gesture = "HoldEnd" /\ ReleaseHold

(* What comes over MQTT is handled after the clock was read and before the *)
(* update: a command, or a press of a switch on another panel (internAction). *)
Command ==
  /\ emitted = <<>> /\ late \in Elapsed
  /\ \/ \E percent \in Percents : SetPosition(percent) \/ SetTilt(percent)
     \/ Stop
     \/ React("Press1")
  /\ deadMan' = (deadMan /\ UNCHANGED <<motor, aim>>)
  /\ UNCHANGED <<switchVars, emitted>>

Dispatch ==
  /\ emitted # <<>>
  /\ React(Head(emitted))
  /\ emitted' = Tail(emitted)
  /\ deadMan' = IF Head(emitted) = "HoldEnd" THEN deadMan ELSE Head(emitted) = "HoldStart"
  /\ UNCHANGED switchVars

PairNext ==
  \/ \E e \in Elapsed : Begin(e)
  \/ Iterate
  \/ Command
  \/ Dispatch

PairSpec == PairInit /\ [][PairNext]_pairVars

FairPairSpec ==
  /\ PairSpec
  /\ WF_pairVars(\E e \in Elapsed \ {0} : Begin(e))
  /\ WF_pairVars(Due /\ Iterate)
  /\ WF_pairVars(Dispatch)

------------------------------------------------------------------------------
(* The hold is dead-man control: a run it started and nothing else has taken   *)
(* over goes on only while the switch is held, or its HoldEnd is on the way.   *)
(* An earlier commitment, a run to the end, the rest in between or a command   *)
(* must not leave a motor running that its user has let go of.                 *)
DeadManStops == deadMan /\ IsMoving => holding \/ emitted # <<>>

(* Between two iterations a committed run is a run to an end, and only a long  *)
(* hold or its continuation commits: what is left committed is always headed   *)
(* for a limit (cover.cpp:249-261, the commitment that releaseHold trusts).    *)
CommittedHeadsForEnd ==
  committed => /\ IsMoving /\ target = "Position"
               /\ goal = IF Heading = "Up" THEN TravelUp ELSE 0

(* Let go of the switch and send nothing: the cover comes to rest for good,    *)
(* whatever gesture was half made.                                             *)
SettlesWhenLetGo ==
  (<>[]~rawLast /\ <>[][~Command]_pairVars) => <>[]~IsMoving
==============================================================================
