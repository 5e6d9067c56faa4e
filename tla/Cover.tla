-------------------------------- MODULE Cover --------------------------------
(***************************************************************************)
(* One blind: the Cover class of core/src/cover.cpp.                       *)
(*                                                                         *)
(* The object has no thread of its own.  An iteration of the control loop  *)
(* reads the clock, hands on the MQTT commands that came in, and calls     *)
(* update() with the reading; then switches are heard (main.cpp:261-285).  *)
(* So nowMs_ is the current reading when the CoverRule of a wall switch    *)
(* calls an operation, and that of the iteration before when MQTT does.    *)
(* late is how far it is behind; time passes from reading to reading.      *)
(*                                                                         *)
(* The code stores times as readings of a 32-bit millisecond clock and     *)
(* only ever uses their differences, so the model stores the differences:  *)
(* sinceOff is nowMs_ - lastOffMs_, sincePublish is nowMs_ - lastPublishMs_*)
(* and, while the target is "Duration", goal is nowMs_ - targetEndMs_, all *)
(* modulo Word (2^32 in the build).  lastOffMs_ is not read while a        *)
(* winding is live: sinceOff is 0 then.  Of targetPositionMs_,             *)
(* targetTiltMs_ and targetEndMs_ only the one target_ selects is ever     *)
(* read: goal is that one.                                                 *)
(***************************************************************************)
EXTENDS Naturals

CONSTANTS
  TravelUp,      \* Timing.travelUpMs: closed to open; the scale of position
  TravelDown,    \* Timing.travelDownMs
  Tilt,          \* Timing.tiltMs, 0 for a cover without slats
  Step,          \* Timing.stepMs
  Rest,          \* Timing.motorRestMs
  BootOpen,      \* Timing.bootOpen
  HomeAtBoot,    \* Timing.homeAtBoot
  PublishEvery,  \* kTravelPublishMs
  Elapsed,       \* ms between two iterations of the control loop
  Percents,      \* the percentages commands carry
  HalfWord       \* half the range of the millisecond clock

Word == 2 * HalfWord

ASSUME TimingAssumption ==
  /\ TravelUp \in Nat \ {0} /\ TravelDown \in Nat \ {0}
  /\ Tilt \in Nat /\ Tilt < TravelUp /\ Tilt < TravelDown
  /\ BootOpen \in BOOLEAN /\ HomeAtBoot \in BOOLEAN
  /\ PublishEvery \in Nat
  /\ Percents \subseteq 0..100

ASSUME ClockAssumption ==
  /\ HalfWord \in Nat \ {0}
  /\ Rest \in Nat /\ Rest < HalfWord
  /\ Step \in Nat /\ Step < HalfWord
  /\ \A e \in Elapsed : e \in Nat /\ Rest + e <= HalfWord

VARIABLES
  up, down,                  \* the two relay outputs
  moving, reversing,         \* moving_, reversing_
  direction, pending,        \* direction_, pendingDirection_
  everEnergised, sinceOff,
  position, tilt, downCarry, \* the estimate
  target, goal, committed,   \* target_, the value it selects, committedToEnd_
  started,
  published, sincePublish,   \* what publishState last sent, and how long ago
  late,                      \* the reading update() is due to be called with, less nowMs_
  cooled,                    \* history: ms both relays have been off, up to Rest
  early                      \* history: by how many ms lastOffMs_ precedes the release

motor == <<up, down, moving, reversing, direction, pending, everEnergised, sinceOff>>
estimate == <<position, tilt, downCarry>>
aim == <<target, goal, committed>>
report == <<published, sincePublish>>
vars == <<motor, estimate, aim, report, started, late, cooled, early>>

Directions == {"Up", "Down"}
Targets == {"None", "Position", "Tilt", "Duration"}
Unpublished == [position |-> 101, tilt |-> 101]

IsMoving == moving \/ reversing
Flipped(d) == IF d = "Up" THEN "Down" ELSE "Up"
Wrap(ms) == IF ms >= Word THEN ms - Word ELSE ms
Least(a, b) == IF a <= b THEN a ELSE b

ScaleToPercent(value, total) ==
  IF total = 0 THEN 0 ELSE (value * 100 + total \div 2) \div total
PercentToMs(percent, total) == (total * percent) \div 100

(* static_cast<int32_t>(elapsed) >= rest: elapsed in the upper half is negative. *)
Rested(elapsed) == elapsed < HalfWord /\ elapsed >= Rest

------------------------------------------------------------------------------
(* History, of a step at one instant, behind ms after nowMs_: a release then  *)
(* is dated that much early (releaseRelays).                                 *)
Record(behind) ==
  /\ cooled' = IF up \/ down \/ up' \/ down' THEN 0 ELSE cooled
  /\ early' = IF up' \/ down' THEN 0 ELSE IF up \/ down THEN behind ELSE early

PublishState ==
  /\ published' = [position |-> ScaleToPercent(position', TravelUp),
                   tilt |-> ScaleToPercent(tilt', Tilt)]
  /\ sincePublish' = 0

PublishIfDue(e) ==
  IF Wrap(sincePublish + e) >= PublishEvery
  THEN PublishState
  ELSE published' = published /\ sincePublish' = Wrap(sincePublish + e)

Energize(d) ==
  /\ up' = (d = "Up") /\ down' = (d = "Down")
  /\ direction' = d
  /\ moving' = TRUE /\ reversing' = FALSE
  /\ everEnergised' = TRUE
  /\ sinceOff' = 0

(* Mutant: the live winding is left on while the reversal waits. *)
RequestMoveLeavesRelay(d, off) ==
  IF moving /\ direction = d
  THEN UNCHANGED motor
  ELSE LET restedFor == IF moving THEN 0 ELSE off IN
       /\ pending' = d
       /\ IF ~everEnergised \/ Rested(restedFor)
          THEN Energize(d)
          ELSE /\ moving' = FALSE /\ reversing' = TRUE
               /\ sinceOff' = restedFor
               /\ UNCHANGED <<up, down, direction, everEnergised>>

(* Mutant: only a reversal of a running motor rests; a stop in between evades it. *)
RequestMoveRestsOnReversal(d, off) ==
  IF moving /\ direction = d
  THEN UNCHANGED motor
  ELSE /\ pending' = d
       /\ IF ~moving \/ Rest = 0
          THEN Energize(d)
          ELSE /\ up' = FALSE /\ down' = FALSE
               /\ moving' = FALSE /\ reversing' = TRUE
               /\ sinceOff' = 0
               /\ UNCHANGED <<direction, everEnergised>>

(* off: how long ago the windings dropped out, at the nowMs_ of the caller. *)
RequestMove(d, off) ==
  IF moving /\ direction = d
  THEN UNCHANGED motor
  ELSE LET restedFor == IF moving THEN 0 ELSE off IN
       /\ pending' = d
       /\ IF ~everEnergised \/ Rested(restedFor)
          THEN Energize(d)
          ELSE /\ up' = (up /\ ~moving) /\ down' = (down /\ ~moving)
               /\ moving' = FALSE /\ reversing' = TRUE
               /\ sinceOff' = restedFor
               /\ UNCHANGED <<direction, everEnergised>>

(* Mutant: stop() that publishes only when the next report is due anyway. *)
StopAtUnforced(p, t) ==
  /\ up' = FALSE /\ down' = FALSE
  /\ moving' = FALSE /\ reversing' = FALSE
  /\ sinceOff' = 0
  /\ target' = "None" /\ goal' = 0 /\ committed' = FALSE
  /\ position' = p
  /\ tilt' = IF p >= TravelUp THEN 0 ELSE t
  /\ direction' = IF p >= TravelUp THEN "Down" ELSE IF p = 0 THEN "Up" ELSE direction
  /\ PublishIfDue(0)
  /\ UNCHANGED <<pending, everEnergised>>

(* stop() with the estimate at p and t: release, forget the target, and at a *)
(* limit pack the slats away and aim back.                                   *)
StopAt(p, t) ==
  /\ up' = FALSE /\ down' = FALSE
  /\ moving' = FALSE /\ reversing' = FALSE
  /\ sinceOff' = 0
  /\ target' = "None" /\ goal' = 0 /\ committed' = FALSE
  /\ position' = p
  /\ tilt' = IF p >= TravelUp THEN 0 ELSE t
  /\ direction' = IF p >= TravelUp THEN "Down" ELSE IF p = 0 THEN "Up" ELSE direction
  /\ PublishState
  /\ UNCHANGED <<pending, everEnergised>>

(* Mutant: the division without the carried remainder. *)
DownTravelTruncated(ms) ==
  [scale |-> (ms * TravelUp) \div TravelDown, carry |-> downCarry]

(* downTravelToScale: real ms of descent on the up scale, with the remainder. *)
DownTravel(ms) ==
  IF ms = 0 \/ TravelDown = TravelUp
  THEN [scale |-> ms, carry |-> downCarry]
  ELSE LET scaled == ms * TravelUp + downCarry IN
       [scale |-> scaled \div TravelDown, carry |-> scaled % TravelDown]

(* Mutant: the climb is not clamped at the top. *)
IntegratedUnclamped(e) ==
  IF direction = "Up"
  THEN LET turn == Least(e, Tilt - tilt) IN
       [position |-> position + (e - turn), tilt |-> tilt + turn, carry |-> downCarry]
  ELSE LET turn == Least(e, tilt)
           fall == DownTravel(e - turn) IN
       [position |-> position - Least(fall.scale, position),
        tilt |-> tilt - turn, carry |-> fall.carry]

(* integrate: the slats turn first, what is left of e moves the height. *)
Integrated(e) ==
  IF direction = "Up"
  THEN LET turn == Least(e, Tilt - tilt) IN
       [position |-> Least(position + (e - turn), TravelUp),
        tilt |-> tilt + turn, carry |-> downCarry]
  ELSE LET turn == Least(e, tilt)
           fall == DownTravel(e - turn) IN
       [position |-> position - Least(fall.scale, position),
        tilt |-> tilt - turn, carry |-> fall.carry]

(* Mutant: the height alone makes the limit. *)
AtLimitOfHeight(p, t) == IF direction = "Up" THEN p >= TravelUp ELSE p = 0

AtLimit(p, t) ==
  IF direction = "Up" THEN p >= TravelUp /\ t >= Tilt ELSE p = 0 /\ t = 0

(* goal as it stands e ms later: only a Duration runs with the clock. *)
GoalAfter(e) == IF target = "Duration" THEN Wrap(goal + e) ELSE goal

TargetReached(p, t, g) ==
  \/ target = "Position" /\ (IF direction = "Up" THEN p >= g ELSE p <= g)
  \/ target = "Tilt" /\ (IF direction = "Up" THEN t >= g ELSE t <= g)
  \/ target = "Duration" /\ g < HalfWord

------------------------------------------------------------------------------
(* Mutant: a cover that will home still boots assumed open. *)
AssumeOpenToHome == BootOpen

(* After initialize(): nothing driven, the height assumed. *)
AssumeOpen == BootOpen /\ ~HomeAtBoot

Init ==
  /\ up = FALSE /\ down = FALSE
  /\ moving = FALSE /\ reversing = FALSE
  /\ direction = (IF AssumeOpen THEN "Down" ELSE "Up")
  /\ pending = "Down"
  /\ everEnergised = FALSE /\ sinceOff = 0
  /\ position = (IF AssumeOpen THEN TravelUp ELSE 0)
  /\ tilt = 0 /\ downCarry = 0
  /\ target = "None" /\ goal = 0 /\ committed = FALSE
  /\ started = FALSE
  /\ published = Unpublished /\ sincePublish = 0
  /\ late \in Elapsed
  /\ cooled = Rest /\ early = 0

(* Mutant: a command that does not take back an earlier commitment. *)
AimAtKeepsCommitment(kind, at, current, off) ==
  /\ target' = kind /\ goal' = at
  /\ RequestMove(IF at > current THEN "Up" ELSE "Down", off)
  /\ UNCHANGED committed

(* setPosition and setTilt once the requested value is known to be new. *)
AimAt(kind, at, current, off) ==
  /\ target' = kind /\ goal' = at /\ committed' = FALSE
  /\ RequestMove(IF at > current THEN "Up" ELSE "Down", off)

(* An iteration begins e ms after the one before. *)
ReadClock(e) ==
  /\ started /\ late = 0
  /\ late' = e
  /\ cooled' = IF up \/ down THEN 0 ELSE Least(cooled + e, Rest)
  /\ UNCHANGED <<motor, estimate, aim, report, started, early>>

(* update() is given the reading, e ms after nowMs_. *)
CatchUp == late' = 0 /\ Record(0)

(* The first update only anchors the clock, and starts the homing run. *)
Start(e) ==
  /\ ~started
  /\ started' = TRUE
  /\ sincePublish' = Wrap(sincePublish + e)
  /\ IF HomeAtBoot /\ PercentToMs(100, TravelUp) # position
     THEN AimAt("Position", PercentToMs(100, TravelUp), position, Wrap(sinceOff + e))
     ELSE /\ sinceOff' = IF moving THEN 0 ELSE Wrap(sinceOff + e)
          /\ goal' = GoalAfter(e)
          /\ UNCHANGED <<up, down, moving, reversing, direction, pending,
                         everEnergised, target, committed>>
  /\ UNCHANGED <<estimate, published>>
  /\ CatchUp

(* An update with the windings dead: only the clock moves... *)
Wait(e) ==
  /\ started /\ ~moving
  /\ ~(reversing /\ Rested(Wrap(sinceOff + e)))
  /\ sinceOff' = Wrap(sinceOff + e)
  /\ goal' = GoalAfter(e)
  /\ sincePublish' = Wrap(sincePublish + e)
  /\ UNCHANGED <<up, down, moving, reversing, direction, pending, everEnergised,
                 estimate, target, committed, started, published>>
  /\ CatchUp

(* ...or the motor has rested and the pending direction is driven. *)
Resume(e) ==
  /\ started /\ reversing
  /\ Rested(Wrap(sinceOff + e))
  /\ Energize(pending)
  /\ goal' = GoalAfter(e)
  /\ sincePublish' = Wrap(sincePublish + e)
  /\ UNCHANGED <<pending, estimate, target, committed, started, published>>
  /\ CatchUp

(* Mutant: only a target ends a run. *)
DoneAtTarget(e) ==
  LET now == Integrated(e) IN TargetReached(now.position, now.tilt, GoalAfter(e))

(* An update with a winding live: integrate, then stop at a limit or target. *)
Done(e) ==
  LET now == Integrated(e) IN
  \/ AtLimit(now.position, now.tilt)
  \/ TargetReached(now.position, now.tilt, GoalAfter(e))

Travel(e) ==
  /\ started /\ moving /\ ~reversing
  /\ ~Done(e)
  /\ position' = Integrated(e).position
  /\ tilt' = Integrated(e).tilt
  /\ downCarry' = Integrated(e).carry
  /\ goal' = GoalAfter(e)
  /\ PublishIfDue(e)
  /\ UNCHANGED <<motor, target, committed, started>>
  /\ CatchUp

Arrive(e) ==
  /\ started /\ moving /\ ~reversing
  /\ Done(e)
  /\ StopAt(Integrated(e).position, Integrated(e).tilt)
  /\ downCarry' = Integrated(e).carry
  /\ UNCHANGED started
  /\ CatchUp

Update ==
  /\ late \in Elapsed
  /\ Start(late) \/ Wait(late) \/ Resume(late) \/ Travel(late) \/ Arrive(late)

------------------------------------------------------------------------------
(* The operations, called between two updates: nowMs_ has not moved.  A    *)
(* switch calls them when nothing is late; commands, and the events of     *)
(* other panels that come with them, once the clock has been read.         *)

StateKept == Record(late) /\ UNCHANGED <<estimate, report, started, late>>

SetPosition(percent) ==
  /\ LET at == PercentToMs(percent, TravelUp) IN
     IF at = position
     THEN UNCHANGED <<motor, aim>>
     ELSE AimAt("Position", at, position, sinceOff)
  /\ StateKept

SetTilt(percent) ==
  /\ LET at == PercentToMs(percent, Tilt) IN
     IF Tilt = 0 \/ at = tilt
     THEN UNCHANGED <<motor, aim>>
     ELSE AimAt("Tilt", at, tilt, sinceOff)
  /\ StateKept

Stop ==
  /\ StopAt(position, tilt)
  /\ UNCHANGED <<downCarry, started, late>>
  /\ Record(late)

StepAlongDirection ==
  /\ target' = "Duration" /\ goal' = Wrap(Word - Step)
  /\ RequestMove(direction, sinceOff)
  /\ StateKept
  /\ UNCHANGED committed

(* Mutant: a reversal in motion keeps the target of the old direction. *)
ToggleKeepsTarget ==
  /\ IF IsMoving
     THEN RequestMove(Flipped(direction), sinceOff)
     ELSE /\ direction' = Flipped(direction)
          /\ UNCHANGED <<up, down, moving, reversing, pending, everEnergised, sinceOff>>
  /\ UNCHANGED aim
  /\ StateKept

ToggleDirection ==
  /\ IF IsMoving
     THEN /\ target' = "None" /\ goal' = 0 /\ committed' = FALSE
          /\ RequestMove(Flipped(direction), sinceOff)
     ELSE /\ direction' = Flipped(direction)
          /\ UNCHANGED <<up, down, moving, reversing, pending, everEnergised, sinceOff, aim>>
  /\ StateKept

(* Mutant: a hold that does not take back an earlier commitment. *)
MoveAlongKeepsCommitment ==
  /\ target' = "None" /\ goal' = 0
  /\ RequestMove(direction, sinceOff)
  /\ StateKept
  /\ UNCHANGED committed

MoveAlongDirection ==
  /\ target' = "None" /\ goal' = 0 /\ committed' = FALSE
  /\ RequestMove(direction, sinceOff)
  /\ StateKept

MoveToEnd ==
  /\ target' = "Position" /\ goal' = (IF direction = "Up" THEN TravelUp ELSE 0)
  /\ committed' = TRUE
  /\ RequestMove(direction, sinceOff)
  /\ StateKept

ReleaseHold ==
  IF committed THEN UNCHANGED vars ELSE Stop

Request ==
  \/ \E percent \in Percents : SetPosition(percent) \/ SetTilt(percent)
  \/ Stop
  \/ StepAlongDirection
  \/ ToggleDirection
  \/ MoveAlongDirection
  \/ MoveToEnd
  \/ ReleaseHold

Loop == Update \/ \E e \in Elapsed : ReadClock(e)

Next == Loop \/ Request

Spec == Init /\ [][Next]_vars

(* update() has yet to be given the reading of this iteration. *)
Due == late > 0 \/ ~started

------------------------------------------------------------------------------
(* Types, and the ranges of the estimate and of the carried remainder. *)
TypeOK ==
  /\ up \in BOOLEAN /\ down \in BOOLEAN
  /\ moving \in BOOLEAN /\ reversing \in BOOLEAN
  /\ direction \in Directions /\ pending \in Directions
  /\ everEnergised \in BOOLEAN /\ sinceOff \in 0..(Word - 1)
  /\ position \in 0..TravelUp /\ tilt \in 0..Tilt /\ downCarry \in 0..(TravelDown - 1)
  /\ target \in Targets /\ committed \in BOOLEAN
  /\ target = "None" => goal = 0
  /\ target = "Position" => goal \in 0..TravelUp
  /\ target = "Tilt" => goal \in 0..Tilt
  /\ target = "Duration" => goal \in 0..(Word - 1)
  /\ started \in BOOLEAN
  /\ published \in [position : 0..101, tilt : 0..101]
  /\ sincePublish \in 0..(Word - 1)
  /\ late \in Elapsed \cup {0} /\ cooled \in 0..Rest /\ early \in Elapsed \cup {0}

(* The relays say what the object believes: the winding of direction_ is live *)
(* exactly while moving_ is set, and none while it waits to reverse.  In      *)
(* particular up and down are never on together (cover.cpp:162-177).          *)
RelaysMatchMotion ==
  /\ up = (moving /\ direction = "Up")
  /\ down = (moving /\ direction = "Down")
  /\ ~(moving /\ reversing)

(* Where the blind is, or will be, driven to. *)
Heading == IF reversing THEN pending ELSE direction

(* However requests interleave with the reversal rest, a run with a target is  *)
(* headed towards it and has not passed it, and a cover at rest has no target  *)
(* left to pick up: otherwise the motor runs on to the far limit.              *)
TargetAhead ==
  /\ ~IsMoving => target = "None" /\ ~committed
  /\ target = "Position" => IF Heading = "Up" THEN position <= goal ELSE position >= goal
  /\ target = "Tilt" => IF Heading = "Up" THEN tilt <= goal ELSE tilt >= goal

(* Once anything was published, a cover at rest has published the estimate it  *)
(* rests at (publishIfDue(true) in stop()): the slider does not stay behind.   *)
PublishedAtRest ==
  ~IsMoving /\ published # Unpublished =>
    published = [position |-> ScaleToPercent(position, TravelUp),
                 tilt |-> ScaleToPercent(tilt, Tilt)]

(* Slats are packed whenever the cover rests at the top, however it got there: *)
(* the next descent must not spend tilt_ms on them (cover.cpp:210-218).        *)
PackedAtTop == ~IsMoving /\ position = TravelUp => tilt = 0

(* stop() leaves nothing undone, whichever way the cover came to rest. *)
RestIsInOrder == PublishedAtRest /\ PackedAtTop

(* What the code reads as the rest is longer than the real one by what the     *)
(* release was dated early, and no more: either the motor has rested, or       *)
(* sinceOff (mod 2^32) counts from no sooner than that.                        *)
RestIsKnown ==
  /\ IsMoving => everEnergised
  /\ moving => cooled = 0 /\ early = 0
  /\ ~moving => cooled = Rest \/ (everEnergised /\ sinceOff + late <= cooled + early)

(* The inductive invariant the proofs of CoverProofs rest on. *)
CoverInv ==
  /\ TypeOK
  /\ RelaysMatchMotion
  /\ RestIsKnown
  /\ TargetAhead
  /\ PackedAtTop
  /\ PublishedAtRest

(* update() ends a run with a target only once the estimate is there, and past *)
(* it by no more than this one iteration moved it: a limit of one axis never   *)
(* cuts short a run of the other (the comment on atLimit, cover.cpp:84-87).    *)
(* At the top the slats pack away whatever angle was asked for.                *)
ArrivesOnTarget ==
  [][Arrive(late) =>
       /\ target = "Position" =>
            IF direction = "Up"
            THEN goal <= position' /\ position' <= goal + late
            ELSE position' <= goal
                 /\ goal * TravelDown <= (position' + 1) * TravelDown + late * TravelUp
       /\ target = "Tilt" /\ position' # TravelUp =>
            IF direction = "Up" THEN goal <= tilt' ELSE tilt' <= goal]_vars

(* What the motor is given: one winding at a time, and only after the rest, of *)
(* which an iteration may be missing when a command released the windings      *)
(* (energize, releaseRelays, rested, requestMove).                             *)
Winding == IF up /\ down THEN "Both" ELSE IF up THEN "Up" ELSE IF down THEN "Down" ELSE "Off"
TheMotor == INSTANCE Motor WITH winding <- Winding
MotorSpec == TheMotor!Spec

(* What it is promised: the rest is "measured from the moment the relays       *)
(* actually released" (docs/config_reference.md:208, cover.cpp:153-154).       *)
PromisedMotor == INSTANCE Motor WITH winding <- Winding, early <- 0
FullRest == PromisedMotor!Spec

(* A cover nobody asks anything of any more comes to rest for good: every run, *)
(* dead-man ones included, ends at a target or a limit (cover.cpp:81-97).      *)
SettlesWhenLeftAlone ==
  <>[][Loop]_vars => <>[](~IsMoving)
==============================================================================
