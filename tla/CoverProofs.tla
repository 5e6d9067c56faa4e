----------------------------- MODULE CoverProofs -----------------------------
(***************************************************************************)
(* Proofs about Cover, for every value of its constants, and about the two *)
(* modules that put it to use: Blind, where it drives a blind it cannot    *)
(* see, and CoverSwitch, where a wall switch and MQTT work it at once.     *)
(***************************************************************************)
EXTENDS Blind, CoverSwitch, Integers, SequenceTheorems, TLAPS

------------------------------------------------------------------------------
(* Arithmetic the solver needs spelled out: division by a constant.        *)

LEMMA DivisionIsExact ==
  ASSUME NEW n \in Nat, NEW d \in Nat \ {0}
  PROVE  /\ n \div d \in Nat /\ n % d \in 0..(d - 1)
         /\ n = d * (n \div d) + (n % d)
  OBVIOUS

LEMMA ZeroPlus ==
  ASSUME NEW n \in Nat
  PROVE  0 + n = n
  OBVIOUS

(* A percentage of a total lies in its range. *)
LEMMA PercentToMsInRange ==
  ASSUME NEW percent \in 0..100, NEW total \in Nat
  PROVE  PercentToMs(percent, total) \in 0..total
<1> DEFINE q == (total * percent) \div 100
<1>1. total * percent \in Nat /\ total * percent <= total * 100
  OBVIOUS
<1>2. q \in Nat /\ 100 * q <= total * percent
  BY <1>1
<1>3. QED
  BY <1>1, <1>2 DEF PercentToMs

(* A value of a total is a percentage of it. *)
LEMMA ScaleToPercentInRange ==
  ASSUME NEW total \in Nat, NEW value \in 0..total
  PROVE  ScaleToPercent(value, total) \in 0..100
<1>1. CASE total = 0
  BY <1>1 DEF ScaleToPercent
<1>2. CASE total # 0
  <2> DEFINE n == value * 100 + total \div 2
             q == n \div total
  <2>1. n \in Nat /\ n < total * 101
    BY <1>2
  <2>2. q \in Nat /\ total * q <= n
    BY <1>2, <2>1, DivisionIsExact
  <2>3. total * q < total * 101
    BY <1>2, <2>1, <2>2
  <2>4. q < 101
    BY <1>2, <2>2, <2>3
  <2> QED
    BY <1>2, <2>2, <2>4 DEF ScaleToPercent
<1>3. QED
  BY <1>1, <1>2

------------------------------------------------------------------------------
(* The estimate after e ms of motor run: in range, and moved in the direction *)
(* driven, whatever the two travel times.                                     *)

LEMMA DownTravelType ==
  ASSUME TimingAssumption, NEW ms \in Nat, downCarry \in 0..(TravelDown - 1)
  PROVE  DownTravel(ms).scale \in Nat /\ DownTravel(ms).carry \in 0..(TravelDown - 1)
<1>1. CASE ms = 0 \/ TravelDown = TravelUp
  BY <1>1 DEF DownTravel
<1>2. CASE ~(ms = 0 \/ TravelDown = TravelUp)
  <2> DEFINE scaled == ms * TravelUp + downCarry
  <2>1. scaled \in Nat /\ TravelDown \in Nat \ {0}
    BY DEF TimingAssumption
  <2>2. scaled \div TravelDown \in Nat /\ scaled % TravelDown \in 0..(TravelDown - 1)
    BY <2>1, DivisionIsExact
  <2> QED
    BY <1>2, <2>2 DEF DownTravel
<1>3. QED
  BY <1>1, <1>2

(* Nothing is lost on the way down: what the scale does not show of the e ms   *)
(* driven is in the carried remainder.                                        *)
LEMMA DownTravelIsExact ==
  ASSUME TimingAssumption, NEW ms \in Nat, downCarry \in 0..(TravelDown - 1)
  PROVE  /\ DownTravel(ms).scale \in Nat /\ DownTravel(ms).carry \in 0..(TravelDown - 1)
         /\ DownTravel(ms).scale * TravelDown + DownTravel(ms).carry
              = ms * TravelUp + downCarry
<1>1. DownTravel(ms).scale \in Nat /\ DownTravel(ms).carry \in 0..(TravelDown - 1)
  BY DownTravelType
<1>2. CASE ms = 0
  BY <1>2 DEF DownTravel, TimingAssumption
<1>3. CASE ms # 0 /\ TravelDown = TravelUp
  BY <1>3 DEF DownTravel
<1>4. CASE ~(ms = 0 \/ TravelDown = TravelUp)
  <2> DEFINE scaled == ms * TravelUp + downCarry
  <2>1. scaled \in Nat /\ TravelDown \in Nat \ {0}
    BY DEF TimingAssumption
  <2>2. scaled = TravelDown * (scaled \div TravelDown) + (scaled % TravelDown)
    BY <2>1, DivisionIsExact
  <2>3. DownTravel(ms) = [scale |-> scaled \div TravelDown, carry |-> scaled % TravelDown]
    BY <1>4 DEF DownTravel
  <2>4. scaled \div TravelDown \in Nat
    BY <2>1, DivisionIsExact
  <2> QED
    BY <2>1, <2>2, <2>3, <2>4
<1>5. QED
  BY <1>1, <1>2, <1>3, <1>4

LEMMA IntegratedRange ==
  ASSUME TimingAssumption, TypeOK, NEW e \in Nat
  PROVE  /\ Integrated(e).position \in 0..TravelUp
         /\ Integrated(e).tilt \in 0..Tilt
         /\ Integrated(e).carry \in 0..(TravelDown - 1)
         /\ direction = "Up" => Integrated(e).position >= position /\ Integrated(e).tilt >= tilt
         /\ direction # "Up" => Integrated(e).position <= position /\ Integrated(e).tilt <= tilt
<1> USE DEF TypeOK, TimingAssumption, Least
<1>1. CASE direction = "Up"
  BY <1>1 DEF Integrated
<1>2. CASE direction # "Up"
  <2> DEFINE turn == Least(e, tilt)
             fall == DownTravel(e - turn)
  <2>1. turn \in 0..tilt /\ e - turn \in Nat
    OBVIOUS
  <2>2. fall.scale \in Nat /\ fall.carry \in 0..(TravelDown - 1)
    BY <2>1, DownTravelType
  <2> HIDE DEF fall
  <2>3. /\ position - Least(fall.scale, position) \in 0..position
        /\ tilt - turn \in 0..tilt
    BY <2>1, <2>2
  <2>4. Integrated(e) = [position |-> position - Least(fall.scale, position),
                         tilt |-> tilt - turn, carry |-> fall.carry]
    BY <1>2 DEF Integrated, fall
  <2> QED
    BY <1>2, <2>2, <2>3, <2>4
<1>3. QED
  BY <1>1, <1>2

LEMMA PublishStateType ==
  ASSUME TimingAssumption, ClockAssumption,
         position' \in 0..TravelUp, tilt' \in 0..Tilt, PublishState
  PROVE  /\ published' \in [position : 0..101, tilt : 0..101]
         /\ sincePublish' \in 0..(Word - 1)
         /\ published' = [position |-> ScaleToPercent(position', TravelUp),
                          tilt |-> ScaleToPercent(tilt', Tilt)]
<1>1. ScaleToPercent(position', TravelUp) \in 0..100 /\ ScaleToPercent(tilt', Tilt) \in 0..100
  BY ScaleToPercentInRange DEF TimingAssumption
<1>2. QED
  BY <1>1 DEF PublishState, ClockAssumption, Word

LEMMA WrapType ==
  ASSUME ClockAssumption, NEW ms \in 0..(Word - 1), NEW e \in Elapsed
  PROVE  Wrap(ms + e) \in 0..(Word - 1) /\ Wrap(ms + e) <= ms + e
  BY DEF ClockAssumption, Word, Wrap

------------------------------------------------------------------------------
(* What the part of the state that is about the motor must satisfy. *)
MotorOK ==
  /\ up \in BOOLEAN /\ down \in BOOLEAN
  /\ moving \in BOOLEAN /\ reversing \in BOOLEAN
  /\ direction \in Directions /\ pending \in Directions
  /\ everEnergised \in BOOLEAN /\ sinceOff \in 0..(Word - 1)
  /\ late \in Elapsed \cup {0}
  /\ cooled \in 0..Rest /\ early \in Elapsed \cup {0}
  /\ RelaysMatchMotion
  /\ RestIsKnown

(* The step the motor sees: one of its own steps, or none. *)
MotorStep == [TheMotor!Next]_(TheMotor!vars)

LEMMA MotorOKFromInv == CoverInv => MotorOK
  BY DEF CoverInv, TypeOK, MotorOK

(* A step at one instant.  The code takes the windings to have been off for off *)
(* ms, which is no longer than a reading that is late would make it, and dates  *)
(* a release behind ms early.                                                   *)
Instant(off, behind) ==
  /\ off \in 0..(Word - 1)
  /\ behind \in Elapsed \cup {0} /\ late' \in Elapsed \cup {0}
  /\ off + late' <= sinceOff + late /\ late' <= behind
  /\ Record(behind)

(* An operation leaves the reading as late as it found it... *)
LEMMA RequestIsInstant ==
  ASSUME ClockAssumption, MotorOK, late' = late, Record(late)
  PROVE  Instant(sinceOff, late)
<1>1. sinceOff \in Nat /\ late \in Nat
  BY DEF MotorOK, ClockAssumption, Word
<1>2. QED
  BY <1>1 DEF Instant, MotorOK

(* ...and an update catches up with it. *)
LEMMA UpdateIsInstant ==
  ASSUME ClockAssumption, MotorOK, late \in Elapsed, CatchUp
  PROVE  Instant(Wrap(sinceOff + late), 0)
<1>1. Wrap(sinceOff + late) \in 0..(Word - 1) /\ Wrap(sinceOff + late) <= sinceOff + late
  BY WrapType DEF MotorOK
<1>2. late' = 0 /\ Record(0)
  BY DEF CatchUp
<1>3. QED
  BY <1>1, <1>2 DEF Instant, ClockAssumption, Word

(* Numbers of the motor's state, for the solver. *)
LEMMA MotorNumbers ==
  ASSUME ClockAssumption, MotorOK
  PROVE  /\ late \in Nat /\ early \in Nat /\ sinceOff \in Nat /\ cooled \in Nat /\ Rest \in Nat
         /\ 0 \in 0..(Word - 1) /\ 0 \in 0..Rest
  BY DEF MotorOK, ClockAssumption, Word

(* What Record writes, as moving_ says it. *)
LEMMA RecordIs ==
  ASSUME ClockAssumption, MotorOK, RelaysMatchMotion', moving' \in BOOLEAN, direction' \in Directions,
         NEW behind, Record(behind)
  PROVE  /\ moving' => cooled' = 0 /\ early' = 0
         /\ ~moving' /\ moving => cooled' = 0 /\ early' = behind
         /\ ~moving' /\ ~moving => cooled' = cooled /\ early' = early
<1>1. (up \/ down) = moving
  BY DEF MotorOK, RelaysMatchMotion, Directions
<1>2. (up' \/ down') = moving'
  BY DEF RelaysMatchMotion, Directions
<1>3. QED
  BY <1>1, <1>2 DEF Record

(* requestMove keeps the motor consistent and leaves it headed for d. *)
LEMMA RequestMoveKeeps ==
  ASSUME ClockAssumption, MotorOK,
         NEW d \in Directions, NEW off, NEW behind, Instant(off, behind),
         RequestMove(d, off)
  PROVE  MotorOK' /\ IsMoving' /\ Heading' = d
<1>0. late' \in Elapsed \cup {0} /\ behind \in Elapsed \cup {0} /\ Record(behind)
  BY DEF Instant
<1>1. CASE moving /\ direction = d
  <2>1. /\ up' = up /\ down' = down /\ moving' = moving /\ reversing' = reversing
        /\ direction' = direction /\ pending' = pending /\ everEnergised' = everEnergised
        /\ sinceOff' = sinceOff
    BY <1>1 DEF RequestMove, motor
  <2>2. RelaysMatchMotion'
    BY <2>1 DEF MotorOK, RelaysMatchMotion
  <2>3. cooled' = 0 /\ early' = 0
    BY <1>0, <1>1, <2>1, <2>2, RecordIs DEF MotorOK
  <2>4. RestIsKnown'
    BY <1>1, <2>1, <2>3 DEF MotorOK, RestIsKnown, IsMoving
  <2>5. MotorOK'
    BY <1>0, <2>1, <2>2, <2>3, <2>4, MotorNumbers DEF MotorOK
  <2> QED
    BY <1>1, <2>1, <2>5 DEF IsMoving, Heading, MotorOK, RelaysMatchMotion
<1> DEFINE restedFor == IF moving THEN 0 ELSE off
<1>2. CASE ~(moving /\ direction = d) /\ (~everEnergised \/ Rested(restedFor))
  <2>1. Energize(d) /\ pending' = d
    BY <1>2 DEF RequestMove
  <2>3. /\ moving' = TRUE /\ reversing' = FALSE /\ everEnergised' = TRUE
        /\ direction' = d /\ pending' = d /\ sinceOff' = 0
    BY <2>1 DEF Energize
  <2>4. up' \in BOOLEAN /\ down' \in BOOLEAN /\ RelaysMatchMotion'
    <3>1. CASE d = "Up"
      BY <2>1, <3>1 DEF Energize, RelaysMatchMotion
    <3>2. CASE d = "Down"
      BY <2>1, <3>2 DEF Energize, RelaysMatchMotion
    <3> QED
      BY <3>1, <3>2 DEF Directions
  <2>5. cooled' = 0 /\ early' = 0
    BY <1>0, <2>3, <2>4, RecordIs
  <2>6. RestIsKnown'
    BY <2>3, <2>5 DEF RestIsKnown
  <2>7. IsMoving' /\ Heading' = d
    BY <2>3 DEF IsMoving, Heading
  <2> QED
    BY <1>0, <2>3, <2>4, <2>5, <2>6, <2>7, MotorNumbers DEF MotorOK
<1>3. CASE ~(moving /\ direction = d) /\ ~(~everEnergised \/ Rested(restedFor))
  <2>1. /\ up' = FALSE /\ down' = FALSE /\ moving' = FALSE /\ reversing' = TRUE
        /\ pending' = d /\ sinceOff' = restedFor
        /\ direction' = direction /\ everEnergised' = everEnergised
    BY <1>3 DEF RequestMove, MotorOK, RelaysMatchMotion
  <2>2. everEnergised /\ restedFor \in 0..(Word - 1)
    BY <1>3, MotorNumbers DEF MotorOK, Instant
  <2>3. RelaysMatchMotion'
    BY <2>1 DEF RelaysMatchMotion
  <2>4. direction' \in Directions /\ moving' \in BOOLEAN
    BY <2>1 DEF MotorOK
  <2>5. /\ cooled' \in 0..Rest /\ early' \in Elapsed \cup {0}
        /\ cooled' = Rest \/ sinceOff' + late' <= cooled' + early'
    <3>1. CASE moving
      <4>1. cooled' = 0 /\ early' = behind /\ sinceOff' = 0
        BY <1>0, <2>1, <2>3, <2>4, <3>1, RecordIs
      <4> QED
        BY <1>0, <4>1, MotorNumbers DEF Instant, ClockAssumption
    <3>2. CASE ~moving
      <4>1. cooled' = cooled /\ early' = early /\ sinceOff' = off
        BY <1>0, <2>1, <2>3, <2>4, <3>2, RecordIs
      <4>2. cooled = Rest \/ sinceOff + late <= cooled + early
        BY <3>2 DEF MotorOK, RestIsKnown
      <4>3. /\ off + late' <= sinceOff + late /\ off \in Nat /\ late' \in Nat
            /\ cooled \in 0..Rest /\ early \in Elapsed \cup {0}
        BY DEF Instant, MotorOK, ClockAssumption, Word
      <4>4. cooled = Rest \/ off + late' <= cooled + early
        BY <4>2, <4>3, MotorNumbers
      <4> QED
        BY <4>1, <4>3, <4>4
    <3> QED
      BY <3>1, <3>2 DEF MotorOK
  <2>6. RestIsKnown'
    BY <2>1, <2>2, <2>5 DEF RestIsKnown
  <2> QED
    BY <1>0, <2>1, <2>2, <2>3, <2>5, <2>6 DEF MotorOK, IsMoving, Heading
<1>4. QED
  BY <1>1, <1>2, <1>3

(* The windings as the motor sees them, from the relays' agreement with moving_. *)
LEMMA WindingIs ==
  ASSUME MotorOK
  PROVE  /\ moving => Winding = direction
         /\ ~moving => Winding = "Off"
         /\ Winding \in TheMotor!Windings
  BY DEF MotorOK, RelaysMatchMotion, Directions, Winding, TheMotor!Windings

LEMMA WindingIsNext ==
  ASSUME MotorOK'
  PROVE  /\ moving' => Winding' = direction'
         /\ ~moving' => Winding' = "Off"
         /\ Winding' \in TheMotor!Windings
  BY DEF MotorOK, RelaysMatchMotion, Directions, Winding, TheMotor!Windings

(* A winding going live is a step of the motor... *)
LEMMA EnergiseIsMotorStep ==
  ASSUME ClockAssumption, MotorOK, MotorOK', moving',
         moving => direction # direction' /\ Rest = 0,
         ~moving => cooled + early >= Rest
  PROVE  MotorStep
<1>1. Winding' \in {"Up", "Down"} /\ Winding # Winding'
  BY WindingIs, WindingIsNext DEF MotorOK, Directions
<1>2. IF Winding = "Off" THEN cooled + early >= Rest ELSE Rest = 0
  BY WindingIs DEF MotorOK, Directions
<1>3. cooled' = 0 /\ early' = 0
  BY DEF MotorOK, RestIsKnown
<1>4. TheMotor!Energise(Winding')
  BY <1>1, <1>2, <1>3 DEF TheMotor!Energise
<1>5. QED
  BY <1>1, <1>4 DEF MotorStep, TheMotor!Next, TheMotor!Windings

(* ...as is the live winding dropping out, while nothing that leaves the windings *)
(* as they are is a step of it at all.                                            *)
LEMMA ReleaseIsMotorStep ==
  ASSUME MotorOK, MotorOK', moving, ~moving', cooled' = 0
  PROVE  MotorStep
<1>1. Winding # "Off" /\ Winding' = "Off"
  BY WindingIs, WindingIsNext DEF MotorOK, Directions
<1>2. PICK e \in Elapsed \cup {0} : e = early'
  BY DEF MotorOK
<1>3. TheMotor!Release(e)
  BY <1>1, <1>2 DEF TheMotor!Release
<1>4. QED
  BY <1>3 DEF MotorStep, TheMotor!Next

LEMMA RunningIsNoMotorStep ==
  ASSUME MotorOK, MotorOK', moving, moving', direction' = direction
  PROVE  MotorStep
<1>1. Winding' = Winding
  BY WindingIs, WindingIsNext
<1>2. cooled = 0 /\ early = 0 /\ cooled' = 0 /\ early' = 0
  BY DEF MotorOK, RestIsKnown
<1>3. QED
  BY <1>1, <1>2 DEF MotorStep, TheMotor!vars

LEMMA RestingIsNoMotorStep ==
  ASSUME MotorOK, MotorOK', ~moving, ~moving', cooled' = cooled, early' = early
  PROVE  MotorStep
<1>1. Winding' = Winding
  BY WindingIs, WindingIsNext
<1>2. QED
  BY <1>1 DEF MotorStep, TheMotor!vars

(* Relays left alone, whatever the reckoning of the rest comes to. *)
LEMMA MotorUntouched ==
  ASSUME ClockAssumption, MotorOK, NEW off, NEW behind, Instant(off, behind),
         up' = up, down' = down, moving' = moving, reversing' = reversing,
         direction' \in Directions, moving => direction' = direction,
         pending' = pending, everEnergised' = everEnergised,
         sinceOff' \in 0..(Word - 1), ~moving => sinceOff' + late' <= sinceOff + late
  PROVE  MotorOK' /\ MotorStep
<1>1. late' \in Elapsed \cup {0} /\ Record(behind)
  BY DEF Instant
<1>2. RelaysMatchMotion' /\ moving' \in BOOLEAN
  BY DEF MotorOK, RelaysMatchMotion
<1>3. /\ moving => cooled' = 0 /\ early' = 0
      /\ ~moving => cooled' = cooled /\ early' = early
  BY <1>1, <1>2, RecordIs
<1>4. cooled' \in 0..Rest /\ early' \in Elapsed \cup {0}
  BY <1>3, MotorNumbers DEF MotorOK
<1>5. RestIsKnown'
  <2>1. CASE moving
    BY <1>3, <2>1 DEF MotorOK, RestIsKnown, IsMoving
  <2>2. CASE ~moving
    <3>1. cooled = Rest \/ (everEnergised /\ sinceOff + late <= cooled + early)
      BY <2>2 DEF MotorOK, RestIsKnown
    <3>2. sinceOff' + late' <= sinceOff + late /\ sinceOff' \in Nat /\ late' \in Nat
      BY <1>1, <2>2 DEF ClockAssumption, Word
    <3>3. cooled = Rest \/ (everEnergised /\ sinceOff' + late' <= cooled + early)
      BY <3>1, <3>2, MotorNumbers
    <3> QED
      BY <1>3, <2>2, <3>3 DEF MotorOK, RestIsKnown, IsMoving
  <2> QED
    BY <2>1, <2>2
<1>6. MotorOK'
  BY <1>1, <1>2, <1>4, <1>5 DEF MotorOK
<1>7. CASE moving
  BY <1>6, <1>7, RunningIsNoMotorStep
<1>8. CASE ~moving
  BY <1>3, <1>6, <1>8, RestingIsNoMotorStep
<1>9. QED
  BY <1>6, <1>7, <1>8

(* A run that goes on keeps its relays, and there is no rest to reckon. *)
LEMMA MotorRunsOn ==
  ASSUME ClockAssumption, MotorOK, NEW off, NEW behind, Instant(off, behind),
         UNCHANGED motor, moving
  PROVE  MotorOK' /\ MotorStep
<1>1. /\ up' = up /\ down' = down /\ moving' = moving /\ reversing' = reversing
      /\ direction' = direction /\ pending' = pending /\ everEnergised' = everEnergised
      /\ sinceOff' = sinceOff
  BY DEF motor
<1>2. sinceOff' \in 0..(Word - 1) /\ direction' \in Directions
  BY <1>1 DEF MotorOK
<1>3. QED
  BY <1>1, <1>2, MotorUntouched

(* What the code takes for a rest is one, but for what the release was dated early. *)
LEMMA RestedIsRest ==
  ASSUME ClockAssumption, MotorOK, NEW off, NEW behind, Instant(off, behind),
         ~moving, ~everEnergised \/ Rested(off)
  PROVE  cooled + early >= Rest
<1>1. cooled = Rest \/ (everEnergised /\ sinceOff + late <= cooled + early)
  BY DEF MotorOK, RestIsKnown
<1>2. off \in Nat /\ late' \in Nat /\ off + late' <= sinceOff + late
  BY DEF Instant, ClockAssumption, Word
<1>3. CASE cooled = Rest
  BY <1>3, MotorNumbers
<1>4. CASE everEnergised /\ sinceOff + late <= cooled + early
  <2>1. off >= Rest
    BY <1>4 DEF Rested
  <2> QED
    BY <1>2, <1>4, <2>1, MotorNumbers
<1>5. QED
  BY <1>1, <1>3, <1>4

LEMMA RequestMoveIsMotorStep ==
  ASSUME ClockAssumption, MotorOK,
         NEW d \in Directions, NEW off, NEW behind, Instant(off, behind),
         RequestMove(d, off)
  PROVE  MotorStep
<1>1. MotorOK' /\ IsMoving'
  BY RequestMoveKeeps
<1>2. CASE moving /\ direction = d
  <2>1. moving' /\ direction' = direction
    BY <1>2 DEF RequestMove, motor
  <2> QED
    BY <1>1, <1>2, <2>1, RunningIsNoMotorStep
<1>3. CASE ~(moving /\ direction = d) /\ moving'
  <2>1. direction' = d /\ (~everEnergised \/ Rested(IF moving THEN 0 ELSE off))
    BY <1>3 DEF RequestMove, Energize
  <2>2. moving => Rest = 0
    BY <2>1, MotorNumbers DEF Rested, MotorOK, RestIsKnown, IsMoving
  <2>3. ~moving => cooled + early >= Rest
    BY <2>1, RestedIsRest
  <2> QED
    BY <1>1, <1>3, <2>1, <2>2, <2>3, EnergiseIsMotorStep
<1>4. CASE ~moving'
  <2>1. Record(behind) /\ RelaysMatchMotion' /\ moving' \in BOOLEAN /\ direction' \in Directions
    BY <1>1 DEF Instant, MotorOK
  <2>2. CASE moving
    <3>1. cooled' = 0
      BY <1>4, <2>1, <2>2, RecordIs
    <3> QED
      BY <1>1, <1>4, <2>2, <3>1, ReleaseIsMotorStep
  <2>3. CASE ~moving
    <3>1. cooled' = cooled /\ early' = early
      BY <1>4, <2>1, <2>3, RecordIs
    <3> QED
      BY <1>1, <1>4, <2>3, <3>1, RestingIsNoMotorStep
  <2> QED
    BY <2>2, <2>3 DEF MotorOK
<1>5. QED
  BY <1>2, <1>3, <1>4 DEF MotorOK

------------------------------------------------------------------------------
(* The rest of the invariant, in the groups the actions change together. *)
EstimateOK ==
  /\ position \in 0..TravelUp /\ tilt \in 0..Tilt /\ downCarry \in 0..(TravelDown - 1)
  /\ started \in BOOLEAN

AimOK ==
  /\ target \in Targets /\ committed \in BOOLEAN
  /\ target = "None" => goal = 0
  /\ target = "Position" => goal \in 0..TravelUp
  /\ target = "Tilt" => goal \in 0..Tilt
  /\ target = "Duration" => goal \in 0..(Word - 1)

ReportOK ==
  /\ published \in [position : 0..101, tilt : 0..101]
  /\ sincePublish \in 0..(Word - 1)

LEMMA InvParts ==
  CoverInv <=> /\ MotorOK /\ EstimateOK /\ AimOK /\ ReportOK
               /\ TargetAhead /\ PackedAtTop /\ PublishedAtRest
  BY DEF CoverInv, TypeOK, MotorOK, EstimateOK, AimOK, ReportOK

LEMMA InvPartsNext ==
  CoverInv' <=> /\ MotorOK' /\ EstimateOK' /\ AimOK' /\ ReportOK'
                /\ TargetAhead' /\ PackedAtTop' /\ PublishedAtRest'
  BY DEF CoverInv, TypeOK, MotorOK, EstimateOK, AimOK, ReportOK

(* A cover that moves promises nothing about its rest. *)
LEMMA MovingPromisesNothing ==
  IsMoving' => PackedAtTop' /\ PublishedAtRest'
  BY DEF PackedAtTop, PublishedAtRest

(* goal is ahead of the estimate for a run headed for d. *)
Ahead(d) ==
  /\ target = "Position" => IF d = "Up" THEN position <= goal ELSE position >= goal
  /\ target = "Tilt" => IF d = "Up" THEN tilt <= goal ELSE tilt >= goal

(* The operations that end in requestMove, once their new target is known to  *)
(* be of the right type and ahead.                                            *)
LEMMA RequestKeepsInv ==
  ASSUME ClockAssumption, CoverInv,
         NEW d \in Directions, RequestMove(d, sinceOff), StateKept,
         AimOK', Ahead(d)'
  PROVE  CoverInv' /\ MotorStep
<1>1. MotorOK /\ EstimateOK /\ ReportOK
  BY InvParts
<1>3. Instant(sinceOff, late)
  BY <1>1, RequestIsInstant DEF StateKept
<1>4. MotorOK' /\ IsMoving' /\ Heading' = d
  BY <1>1, <1>3, RequestMoveKeeps
<1>5. MotorStep
  BY <1>1, <1>3, RequestMoveIsMotorStep
<1>6. EstimateOK' /\ ReportOK'
  BY <1>1 DEF StateKept, estimate, report, EstimateOK, ReportOK
<1>7. TargetAhead'
  BY <1>4 DEF TargetAhead, Ahead
<1>8. QED
  BY <1>4, <1>5, <1>6, <1>7, MovingPromisesNothing, InvPartsNext

(* A request that finds nothing to do. *)
LEMMA NothingChanges ==
  ASSUME ClockAssumption, CoverInv, UNCHANGED <<motor, aim>>, StateKept
  PROVE  CoverInv' /\ MotorStep
<1>1. MotorOK /\ EstimateOK /\ AimOK /\ ReportOK
  BY InvParts
<1>2. /\ up' = up /\ down' = down /\ moving' = moving /\ reversing' = reversing
      /\ direction' = direction /\ pending' = pending /\ everEnergised' = everEnergised
      /\ sinceOff' = sinceOff /\ position' = position /\ tilt' = tilt
      /\ downCarry' = downCarry /\ target' = target /\ goal' = goal
      /\ committed' = committed /\ started' = started /\ published' = published
      /\ sincePublish' = sincePublish
  BY DEF motor, aim, StateKept, estimate, report
<1>3. Instant(sinceOff, late) /\ late' = late
  BY <1>1, RequestIsInstant DEF StateKept
<1>4. MotorOK' /\ MotorStep
  <2>1. sinceOff' \in 0..(Word - 1) /\ direction' \in Directions
    BY <1>1, <1>2 DEF MotorOK
  <2>2. sinceOff' + late' <= sinceOff + late
    BY <1>1, <1>2, <1>3, MotorNumbers
  <2> QED
    BY <1>1, <1>2, <1>3, <2>1, <2>2, MotorUntouched
<1>5. EstimateOK' /\ AimOK' /\ ReportOK'
  BY <1>1, <1>2 DEF EstimateOK, AimOK, ReportOK
<1>6. TargetAhead' /\ PackedAtTop' /\ PublishedAtRest'
  BY <1>2, InvParts DEF TargetAhead, PackedAtTop, PublishedAtRest, IsMoving, Heading
<1>7. QED
  BY <1>4, <1>5, <1>6, InvPartsNext

------------------------------------------------------------------------------
(* The operations called between two updates. *)

LEMMA SetPositionStep ==
  ASSUME TimingAssumption, ClockAssumption, CoverInv, NEW percent \in Percents, SetPosition(percent)
  PROVE  CoverInv' /\ MotorStep
<1> DEFINE at == PercentToMs(percent, TravelUp)
<1>1. at \in 0..TravelUp /\ position \in 0..TravelUp
  BY PercentToMsInRange, InvParts DEF TimingAssumption, EstimateOK
<1>2. CASE at = position
  BY <1>2, NothingChanges DEF SetPosition
<1>3. CASE at # position
  <2>0. PICK d \in Directions : d = IF at > position THEN "Up" ELSE "Down"
    BY DEF Directions
  <2>1. /\ target' = "Position" /\ goal' = at /\ committed' = FALSE
        /\ RequestMove(d, sinceOff) /\ StateKept
    BY <1>3, <2>0 DEF SetPosition, AimAt
  <2>2. position' = position
    BY <2>1 DEF StateKept, estimate
  <2>3. AimOK'
    BY <1>1, <2>1 DEF Targets, AimOK
  <2>4. Ahead(d)'
    BY <1>1, <2>0, <2>1, <2>2 DEF Ahead
  <2> QED
    BY <2>1, <2>3, <2>4, RequestKeepsInv
<1>4. QED
  BY <1>2, <1>3

LEMMA SetTiltStep ==
  ASSUME TimingAssumption, ClockAssumption, CoverInv, NEW percent \in Percents, SetTilt(percent)
  PROVE  CoverInv' /\ MotorStep
<1> DEFINE at == PercentToMs(percent, Tilt)
<1>1. at \in 0..Tilt /\ tilt \in 0..Tilt
  BY PercentToMsInRange, InvParts DEF TimingAssumption, EstimateOK
<1>2. CASE Tilt = 0 \/ at = tilt
  BY <1>2, NothingChanges DEF SetTilt
<1>3. CASE ~(Tilt = 0 \/ at = tilt)
  <2>0. PICK d \in Directions : d = IF at > tilt THEN "Up" ELSE "Down"
    BY DEF Directions
  <2>1. /\ target' = "Tilt" /\ goal' = at /\ committed' = FALSE
        /\ RequestMove(d, sinceOff) /\ StateKept
    BY <1>3, <2>0 DEF SetTilt, AimAt
  <2>2. tilt' = tilt
    BY <2>1 DEF StateKept, estimate
  <2>3. AimOK'
    BY <1>1, <2>1 DEF Targets, AimOK
  <2>4. Ahead(d)'
    BY <1>1, <2>0, <2>1, <2>2 DEF Ahead
  <2> QED
    BY <2>1, <2>3, <2>4, RequestKeepsInv
<1>4. QED
  BY <1>2, <1>3

LEMMA StepAlongDirectionStep ==
  ASSUME ClockAssumption, CoverInv, StepAlongDirection
  PROVE  CoverInv' /\ MotorStep
<1>1. AimOK
  BY InvParts
<1> PICK d \in Directions : d = direction
  BY InvParts DEF MotorOK
<1>2. Wrap(Word - Step) \in 0..(Word - 1)
  BY DEF ClockAssumption, Word, Wrap
<1>3. AimOK' /\ Ahead(d)'
  BY <1>1, <1>2 DEF StepAlongDirection, AimOK, Ahead, Targets
<1>4. QED
  BY <1>1, <1>3, RequestKeepsInv DEF StepAlongDirection, MotorStep

LEMMA MoveAlongDirectionStep ==
  ASSUME ClockAssumption, CoverInv, MoveAlongDirection
  PROVE  CoverInv' /\ MotorStep
<1> PICK d \in Directions : d = direction
  BY InvParts DEF MotorOK
<1>1. AimOK' /\ Ahead(d)'
  BY DEF MoveAlongDirection, AimOK, Ahead, Targets
<1>2. QED
  BY <1>1, RequestKeepsInv DEF MoveAlongDirection, MotorStep

LEMMA MoveToEndStep ==
  ASSUME TimingAssumption, ClockAssumption, CoverInv, MoveToEnd
  PROVE  CoverInv' /\ MotorStep
<1> PICK d \in Directions : d = direction
  BY InvParts DEF MotorOK
<1>1. position \in 0..TravelUp
  BY InvParts DEF EstimateOK
<1>2. position' = position /\ target' = "Position" /\ committed' = TRUE
  BY DEF MoveToEnd, StateKept, estimate
<1>3. goal' = IF direction = "Up" THEN TravelUp ELSE 0
  BY DEF MoveToEnd
<1>4. AimOK' /\ Ahead(d)'
  BY <1>1, <1>2, <1>3 DEF AimOK, Ahead, Targets, TimingAssumption
<1>5. QED
  BY <1>1, <1>4, RequestKeepsInv DEF MoveToEnd, MotorStep

LEMMA ToggleDirectionStep ==
  ASSUME ClockAssumption, CoverInv, ToggleDirection
  PROVE  CoverInv' /\ MotorStep
<1>1. direction \in Directions /\ Flipped(direction) \in Directions /\ MotorOK
  BY InvParts DEF MotorOK, Flipped, Directions
<1>2. CASE IsMoving
  <2>1. /\ target' = "None" /\ goal' = 0 /\ committed' = FALSE
        /\ RequestMove(Flipped(direction), sinceOff) /\ StateKept
    BY <1>2 DEF ToggleDirection
  <2> PICK d \in Directions : d = Flipped(direction)
    BY <1>1
  <2>2. AimOK' /\ Ahead(d)'
    BY <2>1 DEF AimOK, Ahead, Targets
  <2> QED
    BY <1>1, <2>1, <2>2, RequestKeepsInv DEF MotorStep
<1>3. CASE ~IsMoving
  <2>1. /\ direction' = Flipped(direction) /\ StateKept /\ UNCHANGED aim
        /\ UNCHANGED <<up, down, moving, reversing, pending, everEnergised, sinceOff>>
    BY <1>3 DEF ToggleDirection
  <2>2. Instant(sinceOff, late) /\ late' = late
    BY <1>1, <2>1, RequestIsInstant DEF StateKept
  <2>3. sinceOff' + late' <= sinceOff + late /\ sinceOff' \in 0..(Word - 1)
    BY <1>1, <2>1, <2>2, MotorNumbers DEF MotorOK
  <2>4. ~moving /\ direction' \in Directions
    BY <1>1, <1>3, <2>1 DEF IsMoving
  <2>5. MotorOK' /\ MotorStep
    BY <1>1, <2>1, <2>2, <2>3, <2>4, MotorUntouched
  <2>6. EstimateOK' /\ AimOK' /\ ReportOK' /\ PackedAtTop' /\ PublishedAtRest'
    BY <2>1, InvParts DEF StateKept, estimate, aim, report, EstimateOK, AimOK, ReportOK,
                          PackedAtTop, PublishedAtRest, IsMoving
  <2>7. TargetAhead'
    BY <1>3, <2>1, InvParts DEF TargetAhead, IsMoving, aim
  <2> QED
    BY <2>5, <2>6, <2>7, InvPartsNext
<1>4. QED
  BY <1>2, <1>3

(* stop(), from an operation or at the end of a run: whatever was live drops  *)
(* out, the target is gone and what is published is where the cover rests.    *)
LEMMA StopAtStep ==
  ASSUME TimingAssumption, ClockAssumption, CoverInv,
         NEW off, NEW behind, Instant(off, behind),
         NEW p \in 0..TravelUp, NEW t \in 0..Tilt, StopAt(p, t),
         downCarry' \in 0..(TravelDown - 1), started' = started
  PROVE  CoverInv' /\ MotorStep
<1>1. MotorOK /\ EstimateOK
  BY InvParts
<1>2. /\ up' = FALSE /\ down' = FALSE /\ moving' = FALSE /\ reversing' = FALSE
      /\ sinceOff' = 0 /\ target' = "None" /\ goal' = 0 /\ committed' = FALSE
      /\ pending' = pending /\ everEnergised' = everEnergised
      /\ position' = p /\ tilt' = IF p >= TravelUp THEN 0 ELSE t
      /\ PublishState
  BY DEF StopAt
<1>3. direction' \in Directions
  BY <1>1 DEF StopAt, MotorOK, Directions
<1>4. position' \in 0..TravelUp /\ tilt' \in 0..Tilt
  BY <1>2 DEF TimingAssumption
<1>5. RelaysMatchMotion' /\ moving' \in BOOLEAN
  BY <1>2 DEF RelaysMatchMotion
<1>6. /\ late' \in Elapsed \cup {0} /\ behind \in Elapsed \cup {0} /\ Record(behind)
      /\ late' <= behind /\ late' \in Nat /\ behind \in Nat
      /\ off \in Nat /\ off + late' <= sinceOff + late
  BY DEF Instant, ClockAssumption, Word
<1>7. /\ cooled' \in 0..Rest /\ early' \in Elapsed \cup {0}
      /\ cooled' = Rest \/ (everEnergised /\ late' <= cooled' + early')
  <2>1. CASE moving
    <3>1. cooled' = 0 /\ early' = behind
      BY <1>1, <1>2, <1>3, <1>5, <1>6, <2>1, RecordIs
    <3>2. everEnergised
      BY <1>1, <2>1 DEF MotorOK, RestIsKnown, IsMoving
    <3> QED
      BY <1>1, <1>6, <3>1, <3>2, MotorNumbers
  <2>2. CASE ~moving
    <3>1. cooled' = cooled /\ early' = early
      BY <1>1, <1>2, <1>3, <1>5, <1>6, <2>2, RecordIs
    <3>2. cooled = Rest \/ (everEnergised /\ sinceOff + late <= cooled + early)
      BY <1>1, <2>2 DEF MotorOK, RestIsKnown
    <3>3. cooled = Rest \/ (everEnergised /\ late' <= cooled + early)
      BY <1>1, <1>6, <3>2, MotorNumbers
    <3> QED
      BY <1>1, <3>1, <3>3 DEF MotorOK
  <2> QED
    BY <1>1, <2>1, <2>2 DEF MotorOK
<1>8. MotorOK'
  <2>1. /\ up' \in BOOLEAN /\ down' \in BOOLEAN /\ moving' \in BOOLEAN /\ reversing' \in BOOLEAN
        /\ pending' \in Directions /\ everEnergised' \in BOOLEAN
    BY <1>1, <1>2 DEF MotorOK
  <2>2. sinceOff' \in 0..(Word - 1)
    BY <1>2 DEF ClockAssumption, Word
  <2>3. cooled' = Rest \/ (everEnergised' /\ sinceOff' + late' <= cooled' + early')
    <3>1. sinceOff' = 0 /\ everEnergised' = everEnergised
      BY <1>2
    <3>2. PICK n \in Nat : n = late'
      BY <1>6
    <3> QED
      BY <1>7, <3>1, <3>2, ZeroPlus
  <2>4. RestIsKnown'
    BY <1>2, <2>3 DEF RestIsKnown, IsMoving
  <2> QED
    BY <1>3, <1>5, <1>6, <1>7, <2>1, <2>2, <2>4 DEF MotorOK
<1>9. EstimateOK' /\ AimOK'
  BY <1>1, <1>2, <1>4 DEF EstimateOK, AimOK, Targets
<1>10. ReportOK' /\ PublishedAtRest'
  BY <1>2, <1>4, PublishStateType DEF ReportOK, PublishedAtRest
<1>11. TargetAhead'
  BY <1>2 DEF TargetAhead
<1>12. PackedAtTop'
  BY <1>2, <1>4 DEF PackedAtTop, TimingAssumption
<1>13. MotorStep
  <2>1. CASE moving
    <3>1. cooled' = 0
      BY <1>1, <1>2, <1>3, <1>5, <1>6, <2>1, RecordIs
    <3> QED
      BY <1>1, <1>2, <1>8, <2>1, <3>1, ReleaseIsMotorStep
  <2>2. CASE ~moving
    <3>1. cooled' = cooled /\ early' = early
      BY <1>1, <1>2, <1>3, <1>5, <1>6, <2>2, RecordIs
    <3> QED
      BY <1>1, <1>2, <1>8, <2>2, <3>1, RestingIsNoMotorStep
  <2> QED
    BY <2>1, <2>2
<1>14. QED
  BY <1>8, <1>9, <1>10, <1>11, <1>12, <1>13, InvPartsNext

LEMMA StopStep ==
  ASSUME TimingAssumption, ClockAssumption, CoverInv, Stop
  PROVE  CoverInv' /\ MotorStep
<1>1. PICK p \in 0..TravelUp, t \in 0..Tilt : p = position /\ t = tilt
  BY InvParts DEF EstimateOK
<1>2. downCarry' \in 0..(TravelDown - 1) /\ started' = started
  BY InvParts DEF EstimateOK, Stop
<1>3. StopAt(p, t) /\ Instant(sinceOff, late)
  <2>1. MotorOK /\ late' = late /\ Record(late)
    BY InvParts DEF Stop
  <2> QED
    BY <1>1, <2>1, RequestIsInstant DEF Stop
<1>4. QED
  BY <1>2, <1>3, StopAtStep

LEMMA UnchangedStep ==
  ASSUME CoverInv, UNCHANGED vars
  PROVE  CoverInv' /\ MotorStep
<1>1. /\ up' = up /\ down' = down /\ moving' = moving /\ reversing' = reversing
      /\ direction' = direction /\ pending' = pending /\ everEnergised' = everEnergised
      /\ sinceOff' = sinceOff /\ position' = position /\ tilt' = tilt
      /\ downCarry' = downCarry /\ target' = target /\ goal' = goal
      /\ committed' = committed /\ started' = started /\ published' = published
      /\ sincePublish' = sincePublish /\ late' = late /\ cooled' = cooled /\ early' = early
  BY DEF vars, motor, estimate, aim, report
<1>2. TypeOK' /\ RelaysMatchMotion' /\ RestIsKnown'
  BY <1>1 DEF CoverInv, TypeOK, RelaysMatchMotion, RestIsKnown, IsMoving
<1>3. TargetAhead' /\ PackedAtTop' /\ PublishedAtRest'
  BY <1>1 DEF CoverInv, TargetAhead, PackedAtTop, PublishedAtRest, IsMoving, Heading
<1>4. MotorStep
  BY <1>1 DEF MotorStep, TheMotor!vars, Winding
<1>5. QED
  BY <1>2, <1>3, <1>4 DEF CoverInv

------------------------------------------------------------------------------
(* The updates. *)

LEMMA GoalAfterType ==
  ASSUME ClockAssumption, AimOK, NEW e \in Elapsed
  PROVE  /\ target = "None" => GoalAfter(e) = 0
         /\ target = "Position" => GoalAfter(e) \in 0..TravelUp
         /\ target = "Tilt" => GoalAfter(e) \in 0..Tilt
         /\ target = "Duration" => GoalAfter(e) \in 0..(Word - 1)
         /\ target # "Duration" => GoalAfter(e) = goal
<1>1. CASE target = "Duration"
  BY <1>1, WrapType DEF AimOK, GoalAfter
<1>2. CASE target # "Duration"
  BY <1>2 DEF AimOK, GoalAfter
<1>3. QED
  BY <1>1, <1>2

LEMMA SincePublishType ==
  ASSUME ClockAssumption, ReportOK, NEW e \in Elapsed,
         sincePublish' = Wrap(sincePublish + e), published' = published
  PROVE  ReportOK'
  BY WrapType DEF ReportOK

(* An update that changes no relay, and catches up with the clock. *)
LEMMA ClockRunsStep ==
  ASSUME ClockAssumption, MotorOK, late \in Elapsed,
         up' = up, down' = down, moving' = moving, reversing' = reversing,
         direction' = direction, pending' = pending, everEnergised' = everEnergised,
         sinceOff' = IF moving THEN 0 ELSE Wrap(sinceOff + late), CatchUp
  PROVE  MotorOK' /\ MotorStep
<1>1. PICK off \in 0..(Word - 1) : off = Wrap(sinceOff + late)
  BY WrapType DEF MotorOK
<1>2. Instant(off, 0) /\ late' = 0
  BY <1>1, UpdateIsInstant DEF CatchUp
<1>3. sinceOff' \in 0..(Word - 1) /\ direction' \in Directions
  BY <1>1, MotorNumbers DEF MotorOK
<1>4. ~moving => sinceOff' + late' <= sinceOff + late
  BY <1>1, <1>2 DEF Instant
<1>5. QED
  BY <1>2, <1>3, <1>4, MotorUntouched

LEMMA AimRunsStep ==
  ASSUME ClockAssumption, CoverInv, NEW e \in Elapsed,
         moving' = moving, reversing' = reversing,
         direction' = direction, pending' = pending,
         position' = position, tilt' = tilt, published' = published,
         target' = target, committed' = committed, goal' = GoalAfter(e)
  PROVE  AimOK' /\ TargetAhead' /\ PackedAtTop' /\ PublishedAtRest'
<1>1. AimOK /\ TargetAhead /\ PackedAtTop /\ PublishedAtRest
  BY InvParts
<1>2. AimOK'
  BY <1>1, GoalAfterType DEF AimOK
<1>3. TargetAhead'
  BY <1>1, GoalAfterType DEF TargetAhead, IsMoving, Heading
<1>4. PackedAtTop' /\ PublishedAtRest'
  BY <1>1 DEF PackedAtTop, PublishedAtRest, IsMoving
<1>5. QED
  BY <1>2, <1>3, <1>4

LEMMA StartStep ==
  ASSUME TimingAssumption, ClockAssumption, CoverInv, NEW e \in Elapsed, e = late, Start(e)
  PROVE  CoverInv' /\ MotorStep
<1>1. MotorOK /\ EstimateOK /\ AimOK /\ ReportOK
  BY InvParts
<1>2. /\ position' = position /\ tilt' = tilt /\ downCarry' = downCarry
      /\ started' = TRUE /\ published' = published /\ CatchUp
      /\ sincePublish' = Wrap(sincePublish + e)
  BY DEF Start, estimate
<1>3. EstimateOK' /\ ReportOK'
  BY <1>1, <1>2, SincePublishType DEF EstimateOK
<1>4. Instant(Wrap(sinceOff + e), 0)
  BY <1>1, <1>2, UpdateIsInstant
<1> DEFINE top == PercentToMs(100, TravelUp)
<1>6. CASE HomeAtBoot /\ top # position
  <2>0. PICK d \in Directions : d = IF top > position THEN "Up" ELSE "Down"
    BY DEF Directions
  <2>1. PICK off \in 0..(Word - 1) : off = Wrap(sinceOff + e)
    BY <1>4 DEF Instant
  <2>2. /\ target' = "Position" /\ goal' = top /\ committed' = FALSE
        /\ RequestMove(d, off)
    BY <1>6, <2>0, <2>1 DEF Start, AimAt
  <2>3. MotorOK' /\ IsMoving' /\ Heading' = d
    BY <1>1, <1>4, <2>1, <2>2, RequestMoveKeeps
  <2>4. MotorStep
    BY <1>1, <1>4, <2>1, <2>2, RequestMoveIsMotorStep
  <2>5. top \in 0..TravelUp /\ position \in 0..TravelUp
    <3>1. 100 \in 0..100 /\ TravelUp \in Nat
      BY DEF TimingAssumption
    <3>2. top \in 0..TravelUp
      BY <3>1, PercentToMsInRange
    <3> QED
      BY <1>1, <3>2 DEF EstimateOK
  <2>6. AimOK'
    BY <2>2, <2>5 DEF AimOK, Targets
  <2>7. TargetAhead'
    BY <1>2, <2>0, <2>2, <2>3, <2>5 DEF TargetAhead
  <2> QED
    BY <1>3, <2>3, <2>4, <2>6, <2>7, MovingPromisesNothing, InvPartsNext
<1>7. CASE ~(HomeAtBoot /\ top # position)
  <2>1. /\ up' = up /\ down' = down /\ moving' = moving /\ reversing' = reversing
        /\ direction' = direction /\ pending' = pending /\ everEnergised' = everEnergised
        /\ target' = target /\ committed' = committed /\ goal' = GoalAfter(e)
        /\ sinceOff' = IF moving THEN 0 ELSE Wrap(sinceOff + e)
    BY <1>7 DEF Start
  <2>2. MotorOK' /\ MotorStep
    BY <1>1, <1>2, <2>1, ClockRunsStep
  <2>3. AimOK' /\ TargetAhead' /\ PackedAtTop' /\ PublishedAtRest'
    BY <1>1, <1>2, <2>1, AimRunsStep
  <2> QED
    BY <1>3, <2>2, <2>3, InvPartsNext
<1>8. QED
  BY <1>6, <1>7

LEMMA WaitStep ==
  ASSUME ClockAssumption, CoverInv, NEW e \in Elapsed, e = late, Wait(e)
  PROVE  CoverInv' /\ MotorStep
<1>1. MotorOK /\ EstimateOK /\ ReportOK
  BY InvParts
<1>2. /\ up' = up /\ down' = down /\ moving' = moving /\ reversing' = reversing
      /\ direction' = direction /\ pending' = pending /\ everEnergised' = everEnergised
      /\ position' = position /\ tilt' = tilt /\ downCarry' = downCarry
      /\ target' = target /\ committed' = committed /\ goal' = GoalAfter(e)
      /\ started' = started /\ published' = published
      /\ sincePublish' = Wrap(sincePublish + e) /\ CatchUp
  BY DEF Wait, estimate
<1>3. sinceOff' = IF moving THEN 0 ELSE Wrap(sinceOff + e)
  BY DEF Wait
<1>4. EstimateOK' /\ ReportOK'
  BY <1>1, <1>2, SincePublishType DEF EstimateOK
<1>5. MotorOK' /\ MotorStep
  BY <1>1, <1>2, <1>3, ClockRunsStep
<1>6. AimOK' /\ TargetAhead' /\ PackedAtTop' /\ PublishedAtRest'
  BY <1>2, AimRunsStep
<1>7. QED
  BY <1>4, <1>5, <1>6, InvPartsNext

(* The motor has rested: the direction that was waiting is driven. *)
LEMMA ResumeStep ==
  ASSUME ClockAssumption, CoverInv, NEW e \in Elapsed, e = late, Resume(e)
  PROVE  CoverInv' /\ MotorStep
<1>1. MotorOK /\ EstimateOK /\ AimOK /\ ReportOK /\ TargetAhead
  BY InvParts
<1>2. /\ pending' = pending /\ target' = target /\ committed' = committed
      /\ position' = position /\ tilt' = tilt /\ downCarry' = downCarry
      /\ started' = started /\ published' = published
      /\ goal' = GoalAfter(e) /\ sincePublish' = Wrap(sincePublish + e) /\ CatchUp
  BY DEF Resume, estimate
<1>3. /\ up' = (pending = "Up") /\ down' = (pending = "Down") /\ direction' = pending
      /\ moving' = TRUE /\ reversing' = FALSE /\ everEnergised' = TRUE /\ sinceOff' = 0
  BY DEF Resume, Energize
<1>4. ~moving /\ reversing /\ pending \in Directions
  BY <1>1 DEF Resume, MotorOK, RelaysMatchMotion
<1>5. Instant(Wrap(sinceOff + e), 0) /\ late' = 0 /\ Record(0)
  BY <1>1, <1>2, UpdateIsInstant DEF CatchUp
<1>6. cooled + early >= Rest
  BY <1>1, <1>4, <1>5, RestedIsRest DEF Resume
<1>7. RelaysMatchMotion'
  BY <1>3, <1>4 DEF RelaysMatchMotion, Directions
<1>8. cooled' = 0 /\ early' = 0
  BY <1>1, <1>3, <1>4, <1>5, <1>7, RecordIs
<1>9. MotorOK'
  <2>1. RestIsKnown'
    BY <1>3, <1>8 DEF RestIsKnown
  <2>2. sinceOff' \in 0..(Word - 1) /\ cooled' \in 0..Rest
    BY <1>1, <1>3, <1>8, MotorNumbers
  <2>3. /\ up' \in BOOLEAN /\ down' \in BOOLEAN /\ moving' \in BOOLEAN /\ reversing' \in BOOLEAN
        /\ direction' \in Directions /\ pending' \in Directions /\ everEnergised' \in BOOLEAN
        /\ late' \in Elapsed \cup {0} /\ early' \in Elapsed \cup {0}
    BY <1>2, <1>3, <1>4, <1>5, <1>8
  <2> QED
    BY <1>7, <2>1, <2>2, <2>3 DEF MotorOK
<1>11. MotorStep
  BY <1>1, <1>3, <1>4, <1>6, <1>9, EnergiseIsMotorStep
<1>12. EstimateOK' /\ ReportOK' /\ AimOK'
  BY <1>1, <1>2, SincePublishType, GoalAfterType DEF EstimateOK, AimOK
<1>13. TargetAhead'
  <2>1. Heading = pending /\ Heading' = pending /\ IsMoving'
    BY <1>3, <1>4 DEF Heading, IsMoving
  <2> QED
    BY <1>1, <1>2, <2>1, GoalAfterType DEF TargetAhead
<1>14. IsMoving'
  BY <1>3 DEF IsMoving
<1>15. QED
  BY <1>9, <1>11, <1>12, <1>13, <1>14, MovingPromisesNothing, InvPartsNext

(* A run that has not reached its target is still headed towards it. *)
LEMMA TravelStep ==
  ASSUME TimingAssumption, ClockAssumption, CoverInv, NEW e \in Elapsed, e = late, Travel(e)
  PROVE  CoverInv' /\ MotorStep
<1>1. MotorOK /\ EstimateOK /\ AimOK /\ ReportOK /\ TypeOK
  BY InvParts DEF CoverInv
<1>2. UNCHANGED motor /\ moving /\ Instant(Wrap(sinceOff + e), 0)
  BY <1>1, UpdateIsInstant DEF Travel
<1>3. e \in Nat
  BY DEF ClockAssumption
<1>4. MotorOK' /\ MotorStep
  BY <1>1, <1>2, MotorRunsOn
<1>5. /\ position' = Integrated(e).position /\ tilt' = Integrated(e).tilt
      /\ downCarry' = Integrated(e).carry /\ started' = started
      /\ target' = target /\ committed' = committed /\ goal' = GoalAfter(e)
      /\ PublishIfDue(e)
      /\ ~TargetReached(position', tilt', goal')
  BY DEF Travel, Done
<1>6. position' \in 0..TravelUp /\ tilt' \in 0..Tilt /\ downCarry' \in 0..(TravelDown - 1)
  BY <1>1, <1>3, <1>5, IntegratedRange
<1>7. EstimateOK'
  BY <1>1, <1>5, <1>6 DEF EstimateOK
<1>8. ReportOK'
  <2>1. CASE PublishState
    BY <1>6, <2>1, PublishStateType DEF ReportOK
  <2>2. CASE published' = published /\ sincePublish' = Wrap(sincePublish + e)
    BY <1>1, <2>2, SincePublishType
  <2> QED
    BY <1>5, <2>1, <2>2 DEF PublishIfDue
<1>9. AimOK'
  BY <1>1, <1>5, GoalAfterType DEF AimOK
<1>10. Heading' = direction /\ direction' = direction /\ IsMoving'
  BY <1>1, <1>2 DEF Heading, IsMoving, MotorOK, RelaysMatchMotion, motor
<1>11. TargetAhead'
  <2>1. CASE target = "Position"
    <3>1. IF direction = "Up" THEN ~(position' >= goal') ELSE ~(position' <= goal')
      BY <1>5, <2>1 DEF TargetReached
    <3>2. goal' \in 0..TravelUp /\ target' = "Position"
      BY <1>5, <1>9, <2>1 DEF AimOK
    <3>3. TravelUp \in Nat
      BY DEF TimingAssumption
    <3> QED
      BY <1>6, <1>10, <3>1, <3>2, <3>3 DEF TargetAhead
  <2>2. CASE target = "Tilt"
    <3>1. IF direction = "Up" THEN ~(tilt' >= goal') ELSE ~(tilt' <= goal')
      BY <1>5, <2>2 DEF TargetReached
    <3>2. goal' \in 0..Tilt /\ target' = "Tilt"
      BY <1>5, <1>9, <2>2 DEF AimOK
    <3>3. Tilt \in Nat
      BY DEF TimingAssumption
    <3> QED
      BY <1>6, <1>10, <3>1, <3>2, <3>3 DEF TargetAhead
  <2>3. CASE target \notin {"Position", "Tilt"}
    BY <1>5, <1>10, <2>3 DEF TargetAhead
  <2> QED
    BY <2>1, <2>2, <2>3
<1>12. QED
  BY <1>4, <1>7, <1>8, <1>9, <1>10, <1>11, MovingPromisesNothing, InvPartsNext

LEMMA ArriveStep ==
  ASSUME TimingAssumption, ClockAssumption, CoverInv, NEW e \in Elapsed, e = late, Arrive(e)
  PROVE  CoverInv' /\ MotorStep
<1>1. TypeOK /\ e \in Nat
  BY DEF CoverInv, ClockAssumption
<1>2. PICK p \in 0..TravelUp, t \in 0..Tilt :
        p = Integrated(e).position /\ t = Integrated(e).tilt
  BY <1>1, IntegratedRange
<1>3. downCarry' \in 0..(TravelDown - 1) /\ started' = started
  BY <1>1, IntegratedRange DEF Arrive
<1>4. StopAt(p, t) /\ Instant(Wrap(sinceOff + e), 0)
  BY <1>2, MotorOKFromInv, UpdateIsInstant DEF Arrive
<1>5. QED
  BY <1>3, <1>4, StopAtStep

(* An iteration begins: only the time passes, which is when the motor cools. *)
LEMMA ReadClockStep ==
  ASSUME ClockAssumption, CoverInv, NEW e \in Elapsed, ReadClock(e)
  PROVE  CoverInv' /\ MotorStep
<1>1. MotorOK /\ EstimateOK /\ AimOK /\ ReportOK
  BY InvParts
<1>2. /\ up' = up /\ down' = down /\ moving' = moving /\ reversing' = reversing
      /\ direction' = direction /\ pending' = pending /\ everEnergised' = everEnergised
      /\ sinceOff' = sinceOff /\ position' = position /\ tilt' = tilt
      /\ downCarry' = downCarry /\ target' = target /\ goal' = goal
      /\ committed' = committed /\ started' = started /\ published' = published
      /\ sincePublish' = sincePublish /\ late = 0 /\ late' = e /\ early' = early
  BY DEF ReadClock, motor, estimate, aim, report
<1>3. e \in Nat
  BY DEF ClockAssumption
<1>4. (up \/ down) = moving
  BY <1>1 DEF MotorOK, RelaysMatchMotion, Directions
<1>5. cooled' = IF moving THEN 0 ELSE Least(cooled + e, Rest)
  BY <1>4 DEF ReadClock
<1>6. cooled' \in 0..Rest
  BY <1>1, <1>3, <1>5, MotorNumbers DEF Least, MotorOK
<1>7. RestIsKnown'
  <2>1. CASE moving
    BY <1>1, <1>2, <1>5, <2>1 DEF MotorOK, RestIsKnown, IsMoving
  <2>2. CASE ~moving
    <3>1. cooled = Rest \/ (everEnergised /\ sinceOff <= cooled + early)
      BY <1>1, <1>2, <2>2, MotorNumbers DEF MotorOK, RestIsKnown
    <3>2. cooled' = Rest \/ cooled' = cooled + e
      BY <1>5, <2>2 DEF Least
    <3>3. cooled = Rest => cooled' = Rest
      BY <1>1, <1>3, <1>5, <2>2, MotorNumbers DEF Least
    <3>4. cooled' = Rest \/ (everEnergised /\ sinceOff + e <= cooled' + early)
      BY <1>1, <1>3, <3>1, <3>2, <3>3, MotorNumbers
    <3> QED
      BY <1>1, <1>2, <2>2, <3>4 DEF MotorOK, RestIsKnown, IsMoving
  <2> QED
    BY <2>1, <2>2
<1>8. MotorOK'
  BY <1>1, <1>2, <1>6, <1>7 DEF MotorOK, RelaysMatchMotion
<1>9. MotorStep
  <2>1. CASE moving
    BY <1>1, <1>2, <1>8, <2>1, RunningIsNoMotorStep
  <2>2. CASE ~moving
    <3>1. Winding = "Off" /\ Winding' = "Off"
      BY <1>1, <1>2, <1>8, <2>2, WindingIs, WindingIsNext
    <3>2. TheMotor!Cool(e)
      BY <1>2, <1>5, <2>2, <3>1 DEF TheMotor!Cool, TheMotor!AtMost, Least
    <3> QED
      BY <3>2 DEF MotorStep, TheMotor!Next
  <2> QED
    BY <2>1, <2>2
<1>10. EstimateOK' /\ AimOK' /\ ReportOK'
  BY <1>1, <1>2 DEF EstimateOK, AimOK, ReportOK
<1>11. TargetAhead' /\ PackedAtTop' /\ PublishedAtRest'
  BY <1>2, InvParts DEF TargetAhead, PackedAtTop, PublishedAtRest, IsMoving, Heading
<1>12. QED
  BY <1>8, <1>9, <1>10, <1>11, InvPartsNext

------------------------------------------------------------------------------
(* The invariant holds at power-up and every step keeps it, and every step is *)
(* one the motor allows.                                                      *)

LEMMA InitInv ==
  ASSUME TimingAssumption, ClockAssumption, Init
  PROVE  CoverInv /\ TheMotor!Init
<1>1. /\ up = FALSE /\ down = FALSE /\ moving = FALSE /\ reversing = FALSE
      /\ direction \in Directions /\ pending \in Directions /\ everEnergised = FALSE
      /\ sinceOff = 0 /\ position \in {0, TravelUp} /\ tilt = 0 /\ downCarry = 0
      /\ target = "None" /\ goal = 0 /\ committed = FALSE /\ started = FALSE
      /\ published = Unpublished /\ sincePublish = 0
      /\ late \in Elapsed /\ cooled = Rest /\ early = 0
  BY DEF Init, Directions
<1>2. EstimateOK
  <2>1. position \in 0..TravelUp /\ tilt \in 0..Tilt /\ downCarry \in 0..(TravelDown - 1)
    BY <1>1 DEF TimingAssumption
  <2>2. started \in BOOLEAN
    BY <1>1
  <2> QED
    BY <2>1, <2>2 DEF EstimateOK
<1>3. AimOK /\ TargetAhead /\ PackedAtTop /\ PublishedAtRest
  BY <1>1 DEF AimOK, Targets, TargetAhead, PackedAtTop, PublishedAtRest
<1>4. ReportOK
  BY <1>1 DEF ReportOK, Unpublished, ClockAssumption, Word
<1>5. RelaysMatchMotion /\ RestIsKnown
  BY <1>1 DEF RelaysMatchMotion, RestIsKnown, IsMoving
<1>6. sinceOff \in 0..(Word - 1) /\ cooled \in 0..Rest
  BY <1>1 DEF ClockAssumption, Word
<1>7. MotorOK
  BY <1>1, <1>5, <1>6 DEF MotorOK
<1>8. TheMotor!Init
  BY <1>1 DEF TheMotor!Init, Winding
<1>9. QED
  BY <1>2, <1>3, <1>4, <1>7, <1>8, InvParts

LEMMA NextKeepsInv ==
  ASSUME TimingAssumption, ClockAssumption, CoverInv, [Next]_vars
  PROVE  CoverInv' /\ MotorStep
<1>1. CASE Update
  <2>1. PICK e \in Elapsed : e = late
    BY <1>1 DEF Update
  <2>2. Start(e) \/ Wait(e) \/ Resume(e) \/ Travel(e) \/ Arrive(e)
    BY <1>1, <2>1 DEF Update
  <2> QED
    BY <2>1, <2>2, StartStep, WaitStep, ResumeStep, TravelStep, ArriveStep
<1>0. ASSUME NEW e \in Elapsed, ReadClock(e) PROVE CoverInv' /\ MotorStep
  BY <1>0, ReadClockStep
<1>2. ASSUME NEW percent \in Percents, SetPosition(percent) \/ SetTilt(percent)
      PROVE  CoverInv' /\ MotorStep
  BY <1>2, SetPositionStep, SetTiltStep
<1>3. CASE Stop
  BY <1>3, StopStep
<1>4. CASE StepAlongDirection
  BY <1>4, StepAlongDirectionStep
<1>5. CASE ToggleDirection
  BY <1>5, ToggleDirectionStep
<1>6. CASE MoveAlongDirection
  BY <1>6, MoveAlongDirectionStep
<1>7. CASE MoveToEnd
  BY <1>7, MoveToEndStep
<1>8. CASE ReleaseHold
  BY <1>8, StopStep, UnchangedStep DEF ReleaseHold
<1>9. CASE UNCHANGED vars
  BY <1>9, UnchangedStep
<1>10. QED
  BY <1>0, <1>1, <1>2, <1>3, <1>4, <1>5, <1>6, <1>7, <1>8, <1>9 DEF Next, Loop, Request

(* The inductive invariant holds in every reachable state, for all timings the *)
(* parser accepts and any clock width: all the safety below follows from it.   *)
(* RestIsKnown, its part about the rest, says how far lastOffMs_ is out: by    *)
(* the part of an iteration that had passed when a command released the relays.*)
THEOREM InvariantHolds == Spec => []CoverInv
<1>1. Init => CoverInv
  BY InitInv, TimingAssumption, ClockAssumption
<1>2. CoverInv /\ [Next]_vars => CoverInv'
  BY NextKeepsInv, TimingAssumption, ClockAssumption
<1>3. QED
  BY <1>1, <1>2, PTL DEF Spec

(* The estimate never leaves the travel, the remainder downTravelToScale      *)
(* carries stays below travel_down_ms, and no clock difference outgrows its   *)
(* word.                                                                      *)
THEOREM TypesHold == Spec => []TypeOK
<1>1. CoverInv => TypeOK
  BY DEF CoverInv
<1>2. QED
  BY <1>1, InvariantHolds, PTL

(* Whatever is asked, in whatever order, the relays are those of moving_ and  *)
(* direction_, so that no two windings are ever live together.                *)
THEOREM RelaysAlwaysMatch == Spec => []RelaysMatchMotion
<1>1. CoverInv => RelaysMatchMotion
  BY DEF CoverInv
<1>2. QED
  BY <1>1, InvariantHolds, PTL

(* No interleaving of requests with the reversal rest leaves a run driving    *)
(* away from its target.                                                      *)
THEOREM TargetAlwaysAhead == Spec => []TargetAhead
<1>1. CoverInv => TargetAhead
  BY DEF CoverInv
<1>2. QED
  BY <1>1, InvariantHolds, PTL

(* Coming to rest publishes, and packs the slats at the top.                  *)
THEOREM RestIsTidy == Spec => []RestIsInOrder
<1>1. CoverInv => RestIsInOrder
  BY DEF CoverInv, RestIsInOrder
<1>2. QED
  BY <1>1, InvariantHolds, PTL

(* A cover gives its motor one winding at a time, and the rest between two of  *)
(* them although the code's clock wraps, short of it by no more than the       *)
(* release was dated early: nothing at all when update() or a wall switch made *)
(* it, the iteration under way when a command did.                             *)
THEOREM CoverImplementsMotor == Spec => MotorSpec
<1>1. Init => TheMotor!Init
  BY InitInv, TimingAssumption, ClockAssumption
<1>2. CoverInv /\ [Next]_vars => [TheMotor!Next]_(TheMotor!vars)
  BY NextKeepsInv, TimingAssumption, ClockAssumption DEF MotorStep
<1>3. QED
  BY <1>1, <1>2, InvariantHolds, PTL DEF Spec, MotorSpec, TheMotor!Spec

(* Nothing is asked between a clock reading and the update it is for.          *)
SwitchesOnly == [][Request => late = 0]_vars

NothingEarly == early = 0

(* As long as only its wall switches ask anything of it, a cover gives its     *)
(* motor all of the rest the documentation promises: the dating of releases    *)
(* made by commands is the only thing it can lose any of it by.                *)
THEOREM SwitchesGiveFullRest == Spec /\ SwitchesOnly => FullRest
<1>1. Init => NothingEarly
  BY DEF Init, NothingEarly
<1>2. Init => PromisedMotor!Init
  <2>1. Init => TheMotor!Init
    BY InitInv, TimingAssumption, ClockAssumption
  <2> QED
    BY <2>1 DEF TheMotor!Init, PromisedMotor!Init
<1>3. NothingEarly /\ [Next]_vars /\ [Request => late = 0]_vars => NothingEarly'
  <2> SUFFICES ASSUME early = 0, Next, Request => late = 0, ~UNCHANGED vars
               PROVE  early' = 0
    BY DEF vars, NothingEarly
  <2>1. CASE Update
    <3>1. Record(0)
      BY <2>1 DEF Update, Start, Wait, Resume, Travel, Arrive, CatchUp
    <3> QED
      BY <3>1 DEF Record
  <2>2. CASE \E e \in Elapsed : ReadClock(e)
    BY <2>2 DEF ReadClock
  <2>3. CASE Request
    <3>1. Record(late)
      BY <2>3 DEF Request, SetPosition, SetTilt, Stop, StepAlongDirection, ToggleDirection,
         MoveAlongDirection, MoveToEnd, ReleaseHold, StateKept
    <3> QED
      BY <2>3, <3>1 DEF Record
  <2> QED
    BY <2>1, <2>2, <2>3 DEF Next, Loop
<1>4. NothingEarly /\ NothingEarly' /\ MotorStep => [PromisedMotor!Next]_(PromisedMotor!vars)
  BY DEF NothingEarly, MotorStep, TheMotor!Next, TheMotor!vars, TheMotor!Cool,
     TheMotor!Energise, TheMotor!Release, TheMotor!AtMost, TheMotor!Windings,
     PromisedMotor!Next, PromisedMotor!vars, PromisedMotor!Cool, PromisedMotor!Energise,
     PromisedMotor!Release, PromisedMotor!AtMost, PromisedMotor!Windings
<1>5. CoverInv /\ [Next]_vars => MotorStep
  BY NextKeepsInv, TimingAssumption, ClockAssumption
<1>6. CoverInv /\ NothingEarly /\ NothingEarly' /\ [Next]_vars
        => [PromisedMotor!Next]_(PromisedMotor!vars)
  BY <1>4, <1>5
<1>7. Spec /\ SwitchesOnly => []NothingEarly
  BY <1>1, <1>3, PTL DEF Spec, SwitchesOnly
<1>8. QED
  BY <1>2, <1>6, <1>7, InvariantHolds, PTL DEF Spec, FullRest, PromisedMotor!Spec
------------------------------------------------------------------------------
(* Where a run with a target ends. *)

(* The estimate moves by no more than the e ms driven: up, one of the scale   *)
(* for each; down, TravelUp for every TravelDown, and the carried part of one.*)
LEMMA IntegratedMovesNoFurther ==
  ASSUME TimingAssumption, TypeOK, NEW e \in Nat
  PROVE  /\ direction = "Up" => Integrated(e).position <= position + e
         /\ direction # "Up" =>
              position * TravelDown <= (Integrated(e).position + 1) * TravelDown + e * TravelUp
<1>1. CASE direction = "Up"
  BY <1>1 DEF Integrated, TypeOK, TimingAssumption, Least
<1>2. CASE direction # "Up"
  <2> DEFINE turn == Least(e, tilt)
             fall == DownTravel(e - turn)
             left == position - Least(fall.scale, position)
  <2>1. turn \in Nat /\ e - turn \in Nat /\ e - turn <= e /\ position \in Nat
        /\ TravelUp \in Nat /\ TravelDown \in Nat
    BY DEF TypeOK, TimingAssumption, Least
  <2>2. /\ fall.scale \in Nat /\ fall.carry \in Nat
        /\ fall.scale * TravelDown + fall.carry = (e - turn) * TravelUp + downCarry
        /\ downCarry \in 0..(TravelDown - 1)
    BY <2>1, DownTravelIsExact DEF TypeOK
  <2>3. Integrated(e).position = left
    BY <1>2 DEF Integrated
  <2> HIDE DEF fall, turn
  <2>4. (e - turn) * TravelUp <= e * TravelUp
    BY <2>1
  <2>5. fall.scale * TravelDown <= e * TravelUp + TravelDown
    BY <2>1, <2>2, <2>4
  <2>6. left \in Nat /\ position <= left + fall.scale
    BY <2>1, <2>2 DEF Least
  <2> HIDE DEF left
  <2>7. position * TravelDown <= left * TravelDown + fall.scale * TravelDown
    <3> DEFINE scale == fall.scale
    <3>1. scale \in Nat /\ position <= left + scale
      BY <2>2, <2>6
    <3> HIDE DEF scale
    <3>2. position * TravelDown <= (left + scale) * TravelDown
      BY <2>1, <2>6, <3>1
    <3>3. (left + scale) * TravelDown = left * TravelDown + scale * TravelDown
      BY <2>1, <2>6, <3>1
    <3>4. position * TravelDown <= left * TravelDown + scale * TravelDown
      BY <3>2, <3>3
    <3> QED
      BY <3>4 DEF scale
  <2>8. (left + 1) * TravelDown = left * TravelDown + TravelDown
    BY <2>1, <2>6
  <2>9. position * TravelDown <= (left + 1) * TravelDown + e * TravelUp
    BY <2>1, <2>2, <2>5, <2>6, <2>7, <2>8
  <2> QED
    BY <1>2, <2>3, <2>9
<1>3. QED
  BY <1>1, <1>2

(* What ArrivesOnTarget says of one update. *)
LEMMA ArriveIsOnTarget ==
  ASSUME TimingAssumption, ClockAssumption, CoverInv, NEW e \in Elapsed \cup {0}, Arrive(e)
  PROVE  /\ target = "Position" =>
              IF direction = "Up"
              THEN goal <= position' /\ position' <= goal + e
              ELSE /\ position' <= goal
                   /\ goal * TravelDown <= (position' + 1) * TravelDown + e * TravelUp
         /\ target = "Tilt" /\ position' # TravelUp =>
              IF direction = "Up" THEN goal <= tilt' ELSE tilt' <= goal
<1>1. TypeOK /\ TargetAhead /\ e \in Nat
  BY DEF CoverInv, ClockAssumption
<1>2. PICK p \in 0..TravelUp, t \in 0..Tilt :
        p = Integrated(e).position /\ t = Integrated(e).tilt
  BY <1>1, IntegratedRange
<1>3. position' = p /\ tilt' = (IF p >= TravelUp THEN 0 ELSE t)
  BY <1>2 DEF Arrive, StopAt
<1>4. Heading = direction
  BY DEF Arrive, Heading
<1>5. AtLimit(p, t) \/ TargetReached(p, t, GoalAfter(e))
  BY <1>2 DEF Arrive, Done
<1>6. TravelUp \in Nat /\ TravelDown \in Nat /\ Tilt \in Nat /\ p \in Nat /\ t \in Nat
      /\ position \in Nat
  BY <1>1 DEF TimingAssumption, TypeOK
<1>7. ASSUME target = "Position"
      PROVE  IF direction = "Up"
             THEN goal <= position' /\ position' <= goal + e
             ELSE /\ position' <= goal
                  /\ goal * TravelDown <= (position' + 1) * TravelDown + e * TravelUp
  <2>1. goal \in 0..TravelUp /\ GoalAfter(e) = goal
    BY <1>1, <1>7 DEF TypeOK, GoalAfter
  <2>2. CASE direction = "Up"
    <3>1. p >= TravelUp \/ p >= goal
      BY <1>5, <1>7, <2>1, <2>2 DEF AtLimit, TargetReached
    <3>2. position <= goal
      BY <1>1, <1>4, <1>7, <2>2 DEF TargetAhead
    <3>3. p <= position + e
      BY <1>1, <1>2, <2>2, IntegratedMovesNoFurther
    <3> QED
      BY <1>1, <1>3, <1>6, <2>1, <2>2, <3>1, <3>2, <3>3
  <2>3. CASE direction # "Up"
    <3>1. p = 0 \/ p <= goal
      BY <1>5, <1>7, <2>1, <2>3 DEF AtLimit, TargetReached
    <3>2. goal <= position
      BY <1>1, <1>4, <1>7, <2>1, <2>3 DEF TargetAhead, TypeOK
    <3>3. position * TravelDown <= (p + 1) * TravelDown + e * TravelUp
      BY <1>1, <1>2, <2>3, IntegratedMovesNoFurther
    <3>4. goal * TravelDown <= position * TravelDown
      BY <1>6, <2>1, <3>2
    <3>5. goal * TravelDown <= (p + 1) * TravelDown + e * TravelUp
      BY <1>1, <1>6, <2>1, <3>3, <3>4
    <3> QED
      BY <1>3, <1>6, <2>1, <2>3, <3>1, <3>5
  <2> QED
    BY <2>2, <2>3
<1>8. ASSUME target = "Tilt", position' # TravelUp
      PROVE  IF direction = "Up" THEN goal <= tilt' ELSE tilt' <= goal
  <2>1. goal \in 0..Tilt /\ GoalAfter(e) = goal
    BY <1>1, <1>8 DEF TypeOK, GoalAfter
  <2>2. ~(p >= TravelUp) /\ tilt' = t
    BY <1>2, <1>3, <1>6, <1>8
  <2> QED
    BY <1>5, <1>6, <1>8, <2>1, <2>2 DEF AtLimit, TargetReached
<1>9. QED
  BY <1>7, <1>8

(* A run with a target ends only on it, and past it by no more than one       *)
(* iteration moves the estimate: no limit cuts it short, whatever was asked   *)
(* before and however the travel times round.                                 *)
THEOREM RunsArriveOnTarget == Spec => ArrivesOnTarget
<1>1. CoverInv /\ [Next]_vars =>
        [Arrive(late) =>
           /\ target = "Position" =>
                IF direction = "Up"
                THEN goal <= position' /\ position' <= goal + late
                ELSE position' <= goal
                     /\ goal * TravelDown <= (position' + 1) * TravelDown + late * TravelUp
           /\ target = "Tilt" /\ position' # TravelUp =>
                IF direction = "Up" THEN goal <= tilt' ELSE tilt' <= goal]_vars
  BY ArriveIsOnTarget, TimingAssumption, ClockAssumption DEF CoverInv, TypeOK
<1>2. QED
  BY <1>1, InvariantHolds, PTL DEF Spec, ArrivesOnTarget

------------------------------------------------------------------------------
(***************************************************************************)
(* The cover and the blind it drives: how far the estimate may be from the *)
(* blind, and that homing measures.                                        *)
(*                                                                         *)
(* The argument about drift is about what a run adds to the gap between    *)
(* the estimate and the blind.  Whatever a ms of run adds to the height of *)
(* one, it adds to the height or the angle of the other: weighed at the    *)
(* pace of that run, height and angle together keep their distance, until  *)
(* something is clamped at a limit, and clamping brings the two closer.    *)
(***************************************************************************)

(* How far the estimate (height x, angle t, carried c) is ahead of the blind *)
(* (height h, angle s) when an angle weighs w.                               *)
Distance(x, t, c, h, s, w) == x + t * w - c - h - s * w

Bounded(gap, slack) == -(SlatSweep + TravelDown + slack) < gap /\ gap <= SlatSweep + slack

Weights == {0, TravelDown, TravelUp}

Near(x, t, c, h, s, slack) == \A w \in Weights : Bounded(Distance(x, t, c, h, s, w), slack)

------------------------------------------------------------------------------
(* Numbers. *)

LEMMA Paces ==
  ASSUME TimingAssumption
  PROVE  /\ TravelUp \in Nat \ {0} /\ TravelDown \in Nat \ {0} /\ Tilt \in Nat
         /\ SlatSweep \in Nat /\ Top \in Nat \ {0} /\ Weights \subseteq Nat
         /\ Top = TravelUp * TravelDown
<1>1. TravelUp \in Nat \ {0} /\ TravelDown \in Nat \ {0} /\ Tilt \in Nat
  BY DEF TimingAssumption
<1>2. Pace \in Nat /\ TravelUp <= Pace /\ TravelDown <= Pace
  BY <1>1 DEF Pace
<1>3. SlatSweep \in Nat
  BY <1>1, <1>2 DEF SlatSweep
<1>4. Top \in Nat /\ Top > 0
  BY <1>1 DEF Top
<1>5. QED
  BY <1>1, <1>2, <1>3, <1>4 DEF Weights, Top

LEMMA PaceIsFaster ==
  ASSUME TimingAssumption
  PROVE  /\ Pace \in Nat /\ TravelUp <= Pace /\ TravelDown <= Pace
         /\ \A w \in Weights : w <= Pace
BY DEF TimingAssumption, Pace, Weights

LEMMA Product ==
  ASSUME NEW a \in Nat, NEW b \in Nat, NEW k \in Nat, a <= b
  PROVE  a * k \in Nat /\ b * k \in Nat /\ a * k <= b * k
OBVIOUS

LEMMA Distributes ==
  ASSUME NEW a \in Int, NEW b \in Int, NEW k \in Int
  PROVE  (a + b) * k = a * k + b * k /\ (a - b) * k = a * k - b * k
OBVIOUS

LEMMA ProductBetween ==
  ASSUME NEW a \in Int, NEW b \in Int, NEW k \in Int,
         (0 <= b /\ b <= a) \/ (a <= b /\ b <= 0)
  PROVE  /\ a * k \in Int /\ b * k \in Int
         /\ (0 <= b * k /\ b * k <= a * k) \/ (a * k <= b * k /\ b * k <= 0)
OBVIOUS

(* An angle weighs no more than a slat sweep. *)
LEMMA AngleWeighs ==
  ASSUME TimingAssumption, NEW t \in 0..Tilt, NEW w \in Weights
  PROVE  t * w \in Nat /\ t * w <= SlatSweep
<1>1. t \in Nat /\ w \in Nat /\ Pace \in Nat /\ Tilt \in Nat /\ w <= Pace /\ t <= Tilt
  BY Paces, PaceIsFaster
<1>2. t * w \in Nat /\ t * w <= Tilt * w
  BY <1>1
<1>3. Tilt * w <= Tilt * Pace
  BY <1>1
<1>4. QED
  BY <1>1, <1>2, <1>3 DEF SlatSweep

------------------------------------------------------------------------------
(* A run in the middle of the travel keeps the gap of the weight it runs at,  *)
(* and only brings the two angles closer: every other gap moves towards it.   *)
LEMMA GapsMoveBetween ==
  ASSUME TimingAssumption, NEW slack \in Nat,
         NEW g \in Int, NEW d \in Int, NEW g2 \in Int, NEW d2 \in Int, NEW v \in Weights,
         \A w \in Weights : Bounded(g + d * w, slack),
         g2 + d2 * v = g + d * v,
         (0 <= d2 /\ d2 <= d) \/ (d <= d2 /\ d2 <= 0)
  PROVE  \A w \in Weights : Bounded(g2 + d2 * w, slack)
<1> SUFFICES ASSUME NEW w \in Weights PROVE Bounded(g2 + d2 * w, slack)
  OBVIOUS
<1> DEFINE k == w - v
           kept == g + d * v
<1>1. w \in Nat /\ v \in Nat /\ SlatSweep \in Nat /\ TravelDown \in Nat
  BY Paces
<1>2. k \in Int /\ kept \in Int
  BY <1>1
<1>3. /\ d * k \in Int /\ d2 * k \in Int
      /\ (0 <= d2 * k /\ d2 * k <= d * k) \/ (d * k <= d2 * k /\ d2 * k <= 0)
  BY <1>2, ProductBetween
<1>4. g + d * w = kept + d * k /\ g2 + d2 * w = kept + d2 * k
  BY <1>1
<1>5. Bounded(kept, slack) /\ Bounded(kept + d * k, slack)
  BY <1>4
<1> HIDE DEF kept, k
<1>6. Bounded(kept + d2 * k, slack)
  BY <1>1, <1>2, <1>3, <1>5 DEF Bounded
<1>7. QED
  BY <1>4, <1>6

LEMMA NearIs ==
  ASSUME TimingAssumption, NEW slack \in Nat,
         NEW x \in Int, NEW t \in Nat, NEW c \in Nat, NEW h \in Int, NEW s \in Nat
  PROVE  Near(x, t, c, h, s, slack) <=> \A w \in Weights : Bounded((x - c - h) + (t - s) * w, slack)
<1>1. \A w \in Weights : Distance(x, t, c, h, s, w) = (x - c - h) + (t - s) * w
  BY Paces DEF Distance
<1>2. QED
  BY <1>1 DEF Near

(* Packing the slats of the estimate at the top. *)
LEMMA PackingKeepsNear ==
  ASSUME TimingAssumption, NEW slack \in Nat,
         NEW t \in 0..Tilt, NEW c \in 0..(TravelDown - 1), NEW h \in 0..Top, NEW s \in 0..Tilt,
         Near(TravelUp * TravelDown, t, c, h, s, slack)
  PROVE  Near(TravelUp * TravelDown, 0, c, h, s, slack)
<1> SUFFICES ASSUME NEW w \in Weights
             PROVE  Bounded(Distance(TravelUp * TravelDown, 0, c, h, s, w), slack)
  BY DEF Near
<1>1. w \in Nat /\ SlatSweep \in Nat /\ TravelDown \in Nat /\ Top \in Nat /\ Tilt \in Nat
      /\ TravelUp * TravelDown = Top
  BY Paces
<1>2. t * w \in Nat /\ s * w \in Nat /\ s * w <= SlatSweep /\ 0 * w = 0
  BY <1>1, AngleWeighs
<1>3. Bounded(Top + t * w - c - h - s * w, slack)
  BY <1>1 DEF Near, Distance
<1>4. Bounded(Top + 0 - c - h - s * w, slack)
  BY <1>1, <1>2, <1>3 DEF Bounded
<1>5. QED
  BY <1>1, <1>2, <1>4 DEF Distance

(* Estimate and blind at the same limit. *)
LEMMA SameLimitIsNear ==
  ASSUME TimingAssumption, NEW slack \in Nat,
         NEW t \in 0..Tilt, NEW c \in 0..(TravelDown - 1), NEW s \in 0..Tilt
  PROVE  /\ Near(TravelUp * TravelDown, t, c, Top, 0, slack)
         /\ t = s => Near(0 * TravelDown, t, c, 0, s, slack)
<1>1. SlatSweep \in Nat /\ TravelDown \in Nat /\ Top \in Nat /\ Tilt \in Nat
      /\ TravelUp * TravelDown = Top /\ 0 * TravelDown = 0
  BY Paces
<1>2. ASSUME NEW w \in Weights
      PROVE  /\ Bounded(Distance(TravelUp * TravelDown, t, c, Top, 0, w), slack)
             /\ t = s => Bounded(Distance(0 * TravelDown, t, c, 0, s, w), slack)
  <2>1. w \in Nat /\ t * w \in Nat /\ t * w <= SlatSweep /\ 0 * w = 0
    BY Paces, AngleWeighs
  <2> QED
    BY <1>1, <2>1 DEF Distance, Bounded
<1>3. QED
  BY <1>2 DEF Near

------------------------------------------------------------------------------
(* e ms of a run, the estimate's and the blind's. *)

(* The turn of slats that may still turn for r ms. *)
LEMMA TurnType ==
  ASSUME NEW e \in Nat, NEW r \in Nat
  PROVE  Least(e, r) \in Nat /\ Least(e, r) <= e /\ Least(e, r) <= r /\ e - Least(e, r) \in Nat
         /\ (Least(e, r) = e \/ Least(e, r) = r)
BY DEF Least

LEMMA ClampedAtZero ==
  ASSUME NEW h \in Nat, NEW low \in Nat
  PROVE  \/ h - Least(low, h) = h - low /\ h - low >= 0
         \/ h - Least(low, h) = 0 /\ h - low < 0 /\ low > 0
BY DEF Least

(* Up: the estimate has climbed a ms after its slats, the blind b ms. *)
LEMMA UpKeepsNear ==
  ASSUME TimingAssumption, NEW slack \in Nat, NEW e \in Nat,
         NEW p \in 0..TravelUp, NEW t \in 0..Tilt, NEW c \in 0..(TravelDown - 1),
         NEW h \in 0..Top, NEW s \in 0..Tilt,
         h = Top => s = 0,
         Near(p * TravelDown, t, c, h, s, slack),
         NEW p2 \in 0..TravelUp, NEW t2 \in 0..Tilt, NEW h2 \in 0..Top, NEW s2 \in 0..Tilt,
         p2 = Least(p + (e - Least(e, Tilt - t)), TravelUp),
         t2 = t + Least(e, Tilt - t),
         h = Top => h2 = Top /\ s2 = 0,
         h # Top => /\ h2 = Least(h + (e - Least(e, Tilt - s)) * TravelDown, Top)
                    /\ s2 = IF h2 = Top THEN 0 ELSE s + Least(e, Tilt - s)
  PROVE  Near(p2 * TravelDown, t2, c, h2, s2, slack)
<1> DEFINE a == e - Least(e, Tilt - t)
           b == e - Least(e, Tilt - s)
           far == h + b * TravelDown
           turned == s + Least(e, Tilt - s)
<1>1. /\ SlatSweep \in Nat /\ TravelDown \in Nat \ {0} /\ TravelUp \in Nat /\ Tilt \in Nat
      /\ Top \in Nat \ {0} /\ Top = TravelUp * TravelDown
  BY Paces
<1>2. /\ a \in Nat /\ b \in Nat /\ p \in Nat /\ t \in Nat /\ c \in Nat /\ h \in Nat /\ s \in Nat
      /\ turned \in 0..Tilt /\ t2 = t + (e - a) /\ turned = s + (e - b)
      /\ (a > 0 => t2 = Tilt)
  BY <1>1 DEF Least
<1>3. /\ p * TravelDown \in Nat /\ a * TravelDown \in Nat /\ b * TravelDown \in Nat
      /\ (p + a) * TravelDown = p * TravelDown + a * TravelDown
      /\ far \in Nat /\ p2 * TravelDown \in Nat /\ p2 * TravelDown <= Top
  <2>1. p2 \in Nat /\ p2 <= TravelUp
    BY <1>1
  <2>2. p2 * TravelDown <= TravelUp * TravelDown /\ p2 * TravelDown \in Nat
    BY <1>1, <2>1, Product
  <2>3. (p + a) * TravelDown = p * TravelDown + a * TravelDown
    BY <1>1, <1>2
  <2>4. p * TravelDown \in Nat /\ a * TravelDown \in Nat /\ b * TravelDown \in Nat
    BY <1>1, <1>2
  <2>5. far \in Nat
    BY <1>2, <2>4
  <2> QED
    BY <1>1, <2>2, <2>3, <2>4, <2>5
(* What neither the estimate's limit nor the blind's has clamped. *)
<1>4. Near((p + a) * TravelDown, t2, c, far, turned, slack)
  <2>1. \/ 0 <= t2 - turned /\ t2 - turned <= t - s
        \/ t - s <= t2 - turned /\ t2 - turned <= 0
    BY <1>1 DEF Least
  <2>2. Distance((p + a) * TravelDown, t2, c, far, turned, TravelDown)
          = Distance(p * TravelDown, t, c, h, s, TravelDown)
    <3>1. t2 * TravelDown = t * TravelDown + e * TravelDown - a * TravelDown
      BY <1>1, <1>2
    <3>2. turned * TravelDown = s * TravelDown + e * TravelDown - b * TravelDown
      BY <1>1, <1>2
    <3>3. t * TravelDown \in Nat /\ s * TravelDown \in Nat /\ e * TravelDown \in Nat
      BY <1>1, <1>2
    <3> HIDE DEF a, b, turned
    <3> QED
      BY <1>1, <1>2, <1>3, <3>1, <3>2, <3>3 DEF Distance
  <2>3. TravelDown \in Weights /\ (p + a) * TravelDown \in Int /\ p * TravelDown \in Int
    BY <1>3 DEF Weights
  <2>4. t2 \in Nat /\ turned \in Nat /\ far \in Int
    BY <1>2, <1>3
  <2> DEFINE x == p * TravelDown
             x2 == (p + a) * TravelDown
  <2>5. /\ x \in Int /\ x2 \in Int /\ Near(x, t, c, h, s, slack) /\ h \in Int /\ c \in Nat
        /\ t \in Nat /\ s \in Nat
        /\ Distance(x2, t2, c, far, turned, TravelDown) = Distance(x, t, c, h, s, TravelDown)
    BY <1>2, <2>2, <2>3
  <2> DEFINE g == x - c - h
             g2 == x2 - c - far
             d == t - s
             d2 == t2 - turned
  <2> HIDE DEF a, b, far, turned, x, x2
  <2>6. \A w \in Weights : Bounded(g + d * w, slack)
    BY <2>5, NearIs
  <2>7. g2 + d2 * TravelDown = g + d * TravelDown
    <3>1. Distance(x, t, c, h, s, TravelDown) = g + d * TravelDown
      BY <1>1, <2>5 DEF Distance
    <3>2. Distance(x2, t2, c, far, turned, TravelDown) = g2 + d2 * TravelDown
      BY <1>1, <2>4, <2>5 DEF Distance
    <3> QED
      BY <2>5, <3>1, <3>2
  <2>8. g \in Int /\ d \in Int /\ g2 \in Int /\ d2 \in Int
    BY <2>4, <2>5
  <2>9. (0 <= d2 /\ d2 <= d) \/ (d <= d2 /\ d2 <= 0)
    BY <2>1
  <2> HIDE DEF g, d, g2, d2
  <2>10. \A w \in Weights : Bounded(g2 + d2 * w, slack)
    BY <2>3, <2>6, <2>7, <2>8, <2>9, GapsMoveBetween
  <2>11. Near(x2, t2, c, far, turned, slack)
    BY <2>4, <2>5, <2>10, NearIs DEF g2, d2
  <2> QED
    BY <2>11 DEF x2
<1> HIDE DEF a, b, far, turned
<1>5. ASSUME h2 = Top, s2 = 0, -(SlatSweep + TravelDown + slack) < p2 * TravelDown - c - Top
      PROVE  Near(p2 * TravelDown, t2, c, h2, s2, slack)
  <2> SUFFICES ASSUME NEW w \in Weights
               PROVE  Bounded(Distance(p2 * TravelDown, t2, c, h2, s2, w), slack)
    BY DEF Near
  <2>1. w \in Nat /\ t2 * w \in Nat /\ t2 * w <= SlatSweep /\ 0 * w = 0
    BY Paces, AngleWeighs
  <2> QED
    BY <1>1, <1>2, <1>3, <1>5, <2>1 DEF Distance, Bounded
<1>6. 0 \in Weights
  BY DEF Weights
<1>7. CASE h = Top
  <2>1. Bounded(Distance(p * TravelDown, t, c, Top, 0, 0), slack)
    BY <1>6, <1>7 DEF Near
  <2>2. -(SlatSweep + TravelDown + slack) < p * TravelDown - c - Top
    BY <1>1, <1>2, <1>3, <2>1 DEF Distance, Bounded
  <2>3. p <= p2
    BY <1>1, <1>2 DEF Least, a
  <2>4. p * TravelDown <= p2 * TravelDown
    BY <1>1, <1>2, <2>3, Product
  <2> QED
    BY <1>1, <1>2, <1>3, <1>5, <1>7, <2>2, <2>4
<1>8. CASE h # Top /\ far >= Top
  <2>1. h2 = Top /\ s2 = 0
    BY <1>1, <1>3, <1>8 DEF Least, far, b
  <2>2. CASE p2 = TravelUp
    BY <1>1, <1>2, <1>5, <2>1, <2>2
  <2>3. CASE p2 # TravelUp
    <3>1. p2 = p + a
      BY <1>1, <1>2, <2>3 DEF Least, a
    <3>2. Bounded(Distance(p2 * TravelDown, t2, c, far, turned, 0), slack)
      BY <1>4, <1>6, <3>1 DEF Near
    <3>3. t2 * 0 = 0 /\ turned * 0 = 0
      BY <1>2
    <3>4. -(SlatSweep + TravelDown + slack) < p2 * TravelDown - c - far
      BY <1>1, <1>2, <1>3, <3>2, <3>3 DEF Distance, Bounded
    <3>5. -(SlatSweep + TravelDown + slack) < p2 * TravelDown - c - Top
      BY <1>1, <1>2, <1>3, <1>8, <3>4
    <3> QED
      BY <1>5, <2>1, <3>5
  <2> QED
    BY <2>2, <2>3
<1>9. CASE h # Top /\ far < Top
  <2>1. h2 = far /\ s2 = turned
    BY <1>1, <1>3, <1>9 DEF Least, far, b, turned
  <2>2. CASE p + a <= TravelUp
    <3>1. p2 = p + a
      BY <1>1, <1>2, <2>2 DEF Least, a
    <3> QED
      BY <1>4, <2>1, <3>1
  <2>3. CASE p + a > TravelUp
    <3>1. p2 = TravelUp /\ t2 = Tilt
      BY <1>1, <1>2, <2>3 DEF Least, a
    <3> SUFFICES ASSUME NEW w \in Weights
                 PROVE  Bounded(Distance(p2 * TravelDown, t2, c, h2, s2, w), slack)
      BY DEF Near
    <3>2. w \in Nat /\ t2 * w \in Nat /\ turned * w \in Nat /\ turned * w <= t2 * w
      BY <1>1, <1>2, <3>1, Paces, Product
    <3>3. Top <= (p + a) * TravelDown
      <4>1. TravelUp * TravelDown <= (p + a) * TravelDown
        BY <1>1, <1>2, <2>3, Product
      <4> QED
        BY <1>1, <4>1
    <3>4. Bounded(Distance((p + a) * TravelDown, t2, c, far, turned, w), slack)
      BY <1>4 DEF Near
    <3>5. p2 * TravelDown = Top
      BY <1>1, <3>1
    <3>6. Bounded((p + a) * TravelDown + t2 * w - c - far - turned * w, slack)
      BY <3>4 DEF Distance
    <3>7. Distance(p2 * TravelDown, t2, c, h2, s2, w) = Top + t2 * w - c - far - turned * w
      BY <2>1, <3>5 DEF Distance
    <3> DEFINE x2 == (p + a) * TravelDown
               angle == t2 * w
               turn == turned * w
    <3>8. /\ x2 \in Int /\ angle \in Nat /\ turn \in Nat /\ turn <= angle /\ Top <= x2
          /\ Bounded(x2 + angle - c - far - turn, slack)
      BY <1>1, <1>2, <1>3, <3>2, <3>3, <3>6
    <3> HIDE DEF x2, angle, turn
    <3>9. Bounded(Top + angle - c - far - turn, slack)
      BY <1>1, <1>2, <1>3, <1>9, <3>8 DEF Bounded
    <3> QED
      BY <3>7, <3>9 DEF angle, turn
  <2> QED
    BY <1>1, <1>2, <2>2, <2>3
<1>10. QED
  BY <1>1, <1>3, <1>7, <1>8, <1>9

(* Down: the estimate has descended for a ms after its slats, the blind for b. *)
LEMMA DownKeepsNear ==
  ASSUME TimingAssumption, NEW slack \in Nat, NEW e \in Nat,
         NEW p \in 0..TravelUp, NEW t \in 0..Tilt, NEW c \in 0..(TravelDown - 1),
         NEW h \in 0..Top, NEW s \in 0..Tilt,
         Near(p * TravelDown, t, c, h, s, slack),
         NEW fall \in Nat, NEW c2 \in 0..(TravelDown - 1),
         fall * TravelDown + c2 = (e - Least(e, t)) * TravelUp + c,
         NEW p2 \in 0..TravelUp, NEW t2 \in 0..Tilt, NEW h2 \in 0..Top, NEW s2 \in 0..Tilt,
         p2 = p - Least(fall, p),
         t2 = t - Least(e, t),
         h2 = h - Least((e - Least(e, s)) * TravelUp, h),
         s2 = s - Least(e, s)
  PROVE  Near(p2 * TravelDown, t2, c2, h2, s2, slack)
<1> DEFINE a == e - Least(e, t)
           b == e - Least(e, s)
           far == h - b * TravelUp
           deep == p * TravelDown - fall * TravelDown
<1>1. /\ SlatSweep \in Nat /\ TravelDown \in Nat \ {0} /\ TravelUp \in Nat /\ Tilt \in Nat
      /\ Top \in Nat \ {0} /\ Top = TravelUp * TravelDown
  BY Paces
<1>2. /\ a \in Nat /\ b \in Nat /\ p \in Nat /\ t \in Nat /\ c \in Nat /\ c2 \in Nat
      /\ h \in Nat /\ s \in Nat /\ t2 \in Nat /\ s2 \in Nat
      /\ t2 = t - (e - a) /\ s2 = s - (e - b)
      /\ (a > 0 => t2 = 0) /\ (b > 0 => s2 = 0)
  BY <1>1 DEF Least
<1>3. /\ p * TravelDown \in Nat /\ fall * TravelDown \in Nat /\ p2 * TravelDown \in Nat
      /\ a * TravelUp \in Nat /\ b * TravelUp \in Nat
      /\ fall * TravelDown + c2 = a * TravelUp + c
      /\ far \in Int /\ deep \in Int
  <2>1. a * TravelUp \in Nat /\ b * TravelUp \in Nat
    BY <1>1, <1>2
  <2>2. p * TravelDown \in Nat /\ fall * TravelDown \in Nat /\ p2 * TravelDown \in Nat
    <3>1. p \in Nat /\ p2 \in Nat /\ fall \in Nat /\ TravelDown \in Nat
      BY <1>1
    <3> QED
      BY <3>1, Product
  <2>3. far \in Int
    <3> HIDE DEF b
    <3> QED
      BY <1>2, <2>1
  <2>4. deep \in Int
    BY <2>2
  <2> QED
    BY <2>1, <2>2, <2>3, <2>4
<1>4. Near(deep, t2, c2, far, s2, slack)
  <2>1. \/ 0 <= t2 - s2 /\ t2 - s2 <= t - s
        \/ t - s <= t2 - s2 /\ t2 - s2 <= 0
    BY <1>1 DEF Least
  <2>2. Distance(deep, t2, c2, far, s2, TravelUp) = Distance(p * TravelDown, t, c, h, s, TravelUp)
    <3>1. t2 * TravelUp = t * TravelUp - e * TravelUp + a * TravelUp
      BY <1>1, <1>2
    <3>2. s2 * TravelUp = s * TravelUp - e * TravelUp + b * TravelUp
      BY <1>1, <1>2
    <3>3. t * TravelUp \in Nat /\ s * TravelUp \in Nat /\ e * TravelUp \in Nat
      BY <1>1, <1>2
    <3> DEFINE x == p * TravelDown
               y == fall * TravelDown
               sunk == a * TravelUp
               low == b * TravelUp
               run == e * TravelUp
               tt == t * TravelUp
               ss == s * TravelUp
               tt2 == t2 * TravelUp
               ss2 == s2 * TravelUp
    <3>4. /\ tt2 = tt - run + sunk /\ ss2 = ss - run + low /\ y + c2 = sunk + c
          /\ x \in Int /\ y \in Int /\ sunk \in Int /\ low \in Int /\ run \in Int
          /\ tt \in Int /\ ss \in Int
      BY <1>3, <3>1, <3>2, <3>3
    <3>5. /\ Distance(deep, t2, c2, far, s2, TravelUp) = (x - y) + tt2 - c2 - (h - low) - ss2
          /\ Distance(p * TravelDown, t, c, h, s, TravelUp) = x + tt - c - h - ss
      BY DEF Distance
    <3> HIDE DEF x, y, sunk, low, run, tt, ss, tt2, ss2, a, b, far, deep
    <3>6. (x - y) + tt2 - c2 - (h - low) - ss2 = x + tt - c - h - ss
      BY <1>2, <3>4
    <3> QED
      BY <3>5, <3>6
  <2>3. TravelUp \in Weights /\ p * TravelDown \in Int
    BY <1>3 DEF Weights
  <2> DEFINE x == p * TravelDown
  <2>4. /\ x \in Int /\ Near(x, t, c, h, s, slack) /\ h \in Int /\ s \in Nat /\ t \in Nat
        /\ Distance(deep, t2, c2, far, s2, TravelUp) = Distance(x, t, c, h, s, TravelUp)
    BY <1>2, <2>2, <2>3
  <2> DEFINE g == x - c - h
             g2 == deep - c2 - far
             d == t - s
             d2 == t2 - s2
  <2> HIDE DEF a, b, far, deep, x
  <2>5. \A w \in Weights : Bounded(g + d * w, slack)
    BY <1>2, <2>4, NearIs
  <2>6. g2 + d2 * TravelUp = g + d * TravelUp
    <3>1. Distance(x, t, c, h, s, TravelUp) = g + d * TravelUp
      BY <1>1, <1>2, <2>4 DEF Distance
    <3>2. Distance(deep, t2, c2, far, s2, TravelUp) = g2 + d2 * TravelUp
      BY <1>1, <1>2, <1>3 DEF Distance
    <3> QED
      BY <2>4, <3>1, <3>2
  <2>7. g \in Int /\ d \in Int /\ g2 \in Int /\ d2 \in Int
    BY <1>2, <1>3, <2>4
  <2>8. (0 <= d2 /\ d2 <= d) \/ (d <= d2 /\ d2 <= 0)
    BY <2>1
  <2> HIDE DEF g, d, g2, d2
  <2>9. \A w \in Weights : Bounded(g2 + d2 * w, slack)
    BY <2>3, <2>5, <2>6, <2>7, <2>8, GapsMoveBetween
  <2> QED
    BY <1>2, <1>3, <2>9, NearIs DEF g2, d2
<1> HIDE DEF a, b, far, deep
<1> SUFFICES ASSUME NEW w \in Weights
             PROVE  Bounded(Distance(p2 * TravelDown, t2, c2, h2, s2, w), slack)
  BY DEF Near
<1>5. w \in Nat /\ t2 * w \in Nat /\ t2 * w <= SlatSweep
      /\ s2 * w \in Nat /\ s2 * w <= SlatSweep /\ 0 * w = 0
  BY Paces, AngleWeighs
<1>6. Bounded(Distance(deep, t2, c2, far, s2, w), slack)
  BY <1>4 DEF Near
<1>7. (h2 = far /\ far >= 0) \/ (h2 = 0 /\ far < 0 /\ s2 = 0)
  <2>1. b * TravelUp > 0 => b > 0
    BY <1>1, <1>2
  <2>2. far = h - b * TravelUp /\ h2 = h - Least(b * TravelUp, h)
    BY DEF far, b
  <2> DEFINE low == b * TravelUp
  <2>3. low \in Nat /\ (low > 0 => s2 = 0) /\ far = h - low /\ h2 = h - Least(low, h)
    BY <1>2, <1>3, <2>1, <2>2
  <2> HIDE DEF low
  <2>4. \/ h - Least(low, h) = h - low /\ h - low >= 0
        \/ h - Least(low, h) = 0 /\ h - low < 0 /\ low > 0
    BY <1>2, <2>3, ClampedAtZero
  <2> QED
    BY <2>3, <2>4
<1>8. CASE fall <= p
  <2>1. p2 * TravelDown = deep
    <3>1. p2 = p - fall
      BY <1>2, <1>8 DEF Least
    <3>2. (p - fall) * TravelDown = p * TravelDown - fall * TravelDown
      <4>1. p \in Int /\ fall \in Int /\ TravelDown \in Int
        BY <1>1, <1>2
      <4> QED
        BY <4>1, Distributes
    <3> QED
      BY <3>1, <3>2 DEF deep
  <2>2. CASE h2 = far
    BY <1>6, <2>1, <2>2
  <2>3. CASE h2 = 0 /\ far < 0 /\ s2 = 0
    <3>1. Bounded(p2 * TravelDown + t2 * w - c2 - far - 0, slack)
      BY <1>5, <1>6, <2>1, <2>3 DEF Distance
    <3>2. Distance(p2 * TravelDown, t2, c2, h2, s2, w) = p2 * TravelDown + t2 * w - c2 - 0 - 0
      BY <1>5, <2>3 DEF Distance
    <3> DEFINE x2 == p2 * TravelDown
               angle == t2 * w
    <3>3. x2 \in Nat /\ angle \in Nat /\ Bounded(x2 + angle - c2 - far - 0, slack)
      BY <1>3, <1>5, <3>1
    <3> HIDE DEF x2, angle
    <3>4. Bounded(x2 + angle - c2 - 0 - 0, slack)
      BY <1>1, <1>2, <1>3, <2>3, <3>3 DEF Bounded
    <3> QED
      BY <3>2, <3>4 DEF x2, angle
  <2> QED
    BY <1>7, <2>2, <2>3
<1>9. CASE fall > p
  <2>1. p2 = 0 /\ p2 * TravelDown = 0
    BY <1>1, <1>2, <1>9 DEF Least
  <2>2. t2 = 0
    <3>1. TravelDown <= fall * TravelDown
      BY <1>1, <1>2, <1>9
    <3>2. a * TravelUp > 0
      BY <1>1, <1>2, <1>3, <3>1
    <3>3. a > 0
      BY <1>1, <1>2, <3>2
    <3> QED
      BY <1>2, <3>3
  <2>3. deep < 0
    <3>1. (p + 1) * TravelDown <= fall * TravelDown
      BY <1>1, <1>2, <1>9, Product
    <3>2. (p + 1) * TravelDown = p * TravelDown + TravelDown
      BY <1>1, <1>2
    <3> QED
      BY <1>1, <1>3, <3>1, <3>2 DEF deep
  <2>4. Distance(p2 * TravelDown, t2, c2, h2, s2, w) = 0 + 0 - c2 - h2 - s2 * w
    BY <1>5, <2>1, <2>2 DEF Distance
  <2> DEFINE turn == s2 * w
  <2>5. turn \in Nat /\ h2 \in Nat /\ (s2 = 0 => turn = 0) /\ turn <= SlatSweep
    BY <1>1, <1>5
  <2>6. Bounded(deep + 0 - c2 - far - turn, slack)
    BY <1>5, <1>6, <2>2 DEF Distance
  <2> HIDE DEF turn
  <2>7. CASE h2 = far /\ far >= 0
    BY <1>1, <1>2, <1>3, <2>3, <2>4, <2>5, <2>6, <2>7 DEF Bounded, turn
  <2>8. CASE h2 = 0 /\ s2 = 0
    <3>1. Bounded(0 + 0 - c2 - 0 - 0, slack)
      BY <1>1, <1>2 DEF Bounded
    <3> QED
      BY <2>4, <2>5, <2>8, <3>1 DEF turn
  <2> QED
    BY <1>7, <2>7, <2>8
<1>10. QED
  BY <1>2, <1>8, <1>9

------------------------------------------------------------------------------
(* What e ms can do to the estimate, at any weight: no more than the faster    *)
(* of the two directions would make of them.                                   *)

Within(gap, bound) == -bound <= gap /\ gap <= bound

(* The estimate (x, t, c) and the estimate (x2, t2, c2) are no further apart. *)
Apart(x, t, c, x2, t2, c2, bound) ==
  \A w \in Weights : Within((x2 + t2 * w - c2) - (x + t * w - c), bound)

LEMMA NearShifts ==
  ASSUME TimingAssumption, NEW slack \in Nat, NEW bound \in Nat,
         NEW x \in Int, NEW t \in Nat, NEW c \in Nat, NEW h \in Int, NEW s \in Nat,
         NEW x2 \in Int, NEW t2 \in Nat, NEW c2 \in Nat,
         Apart(x, t, c, x2, t2, c2, bound) \/ Apart(x2, t2, c2, x, t, c, bound),
         Near(x, t, c, h, s, slack)
  PROVE  Near(x2, t2, c2, h, s, slack + bound)
<1> SUFFICES ASSUME NEW w \in Weights
             PROVE  Bounded(Distance(x2, t2, c2, h, s, w), slack + bound)
  BY DEF Near
<1> DEFINE a == t * w
           a2 == t2 * w
           b == s * w
<1>1. a \in Nat /\ a2 \in Nat /\ b \in Nat /\ SlatSweep \in Nat /\ TravelDown \in Nat
  BY Paces
<1>2. Bounded(x + a - c - h - b, slack)
  BY DEF Near, Distance
<1>3. Within((x2 + a2 - c2) - (x + a - c), bound) \/ Within((x + a - c) - (x2 + a2 - c2), bound)
  BY DEF Apart
<1> HIDE DEF a, a2, b
<1>4. Bounded(x2 + a2 - c2 - h - b, slack + bound)
  BY <1>1, <1>2, <1>3 DEF Bounded, Within
<1>5. QED
  BY <1>4 DEF Distance, a, a2, b

LEMMA NearWidens ==
  ASSUME TimingAssumption, NEW slack \in Nat, NEW wide \in Nat, slack <= wide,
         NEW x \in Int, NEW t \in Nat, NEW c \in Nat, NEW h \in Int, NEW s \in Nat,
         Near(x, t, c, h, s, slack)
  PROVE  Near(x, t, c, h, s, wide)
<1> SUFFICES ASSUME NEW w \in Weights PROVE Bounded(Distance(x, t, c, h, s, w), wide)
  BY DEF Near
<1>1. /\ SlatSweep \in Nat /\ TravelDown \in Nat /\ Distance(x, t, c, h, s, w) \in Int
      /\ Bounded(Distance(x, t, c, h, s, w), slack)
  <2>1. t * w \in Nat /\ s * w \in Nat
    BY Paces
  <2> QED
    BY <2>1, Paces DEF Near, Distance
<1>2. QED
  BY <1>1 DEF Bounded

(* Up: the slats turn for e - a ms and the height climbs for a. *)
LEMMA UpMovesLittle ==
  ASSUME TimingAssumption, NEW e \in Nat,
         NEW p \in 0..TravelUp, NEW t \in 0..Tilt, NEW c \in 0..(TravelDown - 1),
         NEW p2 \in 0..TravelUp, NEW t2 \in 0..Tilt,
         p2 = Least(p + (e - Least(e, Tilt - t)), TravelUp),
         t2 = t + Least(e, Tilt - t)
  PROVE  Apart(p * TravelDown, t, c, p2 * TravelDown, t2, c, e * Pace)
<1> SUFFICES ASSUME NEW w \in Weights
             PROVE  Within((p2 * TravelDown + t2 * w - c) - (p * TravelDown + t * w - c), e * Pace)
  BY DEF Apart
<1>1. /\ TravelDown \in Nat /\ TravelUp \in Nat /\ Tilt \in Nat /\ Pace \in Nat /\ w \in Nat
      /\ w <= Pace /\ TravelDown <= Pace
  BY Paces, PaceIsFaster
<1>2. PICK turn \in Nat, up2 \in Nat : t2 = t + turn /\ p2 = p + up2 /\ turn + up2 <= e
  <2>1. t2 - t \in Nat /\ p2 - p \in Nat /\ (t2 - t) + (p2 - p) <= e
    BY <1>1 DEF Least
  <2> QED
    BY <1>1, <2>1
<1>3. /\ t2 * w = t * w + turn * w /\ p2 * TravelDown = p * TravelDown + up2 * TravelDown
      /\ t * w \in Nat /\ turn * w \in Nat /\ p * TravelDown \in Nat /\ up2 * TravelDown \in Nat
  BY <1>1, <1>2
<1>4. turn * w <= turn * Pace /\ up2 * TravelDown <= up2 * Pace
  BY <1>1, <1>2
<1>5. turn * Pace + up2 * Pace <= e * Pace /\ turn * Pace \in Nat /\ up2 * Pace \in Nat
      /\ e * Pace \in Nat
  <2>1. (turn + up2) * Pace <= e * Pace
    BY <1>1, <1>2, Product
  <2>2. (turn + up2) * Pace = turn * Pace + up2 * Pace
    BY <1>1, <1>2
  <2> QED
    BY <1>1, <1>2, <2>1, <2>2
<1> DEFINE x == p * TravelDown
           y == up2 * TravelDown
           a == t * w
           b == turn * w
           ep == e * Pace
<1>6. /\ x \in Nat /\ y \in Nat /\ a \in Nat /\ b \in Nat /\ ep \in Nat /\ b + y <= ep /\ c \in Nat
      /\ p2 * TravelDown = x + y /\ t2 * w = a + b
  <2>1. p2 * TravelDown = x + y /\ t2 * w = a + b
    BY <1>3
  <2>2. x \in Nat /\ y \in Nat /\ a \in Nat /\ b \in Nat /\ ep \in Nat /\ c \in Nat
    BY <1>1, <1>3, <1>5
  <2>3. b <= turn * Pace /\ y <= up2 * Pace
    BY <1>4
  <2>4. PICK tp \in Nat, rp \in Nat : tp = turn * Pace /\ rp = up2 * Pace /\ tp + rp <= ep
    BY <1>5
  <2> HIDE DEF b, y, ep
  <2>5. b + y <= ep
    BY <2>2, <2>3, <2>4
  <2> QED
    BY <2>1, <2>2, <2>5
<1> HIDE DEF x, y, a, b, ep
<1>7. Within((x + y + (a + b) - c) - (x + a - c), ep)
  BY <1>6 DEF Within
<1>8. QED
  BY <1>6, <1>7 DEF x, a, ep

(* Down: the slats turn for e - a ms and the height falls for a; a remainder    *)
(* that is dropped at the bottom is less than a ms of it.                       *)
LEMMA DownMovesLittle ==
  ASSUME TimingAssumption, NEW e \in Nat,
         NEW p \in 0..TravelUp, NEW t \in 0..Tilt, NEW c \in 0..(TravelDown - 1),
         NEW fall \in Nat, NEW c2 \in 0..(TravelDown - 1),
         fall * TravelDown + c2 = (e - Least(e, t)) * TravelUp + c,
         NEW p2 \in 0..TravelUp, NEW t2 \in 0..Tilt,
         p2 = p - Least(fall, p),
         t2 = t - Least(e, t)
  PROVE  Apart(p * TravelDown, t, c, p2 * TravelDown, t2, c2, e * Pace)
<1> SUFFICES ASSUME NEW w \in Weights
             PROVE  Within((p2 * TravelDown + t2 * w - c2) - (p * TravelDown + t * w - c), e * Pace)
  BY DEF Apart
<1>1. /\ TravelDown \in Nat \ {0} /\ TravelUp \in Nat /\ Tilt \in Nat /\ Pace \in Nat /\ w \in Nat
      /\ w <= Pace /\ TravelDown <= Pace /\ TravelUp <= Pace
  BY Paces, PaceIsFaster
<1>2. PICK turn \in Nat, run \in Nat :
        t2 = t - turn /\ turn + run = e /\ t = t2 + turn /\ run = e - Least(e, t)
  <2>1. Least(e, t) \in Nat /\ e - Least(e, t) \in Nat /\ t = t2 + Least(e, t)
    BY <1>1 DEF Least
  <2> QED
    BY <1>1, <2>1
<1>3. /\ t * w = t2 * w + turn * w /\ t2 * w \in Nat /\ turn * w \in Nat
      /\ p * TravelDown \in Nat /\ fall * TravelDown \in Nat /\ run * TravelUp \in Nat
      /\ p2 * TravelDown \in Nat
  <2>1. t2 \in Nat /\ p2 \in Nat /\ p \in Nat
    BY <1>1
  <2>2. (t2 + turn) * w = t2 * w + turn * w /\ t2 * w \in Nat /\ turn * w \in Nat
    BY <1>1, <1>2, <2>1
  <2> QED
    BY <1>1, <1>2, <2>1, <2>2
<1>4. turn * w <= turn * Pace /\ run * TravelUp <= run * Pace /\ run * TravelDown <= run * Pace
  BY <1>1, <1>2
<1>5. turn * Pace + run * Pace = e * Pace /\ turn * Pace \in Nat /\ run * Pace \in Nat
      /\ e * Pace \in Nat
  <2>1. (turn + run) * Pace = turn * Pace + run * Pace
    BY <1>1, <1>2
  <2> QED
    BY <1>1, <1>2, <2>1
<1>6. run > 0 => TravelDown <= run * Pace
  BY <1>1, <1>2
<1> DEFINE x == p * TravelDown
           x2 == p2 * TravelDown
           y == fall * TravelDown
           a == t2 * w
           b == turn * w
           low == run * TravelUp
           ep == e * Pace
<1>7. \/ x2 = x - y
      \/ x2 = 0 /\ x < y /\ run > 0
  <2>1. CASE fall <= p
    <3>1. p2 = p - fall
      BY <1>1, <2>1 DEF Least
    <3>2. p2 * TravelDown = p * TravelDown - fall * TravelDown
      BY <1>1, <3>1
    <3> QED
      BY <3>2
  <2>2. CASE fall > p
    <3>1. p2 = 0 /\ p2 * TravelDown = 0
      BY <1>1, <2>2 DEF Least
    <3>2. (p + 1) * TravelDown <= fall * TravelDown
      BY <1>1, <2>2, Product
    <3>3. (p + 1) * TravelDown = p * TravelDown + TravelDown
      BY <1>1
    <3>4. x + TravelDown <= y /\ x \in Nat
      BY <1>3, <3>2, <3>3
    <3>5. y + c2 = low + c /\ low \in Nat /\ y \in Nat
      BY <1>2, <1>3
    <3>6. run = 0 => low = 0
      BY <1>1, <1>2
    <3> HIDE DEF x, y, low
    <3>7. low > 0 /\ x < y
      BY <1>1, <3>4, <3>5
    <3>8. run > 0
      BY <1>2, <3>6, <3>7
    <3> QED
      BY <3>1, <3>7, <3>8
  <2> QED
    BY <1>1, <2>1, <2>2
<1>8. /\ x \in Nat /\ x2 \in Nat /\ y \in Nat /\ a \in Nat /\ b \in Nat /\ low \in Nat /\ ep \in Nat
      /\ b + low <= ep /\ (run > 0 => TravelDown <= ep)
      /\ y + c2 = low + c /\ t * w = a + b
      /\ c \in Nat /\ c2 \in Nat /\ c < TravelDown /\ c2 < TravelDown
  <2>1. /\ x \in Nat /\ x2 \in Nat /\ y \in Nat /\ a \in Nat /\ b \in Nat /\ low \in Nat
        /\ ep \in Nat /\ t * w = a + b
    BY <1>3, <1>5
  <2>2. y + c2 = low + c
    BY <1>2
  <2>3. c \in Nat /\ c2 \in Nat /\ c < TravelDown /\ c2 < TravelDown
    BY <1>1
  <2>4. PICK tp \in Nat, rp \in Nat :
          tp = turn * Pace /\ rp = run * Pace /\ tp + rp = ep /\ b <= tp /\ low <= rp
    BY <1>4, <1>5
  <2>5. run > 0 => TravelDown <= rp
    BY <1>6, <2>4
  <2> HIDE DEF x, x2, y, a, b, low, ep
  <2>6. b + low <= ep /\ (run > 0 => TravelDown <= ep)
    BY <1>1, <2>1, <2>4, <2>5
  <2> QED
    BY <2>1, <2>2, <2>3, <2>6
<1> HIDE DEF x, x2, y, a, b, low, ep
<1>9. Within((x2 + a - c2) - (x + (a + b) - c), ep)
  BY <1>1, <1>7, <1>8 DEF Within
<1>10. QED
  BY <1>8, <1>9 DEF x, x2, a, ep

------------------------------------------------------------------------------
(* An estimate after e ms of a run: what integrate makes of it. *)

Descended(c, ms) ==
  IF ms = 0 \/ TravelDown = TravelUp
  THEN [scale |-> ms, carry |-> c]
  ELSE [scale |-> (ms * TravelUp + c) \div TravelDown, carry |-> (ms * TravelUp + c) % TravelDown]

Ran(d, p, t, c, e) ==
  IF d = "Up"
  THEN [position |-> Least(p + (e - Least(e, Tilt - t)), TravelUp),
        tilt |-> t + Least(e, Tilt - t), carry |-> c]
  ELSE [position |-> p - Least(Descended(c, e - Least(e, t)).scale, p),
        tilt |-> t - Least(e, t), carry |-> Descended(c, e - Least(e, t)).carry]

LEMMA IntegratedIsRan ==
  ASSUME NEW e
  PROVE  Integrated(e) = Ran(direction, position, tilt, downCarry, e)
BY DEF Integrated, Ran, DownTravel, Descended

LEMMA DescentIsExact ==
  ASSUME TimingAssumption, NEW ms \in Nat, NEW c \in 0..(TravelDown - 1)
  PROVE  /\ Descended(c, ms).scale \in Nat /\ Descended(c, ms).carry \in 0..(TravelDown - 1)
         /\ Descended(c, ms).scale * TravelDown + Descended(c, ms).carry = ms * TravelUp + c
<1>1. TravelDown \in Nat \ {0} /\ TravelUp \in Nat /\ c \in Nat
  BY Paces
<1>2. CASE ms = 0
  BY <1>1, <1>2 DEF Descended
<1>3. CASE ms # 0 /\ TravelDown = TravelUp
  BY <1>1, <1>3 DEF Descended
<1>4. CASE ~(ms = 0 \/ TravelDown = TravelUp)
  <2> DEFINE scaled == ms * TravelUp + c
  <2>1. scaled \in Nat
    BY <1>1
  <2>2. /\ scaled \div TravelDown \in Nat /\ scaled % TravelDown \in 0..(TravelDown - 1)
        /\ scaled = TravelDown * (scaled \div TravelDown) + (scaled % TravelDown)
    BY <1>1, <2>1, DivisionIsExact
  <2>3. Descended(c, ms) = [scale |-> scaled \div TravelDown, carry |-> scaled % TravelDown]
    BY <1>4 DEF Descended
  <2> HIDE DEF scaled
  <2>4. (scaled \div TravelDown) * TravelDown + (scaled % TravelDown) = scaled
    BY <1>1, <2>1, <2>2
  <2> QED
    BY <2>2, <2>3, <2>4 DEF scaled
<1>5. QED
  BY <1>2, <1>3, <1>4

(* It stays in its range, and no further from where it was than e ms at most. *)
Kept(r) ==
  r.position \in 0..TravelUp /\ r.tilt \in 0..Tilt /\ r.carry \in 0..(TravelDown - 1)

LEMMA RanIsApart ==
  ASSUME TimingAssumption, NEW d \in Directions, NEW e \in Nat,
         NEW p \in 0..TravelUp, NEW t \in 0..Tilt, NEW c \in 0..(TravelDown - 1)
  PROVE  /\ Kept(Ran(d, p, t, c, e))
         /\ Apart(p * TravelDown, t, c,
                  Ran(d, p, t, c, e).position * TravelDown, Ran(d, p, t, c, e).tilt,
                  Ran(d, p, t, c, e).carry, e * Pace)
<1>1. TravelDown \in Nat \ {0} /\ TravelUp \in Nat /\ Tilt \in Nat
  BY Paces
<1>2. CASE d = "Up"
  <2>1. /\ Least(p + (e - Least(e, Tilt - t)), TravelUp) \in 0..TravelUp
        /\ t + Least(e, Tilt - t) \in 0..Tilt
    BY <1>1 DEF Least
  <2>2. PICK p2 \in 0..TravelUp, t2 \in 0..Tilt :
          p2 = Least(p + (e - Least(e, Tilt - t)), TravelUp) /\ t2 = t + Least(e, Tilt - t)
    BY <2>1
  <2>3. Ran(d, p, t, c, e) = [position |-> p2, tilt |-> t2, carry |-> c]
    BY <1>2, <2>2 DEF Ran
  <2>4. Apart(p * TravelDown, t, c, p2 * TravelDown, t2, c, e * Pace)
    BY <2>2, UpMovesLittle
  <2> QED
    BY <2>3, <2>4 DEF Kept
<1>3. CASE d # "Up"
  <2>1. e - Least(e, t) \in Nat /\ t - Least(e, t) \in 0..Tilt
    BY <1>1 DEF Least
  <2>2. PICK fall \in Nat, c2 \in 0..(TravelDown - 1) :
          /\ fall = Descended(c, e - Least(e, t)).scale
          /\ c2 = Descended(c, e - Least(e, t)).carry
          /\ fall * TravelDown + c2 = (e - Least(e, t)) * TravelUp + c
    BY <2>1, DescentIsExact
  <2>3. p - Least(fall, p) \in 0..TravelUp
    BY <1>1 DEF Least
  <2>4. PICK p2 \in 0..TravelUp, t2 \in 0..Tilt :
          p2 = p - Least(fall, p) /\ t2 = t - Least(e, t)
    BY <2>1, <2>3
  <2>5. Ran(d, p, t, c, e) = [position |-> p2, tilt |-> t2, carry |-> c2]
    BY <1>3, <2>2, <2>4 DEF Ran
  <2>6. Apart(p * TravelDown, t, c, p2 * TravelDown, t2, c2, e * Pace)
    BY <2>2, <2>4, DownMovesLittle
  <2> QED
    BY <2>5, <2>6 DEF Kept
<1>4. QED
  BY <1>2, <1>3

LEMMA RanOfNothing ==
  ASSUME TimingAssumption, NEW d,
         NEW p \in 0..TravelUp, NEW t \in 0..Tilt, NEW c \in 0..(TravelDown - 1)
  PROVE  Ran(d, p, t, c, 0) = [position |-> p, tilt |-> t, carry |-> c]
<1>1. TravelDown \in Nat \ {0} /\ TravelUp \in Nat /\ Tilt \in Nat
  BY Paces
<1>2. Least(0, Tilt - t) = 0 /\ Least(0, t) = 0 /\ Least(p, TravelUp) = p /\ Least(0, p) = 0
  BY <1>1 DEF Least
<1>3. Descended(c, 0) = [scale |-> 0, carry |-> c]
  BY DEF Descended
<1>4. p + (0 - 0) = p /\ t + 0 = t /\ p - 0 = p /\ t - 0 = t /\ 0 - 0 = 0
  BY <1>1
<1>5. QED
  BY <1>2, <1>3, <1>4 DEF Ran

(* The estimate that e ms of a run will make is near the blind. *)
NearAfter(d, p, t, c, e, h, s, slack) ==
  Near(Ran(d, p, t, c, e).position * TravelDown, Ran(d, p, t, c, e).tilt,
       Ran(d, p, t, c, e).carry, h, s, slack)

(* Switched on or off when e ms had passed already, the relays have not driven *)
(* the blind for them, or have for nothing.                                    *)
LEMMA SwitchingIsNear ==
  ASSUME TimingAssumption, NEW slack \in Nat, NEW d \in Directions, NEW e \in Nat,
         NEW p \in 0..TravelUp, NEW t \in 0..Tilt, NEW c \in 0..(TravelDown - 1),
         NEW h \in 0..Top, NEW s \in 0..Tilt
  PROVE  /\ Near(p * TravelDown, t, c, h, s, slack)
              => NearAfter(d, p, t, c, e, h, s, slack + e * Pace)
         /\ NearAfter(d, p, t, c, e, h, s, slack)
              => Near(p * TravelDown, t, c, h, s, slack + e * Pace)
<1>1. PICK p2 \in 0..TravelUp, t2 \in 0..Tilt, c2 \in 0..(TravelDown - 1) :
        /\ p2 = Ran(d, p, t, c, e).position /\ t2 = Ran(d, p, t, c, e).tilt
        /\ c2 = Ran(d, p, t, c, e).carry
        /\ Apart(p * TravelDown, t, c, p2 * TravelDown, t2, c2, e * Pace)
  BY RanIsApart DEF Kept
<1>2. /\ TravelDown \in Nat /\ TravelUp \in Nat /\ Tilt \in Nat /\ Pace \in Nat /\ Top \in Nat
  BY Paces, PaceIsFaster
<1>3. e * Pace \in Nat /\ p * TravelDown \in Int /\ p2 * TravelDown \in Int
  BY <1>2
<1>4. t \in Nat /\ t2 \in Nat /\ c \in Nat /\ c2 \in Nat /\ h \in Int /\ s \in Nat
  BY <1>2
<1>5. PICK x \in Int, x2 \in Int, bound \in Nat :
        x = p * TravelDown /\ x2 = p2 * TravelDown /\ bound = e * Pace
  BY <1>3
<1>6. Apart(x, t, c, x2, t2, c2, bound)
  BY <1>1, <1>5
<1>7. ASSUME Near(x, t, c, h, s, slack) PROVE Near(x2, t2, c2, h, s, slack + bound)
  BY <1>4, <1>6, <1>7, NearShifts
<1>8. ASSUME Near(x2, t2, c2, h, s, slack) PROVE Near(x, t, c, h, s, slack + bound)
  BY <1>4, <1>6, <1>8, NearShifts
<1>9. QED
  BY <1>1, <1>5, <1>7, <1>8 DEF NearAfter

(* Of nothing that passed, nothing is charged. *)
LEMMA NearAfterNothing ==
  ASSUME TimingAssumption, NEW d, NEW h, NEW s, NEW slack,
         NEW p \in 0..TravelUp, NEW t \in 0..Tilt, NEW c \in 0..(TravelDown - 1)
  PROVE  NearAfter(d, p, t, c, 0, h, s, slack) <=> Near(p * TravelDown, t, c, h, s, slack)
BY RanOfNothing DEF NearAfter

------------------------------------------------------------------------------
(* The inductive invariant. *)

(* The slats of the blind have no angle at the very top. *)
SlatsPackAtTop == height = Top => slat = 0

(* The blind has moved for the ms the coming update has yet to charge: the     *)
(* estimate to compare with it is the one that update will make.  It is near   *)
(* from the moment the two met at a limit, but for what commands made of it.   *)
NearWhenCharged ==
  IF moving
  THEN NearAfter(direction, position, tilt, downCarry, late, height, slat, adrift * Pace)
  ELSE Near(position * TravelDown, tilt, downCarry, height, slat, adrift * Pace)

Drift == synced => started /\ NearWhenCharged

(* An upward run will have the blind at the top before the estimate. *)
BlindAhead ==
  \/ height = Top
  \/ /\ Ran("Up", position, tilt, downCarry, late).tilt <= slat
     /\ Ran("Up", position, tilt, downCarry, late).position * TravelDown <= height

(* Homing, as long as nothing is asked: not begun, climbing, or over. *)
HomingRun ==
  HomeAtBoot /\ ~asked =>
    /\ ~started => ~IsMoving /\ ~everEnergised /\ position = 0 /\ tilt = 0
    /\ started /\ moving =>
         direction = "Up" /\ target = "Position" /\ goal = TravelUp /\ BlindAhead
    /\ started /\ ~moving => ~reversing /\ position = TravelUp /\ height = Top

BlindInv ==
  /\ CoverInv
  /\ height \in 0..Top /\ slat \in 0..Tilt /\ synced \in BOOLEAN /\ asked \in BOOLEAN
  /\ adrift \in Nat
  /\ SlatsPackAtTop
  /\ Drift
  /\ HomingRun

------------------------------------------------------------------------------
(* The blind from one clock reading to the next. *)

(* Up: it keeps its range, packs at the top, and stays ahead of an estimate   *)
(* that was not ahead of it.                                                  *)
LEMMA PulledUp ==
  ASSUME TimingAssumption, NEW e \in Nat, height \in 0..Top, slat \in 0..Tilt, SlatsPackAtTop,
         up, Driven(e)
  PROVE  /\ height' \in 0..Top /\ slat' \in 0..Tilt /\ SlatsPackAtTop'
         /\ height = Top => height' = Top /\ slat' = 0
         /\ height # Top =>
              /\ height' = Least(height + (e - Least(e, Tilt - slat)) * TravelDown, Top)
              /\ slat' = IF height' = Top THEN 0 ELSE slat + Least(e, Tilt - slat)
<1> DEFINE turn == Least(e, Tilt - slat)
           climb == (e - turn) * TravelDown
<1>1. Tilt \in Nat /\ Top \in Nat /\ TravelDown \in Nat
  BY Paces
<1>2. turn \in Nat /\ turn <= Tilt - slat /\ e - turn \in Nat
  BY <1>1 DEF Least
<1>3. climb \in Nat
  BY <1>1, <1>2
<1>4. height' = Pulled(e).height /\ slat' = Pulled(e).slat
  BY DEF Driven
<1>5. Top' = Top
  BY DEF Top
<1>6. CASE height = Top
  <2>1. height' = Top /\ slat' = 0
    BY <1>4, <1>6 DEF Pulled
  <2> QED
    BY <1>1, <1>5, <1>6, <2>1 DEF SlatsPackAtTop
<1>7. CASE height # Top
  <2>1. /\ height' = Least(height + climb, Top)
        /\ slat' = IF Least(height + climb, Top) = Top THEN 0 ELSE slat + turn
    BY <1>4, <1>7 DEF Pulled
  <2>2. slat' = IF height' = Top THEN 0 ELSE slat + turn
    BY <2>1
  <2> HIDE DEF turn
  <2> HIDE DEF climb
  <2>3. height' \in 0..Top
    BY <1>1, <1>3, <2>1 DEF Least
  <2>4. slat' \in 0..Tilt /\ SlatsPackAtTop'
    BY <1>1, <1>2, <1>5, <2>2 DEF SlatsPackAtTop
  <2> QED
    BY <1>7, <2>1, <2>2, <2>3, <2>4 DEF climb, turn
<1>8. QED
  BY <1>6, <1>7

LEMMA LoweredDown ==
  ASSUME TimingAssumption, NEW e \in Nat, height \in 0..Top, slat \in 0..Tilt, SlatsPackAtTop,
         ~up, down, Driven(e)
  PROVE  /\ height' \in 0..Top /\ slat' \in 0..Tilt /\ SlatsPackAtTop'
         /\ height' = height - Least((e - Least(e, slat)) * TravelUp, height)
         /\ slat' = slat - Least(e, slat)
<1> DEFINE turn == Least(e, slat)
           fall == (e - turn) * TravelUp
<1>1. Tilt \in Nat /\ Top \in Nat /\ TravelUp \in Nat
  BY Paces
<1>2. turn \in Nat /\ turn <= slat /\ e - turn \in Nat
  BY <1>1 DEF Least
<1>3. fall \in Nat
  BY <1>1, <1>2
<1>4. height' = height - Least(fall, height) /\ slat' = slat - turn
  BY DEF Driven, Lowered
<1>5. Top' = Top
  BY DEF Top
<1> HIDE DEF turn
<1> HIDE DEF fall
<1>6. Least(fall, height) \in 0..height
  BY <1>1, <1>3 DEF Least
<1>7. height' \in 0..Top /\ slat' \in 0..Tilt
  BY <1>1, <1>2, <1>4, <1>6
<1>8. SlatsPackAtTop'
  BY <1>1, <1>2, <1>4, <1>5, <1>6 DEF SlatsPackAtTop
<1>9. QED
  BY <1>4, <1>7, <1>8 DEF fall, turn

(* With the windings dead it stays where it is. *)
LEMMA NotDriven ==
  ASSUME ~up, ~down, NEW e, Driven(e)
  PROVE  height' = height /\ slat' = slat
BY DEF Driven

------------------------------------------------------------------------------
(* What e ms with a winding live do to it, and will do to the estimate. *)

(* The estimate after e ms and the blind after e ms are as near as before. *)
LEMMA RunKeepsNear ==
  ASSUME TimingAssumption, TypeOK, RelaysMatchMotion, moving, NEW e \in Nat, NEW slack \in Nat,
         height \in 0..Top, slat \in 0..Tilt, SlatsPackAtTop, Driven(e),
         Near(position * TravelDown, tilt, downCarry, height, slat, slack)
  PROVE  Near(Integrated(e).position * TravelDown, Integrated(e).tilt, Integrated(e).carry,
              height', slat', slack)
<1> DEFINE now == Integrated(e)
<1>1. /\ position \in 0..TravelUp /\ tilt \in 0..Tilt /\ downCarry \in 0..(TravelDown - 1)
      /\ direction \in Directions
  BY DEF TypeOK
<1>2. now.position \in 0..TravelUp /\ now.tilt \in 0..Tilt /\ now.carry \in 0..(TravelDown - 1)
  BY IntegratedRange
<1>3. CASE direction = "Up"
  <2>1. up
    BY <1>3 DEF RelaysMatchMotion
  <2>2. /\ height' \in 0..Top /\ slat' \in 0..Tilt
        /\ height = Top => height' = Top /\ slat' = 0
        /\ height # Top =>
              /\ height' = Least(height + (e - Least(e, Tilt - slat)) * TravelDown, Top)
              /\ slat' = IF height' = Top THEN 0 ELSE slat + Least(e, Tilt - slat)
    BY <2>1, PulledUp
  <2>3. /\ now.position = Least(position + (e - Least(e, Tilt - tilt)), TravelUp)
        /\ now.tilt = tilt + Least(e, Tilt - tilt) /\ now.carry = downCarry
    BY <1>3 DEF Integrated
  <2>4. PICK h2 \in 0..Top, s2 \in 0..Tilt : h2 = height' /\ s2 = slat'
    BY <2>2
  <2>5. PICK p2 \in 0..TravelUp, t2 \in 0..Tilt : p2 = now.position /\ t2 = now.tilt
    BY <1>2
  <2> HIDE DEF now
  <2>6. Near(p2 * TravelDown, t2, downCarry, h2, s2, slack)
    BY <1>1, <2>2, <2>3, <2>4, <2>5, UpKeepsNear DEF SlatsPackAtTop
  <2> QED
    BY <2>3, <2>4, <2>5, <2>6 DEF now
<1>4. CASE direction = "Down"
  <2>1. ~up /\ down
    BY <1>4 DEF RelaysMatchMotion
  <2>2. /\ height' \in 0..Top /\ slat' \in 0..Tilt
        /\ height' = height - Least((e - Least(e, slat)) * TravelUp, height)
        /\ slat' = slat - Least(e, slat)
    BY <2>1, LoweredDown
  <2> DEFINE fell == DownTravel(e - Least(e, tilt))
  <2>3. e - Least(e, tilt) \in Nat
    BY <1>1, Paces DEF Least
  <2>4. /\ fell.scale \in Nat /\ fell.carry \in 0..(TravelDown - 1)
        /\ fell.scale * TravelDown + fell.carry = (e - Least(e, tilt)) * TravelUp + downCarry
    BY <1>1, <2>3, DownTravelIsExact
  <2>5. /\ now.position = position - Least(fell.scale, position)
        /\ now.tilt = tilt - Least(e, tilt) /\ now.carry = fell.carry
    BY <1>4 DEF Integrated
  <2>6. PICK h2 \in 0..Top, s2 \in 0..Tilt : h2 = height' /\ s2 = slat'
    BY <2>2
  <2>7. PICK p2 \in 0..TravelUp, t2 \in 0..Tilt : p2 = now.position /\ t2 = now.tilt
    BY <1>2
  <2>8. PICK fall \in Nat, c2 \in 0..(TravelDown - 1) : fall = fell.scale /\ c2 = fell.carry
    BY <2>4
  <2> HIDE DEF now, fell
  <2>9. Near(p2 * TravelDown, t2, c2, h2, s2, slack)
    BY <1>1, <2>2, <2>4, <2>5, <2>6, <2>7, <2>8, DownKeepsNear
  <2> QED
    BY <2>5, <2>6, <2>7, <2>8, <2>9 DEF now
<1>5. QED
  BY <1>1, <1>3, <1>4 DEF Directions

(* An upward run leaves the blind ahead of the estimate, if it was. *)
LEMMA ClimbKeepsAhead ==
  ASSUME TimingAssumption, TypeOK, RelaysMatchMotion, moving, direction = "Up", NEW e \in Nat,
         height \in 0..Top, slat \in 0..Tilt, SlatsPackAtTop, Driven(e),
         height = Top \/ (tilt <= slat /\ position * TravelDown <= height)
  PROVE  \/ height' = Top
         \/ Integrated(e).tilt <= slat' /\ Integrated(e).position * TravelDown <= height'
<1>1. /\ Tilt \in Nat /\ TravelUp \in Nat /\ TravelDown \in Nat /\ Top \in Nat
      /\ position \in 0..TravelUp /\ tilt \in 0..Tilt
  BY Paces DEF TypeOK
<1>2. up
  BY DEF RelaysMatchMotion
<1>3. /\ height = Top => height' = Top
      /\ height # Top =>
            /\ height' = Least(height + (e - Least(e, Tilt - slat)) * TravelDown, Top)
            /\ slat' = IF height' = Top THEN 0 ELSE slat + Least(e, Tilt - slat)
  BY <1>2, PulledUp
<1>4. CASE height # Top /\ height' # Top
  <2> DEFINE a == e - Least(e, Tilt - tilt)
             b == e - Least(e, Tilt - slat)
  <2>1. tilt <= slat /\ position * TravelDown <= height
    BY <1>4
  <2>2. a \in Nat /\ b \in Nat /\ a <= b
        /\ tilt + Least(e, Tilt - tilt) <= slat + Least(e, Tilt - slat)
    BY <1>1, <2>1 DEF Least
  <2>3. height' = height + b * TravelDown /\ slat' = slat + Least(e, Tilt - slat)
    BY <1>3, <1>4 DEF Least
  <2>4. /\ Integrated(e).tilt = tilt + Least(e, Tilt - tilt)
        /\ Integrated(e).position = Least(position + a, TravelUp)
    BY DEF Integrated
  <2> HIDE DEF a, b
  <2>5. Integrated(e).position \in Nat /\ Integrated(e).position <= position + a
    BY <1>1, <2>2, <2>4 DEF Least
  <2>6. a * TravelDown <= b * TravelDown
    BY <1>1, <2>2, Product
  <2>7. Integrated(e).position * TravelDown <= (position + a) * TravelDown
    BY <1>1, <2>2, <2>5, Product
  <2>8. (position + a) * TravelDown = position * TravelDown + a * TravelDown
    BY <1>1, <2>2
  <2>9. Integrated(e).position * TravelDown <= height'
    <3>1. /\ position * TravelDown \in Nat /\ a * TravelDown \in Nat /\ b * TravelDown \in Nat
          /\ Integrated(e).position * TravelDown \in Nat /\ height \in Nat
      BY <1>1, <2>2, <2>5
    <3> QED
      BY <2>1, <2>3, <2>6, <2>7, <2>8, <3>1
  <2> QED
    BY <2>2, <2>3, <2>4, <2>9
<1>5. QED
  BY <1>3, <1>4

------------------------------------------------------------------------------
(* Steps. *)

(* stop() packs the slats of the estimate at the top and leaves it elsewhere. *)
LEMMA StopKeepsNear ==
  ASSUME TimingAssumption, NEW slack \in Nat,
         NEW p \in 0..TravelUp, NEW t \in 0..Tilt, NEW c \in 0..(TravelDown - 1),
         NEW h \in 0..Top, NEW s \in 0..Tilt,
         Near(p * TravelDown, t, c, h, s, slack)
  PROVE  Near(p * TravelDown, IF p >= TravelUp THEN 0 ELSE t, c, h, s, slack)
<1>1. CASE p >= TravelUp
  <2>1. p = TravelUp
    BY <1>1, Paces
  <2>2. Near(p * TravelDown, 0, c, h, s, slack)
    BY <2>1, PackingKeepsNear
  <2> QED
    BY <1>1, <2>2
<1>2. CASE ~(p >= TravelUp)
  BY <1>2
<1>3. QED
  BY <1>1, <1>2

LEMMA SlackType ==
  ASSUME TimingAssumption, NEW n \in Nat
  PROVE  n * Pace \in Nat
BY PaceIsFaster

(* Nothing is left to charge once an update is done. *)
LEMMA ChargedIsNear ==
  ASSUME TimingAssumption, NEW d, NEW h, NEW s, NEW slack, NEW m \in BOOLEAN,
         NEW p \in 0..TravelUp, NEW t \in 0..Tilt, NEW c \in 0..(TravelDown - 1)
  PROVE  (IF m THEN NearAfter(d, p, t, c, 0, h, s, slack)
               ELSE Near(p * TravelDown, t, c, h, s, slack))
         <=> Near(p * TravelDown, t, c, h, s, slack)
BY NearAfterNothing

LEMMA DriftIs ==
  ASSUME TimingAssumption, BlindInv, synced, late = 0
  PROVE  Near(position * TravelDown, tilt, downCarry, height, slat, adrift * Pace)
<1>1. /\ moving \in BOOLEAN /\ position \in 0..TravelUp /\ tilt \in 0..Tilt
      /\ downCarry \in 0..(TravelDown - 1)
  BY DEF BlindInv, CoverInv, TypeOK
<1>2. NearWhenCharged
  BY DEF BlindInv, Drift
<1>3. QED
  BY <1>1, <1>2, ChargedIsNear DEF NearWhenCharged

(* The estimate is near the blind from the moment both are at one limit. *)
LEMMA SynchronisingIsNear ==
  ASSUME TimingAssumption, TypeOK', height' \in 0..Top, slat' \in 0..Tilt, SlatsPackAtTop',
         started', late' = 0, adrift \in Nat,
         synced' = (synced \/ MeetAtLimit'),
         adrift' = IF MeetAtLimit' THEN 0 ELSE adrift,
         synced => Near(position' * TravelDown, tilt', downCarry', height', slat', adrift * Pace)
  PROVE  Drift' /\ adrift' \in Nat
<1>1. /\ tilt' \in 0..Tilt /\ downCarry' \in 0..(TravelDown - 1) /\ position' \in 0..TravelUp
      /\ moving' \in BOOLEAN /\ Top' = Top /\ Pace' = Pace
  BY DEF TypeOK, Top, Pace
<1>2. PICK p \in 0..TravelUp, t \in 0..Tilt, c \in 0..(TravelDown - 1), s \in 0..Tilt :
        p = position' /\ t = tilt' /\ c = downCarry' /\ s = slat'
  BY <1>1
<1>3. PICK slack \in Nat : slack = adrift' * Pace
  <2>1. adrift' \in Nat
    OBVIOUS
  <2> QED
    BY <2>1, SlackType
<1>4. ASSUME synced' PROVE Near(position' * TravelDown, tilt', downCarry', height', slat', adrift' * Pace)
  <2>1. CASE ~MeetAtLimit'
    BY <1>4, <2>1
  <2>2. CASE MeetAtLimit' /\ position' = TravelUp /\ height' = Top
    <3>1. slat' = 0
      BY <1>1, <2>2 DEF SlatsPackAtTop
    <3>2. Near(TravelUp * TravelDown, t, c, Top, 0, slack)
      BY SameLimitIsNear
    <3> QED
      BY <1>2, <1>3, <2>2, <3>1, <3>2
  <2>3. CASE MeetAtLimit' /\ position' = 0 /\ height' = 0 /\ tilt' = slat'
    <3>1. Near(0 * TravelDown, t, c, 0, s, slack)
      BY <1>2, <2>3, SameLimitIsNear
    <3> QED
      BY <1>2, <1>3, <2>3, <3>1
  <2> QED
    BY <1>1, <2>1, <2>2, <2>3 DEF MeetAtLimit, AtSameLimit
<1>5. ASSUME synced' PROVE NearWhenCharged'
  <2>1. Near(p * TravelDown, t, c, height', slat', adrift' * Pace)
    BY <1>2, <1>4, <1>5
  <2>2. IF moving' THEN NearAfter(direction', p, t, c, 0, height', slat', adrift' * Pace)
                   ELSE Near(p * TravelDown, t, c, height', slat', adrift' * Pace)
    BY <1>1, <2>1, NearAfterNothing
  <2> QED
    BY <1>1, <1>2, <2>2 DEF NearWhenCharged
<1>6. adrift' \in Nat
  OBVIOUS
<1>7. QED
  BY <1>5, <1>6 DEF Drift

(* What the object asks of homing: the whole travel, upwards, at once. *)
LEMMA HomingStarts ==
  ASSUME TimingAssumption, HomeAtBoot, ~IsMoving, ~everEnergised, position = 0,
         NEW e \in Elapsed, Start(e)
  PROVE  /\ started' /\ moving' /\ direction' = "Up"
         /\ target' = "Position" /\ goal' = TravelUp
<1>1. PercentToMs(100, TravelUp) = TravelUp
  <2>1. (TravelUp * 100) \div 100 = TravelUp
    BY Paces
  <2> QED
    BY <2>1 DEF PercentToMs
<1>2. TravelUp # position /\ TravelUp > position
  BY Paces
<1>3. /\ target' = "Position" /\ goal' = TravelUp
      /\ RequestMove("Up", Wrap(sinceOff + e))
  BY <1>1, <1>2 DEF Start, AimAt
<1>4. Energize("Up")
  BY <1>3 DEF RequestMove, IsMoving
<1>5. QED
  BY <1>3, <1>4 DEF Energize, Start

(* Time passes: the blind moves, and what will be charged for it grows. *)
LEMMA BlindReadsStep ==
  ASSUME TimingAssumption, ClockAssumption, BlindInv, CoverInv', NEW e \in Elapsed, BlindReads(e)
  PROVE  BlindInv'
<1>1. /\ CoverInv /\ TypeOK /\ RelaysMatchMotion /\ e \in Nat
      /\ height \in 0..Top /\ slat \in 0..Tilt /\ synced \in BOOLEAN /\ asked \in BOOLEAN
      /\ adrift \in Nat /\ SlatsPackAtTop /\ Drift /\ HomingRun /\ Top' = Top /\ Pace' = Pace
  BY DEF BlindInv, CoverInv, ClockAssumption, Top, Pace
<1>2. /\ started /\ late = 0 /\ late' = e /\ Driven(e)
      /\ UNCHANGED <<synced, asked, adrift>>
      /\ UNCHANGED <<moving, reversing, direction, everEnergised, position, tilt, downCarry,
                     target, goal, started>>
  BY DEF BlindReads, ReadClock, motor, estimate, aim
<1>3. /\ moving \in BOOLEAN /\ direction \in Directions
      /\ position \in 0..TravelUp /\ tilt \in 0..Tilt /\ downCarry \in 0..(TravelDown - 1)
  BY <1>1 DEF TypeOK
<1>4. ASSUME height' \in 0..Top, slat' \in 0..Tilt, SlatsPackAtTop', NearWhenCharged' \/ ~synced,
             HomingRun'
      PROVE  BlindInv'
  BY <1>1, <1>2, <1>4 DEF BlindInv, Drift
<1>5. CASE ~moving
  <2>1. ~up /\ ~down
    BY <1>1, <1>5 DEF RelaysMatchMotion
  <2>2. height' = height /\ slat' = slat
    BY <1>2, <2>1, NotDriven
  <2>3. SlatsPackAtTop'
    BY <1>1, <2>2 DEF SlatsPackAtTop
  <2>4. NearWhenCharged' \/ ~synced
    BY <1>1, <1>2, <1>5, <2>2 DEF NearWhenCharged, Drift
  <2>5. HomingRun'
    BY <1>1, <1>2, <1>5, <2>2 DEF HomingRun, IsMoving
  <2> QED
    BY <1>1, <1>4, <2>2, <2>3, <2>4, <2>5
<1>6. CASE moving
  <2>1. height' \in 0..Top /\ slat' \in 0..Tilt /\ SlatsPackAtTop'
    <3>1. CASE up
      BY <1>1, <1>2, <3>1, PulledUp
    <3>2. CASE ~up
      <4>1. down
        BY <1>1, <1>3, <1>6, <3>2 DEF RelaysMatchMotion, Directions
      <4> QED
        BY <1>1, <1>2, <3>2, <4>1, LoweredDown
    <3> QED
      BY <3>1, <3>2
  <2>2. ASSUME synced PROVE NearWhenCharged'
    <3>1. PICK slack \in Nat : slack = adrift * Pace
      BY <1>1, SlackType
    <3>2. Near(position * TravelDown, tilt, downCarry, height, slat, slack)
      BY <1>2, <2>2, <3>1, DriftIs
    <3>3. Near(Integrated(e).position * TravelDown, Integrated(e).tilt, Integrated(e).carry,
               height', slat', slack)
      BY <1>1, <1>2, <1>6, <3>2, RunKeepsNear
    <3>4. NearAfter(direction, position, tilt, downCarry, e, height', slat', adrift * Pace)
      BY <3>1, <3>3, IntegratedIsRan DEF NearAfter
    <3> QED
      BY <1>1, <1>2, <1>6, <3>4 DEF NearWhenCharged
  <2>3. HomingRun'
    <3> SUFFICES ASSUME HomeAtBoot, ~asked
                 PROVE  /\ direction' = "Up" /\ target' = "Position" /\ goal' = TravelUp
                        /\ BlindAhead'
      BY <1>2, <1>6 DEF HomingRun
    <3>1. direction = "Up" /\ target = "Position" /\ goal = TravelUp /\ BlindAhead
      BY <1>1, <1>2, <1>6 DEF HomingRun
    <3>2. height = Top \/ (tilt <= slat /\ position * TravelDown <= height)
      <4>1. Ran("Up", position, tilt, downCarry, 0)
              = [position |-> position, tilt |-> tilt, carry |-> downCarry]
        BY <1>3, RanOfNothing
      <4> QED
        BY <1>2, <3>1, <4>1 DEF BlindAhead
    <3>3. \/ height' = Top
          \/ Integrated(e).tilt <= slat' /\ Integrated(e).position * TravelDown <= height'
      BY <1>1, <1>2, <1>6, <3>1, <3>2, ClimbKeepsAhead
    <3>4. \/ height' = Top
          \/ /\ Ran("Up", position, tilt, downCarry, e).tilt <= slat'
             /\ Ran("Up", position, tilt, downCarry, e).position * TravelDown <= height'
      BY <3>1, <3>3, IntegratedIsRan
    <3> QED
      BY <1>1, <1>2, <3>1, <3>4 DEF BlindAhead
  <2> QED
    BY <1>4, <2>1, <2>2, <2>3
<1>7. QED
  BY <1>3, <1>5, <1>6

(* The iteration is charged: the estimate catches up with the blind. *)
LEMMA BlindUpdateStep ==
  ASSUME TimingAssumption, ClockAssumption, BlindInv, CoverInv', BlindUpdate
  PROVE  BlindInv'
<1> DEFINE e == late
<1>1. /\ CoverInv /\ TypeOK /\ RelaysMatchMotion /\ TypeOK' /\ e \in Nat /\ e \in Elapsed
      /\ height \in 0..Top /\ slat \in 0..Tilt /\ synced \in BOOLEAN /\ asked \in BOOLEAN
      /\ adrift \in Nat /\ SlatsPackAtTop /\ Drift /\ HomingRun /\ Top' = Top
  BY DEF BlindInv, CoverInv, ClockAssumption, BlindUpdate, Update, Top
<1>2. /\ asked' = asked /\ synced' = (synced \/ MeetAtLimit') /\ height' = height /\ slat' = slat
      /\ adrift' = IF MeetAtLimit' THEN 0 ELSE adrift
  BY DEF BlindUpdate, blind
<1>3. late' = 0 /\ (Start(e) \/ Wait(e) \/ Resume(e) \/ Travel(e) \/ Arrive(e))
  BY DEF BlindUpdate, Update, Start, Wait, Resume, Travel, Arrive, CatchUp
<1>4. started'
  BY <1>3 DEF Start, Wait, Resume, Travel, Arrive
<1>5. /\ moving \in BOOLEAN /\ direction \in Directions /\ moving' \in BOOLEAN
      /\ position \in 0..TravelUp /\ tilt \in 0..Tilt /\ downCarry \in 0..(TravelDown - 1)
      /\ position' \in 0..TravelUp /\ tilt' \in 0..Tilt /\ downCarry' \in 0..(TravelDown - 1)
  BY <1>1 DEF TypeOK
<1> HIDE DEF e
<1>6. SlatsPackAtTop' /\ synced' \in BOOLEAN
  BY <1>1, <1>2 DEF SlatsPackAtTop
<1>7. ASSUME HomingRun',
             synced => Near(position' * TravelDown, tilt', downCarry', height', slat', adrift * Pace)
      PROVE  BlindInv'
  <2>1. Drift' /\ adrift' \in Nat
    BY <1>1, <1>2, <1>3, <1>4, <1>6, <1>7, SynchronisingIsNear
  <2> QED
    BY <1>1, <1>2, <1>6, <1>7, <2>1 DEF BlindInv
(* What an upward run is ahead of once the iteration is charged. *)
<1>8. ASSUME \/ height = Top
             \/ tilt' <= slat /\ position' * TravelDown <= height
      PROVE  BlindAhead'
  <2>1. PICK p \in 0..TravelUp, t \in 0..Tilt, c \in 0..(TravelDown - 1) :
          p = position' /\ t = tilt' /\ c = downCarry'
    BY <1>5
  <2>2. Ran("Up", p, t, c, 0) = [position |-> p, tilt |-> t, carry |-> c]
    BY RanOfNothing
  <2>3. \/ height = Top
        \/ Ran("Up", p, t, c, 0).tilt <= slat /\ Ran("Up", p, t, c, 0).position * TravelDown <= height
    BY <1>8, <2>1, <2>2
  <2> QED
    BY <1>1, <1>2, <1>3, <2>1, <2>3 DEF BlindAhead
<1>9. CASE Start(e)
  <2>1. ~started /\ UNCHANGED <<position, tilt, downCarry>>
    BY <1>9 DEF Start, estimate
  <2>2. ~synced
    BY <1>1, <2>1 DEF Drift
  <2>3. ASSUME HomeAtBoot, ~asked'
        PROVE  moving' /\ direction' = "Up" /\ target' = "Position" /\ goal' = TravelUp
               /\ BlindAhead'
    <3>1. ~IsMoving /\ ~everEnergised /\ position = 0 /\ tilt = 0
      BY <1>1, <1>2, <2>1, <2>3 DEF HomingRun
    <3>2. tilt' <= slat /\ position' * TravelDown <= height
      <4>1. tilt' = 0 /\ position' = 0
        BY <2>1, <3>1
      <4>2. slat \in Nat /\ height \in Nat /\ 0 * TravelDown = 0
        BY <1>1, Paces
      <4> QED
        BY <4>1, <4>2
    <3>3. BlindAhead'
      BY <1>8, <3>2
    <3> QED
      BY <1>1, <1>9, <2>3, <3>1, <3>3, HomingStarts
  <2>4. HomingRun'
    BY <1>4, <2>3 DEF HomingRun
  <2> QED
    BY <1>7, <2>2, <2>4
<1>10. CASE Wait(e) \/ Resume(e)
  <2>1. started /\ ~moving /\ UNCHANGED <<position, tilt, downCarry>>
    BY <1>1, <1>10 DEF Wait, Resume, RelaysMatchMotion, estimate
  <2>2. synced => Near(position' * TravelDown, tilt', downCarry', height', slat', adrift * Pace)
    BY <1>1, <1>2, <2>1 DEF Drift, NearWhenCharged
  <2>3. HomingRun'
    <3> SUFFICES ASSUME HomeAtBoot, ~asked'
                 PROVE  ~moving' /\ ~reversing' /\ position' = TravelUp /\ height' = Top'
      BY <1>4 DEF HomingRun
    <3>1. ~reversing /\ position = TravelUp /\ height = Top
      BY <1>1, <1>2, <2>1 DEF HomingRun
    <3>2. Wait(e)
      BY <1>10, <3>1 DEF Resume
    <3> QED
      BY <1>1, <1>2, <2>1, <3>1, <3>2 DEF Wait
  <2> QED
    BY <1>7, <2>2, <2>3
<1>11. CASE Travel(e) \/ Arrive(e)
  <2> DEFINE now == Integrated(e)
  <2>1. started /\ moving /\ ~reversing
    BY <1>11 DEF Travel, Arrive
  <2>2. now.position \in 0..TravelUp /\ now.tilt \in 0..Tilt /\ now.carry \in 0..(TravelDown - 1)
    BY <1>1, IntegratedRange
  <2>3. now = Ran(direction, position, tilt, downCarry, late)
    BY IntegratedIsRan DEF e
  <2>4. position' = now.position /\ downCarry' = now.carry
    BY <1>11 DEF Travel, Arrive, StopAt
  <2>5. tilt' = now.tilt \/ tilt' = IF now.position >= TravelUp THEN 0 ELSE now.tilt
    BY <1>11 DEF Travel, Arrive, StopAt
  <2>6. ASSUME synced
        PROVE  Near(position' * TravelDown, tilt', downCarry', height', slat', adrift * Pace)
    <3>1. PICK slack \in Nat : slack = adrift * Pace
      BY <1>1, SlackType
    <3>2. Near(now.position * TravelDown, now.tilt, now.carry, height, slat, slack)
      BY <1>1, <2>1, <2>3, <2>6, <3>1 DEF Drift, NearWhenCharged, NearAfter
    <3>3. PICK p \in 0..TravelUp, t \in 0..Tilt, c \in 0..(TravelDown - 1) :
            p = now.position /\ t = now.tilt /\ c = now.carry
      BY <2>2
    <3>4. PICK h \in 0..Top, s \in 0..Tilt : h = height /\ s = slat
      BY <1>1
    <3> HIDE DEF now
    <3>5. Near(p * TravelDown, t, c, h, s, slack)
      BY <3>2, <3>3, <3>4
    <3>6. Near(p * TravelDown, IF p >= TravelUp THEN 0 ELSE t, c, h, s, slack)
      BY <3>5, StopKeepsNear
    <3> QED
      BY <1>2, <2>4, <2>5, <3>1, <3>3, <3>4, <3>5, <3>6
  <2>7. HomingRun'
    <3> SUFFICES ASSUME HomeAtBoot, ~asked'
                 PROVE  /\ moving' => /\ direction' = "Up" /\ target' = "Position"
                                      /\ goal' = TravelUp /\ BlindAhead'
                        /\ ~moving' => ~reversing' /\ position' = TravelUp /\ height' = Top'
      BY <1>4 DEF HomingRun
    <3>1. direction = "Up" /\ target = "Position" /\ goal = TravelUp /\ BlindAhead
      BY <1>1, <1>2, <2>1 DEF HomingRun
    <3>2. height = Top \/ (now.tilt <= slat /\ now.position * TravelDown <= height)
      BY <2>3, <3>1 DEF BlindAhead
    <3>3. GoalAfter(e) = goal
      BY <3>1 DEF GoalAfter
    <3>4. CASE Travel(e)
      <4>1. /\ moving' /\ direction' = "Up" /\ target' = "Position" /\ goal' = TravelUp
            /\ tilt' = now.tilt
        BY <2>1, <3>1, <3>3, <3>4 DEF Travel, motor
      <4>2. BlindAhead'
        BY <1>8, <2>4, <3>2, <4>1
      <4> QED
        BY <4>1, <4>2
    <3>5. CASE Arrive(e)
      <4>1. ~moving' /\ ~reversing'
        BY <3>5 DEF Arrive, StopAt
      <4>2. now.position >= TravelUp
        BY <3>1, <3>3, <3>5 DEF Arrive, Done, AtLimit, TargetReached
      <4>3. now.position = TravelUp
        BY <2>2, <4>2, Paces
      <4>4. height = Top
        BY <1>1, <3>2, <4>3, Paces
      <4> QED
        BY <1>1, <1>2, <2>4, <4>1, <4>3, <4>4
    <3> QED
      BY <1>11, <3>4, <3>5
  <2> QED
    BY <1>7, <2>6, <2>7
<1>12. QED
  BY <1>3, <1>9, <1>10, <1>11

(* Of all requests only stop() touches the estimate, and only to pack it. *)
LEMMA RequestLeavesEstimate ==
  ASSUME Request
  PROVE  /\ position' = position /\ downCarry' = downCarry /\ started' = started /\ late' = late
         /\ \/ tilt' = tilt
            \/ ~moving' /\ tilt' = IF position >= TravelUp THEN 0 ELSE tilt
<1>1. ASSUME StateKept PROVE UNCHANGED <<position, tilt, downCarry, started, late>>
  BY <1>1 DEF StateKept, estimate
<1>2. ASSUME Stop
      PROVE  /\ position' = position /\ downCarry' = downCarry /\ started' = started
             /\ late' = late /\ ~moving'
             /\ tilt' = IF position >= TravelUp THEN 0 ELSE tilt
  BY <1>2 DEF Stop, StopAt
<1>3. CASE ReleaseHold
  BY <1>2, <1>3 DEF ReleaseHold, vars, estimate
<1>4. CASE Stop
  BY <1>2, <1>4
<1>5. CASE ~ReleaseHold /\ ~Stop
  <2>1. StateKept
    BY <1>5 DEF Request, SetPosition, SetTilt, StepAlongDirection, ToggleDirection,
                MoveAlongDirection, MoveToEnd
  <2> QED
    BY <1>1, <2>1
<1>6. QED
  BY <1>3, <1>4, <1>5

(* How many windings a request switches. *)
LEMMA SwitchedIs ==
  ASSUME TypeOK, TypeOK', RelaysMatchMotion, RelaysMatchMotion'
  PROVE  /\ moving = moving' /\ (moving => direction' = direction) => Switched = 0
         /\ moving # moving' => Switched = 1
         /\ moving /\ moving' /\ direction' # direction => Switched = 2
<1>1. /\ moving \in BOOLEAN /\ moving' \in BOOLEAN /\ direction \in {"Up", "Down"}
      /\ direction' \in {"Up", "Down"}
      /\ up = (moving /\ direction = "Up") /\ down = (moving /\ direction = "Down")
      /\ up' = (moving' /\ direction' = "Up") /\ down' = (moving' /\ direction' = "Down")
  BY DEF TypeOK, RelaysMatchMotion, Directions
<1>2. CASE moving = moving' /\ (moving => direction' = direction)
  <2>1. up' = up /\ down' = down
    BY <1>1, <1>2
  <2> QED
    BY <1>2, <2>1 DEF Switched
<1>3. CASE moving # moving'
  <2>1. CASE up' # up /\ down' = down
    <3>1. Switched = 1 + 0
      BY <2>1 DEF Switched
    <3>2. Switched = 1
      BY <3>1
    <3> QED
      BY <1>1, <1>3, <3>2
  <2>2. CASE up' = up /\ down' # down
    <3>1. Switched = 0 + 1
      BY <2>2 DEF Switched
    <3>2. Switched = 1
      BY <3>1
    <3> QED
      BY <1>1, <1>3, <3>2
  <2> QED
    BY <1>1, <1>3, <2>1, <2>2
<1>4. CASE moving /\ moving' /\ direction' # direction
  <2>1. up' # up /\ down' # down
    BY <1>1, <1>4
  <2> QED
    BY <1>4, <2>1 DEF Switched
<1>5. QED
  BY <1>1, <1>2, <1>3, <1>4

(* What a request makes of the slack. *)
LEMMA SlackGrows ==
  ASSUME TimingAssumption, NEW n \in Nat, NEW l \in Nat
  PROVE  /\ (n + l * 0) * Pace = n * Pace /\ n + l * 0 \in Nat
         /\ (n + l * 1) * Pace = n * Pace + l * Pace /\ n + l * 1 \in Nat
         /\ (n + l * 2) * Pace = (n * Pace + l * Pace) + l * Pace /\ n + l * 2 \in Nat
         /\ n * Pace \in Nat /\ l * Pace \in Nat
<1>1. PICK k \in Nat : k = Pace
  BY PaceIsFaster
<1>2. n * k \in Nat /\ l * k \in Nat
  OBVIOUS
<1>3. (n + l) * k = n * k + l * k
  BY Distributes
<1>4. ((n + l) + l) * k = (n + l) * k + l * k
  <2>1. n + l \in Int /\ l \in Int /\ k \in Int
    OBVIOUS
  <2> QED
    BY <2>1, Distributes
<1>5. l * 0 = 0 /\ l * 1 = l /\ l * 2 = l + l /\ n + 0 = n /\ n + (l + l) = (n + l) + l
  OBVIOUS
<1>6. n + l \in Nat /\ (n + l) + l \in Nat
  OBVIOUS
<1>7. QED
  BY <1>1, <1>2, <1>3, <1>4, <1>5, <1>6

(* A command switches the relays when part of the iteration has passed. *)
LEMMA RequestKeepsDrift ==
  ASSUME TimingAssumption, ClockAssumption, BlindInv, CoverInv', Request, synced,
         height' = height, slat' = slat, adrift' = adrift + late * Switched
  PROVE  NearWhenCharged' /\ adrift' \in Nat
<1>1. /\ TypeOK /\ TypeOK' /\ RelaysMatchMotion /\ RelaysMatchMotion' /\ adrift \in Nat
      /\ NearWhenCharged /\ late \in Nat /\ height \in 0..Top /\ slat \in 0..Tilt
  BY DEF BlindInv, CoverInv, Drift, TypeOK, ClockAssumption
<1>2. /\ moving \in BOOLEAN /\ moving' \in BOOLEAN
      /\ direction \in Directions /\ direction' \in Directions
      /\ position \in 0..TravelUp /\ tilt \in 0..Tilt /\ downCarry \in 0..(TravelDown - 1)
  BY <1>1 DEF TypeOK
<1>3. PICK p \in 0..TravelUp, t \in 0..Tilt, c \in 0..(TravelDown - 1), l \in Nat, n \in Nat,
           h \in 0..Top, s \in 0..Tilt, d \in Directions, d2 \in Directions :
        /\ p = position /\ t = tilt /\ c = downCarry /\ l = late /\ n = adrift
        /\ h = height /\ s = slat /\ d = direction /\ d2 = direction'
  BY <1>1, <1>2
<1>4. /\ position' = p /\ downCarry' = c /\ late' = l /\ height' = h /\ slat' = s
      /\ tilt' = t \/ (~moving' /\ tilt' = IF p >= TravelUp THEN 0 ELSE t)
  BY <1>3, RequestLeavesEstimate
<1>5. Pace' = Pace
  BY DEF Pace
<1>6. PICK a \in Nat, b \in Nat : a = n * Pace /\ b = l * Pace
  BY SlackGrows
<1>7. IF moving THEN NearAfter(d, p, t, c, l, h, s, a) ELSE Near(p * TravelDown, t, c, h, s, a)
  BY <1>1, <1>3, <1>6 DEF NearWhenCharged
(* What there is to show. *)
<1>8. ASSUME NEW slack \in Nat, slack = adrift' * Pace,
             moving' => NearAfter(d2, p, t, c, l, h, s, slack),
             ~moving' => Near(p * TravelDown, t, c, h, s, slack)
      PROVE  NearWhenCharged'
  <2>1. CASE moving'
    BY <1>3, <1>4, <1>5, <1>8, <2>1 DEF NearWhenCharged
  <2>2. CASE ~moving'
    <3>1. Near(p * TravelDown, IF p >= TravelUp THEN 0 ELSE t, c, h, s, slack)
      BY <1>8, <2>2, StopKeepsNear
    <3>2. Near(p * TravelDown, tilt', c, h, s, slack)
      BY <1>4, <1>8, <2>2, <3>1
    <3> QED
      BY <1>3, <1>4, <1>5, <1>8, <2>2, <3>2 DEF NearWhenCharged
  <2> QED
    BY <2>1, <2>2
<1>9. CASE moving = moving' /\ (moving => direction' = direction)
  <2>1. Switched = 0
    BY <1>1, <1>9, SwitchedIs
  <2>2. adrift' \in Nat /\ adrift' * Pace = a
    BY <1>3, <1>6, <2>1, SlackGrows
  <2> QED
    BY <1>3, <1>7, <1>8, <1>9, <2>2
<1>10. CASE moving # moving'
  <2>1. Switched = 1
    BY <1>1, <1>10, SwitchedIs
  <2>2. adrift' \in Nat /\ adrift' * Pace = a + b /\ a + b \in Nat
    BY <1>3, <1>6, <2>1, SlackGrows
  <2>3. CASE moving
    <3>1. Near(p * TravelDown, t, c, h, s, a + b)
      BY <1>6, <1>7, <2>3, SwitchingIsNear
    <3> QED
      BY <1>2, <1>8, <1>10, <2>2, <2>3, <3>1
  <2>4. CASE ~moving
    <3>1. NearAfter(d2, p, t, c, l, h, s, a + b)
      BY <1>6, <1>7, <2>4, SwitchingIsNear
    <3> QED
      BY <1>2, <1>8, <1>10, <2>2, <2>4, <3>1
  <2> QED
    BY <2>3, <2>4
<1>11. CASE moving /\ moving' /\ direction' # direction
  <2>1. Switched = 2
    BY <1>1, <1>11, SwitchedIs
  <2>2. adrift' \in Nat /\ adrift' * Pace = (a + b) + b
    BY <1>3, <1>6, <2>1, SlackGrows
  <2>3. a + b \in Nat /\ (a + b) + b \in Nat
    OBVIOUS
  <2>4. Near(p * TravelDown, t, c, h, s, a + b)
    BY <1>6, <1>7, <1>11, SwitchingIsNear
  <2>5. NearAfter(d2, p, t, c, l, h, s, (a + b) + b)
    BY <1>6, <2>3, <2>4, SwitchingIsNear
  <2> QED
    BY <1>8, <1>11, <2>2, <2>3, <2>5
<1>12. QED
  BY <1>2, <1>9, <1>10, <1>11

LEMMA BlindRequestStep ==
  ASSUME TimingAssumption, ClockAssumption, BlindInv, CoverInv', BlindRequest
  PROVE  BlindInv'
<1>1. /\ height \in 0..Top /\ slat \in 0..Tilt /\ synced \in BOOLEAN
      /\ SlatsPackAtTop /\ Drift /\ Top' = Top
  BY DEF BlindInv, Top
<1>2. /\ Request /\ asked' = TRUE /\ height' = height /\ slat' = slat /\ synced' = synced
      /\ adrift' = IF synced THEN adrift + late * Switched ELSE 0
  BY DEF BlindRequest, blind
<1>3. started' = started
  BY <1>2, RequestLeavesEstimate
<1>4. ASSUME synced PROVE NearWhenCharged' /\ adrift' \in Nat
  BY <1>2, <1>4, RequestKeepsDrift
<1>5. Drift' /\ adrift' \in Nat
  BY <1>1, <1>2, <1>3, <1>4 DEF Drift
<1>6. SlatsPackAtTop' /\ HomingRun'
  BY <1>1, <1>2 DEF SlatsPackAtTop, HomingRun
<1>7. QED
  BY <1>1, <1>2, <1>5, <1>6 DEF BlindInv

LEMMA BlindInitInv ==
  ASSUME TimingAssumption, ClockAssumption, BlindInit
  PROVE  BlindInv
<1>1. CoverInv
  BY InitInv DEF BlindInit
<1>2. /\ height \in 0..Top /\ slat \in 0..Tilt /\ synced = FALSE /\ asked = FALSE /\ adrift = 0
      /\ SlatsPackAtTop
  BY Paces DEF BlindInit, SlatsPackAtTop
<1>3. HomingRun
  BY DEF BlindInit, Init, AssumeOpen, HomingRun, IsMoving
<1>4. QED
  BY <1>1, <1>2, <1>3 DEF BlindInv, Drift

LEMMA BlindNextKeepsInv ==
  ASSUME TimingAssumption, ClockAssumption, BlindInv, [BlindNext]_blindVars
  PROVE  BlindInv'
<1>1. [Next]_vars
  BY DEF BlindNext, BlindReads, BlindUpdate, BlindRequest, Next, Loop, blindVars
<1>2. CoverInv'
  BY <1>1, NextKeepsInv DEF BlindInv
<1>3. ASSUME NEW e \in Elapsed, BlindReads(e) PROVE BlindInv'
  BY <1>2, <1>3, BlindReadsStep
<1>4. CASE BlindUpdate
  BY <1>2, <1>4, BlindUpdateStep
<1>5. CASE BlindRequest
  BY <1>2, <1>5, BlindRequestStep
<1>6. CASE UNCHANGED blindVars
  <2>1. UNCHANGED <<position, tilt, downCarry, height, slat, synced, asked, adrift, late, moving,
                    reversing, direction, everEnergised, target, goal, started>>
    BY <1>6 DEF blindVars, vars, motor, estimate, aim, blind
  <2>2. Drift'
    BY <2>1 DEF BlindInv, Drift, NearWhenCharged, Pace
  <2>3. SlatsPackAtTop' /\ HomingRun'
    BY <2>1 DEF BlindInv, SlatsPackAtTop, HomingRun, BlindAhead, IsMoving, Top
  <2>4. /\ height' \in 0..Top' /\ slat' \in 0..Tilt /\ synced' \in BOOLEAN /\ asked' \in BOOLEAN
        /\ adrift' \in Nat
    BY <2>1 DEF BlindInv, Top
  <2> QED
    BY <1>2, <2>2, <2>3, <2>4 DEF BlindInv
<1>7. QED
  BY <1>3, <1>4, <1>5, <1>6 DEF BlindNext

(* The inductive invariant: the blind keeps its range, homing its course, and  *)
(* the estimate the coming update will make its distance from the blind in all *)
(* three weights, give or take what commands switched in mid-iteration.        *)
THEOREM BlindInvariantHolds == BlindSpec => []BlindInv
<1>1. BlindInit => BlindInv
  BY BlindInitInv, TimingAssumption, ClockAssumption
<1>2. BlindInv /\ [BlindNext]_blindVars => BlindInv'
  BY BlindNextKeepsInv, TimingAssumption, ClockAssumption
<1>3. QED
  BY <1>1, <1>2, PTL DEF BlindSpec

(* Once the estimate and the blind have been at one limit together, they stay  *)
(* within one slat sweep and one ms of each other, but for the iterations in   *)
(* which a command switched the relays: neither the truncation of              *)
(* downTravelToScale nor the packing of stop() adds up, and how fast the       *)
(* commands do is bounded.                                                     *)
THEOREM EstimateDriftsOnlyByCommands == BlindSpec => []DriftsOnlyByCommands
<1>1. BlindInv => DriftsOnlyByCommands
  <2> SUFFICES ASSUME BlindInv, synced, late = 0
               PROVE  Error < SlatSweep + TravelDown + adrift * Pace
    BY DEF DriftsOnlyByCommands
  <2>1. PICK slack \in Nat : slack = adrift * Pace
    BY SlackType, TimingAssumption DEF BlindInv
  <2>2. Bounded(Distance(position * TravelDown, tilt, downCarry, height, slat, 0), slack)
    BY <2>1, DriftIs, TimingAssumption DEF Near, Weights
  <2> DEFINE x == position * TravelDown
  <2>3. /\ position \in Nat /\ tilt \in Nat /\ slat \in Nat /\ height \in Nat
        /\ downCarry \in 0..(TravelDown - 1)
    BY Paces, TimingAssumption DEF BlindInv, CoverInv, TypeOK
  <2>4. SlatSweep \in Nat /\ TravelDown \in Nat /\ x \in Nat
    BY <2>3, Paces, TimingAssumption
  <2>5. tilt * 0 = 0 /\ slat * 0 = 0
    BY <2>3
  <2>6. Error = IF x >= height THEN x - height ELSE height - x
    BY DEF Error
  <2>7. Bounded(x + 0 - downCarry - height - 0, slack)
    BY <2>2, <2>5 DEF Distance
  <2> HIDE DEF x
  <2>8. Error < SlatSweep + TravelDown + slack
    BY <2>3, <2>4, <2>6, <2>7 DEF Bounded
  <2> QED
    BY <2>1, <2>8
<1>2. QED
  BY <1>1, BlindInvariantHolds, PTL

(* A homing run nobody disturbs ends with blind and estimate at the top,       *)
(* wherever the blind was at power-up and whatever angle its slats had.        *)
THEOREM HomingAlwaysMeasures == BlindSpec => []HomingMeasures
<1>1. BlindInv => HomingMeasures
  BY DEF BlindInv, HomingRun, HomingMeasures, IsMoving
<1>2. QED
  BY <1>1, BlindInvariantHolds, PTL

------------------------------------------------------------------------------
(***************************************************************************)
(* The cover and the switch that works it, for every timing of either,     *)
(* every pace of the control loop and every percentage a command may carry.*)
(***************************************************************************)

(* What one update of a momentary switch may say; the hold that a word begins or *)
(* prolongs is still on when the rule hears it.                                  *)
PressWords == {<<"Press1">>, <<"Press2">>, <<"Press3">>}
HoldWords == {<<"HoldStart">>, <<"HoldLong">>, <<"HoldStart", "HoldLong">>}
Words == {<<>>, <<"HoldEnd">>} \cup PressWords \cup HoldWords

SwitchInv ==
  /\ kind = "Momentary" /\ mode = "Full"
  /\ holding \in BOOLEAN
  /\ holding => stable /\ presses = 0
  /\ emitted \in Words
  /\ emitted \in HoldWords => holding

(* The hold that set the cover going is not committed, and it did so after the *)
(* first update, which alone may set a cover going that rests.                 *)
DeadManIsFree ==
  /\ deadMan \in BOOLEAN
  /\ deadMan => started /\ ~committed
  /\ emitted # <<>> => started

PairInv ==
  /\ CoverInv
  /\ SwitchInv
  /\ DeadManIsFree
  /\ DeadManStops
  /\ CommittedHeadsForEnd

-----------------------------------------------------------------------------
(* The words, as sequences. *)

LEMMA WordsAreDistinct ==
  /\ \A g \in {"Press1", "Press2", "Press3", "HoldStart", "HoldLong", "HoldEnd"} :
       <<g>> # <<>> /\ Head(<<g>>) = g /\ Tail(<<g>>) = <<>> /\ Append(<<>>, g) = <<g>>
  /\ <<"HoldStart", "HoldLong">> # <<>>
  /\ Head(<<"HoldStart", "HoldLong">>) = "HoldStart"
  /\ Tail(<<"HoldStart", "HoldLong">>) = <<"HoldLong">>
  /\ <<"HoldEnd">> \notin HoldWords /\ <<>> \notin HoldWords
  /\ \A w \in PressWords : w \notin HoldWords
<1>1. \A g \in {"Press1", "Press2", "Press3", "HoldStart", "HoldLong", "HoldEnd"} :
        <<g>> # <<>> /\ Head(<<g>>) = g /\ Tail(<<g>>) = <<>> /\ Append(<<>>, g) = <<g>>
  OBVIOUS
<1>2. /\ <<"HoldStart", "HoldLong">> # <<>>
      /\ Head(<<"HoldStart", "HoldLong">>) = "HoldStart"
      /\ Tail(<<"HoldStart", "HoldLong">>) = <<"HoldLong">>
  OBVIOUS
<1>3. <<"HoldEnd">> \notin HoldWords /\ <<>> \notin HoldWords
  BY DEF HoldWords
<1>4. \A w \in PressWords : w \notin HoldWords
  BY DEF HoldWords, PressWords
<1>5. QED
  BY <1>1, <1>2, <1>3, <1>4

LEMMA HoldWordsAre ==
  /\ <<>> \o <<>> = <<>>
  /\ <<"HoldStart">> \o <<>> = <<"HoldStart">>
  /\ <<>> \o <<"HoldLong">> = <<"HoldLong">>
  /\ <<"HoldStart">> \o <<"HoldLong">> = <<"HoldStart", "HoldLong">>
<1> DEFINE S == {"HoldStart", "HoldLong"}
<1>1. /\ <<>> \in Seq(S) /\ <<"HoldStart">> \in Seq(S) /\ <<"HoldLong">> \in Seq(S)
      /\ <<"HoldStart", "HoldLong">> \in Seq(S)
  OBVIOUS
<1>2. /\ <<>> \o <<>> = <<>>
      /\ <<"HoldStart">> \o <<>> = <<"HoldStart">>
      /\ <<>> \o <<"HoldLong">> = <<"HoldLong">>
  BY <1>1, ConcatEmptySeq
<1>3. <<"HoldStart">> \o <<"HoldLong">> = <<"HoldStart", "HoldLong">>
  <2> DEFINE both == <<"HoldStart">> \o <<"HoldLong">>
  <2>1. Len(<<"HoldStart">>) = 1 /\ Len(<<"HoldLong">>) = 1
        /\ Len(<<"HoldStart", "HoldLong">>) = 2
    OBVIOUS
  <2>2. both \in Seq(S) /\ Len(both) = 2 /\ both[1] = "HoldStart" /\ both[2] = "HoldLong"
    BY <1>1, <2>1, ConcatProperties
  <2>3. /\ <<"HoldStart", "HoldLong">>[1] = "HoldStart"
        /\ <<"HoldStart", "HoldLong">>[2] = "HoldLong"
    OBVIOUS
  <2>4. \A i \in 1..Len(both) : both[i] = <<"HoldStart", "HoldLong">>[i]
    BY <2>2, <2>3, 1..2 = {1, 2}
  <2>5. \A s \in Seq(S), t \in Seq(S) :
           Len(s) = Len(t) /\ (\A i \in 1..Len(s) : s[i] = t[i]) => s = t
    BY SeqEqual
  <2>6. QED
    BY <1>1, <2>1, <2>2, <2>4, <2>5, Zenon
<1>4. QED
  BY <1>2, <1>3

-----------------------------------------------------------------------------
(* The switch. *)

(* Presses that are counted out are reported by one word. *)
LEMMA CountingSays ==
  ASSUME NEW n, NEW ms, Switch!CountPresses(n, ms, <<>>)
  PROVE  emitted' \in {<<>>} \cup PressWords
<1>1. \/ emitted' = <<>>
      \/ \E g \in {"Press1", "Press2", "Press3"} : emitted' = Append(<<>>, g)
  BY DEF Switch!CountPresses, Switch!PressGesture
<1>2. QED
  BY <1>1, WordsAreDistinct DEF PressWords

(* Whatever the pin does, an update of the switch says one word, and it holds on *)
(* unless it says the hold has ended.                                            *)
LEMMA SwitchStep ==
  ASSUME SwitchInv, NEW pressed \in BOOLEAN, NEW e, Switch!GestureUpdate(pressed, e)
  PROVE  SwitchInv' /\ (holding => holding' \/ emitted' # <<>>)
<1>1. CASE Switch!HeldUpdate(pressed, e)
  <2> DEFINE starts == ~holding /\ presses = 0 /\ heldFor' >= Hold
             lengthens == (holding \/ starts) /\ ~holdLongSent /\ heldFor' >= HoldLong
  <2>1. kind' = kind /\ mode' = mode /\ stable' /\ presses' = presses
    BY <1>1 DEF Switch!HeldUpdate, Switch!Sample, Switch!switch
  <2>2. /\ holding' = (holding \/ starts)
        /\ emitted' = (IF starts THEN <<"HoldStart">> ELSE <<>>)
                         \o (IF lengthens THEN <<"HoldLong">> ELSE <<>>)
    BY <1>1 DEF Switch!HeldUpdate
  <2>3. holding' \in BOOLEAN
    BY <2>2, Zenon DEF SwitchInv
  <2>4. emitted' \in {<<>>} \cup HoldWords /\ (emitted' # <<>> => holding')
    <3>1. (starts \/ lengthens) => holding'
      BY <2>2
    <3> HIDE DEF starts, lengthens
    <3>2. \/ starts /\ ~lengthens /\ emitted' = <<"HoldStart">>
          \/ starts /\ lengthens /\ emitted' = <<"HoldStart", "HoldLong">>
          \/ ~starts /\ lengthens /\ emitted' = <<"HoldLong">>
          \/ ~starts /\ ~lengthens /\ emitted' = <<>>
      BY <2>2, HoldWordsAre
    <3>3. QED
      BY <3>1, <3>2 DEF HoldWords
  <2>5. QED
    BY <2>1, <2>2, <2>3, <2>4, WordsAreDistinct DEF SwitchInv, Words
<1>2. CASE Switch!UpUpdate(pressed, e) /\ Switch!Edge /\ holding
  <2>1. kind' = kind /\ mode' = mode
    BY <1>2 DEF Switch!UpUpdate, Switch!Sample, Switch!switch
  <2>2. holding' = FALSE /\ Switch!CountPresses(presses, sinceRelease + e, <<"HoldEnd">>)
    BY <1>2 DEF Switch!UpUpdate
  <2>3. presses = 0
    BY <1>2 DEF SwitchInv
  <2>4. emitted' = <<"HoldEnd">>
    BY <2>2, <2>3 DEF Switch!CountPresses, Switch!CountedOut
  <2>5. QED
    BY <2>1, <2>2, <2>4, WordsAreDistinct DEF SwitchInv, Words
<1>3. CASE Switch!UpUpdate(pressed, e) /\ ~(Switch!Edge /\ holding)
  <2>1. kind' = kind /\ mode' = mode /\ ~stable' /\ holding' = holding
    BY <1>3 DEF Switch!UpUpdate, Switch!Sample, Switch!switch
  <2>2. ~holding
    BY <1>3, <2>1 DEF Switch!UpUpdate, Switch!Settle, SwitchInv
  <2>3. emitted' \in {<<>>} \cup PressWords
    BY <1>3, CountingSays DEF Switch!UpUpdate
  <2>4. emitted' \in Words /\ emitted' \notin HoldWords
    BY <2>3, WordsAreDistinct DEF Words
  <2>5. QED
    BY <2>1, <2>2, <2>4 DEF SwitchInv
<1>4. ~Switch!InstantUpdate(pressed, e) /\ ~Switch!ToggleUpdate(pressed, e)
  BY DEF SwitchInv, Switch!InstantUpdate, Switch!ToggleUpdate
<1>5. QED
  BY <1>1, <1>2, <1>3, <1>4 DEF Switch!GestureUpdate

(* Dispatching a gesture leaves the rest of a word, and the hold as it is. *)
LEMMA DispatchOfWord ==
  ASSUME SwitchInv, emitted # <<>>, emitted' = Tail(emitted), UNCHANGED switchVars
  PROVE  /\ SwitchInv'
         /\ \/ Head(emitted) \in {"Press1", "Press2", "Press3"} /\ emitted' = <<>>
            \/ Head(emitted) = "HoldStart" /\ holding'
            \/ Head(emitted) = "HoldLong" /\ holding' /\ emitted' = <<>>
            \/ Head(emitted) = "HoldEnd" /\ emitted' = <<>>
<1>1. /\ kind' = kind /\ mode' = mode /\ holding' = holding /\ stable' = stable
      /\ presses' = presses
  BY DEF switchVars
<1>2. CASE emitted \in PressWords
  <2>1. Head(emitted) \in {"Press1", "Press2", "Press3"} /\ emitted' = <<>>
    BY <1>2, WordsAreDistinct DEF PressWords
  <2>2. QED
    BY <1>1, <2>1, WordsAreDistinct DEF SwitchInv, Words
<1>3. CASE emitted = <<"HoldEnd">>
  <2>1. Head(emitted) = "HoldEnd" /\ emitted' = <<>>
    BY <1>3, WordsAreDistinct
  <2>2. QED
    BY <1>1, <2>1, WordsAreDistinct DEF SwitchInv, Words
<1>4. CASE emitted \in HoldWords
  <2>1. holding
    BY <1>4 DEF SwitchInv
  <2>2. \/ Head(emitted) = "HoldStart" /\ emitted' \in {<<>>, <<"HoldLong">>}
        \/ Head(emitted) = "HoldLong" /\ emitted' = <<>>
    BY <1>4, WordsAreDistinct DEF HoldWords
  <2>3. emitted' \in Words
    BY <2>2 DEF Words, HoldWords
  <2>4. QED
    BY <1>1, <2>1, <2>2, <2>3 DEF SwitchInv
<1>5. QED
  BY <1>2, <1>3, <1>4 DEF SwitchInv, Words

-----------------------------------------------------------------------------
(* The cover.  Every step of the pair is a step of the Cover or leaves it alone. *)

LEMMA ReactIsRequest ==
  ASSUME NEW gesture, React(gesture)
  PROVE  [Next]_vars
BY DEF React, Next, Request

LEMMA PairStepIsCoverStep ==
  ASSUME [PairNext]_pairVars
  PROVE  [Next]_vars
<1>1. CASE \E e \in Elapsed : Begin(e)
  BY <1>1 DEF Begin, Next, Loop
<1>2. CASE Iterate
  BY <1>2 DEF Iterate, Next, Loop
<1>3. CASE Command
  <2>1. ASSUME React("Press1") PROVE [Next]_vars
    BY <2>1, ReactIsRequest
  <2> QED
    BY <1>3, <2>1 DEF Command, Next, Request
<1>4. CASE Dispatch
  BY <1>4, ReactIsRequest DEF Dispatch
<1>5. CASE UNCHANGED pairVars
  BY <1>5 DEF pairVars
<1>6. QED
  BY <1>1, <1>2, <1>3, <1>4, <1>5 DEF PairNext

(* Asked for a direction between two updates, the cover heads there. *)
LEMMA AskedForDirection ==
  ASSUME TimingAssumption, ClockAssumption, CoverInv,
         NEW d \in Directions, RequestMove(d, sinceOff), StateKept
  PROVE  IsMoving' /\ Heading' = d
<1>1. MotorOK /\ Record(late) /\ late' = late
  BY MotorOKFromInv DEF StateKept
<1>2. Instant(sinceOff, late)
  BY <1>1, RequestIsInstant
<1>3. QED
  BY <1>1, <1>2, RequestMoveKeeps

(* An update sets nothing going that rests, unless it is the first one, and what *)
(* was committed is so still, headed where it was, or at rest.                   *)
LEMMA UpdateCommits ==
  ASSUME CoverInv, CommittedHeadsForEnd, Update
  PROVE  /\ CommittedHeadsForEnd' /\ started'
         /\ committed' => committed
         /\ started /\ IsMoving' => IsMoving
<1> DEFINE e == late
<1>1. CASE Start(e) /\ committed'
  <2>1. /\ moving' = moving /\ reversing' = reversing /\ direction' = direction
        /\ pending' = pending /\ target' = target /\ committed' = committed
        /\ goal' = GoalAfter(e) /\ started' /\ ~started
    BY <1>1 DEF Start, AimAt
  <2>2. goal' = goal
    BY <1>1, <2>1 DEF CommittedHeadsForEnd, GoalAfter
  <2>3. QED
    BY <2>1, <2>2 DEF CommittedHeadsForEnd, IsMoving, Heading
<1>2. CASE Start(e) /\ ~committed'
  BY <1>2 DEF Start, CommittedHeadsForEnd
<1>3. CASE Wait(e)
  <2>1. /\ moving' = moving /\ reversing' = reversing /\ direction' = direction
        /\ pending' = pending /\ target' = target /\ committed' = committed
        /\ goal' = GoalAfter(e) /\ started' = started /\ started
    BY <1>3 DEF Wait
  <2>2. QED
    BY <2>1 DEF CommittedHeadsForEnd, IsMoving, Heading, GoalAfter
<1>4. CASE Resume(e)
  <2>1. /\ moving' /\ reversing' = FALSE /\ reversing /\ direction' = pending
        /\ target' = target /\ committed' = committed
        /\ goal' = GoalAfter(e) /\ started' = started /\ started
    BY <1>4 DEF Resume, Energize
  <2>2. QED
    BY <2>1 DEF CommittedHeadsForEnd, IsMoving, Heading, GoalAfter
<1>5. CASE Travel(e)
  <2>1. /\ moving' = moving /\ reversing' = reversing /\ direction' = direction
        /\ pending' = pending /\ target' = target /\ committed' = committed
        /\ goal' = GoalAfter(e) /\ started' = started /\ started
    BY <1>5 DEF Travel, motor
  <2>2. QED
    BY <2>1 DEF CommittedHeadsForEnd, IsMoving, Heading, GoalAfter
<1>6. CASE Arrive(e)
  <2>1. /\ moving' = FALSE /\ reversing' = FALSE /\ committed' = FALSE
        /\ started' = started /\ started
    BY <1>6 DEF Arrive, StopAt
  <2>2. QED
    BY <2>1 DEF CommittedHeadsForEnd, IsMoving
<1>7. QED
  BY <1>1, <1>2, <1>3, <1>4, <1>5, <1>6 DEF Update

(* A command, or a press on another panel, leaves the run as it is, or takes the *)
(* commitment back.                                                             *)
LEMMA CommandUncommits ==
  ASSUME CommittedHeadsForEnd, Command
  PROVE  /\ CommittedHeadsForEnd' /\ started' = started
         /\ UNCHANGED <<motor, aim>> \/ ~committed'
<1>1. CASE UNCHANGED <<motor, aim>> /\ StateKept
  BY <1>1 DEF motor, aim, StateKept, CommittedHeadsForEnd, IsMoving, Heading
<1>2. CASE committed' = FALSE /\ started' = started
  BY <1>2 DEF CommittedHeadsForEnd
<1>3. CASE React("Press1")
  <2>1. \/ IsMoving /\ Stop
        \/ ~IsMoving /\ StepAlongDirection
    BY <1>3 DEF React
  <2>2. committed' = FALSE \/ (~IsMoving /\ committed' = committed)
    BY <2>1 DEF Stop, StopAt, StepAlongDirection
  <2>3. started' = started
    BY <2>1 DEF Stop, StepAlongDirection, StateKept
  <2> QED
    BY <2>2, <2>3 DEF CommittedHeadsForEnd
<1>4. QED
  BY <1>1, <1>2, <1>3 DEF Command, SetPosition, SetTilt, AimAt, Stop, StopAt, StateKept

(* A gesture commits the cover by a long hold alone, which drives it to the end *)
(* of the direction it goes in; the end of a hold stops it unless it is         *)
(* committed.                                                                   *)
LEMMA ReactCommits ==
  ASSUME TimingAssumption, ClockAssumption, CoverInv, CommittedHeadsForEnd,
         NEW gesture, React(gesture)
  PROVE  /\ CommittedHeadsForEnd' /\ started' = started
         /\ gesture = "HoldStart" => ~committed'
         /\ gesture = "HoldEnd" /\ ~committed => ~committed' /\ ~IsMoving'
<1>1. direction \in Directions
  BY MotorOKFromInv DEF MotorOK
<1>2. ~IsMoving => ~committed
  BY DEF CommittedHeadsForEnd
<1>3. CASE Stop
  BY <1>3 DEF Stop, StopAt, CommittedHeadsForEnd, IsMoving
<1>4. CASE gesture = "Press1" /\ ~IsMoving /\ StepAlongDirection
  BY <1>2, <1>4 DEF StepAlongDirection, StateKept, CommittedHeadsForEnd
<1>5. CASE gesture = "Press2" /\ ToggleDirection
  BY <1>2, <1>5 DEF ToggleDirection, StateKept, aim, CommittedHeadsForEnd
<1>6. CASE gesture = "Press3" /\ UNCHANGED vars
  BY <1>6 DEF vars, motor, aim, CommittedHeadsForEnd, IsMoving, Heading
<1>7. CASE gesture = "HoldStart" /\ MoveAlongDirection
  BY <1>7 DEF MoveAlongDirection, StateKept, CommittedHeadsForEnd
<1>8. CASE gesture = "HoldLong" /\ MoveToEnd
  <2>1. /\ target' = "Position" /\ goal' = (IF direction = "Up" THEN TravelUp ELSE 0)
        /\ RequestMove(direction, sinceOff) /\ StateKept /\ started' = started
    BY <1>8 DEF MoveToEnd, StateKept
  <2>2. IsMoving' /\ Heading' = direction
    BY <1>1, <2>1, AskedForDirection
  <2>3. QED
    BY <1>8, <2>1, <2>2 DEF CommittedHeadsForEnd
<1>9. CASE gesture = "HoldEnd" /\ committed /\ UNCHANGED vars
  BY <1>9 DEF vars, motor, aim, CommittedHeadsForEnd, IsMoving, Heading
<1>10. QED
  BY <1>3, <1>4, <1>5, <1>6, <1>7, <1>8, <1>9 DEF React, ReleaseHold

-----------------------------------------------------------------------------
(* The steps of the pair. *)

(* The clock is read: only time passes. *)
LEMMA BeginStep ==
  ASSUME PairInv, NEW e \in Elapsed, Begin(e)
  PROVE  SwitchInv' /\ DeadManIsFree' /\ DeadManStops' /\ CommittedHeadsForEnd'
<1>1. /\ SwitchInv /\ DeadManIsFree /\ DeadManStops /\ CommittedHeadsForEnd
      /\ UNCHANGED <<switchVars, emitted, deadMan, motor, aim, started>>
  BY DEF PairInv, Begin, ReadClock
<1>2. SwitchInv'
  BY <1>1 DEF SwitchInv, switchVars
<1>3. DeadManIsFree' /\ DeadManStops' /\ CommittedHeadsForEnd'
  BY <1>1 DEF DeadManIsFree, DeadManStops, CommittedHeadsForEnd, switchVars, motor, aim,
     IsMoving, Heading
<1>4. QED
  BY <1>2, <1>3

LEMMA IterateStep ==
  ASSUME PairInv, Iterate
  PROVE  SwitchInv' /\ DeadManIsFree' /\ DeadManStops' /\ CommittedHeadsForEnd'
<1>1. /\ CoverInv /\ SwitchInv /\ DeadManIsFree /\ DeadManStops /\ CommittedHeadsForEnd
      /\ emitted = <<>> /\ deadMan' = deadMan
  BY DEF PairInv, Iterate
<1>2. SwitchInv' /\ (holding => holding' \/ emitted' # <<>>)
  <2>1. PICK pressed \in BOOLEAN : Switch!GestureUpdate(pressed, late)
    BY DEF Iterate
  <2> QED
    BY <1>1, <2>1, SwitchStep
<1>3. /\ CommittedHeadsForEnd' /\ started'
      /\ committed' => committed
      /\ started /\ IsMoving' => IsMoving
  BY <1>1, UpdateCommits DEF Iterate
<1>4. DeadManIsFree'
  BY <1>1, <1>3 DEF DeadManIsFree
<1>5. DeadManStops'
  BY <1>1, <1>2, <1>3 DEF DeadManStops, DeadManIsFree
<1>6. QED
  BY <1>2, <1>3, <1>4, <1>5

LEMMA CommandStep ==
  ASSUME PairInv, Command
  PROVE  SwitchInv' /\ DeadManIsFree' /\ DeadManStops' /\ CommittedHeadsForEnd'
<1>1. /\ SwitchInv /\ DeadManIsFree /\ DeadManStops /\ CommittedHeadsForEnd
      /\ UNCHANGED <<switchVars, emitted>>
      /\ deadMan' = (deadMan /\ UNCHANGED <<motor, aim>>)
  BY DEF PairInv, Command
<1>2. CommittedHeadsForEnd' /\ started' = started
  BY <1>1, CommandUncommits
<1>3. SwitchInv'
  BY <1>1 DEF SwitchInv, switchVars
<1>4. deadMan' \in BOOLEAN
  BY <1>1, Zenon
<1>5. deadMan' => deadMan /\ UNCHANGED <<motor, aim>>
  BY <1>1
<1>6. DeadManIsFree'
  BY <1>1, <1>2, <1>4, <1>5 DEF DeadManIsFree, aim
<1>7. DeadManStops'
  BY <1>1, <1>5 DEF DeadManStops, motor, switchVars, IsMoving
<1>8. QED
  BY <1>2, <1>3, <1>6, <1>7

LEMMA DispatchStep ==
  ASSUME TimingAssumption, ClockAssumption, PairInv, Dispatch
  PROVE  SwitchInv' /\ DeadManIsFree' /\ DeadManStops' /\ CommittedHeadsForEnd'
<1>1. /\ CoverInv /\ SwitchInv /\ DeadManIsFree /\ DeadManStops /\ CommittedHeadsForEnd
      /\ emitted # <<>> /\ emitted' = Tail(emitted) /\ UNCHANGED switchVars
      /\ React(Head(emitted))
      /\ deadMan' = IF Head(emitted) = "HoldEnd" THEN deadMan ELSE Head(emitted) = "HoldStart"
  BY DEF PairInv, Dispatch
<1>2. /\ SwitchInv'
      /\ \/ Head(emitted) \in {"Press1", "Press2", "Press3"} /\ emitted' = <<>>
         \/ Head(emitted) = "HoldStart" /\ holding'
         \/ Head(emitted) = "HoldLong" /\ holding' /\ emitted' = <<>>
         \/ Head(emitted) = "HoldEnd" /\ emitted' = <<>>
  BY <1>1, DispatchOfWord
<1>3. /\ CommittedHeadsForEnd' /\ started' = started
      /\ Head(emitted) = "HoldStart" => ~committed'
      /\ Head(emitted) = "HoldEnd" /\ ~committed => ~committed' /\ ~IsMoving'
  BY <1>1, ReactCommits
<1>4. started
  BY <1>1 DEF DeadManIsFree
<1>5. deadMan' \in BOOLEAN
  BY <1>1, Zenon DEF DeadManIsFree
<1>6. deadMan' => \/ Head(emitted) = "HoldStart"
                  \/ Head(emitted) = "HoldEnd" /\ deadMan /\ ~committed
  BY <1>1 DEF DeadManIsFree
<1>7. DeadManIsFree'
  BY <1>3, <1>4, <1>5, <1>6 DEF DeadManIsFree
<1>8. DeadManStops'
  BY <1>2, <1>3, <1>6 DEF DeadManStops
<1>9. QED
  BY <1>2, <1>3, <1>7, <1>8

LEMMA PairInitInv ==
  ASSUME TimingAssumption, ClockAssumption, PairInit
  PROVE  PairInv
<1>1. CoverInv
  BY InitInv DEF PairInit
<1>2. /\ kind = "Momentary" /\ mode = "Full" /\ holding = FALSE /\ emitted = <<>>
      /\ deadMan = FALSE /\ committed = FALSE
  BY DEF PairInit, Init, Switch!GestureInit
<1>3. SwitchInv
  BY <1>2, WordsAreDistinct DEF SwitchInv, Words
<1>4. QED
  BY <1>1, <1>2, <1>3 DEF PairInv, DeadManIsFree, DeadManStops, CommittedHeadsForEnd

LEMMA PairStep ==
  ASSUME TimingAssumption, ClockAssumption, PairInv, [PairNext]_pairVars
  PROVE  PairInv'
<1>1. CoverInv'
  BY PairStepIsCoverStep, NextKeepsInv DEF PairInv
<1>2. CASE PairNext
  BY <1>1, <1>2, BeginStep, IterateStep, CommandStep, DispatchStep DEF PairNext, PairInv
<1>3. CASE UNCHANGED pairVars
  <2>1. SwitchInv'
    BY <1>3 DEF PairInv, SwitchInv, pairVars, switchVars
  <2>2. DeadManIsFree' /\ DeadManStops' /\ CommittedHeadsForEnd'
    BY <1>3 DEF PairInv, DeadManIsFree, DeadManStops, CommittedHeadsForEnd, pairVars,
       switchVars, vars, motor, aim, IsMoving, Heading
  <2>3. QED
    BY <1>1, <2>1, <2>2 DEF PairInv
<1>4. QED
  BY <1>2, <1>3

LEMMA PairInvHolds == PairSpec => []PairInv
<1>1. PairInit => PairInv
  BY PairInitInv, TimingAssumption, ClockAssumption
<1>2. PairInv /\ [PairNext]_pairVars => PairInv'
  BY PairStep, TimingAssumption, ClockAssumption
<1>3. QED
  BY <1>1, <1>2, PTL DEF PairSpec

-----------------------------------------------------------------------------
(* The hold is dead-man control for every timing of cover and switch and every   *)
(* interleaving with MQTT: a run a hold started and nothing took over goes on     *)
(* only while the switch is held or its HoldEnd is about to be heard              *)
(* (binding.cpp, CoverRule::handle; cover.cpp, releaseHold).                      *)
THEOREM DeadManAlwaysStops == PairSpec => []DeadManStops
<1>1. PairInv => DeadManStops
  BY DEF PairInv
<1>2. QED
  BY <1>1, PairInvHolds, PTL

(* The commitment releaseHold trusts is always a run to a limit (cover.cpp        *)
(* 249-261): no gesture, command or reversal leaves it on a run that ends         *)
(* elsewhere, or never.                                                           *)
THEOREM CommittedAlwaysHeadsForEnd == PairSpec => []CommittedHeadsForEnd
<1>1. PairInv => CommittedHeadsForEnd
  BY DEF PairInv
<1>2. QED
  BY <1>1, PairInvHolds, PTL

(* Worked by the switch and by MQTT in any order, the cover is still the cover of *)
(* its own module, and its motor rests as Motor says, short of the full rest by   *)
(* the iterations its releases were dated early: the rule calls only what Cover   *)
(* offers, so all that is proved of Cover alone holds of the pair.                *)
THEOREM PairImplementsCoverAndMotor == PairSpec => Spec /\ MotorSpec
<1>1. PairInit => Init
  BY DEF PairInit
<1>2. [PairNext]_pairVars => [Next]_vars
  BY PairStepIsCoverStep
<1>3. PairSpec => Spec
  BY <1>1, <1>2, PTL DEF PairSpec, Spec
<1>4. QED
  BY <1>3, CoverImplementsMotor, PTL

(* What the wall switch asks, it asks when an update is done and before the     *)
(* clock is read again: left to it alone, the pair gives the motor the full     *)
(* rest.                                                                        *)
HeardInTime == emitted # <<>> => late = 0

THEOREM PairGivesFullRest == PairSpec /\ [][~Command]_pairVars => FullRest
<1>1. PairInit => HeardInTime
  BY DEF PairInit, Switch!GestureInit, HeardInTime
<1>2. HeardInTime /\ [PairNext]_pairVars => HeardInTime'
  <2> SUFFICES ASSUME HeardInTime, [PairNext]_pairVars PROVE HeardInTime'
    OBVIOUS
  <2>1. ASSUME NEW e \in Elapsed, Begin(e) PROVE HeardInTime'
    BY <2>1 DEF Begin, HeardInTime
  <2>2. CASE Iterate
    <3>1. late' = 0
      BY <2>2 DEF Iterate, Update, Start, Wait, Resume, Travel, Arrive, CatchUp
    <3> QED
      BY <3>1 DEF HeardInTime
  <2>3. CASE Command
    BY <2>3 DEF Command, HeardInTime
  <2>4. CASE Dispatch
    <3>1. late' = late
      BY <2>4 DEF Dispatch, React, Stop, StepAlongDirection, ToggleDirection,
         MoveAlongDirection, MoveToEnd, ReleaseHold, StateKept, vars
    <3> QED
      BY <2>4, <3>1 DEF Dispatch, HeardInTime
  <2>5. CASE UNCHANGED pairVars
    BY <2>5 DEF pairVars, vars, HeardInTime
  <2> QED
    BY <2>1, <2>2, <2>3, <2>4, <2>5 DEF PairNext
<1>3. HeardInTime /\ [PairNext]_pairVars /\ [~Command]_pairVars => [Request => late = 0]_vars
  <2> SUFFICES ASSUME HeardInTime, PairNext, ~Command, ~UNCHANGED vars, Request
               PROVE  late = 0
    BY DEF pairVars
  <2>1. late' = late
    BY DEF Request, SetPosition, SetTilt, Stop, StepAlongDirection, ToggleDirection,
       MoveAlongDirection, MoveToEnd, ReleaseHold, StateKept
  <2>2. ASSUME NEW e \in Elapsed, Begin(e) PROVE late = 0
    BY <2>2 DEF Begin, ReadClock
  <2>3. CASE Iterate
    BY <2>1, <2>3 DEF Iterate, Update, Start, Wait, Resume, Travel, Arrive, CatchUp
  <2>4. CASE Dispatch
    BY <2>4 DEF Dispatch, HeardInTime
  <2> QED
    BY <2>2, <2>3, <2>4 DEF PairNext
<1>4. PairSpec => []HeardInTime
  BY <1>1, <1>2, PTL DEF PairSpec
<1>5. PairSpec /\ [][~Command]_pairVars => SwitchesOnly
  BY <1>3, <1>4, PTL DEF PairSpec, SwitchesOnly
<1>6. QED
  BY <1>5, PairImplementsCoverAndMotor, SwitchesGiveFullRest, PTL
=============================================================================
