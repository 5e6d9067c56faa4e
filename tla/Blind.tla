-------------------------------- MODULE Blind --------------------------------
(***************************************************************************)
(* A Cover and the blind it drives.  The code has no position feedback:    *)
(* cover.cpp integrates the time a winding was live, and this module adds  *)
(* the thing that integral stands for, so that the estimate can be         *)
(* compared with it.  The blind is modelled as cover.h:13-23 describes it: *)
(* the slats turn before the blind moves, they have no angle at the very   *)
(* top, and both limits are hard stops.  Travel times are the measured     *)
(* ones.                                                                   *)
(*                                                                         *)
(* height is in units of 1/TravelDown of a ms of upward travel, so that a  *)
(* ms of descent is a whole number of them and nothing is rounded here.    *)
(***************************************************************************)
EXTENDS Cover

VARIABLES
  height, slat,  \* where the blind really is
  synced,        \* history: since power-up, the estimate and the blind were at
                 \* the same limit at once
  asked,         \* history: something was asked of the cover since power-up
  adrift         \* history: ms of run the estimate was not told of, or was told
                 \* of in vain, since then or since they last met at a limit

CONSTANT MaxAdrift  \* bound on adrift

blind == <<height, slat>>
blindVars == <<vars, blind, synced, asked, adrift>>

Top == TravelUp * TravelDown

Pulled(e) ==
  LET turn == Least(e, Tilt - slat)
      h == Least(height + (e - turn) * TravelDown, Top) IN
  IF height = Top THEN [height |-> Top, slat |-> 0]
  ELSE [height |-> h, slat |-> IF h = Top THEN 0 ELSE slat + turn]

Lowered(e) ==
  LET turn == Least(e, slat) IN
  [height |-> height - Least((e - turn) * TravelUp, height), slat |-> slat - turn]

(* The blind over e ms under the relays. *)
Driven(e) ==
  LET after == IF up THEN Pulled(e)
               ELSE IF down THEN Lowered(e)
               ELSE [height |-> height, slat |-> slat] IN
  /\ height' = after.height
  /\ slat' = after.slat

AtSameLimit ==
  \/ position = TravelUp /\ height = Top
  \/ position = 0 /\ height = 0 /\ tilt = slat

(* Power-up, after a power cut included: the blind is wherever it was left. *)
BlindInit ==
  /\ Init
  /\ height \in 0..Top
  /\ slat \in (IF height = Top THEN {0} ELSE 0..Tilt)
  /\ synced = FALSE /\ asked = FALSE /\ adrift = 0

(* Time passes from one iteration to the next. *)
BlindReads(e) ==
  /\ ReadClock(e) /\ Driven(e)
  /\ UNCHANGED <<synced, asked, adrift>>

MeetAtLimit == ~moving /\ AtSameLimit

BlindUpdate ==
  /\ Update /\ UNCHANGED <<blind, asked>>
  /\ synced' = (synced \/ MeetAtLimit')
  /\ adrift' = IF MeetAtLimit' THEN 0 ELSE adrift

(* The coming update integrates late ms under the relays it finds: those that a *)
(* request has switched on have not driven the blind for them, and those it has *)
(* switched off have.                                                           *)
Switched == (IF up' # up THEN 1 ELSE 0) + (IF down' # down THEN 1 ELSE 0)

BlindRequest ==
  /\ Request /\ asked' = TRUE
  /\ adrift' = (IF synced THEN adrift + late * Switched ELSE 0) /\ adrift' <= MaxAdrift
  /\ UNCHANGED <<blind, synced>>

BlindNext ==
  \/ \E e \in Elapsed : BlindReads(e)
  \/ BlindUpdate
  \/ BlindRequest

BlindSpec == BlindInit /\ [][BlindNext]_blindVars

------------------------------------------------------------------------------
BlindTypeOK ==
  /\ TypeOK
  /\ height \in 0..Top /\ slat \in 0..Tilt
  /\ synced \in BOOLEAN /\ asked \in BOOLEAN /\ adrift \in Nat

Error ==
  IF position * TravelDown >= height
  THEN position * TravelDown - height
  ELSE height - position * TravelDown

(* What the blind travels in a ms, in whichever direction it is faster, and in *)
(* the time its slats take to turn over.                                       *)
Pace == IF TravelUp >= TravelDown THEN TravelUp ELSE TravelDown
SlatSweep == Tilt * Pace

(* Once synchronised, whatever is asked in whatever order, the estimate is off  *)
(* by no more than one slat sweep, one ms, and the iterations in which commands *)
(* switched the relays: an MQTT command acts after the clock was read, and the  *)
(* iteration is charged to the relays it leaves.  Nothing else adds up: the     *)
(* carried remainder of downTravelToScale and the packing in stop() see to it;  *)
(* the slat sweep is the angle one run may charge to the wrong axis.            *)
DriftsOnlyByCommands ==
  synced /\ late = 0 => Error < SlatSweep + TravelDown + adrift * Pace

(* home_at_boot "ends against the stop with a position that is measured"       *)
(* (docs/config_reference.md:209): when the homing run ends undisturbed, blind *)
(* and estimate are both at the top, wherever the blind was at power-up.       *)
HomingMeasures ==
  HomeAtBoot /\ started /\ ~asked /\ ~IsMoving => position = TravelUp /\ height = Top
==============================================================================
