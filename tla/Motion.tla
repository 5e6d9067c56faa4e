------------------------------- MODULE Motion -------------------------------
(* Motion lighting: occupancy sensors, the motion rules bound to them, and the *)
(* lights the rules share with wall switches and with Home Assistant.          *)
(*                                                                             *)
(* One iteration of the control loop (main.cpp:260-296) is Begin, then a Scan  *)
(* of every local sensor (BinarySensor::update emits through EventRouter into  *)
(* MotionRule::handle), then an UpdateRule of every rule (BindingSet).  What   *)
(* MQTT brings is handled between iterations.  A remote sensor sits on another *)
(* controller: what arrives here is what it reports, unless that is lost.      *)
EXTENDS Naturals, FiniteSets

CONSTANTS
    Local, Remote,      \* occupancy sensors: on a pin here, on another controller
    Lights, Gated,      \* on/off targets, and those that carry a night_mode gate
    Rules,              \* motion bindings, numbered in configuration order
    Sources, Targets,   \* their sensors and their lights
    ToggleGroups,       \* the light sets of the toggle bindings
    OffDelay, Debounce,
    Elapsed             \* bound: ms an iteration of the loop may take

Sensors == Local \cup Remote

ASSUME SensorAssumption == Local \cap Remote = {} /\ Gated \subseteq Lights
ASSUME RuleAssumption ==
    /\ Rules \subseteq Nat /\ Local \cap Rules = {}
    /\ Sources \in [Rules -> SUBSET Sensors]
    /\ Targets \in [Rules -> SUBSET Lights]
    /\ ToggleGroups \subseteq SUBSET Lights
ASSUME DelayAssumption ==
    OffDelay \in Nat \ {0} /\ Debounce \in Nat /\ Elapsed \subseteq Nat

VARIABLES
    todo,               \* sensors and rules this iteration has still to visit
    raw, rawSince,      \* local sensors: the pin as last sampled, and its age
    stable,             \* the debounced level; of a remote sensor, its own report
    light, gate,        \* Relay::on_ and nightMode_
    active,             \* sourceActive_
    on, turnedOn,       \* on_, and turnedOn_ as the set of lights it marks
    running, armed,     \* countdownRunning_, countdownArmed_
    countdown,          \* since countdownStartMs_
    \* History, read by no action:
    quiet,              \* how long no source a rule hears has been active
    silent,             \* sensors from which nothing was ever heard
    stale,              \* remote sensors whose newest report was lost
    night               \* lights whose gate was open at some time since no rule
                        \* that targets them was on

pins == <<raw, rawSince>>
rules == <<active, on, turnedOn, running, armed>>
vars == <<todo, pins, stable, light, gate, rules, countdown, quiet, silent, stale, night>>

UpTo(ms, threshold) == IF ms <= threshold THEN ms ELSE threshold

(* Who hears a sensor.  A local one is a key every rule subscribes to.  Each    *)
(* rule that names a remote one interns rows of its own, and find() returns     *)
(* the first row that matches: the first rule's.                                *)
Hears(r, s) ==
    /\ s \in Sources[r]
    /\ s \in Remote => \A q \in Rules : s \in Sources[q] => r <= q

(* Boot is silent: levels are adopted and no rule is told (config_reference).   *)
MotionInit ==
    /\ todo = {}
    /\ raw \in [Local -> BOOLEAN] /\ rawSince = [s \in Local |-> Debounce]
    /\ stable \in {f \in [Sensors -> BOOLEAN] : \A s \in Local : f[s] = raw[s]}
    /\ light = [l \in Lights |-> FALSE] /\ gate = [l \in Lights |-> TRUE]
    /\ active = [r \in Rules |-> [s \in Sensors |-> FALSE]]
    /\ on = [r \in Rules |-> FALSE] /\ turnedOn = [r \in Rules |-> {}]
    /\ running = [r \in Rules |-> FALSE] /\ armed = [r \in Rules |-> FALSE]
    /\ countdown = [r \in Rules |-> 0]
    /\ quiet = [r \in Rules |-> OffDelay]
    /\ silent = Sensors /\ stale = {} /\ night = Lights

(* Gates apply to lights; anything else is never gated. *)
Open(l) == l \in Gated => gate[l]

NightAfter ==
    night' = {l \in Lights : \/ l \in Gated => gate'[l]
                             \/ l \in night /\ \E r \in Rules : l \in Targets[r] /\ on'[r]}

-----------------------------------------------------------------------------
(* EventRouter::emit and MotionRule::handle, for each rule in `hearing`. *)
Tell(hearing, s, level) ==
    LET starting == {r \in hearing : level /\ ~on[r]}
        claimed(r) == {l \in Targets[r] : Open(l)}
        nowQuiet(r) == \A q \in Sensors : ~active'[r][q]
        ended == {r \in hearing : ~level /\ on[r] /\ nowQuiet(r)} IN
    /\ active' = [r \in Rules |-> IF r \in hearing THEN [active[r] EXCEPT ![s] = level]
                                                   ELSE active[r]]
    /\ on' = [r \in Rules |-> on[r] \/ r \in starting]
    /\ turnedOn' = [r \in Rules |-> turnedOn[r] \cup IF r \in starting THEN claimed(r) ELSE {}]
    /\ light' = [l \in Lights |-> light[l] \/ \E r \in starting : l \in claimed(r)]
    /\ running' = [r \in Rules |-> IF level /\ r \in hearing THEN FALSE
                                   ELSE running[r] \/ r \in ended]
    /\ armed' = [r \in Rules |-> armed[r] /\ ~(r \in ended \/ (level /\ r \in hearing))]

(* Mutants: only the first subscriber is told; a countdown starts for a rule    *)
(* that is off; new activity forgets to disarm the countdown it stops.          *)
NotifyFirst(s, level) ==
    Tell({r \in Rules : Hears(r, s) /\ \A q \in Rules : Hears(q, s) => r <= q}, s, level)

NotifyCountsWhenOff(s, level) ==
    LET hearing == {r \in Rules : Hears(r, s)} IN
    /\ active' = [r \in Rules |-> IF r \in hearing THEN [active[r] EXCEPT ![s] = level]
                                                   ELSE active[r]]
    /\ running' = [r \in Rules |-> IF r \in hearing
                                   THEN ~level /\ \A q \in Sensors : ~active'[r][q]
                                   ELSE running[r]]
    /\ armed' = [r \in Rules |-> armed[r] /\ r \notin hearing]
    /\ UNCHANGED <<on, turnedOn, light>>

NotifyStaysArmed(s, level) ==
    LET hearing == {r \in Rules : Hears(r, s)}
        starting == {r \in hearing : level /\ ~on[r]}
        ended == {r \in hearing : ~level /\ on[r] /\ \A q \in Sensors : ~active'[r][q]} IN
    /\ active' = [r \in Rules |-> IF r \in hearing THEN [active[r] EXCEPT ![s] = level]
                                                   ELSE active[r]]
    /\ on' = [r \in Rules |-> on[r] \/ r \in starting]
    /\ turnedOn' = [r \in Rules |-> turnedOn[r] \cup
                       IF r \in starting THEN {l \in Targets[r] : Open(l)} ELSE {}]
    /\ light' = [l \in Lights |-> light[l] \/ \E r \in starting : l \in Targets[r] /\ Open(l)]
    /\ running' = [r \in Rules |-> IF level /\ r \in hearing THEN FALSE
                                   ELSE running[r] \/ r \in ended]
    /\ UNCHANGED armed

Notify(s, level) == Tell({r \in Rules : Hears(r, s)}, s, level)

Unmoved == UNCHANGED <<light, rules>>

-----------------------------------------------------------------------------
(* A new iteration: e ms have passed since the last one. *)
Begin(e) ==
    /\ todo = {} /\ todo' = Local \cup Rules
    /\ rawSince' = [s \in Local |-> UpTo(rawSince[s] + e, Debounce)]
    /\ countdown' = [r \in Rules |-> IF armed[r] THEN UpTo(countdown[r] + e, OffDelay) ELSE 0]
    /\ quiet' = [r \in Rules |-> IF \E s \in Sensors : active[r][s] THEN 0
                                 ELSE UpTo(quiet[r] + e, OffDelay)]
    /\ UNCHANGED <<raw, stable, light, gate, rules, silent, stale, night>>

(* BinarySensor::update. *)
Scan(s, level) ==
    /\ s \in todo /\ todo' = todo \ {s}
    /\ raw' = [raw EXCEPT ![s] = level]
    /\ rawSince' = [rawSince EXCEPT ![s] = IF level # raw[s] THEN 0 ELSE @]
    /\ IF level # stable[s] /\ rawSince'[s] >= Debounce
       THEN /\ stable' = [stable EXCEPT ![s] = level]
            /\ Notify(s, level) /\ silent' = silent \ {s}
       ELSE Unmoved /\ UNCHANGED <<stable, silent>>
    /\ UNCHANGED <<gate, countdown, quiet, stale>>
    /\ NightAfter

(* Mutant: everything the rule targets goes off, whoever switched it on. *)
SwitchOffAll(r) ==
    /\ on' = [on EXCEPT ![r] = FALSE]
    /\ light' = [l \in Lights |-> light[l] /\ l \notin Targets[r]]
    /\ turnedOn' = [turnedOn EXCEPT ![r] = {}]

(* MotionRule::switchOff. *)
SwitchOff(r) ==
    /\ on' = [on EXCEPT ![r] = FALSE]
    /\ light' = [l \in Lights |-> light[l] /\ l \notin turnedOn[r]]
    /\ turnedOn' = [turnedOn EXCEPT ![r] = {}]

(* Mutant: every update dates the countdown anew. *)
UpdateRuleRearms(r) ==
    /\ todo \cap Local = {} /\ r \in todo /\ todo' = todo \ {r}
    /\ armed' = [armed EXCEPT ![r] = running[r]]
    /\ countdown' = [countdown EXCEPT ![r] = 0]
    /\ UNCHANGED <<light, active, on, turnedOn, running>>
    /\ UNCHANGED <<pins, stable, gate, quiet, silent, stale>>
    /\ NightAfter

(* MotionRule::update: the first one after the last source went quiet arms the  *)
(* countdown, a later one finds it over.                                        *)
UpdateRule(r) ==
    /\ todo \cap Local = {} /\ r \in todo /\ todo' = todo \ {r}
    /\ \/ /\ ~running[r] \/ (armed[r] /\ countdown[r] < OffDelay)
          /\ Unmoved /\ UNCHANGED countdown
       \/ /\ running[r] /\ ~armed[r]
          /\ armed' = [armed EXCEPT ![r] = TRUE]
          /\ countdown' = [countdown EXCEPT ![r] = 0]
          /\ UNCHANGED <<light, active, on, turnedOn, running>>
       \/ /\ running[r] /\ armed[r] /\ countdown[r] >= OffDelay
          /\ SwitchOff(r)
          /\ running' = [running EXCEPT ![r] = FALSE]
          /\ armed' = [armed EXCEPT ![r] = FALSE]
          /\ UNCHANGED <<active, countdown>>
    /\ UNCHANGED <<pins, stable, gate, quiet, silent, stale>>
    /\ NightAfter

(* A remote sensor changes, and its report is heard or lost on the way. *)
RemoteReport(s) ==
    /\ todo = {} /\ stable' = [stable EXCEPT ![s] = ~@]
    /\ \/ /\ Notify(s, ~stable[s])
          /\ silent' = silent \ {s} /\ stale' = stale \ {s}
       \/ Unmoved /\ stale' = stale \cup {s} /\ UNCHANGED silent
    /\ UNCHANGED <<todo, pins, gate, countdown, quiet>>
    /\ NightAfter

(* The level is heard again: the broker replays it, or the sensor's controller  *)
(* refreshes it, on a reconnect.                                                *)
Repeat(s) ==
    /\ todo = {} /\ Notify(s, stable[s])
    /\ silent' = silent \ {s} /\ stale' = stale \ {s}
    /\ UNCHANGED <<todo, pins, stable, gate, countdown, quiet>>
    /\ NightAfter

(* ToggleRule::handle. *)
Toggle(group) ==
    /\ light' = [l \in Lights |-> light[l] # (l \in group)]
    /\ UNCHANGED <<todo, pins, stable, gate, rules, countdown, quiet, silent, stale, night>>

(* Relay::handleCommand. *)
SetBinary(l, v) ==
    /\ todo = {} /\ light' = [light EXCEPT ![l] = v]
    /\ UNCHANGED <<todo, pins, stable, gate, rules, countdown, quiet, silent, stale, night>>

SetNightMode(l, v) ==
    /\ todo = {} /\ l \in Gated /\ gate' = [gate EXCEPT ![l] = v]
    /\ UNCHANGED <<todo, pins, stable, light, rules, countdown, quiet, silent, stale>>
    /\ NightAfter

ByMotion ==
    \/ \E s \in Local, level \in BOOLEAN : Scan(s, level)
    \/ \E r \in Rules : UpdateRule(r)
    \/ \E s \in Remote : RemoteReport(s) \/ Repeat(s)

Next ==
    \/ \E e \in Elapsed : Begin(e)
    \/ ByMotion
    \/ \E group \in ToggleGroups : Toggle(group)
    \/ \E l \in Lights, v \in BOOLEAN : SetBinary(l, v) \/ SetNightMode(l, v)

Spec == MotionInit /\ [][Next]_vars

(* The control loop never blocks, its clock advances and it visits everything.  *)
FairSpec ==
    /\ Spec
    /\ WF_vars(\E e \in Elapsed \ {0} : Begin(e))
    /\ WF_vars(\E s \in Local, level \in BOOLEAN : Scan(s, level))
    /\ WF_vars(\E r \in Rules : UpdateRule(r))

-----------------------------------------------------------------------------
MotionTypeOK ==
    /\ todo \in SUBSET (Local \cup Rules)
    /\ raw \in [Local -> BOOLEAN] /\ rawSince \in [Local -> 0..Debounce]
    /\ stable \in [Sensors -> BOOLEAN]
    /\ light \in [Lights -> BOOLEAN] /\ gate \in [Lights -> BOOLEAN]
    /\ active \in [Rules -> [Sensors -> BOOLEAN]]
    /\ on \in [Rules -> BOOLEAN] /\ turnedOn \in [Rules -> SUBSET Lights]
    /\ running \in [Rules -> BOOLEAN] /\ armed \in [Rules -> BOOLEAN]
    /\ countdown \in [Rules -> 0..OffDelay] /\ quiet \in [Rules -> 0..OffDelay]
    /\ silent \in SUBSET Sensors /\ stale \in SUBSET Remote /\ night \in SUBSET Lights

Occupied(r) == \E s \in Sensors : active[r][s]

(* A rule that is on is either occupied or counting down, never both, never     *)
(* neither: neither would leave the light on for ever.  A rule that is off has  *)
(* no claim on any light.                                                       *)
CountdownWhileQuiet ==
    \A r \in Rules : /\ running[r] <=> on[r] /\ ~Occupied(r)
                     /\ armed[r] => running[r]
                     /\ Occupied(r) => on[r]
                     /\ turnedOn[r] # {} => on[r]

(* A rule's picture of its sensors is the sensors' state, from the first report *)
(* heard and while none is lost, whichever rules share a sensor.                *)
RulesSeeSensors ==
    \A r \in Rules, s \in Sensors : Hears(r, s) /\ s \notin stale =>
        active[r][s] = (stable[s] /\ s \notin silent)

(* A rule lets go of its lights only when none of its sources has been active   *)
(* for off_delay_ms, however activity and the countdown interleave.             *)
OffOnlyAfterDelay ==
    [][\A r \in Rules : on[r] /\ ~on'[r] => quiet[r] >= OffDelay]_vars

(* binding.h: "A light whose night_mode is off is left completely alone."  If   *)
(* its gate has been closed since before any rule that targets it came on, no   *)
(* rule changes it, neither on nor off.                                         *)
DayIsLeftAlone ==
    [][ByMotion => \A l \in Lights \ night : light'[l] = light[l]]_vars

(* What a countdown has counted, its rule has been quiet for. *)
CountdownIsQuiet == \A r \in Rules : armed[r] => countdown[r] <= quiet[r]

(* A rule marks only its own lights, and only ones it found at night; a light   *)
(* whose gate is open is at night.                                              *)
ClaimsAreNight ==
    /\ \A r \in Rules : turnedOn[r] \subseteq Targets[r] \cap night
    /\ \A l \in Lights : Open(l) => l \in night

(* The inductive invariant the proofs of MotionProofs rest on. *)
MotionInv ==
    MotionTypeOK /\ CountdownWhileQuiet /\ RulesSeeSensors /\ CountdownIsQuiet /\ ClaimsAreNight

(* When every sensor stays quiet, and is heard to, every rule ends up off, with *)
(* nothing left that it switched on.                                            *)
EmptyRoomGoesDark ==
    /\ <>[](\A s \in Sensors : ~stable[s] /\ s \notin stale)
    /\ <>[][~\E s \in Remote : Repeat(s)]_vars
    => <>[](\A r \in Rules : ~on[r] /\ turnedOn[r] = {})

(* event_router.h:16-19: the shared key space "makes fan-out (one switch        *)
(* driving many bindings) [...] free".  Every rule that names a sensor follows  *)
(* it once it was heard.                                                        *)
FanOutIsFree ==
    \A r \in Rules : \A s \in Sources[r] \ (stale \cup silent) : active[r][s] = stable[s]
=============================================================================
