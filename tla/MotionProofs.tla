---------------------------- MODULE MotionProofs ----------------------------
(* Proofs about Motion, for every set of sensors, lights and rules, every      *)
(* wiring between them, and every delay.                                       *)
EXTENDS Motion, TLAPS

(* Ages stay within the threshold they are counted up to. *)
LEMMA UpToInRange ==
    ASSUME NEW ms \in Nat, NEW threshold \in Nat
    PROVE  UpTo(ms, threshold) \in 0..threshold /\ UpTo(ms, threshold) <= ms
BY DEF UpTo

-----------------------------------------------------------------------------
(* What MotionRule::handle leaves behind, rule by rule: a rule that hears the   *)
(* event takes the level over, comes on if it is active, and counts down if it  *)
(* was the last one.                                                            *)
LEMMA NotifyEffect ==
    ASSUME MotionTypeOK, NEW s \in Sensors, NEW level \in BOOLEAN, Notify(s, level)
    PROVE  /\ \A r \in Rules, q \in Sensors :
                active'[r][q] = IF Hears(r, s) /\ q = s THEN level ELSE active[r][q]
           /\ \A r \in Rules : on'[r] <=> on[r] \/ (Hears(r, s) /\ level)
           /\ \A r \in Rules : running'[r] <=>
                IF Hears(r, s) /\ level THEN FALSE
                ELSE running[r] \/ (Hears(r, s) /\ on[r] /\ \A q \in Sensors : ~active'[r][q])
           /\ \A r \in Rules : armed'[r] <=>
                /\ armed[r]
                /\ ~(Hears(r, s) /\ (level \/ (on[r] /\ \A q \in Sensors : ~active'[r][q])))
           /\ \A r \in Rules : turnedOn'[r] =
                turnedOn[r] \cup IF Hears(r, s) /\ level /\ ~on[r]
                                 THEN {l \in Targets[r] : Open(l)} ELSE {}
           /\ \A l \in Lights : light'[l] <=> light[l] \/
                \E r \in Rules : Hears(r, s) /\ level /\ ~on[r] /\ l \in Targets[r] /\ Open(l)
<1>1. \A r \in Rules, q \in Sensors :
         active'[r][q] = IF Hears(r, s) /\ q = s THEN level ELSE active[r][q]
  BY DEF Notify, Tell, MotionTypeOK
<1>2. \A r \in Rules : on'[r] <=> on[r] \/ (Hears(r, s) /\ level)
  BY DEF Notify, Tell
<1>3. \A r \in Rules : running'[r] <=>
         IF Hears(r, s) /\ level THEN FALSE
         ELSE running[r] \/ (Hears(r, s) /\ on[r] /\ \A q \in Sensors : ~active'[r][q])
  BY DEF Notify, Tell
<1>4. \A r \in Rules : armed'[r] <=>
         /\ armed[r]
         /\ ~(Hears(r, s) /\ (level \/ (on[r] /\ \A q \in Sensors : ~active'[r][q])))
  BY DEF Notify, Tell
<1>5. \A r \in Rules : turnedOn'[r] =
         turnedOn[r] \cup IF Hears(r, s) /\ level /\ ~on[r]
                          THEN {l \in Targets[r] : Open(l)} ELSE {}
  BY DEF Notify, Tell
<1>6. \A l \in Lights : light'[l] <=> light[l] \/
         \E r \in Rules : Hears(r, s) /\ level /\ ~on[r] /\ l \in Targets[r] /\ Open(l)
  BY DEF Notify, Tell
<1>7. QED
  BY <1>1, <1>2, <1>3, <1>4, <1>5, <1>6

(* Its types. *)
LEMMA NotifyTypes ==
    ASSUME MotionTypeOK, NEW s \in Sensors, NEW level \in BOOLEAN, Notify(s, level)
    PROVE  /\ active' \in [Rules -> [Sensors -> BOOLEAN]]
           /\ on' \in [Rules -> BOOLEAN] /\ turnedOn' \in [Rules -> SUBSET Lights]
           /\ light' \in [Lights -> BOOLEAN]
           /\ running' \in [Rules -> BOOLEAN] /\ armed' \in [Rules -> BOOLEAN]
<1>1. active' \in [Rules -> [Sensors -> BOOLEAN]]
  BY DEF Notify, Tell, MotionTypeOK
<1>2. on' \in [Rules -> BOOLEAN]
  BY DEF Notify, Tell, MotionTypeOK
<1>3. turnedOn' \in [Rules -> SUBSET Lights]
  BY RuleAssumption DEF Notify, Tell, MotionTypeOK
<1>4. light' \in [Lights -> BOOLEAN]
  BY DEF Notify, Tell, MotionTypeOK
<1>5. running' \in [Rules -> BOOLEAN] /\ armed' \in [Rules -> BOOLEAN]
  BY DEF Notify, Tell, MotionTypeOK
<1>6. QED
  BY <1>1, <1>2, <1>3, <1>4, <1>5

(* An event that is heard, in whichever of the ways it comes: a pin that moved, *)
(* a remote report, a report repeated.                                          *)
Heard(s, level) ==
    /\ Notify(s, level)
    /\ stable' = [stable EXCEPT ![s] = level]
    /\ silent' = silent \ {s} /\ stale' = stale \ {s}
    /\ countdown' = countdown /\ quiet' = quiet /\ gate' = gate
    /\ NightAfter

(* It leaves each rule either occupied or counting down. *)
LEMMA HeardKeepsCounting ==
    ASSUME MotionInv, NEW s \in Sensors, NEW level \in BOOLEAN, Heard(s, level)
    PROVE  CountdownWhileQuiet' /\ CountdownIsQuiet'
<1>1. MotionTypeOK /\ Notify(s, level)
  BY DEF MotionInv, Heard
<1>2. \A r \in Rules, q \in Sensors :
         active'[r][q] = IF Hears(r, s) /\ q = s THEN level ELSE active[r][q]
  BY <1>1, NotifyEffect
<1>3. \A r \in Rules : on'[r] <=> on[r] \/ (Hears(r, s) /\ level)
  BY <1>1, NotifyEffect
<1>4. \A r \in Rules : running'[r] <=>
         IF Hears(r, s) /\ level THEN FALSE
         ELSE running[r] \/ (Hears(r, s) /\ on[r] /\ \A q \in Sensors : ~active'[r][q])
  BY <1>1, NotifyEffect
<1>5. \A r \in Rules : armed'[r] <=>
         /\ armed[r]
         /\ ~(Hears(r, s) /\ (level \/ (on[r] /\ \A q \in Sensors : ~active'[r][q])))
  BY <1>1, NotifyEffect
<1>6. \A r \in Rules : turnedOn'[r] =
         turnedOn[r] \cup IF Hears(r, s) /\ level /\ ~on[r]
                          THEN {l \in Targets[r] : Open(l)} ELSE {}
  BY <1>1, NotifyEffect
<1>7. ASSUME NEW r \in Rules
      PROVE  /\ running'[r] <=> on'[r] /\ ~\E q \in Sensors : active'[r][q]
             /\ armed'[r] => running'[r]
             /\ (\E q \in Sensors : active'[r][q]) => on'[r]
             /\ turnedOn'[r] # {} => on'[r]
  <2>1. /\ running[r] <=> on[r] /\ ~\E q \in Sensors : active[r][q]
        /\ armed[r] => running[r]
        /\ (\E q \in Sensors : active[r][q]) => on[r]
        /\ turnedOn[r] # {} => on[r]
    BY DEF MotionInv, CountdownWhileQuiet, Occupied
  <2>2. CASE ~Hears(r, s)
    BY <2>1, <2>2, <1>2, <1>3, <1>4, <1>5, <1>6
  <2>3. CASE Hears(r, s) /\ level
    <3>1. active'[r][s] /\ on'[r] /\ ~running'[r] /\ ~armed'[r]
      BY <2>3, <1>2, <1>3, <1>4, <1>5
    <3>2. QED
      BY <3>1
  <2>4. CASE Hears(r, s) /\ ~level
    <3>1. (on'[r] <=> on[r]) /\ turnedOn'[r] = turnedOn[r]
      BY <2>4, <1>3, <1>6
    <3>2. (\E q \in Sensors : active'[r][q]) => \E q \in Sensors : active[r][q]
      BY <2>4, <1>2
    <3>3. running'[r] <=> running[r] \/ (on[r] /\ \A q \in Sensors : ~active'[r][q])
      BY <2>4, <1>4
    <3>4. armed'[r] => armed[r] /\ (~on[r] \/ \E q \in Sensors : active'[r][q])
      BY <2>4, <1>5
    <3>5. QED
      BY <2>1, <3>1, <3>2, <3>3, <3>4
  <2>5. QED
    BY <2>2, <2>3, <2>4
<1>8. CountdownWhileQuiet'
  BY <1>7 DEF CountdownWhileQuiet, Occupied
<1>9. CountdownIsQuiet'
  BY <1>5 DEF MotionInv, CountdownIsQuiet, Heard
<1>10. QED
  BY <1>8, <1>9

(* It keeps every rule's picture of its sensors. *)
LEMMA HeardKeepsPicture ==
    ASSUME MotionInv, NEW s \in Sensors, NEW level \in BOOLEAN, Heard(s, level)
    PROVE  RulesSeeSensors'
<1>1. \A r \in Rules, q \in Sensors :
         active'[r][q] = IF Hears(r, s) /\ q = s THEN level ELSE active[r][q]
  BY NotifyEffect DEF MotionInv, Heard
<1>2. SUFFICES ASSUME NEW r \in Rules, NEW q \in Sensors, Hears(r, q), q \notin stale'
               PROVE  active'[r][q] = (stable'[q] /\ q \notin silent')
  BY DEF RulesSeeSensors, Hears
<1>3. CASE q = s
  <2>1. stable'[q] = level /\ q \notin silent' /\ active'[r][q] = level
    BY <1>1, <1>2, <1>3 DEF Heard, MotionInv, MotionTypeOK
  <2>2. QED
    BY <2>1
<1>4. CASE q # s
  <2>1. active[r][q] = (stable[q] /\ q \notin silent)
    BY <1>2, <1>4 DEF MotionInv, RulesSeeSensors, Heard
  <2>2. stable'[q] = stable[q] /\ active'[r][q] = active[r][q]
        /\ (q \in silent' <=> q \in silent)
    BY <1>1, <1>4 DEF Heard, MotionInv, MotionTypeOK
  <2>3. QED
    BY <2>1, <2>2
<1>5. QED
  BY <1>3, <1>4

(* What a rule claims while its gates are open stays on the books of the night. *)
LEMMA HeardKeepsClaims ==
    ASSUME MotionInv, NEW s \in Sensors, NEW level \in BOOLEAN, Heard(s, level)
    PROVE  ClaimsAreNight'
<1>1. \A r \in Rules : turnedOn'[r] =
         turnedOn[r] \cup IF Hears(r, s) /\ level /\ ~on[r]
                          THEN {l \in Targets[r] : Open(l)} ELSE {}
  BY NotifyEffect DEF MotionInv, Heard
<1>2. \A r \in Rules : on[r] => on'[r]
  BY NotifyEffect DEF MotionInv, Heard
<1>3. \A l \in Lights : Open(l)' <=> Open(l)
  BY DEF Heard, Open
<1>4. night' = {l \in Lights : Open(l)' \/
                  (l \in night /\ \E r \in Rules : l \in Targets[r] /\ on'[r])}
  BY DEF Heard, NightAfter, Open
<1>5. ASSUME NEW r \in Rules, NEW l \in turnedOn'[r]
      PROVE  l \in Targets[r] /\ l \in night'
  <2>1. Targets[r] \subseteq Lights
    BY RuleAssumption
  <2>2. CASE l \in turnedOn[r]
    <3>1. l \in Targets[r] /\ l \in night /\ on[r]
      BY <2>2 DEF MotionInv, ClaimsAreNight, CountdownWhileQuiet
    <3>2. QED
      BY <3>1, <2>1, <1>2, <1>4
  <2>3. CASE l \notin turnedOn[r]
    <3>1. l \in Targets[r] /\ Open(l)
      BY <1>1, <1>5, <2>3
    <3>2. QED
      BY <3>1, <2>1, <1>3, <1>4
  <2>4. QED
    BY <2>2, <2>3
<1>6. \A l \in Lights : Open(l)' => l \in night'
  BY <1>4
<1>7. QED
  BY <1>5, <1>6 DEF ClaimsAreNight

(* Whatever else happens, lights stay claimed at night as long as no rule gains *)
(* a claim and none that keeps one goes off.                                    *)
LEMMA NightKeepsClaims ==
    ASSUME ClaimsAreNight, NightAfter,
           \A r \in Rules : turnedOn'[r] \subseteq turnedOn[r],
           \A r \in Rules : turnedOn'[r] # {} => on'[r]
    PROVE  ClaimsAreNight'
<1>1. night' = {l \in Lights : Open(l)' \/
                  (l \in night /\ \E r \in Rules : l \in Targets[r] /\ on'[r])}
  BY DEF NightAfter, Open
<1>2. ASSUME NEW r \in Rules, NEW l \in turnedOn'[r]
      PROVE  l \in Targets[r] /\ l \in night'
  <2>1. l \in Targets[r] /\ l \in night /\ on'[r] /\ Targets[r] \subseteq Lights
    BY <1>2, RuleAssumption DEF ClaimsAreNight
  <2>2. QED
    BY <2>1, <1>1
<1>3. \A l \in Lights : Open(l)' => l \in night'
  BY <1>1
<1>4. QED
  BY <1>2, <1>3 DEF ClaimsAreNight

(* An event that is heard keeps the whole invariant. *)
LEMMA HeardKeepsInv ==
    ASSUME MotionInv, NEW s \in Sensors, NEW level \in BOOLEAN, Heard(s, level),
           todo' \in SUBSET (Local \cup Rules),
           raw' \in [Local -> BOOLEAN], rawSince' \in [Local -> 0..Debounce]
    PROVE  MotionInv'
<1>1. MotionTypeOK'
  <2>1. MotionTypeOK /\ Notify(s, level)
    BY DEF MotionInv, Heard
  <2>2. /\ active' \in [Rules -> [Sensors -> BOOLEAN]]
        /\ on' \in [Rules -> BOOLEAN] /\ turnedOn' \in [Rules -> SUBSET Lights]
        /\ light' \in [Lights -> BOOLEAN]
        /\ running' \in [Rules -> BOOLEAN] /\ armed' \in [Rules -> BOOLEAN]
    BY <2>1, NotifyTypes
  <2>3. stable' \in [Sensors -> BOOLEAN] /\ gate' \in [Lights -> BOOLEAN]
    BY <2>1 DEF Heard, MotionTypeOK
  <2>4. silent' \in SUBSET Sensors /\ stale' \in SUBSET Remote /\ night' \in SUBSET Lights
    BY <2>1 DEF Heard, MotionTypeOK, NightAfter
  <2>5. countdown' \in [Rules -> 0..OffDelay] /\ quiet' \in [Rules -> 0..OffDelay]
    BY <2>1 DEF Heard, MotionTypeOK
  <2>6. QED
    BY <2>2, <2>3, <2>4, <2>5 DEF MotionTypeOK
<1>2. CountdownWhileQuiet' /\ CountdownIsQuiet'
  BY HeardKeepsCounting
<1>3. RulesSeeSensors'
  BY HeardKeepsPicture
<1>4. ClaimsAreNight'
  BY HeardKeepsClaims
<1>5. QED
  BY <1>1, <1>2, <1>3, <1>4 DEF MotionInv

-----------------------------------------------------------------------------
(* BinarySensor::update: a pin that settles at a new level is heard, any other  *)
(* sample concerns no rule.                                                     *)
LEMMA ScanStep ==
    ASSUME MotionInv, NEW s \in Local, NEW level \in BOOLEAN, Scan(s, level)
    PROVE  MotionInv'
<1> USE DEF MotionInv
<1>1. s \in Sensors /\ s \notin Remote
  BY SensorAssumption DEF Sensors
<1>2. /\ todo' \in SUBSET (Local \cup Rules)
      /\ raw' \in [Local -> BOOLEAN] /\ rawSince' \in [Local -> 0..Debounce]
  BY DelayAssumption DEF Scan, MotionTypeOK
<1>3. CASE level # stable[s] /\ rawSince'[s] >= Debounce
  <2>1. stale \ {s} = stale
    BY <1>1 DEF MotionTypeOK
  <2>2. Heard(s, level)
    BY <1>3, <2>1 DEF Scan, Heard
  <2>3. QED
    BY <2>2, <1>1, <1>2, HeardKeepsInv
<1>4. CASE ~(level # stable[s] /\ rawSince'[s] >= Debounce)
  <2>1. /\ UNCHANGED <<stable, silent, light, active, on, turnedOn, running, armed>>
        /\ UNCHANGED <<gate, countdown, quiet, stale>> /\ NightAfter
    BY <1>4 DEF Scan, Unmoved, rules
  <2>2. MotionTypeOK'
    BY <2>1, <1>2 DEF MotionTypeOK, NightAfter
  <2>3. CountdownWhileQuiet' /\ CountdownIsQuiet' /\ RulesSeeSensors'
    BY <2>1 DEF CountdownWhileQuiet, CountdownIsQuiet, RulesSeeSensors, Occupied
  <2>4. ClaimsAreNight'
    BY <2>1, NightKeepsClaims DEF CountdownWhileQuiet
  <2>5. QED
    BY <2>2, <2>3, <2>4
<1>5. QED
  BY <1>3, <1>4

(* A remote report: heard, or lost, when all it changes is the sensor itself.   *)
LEMMA RemoteReportStep ==
    ASSUME MotionInv, NEW s \in Remote, RemoteReport(s)
    PROVE  MotionInv'
<1> USE DEF MotionInv
<1>0. (~stable[s]) \in BOOLEAN
  OBVIOUS
<1>1. /\ s \in Sensors
      /\ todo' \in SUBSET (Local \cup Rules)
      /\ raw' \in [Local -> BOOLEAN] /\ rawSince' \in [Local -> 0..Debounce]
  BY DEF RemoteReport, MotionTypeOK, Sensors, pins
<1>2. CASE Notify(s, ~stable[s]) /\ silent' = silent \ {s} /\ stale' = stale \ {s}
  <2>1. Heard(s, ~stable[s])
    BY <1>2 DEF RemoteReport, Heard
  <2>2. QED
    BY <2>1, <1>0, <1>1, HeardKeepsInv
<1>3. CASE Unmoved /\ stale' = stale \cup {s} /\ UNCHANGED silent
  <2>1. /\ UNCHANGED <<silent, light, active, on, turnedOn, running, armed>>
        /\ UNCHANGED <<gate, countdown, quiet>> /\ NightAfter
        /\ stable' = [stable EXCEPT ![s] = ~stable[s]] /\ stale' = stale \cup {s}
    BY <1>3 DEF RemoteReport, Unmoved, rules
  <2>2. MotionTypeOK'
    BY <2>1, <1>1 DEF MotionTypeOK, NightAfter
  <2>3. CountdownWhileQuiet' /\ CountdownIsQuiet'
    BY <2>1 DEF CountdownWhileQuiet, CountdownIsQuiet, Occupied
  <2>4. RulesSeeSensors'
    BY <2>1 DEF RulesSeeSensors, MotionTypeOK, Hears
  <2>5. ClaimsAreNight'
    BY <2>1, NightKeepsClaims DEF CountdownWhileQuiet
  <2>6. QED
    BY <2>2, <2>3, <2>4, <2>5
<1>4. QED
  BY <1>2, <1>3 DEF RemoteReport

(* A level that is repeated is an event like any other. *)
LEMMA RepeatStep ==
    ASSUME MotionInv, NEW s \in Remote, Repeat(s)
    PROVE  MotionInv'
<1>1. /\ s \in Sensors /\ stable[s] \in BOOLEAN /\ MotionTypeOK
      /\ todo' \in SUBSET (Local \cup Rules)
      /\ raw' \in [Local -> BOOLEAN] /\ rawSince' \in [Local -> 0..Debounce]
  BY DEF MotionInv, Repeat, MotionTypeOK, Sensors, pins
<1>2. stable' = [stable EXCEPT ![s] = stable[s]]
  BY <1>1 DEF Repeat, MotionTypeOK
<1>3. Heard(s, stable[s])
  BY <1>2 DEF Repeat, Heard
<1>4. QED
  BY <1>1, <1>3, HeardKeepsInv

(* Time passes: a countdown and the quiet behind it grow together. *)
LEMMA BeginStep ==
    ASSUME MotionInv, NEW e \in Elapsed, Begin(e)
    PROVE  MotionInv'
<1> USE DEF MotionInv
<1>1. /\ UNCHANGED <<raw, stable, light, gate, active, on, turnedOn, running, armed>>
      /\ UNCHANGED <<silent, stale, night>>
      /\ todo' = Local \cup Rules
  BY DEF Begin, rules
<1>2. e \in Nat /\ OffDelay \in Nat /\ Debounce \in Nat
  BY DelayAssumption
<1>3. rawSince' \in [Local -> 0..Debounce]
  BY <1>2, UpToInRange DEF Begin, MotionTypeOK, UpTo
<1>4. countdown' \in [Rules -> 0..OffDelay] /\ quiet' \in [Rules -> 0..OffDelay]
  BY <1>2 DEF Begin, MotionTypeOK, UpTo
<1>5. MotionTypeOK'
  BY <1>1, <1>3, <1>4 DEF MotionTypeOK
<1>6. CountdownWhileQuiet' /\ RulesSeeSensors'
  BY <1>1 DEF CountdownWhileQuiet, RulesSeeSensors, Occupied
<1>7. CountdownIsQuiet'
  <2>1. SUFFICES ASSUME NEW r \in Rules, armed[r]
                 PROVE  countdown'[r] <= quiet'[r]
    BY <1>1 DEF CountdownIsQuiet
  <2>2. ~\E s \in Sensors : active[r][s]
    BY <2>1 DEF CountdownWhileQuiet, Occupied
  <2>3. /\ countdown'[r] = UpTo(countdown[r] + e, OffDelay)
        /\ quiet'[r] = UpTo(quiet[r] + e, OffDelay)
    BY <2>1, <2>2 DEF Begin
  <2>4. countdown[r] <= quiet[r] /\ countdown[r] \in Nat /\ quiet[r] \in Nat
    BY <2>1 DEF CountdownIsQuiet, MotionTypeOK
  <2>5. QED
    BY <2>3, <2>4, <1>2 DEF UpTo
<1>8. ClaimsAreNight'
  BY <1>1 DEF ClaimsAreNight, Open
<1>9. QED
  BY <1>5, <1>6, <1>7, <1>8

(* MotionRule::update, on its three ways. *)
LEMMA UpdateRuleStep ==
    ASSUME MotionInv, NEW r \in Rules, UpdateRule(r)
    PROVE  MotionInv'
<1> USE DEF MotionInv
<1>1. /\ UNCHANGED <<raw, rawSince, stable, gate, active, quiet, silent, stale>>
      /\ NightAfter /\ todo' = todo \ {r}
  BY DEF UpdateRule, pins, Unmoved, rules
<1>2. CASE Unmoved /\ UNCHANGED countdown
  <2>1. UNCHANGED <<light, on, turnedOn, running, armed, countdown>>
    BY <1>2 DEF Unmoved, rules
  <2>2. MotionTypeOK'
    BY <1>1, <2>1 DEF MotionTypeOK, NightAfter
  <2>3. CountdownWhileQuiet' /\ CountdownIsQuiet' /\ RulesSeeSensors'
    BY <1>1, <2>1 DEF CountdownWhileQuiet, CountdownIsQuiet, RulesSeeSensors, Occupied
  <2>4. ClaimsAreNight'
    BY <1>1, <2>1, NightKeepsClaims DEF CountdownWhileQuiet
  <2>5. QED
    BY <2>2, <2>3, <2>4
<1>3. CASE /\ running[r] /\ armed' = [armed EXCEPT ![r] = TRUE]
           /\ countdown' = [countdown EXCEPT ![r] = 0]
           /\ UNCHANGED <<light, active, on, turnedOn, running>>
  <2>1. MotionTypeOK'
    BY <1>1, <1>3, DelayAssumption DEF MotionTypeOK, NightAfter
  <2>2. CountdownWhileQuiet' /\ RulesSeeSensors'
    BY <1>1, <1>3 DEF CountdownWhileQuiet, RulesSeeSensors, Occupied, MotionTypeOK
  <2>3. CountdownIsQuiet'
    BY <1>1, <1>3 DEF CountdownIsQuiet, MotionTypeOK
  <2>4. ClaimsAreNight'
    BY <1>1, <1>3, NightKeepsClaims DEF CountdownWhileQuiet
  <2>5. QED
    BY <2>1, <2>2, <2>3, <2>4
<1>4. CASE /\ running[r] /\ SwitchOff(r)
           /\ running' = [running EXCEPT ![r] = FALSE]
           /\ armed' = [armed EXCEPT ![r] = FALSE]
           /\ UNCHANGED <<active, countdown>>
  <2>1. /\ on' = [on EXCEPT ![r] = FALSE] /\ turnedOn' = [turnedOn EXCEPT ![r] = {}]
        /\ light' \in [Lights -> BOOLEAN]
    BY <1>4 DEF SwitchOff, MotionTypeOK
  <2>2. MotionTypeOK'
    BY <1>1, <1>4, <2>1 DEF MotionTypeOK, NightAfter
  <2>3. CountdownWhileQuiet'
    BY <1>1, <1>4, <2>1 DEF CountdownWhileQuiet, Occupied, MotionTypeOK
  <2>4. CountdownIsQuiet' /\ RulesSeeSensors'
    BY <1>1, <1>4 DEF CountdownIsQuiet, RulesSeeSensors, MotionTypeOK
  <2>5. \A q \in Rules : turnedOn'[q] \subseteq turnedOn[q] /\ (turnedOn'[q] # {} => on'[q])
    BY <2>1, <2>3 DEF MotionTypeOK, CountdownWhileQuiet
  <2>6. ClaimsAreNight'
    BY <1>1, <2>5, NightKeepsClaims
  <2>7. QED
    BY <2>2, <2>3, <2>4, <2>6
<1>5. QED
  BY <1>2, <1>3, <1>4 DEF UpdateRule

(* ToggleRule::handle and Relay::setBinary touch lights and nothing else. *)
LEMMA SwitchStep ==
    ASSUME MotionInv, (\E group \in ToggleGroups : Toggle(group)) \/
                      (\E l \in Lights, v \in BOOLEAN : SetBinary(l, v))
    PROVE  MotionInv'
<1> USE DEF MotionInv
<1>1. /\ UNCHANGED <<todo, raw, rawSince, stable, gate, active, on, turnedOn, running, armed>>
      /\ UNCHANGED <<countdown, quiet, silent, stale, night>>
  BY DEF Toggle, SetBinary, pins, rules
<1>2. light' \in [Lights -> BOOLEAN]
  BY DEF Toggle, SetBinary, MotionTypeOK
<1>3. MotionTypeOK'
  BY <1>1, <1>2 DEF MotionTypeOK
<1>4. CountdownWhileQuiet' /\ CountdownIsQuiet' /\ RulesSeeSensors'
  BY <1>1 DEF CountdownWhileQuiet, CountdownIsQuiet, RulesSeeSensors, Occupied
<1>5. ClaimsAreNight'
  BY <1>1 DEF ClaimsAreNight, Open
<1>6. QED
  BY <1>3, <1>4, <1>5

(* Relay::setNightMode moves a gate; what was claimed at night stays so. *)
LEMMA SetNightModeStep ==
    ASSUME MotionInv, NEW l \in Lights, NEW v \in BOOLEAN, SetNightMode(l, v)
    PROVE  MotionInv'
<1> USE DEF MotionInv
<1>1. /\ UNCHANGED <<todo, raw, rawSince, stable, light, active, on, turnedOn, running, armed>>
      /\ UNCHANGED <<countdown, quiet, silent, stale>> /\ NightAfter
  BY DEF SetNightMode, pins, rules
<1>2. gate' \in [Lights -> BOOLEAN]
  BY DEF SetNightMode, MotionTypeOK
<1>3. MotionTypeOK'
  BY <1>1, <1>2 DEF MotionTypeOK, NightAfter
<1>4. CountdownWhileQuiet' /\ CountdownIsQuiet' /\ RulesSeeSensors'
  BY <1>1 DEF CountdownWhileQuiet, CountdownIsQuiet, RulesSeeSensors, Occupied
<1>5. ClaimsAreNight'
  BY <1>1, NightKeepsClaims DEF CountdownWhileQuiet
<1>6. QED
  BY <1>3, <1>4, <1>5

-----------------------------------------------------------------------------
(* Boot: levels adopted, no rule told, every gate open. *)
LEMMA InitInv == MotionInit => MotionInv
<1> SUFFICES ASSUME MotionInit PROVE MotionInv
  OBVIOUS
<1>1. MotionTypeOK
  BY DelayAssumption DEF MotionInit, MotionTypeOK
<1>2. CountdownWhileQuiet /\ CountdownIsQuiet
  BY DEF MotionInit, CountdownWhileQuiet, CountdownIsQuiet, Occupied
<1>3. RulesSeeSensors
  BY DEF MotionInit, RulesSeeSensors
<1>4. ClaimsAreNight
  BY DEF MotionInit, ClaimsAreNight, Open
<1>5. QED
  BY <1>1, <1>2, <1>3, <1>4 DEF MotionInv

(* Every step of the loop and of MQTT keeps the invariant. *)
LEMMA NextInv == MotionInv /\ [Next]_vars => MotionInv'
<1> SUFFICES ASSUME MotionInv, [Next]_vars PROVE MotionInv'
  OBVIOUS
<1>1. CASE UNCHANGED vars
  <2>1. /\ UNCHANGED <<todo, raw, rawSince, stable, light, gate, active, on, turnedOn>>
        /\ UNCHANGED <<running, armed, countdown, quiet, silent, stale, night>>
    BY <1>1 DEF vars, pins, rules
  <2>2. MotionTypeOK' /\ CountdownWhileQuiet' /\ CountdownIsQuiet'
    BY <2>1 DEF MotionInv, MotionTypeOK, CountdownWhileQuiet, CountdownIsQuiet, Occupied
  <2>3. RulesSeeSensors' /\ ClaimsAreNight'
    BY <2>1 DEF MotionInv, RulesSeeSensors, ClaimsAreNight, Open
  <2>4. QED
    BY <2>2, <2>3 DEF MotionInv
<1>2. CASE \E e \in Elapsed : Begin(e)
  BY <1>2, BeginStep
<1>3. CASE \E s \in Local, level \in BOOLEAN : Scan(s, level)
  BY <1>3, ScanStep
<1>4. CASE \E r \in Rules : UpdateRule(r)
  BY <1>4, UpdateRuleStep
<1>5. CASE \E s \in Remote : RemoteReport(s) \/ Repeat(s)
  BY <1>5, RemoteReportStep, RepeatStep
<1>6. CASE \E group \in ToggleGroups : Toggle(group)
  BY <1>6, SwitchStep
<1>7. CASE \E l \in Lights, v \in BOOLEAN : SetBinary(l, v) \/ SetNightMode(l, v)
  BY <1>7, SwitchStep, SetNightModeStep
<1>8. QED
  BY <1>1, <1>2, <1>3, <1>4, <1>5, <1>6, <1>7 DEF Next, ByMotion

(* However activity, countdowns, presses, commands and lost or repeated reports *)
(* interleave, the invariant of motion lighting holds.                          *)
THEOREM InvariantHolds == Spec => []MotionInv
<1>1. QED
  BY InitInv, NextInv, PTL DEF Spec

(* Every variable keeps to its type, ages to their bounds. *)
THEOREM TypesHold == Spec => []MotionTypeOK
<1>1. MotionInv => MotionTypeOK
  BY DEF MotionInv
<1>2. QED
  BY <1>1, InvariantHolds, PTL

(* No rule is ever stranded on: it is occupied or it counts down. *)
THEOREM NeverStranded == Spec => []CountdownWhileQuiet
<1>1. MotionInv => CountdownWhileQuiet
  BY DEF MotionInv
<1>2. QED
  BY <1>1, InvariantHolds, PTL

(* Every rule's picture of a sensor it hears is the sensor's state. *)
THEOREM PictureIsRight == Spec => []RulesSeeSensors
<1>1. MotionInv => RulesSeeSensors
  BY DEF MotionInv
<1>2. QED
  BY <1>1, InvariantHolds, PTL

(* A step that takes a rule off is the end of its countdown. *)
LEMMA OffByCountdown ==
    ASSUME MotionInv, Next, NEW r \in Rules, on[r], ~on'[r]
    PROVE  UpdateRule(r) /\ armed[r] /\ countdown[r] >= OffDelay
<1>1. MotionTypeOK
  BY DEF MotionInv
<1>2. CASE UNCHANGED on
  BY <1>2
<1>3. ASSUME NEW s \in Sensors, NEW level \in BOOLEAN, Notify(s, level) PROVE FALSE
  BY <1>1, <1>3, NotifyEffect
<1>4. ASSUME NEW s \in Local, NEW level \in BOOLEAN, Scan(s, level) PROVE FALSE
  <2>1. UNCHANGED on \/ Notify(s, level)
    BY <1>4 DEF Scan, Unmoved, rules
  <2>2. QED
    BY <2>1, <1>3 DEF Sensors
<1>5. ASSUME NEW s \in Remote, RemoteReport(s) \/ Repeat(s) PROVE FALSE
  <2>1. stable[s] \in BOOLEAN /\ (~stable[s]) \in BOOLEAN /\ s \in Sensors
    BY <1>1 DEF MotionTypeOK, Sensors
  <2>2. UNCHANGED on \/ Notify(s, stable[s]) \/ Notify(s, ~stable[s])
    BY <1>5 DEF RemoteReport, Repeat, Unmoved, rules
  <2>3. QED
    BY <2>1, <2>2, <1>3
<1>6. ASSUME NEW q \in Rules, UpdateRule(q)
      PROVE  UpdateRule(r) /\ armed[r] /\ countdown[r] >= OffDelay
  <2>1. CASE UNCHANGED on
    BY <2>1
  <2>2. CASE armed[q] /\ countdown[q] >= OffDelay /\ SwitchOff(q)
    BY <1>1, <1>6, <2>2 DEF SwitchOff, MotionTypeOK
  <2>3. QED
    BY <1>6, <2>1, <2>2 DEF UpdateRule, Unmoved, rules
<1>7. CASE \/ \E e \in Elapsed : Begin(e)
           \/ \E group \in ToggleGroups : Toggle(group)
           \/ \E l \in Lights, v \in BOOLEAN : SetBinary(l, v) \/ SetNightMode(l, v)
  BY <1>7, <1>2 DEF Begin, Toggle, SetBinary, SetNightMode, rules
<1>8. QED
  BY <1>4, <1>5, <1>6, <1>7 DEF Next, ByMotion

(* A rule lets go of its lights only after off_delay_ms without activity, for   *)
(* every delay and every order of edges, updates and reports.                   *)
THEOREM NeverOffEarly == Spec => OffOnlyAfterDelay
<1>1. MotionInv /\ [Next]_vars =>
        [\A r \in Rules : on[r] /\ ~on'[r] => quiet[r] >= OffDelay]_vars
  <2>1. SUFFICES ASSUME MotionInv, Next, NEW r \in Rules, on[r], ~on'[r]
                 PROVE  quiet[r] >= OffDelay
    OBVIOUS
  <2>2. armed[r] /\ countdown[r] >= OffDelay
    BY <2>1, OffByCountdown
  <2>3. countdown[r] <= quiet[r] /\ countdown[r] \in Nat /\ quiet[r] \in Nat
    BY <2>1, <2>2 DEF MotionInv, CountdownIsQuiet, MotionTypeOK
  <2>4. QED
    BY <2>2, <2>3, DelayAssumption
<1>2. QED
  BY <1>1, InvariantHolds, PTL DEF Spec, OffOnlyAfterDelay

(* A light whose gate was closed before any rule that targets it came on is     *)
(* left alone by every rule, switched neither on nor off.                       *)
THEOREM DayIsUntouched == Spec => DayIsLeftAlone
<1>1. MotionInv /\ [Next]_vars =>
        [ByMotion => \A l \in Lights \ night : light'[l] = light[l]]_vars
  <2>1. SUFFICES ASSUME MotionInv, ByMotion, NEW l \in Lights \ night
                 PROVE  light'[l] = light[l]
    OBVIOUS
  <2>2. MotionTypeOK /\ ~Open(l) /\ \A r \in Rules : l \notin turnedOn[r]
    BY <2>1 DEF MotionInv, ClaimsAreNight
  <2>3. CASE UNCHANGED light
    BY <2>3
  <2>4. ASSUME NEW s \in Sensors, NEW level \in BOOLEAN, Notify(s, level)
        PROVE  light'[l] = light[l]
    <3>1. light'[l] <=> light[l]
      BY <2>1, <2>2, <2>4, NotifyEffect
    <3>2. light' \in [Lights -> BOOLEAN] /\ light \in [Lights -> BOOLEAN]
      BY <2>2, <2>4, NotifyTypes DEF MotionTypeOK
    <3>3. QED
      BY <3>1, <3>2
  <2>5. CASE \E s \in Local, level \in BOOLEAN : Scan(s, level)
    <3>1. PICK s \in Local, level \in BOOLEAN : Scan(s, level)
      BY <2>5
    <3>2. UNCHANGED light \/ Notify(s, level)
      BY <3>1 DEF Scan, Unmoved
    <3>3. QED
      BY <3>2, <2>4 DEF Sensors
  <2>6. CASE \E s \in Remote : RemoteReport(s) \/ Repeat(s)
    <3>1. PICK s \in Remote : RemoteReport(s) \/ Repeat(s)
      BY <2>6
    <3>2. stable[s] \in BOOLEAN /\ (~stable[s]) \in BOOLEAN /\ s \in Sensors
      BY <2>2 DEF MotionTypeOK, Sensors
    <3>3. UNCHANGED light \/ Notify(s, stable[s]) \/ Notify(s, ~stable[s])
      BY <3>1 DEF RemoteReport, Repeat, Unmoved
    <3>4. QED
      BY <3>2, <3>3, <2>4
  <2>7. CASE \E r \in Rules : UpdateRule(r)
    <3>1. PICK r \in Rules : UpdateRule(r)
      BY <2>7
    <3>2. UNCHANGED light \/ SwitchOff(r)
      BY <3>1 DEF UpdateRule, Unmoved
    <3>3. CASE SwitchOff(r)
      BY <3>3, <2>1, <2>2 DEF SwitchOff, MotionTypeOK
    <3>4. QED
      BY <3>2, <3>3
  <2>8. QED
    BY <2>1, <2>5, <2>6, <2>7 DEF ByMotion
<1>2. QED
  BY <1>1, InvariantHolds, PTL DEF Spec, DayIsLeftAlone
=============================================================================
