---------------------------- MODULE WiringProofs ----------------------------
(* Proofs about Wiring, for any files of any length: what boot may rely on      *)
(* after the parser, that no binding waits for what its switch cannot say, and  *)
(* that a rule reacts to the signals its sources describe and to no others.     *)
EXTENDS Wiring, SequenceTheorems, FiniteSetTheorems, WellFoundedInduction, TLAPS

-----------------------------------------------------------------------------
(* Numbers and lists. *)

Below == {pair \in Nat \X Nat : pair[1] < pair[2]}

(* Any numbers there are have a least one among them. *)
LEMMA LeastExists ==
    ASSUME NEW T, T \subseteq Nat, T # {}
    PROVE  Min(T) \in T /\ \A n \in T : Min(T) <= n
<1>1. IsWellFoundedOn(Below, Nat)
  BY NatLessThanWellFounded DEF OpToRel, Below
<1>2. \E m \in T : \A n \in T : <<n, m>> \notin Below
  BY <1>1, WFMin
<1>3. PICK m \in T : \A n \in T : <<n, m>> \notin Below
  BY <1>2
<1>4. \A n \in T : ~(n < m)
  <2> TAKE n \in T
  <2>1. m \in Nat /\ n \in Nat /\ <<n, m>> \in Nat \X Nat /\ <<n, m>>[1] = n /\ <<n, m>>[2] = m
    OBVIOUS
  <2>2. QED
    BY <1>3, <2>1 DEF Below
<1>5. \A n \in T : m <= n
  BY <1>4
<1>6. QED
  BY <1>5 DEF Min

(* The least of some numbers, once it is known. *)
LEMMA LeastIs ==
    ASSUME NEW T, T \subseteq Nat, NEW m \in T, \A n \in T : m <= n
    PROVE  Min(T) = m
<1> DEFINE least == Min(T)
<1>1. least \in T /\ least <= m /\ m <= least
  BY LeastExists
<1>2. least \in Nat /\ m \in Nat
  BY <1>1
<1>3. least = m
  <2> HIDE DEF least
  <2>1. QED
    BY <1>1, <1>2
<1>4. QED
  BY <1>3

(* Counting up from zero. *)
LEMMA CountsUp ==
    ASSUME NEW S, 0 \in S, \A n \in Nat : n \in S => n + 1 \in S
    PROVE  Nat \subseteq S
<1> DEFINE Out == {n \in Nat : n \notin S}
           least == Min(Out)
<1> SUFFICES ASSUME Out # {} PROVE FALSE
  OBVIOUS
<1>1. least \in Out /\ \A n \in Out : least <= n
  <2>1. Out \subseteq Nat
    OBVIOUS
  <2> HIDE DEF Out
  <2>2. QED
    BY <2>1, LeastExists
<1>2. PICK m : m = least
  OBVIOUS
<1>3. m \in Nat /\ m \notin S /\ \A n \in Nat : n \notin S => m <= n
  <2> HIDE DEF least
  <2>1. QED
    BY <1>1, <1>2
<1>4. m # 0 /\ m - 1 \in Nat /\ m - 1 + 1 = m
  BY <1>3
<1>5. m - 1 \in S
  BY <1>3, <1>4
<1>6. QED
  BY <1>3, <1>4, <1>5

(* A list, whatever is in it. *)
IsList(s) == \E n \in Nat : s = [i \in 1..n |-> s[i]]

(* A list is a function on the numbers up to its length, and a sequence. *)
LEMMA ListIs ==
    ASSUME NEW s, IsList(s)
    PROVE  /\ Len(s) \in Nat /\ DOMAIN s = 1..Len(s)
           /\ \A S : (\A i \in DOMAIN s : s[i] \in S) => s \in Seq(S)
<1>1. PICK n \in Nat : s = [i \in 1..n |-> s[i]]
  BY DEF IsList
<1>2. DOMAIN s = 1..n
  BY <1>1
<1>3. ASSUME NEW S, \A i \in DOMAIN s : s[i] \in S PROVE s \in Seq(S)
  <2>1. s \in [1..n -> S]
    BY <1>1, <1>2, <1>3
  <2>2. QED
    BY <2>1, SeqDef
<1>4. s \in Seq({s[i] : i \in DOMAIN s})
  BY <1>3
<1>5. QED
  BY <1>3, <1>4, LenProperties

(* A function on the numbers up to n is a list of n entries. *)
LEMMA ListOf ==
    ASSUME NEW n \in Nat, NEW s, DOMAIN s = 1..n, s = [i \in DOMAIN s |-> s[i]]
    PROVE  IsList(s) /\ Len(s) = n
<1>1. IsList(s)
  BY DEF IsList
<1>2. DOMAIN s = 1..Len(s) /\ Len(s) \in Nat
  BY <1>1, ListIs
<1>3. QED
  BY <1>1, <1>2

(* A sequence is a list. *)
LEMMA SeqIsList ==
    ASSUME NEW S, NEW s \in Seq(S)
    PROVE  IsList(s)
<1>1. s \in [1..Len(s) -> S] /\ Len(s) \in Nat
  BY LenProperties
<1>2. QED
  BY <1>1 DEF IsList

(* So is the empty one. *)
LEMMA NoneIsAList == IsList(<<>>) /\ Len(<<>>) = 0 /\ DOMAIN <<>> = {}
<1>1. <<>> \in Seq({}) /\ Len(<<>>) = 0
  BY EmptySeq
<1>2. DOMAIN <<>> = {}
  OBVIOUS
<1>3. QED
  BY <1>1, <1>2, SeqIsList

(* A list with one entry more. *)
LEMMA OneMore ==
    ASSUME NEW s, IsList(s), NEW e
    PROVE  /\ IsList(Append(s, e)) /\ Len(Append(s, e)) = Len(s) + 1
           /\ Append(s, e)[Len(s) + 1] = e
           /\ \A i \in DOMAIN s : Append(s, e)[i] = s[i]
<1> DEFINE S == {s[i] : i \in DOMAIN s} \cup {e}
<1>1. s \in Seq(S) /\ e \in S /\ DOMAIN s = 1..Len(s)
  BY ListIs
<1>2. Append(s, e) \in Seq(S)
  BY <1>1, AppendProperties
<1>3. /\ Len(Append(s, e)) = Len(s) + 1
      /\ Append(s, e)[Len(s) + 1] = e
      /\ \A i \in 1..Len(s) : Append(s, e)[i] = s[i]
  <2> HIDE DEF S
  <2>1. QED
    BY <1>1, AppendProperties
<1>4. QED
  BY <1>1, <1>2, <1>3, SeqIsList

(* Two lists, one after the other. *)
LEMMA OneAfterOther ==
    ASSUME NEW a, NEW b, IsList(a), IsList(b)
    PROVE  IsList(a \o b) /\ Len(a \o b) = Len(a) + Len(b) /\ DOMAIN (a \o b) = 1..Len(a) + Len(b)
<1> DEFINE S == {a[i] : i \in DOMAIN a} \cup {b[i] : i \in DOMAIN b}
<1>1. /\ a \in Seq(S) /\ b \in Seq(S)
  BY ListIs
<1> HIDE DEF S
<1>2. a \o b \in Seq(S) /\ Len(a \o b) = Len(a) + Len(b)
  BY <1>1, ConcatProperties
<1>3. QED
  BY <1>2, LenProperties, SeqIsList

(* Where an entry of each of the two is. *)
LEMMA EntriesOfBoth ==
    ASSUME NEW a, NEW b, NEW both, IsList(a), IsList(b), both = a \o b
    PROVE  /\ \A i \in 1..Len(a) : both[i] = a[i]
           /\ \A i \in 1..Len(b) : both[Len(a) + i] = b[i]
           /\ \A i \in 1..Len(a) + Len(b) : i \notin 1..Len(a) => i - Len(a) \in 1..Len(b) /\ both[i] = b[i - Len(a)]
<1> DEFINE S == {a[i] : i \in DOMAIN a} \cup {b[i] : i \in DOMAIN b}
<1>1. /\ a \in Seq(S) /\ b \in Seq(S) /\ DOMAIN a = 1..Len(a) /\ DOMAIN b = 1..Len(b)
      /\ Len(a) \in Nat /\ Len(b) \in Nat
  BY ListIs
<1> HIDE DEF S
<1>2. \A i \in 1..Len(a) + Len(b) : both[i] = IF i <= Len(a) THEN a[i] ELSE b[i - Len(a)]
  BY <1>1, ConcatProperties
<1>3. DOMAIN both = 1..Len(a) + Len(b)
  BY OneAfterOther
<1>4. \A i \in 1..Len(a) : both[i] = a[i]
  BY <1>1, <1>2
<1>5. ASSUME NEW i \in 1..Len(b) PROVE both[Len(a) + i] = b[i]
  <2>1. Len(a) + i \in 1..Len(a) + Len(b) /\ ~(Len(a) + i <= Len(a)) /\ Len(a) + i - Len(a) = i
    BY <1>1
  <2>2. QED
    BY <1>2, <2>1
<1>6. ASSUME NEW i \in 1..Len(a) + Len(b), i \notin 1..Len(a)
      PROVE  i - Len(a) \in 1..Len(b) /\ both[i] = b[i - Len(a)]
  BY <1>1, <1>2, <1>6
<1>7. QED
  BY <1>1, <1>3, <1>4, <1>5, <1>6

(* Three lists in a row, and where an entry of each of them is. *)
LEMMA InARow ==
    ASSUME NEW a, NEW b, NEW c, IsList(a), IsList(b), IsList(c)
    PROVE  IsList(a \o b \o c) /\ Len(a \o b \o c) = Len(a) + Len(b) + Len(c)
<1> DEFINE ab == a \o b
<1>1. IsList(ab) /\ Len(ab) = Len(a) + Len(b)
  BY OneAfterOther
<1> HIDE DEF ab
<1>2. IsList(ab \o c) /\ Len(ab \o c) = Len(ab) + Len(c)
  BY <1>1, OneAfterOther
<1>3. QED
  BY <1>1, <1>2 DEF ab

(* Where an entry of each of the three is. *)
LEMMA EntriesInARow ==
    ASSUME NEW a, NEW b, NEW c, NEW all, IsList(a), IsList(b), IsList(c), all = a \o b \o c
    PROVE  /\ \A i \in 1..Len(a) : all[i] = a[i]
           /\ \A i \in 1..Len(b) : all[Len(a) + i] = b[i]
           /\ \A i \in 1..Len(c) : all[Len(a) + Len(b) + i] = c[i]
<1>1. PICK ab : ab = a \o b
  OBVIOUS
<1>2. IsList(ab) /\ Len(ab) = Len(a) + Len(b) /\ DOMAIN ab = 1..Len(a) + Len(b) /\ all = ab \o c
  BY <1>1, OneAfterOther
<1>3. /\ Len(a) \in Nat /\ Len(b) \in Nat
      /\ DOMAIN a = 1..Len(a) /\ DOMAIN b = 1..Len(b)
  BY ListIs
<1>4. /\ \A i \in 1..Len(a) : ab[i] = a[i]
      /\ \A i \in 1..Len(b) : ab[Len(a) + i] = b[i]
  BY <1>1, EntriesOfBoth
<1>5. /\ \A i \in 1..Len(a) : i \in 1..Len(ab) /\ ab[i] = a[i]
      /\ \A i \in 1..Len(b) : Len(a) + i \in 1..Len(ab) /\ ab[Len(a) + i] = b[i]
  BY <1>2, <1>3, <1>4
<1>6. /\ \A i \in 1..Len(ab) : all[i] = ab[i]
      /\ \A i \in 1..Len(c) : all[Len(ab) + i] = c[i]
  BY <1>2, EntriesOfBoth
<1>7. QED
  BY <1>2, <1>5, <1>6

-----------------------------------------------------------------------------
(* What the parser has accepted. *)

ExpanderRecords == {ExpanderOf(obj) : obj \in Entries["expanders"]}
ActuatorRecords == {ActuatorOf(obj) : obj \in {o \in Entries["actuators"] : ActuatorAccepted(o)}}
SensorRecords == {SensorOf(obj) : obj \in {o \in Entries["sensors"] : SensorAccepted(o)}}
ButtonRecords == {ButtonOf(obj) : obj \in {o \in Entries["buttons"] : ButtonAccepted(o)}}
BindingRecords == {BindingOf(obj) : obj \in {o \in Entries["bindings"] : BindingAccepted(o)}}

(* The sections, as a set. *)
Parts == {"expanders", "actuators", "sensors", "buttons", "bindings"}

AppOK ==
    /\ DOMAIN app = {"username", "password"} \cup Parts
    /\ app.expanders \in Seq(ExpanderRecords)
    /\ app.actuators \in Seq(ActuatorRecords)
    /\ app.sensors \in Seq(SensorRecords)
    /\ app.buttons \in Seq(ButtonRecords)
    /\ app.bindings \in Seq(BindingRecords)
    /\ LoginAccepted(app)

(* What each of them holds. *)
RecordsOf ==
    [expanders |-> ExpanderRecords, actuators |-> ActuatorRecords, sensors |-> SensorRecords,
     buttons |-> ButtonRecords, bindings |-> BindingRecords]

(* A chip is refused when an earlier one has its index. *)
ChipsDiffer ==
    \A i, j \in DOMAIN app.expanders : app.expanders[i].index = app.expanders[j].index => i = j

(* What was checked across the sections, from then on. *)
Checked == phase \in {"secrets", "devices", "build", "running"} => PinsDeclared /\ NamesUnique /\ PinsUnique

(* buildDevices. *)
ActuatorDevice(a) == With([kind |-> IF a.backend = "cover" THEN "cover" ELSE "relay"], a)
SensorDevice(s) == With([kind |-> "sensor"], s)
ButtonDevice(b) == With([kind |-> "button", type |-> "button"], b)
BuiltDevices ==
    [i \in DOMAIN app.actuators |-> ActuatorDevice(app.actuators[i])]
    \o [i \in DOMAIN app.sensors |-> SensorDevice(app.sensors[i])]
    \o [i \in DOMAIN app.buttons |-> ButtonDevice(app.buttons[i])]

Late == {"build", "halted", "running"}

RegistryOK == phase \in Late => registry = BuiltDevices

(* Some switch of a source's name can say what it is bound to. *)
CanSay(source, rule) ==
    source.kind = "button" =>
        \E i \in DOMAIN app.buttons :
            /\ app.buttons[i].id = source.id
            /\ Produces(app.buttons[i], IF rule = "cover" THEN "hold_start" ELSE source.gesture)

(* The rules are those of the first bindings, and what each listens to can be said. *)
RulesOK ==
    /\ phase \notin Late => rules = <<>>
    /\ IsList(rules) /\ Len(rules) <= Len(app.bindings)
    /\ \A b \in DOMAIN rules : \A source \in ToSet(app.bindings[b].sources) :
           CanSay(source, app.bindings[b].rule)

WiringInv == AppOK /\ ChipsDiffer /\ Checked /\ RegistryOK /\ RulesOK

-----------------------------------------------------------------------------
(* Records. *)

(* An actuator's record: its name, and the times of a cover. *)
LEMMA ActuatorRecordIs ==
    ASSUME NEW a \in ActuatorRecords
    PROVE  /\ {"type", "id", "backend", "pins"} \subseteq DOMAIN a
           /\ a.backend = "cover" =>
                 /\ "timing" \in DOMAIN a
                 /\ a.timing.up # 0 /\ a.timing.down # 0
                 /\ a.timing.tilt < a.timing.up /\ a.timing.tilt < a.timing.down
<1>1. PICK obj : ActuatorAccepted(obj) /\ a = ActuatorOf(obj)
  BY DEF ActuatorRecords
<1> DEFINE device == [type |-> TypeOf(obj, "light"), id |-> Or(obj, "id", 0),
                      backend |-> Or(obj.backend, "kind", "gpio")]
           pins == <<PinRef(obj.backend.up), PinRef(obj.backend.down)>>
           ofCover == [pins |-> pins, timing |-> CoverTiming(obj.options)]
           ofOther == [pins |-> <<PinRef(obj.backend)>>]
<1>2. a = IF device.backend = "cover" THEN With(ofCover, device) ELSE With(ofOther, device)
  BY <1>1 DEF ActuatorOf
<1>3. CASE device.backend = "cover"
  <2>1. /\ {"type", "id", "backend", "pins", "timing"} \subseteq DOMAIN a
        /\ a.timing = CoverTiming(obj.options)
    BY <1>2, <1>3 DEF With
  <2>2. CoverAccepted(obj)
    BY <1>1, <1>3 DEF ActuatorAccepted
  <2>3. QED
    BY <2>1, <2>2 DEF CoverAccepted
<1>4. CASE device.backend # "cover"
  BY <1>2, <1>4 DEF With
<1>5. QED
  BY <1>3, <1>4

(* The device of an actuator keeps its name, and a cover its times. *)
LEMMA DeviceOfActuator ==
    ASSUME NEW a \in ActuatorRecords
    PROVE  LET d == ActuatorDevice(a) IN
           /\ d.type = a.type /\ d.id = a.id
           /\ d.kind = (IF a.backend = "cover" THEN "cover" ELSE "relay")
           /\ a.backend = "cover" => d.timing = a.timing
BY ActuatorRecordIs DEF ActuatorDevice, With

(* The device of a sensor keeps its name. *)
LEMMA DeviceOfSensor ==
    ASSUME NEW s \in SensorRecords
    PROVE  LET d == SensorDevice(s) IN d.type = s.type /\ d.id = s.id /\ d.kind = "sensor"
<1>1. PICK obj : s = SensorOf(obj)
  BY DEF SensorRecords
<1>2. {"type", "id"} \subseteq DOMAIN s /\ "kind" \notin DOMAIN s
  BY <1>1 DEF SensorOf
<1>3. QED
  BY <1>2 DEF SensorDevice, With

(* The device of a button keeps its name and what it can say. *)
LEMMA DeviceOfButton ==
    ASSUME NEW b \in ButtonRecords
    PROVE  LET d == ButtonDevice(b) IN
           d.kind = "button" /\ d.id = b.id /\ d.full = b.full /\ d.momentary = b.momentary
<1>1. PICK obj : b = ButtonOf(obj)
  BY DEF ButtonRecords
<1>2. {"id", "full", "momentary"} \subseteq DOMAIN b
  BY <1>1 DEF ButtonOf
<1>3. QED
  BY <1>2 DEF ButtonDevice, With
-----------------------------------------------------------------------------
(* Every step keeps WiringInv. *)

(* Nothing is read yet. *)
LEMMA WiringInitInv == WiringInit => WiringInv
<1> SUFFICES ASSUME WiringInit PROVE WiringInv
  OBVIOUS
<1>1. /\ app.username = "" /\ app.password = "" /\ DOMAIN app = {"username", "password"} \cup Parts
      /\ app.expanders = <<>> /\ app.actuators = <<>> /\ app.sensors = <<>>
      /\ app.buttons = <<>> /\ app.bindings = <<>> /\ rules = <<>> /\ phase = "header"
  BY DEF WiringInit, Parts
<1>2. AppOK
  <2>1. LoginAccepted(app)
    BY <1>1, LoginAssumption DEF LoginAccepted
  <2>2. \A S : <<>> \in Seq(S)
    BY EmptySeq
  <2>3. QED
    BY <1>1, <2>1, <2>2 DEF AppOK
<1>3. DOMAIN <<>> = {} /\ Len(<<>>) = 0 /\ DOMAIN <<>> = 1..0 /\ 0 \in 0..0
  OBVIOUS
<1>4. ChipsDiffer /\ Checked /\ RegistryOK
  BY <1>1, <1>3 DEF ChipsDiffer, Checked, RegistryOK, Late
<1>5. RulesOK
  <2>1. IsList(rules) /\ DOMAIN rules = {} /\ Len(rules) = 0 /\ Len(app.bindings) = 0
    BY <1>1, NoneIsAList
  <2>2. Len(rules) <= Len(app.bindings)
    BY <2>1
  <2>3. \A b \in DOMAIN rules : \A source \in ToSet(app.bindings[b].sources) :
           CanSay(source, app.bindings[b].rule)
    BY <2>1
  <2>4. QED
    BY <1>1, <2>1, <2>2, <2>3 DEF RulesOK
<1>6. QED
  BY <1>2, <1>4, <1>5 DEF WiringInv

(* Before the checks only what is read so far has to be right. *)
LEMMA WhileReading ==
    ASSUME AppOK', ChipsDiffer', rules' = <<>>,
           phase' \in {"network", "checks", "refused"} \cup Parts
    PROVE  WiringInv'
<1>1. phase' \notin {"secrets", "devices"} \cup Late
  BY DEF Parts, Late
<1>2. Len(app'.bindings) \in Nat
  BY LenProperties DEF AppOK
<1>3. RulesOK'
  BY <1>2, NoneIsAList DEF RulesOK
<1>4. QED
  BY <1>1, <1>3 DEF WiringInv, Checked, RegistryOK, Late

(* An entry of the right kind at the end of its section. *)
LEMMA EntryIsAppended ==
    ASSUME AppOK, NEW section \in Parts, NEW entry \in RecordsOf[section],
           app' = [app EXCEPT ![section] = Append(@, entry)]
    PROVE  /\ AppOK'
           /\ app'[section] = Append(app[section], entry)
           /\ section # "expanders" => app'.expanders = app.expanders
<1>1. /\ DOMAIN app' = DOMAIN app
      /\ app'[section] = Append(app[section], entry)
      /\ \A key \in DOMAIN app \ {section} : app'[key] = app[key]
  BY DEF AppOK
<1>2. app'.username = app.username /\ app'.password = app.password
  BY <1>1 DEF AppOK, Parts
<1>3. app[section] \in Seq(RecordsOf[section])
  BY DEF AppOK, Parts, RecordsOf
<1>4. app'[section] \in Seq(RecordsOf[section])
  <2>1. ASSUME NEW S, NEW list \in Seq(S), NEW e \in S PROVE Append(list, e) \in Seq(S)
    BY AppendProperties
  <2>2. Append(app[section], entry) \in Seq(RecordsOf[section])
    BY <1>3, <2>1
  <2>3. QED
    BY <1>1, <2>2
<1>5. \A key \in Parts : app'[key] \in Seq(RecordsOf[key])
  BY <1>1, <1>4 DEF AppOK, Parts, RecordsOf
<1>6. LoginAccepted(app')
  BY <1>2 DEF AppOK, LoginAccepted
<1>7. /\ app'.expanders \in Seq(ExpanderRecords)
      /\ app'.actuators \in Seq(ActuatorRecords)
      /\ app'.sensors \in Seq(SensorRecords)
      /\ app'.buttons \in Seq(ButtonRecords)
      /\ app'.bindings \in Seq(BindingRecords)
  BY <1>5 DEF Parts, RecordsOf
<1>8. AppOK'
  BY <1>1, <1>6, <1>7 DEF AppOK
<1>9. QED
  BY <1>1, <1>8 DEF AppOK, Parts

(* What is checked across the sections is about nothing else. *)
LEMMA PartsAreChecked ==
    ASSUME \A section \in Parts : app'[section] = app[section]
    PROVE  /\ PinsDeclared' <=> PinsDeclared
           /\ NamesUnique' <=> NamesUnique
           /\ PinsUnique' <=> PinsUnique
<1>1. /\ app'.expanders = app.expanders /\ app'.actuators = app.actuators
      /\ app'.sensors = app.sensors /\ app'.buttons = app.buttons
  BY DEF Parts
<1>2. DevicePins' = DevicePins
  BY <1>1 DEF DevicePins, Pins
<1>3. PinsDeclared' <=> PinsDeclared
  BY <1>1, <1>2 DEF PinsDeclared
<1>4. NamesUnique' <=> NamesUnique
  BY <1>1 DEF NamesUnique
<1>5. PinsUnique' <=> PinsUnique
  <2>1. Claims' = Claims
    BY <1>1, <1>2 DEF Claims
  <2>2. QED
    BY <2>1 DEF PinsUnique
<1>6. QED
  BY <1>3, <1>4, <1>5

(* What is not read again stays as it was accepted. *)
LEMMA AppKept ==
    ASSUME WiringInv, UNCHANGED app
    PROVE  AppOK' /\ ChipsDiffer'
BY DEF WiringInv, AppOK, ChipsDiffer

(* A chip is accepted with an index no other has. *)
LEMMA ReadsExpanders == ASSUME WiringInv, Expanders PROVE WiringInv'
<1>1. phase = "expanders" /\ rules = <<>>
  BY DEF Expanders, Take, WiringInv, RulesOK, Late
<1>2. rules' = <<>> /\ phase' \in {"refused"} \cup Parts
  BY <1>1 DEF Expanders, Take, built, Parts
<1>3. CASE UNCHANGED app
  BY <1>2, <1>3, AppKept, WhileReading
<1>4. CASE \E obj \in Entries["expanders"] :
              ExpanderAccepted(obj) /\ app' = [app EXCEPT !["expanders"] = Append(@, ExpanderOf(obj))]
  <2>1. PICK obj \in Entries["expanders"] :
              ExpanderAccepted(obj) /\ app' = [app EXCEPT !["expanders"] = Append(@, ExpanderOf(obj))]
    BY <1>4
  <2> DEFINE chip == ExpanderOf(obj)
             chips == app.expanders
  <2>2. /\ AppOK /\ ChipsDiffer /\ "expanders" \in Parts
        /\ chip \in ExpanderRecords /\ chip \in RecordsOf["expanders"]
    BY DEF WiringInv, Parts, RecordsOf, ExpanderRecords
  <2>3. AppOK' /\ app'.expanders = Append(chips, chip)
    <3> HIDE DEF chip
    <3>1. app' = [app EXCEPT !["expanders"] = Append(@, chip)]
      BY <2>1 DEF chip
    <3>2. QED
      BY <2>2, <3>1, EntryIsAppended
  <2>5. ChipsDiffer'
    <3>1. \A e \in ToSet(chips) : e.index # chip.index
      BY <2>1 DEF ExpanderAccepted
    <3>2. \A i \in DOMAIN chips : chips[i].index # chip.index
      BY <3>1 DEF ToSet
    <3> HIDE DEF chip
    <3>3. /\ Len(chips) \in Nat /\ DOMAIN chips = 1..Len(chips)
          /\ DOMAIN app'.expanders = 1..Len(chips) + 1
          /\ app'.expanders[Len(chips) + 1] = chip
          /\ \A i \in 1..Len(chips) : app'.expanders[i] = chips[i]
      BY <2>2, <2>3, AppendProperties, LenProperties DEF AppOK
    <3>4. ASSUME NEW i \in 1..Len(chips) + 1, NEW j \in 1..Len(chips) + 1,
                 app'.expanders[i].index = app'.expanders[j].index
          PROVE  i = j
      <4>1. CASE i <= Len(chips) /\ j <= Len(chips)
        <5>1. chips[i].index = chips[j].index /\ i \in DOMAIN chips /\ j \in DOMAIN chips
          BY <3>3, <3>4, <4>1
        <5>2. QED
          BY <2>2, <5>1 DEF ChipsDiffer
      <4>2. CASE i = Len(chips) + 1 /\ j <= Len(chips)
        BY <3>2, <3>3, <3>4, <4>2
      <4>3. CASE i <= Len(chips) /\ j = Len(chips) + 1
        BY <3>2, <3>3, <3>4, <4>3
      <4>4. QED
        BY <3>3, <4>1, <4>2, <4>3
    <3>5. QED
      BY <3>3, <3>4 DEF ChipsDiffer
  <2>6. QED
    BY <1>2, <2>3, <2>5, WhileReading
<1>5. QED
  BY <1>3, <1>4 DEF Expanders, Take
(* An actuator is accepted. *)
LEMMA ReadsActuators == ASSUME WiringInv, Actuators PROVE WiringInv'
<1>1. phase = "actuators" /\ rules = <<>>
  BY DEF Actuators, Take, WiringInv, RulesOK, Late
<1>2. rules' = <<>> /\ phase' \in {"checks", "refused"} \cup Parts
  BY <1>1 DEF Actuators, Take, built, Parts
<1>3. CASE UNCHANGED app
  BY <1>2, <1>3, AppKept, WhileReading
<1>4. CASE \E obj \in Entries["actuators"] :
              ActuatorAccepted(obj) /\ app' = [app EXCEPT !["actuators"] = Append(@, ActuatorOf(obj))]
  <2>1. PICK obj \in Entries["actuators"] :
              ActuatorAccepted(obj) /\ app' = [app EXCEPT !["actuators"] = Append(@, ActuatorOf(obj))]
    BY <1>4
  <2> DEFINE entry == ActuatorOf(obj)
  <2>2. AppOK /\ ChipsDiffer /\ "actuators" \in Parts /\ entry \in RecordsOf["actuators"]
    BY <2>1 DEF WiringInv, Parts, RecordsOf, ActuatorRecords
  <2>3. AppOK' /\ app'.expanders = app.expanders
    <3> HIDE DEF entry
    <3>1. app' = [app EXCEPT !["actuators"] = Append(@, entry)]
      BY <2>1 DEF entry
    <3>2. QED
      BY <2>2, <3>1, EntryIsAppended
  <2>4. ChipsDiffer'
    BY <2>2, <2>3 DEF ChipsDiffer
  <2>5. QED
    BY <1>2, <2>3, <2>4, WhileReading
<1>5. QED
  BY <1>3, <1>4 DEF Actuators, Take

(* A sensor is accepted. *)
LEMMA ReadsSensors == ASSUME WiringInv, Sensors PROVE WiringInv'
<1>1. phase = "sensors" /\ rules = <<>>
  BY DEF Sensors, Take, WiringInv, RulesOK, Late
<1>2. rules' = <<>> /\ phase' \in {"checks", "refused"} \cup Parts
  BY <1>1 DEF Sensors, Take, built, Parts
<1>3. CASE UNCHANGED app
  BY <1>2, <1>3, AppKept, WhileReading
<1>4. CASE \E obj \in Entries["sensors"] :
              SensorAccepted(obj) /\ app' = [app EXCEPT !["sensors"] = Append(@, SensorOf(obj))]
  <2>1. PICK obj \in Entries["sensors"] :
              SensorAccepted(obj) /\ app' = [app EXCEPT !["sensors"] = Append(@, SensorOf(obj))]
    BY <1>4
  <2> DEFINE entry == SensorOf(obj)
  <2>2. AppOK /\ ChipsDiffer /\ "sensors" \in Parts /\ entry \in RecordsOf["sensors"]
    BY <2>1 DEF WiringInv, Parts, RecordsOf, SensorRecords
  <2>3. AppOK' /\ app'.expanders = app.expanders
    <3> HIDE DEF entry
    <3>1. app' = [app EXCEPT !["sensors"] = Append(@, entry)]
      BY <2>1 DEF entry
    <3>2. QED
      BY <2>2, <3>1, EntryIsAppended
  <2>4. ChipsDiffer'
    BY <2>2, <2>3 DEF ChipsDiffer
  <2>5. QED
    BY <1>2, <2>3, <2>4, WhileReading
<1>5. QED
  BY <1>3, <1>4 DEF Sensors, Take

(* A button is accepted. *)
LEMMA ReadsButtons == ASSUME WiringInv, Buttons PROVE WiringInv'
<1>1. phase = "buttons" /\ rules = <<>>
  BY DEF Buttons, Take, WiringInv, RulesOK, Late
<1>2. rules' = <<>> /\ phase' \in {"checks", "refused"} \cup Parts
  BY <1>1 DEF Buttons, Take, built, Parts
<1>3. CASE UNCHANGED app
  BY <1>2, <1>3, AppKept, WhileReading
<1>4. CASE \E obj \in Entries["buttons"] :
              ButtonAccepted(obj) /\ app' = [app EXCEPT !["buttons"] = Append(@, ButtonOf(obj))]
  <2>1. PICK obj \in Entries["buttons"] :
              ButtonAccepted(obj) /\ app' = [app EXCEPT !["buttons"] = Append(@, ButtonOf(obj))]
    BY <1>4
  <2> DEFINE entry == ButtonOf(obj)
  <2>2. AppOK /\ ChipsDiffer /\ "buttons" \in Parts /\ entry \in RecordsOf["buttons"]
    BY <2>1 DEF WiringInv, Parts, RecordsOf, ButtonRecords
  <2>3. AppOK' /\ app'.expanders = app.expanders
    <3> HIDE DEF entry
    <3>1. app' = [app EXCEPT !["buttons"] = Append(@, entry)]
      BY <2>1 DEF entry
    <3>2. QED
      BY <2>2, <3>1, EntryIsAppended
  <2>4. ChipsDiffer'
    BY <2>2, <2>3 DEF ChipsDiffer
  <2>5. QED
    BY <1>2, <2>3, <2>4, WhileReading
<1>5. QED
  BY <1>3, <1>4 DEF Buttons, Take

(* A binding is accepted. *)
LEMMA ReadsBindings == ASSUME WiringInv, Bindings PROVE WiringInv'
<1>1. phase = "bindings" /\ rules = <<>>
  BY DEF Bindings, Take, WiringInv, RulesOK, Late
<1>2. rules' = <<>> /\ phase' \in {"checks", "refused"} \cup Parts
  BY <1>1 DEF Bindings, Take, built, Parts
<1>3. CASE UNCHANGED app
  BY <1>2, <1>3, AppKept, WhileReading
<1>4. CASE \E obj \in Entries["bindings"] :
              BindingAccepted(obj) /\ app' = [app EXCEPT !["bindings"] = Append(@, BindingOf(obj))]
  <2>1. PICK obj \in Entries["bindings"] :
              BindingAccepted(obj) /\ app' = [app EXCEPT !["bindings"] = Append(@, BindingOf(obj))]
    BY <1>4
  <2> DEFINE entry == BindingOf(obj)
  <2>2. AppOK /\ ChipsDiffer /\ "bindings" \in Parts /\ entry \in RecordsOf["bindings"]
    BY <2>1 DEF WiringInv, Parts, RecordsOf, BindingRecords
  <2>3. AppOK' /\ app'.expanders = app.expanders
    <3> HIDE DEF entry
    <3>1. app' = [app EXCEPT !["bindings"] = Append(@, entry)]
      BY <2>1 DEF entry
    <3>2. QED
      BY <2>2, <3>1, EntryIsAppended
  <2>4. ChipsDiffer'
    BY <2>2, <2>3 DEF ChipsDiffer
  <2>5. QED
    BY <1>2, <2>3, <2>4, WhileReading
<1>5. QED
  BY <1>3, <1>4 DEF Bindings, Take

(* The header holds no part of it. *)
LEMMA ReadsHeader == ASSUME WiringInv, Header PROVE WiringInv'
<1>1. rules' = <<>> /\ UNCHANGED app /\ phase' \in {"network", "refused"}
  BY DEF Header, built, WiringInv, RulesOK, Late
<1>2. QED
  BY <1>1, AppKept, WhileReading

(* Another login leaves the sections alone. *)
LEMMA LoginIsRead ==
    ASSUME AppOK, NEW net, app' = Login(net), LoginAccepted(Login(net))
    PROVE  AppOK' /\ \A section \in Parts : app'[section] = app[section]
<1>1. DOMAIN app' = DOMAIN app /\ \A key \in DOMAIN app \ {"username", "password"} : app'[key] = app[key]
  BY DEF Login
<1>2. \A section \in Parts : app'[section] = app[section]
  BY <1>1 DEF AppOK, Parts
<1>3. QED
  BY <1>1, <1>2 DEF AppOK, Parts

(* The login of config.json. *)
LEMMA ReadsNetwork == ASSUME WiringInv, Network PROVE WiringInv'
<1>1. rules' = <<>> /\ phase' \in {"expanders", "refused"}
  BY DEF Network, built, WiringInv, RulesOK, Late
<1>2. CASE UNCHANGED app
  BY <1>1, <1>2, AppKept, WhileReading DEF Parts
<1>3. CASE \E net \in Networks : LoginAccepted(Login(net)) /\ app' = Login(net)
  <2>1. AppOK' /\ app'.expanders = app.expanders
    BY <1>3, LoginIsRead DEF WiringInv, Parts
  <2>2. ChipsDiffer'
    BY <2>1 DEF WiringInv, ChipsDiffer
  <2>3. QED
    BY <1>1, <2>1, <2>2, WhileReading DEF Parts
<1>4. QED
  BY <1>2, <1>3 DEF Network

(* What is checked across the sections holds from then on. *)
LEMMA ChecksAcross == ASSUME WiringInv, Checks PROVE WiringInv'
<1>1. /\ phase = "checks" /\ rules' = <<>> /\ UNCHANGED <<app, rules>>
      /\ phase' = IF PinsDeclared /\ BackendsMatch /\ NamesUnique /\ PinsUnique THEN "secrets" ELSE "refused"
  BY DEF Checks, built, WiringInv, RulesOK, Late
<1>2. AppOK' /\ ChipsDiffer'
  BY <1>1, AppKept
<1>3. CASE phase' = "refused"
  BY <1>1, <1>2, <1>3, WhileReading
<1>4. CASE phase' = "secrets" /\ PinsDeclared /\ NamesUnique /\ PinsUnique
  <2>1. Checked'
    BY <1>1, <1>4, PartsAreChecked DEF Parts, Checked
  <2>2. RegistryOK' /\ RulesOK'
    BY <1>1, <1>4 DEF WiringInv, RegistryOK, RulesOK, Late
  <2>3. QED
    BY <1>2, <2>1, <2>2 DEF WiringInv
<1>5. QED
  BY <1>1, <1>3, <1>4

(* The login of secrets.json. *)
LEMMA ReadsSecrets == ASSUME WiringInv, Overlay PROVE WiringInv'
<1>1. phase = "secrets" /\ rules' = <<>> /\ phase' \in {"devices", "refused"} /\ UNCHANGED rules
  BY DEF Overlay, built, WiringInv, RulesOK, Late
<1>2. AppOK' /\ \A section \in Parts : app'[section] = app[section]
  <2>1. CASE UNCHANGED app
    BY <2>1, AppKept
  <2>2. CASE \E net \in Secrets : LoginAccepted(Login(net)) /\ app' = Login(net)
    BY <2>2, LoginIsRead DEF WiringInv
  <2>3. QED
    BY <2>1, <2>2 DEF Overlay
<1>3. ChipsDiffer'
  BY <1>2 DEF WiringInv, ChipsDiffer, Parts
<1>4. CASE phase' = "refused"
  BY <1>1, <1>2, <1>3, <1>4, WhileReading
<1>5. CASE phase' = "devices"
  <2>1. PinsDeclared' /\ NamesUnique' /\ PinsUnique'
    BY <1>1, <1>2, PartsAreChecked DEF WiringInv, Checked
  <2>2. RegistryOK' /\ RulesOK'
    <3>1. Len(app'.bindings) \in Nat
      BY <1>2, LenProperties DEF AppOK
    <3>2. QED
      BY <1>1, <1>5, <3>1, NoneIsAList DEF RegistryOK, RulesOK, Late
  <2>3. QED
    BY <1>2, <1>3, <2>1, <2>2 DEF WiringInv, Checked
<1>6. QED
  BY <1>1, <1>4, <1>5

-----------------------------------------------------------------------------
(* Building. *)

(* What is checked stays so while the file stays what it is. *)
LEMMA FileIsKept ==
    ASSUME WiringInv, UNCHANGED app, phase \in {"devices", "build", "running"}
    PROVE  AppOK' /\ ChipsDiffer' /\ Checked'
<1>1. PinsDeclared' /\ NamesUnique' /\ PinsUnique'
  BY PartsAreChecked DEF WiringInv, Checked
<1>2. QED
  BY <1>1, AppKept DEF Checked

(* The registry is built from the sections. *)
LEMMA BuildsDevices == ASSUME WiringInv, Devices PROVE WiringInv'
<1>1. /\ phase = "devices" /\ phase' \in {"build", "halted"} /\ UNCHANGED <<app, rules>>
      /\ registry' = BuiltDevices
  BY DEF Devices, BuiltDevices, ActuatorDevice, SensorDevice, ButtonDevice
<1>2. AppOK' /\ ChipsDiffer' /\ Checked'
  BY <1>1, FileIsKept
<1>3. BuiltDevices' = BuiltDevices
  BY <1>1 DEF BuiltDevices
<1>4. rules = <<>>
  BY <1>1 DEF WiringInv, RulesOK, Late
<1>5. RulesOK'
  <2>1. Len(app'.bindings) \in Nat
    BY <1>2, LenProperties DEF AppOK
  <2>2. QED
    BY <1>1, <1>4, <2>1, NoneIsAList DEF RulesOK, Late
<1>6. QED
  BY <1>1, <1>2, <1>3, <1>5 DEF WiringInv, RegistryOK

(* attachSources has asked the first switch of that id. *)
LEMMA AttachableCanSay ==
    ASSUME AppOK, NEW source, NEW rule, Attachable(source, rule)
    PROVE  CanSay(source, rule)
<1> DEFINE I == {j \in 1..Len(app.buttons) : app.buttons[j].id = source.id}
           i == IF I # {} THEN Min(I) ELSE 0
<1>1. ASSUME source.kind = "button" PROVE i # 0 /\ Produces(app.buttons[i], IF rule = "cover" THEN "hold_start" ELSE source.gesture)
  BY <1>1 DEF Attachable, SelectInSeq
<1>2. ASSUME I # {} PROVE Min(I) \in I
  <2>1. I \subseteq Nat
    OBVIOUS
  <2> HIDE DEF I
  <2>2. QED
    BY <1>2, <2>1, LeastExists
<1>3. ASSUME source.kind = "button" PROVE i \in 1..Len(app.buttons) /\ app.buttons[i].id = source.id
  BY <1>1, <1>2, <1>3
<1>4. DOMAIN app.buttons = 1..Len(app.buttons)
  BY LenProperties DEF AppOK
<1>5. QED
  BY <1>1, <1>3, <1>4 DEF CanSay

(* A rule is built for a binding whose sources can be said. *)
LEMMA BuildsRule == ASSUME WiringInv, Build PROVE WiringInv'
<1> DEFINE b == Len(rules) + 1
           binding == app.bindings[b]
<1>1. /\ phase = "build" /\ UNCHANGED <<app, registry>> /\ b <= Len(app.bindings)
      /\ \/ /\ \A source \in ToSet(binding.sources) : Attachable(source, binding.rule)
            /\ \E rule : rules' = Append(rules, rule)
            /\ phase' = "build"
         \/ phase' = "halted" /\ UNCHANGED rules
  BY DEF Build
<1>2. AppOK' /\ ChipsDiffer' /\ Checked'
  BY <1>1, FileIsKept
<1>3. RegistryOK'
  BY <1>1 DEF WiringInv, RegistryOK, BuiltDevices, Late
<1>4. /\ IsList(rules) /\ Len(rules) \in Nat /\ DOMAIN rules = 1..Len(rules) /\ Len(rules) <= Len(app.bindings)
      /\ \A c \in DOMAIN rules : \A source \in ToSet(app.bindings[c].sources) :
            CanSay(source, app.bindings[c].rule)
  BY ListIs DEF WiringInv, RulesOK
<1>5. \A source, rule : CanSay(source, rule)' <=> CanSay(source, rule)
  BY <1>1 DEF CanSay
<1>6. ASSUME UNCHANGED rules PROVE RulesOK'
  <2>1. phase' \in Late
    BY <1>1 DEF Late
  <2>2. app' = app /\ rules' = rules
    BY <1>1, <1>6
  <2>3. (\A c \in DOMAIN rules : \A source \in ToSet(app.bindings[c].sources) :
            CanSay(source, app.bindings[c].rule))'
    BY <1>4, <1>5, <2>2
  <2>4. IsList(rules') /\ Len(rules') <= Len(app'.bindings)
    BY <1>4, <2>2
  <2>5. phase' \notin Late => rules' = <<>>
    BY <2>1
  <2>6. QED
    BY <2>3, <2>4, <2>5 DEF RulesOK
<1>7. CASE /\ \A source \in ToSet(binding.sources) : Attachable(source, binding.rule)
           /\ \E rule : rules' = Append(rules, rule)
           /\ phase' = "build"
  <2>1. IsList(rules') /\ Len(rules') = b /\ DOMAIN rules' = 1..b
    BY <1>4, <1>7, OneMore, ListIs
  <2>2. \A source \in ToSet(binding.sources) : CanSay(source, binding.rule)
    BY <1>7, AttachableCanSay DEF WiringInv
  <2>3. ASSUME NEW c \in 1..b, NEW source \in ToSet(app.bindings[c].sources)
        PROVE  CanSay(source, app.bindings[c].rule)
    <3>1. CASE c = b
      BY <2>2, <2>3, <3>1
    <3>2. CASE c # b
      <4>1. c \in DOMAIN rules
        BY <1>4, <3>2
      <4>2. QED
        BY <1>4, <2>3, <4>1
    <3>3. QED
      BY <3>1, <3>2
  <2>4. RulesOK'
    BY <1>1, <1>5, <1>7, <2>1, <2>3 DEF RulesOK, Late
  <2>5. QED
    BY <1>2, <1>3, <2>4 DEF WiringInv
<1>8. QED
  BY <1>1, <1>2, <1>3, <1>6, <1>7 DEF WiringInv

(* Neither the end of boot nor an event changes what was read and built. *)
LEMMA RestKeeps ==
    ASSUME WiringInv, UNCHANGED <<app, registry, rules>>,
           \/ phase = "build" /\ phase' = "running"
           \/ UNCHANGED phase
    PROVE  WiringInv'
<1>1. AppOK' /\ ChipsDiffer'
  BY AppKept
<1>2. Checked'
  BY PartsAreChecked DEF WiringInv, Checked
<1>3. RegistryOK'
  BY DEF WiringInv, RegistryOK, BuiltDevices, Late
<1>4. \A source, rule : CanSay(source, rule)' <=> CanSay(source, rule)
  BY DEF CanSay
<1>5. RulesOK'
  BY <1>4 DEF WiringInv, RulesOK, Late
<1>6. QED
  BY <1>1, <1>2, <1>3, <1>5 DEF WiringInv

(* Every step taken together. *)
LEMMA WiringNextKeepsInv == ASSUME WiringInv, [Next]_vars PROVE WiringInv'
<1>1. CASE Parse
  BY <1>1, ReadsHeader, ReadsNetwork, ReadsExpanders, ReadsActuators, ReadsSensors, ReadsButtons,
     ReadsBindings, ChecksAcross, ReadsSecrets DEF Parse
<1>2. CASE Devices \/ Build
  BY <1>2, BuildsDevices, BuildsRule
<1>3. CASE Run \/ Events \/ UNCHANGED vars
  <2>1. /\ UNCHANGED <<app, registry, rules>>
        /\ (phase = "build" /\ phase' = "running") \/ UNCHANGED phase
    BY <1>3 DEF Run, Events, Press, Edge, Message, Emit, built, vars
  <2>2. QED
    BY <2>1, RestKeeps
<1>4. QED
  BY <1>1, <1>2, <1>3 DEF Next, Boot

(* The parser's bookkeeping holds for every file. *)
THEOREM WiringInvariantHolds == Spec => []WiringInv
<1>1. WiringInit => WiringInv
  BY WiringInitInv
<1>2. WiringInv /\ [Next]_vars => WiringInv'
  BY WiringNextKeepsInv
<1>3. QED
  BY <1>1, <1>2, PTL DEF Spec
-----------------------------------------------------------------------------
(* What boot relies on. *)

(* The registry: actuators, sensors, buttons, each with the name it was given. *)
LEMMA RegistryIs ==
    ASSUME WiringInv, phase \in Late
    PROVE  LET n == Len(app.actuators)
               m == Len(app.sensors)
           IN  /\ IsList(registry) /\ n \in Nat /\ m \in Nat
               /\ Len(registry) = n + m + Len(app.buttons)
               /\ Len(app.buttons) \in Nat
               /\ \A i \in 1..n : registry[i] = ActuatorDevice(app.actuators[i])
               /\ \A i \in 1..m : registry[n + i] = SensorDevice(app.sensors[i])
               /\ \A i \in 1..Len(app.buttons) : registry[n + m + i] = ButtonDevice(app.buttons[i])
<1> DEFINE a == [i \in DOMAIN app.actuators |-> ActuatorDevice(app.actuators[i])]
           s == [i \in DOMAIN app.sensors |-> SensorDevice(app.sensors[i])]
           b == [i \in DOMAIN app.buttons |-> ButtonDevice(app.buttons[i])]
<1>1. registry = a \o s \o b
  BY DEF WiringInv, RegistryOK, BuiltDevices
<1>2. /\ DOMAIN app.actuators = 1..Len(app.actuators) /\ Len(app.actuators) \in Nat
      /\ DOMAIN app.sensors = 1..Len(app.sensors) /\ Len(app.sensors) \in Nat
      /\ DOMAIN app.buttons = 1..Len(app.buttons) /\ Len(app.buttons) \in Nat
  BY LenProperties DEF WiringInv, AppOK
<1>3. /\ IsList(a) /\ Len(a) = Len(app.actuators)
      /\ IsList(s) /\ Len(s) = Len(app.sensors)
      /\ IsList(b) /\ Len(b) = Len(app.buttons)
  BY <1>2, ListOf
<1>4. /\ \A i \in 1..Len(app.actuators) : i \in DOMAIN a /\ a[i] = ActuatorDevice(app.actuators[i])
      /\ \A i \in 1..Len(app.sensors) : i \in DOMAIN s /\ s[i] = SensorDevice(app.sensors[i])
      /\ \A i \in 1..Len(app.buttons) : i \in DOMAIN b /\ b[i] = ButtonDevice(app.buttons[i])
  BY <1>2
<1> HIDE DEF a, s, b
<1>5. /\ IsList(registry) /\ Len(registry) = Len(a) + Len(s) + Len(b)
      /\ \A i \in 1..Len(a) : registry[i] = a[i]
      /\ \A i \in 1..Len(s) : registry[Len(a) + i] = s[i]
      /\ \A i \in 1..Len(b) : registry[Len(a) + Len(s) + i] = b[i]
  <2>1. IsList(a) /\ IsList(s) /\ IsList(b)
    BY <1>3
  <2>2. IsList(a \o s \o b) /\ Len(a \o s \o b) = Len(a) + Len(s) + Len(b)
    BY <2>1, InARow
  <2>3. QED
    BY <1>1, <2>1, <2>2, EntriesInARow
<1>6. QED
  BY <1>2, <1>3, <1>4, <1>5

(* The actuators and sensors, as the check of the names lists them. *)
Named == app.actuators \o app.sensors

(* Who comes first in the registry has the name it was checked under. *)
LEMMA NamedFirst ==
    ASSUME WiringInv, phase \in Late
    PROVE  /\ DOMAIN Named \subseteq DOMAIN registry
           /\ \A i \in DOMAIN Named : Name(registry[i]) = Name(Named[i])
           /\ \A i \in DOMAIN registry : registry[i].kind # "button" => i \in DOMAIN Named
           /\ \A i \in DOMAIN registry, j \in DOMAIN Named : i < j => i \in DOMAIN Named
<1> DEFINE n == Len(app.actuators)
           m == Len(app.sensors)
           k == Len(app.buttons)
<1>1. /\ IsList(registry) /\ n \in Nat /\ m \in Nat /\ k \in Nat /\ Len(registry) = n + m + k
      /\ \A i \in 1..n : registry[i] = ActuatorDevice(app.actuators[i])
      /\ \A i \in 1..m : registry[n + i] = SensorDevice(app.sensors[i])
      /\ \A i \in 1..k : registry[n + m + i] = ButtonDevice(app.buttons[i])
  BY RegistryIs
<1>2. /\ \A i \in 1..n : app.actuators[i] \in ActuatorRecords
      /\ \A i \in 1..m : app.sensors[i] \in SensorRecords
      /\ \A i \in 1..k : app.buttons[i] \in ButtonRecords
  BY ElementOfSeq DEF WiringInv, AppOK
<1>3. IsList(app.actuators) /\ IsList(app.sensors)
  BY SeqIsList DEF WiringInv, AppOK
<1>4. DOMAIN app.actuators = 1..n /\ DOMAIN app.sensors = 1..m
  BY <1>3, ListIs
<1>5. /\ DOMAIN Named = 1..n + m
      /\ \A i \in 1..n : Named[i] = app.actuators[i]
      /\ \A i \in 1..m : Named[n + i] = app.sensors[i]
  <2>1. DOMAIN Named = 1..n + m
    BY <1>3, OneAfterOther DEF Named
  <2>2. /\ \A i \in 1..n : Named[i] = app.actuators[i]
        /\ \A i \in 1..m : Named[Len(app.actuators) + i] = app.sensors[i]
    <3>1. PICK x, y, both : x = app.actuators /\ y = app.sensors /\ both = Named
      OBVIOUS
    <3>2. IsList(x) /\ IsList(y) /\ both = x \o y
      BY <1>3, <3>1 DEF Named
    <3>3. /\ \A i \in 1..Len(x) : both[i] = x[i]
          /\ \A i \in 1..Len(y) : both[Len(x) + i] = y[i]
      BY <3>2, EntriesOfBoth
    <3>4. QED
      BY <3>1, <3>3
  <2>3. QED
    BY <1>4, <2>1, <2>2
<1>6. DOMAIN registry = 1..n + m + k
  BY <1>1, ListIs
<1> HIDE DEF n, m, k
<1>7. ASSUME NEW i \in 1..n + m PROVE Name(registry[i]) = Name(Named[i])
  <2>1. CASE i \in 1..n
    <3>1. app.actuators[i] \in ActuatorRecords
      BY <1>2, <2>1
    <3>2. QED
      BY <1>1, <1>5, <2>1, <3>1, DeviceOfActuator DEF Name
  <2>2. CASE i \notin 1..n
    <3> DEFINE j == i - n
    <3>1. j \in 1..m /\ i = n + j
      BY <1>1, <2>2
    <3>2. app.sensors[j] \in SensorRecords
      BY <1>2, <3>1
    <3>3. registry[i] = SensorDevice(app.sensors[j]) /\ Named[i] = app.sensors[j]
      BY <1>1, <1>5, <3>1
    <3>4. QED
      BY <3>2, <3>3, DeviceOfSensor DEF Name
  <2>3. QED
    BY <2>1, <2>2
<1>8. ASSUME NEW i \in 1..n + m + k, i \notin 1..n + m PROVE registry[i].kind = "button"
  <2> DEFINE j == i - (n + m)
  <2>1. j \in 1..k /\ i = n + m + j
    BY <1>1, <1>8
  <2>2. app.buttons[j] \in ButtonRecords
    BY <1>2, <2>1
  <2>3. registry[i] = ButtonDevice(app.buttons[j])
    BY <1>1, <2>1
  <2>4. QED
    BY <2>2, <2>3, DeviceOfButton
<1>9. QED
  BY <1>1, <1>5, <1>6, <1>7, <1>8

(* A name leads to the device it was given to: NamesUnique, seen in the registry. *)
LEMMA NamesFindDevices ==
    ASSUME WiringInv, Built
    PROVE  CommandsArrive
<1>1. phase \in Late /\ NamesUnique
  BY DEF WiringInv, Built, Late, Checked
<1>2. \A i, j \in DOMAIN Named : Name(Named[i]) = Name(Named[j]) => i = j
  BY <1>1 DEF NamesUnique, IsInjective, Named
<1>3. DOMAIN registry = 1..Len(registry) /\ Len(registry) \in Nat
  BY <1>1, RegistryIs, ListIs
<1> SUFFICES ASSUME NEW i \in DOMAIN registry, registry[i].kind # "button"
             PROVE  Find(registry[i]) = i
  BY DEF CommandsArrive
<1> DEFINE same == {j \in 1..Len(registry) :
                       registry[j].type = registry[i].type /\ registry[j].id = registry[i].id}
<1>4. i \in DOMAIN Named
  BY <1>1, NamedFirst
<1>5. i \in same /\ same \subseteq Nat
  BY <1>3
<1>6. ASSUME NEW j \in same PROVE i <= j
  <2>1. j \in DOMAIN registry /\ Name(registry[j]) = Name(registry[i])
    BY <1>3 DEF Name
  <2>2. ASSUME j < i PROVE FALSE
    <3>1. j \in DOMAIN Named
      BY <1>1, <1>4, <2>1, <2>2, NamedFirst
    <3>2. Name(Named[j]) = Name(Named[i])
      BY <1>1, <1>4, <2>1, <3>1, NamedFirst
    <3>3. QED
      BY <1>2, <1>3, <1>4, <2>2, <3>1, <3>2
  <2>3. QED
    BY <1>3, <2>2
<1>7. Find(registry[i]) = IF same # {} THEN Min(same) ELSE 0
  BY DEF Find, SelectInSeq
<1>8. Min(same) = i
  <2> HIDE DEF same
  <2>1. QED
    BY <1>5, <1>6, LeastIs
<1>9. QED
  BY <1>5, <1>7, <1>8

(* A cover of the registry has the times the parser accepted. *)
LEMMA CoversCanReckon ==
    ASSUME WiringInv, Built
    PROVE  CoversMeetAssumption
<1>1. phase \in Late
  BY DEF Built, Late
<1> DEFINE n == Len(app.actuators)
           m == Len(app.sensors)
           k == Len(app.buttons)
<1>2. /\ IsList(registry) /\ n \in Nat /\ m \in Nat /\ k \in Nat /\ Len(registry) = n + m + k
      /\ \A i \in 1..n : registry[i] = ActuatorDevice(app.actuators[i])
      /\ \A i \in 1..m : registry[n + i] = SensorDevice(app.sensors[i])
      /\ \A i \in 1..k : registry[n + m + i] = ButtonDevice(app.buttons[i])
  BY <1>1, RegistryIs
<1>3. /\ \A i \in 1..n : app.actuators[i] \in ActuatorRecords
      /\ \A i \in 1..m : app.sensors[i] \in SensorRecords
      /\ \A i \in 1..k : app.buttons[i] \in ButtonRecords
  BY ElementOfSeq DEF WiringInv, AppOK
<1> SUFFICES ASSUME NEW d \in ToSet(registry), d.kind = "cover"
             PROVE  /\ d.timing.up # 0 /\ d.timing.down # 0
                    /\ d.timing.tilt < d.timing.up /\ d.timing.tilt < d.timing.down
  BY DEF CoversMeetAssumption
<1>4. PICK i \in 1..n + m + k : d = registry[i]
  BY <1>2, ListIs DEF ToSet
<1> HIDE DEF n, m, k
<1>5. CASE i \in 1..n
  <2>1. app.actuators[i] \in ActuatorRecords /\ d = ActuatorDevice(app.actuators[i])
    BY <1>2, <1>3, <1>4, <1>5
  <2>2. app.actuators[i].backend = "cover" /\ d.timing = app.actuators[i].timing
    BY <2>1, DeviceOfActuator
  <2>3. QED
    BY <2>1, <2>2, ActuatorRecordIs
<1>6. CASE i \in n + 1..n + m
  <2>1. i - n \in 1..m /\ d = SensorDevice(app.sensors[i - n])
    <3>1. i - n \in 1..m /\ i = n + (i - n)
      BY <1>2, <1>6
    <3>2. QED
      BY <1>2, <1>4, <3>1
  <2>2. QED
    BY <1>3, <2>1, DeviceOfSensor
<1>7. CASE i \in n + m + 1..n + m + k
  <2>1. i - (n + m) \in 1..k /\ d = ButtonDevice(app.buttons[i - (n + m)])
    <3>1. i - (n + m) \in 1..k /\ i = n + m + (i - (n + m))
      BY <1>2, <1>7
    <3>2. QED
      BY <1>2, <1>4, <3>1
  <2>2. QED
    BY <1>3, <2>1, DeviceOfButton
<1>8. QED
  BY <1>2, <1>5, <1>6, <1>7

(* A pin that names a chip has exactly that one: PinsDeclared, ChipsDiffer. *)
LEMMA ChipsThere ==
    ASSUME WiringInv, Accepted
    PROVE  ChipsAreFound /\ LinesAreOwned
<1>1. ChipsDiffer /\ PinsDeclared /\ PinsUnique
  BY DEF WiringInv, Accepted, Checked
<1>2. ASSUME NEW pin \in ToSet(DevicePins), pin.expander >= 0
      PROVE  /\ pin.pin <= 15
             /\ \E i \in DOMAIN app.expanders : \A j \in DOMAIN app.expanders :
                   app.expanders[j].index = pin.expander <=> j = i
  <2>1. pin.pin <= 15 /\ \E e \in ToSet(app.expanders) : e.index = pin.expander
    BY <1>1, <1>2 DEF PinsDeclared
  <2>2. PICK i \in DOMAIN app.expanders : app.expanders[i].index = pin.expander
    BY <2>1 DEF ToSet
  <2>3. \A j \in DOMAIN app.expanders : app.expanders[j].index = pin.expander <=> j = i
    BY <1>1, <2>2 DEF ChipsDiffer
  <2>4. QED
    BY <2>1, <2>3
<1>3. QED
  BY <1>1, <1>2 DEF ChipsAreFound, LinesAreOwned, PinsUnique, IsInjective

(* What boot takes from the parser without asking again is so, whatever files   *)
(* were read: no pin without its chip, no line claimed twice, no name that      *)
(* leads to another device, no cover without times and no login MQTT cannot     *)
(* send.                                                                        *)
THEOREM BootMayRelyOnIt == Spec => []BootReliesOnIt
<1>1. WiringInv => BootReliesOnIt
  <2> SUFFICES ASSUME WiringInv PROVE BootReliesOnIt
    OBVIOUS
  <2>1. LoginAccepted(app)
    BY DEF WiringInv, AppOK
  <2>2. Accepted => ChipsAreFound /\ LinesAreOwned
    BY ChipsThere
  <2>3. Built => CommandsArrive /\ CoversMeetAssumption
    BY NamesFindDevices, CoversCanReckon
  <2>4. QED
    BY <2>1, <2>2, <2>3 DEF BootReliesOnIt
<1>2. QED
  BY <1>1, WiringInvariantHolds, PTL

(* No binding that was built waits for a gesture that no switch of that name    *)
(* can make.                                                                    *)
THEOREM NothingEverWaits == Spec => []NothingWaits
<1>1. WiringInv => NothingWaits
  <2> SUFFICES ASSUME WiringInv, NEW b \in DOMAIN rules, NEW source \in ToSet(app.bindings[b].sources),
                      source.kind = "button"
               PROVE  \E d \in ToSet(registry) :
                         /\ d.kind = "button" /\ d.id = source.id
                         /\ IF app.bindings[b].rule = "cover" THEN \A gesture \in Gestures : Produces(d, gesture)
                                                              ELSE Produces(d, source.gesture)
    BY DEF NothingWaits
  <2> DEFINE rule == app.bindings[b].rule
             asked == IF rule = "cover" THEN "hold_start" ELSE source.gesture
  <2>1. PICK i \in DOMAIN app.buttons : app.buttons[i].id = source.id /\ Produces(app.buttons[i], asked)
    BY DEF WiringInv, RulesOK, CanSay
  <2>2. phase \in Late
    BY NoneIsAList DEF WiringInv, RulesOK
  <2> DEFINE place == Len(app.actuators) + Len(app.sensors) + i
             d == registry[place]
  <2>3. i \in 1..Len(app.buttons) /\ app.buttons[i] \in ButtonRecords
    BY <2>1, LenProperties, ElementOfSeq DEF WiringInv, AppOK
  <2>4. d = ButtonDevice(app.buttons[i]) /\ place \in DOMAIN registry
    <3>1. /\ IsList(registry) /\ Len(app.actuators) \in Nat /\ Len(app.sensors) \in Nat
          /\ Len(registry) = Len(app.actuators) + Len(app.sensors) + Len(app.buttons)
          /\ d = ButtonDevice(app.buttons[i])
      BY <2>2, <2>3, RegistryIs
    <3>2. DOMAIN registry = 1..Len(registry)
      BY <3>1, ListIs
    <3>3. \A n, m, k \in Nat : i \in 1..k => n + m + i \in 1..n + m + k
      BY <2>3
    <3>4. place \in 1..Len(app.actuators) + Len(app.sensors) + Len(app.buttons)
      BY <2>3, <3>1, <3>3, LenProperties DEF WiringInv, AppOK
    <3>5. QED
      BY <3>1, <3>2, <3>4
  <2>5. /\ d.kind = "button" /\ d.id = source.id
        /\ d.full = app.buttons[i].full /\ d.momentary = app.buttons[i].momentary
    BY <2>1, <2>3, <2>4, DeviceOfButton
  <2> HIDE DEF d
  <2>6. Produces(d, asked)
    BY <2>1, <2>5 DEF Produces
  <2>7. rule = "cover" => \A gesture \in Gestures : Produces(d, gesture)
    BY <2>6 DEF Produces
  <2>8. d \in ToSet(registry)
    BY <2>4 DEF ToSet, d
  <2>9. QED
    BY <2>5, <2>6, <2>7, <2>8
<1>2. QED
  BY <1>1, WiringInvariantHolds, PTL

(* Attaching one source after another is well defined. *)
Chain(start, sources, n, f) ==
    f = [k \in 0..n |-> IF k = 0 THEN start ELSE Attach(f[k - 1], sources[k])]

(* There is such a function for any number of sources: by induction on it. *)
LEMMA ChainExists ==
    ASSUME NEW start, NEW sources, NEW n \in Nat
    PROVE  \E f : Chain(start, sources, n, f)
<1> DEFINE Bad == {m \in Nat : ~ \E f : Chain(start, sources, m, f)}
<1> SUFFICES ASSUME Bad # {} PROVE FALSE
  OBVIOUS
<1>1. PICK m \in Bad : \A k \in Bad : m <= k
  <2>1. Bad \subseteq Nat
    OBVIOUS
  <2> HIDE DEF Bad
  <2>2. QED
    BY <2>1, LeastExists
<1>2. CASE m = 0
  <2> DEFINE f == [k \in 0..0 |-> start]
  <2>1. Chain(start, sources, 0, f)
    BY DEF Chain
  <2>2. QED
    BY <1>1, <1>2, <2>1
<1>3. CASE m # 0
  <2>1. m \in Nat /\ m - 1 \in Nat /\ m - 1 \notin Bad
    BY <1>1, <1>3
  <2>2. PICK f : Chain(start, sources, m - 1, f)
    BY <2>1
  <2> DEFINE g == [k \in 0..m |-> IF k = m THEN Attach(f[m - 1], sources[m]) ELSE f[k]]
  <2>3. ASSUME NEW k \in 0..m
        PROVE  g[k] = IF k = 0 THEN start ELSE Attach(g[k - 1], sources[k])
    <3>1. CASE k = m
      BY <1>3, <2>1, <3>1
    <3>2. CASE k # m
      <4>1. f[k] = IF k = 0 THEN start ELSE Attach(f[k - 1], sources[k])
        <5>1. k \in 0..m - 1
          BY <2>1, <3>2
        <5>2. QED
          BY <2>2, <5>1 DEF Chain
      <4>2. g[k] = f[k] /\ (k # 0 => g[k - 1] = f[k - 1])
        BY <2>1, <3>2
      <4>3. QED
        BY <4>1, <4>2
    <3>3. QED
      BY <3>1, <3>2
  <2>4. g = [k \in 0..m |-> g[k]]
    OBVIOUS
  <2>5. Chain(start, sources, m, g)
    <3> HIDE DEF g
    <3>1. QED
      BY <2>3, <2>4 DEF Chain
  <2>6. QED
    BY <1>1, <2>5
<1>4. QED
  BY <1>2, <1>3

(* So Attached is the last of its values, each Attach of the one before. *)
LEMMA AttachedIs ==
    ASSUME NEW rule, NEW sources, Len(sources) \in Nat
    PROVE  \E f : /\ Attached(rule, sources) = f[Len(sources)]
                  /\ f[0] = [rule |-> rule, table |-> table, filters |-> <<>>]
                  /\ \A n \in 1..Len(sources) : f[n] = Attach(f[n - 1], sources[n])
<1> DEFINE start == [rule |-> rule, table |-> table, filters |-> <<>>]
           f == CHOOSE g : Chain(start, sources, Len(sources), g)
<1>1. Chain(start, sources, Len(sources), f)
  BY ChainExists
<1>2. Attached(rule, sources) = f[Len(sources)]
  BY DEF Attached, Chain
<1> HIDE DEF f
<1>3. \A n \in 0..Len(sources) : f[n] = IF n = 0 THEN start ELSE Attach(f[n - 1], sources[n])
  BY <1>1 DEF Chain
<1>4. QED
  BY <1>2, <1>3

-----------------------------------------------------------------------------
(* The table of remote sources, and who listens through it. *)

Says(row, topic, payload) == row.topic = topic /\ row.payload = payload

(* The first row for a topic and a payload. *)
IsFirst(tab, topic, payload, k) ==
    /\ k \in DOMAIN tab.rows /\ Says(tab.rows[k], topic, payload)
    /\ \A j \in DOMAIN tab.rows : Says(tab.rows[j], topic, payload) => k <= j

(* Row is the first row for a topic and payload, and zero if there is none. *)
LEMMA RowIs ==
    ASSUME NEW tab, NEW topic, NEW payload, IsList(tab.rows)
    PROVE  /\ Row(tab, topic, payload) # 0 => IsFirst(tab, topic, payload, Row(tab, topic, payload))
           /\ Row(tab, topic, payload) = 0 => \A k \in DOMAIN tab.rows : ~Says(tab.rows[k], topic, payload)
           /\ \A k : IsFirst(tab, topic, payload, k) => Row(tab, topic, payload) = k
<1> DEFINE I == {k \in 1..Len(tab.rows) : Says(tab.rows[k], topic, payload)}
           i == Row(tab, topic, payload)
<1>1. i = IF I # {} THEN Min(I) ELSE 0
  BY DEF Row, SelectInSeq, Says
<1>2. DOMAIN tab.rows = 1..Len(tab.rows)
  BY ListIs
<1>3. I \subseteq Nat \ {0}
  OBVIOUS
<1>4. ASSUME I # {} PROVE i # 0 /\ IsFirst(tab, topic, payload, i)
  <2>1. i \in I /\ \A k \in I : i <= k
    <3> HIDE DEF I
    <3>1. QED
      BY <1>1, <1>3, <1>4, LeastExists
  <2>2. QED
    BY <1>2, <2>1 DEF IsFirst
<1>5. ASSUME I = {} PROVE i = 0 /\ \A k \in DOMAIN tab.rows : ~Says(tab.rows[k], topic, payload)
  BY <1>1, <1>2, <1>5
<1>6. ASSUME NEW k, IsFirst(tab, topic, payload, k) PROVE i = k
  <2>1. k \in I /\ \A j \in I : k <= j
    BY <1>2, <1>6 DEF IsFirst
  <2>2. Min(I) = k
    <3> HIDE DEF I
    <3>1. QED
      BY <1>3, <2>1, LeastIs
  <2>3. QED
    BY <1>1, <2>1, <2>2
<1>7. QED
  BY <1>4, <1>5, <1>6

(* A listener: where in the file it stands, what it listens to, for which rule, *)
(* and the index it was given.  A motion rule listens for two payloads.         *)
Mixed(C, topic) == \E m \in C : m.rule = "motion" /\ m.source.topic = topic
PayloadsOK(source, rule) ==
    IsList(source.payloads) /\ Len(source.payloads) = IF rule = "motion" THEN 2 ELSE 1

Counted(tab, C) ==
    /\ IsList(tab.rows) /\ tab.sources \in Nat
    /\ \A x \in C : x.index \in Nat /\ x.index < tab.sources /\ PayloadsOK(x.source, x.rule)

(* No row without a listener of its topic and payload. *)
RowsHaveListeners(tab, C) ==
    \A k \in DOMAIN tab.rows :
        \E x \in C : /\ tab.rows[k].topic = x.source.topic
                     /\ tab.rows[k].payload \in ToSet(x.source.payloads)
                     /\ tab.rows[k].index = x.index

(* Whoever listens for one payload has the index of the first row for it. *)
ActionsHaveRows(tab, C) ==
    \A x \in C : x.rule # "motion" =>
        \E k : IsFirst(tab, x.source.topic, x.source.payloads[1], k) /\ tab.rows[k].index = x.index

(* An index is shared by who listens for the same, motion rules on that topic aside. *)
SharedBySame(C) ==
    \A x, y \in C : x.index = y.index =>
        \/ x.place = y.place
        \/ /\ x.source.topic = y.source.topic
           /\ Mixed(C, x.source.topic) \/ x.source.payloads[1] = y.source.payloads[1]

(* No two stand in one place. *)
PlacesDiffer(C) == \A x, y \in C : x.place = y.place => x = y

Serves(tab, C) ==
    PlacesDiffer(C) /\ Counted(tab, C) /\ RowsHaveListeners(tab, C) /\ ActionsHaveRows(tab, C) /\ SharedBySame(C)

Listener(place, source, rule, index) == [place |-> place, source |-> source, rule |-> rule, index |-> index]

(* A row that is there already is shared. *)
LEMMA KnownRowServes ==
    ASSUME NEW tab, NEW C, Serves(tab, C), NEW source, NEW rule, PayloadsOK(source, rule),
           rule # "motion", NEW place, \A x \in C : x.place # place,
           Row(tab, source.topic, source.payloads[1]) # 0,
           NEW new, new = Listener(place, source, rule, tab.rows[Row(tab, source.topic, source.payloads[1])].index)
    PROVE  Serves(tab, C \cup {new})
<1> DEFINE k == Row(tab, source.topic, source.payloads[1])
           D == C \cup {new}
<1>1. /\ new.place = place /\ new.source = source /\ new.rule = rule /\ new.index = tab.rows[k].index
  BY DEF Listener
<1>2. IsFirst(tab, source.topic, source.payloads[1], k)
  BY RowIs DEF Serves, Counted
<1> HIDE DEF k
<1>3. PICK o \in C : /\ source.topic = o.source.topic
                     /\ source.payloads[1] \in ToSet(o.source.payloads)
                     /\ tab.rows[k].index = o.index
  BY <1>2 DEF Serves, RowsHaveListeners, IsFirst, Says
<1>4. Counted(tab, D)
  BY <1>1, <1>3 DEF Serves, Counted
<1>5. RowsHaveListeners(tab, D)
  BY DEF Serves, RowsHaveListeners
<1>6. ActionsHaveRows(tab, D)
  BY <1>1, <1>2 DEF Serves, ActionsHaveRows
<1>7. \A topic : Mixed(C, topic) => Mixed(D, topic)
  BY DEF Mixed
<1>8. o.rule # "motion" => source.payloads[1] = o.source.payloads[1]
  <2>1. ASSUME o.rule # "motion" PROVE DOMAIN o.source.payloads = {1}
    <3>1. IsList(o.source.payloads) /\ Len(o.source.payloads) = 1
      BY <2>1 DEF Serves, Counted, PayloadsOK
    <3>2. DOMAIN o.source.payloads = 1..1
      BY <3>1, ListIs
    <3>3. QED
      BY <3>2
  <2>2. QED
    BY <1>3, <2>1 DEF ToSet
<1>9. ASSUME NEW x \in C, x.index = new.index
      PROVE  /\ x.source.topic = source.topic
             /\ Mixed(D, source.topic) \/ x.source.payloads[1] = source.payloads[1]
  <2>1. x.index = o.index
    BY <1>1, <1>3, <1>9
  <2>2. CASE x.place = o.place
    <3>1. x = o
      BY <2>2 DEF Serves, PlacesDiffer
    <3>2. x.source.topic = source.topic
      BY <1>3, <3>1
    <3>3. CASE o.rule = "motion"
      <4>1. Mixed(C, source.topic)
        BY <1>3, <3>3 DEF Mixed
      <4>2. QED
        BY <1>7, <3>2, <4>1
    <3>4. CASE o.rule # "motion"
      BY <1>8, <3>1, <3>2, <3>4
    <3>5. QED
      BY <3>3, <3>4
  <2>3. CASE x.place # o.place
    <3>1. /\ x.source.topic = o.source.topic
          /\ Mixed(C, x.source.topic) \/ x.source.payloads[1] = o.source.payloads[1]
      BY <2>1, <2>3 DEF Serves, SharedBySame
    <3>2. x.source.topic = source.topic
      BY <1>3, <3>1
    <3>3. CASE o.rule = "motion"
      <4>1. Mixed(C, source.topic)
        BY <1>3, <3>3 DEF Mixed
      <4>2. QED
        BY <1>7, <3>2, <4>1
    <3>4. CASE o.rule # "motion" /\ Mixed(C, x.source.topic)
      BY <1>7, <3>2, <3>4
    <3>5. CASE o.rule # "motion" /\ x.source.payloads[1] = o.source.payloads[1]
      BY <1>8, <3>2, <3>5
    <3>6. QED
      BY <3>1, <3>3, <3>4, <3>5
  <2>4. QED
    BY <2>2, <2>3
<1>10. SharedBySame(D)
  <2> SUFFICES ASSUME NEW x \in D, NEW y \in D, x.index = y.index, x.place # y.place
               PROVE  /\ x.source.topic = y.source.topic
                      /\ Mixed(D, x.source.topic) \/ x.source.payloads[1] = y.source.payloads[1]
    BY DEF SharedBySame
  <2>1. CASE x \in C /\ y \in C
    <3>1. /\ x.source.topic = y.source.topic
          /\ Mixed(C, x.source.topic) \/ x.source.payloads[1] = y.source.payloads[1]
      BY <2>1 DEF Serves, SharedBySame
    <3>2. QED
      BY <1>7, <3>1
  <2>2. CASE x = new /\ y \in C
    BY <1>1, <1>9, <2>2
  <2>3. CASE x \in C /\ y = new
    BY <1>1, <1>9, <2>3
  <2>4. QED
    BY <2>1, <2>2, <2>3
<1>11. PlacesDiffer(D)
  BY <1>1 DEF Serves, PlacesDiffer
<1>12. QED
  BY <1>4, <1>5, <1>6, <1>10, <1>11 DEF Serves

(* The rows a source is given if it does not share one. *)
RowsOf(tab, source, rule) ==
    [i \in DOMAIN source.payloads |->
        [topic |-> source.topic, payload |-> source.payloads[i], index |-> tab.sources, edge |-> rule = "motion"]]

Wider(tab, source, rule) ==
    [rows |-> tab.rows \o RowsOf(tab, source, rule), sources |-> tab.sources + 1]

(* Whoever is given rows is served by them, and they shadow no earlier row. *)
LEMMA NewRowsServe ==
    ASSUME NEW tab, NEW C, Serves(tab, C), NEW source, NEW rule, PayloadsOK(source, rule),
           NEW place, \A x \in C : x.place # place,
           rule = "motion" \/ Row(tab, source.topic, source.payloads[1]) = 0,
           NEW wider, wider = Wider(tab, source, rule),
           NEW new, new = Listener(place, source, rule, tab.sources)
    PROVE  Serves(wider, C \cup {new})
<1> DEFINE D == C \cup {new}
           n == Len(tab.rows)
<1>1. PICK added, rows : added = RowsOf(tab, source, rule) /\ rows = tab.rows \o added
  OBVIOUS
<1>2. wider.rows = rows /\ wider.sources = tab.sources + 1
  BY <1>1 DEF Wider
<1>3. /\ new.place = place /\ new.source = source /\ new.rule = rule /\ new.index = tab.sources
  BY DEF Listener
<1>4. /\ IsList(tab.rows) /\ tab.sources \in Nat /\ n \in Nat /\ DOMAIN tab.rows = 1..n
      /\ IsList(source.payloads) /\ DOMAIN source.payloads = 1..Len(source.payloads)
      /\ Len(source.payloads) \in 1..2
  BY ListIs DEF Serves, Counted, PayloadsOK
<1>5. IsList(added) /\ Len(added) = Len(source.payloads)
  BY <1>1, <1>4, ListOf DEF RowsOf
<1>6. \A i \in 1..Len(added) : /\ added[i].topic = source.topic
                               /\ added[i].payload = source.payloads[i]
                               /\ added[i].index = tab.sources
  BY <1>1, <1>4, <1>5 DEF RowsOf
<1>7. IsList(rows) /\ Len(rows) = n + Len(added) /\ DOMAIN rows = 1..n + Len(added)
  BY <1>1, <1>4, <1>5, OneAfterOther
<1>8. /\ \A i \in 1..n : rows[i] = tab.rows[i]
      /\ \A i \in 1..Len(added) : rows[n + i] = added[i]
      /\ \A i \in 1..n + Len(added) : i \notin 1..n => i - n \in 1..Len(added) /\ rows[i] = added[i - n]
  <2>1. PICK old : old = tab.rows
    OBVIOUS
  <2>2. IsList(old) /\ rows = old \o added /\ n = Len(old)
    BY <1>1, <1>4, <2>1
  <2> HIDE DEF n
  <2>3. /\ \A i \in 1..Len(old) : rows[i] = old[i]
        /\ \A i \in 1..Len(added) : rows[Len(old) + i] = added[i]
        /\ \A i \in 1..Len(old) + Len(added) :
              i \notin 1..Len(old) => i - Len(old) \in 1..Len(added) /\ rows[i] = added[i - Len(old)]
    BY <1>5, <2>2, EntriesOfBoth
  <2>4. QED
    BY <2>1, <2>2, <2>3
<1> HIDE DEF n
<1>9. Counted(wider, D)
  BY <1>2, <1>3, <1>4, <1>7 DEF Serves, Counted
<1>10. RowsHaveListeners(wider, D)
  <2> SUFFICES ASSUME NEW k \in 1..n + Len(added)
               PROVE  \E x \in D : /\ rows[k].topic = x.source.topic
                                   /\ rows[k].payload \in ToSet(x.source.payloads)
                                   /\ rows[k].index = x.index
    BY <1>2, <1>7 DEF RowsHaveListeners
  <2>1. CASE k \in 1..n
    BY <1>4, <1>8, <2>1 DEF Serves, RowsHaveListeners
  <2>2. CASE k \notin 1..n
    <3>1. k - n \in 1..Len(added) /\ rows[k] = added[k - n]
      BY <1>8, <2>2
    <3>2. rows[k].payload \in ToSet(source.payloads)
      BY <1>4, <1>5, <1>6, <3>1 DEF ToSet
    <3>3. QED
      BY <1>3, <1>6, <3>1, <3>2
  <2>3. QED
    BY <2>1, <2>2
<1>11. ActionsHaveRows(wider, D)
  <2> SUFFICES ASSUME NEW x \in D, x.rule # "motion"
               PROVE  \E k : IsFirst(wider, x.source.topic, x.source.payloads[1], k) /\ rows[k].index = x.index
    BY <1>2 DEF ActionsHaveRows
  <2>1. CASE x \in C
    <3>1. PICK k : IsFirst(tab, x.source.topic, x.source.payloads[1], k) /\ tab.rows[k].index = x.index
      BY <2>1 DEF Serves, ActionsHaveRows
    <3>2. k \in 1..n /\ rows[k] = tab.rows[k] /\ k \in DOMAIN rows
      BY <1>4, <1>5, <1>7, <1>8, <3>1, ListIs DEF IsFirst
    <3>3. ASSUME NEW j \in DOMAIN rows, Says(rows[j], x.source.topic, x.source.payloads[1])
          PROVE  k <= j
      <4>1. CASE j \in 1..n
        BY <1>4, <1>8, <3>1, <3>3, <4>1 DEF IsFirst
      <4>2. CASE j \notin 1..n
        BY <1>4, <1>7, <3>2, <3>3, <4>2
      <4>3. QED
        BY <4>1, <4>2
    <3>4. IsFirst(wider, x.source.topic, x.source.payloads[1], k)
      BY <1>2, <3>1, <3>2, <3>3 DEF IsFirst
    <3>5. QED
      BY <3>1, <3>2, <3>4
  <2>2. CASE x = new
    <3>1. rule # "motion" /\ Len(added) = 1
      BY <1>3, <1>5, <2>2 DEF PayloadsOK
    <3>2. \A j \in DOMAIN tab.rows : ~Says(tab.rows[j], source.topic, source.payloads[1])
      BY <1>4, <3>1, RowIs
    <3>3. n + 1 \in DOMAIN rows /\ rows[n + 1] = added[1]
      BY <1>4, <1>7, <1>8, <3>1
    <3>4. ASSUME NEW j \in DOMAIN rows, Says(rows[j], source.topic, source.payloads[1])
          PROVE  n + 1 <= j
      <4>1. j \notin 1..n
        BY <1>4, <1>8, <3>2, <3>4
      <4>2. QED
        BY <1>4, <1>7, <4>1
    <3>5. Says(rows[n + 1], source.topic, source.payloads[1]) /\ rows[n + 1].index = tab.sources
      BY <1>6, <3>1, <3>3 DEF Says
    <3>6. IsFirst(wider, source.topic, source.payloads[1], n + 1)
      BY <1>2, <3>3, <3>4, <3>5 DEF IsFirst
    <3>7. QED
      BY <1>3, <2>2, <3>5, <3>6
  <2>3. QED
    BY <2>1, <2>2
<1>12. SharedBySame(D)
  <2>1. \A topic : Mixed(C, topic) => Mixed(D, topic)
    BY DEF Mixed
  <2>2. \A x \in C : x.index # new.index
    BY <1>3, <1>4 DEF Serves, Counted
  <2> SUFFICES ASSUME NEW x \in D, NEW y \in D, x.index = y.index, x.place # y.place
               PROVE  /\ x.source.topic = y.source.topic
                      /\ Mixed(D, x.source.topic) \/ x.source.payloads[1] = y.source.payloads[1]
    BY DEF SharedBySame
  <2>3. x \in C /\ y \in C
    BY <2>2
  <2>4. /\ x.source.topic = y.source.topic
        /\ Mixed(C, x.source.topic) \/ x.source.payloads[1] = y.source.payloads[1]
    BY <2>3 DEF Serves, SharedBySame
  <2>5. QED
    BY <2>1, <2>4
<1>13. PlacesDiffer(D)
  BY <1>3 DEF Serves, PlacesDiffer
<1>14. QED
  BY <1>9, <1>10, <1>11, <1>12, <1>13 DEF Serves

(* Whoever is attached is served, and who was served before still is. *)
LEMMA InternServes ==
    ASSUME NEW tab, NEW C, Serves(tab, C), NEW source, NEW rule, PayloadsOK(source, rule),
           NEW place, \A x \in C : x.place # place
    PROVE  LET interned == Intern(tab, source, rule)
           IN  Serves(interned.table, C \cup {Listener(place, source, rule, interned.index)})
<1> DEFINE known == Row(tab, source.topic, source.payloads[1])
<1>1. CASE rule # "motion" /\ known # 0
  <2>1. /\ Intern(tab, source, rule).table = tab
        /\ Intern(tab, source, rule).index = tab.rows[known].index
    BY <1>1 DEF Intern
  <2>2. QED
    BY <1>1, <2>1, KnownRowServes
<1>2. CASE rule = "motion" \/ known = 0
  <2>1. /\ Intern(tab, source, rule).table = Wider(tab, source, rule)
        /\ Intern(tab, source, rule).index = tab.sources
    BY <1>2 DEF Intern, Wider, RowsOf
  <2>2. QED
    BY <1>2, <2>1, NewRowsServe
<1>3. QED
  BY <1>1, <1>2

-----------------------------------------------------------------------------
(* The invariant of the routing. *)

RemoteSources(b) == {i \in DOMAIN app.bindings[b].sources : app.bindings[b].sources[i].kind = "remote"}
ListenerOf(b, i) ==
    Listener(<<b, i>>, app.bindings[b].sources[i], app.bindings[b].rule, rules[b].filters[i].key[2])
Listeners == UNION {{ListenerOf(b, i) : i \in RemoteSources(b)} : b \in DOMAIN rules}

(* A filter for each source. *)
FiltersOK ==
    \A b \in DOMAIN rules :
        /\ DOMAIN rules[b].filters = DOMAIN app.bindings[b].sources
        /\ \A i \in DOMAIN rules[b].filters :
              \E index : rules[b].filters[i] = Filter(app.bindings[b].sources[i], app.bindings[b].rule, index)

(* A subscription for each filter. *)
RouterOK ==
    /\ IsList(router)
    /\ \A b \in DOMAIN rules : \A i \in DOMAIN rules[b].filters :
          \E k \in DOMAIN router : router[k].key = rules[b].filters[i].key /\ router[k].rule = b

RoutingInv ==
    /\ FiltersOK /\ RouterOK
    /\ Serves(table, Listeners)
    /\ phase # "running" => reactions = <<>>
    /\ ReactsToItsSources

(* Which of its keys makes a source what it is. *)
LEMMA KindOf ==
    ASSUME NEW said, NEW rule
    PROVE  LET source == SourceOf(said, rule) IN
           /\ Has(said, "button") => source.kind = "button"
           /\ ~Has(said, "button") /\ Has(said, "sensor") =>
                 source.kind = "sensor" /\ source.type = TypeOf(said.sensor, "")
           /\ ~Has(said, "button") /\ ~Has(said, "sensor") =>
                 /\ source.kind = "remote"
                 /\ source.payloads = IF rule = "motion"
                       THEN <<Or(said, "payload_active", "1"), Or(said, "payload_inactive", "0")>>
                       ELSE <<Or(said, "payload", "")>>
<1> DEFINE source == SourceOf(said, rule)
           button == Or(said, "button", 0)
           gesture == Or(said, "gesture", "press_1")
           type == TypeOf(said.sensor, "")
           id == Or(said.sensor, "id", 0)
           topic == Or(said, "topic", "")
           heard == IF rule = "motion"
                    THEN <<Or(said, "payload_active", "1"), Or(said, "payload_inactive", "0")>>
                    ELSE <<Or(said, "payload", "")>>
<1>1. ASSUME Has(said, "button") PROVE source.kind = "button"
  <2>1. source = [kind |-> "button", id |-> button, gesture |-> gesture]
    BY <1>1 DEF SourceOf
  <2> HIDE DEF source, button, gesture
  <2>2. QED
    BY <2>1
<1>2. ASSUME ~Has(said, "button"), Has(said, "sensor")
      PROVE  source.kind = "sensor" /\ source.type = type
  <2>1. source = [kind |-> "sensor", type |-> type, id |-> id]
    BY <1>2 DEF SourceOf
  <2> HIDE DEF source, type, id
  <2>2. QED
    BY <2>1
<1>3. ASSUME ~Has(said, "button"), ~Has(said, "sensor")
      PROVE  source.kind = "remote" /\ source.payloads = heard
  <2>1. source = [kind |-> "remote", topic |-> topic, payloads |-> heard]
    BY <1>3 DEF SourceOf
  <2> HIDE DEF source, topic, heard
  <2>2. QED
    BY <2>1
<1>4. QED
  BY <1>1, <1>2, <1>3

(* What the parser lets through as a source. *)
LEMMA SourceIs ==
    ASSUME AppOK, NEW b \in DOMAIN app.bindings
    PROVE  LET sources == app.bindings[b].sources
               rule == app.bindings[b].rule
           IN  /\ Len(sources) \in Nat /\ DOMAIN sources = 1..Len(sources)
               /\ \A i \in DOMAIN sources :
                     LET source == sources[i] IN
                     /\ source.kind \in {"button", "sensor", "remote"}
                     /\ source.kind = "sensor" => source.type \in OccupancySensors
                     /\ source.kind = "remote" => PayloadsOK(source, rule)
<1>1. PICK obj \in Entries["bindings"] : BindingAccepted(obj) /\ app.bindings[b] = BindingOf(obj)
  <2>1. app.bindings[b] \in BindingRecords
    BY LenProperties, ElementOfSeq DEF AppOK
  <2>2. QED
    BY <2>1 DEF BindingRecords
<1>2. /\ app.bindings[b].rule = obj.rule
      /\ app.bindings[b].sources = [i \in DOMAIN obj.sources |-> SourceOf(obj.sources[i], obj.rule)]
  BY <1>1 DEF BindingOf
<1>3. PICK sources : sources = app.bindings[b].sources
  OBVIOUS
<1>4. Len(obj.sources) \in Nat /\ DOMAIN obj.sources = 1..Len(obj.sources)
  BY SourcesAssumption
<1>5. DOMAIN sources = 1..Len(obj.sources) /\ sources = [i \in DOMAIN sources |-> sources[i]]
  BY <1>2, <1>3, <1>4
<1>6. Len(sources) \in Nat /\ DOMAIN sources = 1..Len(sources)
  BY <1>4, <1>5, ListOf, ListIs
<1>7. ASSUME NEW i \in DOMAIN sources
      PROVE  /\ sources[i].kind \in {"button", "sensor", "remote"}
             /\ sources[i].kind = "sensor" => sources[i].type \in OccupancySensors
             /\ sources[i].kind = "remote" => PayloadsOK(sources[i], obj.rule)
  <2> DEFINE said == obj.sources[i]
  <2>1. sources[i] = SourceOf(said, obj.rule) /\ SourceAccepted(said, obj.rule)
    BY <1>1, <1>2, <1>3, <1>4, <1>5 DEF BindingAccepted
  <2> HIDE DEF said
  <2>2. /\ sources[i].kind \in {"button", "sensor", "remote"}
        /\ sources[i].kind = "sensor" => sources[i].type \in OccupancySensors
        /\ sources[i].kind = "remote" =>
              sources[i].payloads = IF obj.rule = "motion"
                    THEN <<Or(said, "payload_active", "1"), Or(said, "payload_inactive", "0")>>
                    ELSE <<Or(said, "payload", "")>>
    <3> DEFINE heard == IF obj.rule = "motion"
                        THEN <<Or(said, "payload_active", "1"), Or(said, "payload_inactive", "0")>>
                        ELSE <<Or(said, "payload", "")>>
    <3>1. /\ Has(said, "button") => sources[i].kind = "button"
          /\ ~Has(said, "button") /\ Has(said, "sensor") => sources[i].kind = "sensor"
          /\ ~Has(said, "button") /\ ~Has(said, "sensor") =>
                sources[i].kind = "remote" /\ sources[i].payloads = heard
      BY <2>1, KindOf
    <3>2. sources[i].kind = "sensor" => sources[i].type \in OccupancySensors
      BY <2>1 DEF SourceAccepted
    <3> HIDE DEF heard
    <3>3. /\ sources[i].kind \in {"button", "sensor", "remote"}
          /\ sources[i].kind = "remote" => sources[i].payloads = heard
      BY <3>1
    <3>4. QED
      BY <3>2, <3>3 DEF heard
  <2>3. \A x, y : IsList(<<x, y>>) /\ Len(<<x, y>>) = 2 /\ IsList(<<x>>) /\ Len(<<x>>) = 1
    <3> TAKE x, y
    <3>1. <<x, y>> \in Seq({x, y}) /\ <<x>> \in Seq({x})
      OBVIOUS
    <3>2. QED
      BY <3>1, SeqIsList
  <2>4. QED
    BY <2>2, <2>3 DEF PayloadsOK
<1>8. QED
  BY <1>2, <1>3, <1>6, <1>7

(* Before anything is built nobody listens. *)
LEMMA NobodyListens ==
    ASSUME rules = <<>>
    PROVE  FiltersOK /\ Listeners = {}
BY NoneIsAList DEF FiltersOK, Listeners

(* Nothing is routed yet. *)
LEMMA RoutingInitInv == WiringInit => RoutingInv
<1> SUFFICES ASSUME WiringInit PROVE RoutingInv
  OBVIOUS
<1>1. /\ rules = <<>> /\ router = <<>> /\ reactions = <<>> /\ table.rows = <<>> /\ table.sources = 0
  BY DEF WiringInit
<1>2. FiltersOK /\ Listeners = {}
  BY <1>1, NobodyListens
<1>3. RouterOK
  BY <1>1, NoneIsAList DEF RouterOK
<1>4. Serves(table, {})
  BY <1>1, NoneIsAList DEF Serves, Counted, PlacesDiffer, RowsHaveListeners, ActionsHaveRows, SharedBySame
<1>5. ReactsToItsSources
  BY <1>1, NoneIsAList DEF ReactsToItsSources
<1>6. QED
  BY <1>1, <1>2, <1>3, <1>4, <1>5 DEF RoutingInv

(* Reading a file changes nothing that is built. *)
LEMMA ReadingKeepsRouting ==
    ASSUME RoutingInv, rules = <<>>, phase # "running", phase' # "running",
           UNCHANGED <<rules, router, table, signal, reactions>>
    PROVE  RoutingInv'
<1>1. FiltersOK' /\ Listeners' = {} /\ Listeners = {}
  BY NoneIsAList DEF FiltersOK, Listeners
<1>2. RouterOK'
  BY DEF RoutingInv, RouterOK
<1>3. Serves(table, Listeners)'
  BY <1>1 DEF RoutingInv
<1>4. reactions' = <<>>
  BY DEF RoutingInv
<1>5. ReactsToItsSources'
  BY <1>4, NoneIsAList DEF ReactsToItsSources
<1>6. QED
  BY <1>1, <1>2, <1>3, <1>4, <1>5 DEF RoutingInv

-----------------------------------------------------------------------------
(* A binding's sources are attached one after the other. *)

Gathers(acc, rule, n) ==
    /\ DOMAIN acc = {"rule", "table", "filters"} /\ acc.rule = rule
    /\ IsList(acc.filters) /\ Len(acc.filters) = n

Free(place, C) == \A x \in C : x.place # place

(* One more is heard, and nothing else is different. *)
OneMoreHeard(acc, next, rule, n, source, C, place) ==
    /\ Gathers(next, rule, n + 1)
    /\ \A i \in 1..n : next.filters[i] = acc.filters[i]
    /\ \E index : next.filters[n + 1] = Filter(source, rule, index)
    /\ source.kind # "remote" => next.table = acc.table
    /\ source.kind = "remote" =>
          Serves(next.table, C \cup {Listener(place, source, rule, next.filters[n + 1].key[2])})

(* One source more is attached. *)
LEMMA AttachOne ==
    ASSUME NEW acc, NEW rule, NEW n \in Nat, Gathers(acc, rule, n), NEW source,
           source.kind = "remote" => PayloadsOK(source, rule),
           NEW C, Serves(acc.table, C), NEW place, Free(place, C),
           NEW next, next = Attach(acc, source)
    PROVE  OneMoreHeard(acc, next, rule, n, source, C, place)
<1> DEFINE interned == IF source.kind = "remote" THEN Intern(acc.table, source, acc.rule)
                       ELSE [table |-> acc.table, index |-> 0]
           filter == Filter(source, rule, interned.index)
<1>1. next = [acc EXCEPT !.table = interned.table, !.filters = Append(@, Filter(source, acc.rule, interned.index))]
  BY DEF Attach
<1>2. /\ DOMAIN next = {"rule", "table", "filters"} /\ next.rule = rule
      /\ next.table = interned.table /\ next.filters = Append(acc.filters, filter)
  <2> HIDE DEF interned
  <2>1. QED
    BY <1>1 DEF Gathers
<1>3. source.kind = "remote" =>
        interned.index = Intern(acc.table, source, rule).index /\ interned.table = Intern(acc.table, source, rule).table
  BY DEF Gathers
<1>4. source.kind # "remote" => interned.table = acc.table
  OBVIOUS
<1>5. source.kind = "remote" => filter.key[2] = interned.index
  <2> HIDE DEF interned
  <2>1. QED
    BY DEF Filter
<1> HIDE DEF filter, interned
<1>6. /\ IsList(next.filters) /\ Len(next.filters) = n + 1 /\ next.filters[n + 1] = filter
      /\ \A i \in 1..n : next.filters[i] = acc.filters[i]
  <2>1. IsList(acc.filters) /\ Len(acc.filters) = n /\ DOMAIN acc.filters = 1..n
    BY ListIs DEF Gathers
  <2>2. QED
    BY <1>2, <2>1, OneMore
<1>7. \E index : next.filters[n + 1] = Filter(source, rule, index)
  BY <1>6 DEF filter
<1>8. ASSUME source.kind = "remote"
      PROVE  Serves(next.table, C \cup {Listener(place, source, rule, next.filters[n + 1].key[2])})
  <2>1. Serves(Intern(acc.table, source, rule).table,
               C \cup {Listener(place, source, rule, Intern(acc.table, source, rule).index)})
    BY <1>8, InternServes DEF Free
  <2>2. QED
    BY <1>2, <1>3, <1>5, <1>6, <1>8, <2>1
<1>9. QED
  BY <1>2, <1>4, <1>6, <1>7, <1>8 DEF Gathers, OneMoreHeard

(* Who listens through the first n sources of binding b. *)
Heard(b, rule, sources, filters, n) ==
    {Listener(<<b, i>>, sources[i], rule, filters[i].key[2]) : i \in {j \in 1..n : sources[j].kind = "remote"}}

(* Every source has a filter, and every remote one is heard. *)
AllHeard(all, rule, sources, C, b) ==
    /\ IsList(all.filters) /\ Len(all.filters) = Len(sources)
    /\ \A i \in 1..Len(sources) : \E index : all.filters[i] = Filter(sources[i], rule, index)
    /\ Serves(all.table, C \cup Heard(b, rule, sources, all.filters, Len(sources)))

(* All sources of a binding are attached: by induction on their number. *)
LEMMA AttachedServes ==
    ASSUME NEW rule, NEW sources, Len(sources) \in Nat,
           \A i \in 1..Len(sources) : sources[i].kind = "remote" => PayloadsOK(sources[i], rule),
           NEW C, Serves(table, C), NEW b, \A i \in 1..Len(sources) : Free(<<b, i>>, C),
           NEW all, all = Attached(rule, sources)
    PROVE  AllHeard(all, rule, sources, C, b)
<1>1. PICK f : /\ Attached(rule, sources) = f[Len(sources)]
               /\ f[0] = [rule |-> rule, table |-> table, filters |-> <<>>]
               /\ \A n \in 1..Len(sources) : f[n] = Attach(f[n - 1], sources[n])
  BY AttachedIs
<1> DEFINE P(n) == /\ Gathers(f[n], rule, n)
                   /\ \A i \in 1..n : \E index : f[n].filters[i] = Filter(sources[i], rule, index)
                   /\ Serves(f[n].table, C \cup Heard(b, rule, sources, f[n].filters, n))
           S == {n \in Nat : n <= Len(sources) => P(n)}
<1>2. P(0)
  <2>1. f[0].filters = <<>> /\ f[0].table = table /\ Gathers(f[0], rule, 0)
    BY <1>1, NoneIsAList DEF Gathers
  <2>2. Heard(b, rule, sources, f[0].filters, 0) = {}
    BY DEF Heard
  <2>3. Serves(f[0].table, C \cup Heard(b, rule, sources, f[0].filters, 0))
    <3>1. C \cup Heard(b, rule, sources, f[0].filters, 0) = C
      BY <2>2
    <3>2. QED
      BY <2>1, <3>1
  <2>4. QED
    BY <2>1, <2>3
<1>3. ASSUME NEW n \in Nat, n + 1 <= Len(sources), P(n)
      PROVE  P(n + 1)
  <2>1. n + 1 \in 1..Len(sources) /\ n + 1 - 1 = n
    BY <1>3
  <2>2. PICK acc, next, source : acc = f[n] /\ next = f[n + 1] /\ source = sources[n + 1]
    OBVIOUS
  <2>3. next = Attach(acc, source)
    BY <1>1, <2>1, <2>2
  <2> DEFINE D == C \cup Heard(b, rule, sources, acc.filters, n)
             new == Listener(<<b, n + 1>>, source, rule, next.filters[n + 1].key[2])
  <2>4. \A x \in D : x.place # <<b, n + 1>>
    <3>1. \A x \in Heard(b, rule, sources, acc.filters, n) : x.place # <<b, n + 1>>
      BY DEF Heard, Listener
    <3>2. QED
      BY <2>1, <3>1 DEF Free
  <2>5. /\ Gathers(acc, rule, n) /\ Serves(acc.table, D)
        /\ \A i \in 1..n : \E index : acc.filters[i] = Filter(sources[i], rule, index)
    BY <1>3, <2>2
  <2>6. source.kind = "remote" => PayloadsOK(source, rule)
    BY <2>1, <2>2
  <2>7. /\ Gathers(next, rule, n + 1)
        /\ \A i \in 1..n : next.filters[i] = acc.filters[i]
        /\ \E index : next.filters[n + 1] = Filter(source, rule, index)
        /\ source.kind # "remote" => next.table = acc.table
        /\ source.kind = "remote" => Serves(next.table, D \cup {new})
    <3>1. PICK place : place = <<b, n + 1>>
      OBVIOUS
    <3>2. PICK heard : heard = D
      OBVIOUS
    <3> HIDE DEF D
    <3>3. Serves(acc.table, heard) /\ Free(place, heard)
      BY <2>4, <2>5, <3>1, <3>2 DEF Free
    <3> HIDE DEF P, S
    <3>4. OneMoreHeard(acc, next, rule, n, source, heard, place)
      BY <2>3, <2>5, <2>6, <3>3, AttachOne
    <3>5. QED
      BY <3>1, <3>2, <3>4 DEF OneMoreHeard
  <2>8. \A i \in 1..n + 1 : \E index : next.filters[i] = Filter(sources[i], rule, index)
    <3> TAKE i \in 1..n + 1
    <3>1. CASE i = n + 1
      BY <2>2, <2>7, <3>1
    <3>2. CASE i # n + 1
      <4>1. i \in 1..n
        BY <3>2
      <4>2. QED
        BY <2>5, <2>7, <4>1
    <3>3. QED
      BY <3>1, <3>2
  <2>9. C \cup Heard(b, rule, sources, next.filters, n + 1) = D \cup (IF source.kind = "remote" THEN {new} ELSE {})
    <3> DEFINE L(i) == Listener(<<b, i>>, sources[i], rule, next.filters[i].key[2])
               was == {j \in 1..n : sources[j].kind = "remote"}
               is == {j \in 1..n + 1 : sources[j].kind = "remote"}
    <3>1. Heard(b, rule, sources, acc.filters, n) = {L(i) : i \in was}
      BY <2>7 DEF Heard
    <3>2. Heard(b, rule, sources, next.filters, n + 1) = {L(i) : i \in is}
      BY DEF Heard
    <3>3. is = was \cup (IF source.kind = "remote" THEN {n + 1} ELSE {})
      <4>1. 1..n + 1 = (1..n) \cup {n + 1}
        OBVIOUS
      <4>2. QED
        BY <2>2, <4>1
    <3>4. new = L(n + 1)
      BY <2>2
    <3> HIDE DEF L, was, is, new
    <3>5. {L(i) : i \in is} = {L(i) : i \in was} \cup (IF source.kind = "remote" THEN {new} ELSE {})
      BY <3>3, <3>4
    <3>6. QED
      BY <3>1, <3>2, <3>5
  <2>10. Serves(next.table, C \cup Heard(b, rule, sources, next.filters, n + 1))
    <3>1. CASE source.kind = "remote"
      <4> HIDE DEF D, new
      <4>1. QED
        BY <2>7, <2>9, <3>1
    <3>2. CASE source.kind # "remote"
      <4>1. C \cup Heard(b, rule, sources, next.filters, n + 1) = D
        <5> HIDE DEF D, new
        <5>1. QED
          BY <2>9, <3>2
      <4>2. QED
        <5> HIDE DEF D
        <5>1. QED
          BY <2>5, <2>7, <3>2, <4>1
    <3>3. QED
      BY <3>1, <3>2
  <2>11. QED
    BY <2>2, <2>7, <2>8, <2>10
<1>4. Nat \subseteq S
  <2>1. 0 \in S
    BY <1>2
  <2>2. ASSUME NEW n \in Nat, n \in S PROVE n + 1 \in S
    <3> HIDE DEF P
    <3>1. QED
      BY <1>3, <2>2
  <2> HIDE DEF S
  <2>3. QED
    BY <2>1, <2>2, CountsUp
<1>5. P(Len(sources))
  <2> HIDE DEF P
  <2>1. QED
    BY <1>4
<1>6. QED
  BY <1>1, <1>5 DEF Gathers, AllHeard

(* One binding more. *)
LEMMA BuildKeepsRouting == ASSUME WiringInv, RoutingInv, Build PROVE RoutingInv'
<1>0. PICK b : b = Len(rules) + 1
  OBVIOUS
<1> DEFINE binding == app.bindings[b]
           targets == [i \in DOMAIN binding.targets |-> Find(binding.targets[i])]
<1>1. PICK rule, sources, all : rule = binding.rule /\ sources = binding.sources /\ all = Attached(rule, sources)
  OBVIOUS
<1>2. /\ app' = app /\ phase = "build" /\ reactions' = reactions /\ b <= Len(app.bindings)
      /\ phase' = "build" \/ phase' = "halted"
  BY <1>0 DEF Build
<1>3. reactions' = <<>> /\ phase' # "running" /\ ReactsToItsSources'
  <2>1. reactions' = <<>>
    BY <1>2 DEF RoutingInv
  <2>2. ReactsToItsSources'
    BY <2>1, NoneIsAList DEF ReactsToItsSources
  <2>3. QED
    BY <1>2, <2>1, <2>2
<1>4. CASE UNCHANGED <<rules, router, table>>
  <2>1. FiltersOK' /\ RouterOK' /\ Listeners' = Listeners
    BY <1>2, <1>4 DEF RoutingInv, FiltersOK, RouterOK, Listeners, ListenerOf, RemoteSources
  <2>2. Serves(table, Listeners)'
    BY <1>4, <2>1 DEF RoutingInv
  <2>3. QED
    BY <1>3, <2>1, <2>2 DEF RoutingInv
<1>5. CASE /\ rules' = Append(rules, [targets |-> targets, filters |-> all.filters])
           /\ router' = router \o [i \in DOMAIN all.filters |-> [key |-> all.filters[i].key, rule |-> b]]
           /\ table' = all.table
  <2>1. /\ IsList(rules) /\ Len(rules) \in Nat /\ DOMAIN rules = 1..Len(rules)
        /\ b \in DOMAIN app.bindings /\ b \notin DOMAIN rules /\ AppOK
    BY <1>0, <1>2, ListIs, LenProperties DEF WiringInv, RulesOK, AppOK
  <2>2. /\ Len(sources) \in Nat /\ DOMAIN sources = 1..Len(sources)
        /\ \A i \in 1..Len(sources) : sources[i].kind = "remote" => PayloadsOK(sources[i], rule)
    BY <1>1, <2>1, SourceIs
  <2> DEFINE heard == Heard(b, rule, sources, all.filters, Len(sources))
  <2>3. \A i \in 1..Len(sources) : Free(<<b, i>>, Listeners)
    BY <2>1 DEF Listeners, ListenerOf, Listener, Free
  <2>4. /\ IsList(all.filters) /\ Len(all.filters) = Len(sources) /\ DOMAIN all.filters = 1..Len(sources)
        /\ \A i \in 1..Len(sources) : \E index : all.filters[i] = Filter(sources[i], rule, index)
        /\ Serves(table', Listeners \cup heard)
    <3>1. PICK listeners : listeners = Listeners
      OBVIOUS
    <3>2. Serves(table, listeners) /\ \A i \in 1..Len(sources) : Free(<<b, i>>, listeners)
      BY <2>3, <3>1 DEF RoutingInv
    <3>3. AllHeard(all, rule, sources, listeners, b)
      BY <1>1, <2>2, <3>2, AttachedServes
    <3>4. QED
      BY <1>5, <3>1, <3>3, ListIs DEF AllHeard
  <2>5. /\ DOMAIN rules' = DOMAIN rules \cup {b} /\ rules'[b].filters = all.filters
        /\ \A c \in DOMAIN rules : rules'[c] = rules[c]
    <3>1. PICK new : new = [targets |-> targets, filters |-> all.filters]
      OBVIOUS
    <3>2. new.filters = all.filters
      BY <3>1
    <3>3. /\ IsList(rules') /\ Len(rules') = Len(rules) + 1 /\ rules'[Len(rules) + 1] = new
          /\ \A c \in DOMAIN rules : rules'[c] = rules[c]
      BY <1>5, <2>1, <3>1, OneMore
    <3>4. DOMAIN rules' = 1..Len(rules) + 1
      BY <3>3, ListIs
    <3>5. 1..Len(rules) + 1 = (1..Len(rules)) \cup {Len(rules) + 1}
      BY <2>1
    <3>6. QED
      BY <1>0, <2>1, <3>2, <3>3, <3>4, <3>5
  <2>6. Listeners' = Listeners \cup heard
    <3> DEFINE Of(c) == {ListenerOf(c, i) : i \in RemoteSources(c)}
    <3>1. Listeners = UNION {Of(c) : c \in DOMAIN rules}
      BY DEF Listeners
    <3>2. \A c : RemoteSources(c)' = RemoteSources(c)
      BY <1>2 DEF RemoteSources
    <3>3. \A c \in DOMAIN rules : \A i : ListenerOf(c, i)' = ListenerOf(c, i)
      BY <1>2, <2>5 DEF ListenerOf
    <3>4. \A c \in DOMAIN rules : Of(c)' = Of(c)
      BY <3>2, <3>3
    <3>5. Of(b)' = heard
      <4>1. RemoteSources(b) = {j \in 1..Len(sources) : sources[j].kind = "remote"}
        BY <1>1, <2>2 DEF RemoteSources
      <4>2. \A i : ListenerOf(b, i)' = Listener(<<b, i>>, sources[i], rule, all.filters[i].key[2])
        BY <1>1, <1>2, <2>5 DEF ListenerOf
      <4>3. QED
        BY <3>2, <4>1, <4>2 DEF Heard
    <3>6. Listeners' = UNION {Of(c)' : c \in DOMAIN rules \cup {b}}
      BY <2>5 DEF Listeners
    <3>7. PICK was, is : /\ was = [c \in DOMAIN rules |-> Of(c)]
                         /\ is = [c \in DOMAIN rules \cup {b} |-> Of(c)']
      OBVIOUS
    <3> HIDE DEF Of, heard
    <3>8. Listeners = UNION {was[c] : c \in DOMAIN rules} /\ Listeners' = UNION {is[c] : c \in DOMAIN rules \cup {b}}
      BY <3>1, <3>6, <3>7
    <3>9. is[b] = heard /\ \A c \in DOMAIN rules : is[c] = was[c]
      BY <3>4, <3>5, <3>7
    <3>10. QED
      BY <3>8, <3>9
  <2>7. FiltersOK'
    <3> SUFFICES ASSUME NEW c \in DOMAIN rules'
                 PROVE  /\ DOMAIN rules'[c].filters = DOMAIN app.bindings[c].sources
                        /\ \A i \in DOMAIN rules'[c].filters :
                              \E index : rules'[c].filters[i] =
                                            Filter(app.bindings[c].sources[i], app.bindings[c].rule, index)
      BY <1>2 DEF FiltersOK
    <3>1. CASE c = b
      BY <1>1, <2>2, <2>4, <2>5, <3>1
    <3>2. CASE c # b
      BY <2>5, <3>2 DEF RoutingInv, FiltersOK
    <3>3. QED
      BY <3>1, <3>2
  <2>8. RouterOK'
    <3>1. PICK old, added : old = router /\ added = [i \in DOMAIN all.filters |-> [key |-> all.filters[i].key, rule |-> b]]
      OBVIOUS
    <3>2. IsList(added) /\ Len(added) = Len(sources) /\ IsList(old) /\ router' = old \o added
      BY <1>5, <2>2, <2>4, <3>1, ListOf DEF RoutingInv, RouterOK
    <3>3. /\ Len(old) \in Nat /\ DOMAIN old = 1..Len(old)
          /\ IsList(router') /\ DOMAIN router' = 1..Len(old) + Len(added)
      BY <3>2, ListIs, OneAfterOther
    <3>4. /\ \A k \in 1..Len(old) : router'[k] = old[k]
          /\ \A k \in 1..Len(added) : router'[Len(old) + k] = added[k]
      BY <3>2, EntriesOfBoth
    <3>5. ASSUME NEW c \in DOMAIN rules', NEW i \in DOMAIN rules'[c].filters
          PROVE  \E k \in DOMAIN router' : router'[k].key = rules'[c].filters[i].key /\ router'[k].rule = c
      <4>1. CASE c = b
        <5>1. i \in 1..Len(added)
          BY <2>4, <2>5, <3>2, <4>1
        <5>2. added[i].key = rules'[c].filters[i].key /\ added[i].rule = c
          BY <2>5, <3>1, <4>1
        <5>3. Len(old) + i \in DOMAIN router' /\ router'[Len(old) + i] = added[i]
          BY <2>2, <3>2, <3>3, <3>4, <5>1
        <5>4. QED
          BY <5>2, <5>3
      <4>2. CASE c # b
        <5>1. c \in DOMAIN rules /\ rules'[c] = rules[c]
          BY <2>5, <4>2
        <5>2. PICK k \in DOMAIN router : router[k].key = rules[c].filters[i].key /\ router[k].rule = c
          BY <5>1 DEF RoutingInv, RouterOK
        <5>3. k \in DOMAIN router' /\ router'[k] = router[k]
          BY <2>2, <3>1, <3>2, <3>3, <3>4
        <5>4. QED
          BY <5>1, <5>2, <5>3
      <4>3. QED
        BY <4>1, <4>2
    <3>6. QED
      BY <3>3, <3>5 DEF RouterOK
  <2>9. Serves(table, Listeners)'
    BY <2>4, <2>6
  <2>10. QED
    BY <1>3, <2>7, <2>8, <2>9 DEF RoutingInv
<1>6. QED
  BY <1>0, <1>1, <1>4, <1>5 DEF Build

-----------------------------------------------------------------------------
(* Who is heard when a row is found. *)

(* Every listener has a place of its own in the file. *)
LEMMA ListenerIs ==
    ASSUME NEW x \in Listeners
    PROVE  \E b \in DOMAIN rules : \E i \in RemoteSources(b) :
              /\ x.place = <<b, i>> /\ x.source = app.bindings[b].sources[i]
              /\ x.rule = app.bindings[b].rule /\ x.index = rules[b].filters[i].key[2]
BY DEF Listeners, ListenerOf, Listener

(* Where a motion rule is alone on its topic, no other listener shares it. *)
LEMMA ListensAlone ==
    ASSUME NEW topic, MotionAlone(topic), NEW x \in Listeners, NEW y \in Listeners,
           x.rule = "motion", x.source.topic = topic, y.source.topic = topic, PlacesDiffer(Listeners)
    PROVE  x = y
<1>1. PICK b, i : /\ b \in DOMAIN rules /\ i \in RemoteSources(b) /\ x.place = <<b, i>>
                  /\ x.source = app.bindings[b].sources[i] /\ x.rule = app.bindings[b].rule
  BY ListenerIs
<1>2. PICK c, j : /\ c \in DOMAIN rules /\ j \in RemoteSources(c) /\ y.place = <<c, j>>
                  /\ y.source = app.bindings[c].sources[j]
  BY ListenerIs
<1>3. b = c /\ i = j
  BY <1>1, <1>2 DEF MotionAlone, RemoteSources
<1>4. QED
  BY <1>1, <1>2, <1>3 DEF PlacesDiffer

(* Of its payloads a listener for one has just that. *)
LEMMA OnePayload ==
    ASSUME NEW x \in Listeners, Counted(table, Listeners), x.rule # "motion"
    PROVE  ToSet(x.source.payloads) = {x.source.payloads[1]}
<1>1. IsList(x.source.payloads) /\ Len(x.source.payloads) = 1
  BY DEF Counted, PayloadsOK
<1>2. DOMAIN x.source.payloads = 1..1
  BY <1>1, ListIs
<1>3. QED
  BY <1>2 DEF ToSet

(* The index of the row that is found is that of those who asked for it. *)
LEMMA RowReachesListeners ==
    ASSUME Serves(table, Listeners), NEW topic, NEW payload, MotionAlone(topic),
           NEW k, IsFirst(table, topic, payload, k), NEW x \in Listeners
    PROVE  x.index = table.rows[k].index <=> x.source.topic = topic /\ payload \in ToSet(x.source.payloads)
<1>1. PICK o \in Listeners : o.source.topic = topic /\ payload \in ToSet(o.source.payloads) /\ table.rows[k].index = o.index
  BY DEF Serves, RowsHaveListeners, IsFirst, Says
<1>2. ASSUME x.index = table.rows[k].index, x # o
      PROVE  x.source.topic = topic /\ payload \in ToSet(x.source.payloads)
  <2>1. x.index = o.index /\ x.place # o.place
    BY <1>1, <1>2 DEF Serves, PlacesDiffer
  <2>2. /\ x.source.topic = topic
        /\ Mixed(Listeners, topic) \/ x.source.payloads[1] = o.source.payloads[1]
    BY <1>1, <2>1 DEF Serves, SharedBySame
  <2>3. ~Mixed(Listeners, topic)
    <3>1. ASSUME Mixed(Listeners, topic) PROVE FALSE
      <4>1. PICK m \in Listeners : m.rule = "motion" /\ m.source.topic = topic
        BY <3>1 DEF Mixed
      <4>2. m = x /\ m = o
        BY <1>1, <2>2, <4>1, ListensAlone DEF Serves
      <4>3. QED
        BY <1>2, <4>2
    <3>2. QED
      BY <3>1
  <2>4. x.rule # "motion" /\ o.rule # "motion"
    BY <1>1, <2>2, <2>3 DEF Mixed
  <2>5. payload = o.source.payloads[1] /\ x.source.payloads[1] = o.source.payloads[1]
    BY <1>1, <2>2, <2>3, <2>4, OnePayload DEF Serves
  <2>6. QED
    BY <2>2, <2>4, <2>5, OnePayload DEF Serves
<1>3. ASSUME x.source.topic = topic, payload \in ToSet(x.source.payloads)
      PROVE  x.index = table.rows[k].index
  <2>1. CASE x.rule = "motion"
    <3>1. x = o
      BY <1>1, <1>3, <2>1, ListensAlone DEF Serves
    <3>2. QED
      BY <1>1, <3>1
  <2>2. CASE x.rule # "motion"
    <3>1. payload = x.source.payloads[1]
      BY <1>3, <2>2, OnePayload DEF Serves
    <3>2. PICK j : IsFirst(table, topic, payload, j) /\ table.rows[j].index = x.index
      BY <1>3, <2>2, <3>1 DEF Serves, ActionsHaveRows
    <3>3. IsList(table.rows)
      BY DEF Serves, Counted
    <3>4. j = k
      BY <3>2, <3>3, RowIs
    <3>5. QED
      BY <3>2, <3>4
  <2>3. QED
    BY <2>1, <2>2
<1>4. QED
  BY <1>1, <1>2, <1>3

-----------------------------------------------------------------------------
(* A rule handles an event when one of its filters matches. *)
LEMMA HandledIs ==
    ASSUME RouterOK, NEW b \in DOMAIN rules, NEW event
    PROVE  Handled(b, event) > 0 <=> \E i \in DOMAIN rules[b].filters : Matches(rules[b].filters[i], event)
<1> DEFINE heard == {i \in DOMAIN router : router[i].key = event.key /\ router[i].rule = b}
<1>1. ASSUME NEW i \in DOMAIN rules[b].filters, Matches(rules[b].filters[i], event)
      PROVE  Handled(b, event) > 0
  <2>1. Handled(b, event) = Cardinality(heard)
    BY <1>1 DEF Handled, ToSet
  <2>2. \E k \in DOMAIN router : router[k].key = event.key /\ router[k].rule = b
    BY <1>1 DEF RouterOK, Matches
  <2>3. IsFiniteSet(heard)
    <3>1. DOMAIN router = 1..Len(router) /\ Len(router) \in Nat
      BY ListIs DEF RouterOK
    <3>2. IsFiniteSet(DOMAIN router)
      BY <3>1, FS_Interval
    <3>3. QED
      BY <3>2, FS_Subset
  <2>4. heard # {}
    BY <2>2
  <2> HIDE DEF heard
  <2>5. Cardinality(heard) \in Nat /\ Cardinality(heard) # 0
    BY <2>3, <2>4, FS_CardinalityType, FS_EmptySet
  <2>6. QED
    BY <2>1, <2>5
<1>2. ASSUME ~ \E i \in DOMAIN rules[b].filters : Matches(rules[b].filters[i], event)
      PROVE  ~(Handled(b, event) > 0)
  <2>1. Handled(b, event) = 0
    BY <1>2 DEF Handled, ToSet
  <2>2. QED
    BY <2>1
<1>3. QED
  BY <1>1, <1>2

-----------------------------------------------------------------------------
(* A signal, and the event it becomes. *)

(* What a source says a signal is about: Describes, of any signal. *)
About(source, rule, said) ==
    /\ source.kind = said.kind
    /\ CASE said.kind = "button" ->
               source.id = said.id /\ (rule = "cover" \/ source.gesture = said.gesture)
         [] said.kind = "sensor" -> source.type = said.type /\ source.id = said.id
         [] said.kind = "remote" -> source.topic = said.topic /\ said.payload \in ToSet(source.payloads)

(* What a filter matches is what its source is about. *)
HeardAsSaid(said, event) ==
    \A b \in DOMAIN rules : \A i \in DOMAIN app.bindings[b].sources :
        Matches(rules[b].filters[i], event) <=> About(app.bindings[b].sources[i], app.bindings[b].rule, said)

(* A signal is heard by the rules whose filters match its event. *)
LEMMA EmitKeepsRouting ==
    ASSUME RoutingInv, IsList(rules), NEW said, NEW event, Emit(said, event),
           (said.kind = "remote" => MotionAlone(said.topic)) => HeardAsSaid(said, event)
    PROVE  RoutingInv'
<1>1. /\ phase = "running" /\ UNCHANGED <<phase, app, registry, rules, router, table>>
      /\ signal' = said /\ reactions' = [b \in DOMAIN rules |-> Handled(b, event)]
  BY DEF Emit
<1>2. FiltersOK' /\ RouterOK' /\ Listeners' = Listeners
  BY <1>1 DEF RoutingInv, FiltersOK, RouterOK, Listeners, ListenerOf, RemoteSources
<1>3. Serves(table, Listeners)'
  BY <1>1, <1>2 DEF RoutingInv
<1>4. ReactsToItsSources'
  <2>1. \A topic : MotionAlone(topic)' <=> MotionAlone(topic)
    BY <1>1 DEF MotionAlone
  <2>2. \A b, source : Describes(source, app.bindings[b].rule)' <=> About(source, app.bindings[b].rule, said)
    BY <1>1 DEF Describes, About
  <2>3. ASSUME HeardAsSaid(said, event), NEW b \in DOMAIN rules
        PROVE  Handled(b, event) > 0 <=>
                 \E source \in ToSet(app.bindings[b].sources) : About(source, app.bindings[b].rule, said)
    <3>1. Handled(b, event) > 0 <=> \E i \in DOMAIN rules[b].filters : Matches(rules[b].filters[i], event)
      BY HandledIs DEF RoutingInv
    <3>2. DOMAIN rules[b].filters = DOMAIN app.bindings[b].sources
      BY DEF RoutingInv, FiltersOK
    <3>3. (\E source \in ToSet(app.bindings[b].sources) : About(source, app.bindings[b].rule, said))
            <=> \E i \in DOMAIN app.bindings[b].sources : About(app.bindings[b].sources[i], app.bindings[b].rule, said)
      BY DEF ToSet
    <3>4. QED
      BY <2>3, <3>1, <3>2, <3>3 DEF HeardAsSaid
  <2>4. ASSUME (said.kind = "remote" => MotionAlone(said.topic)), NEW b \in DOMAIN rules
        PROVE  reactions'[b] > 0 <=>
                 \E source \in ToSet(app.bindings[b].sources) : About(source, app.bindings[b].rule, said)
    <3>1. reactions'[b] = Handled(b, event)
      BY <1>1
    <3>2. QED
      BY <2>3, <2>4, <3>1
  <2>5. DOMAIN reactions' = DOMAIN rules
    BY <1>1
  <2>6. QED
    BY <1>1, <2>1, <2>2, <2>4, <2>5 DEF ReactsToItsSources
<1>5. QED
  BY <1>1, <1>2, <1>3, <1>4 DEF RoutingInv

(* What a filter is. *)
LEMMA FilterIs ==
    ASSUME NEW source, NEW rule, NEW index, NEW filter, filter = Filter(source, rule, index)
    PROVE  /\ source.kind = "remote" => filter.key = <<"remote", index>>
           /\ source.kind = "button" => filter.key = <<"button", source.id>> /\ filter.gesture = source.gesture
           /\ source.kind = "sensor" => filter.key = <<source.type, source.id>>
           /\ filter.any <=> source.kind # "button" \/ rule = "cover"
BY DEF Filter

(* A source, and its filter. *)
SourceAndFilter(source, rule, filter) ==
    /\ source.kind \in {"button", "sensor", "remote"}
    /\ source.kind = "sensor" => source.type \in OccupancySensors
    /\ \E index : filter = Filter(source, rule, index)

(* Every source of a rule has its filter, at its own place. *)
LEMMA SourcesHaveFilters ==
    ASSUME WiringInv, RoutingInv, NEW b \in DOMAIN rules, NEW i \in DOMAIN app.bindings[b].sources
    PROVE  SourceAndFilter(app.bindings[b].sources[i], app.bindings[b].rule, rules[b].filters[i])
<1>1. b \in DOMAIN app.bindings /\ AppOK
  BY ListIs, LenProperties DEF WiringInv, RulesOK, AppOK
<1>2. \E index : rules[b].filters[i] = Filter(app.bindings[b].sources[i], app.bindings[b].rule, index)
  BY DEF RoutingInv, FiltersOK
<1>3. QED
  BY <1>1, <1>2, SourceIs DEF SourceAndFilter

(* A press is matched by the filters of its switch. *)
LEMMA PressIsHeard ==
    ASSUME NEW source, NEW rule, NEW filter, SourceAndFilter(source, rule, filter), NEW id, NEW gesture
    PROVE  Matches(filter, [key |-> <<"button", id>>, edge |-> FALSE, gesture |-> gesture])
             <=> About(source, rule, [kind |-> "button", id |-> id, gesture |-> gesture])
<1> DEFINE event == [key |-> <<"button", id>>, edge |-> FALSE, gesture |-> gesture]
           said == [kind |-> "button", id |-> id, gesture |-> gesture]
<1>1. PICK index : filter = Filter(source, rule, index)
  BY DEF SourceAndFilter
<1>2. CASE source.kind = "button"
  <2>1. filter.key = <<"button", source.id>> /\ filter.gesture = source.gesture /\ (filter.any <=> rule = "cover")
    BY <1>1, <1>2, FilterIs
  <2>2. Matches(filter, event) <=> source.id = id /\ (rule = "cover" \/ source.gesture = gesture)
    BY <2>1 DEF Matches
  <2>3. About(source, rule, said) <=> source.id = id /\ (rule = "cover" \/ source.gesture = gesture)
    BY <1>2 DEF About
  <2>4. QED
    BY <2>2, <2>3
<1>3. CASE source.kind # "button"
  <2>1. filter.key[1] # "button"
    BY <1>1, <1>3, FilterIs DEF SourceAndFilter, OccupancySensors
  <2>2. ~Matches(filter, event)
    BY <2>1 DEF Matches
  <2>3. ~About(source, rule, said)
    BY <1>3 DEF About
  <2>4. QED
    BY <2>2, <2>3
<1>4. QED
  BY <1>2, <1>3

(* An edge of a sensor is matched by the filters that name it. *)
LEMMA EdgeIsHeard ==
    ASSUME NEW source, NEW rule, NEW filter, SourceAndFilter(source, rule, filter),
           NEW type \in BinarySensors, NEW id
    PROVE  Matches(filter, [key |-> <<type, id>>, edge |-> TRUE, gesture |-> "none"])
             <=> About(source, rule, [kind |-> "sensor", type |-> type, id |-> id])
<1> DEFINE event == [key |-> <<type, id>>, edge |-> TRUE, gesture |-> "none"]
           said == [kind |-> "sensor", type |-> type, id |-> id]
<1>1. PICK index : filter = Filter(source, rule, index)
  BY DEF SourceAndFilter
<1>2. CASE source.kind = "sensor"
  <2>1. filter.key = <<source.type, source.id>>
    BY <1>1, <1>2, FilterIs
  <2>2. Matches(filter, event) <=> source.type = type /\ source.id = id
    BY <2>1 DEF Matches
  <2>3. About(source, rule, said) <=> source.type = type /\ source.id = id
    BY <1>2 DEF About
  <2>4. QED
    BY <2>2, <2>3
<1>3. CASE source.kind # "sensor"
  <2>1. filter.key[1] \in {"button", "remote"}
    BY <1>1, <1>3, FilterIs DEF SourceAndFilter
  <2>2. ~Matches(filter, event)
    BY <2>1 DEF Matches, BinarySensors, OccupancySensors
  <2>3. ~About(source, rule, said)
    BY <1>3 DEF About
  <2>4. QED
    BY <2>2, <2>3
<1>4. QED
  BY <1>2, <1>3

(* A message is matched by the filters of its index. *)
LEMMA MessageIsHeard ==
    ASSUME NEW source, NEW rule, NEW filter, SourceAndFilter(source, rule, filter),
           NEW topic, NEW payload, NEW index, NEW edge,
           source.kind = "remote" =>
               (filter.key[2] = index <=> source.topic = topic /\ payload \in ToSet(source.payloads))
    PROVE  Matches(filter, [key |-> <<"remote", index>>, edge |-> edge, gesture |-> "press_1"])
             <=> About(source, rule, [kind |-> "remote", topic |-> topic, payload |-> payload])
<1> DEFINE event == [key |-> <<"remote", index>>, edge |-> edge, gesture |-> "press_1"]
           said == [kind |-> "remote", topic |-> topic, payload |-> payload]
<1>1. PICK own : filter = Filter(source, rule, own)
  BY DEF SourceAndFilter
<1>2. CASE source.kind = "remote"
  <2>1. filter.key = <<"remote", own>> /\ filter.any
    BY <1>1, <1>2, FilterIs
  <2>2. Matches(filter, event) <=> own = index
    BY <2>1 DEF Matches
  <2>3. About(source, rule, said) <=> source.topic = topic /\ payload \in ToSet(source.payloads)
    BY <1>2 DEF About
  <2>4. QED
    BY <1>2, <2>1, <2>2, <2>3
<1>3. CASE source.kind # "remote"
  <2>1. filter.key[1] # "remote"
    BY <1>1, <1>3, FilterIs DEF SourceAndFilter, OccupancySensors
  <2>2. ~Matches(filter, event)
    BY <2>1 DEF Matches
  <2>3. ~About(source, rule, said)
    BY <1>3 DEF About
  <2>4. QED
    BY <2>2, <2>3
<1>4. QED
  BY <1>2, <1>3

(* What has the kind of a sensor is one that sees an edge. *)
LEMMA SensorsOfRegistry ==
    ASSUME WiringInv, phase \in Late, NEW k \in DOMAIN registry, registry[k].kind = "sensor"
    PROVE  registry[k].type \in BinarySensors
<1>1. PICK n, m, l : n = Len(app.actuators) /\ m = Len(app.sensors) /\ l = Len(app.buttons)
  OBVIOUS
<1>2. /\ IsList(registry) /\ n \in Nat /\ m \in Nat
      /\ Len(registry) = n + m + l /\ l \in Nat
      /\ \A i \in 1..n : registry[i] = ActuatorDevice(app.actuators[i])
      /\ \A i \in 1..m : registry[n + i] = SensorDevice(app.sensors[i])
      /\ \A i \in 1..l : registry[n + m + i] = ButtonDevice(app.buttons[i])
  BY <1>1, RegistryIs
<1>3. k \in 1..n + m + l
  BY <1>2, ListIs
<1>4. /\ \A i \in 1..n : app.actuators[i] \in ActuatorRecords
      /\ \A i \in 1..m : app.sensors[i] \in SensorRecords
      /\ \A i \in 1..l : app.buttons[i] \in ButtonRecords
  BY <1>1, ElementOfSeq DEF WiringInv, AppOK
<1>5. CASE k \in 1..n
  BY <1>2, <1>4, <1>5, DeviceOfActuator
<1>6. CASE k - n \in 1..m
  <2>1. n + (k - n) = k
    BY <1>2, <1>3
  <2>2. PICK s \in SensorRecords : registry[k] = SensorDevice(s)
    BY <1>2, <1>4, <1>6, <2>1
  <2>3. registry[k].type = s.type
    BY <2>2, DeviceOfSensor
  <2>4. PICK obj : s = SensorOf(obj) /\ SensorAccepted(obj)
    BY <2>2 DEF SensorRecords
  <2>5. s.type = TypeOf(obj, "")
    BY <2>4 DEF SensorOf
  <2>6. QED
    BY <2>3, <2>4, <2>5 DEF SensorAccepted
<1>7. CASE k - n - m \in 1..l
  <2>1. n + m + (k - n - m) = k
    BY <1>2, <1>3
  <2>2. registry[k] = ButtonDevice(app.buttons[k - n - m]) /\ app.buttons[k - n - m] \in ButtonRecords
    BY <1>2, <1>4, <1>7, <2>1
  <2>3. registry[k].kind = "button"
    BY <2>2, DeviceOfButton
  <2>4. QED
    BY <2>3
<1>8. k \in 1..n \/ k - n \in 1..m \/ k - n - m \in 1..l
  <2>1. n \in Nat /\ m \in Nat /\ l \in Nat
    BY <1>2
  <2>2. QED
    BY <1>3, <2>1
<1>9. QED
  BY <1>5, <1>6, <1>7, <1>8

(* A signal reaches the rules whose sources describe it. *)
LEMMA EventsKeepRouting == ASSUME WiringInv, RoutingInv, Events PROVE RoutingInv'
<1>1. IsList(rules)
  BY DEF WiringInv, RulesOK
<1>2. ASSUME NEW d \in ToSet(registry), NEW g \in Gestures, Press(d, g) PROVE RoutingInv'
  <2> DEFINE said == [kind |-> "button", id |-> d.id, gesture |-> g]
             event == [key |-> <<"button", d.id>>, edge |-> FALSE, gesture |-> g]
  <2>1. Emit(said, event)
    BY <1>2 DEF Press
  <2>2. HeardAsSaid(said, event)
    BY SourcesHaveFilters, PressIsHeard DEF HeardAsSaid
  <2> HIDE DEF said, event
  <2>3. QED
    BY <1>1, <2>1, <2>2, EmitKeepsRouting
<1>3. ASSUME NEW d \in ToSet(registry), Edge(d) PROVE RoutingInv'
  <2> DEFINE said == [kind |-> "sensor", type |-> d.type, id |-> d.id]
             event == [key |-> <<d.type, d.id>>, edge |-> TRUE, gesture |-> "none"]
  <2>1. Emit(said, event) /\ d.kind = "sensor" /\ phase \in Late
    BY <1>3 DEF Edge, Name, Emit, Late
  <2>2. d.type \in BinarySensors
    BY <2>1, SensorsOfRegistry DEF ToSet
  <2>3. HeardAsSaid(said, event)
    BY <2>2, SourcesHaveFilters, EdgeIsHeard DEF HeardAsSaid
  <2> HIDE DEF said, event
  <2>4. QED
    BY <1>1, <2>1, <2>3, EmitKeepsRouting
<1>4. ASSUME NEW topic, NEW payload, Message(topic, payload) PROVE RoutingInv'
  <2>1. PICK k : k = Row(table, topic, payload)
    OBVIOUS
  <2> DEFINE said == [kind |-> "remote", topic |-> topic, payload |-> payload]
             event == [key |-> <<"remote", table.rows[k].index>>, edge |-> table.rows[k].edge,
                       gesture |-> "press_1"]
  <2>2. Emit(said, event) /\ IsFirst(table, topic, payload, k)
    BY <1>4, <2>1, RowIs DEF Message, RoutingInv, Serves, Counted
  <2>3. ASSUME MotionAlone(topic) PROVE HeardAsSaid(said, event)
    <3> SUFFICES ASSUME NEW b \in DOMAIN rules, NEW i \in DOMAIN app.bindings[b].sources
                 PROVE  Matches(rules[b].filters[i], event)
                          <=> About(app.bindings[b].sources[i], app.bindings[b].rule, said)
      BY DEF HeardAsSaid
    <3>1. PICK source, rule, filter, index, edge :
            /\ source = app.bindings[b].sources[i] /\ rule = app.bindings[b].rule
            /\ filter = rules[b].filters[i]
            /\ index = table.rows[k].index /\ edge = table.rows[k].edge
      OBVIOUS
    <3>2. SourceAndFilter(source, rule, filter)
      BY <3>1, SourcesHaveFilters
    <3>3. ASSUME source.kind = "remote"
          PROVE  filter.key[2] = index <=> source.topic = topic /\ payload \in ToSet(source.payloads)
      <4>1. PICK x : x = ListenerOf(b, i)
        OBVIOUS
      <4>2. x \in Listeners
        BY <3>1, <3>3, <4>1 DEF Listeners, RemoteSources
      <4>3. x.index = filter.key[2] /\ x.source = source
        BY <3>1, <4>1 DEF ListenerOf, Listener
      <4>4. QED
        BY <2>2, <2>3, <3>1, <4>2, <4>3, RowReachesListeners DEF RoutingInv
    <3>4. Matches(filter, [key |-> <<"remote", index>>, edge |-> edge, gesture |-> "press_1"])
            <=> About(source, rule, said)
      BY <3>2, <3>3, MessageIsHeard
    <3>5. QED
      BY <3>1, <3>4
  <2>4. said.kind = "remote" /\ said.topic = topic
    OBVIOUS
  <2> HIDE DEF said, event
  <2>5. QED
    BY <1>1, <2>2, <2>3, <2>4, EmitKeepsRouting
<1>5. QED
  BY <1>2, <1>3, <1>4 DEF Events

(* A rule is kept as it is. *)
LEMMA RestKeepsRouting ==
    ASSUME RoutingInv, UNCHANGED <<app, rules, router, table, signal, reactions>>,
           phase' = "running" \/ UNCHANGED phase
    PROVE  RoutingInv'
<1>1. FiltersOK' /\ RouterOK' /\ Listeners' = Listeners
  BY DEF RoutingInv, FiltersOK, RouterOK, Listeners, ListenerOf, RemoteSources
<1>2. Serves(table, Listeners)'
  BY <1>1 DEF RoutingInv
<1>3. ReactsToItsSources'
  <2>1. \A topic : MotionAlone(topic)' <=> MotionAlone(topic)
    BY DEF MotionAlone
  <2>2. (\A b \in DOMAIN reactions :
            reactions[b] > 0 <=> \E source \in ToSet(app.bindings[b].sources) : Describes(source, app.bindings[b].rule))'
        <=> \A b \in DOMAIN reactions :
            reactions[b] > 0 <=> \E source \in ToSet(app.bindings[b].sources) : Describes(source, app.bindings[b].rule)
    BY DEF Describes
  <2>3. QED
    BY <2>1, <2>2 DEF RoutingInv, ReactsToItsSources
<1>4. QED
  BY <1>1, <1>2, <1>3 DEF RoutingInv

(* Every step taken together. *)
LEMMA RoutingNextKeepsInv == ASSUME WiringInv, RoutingInv, [Next]_vars PROVE RoutingInv'
<1>1. CASE Parse \/ Devices
  <2>1. /\ phase \notin Late /\ phase' # "running" /\ UNCHANGED <<rules, router, table, signal, reactions>>
    BY <1>1 DEF Parse, Header, Network, Expanders, Actuators, Sensors, Buttons, Bindings, Checks, Overlay,
                Take, Devices, built, Late
  <2>2. rules = <<>> /\ phase # "running"
    BY <2>1 DEF WiringInv, RulesOK, Late
  <2>3. QED
    BY <2>1, <2>2, ReadingKeepsRouting
<1>2. CASE Build
  BY <1>2, BuildKeepsRouting
<1>3. CASE Run \/ UNCHANGED vars
  <2>1. /\ UNCHANGED <<app, rules, router, table, signal, reactions>>
        /\ phase' = "running" \/ UNCHANGED phase
    BY <1>3 DEF Run, built, vars
  <2>2. QED
    BY <2>1, RestKeepsRouting
<1>4. CASE Events
  BY <1>4, EventsKeepRouting
<1>5. QED
  BY <1>1, <1>2, <1>3, <1>4 DEF Next, Boot

(* For every file, every list of bindings and every signal: a rule reacts to    *)
(* exactly the signals its sources describe.                                    *)
THEOREM RulesReactToTheirSources == Spec => []ReactsToItsSources
<1>1. WiringInit => WiringInv /\ RoutingInv
  BY WiringInitInv, RoutingInitInv
<1>2. WiringInv /\ RoutingInv /\ [Next]_vars => WiringInv' /\ RoutingInv'
  BY WiringNextKeepsInv, RoutingNextKeepsInv
<1>3. WiringInv /\ RoutingInv => ReactsToItsSources
  BY DEF RoutingInv
<1>4. QED
  BY <1>1, <1>2, <1>3, PTL DEF Spec
=============================================================================
