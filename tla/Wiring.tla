------------------------------- MODULE Wiring -------------------------------
(* What a configuration file becomes: the parser (config_parser.cpp), the       *)
(* devices (main.cpp:109-150), the bindings (binding_set.cpp) and the routing   *)
(* of events to them.  The file is read entry by entry; what it holds is the    *)
(* environment's choice, and an entry is the record of the keys it has.         *)
EXTENDS Integers, SequencesExt

CONSTANTS
    Networks, Secrets,      \* "network" of config.json, and of secrets.json
    Entries,                \* section: the entries a file may hold in it
    MaxEntries, MaxFile,    \* bounds: entries of each section, and of all together
    Wrong,                  \* a value of another type, or out of its type's range
    TooLong                 \* a text of more than kMaxCredentialLen characters

VARIABLES
    phase,                  \* where boot is; a section's name while it is parsed
    app,                    \* App: the network login, and a list for each section
    registry,               \* the devices, in order
    rules,                  \* the bindings built so far: their target devices and filters
    router,                 \* the subscriptions, in order
    table,                  \* RemoteSourceTable: rows_ and sourceCount_
    signal, reactions       \* what happened last, and how often each rule handled it

vars == <<phase, app, registry, rules, router, table, signal, reactions>>
built == <<registry, rules, router, table, signal, reactions>>

Sections == <<"expanders", "actuators", "sensors", "buttons", "bindings">>
Ended == {"refused", "halted", "running"}

(* kMaxCredentialLen is not zero. *)
ASSUME LoginAssumption == TooLong # ""

(* What a binding listens to is an array. *)
ASSUME SourcesAssumption ==
    \A obj \in Entries["bindings"] :
        Len(obj.sources) \in Nat /\ DOMAIN obj.sources = 1..Len(obj.sources)

(* A record with fields more, which hide its own of the same name. *)
With(fields, record) ==
    [x \in DOMAIN fields \cup DOMAIN record |-> IF x \in DOMAIN fields THEN fields[x] ELSE record[x]]

-----------------------------------------------------------------------------
(* JSON: a key is there or not, and `|` takes a default for a wrong value too.  *)
Has(obj, key) == key \in DOMAIN obj
Or(obj, key, default) == IF Has(obj, key) /\ obj[key] # Wrong THEN obj[key] ELSE default

(* The types of types.h; any other segment is Unknown. *)
Lights == {"light", "dimmable_light"}
OccupancySensors == {"pir", "presence"}
BinarySensors == OccupancySensors \cup {"reed", "water_leak", "smoke"}
Others == {"blinds", "curtains", "outlet", "damper", "heating_mat", "rgb", "button", "light_level",
           "temperature", "humidity", "co2", "status"}
Types == Lights \cup BinarySensors \cup Others

Gestures == {"press_1", "press_2", "press_3", "hold_start", "hold_long", "hold_end"}

(* producesGesture. *)
Produces(button, gesture) ==
    \/ gesture = "press_1"
    \/ button.full /\ (gesture \notin {"hold_start", "hold_long", "hold_end"} \/ button.momentary)

PinRef(obj) == [expander |-> Or(obj, "expander", -1), pin |-> Or(obj, "pin", 0)]

(* An address is a number, or a text whose value is cut to eight bits. *)
I2cAddress(obj) == IF Has(obj, "text") THEN obj.text % 256 ELSE Or(obj, "address", 0)

ExpanderOf(obj) ==
    [index |-> Or(obj, "index", 0), address |-> I2cAddress(obj), intPin |-> Or(obj, "int_pin", 0)]

ExpanderAccepted(obj) ==
    LET expander == ExpanderOf(obj) IN
    /\ Has(obj, "index") /\ Has(obj, "int_pin")
    /\ expander.index <= 7 /\ expander.address \in 32..39
    /\ \A e \in ToSet(app.expanders) : e.index # expander.index /\ e.address # expander.address

TypeOf(obj, default) ==
    LET type == Or(obj, "type", default) IN IF type \in Types THEN type ELSE "unknown"

(* The timing of a cover, as far as it is checked. *)
CoverTiming(options) ==
    LET both == Or(options, "travel_ms", 0) IN
    [up |-> Or(options, "travel_up_ms", both), down |-> Or(options, "travel_down_ms", both),
     tilt |-> Or(options, "tilt_ms", 0)]

ActuatorOf(obj) ==
    LET device == [type |-> TypeOf(obj, "light"), id |-> Or(obj, "id", 0),
                   backend |-> Or(obj.backend, "kind", "gpio")]
    IN  IF device.backend = "cover"
        THEN With([pins |-> <<PinRef(obj.backend.up), PinRef(obj.backend.down)>>,
                   timing |-> CoverTiming(obj.options)], device)
        ELSE With([pins |-> <<PinRef(obj.backend)>>], device)

CoverAccepted(obj) ==
    LET timing == CoverTiming(obj.options) IN
    /\ Has(obj.backend, "up") /\ Has(obj.backend, "down") /\ TypeOf(obj, "light") = "blinds"
    /\ ~Has(obj.options, "reverse_delay_ms")
    /\ Or(obj.options, "boot_position", "open") \in {"open", "closed"}
    /\ timing.up # 0 /\ timing.down # 0
    /\ timing.tilt < timing.up /\ timing.tilt < timing.down

ActuatorAccepted(obj) ==
    /\ TypeOf(obj, "light") # "unknown" /\ Or(obj, "id", 0) # 0 /\ Has(obj, "backend")
    /\ \/ Or(obj.backend, "kind", "gpio") \in {"gpio", "mcp"}
       \/ Or(obj.backend, "kind", "gpio") = "cover" /\ Has(obj, "options") /\ CoverAccepted(obj)

SensorOf(obj) == [type |-> TypeOf(obj, ""), id |-> Or(obj, "id", 0), pins |-> <<PinRef(obj.pin)>>]
SensorAccepted(obj) ==
    TypeOf(obj, "") \in BinarySensors /\ Or(obj, "id", 0) # 0 /\ Has(obj, "pin")

ButtonOf(obj) ==
    [id |-> Or(obj, "id", 0), momentary |-> obj.kind = "momentary",
     full |-> Or(obj, "gestures", FALSE), pins |-> <<PinRef(obj.pin)>>]
ButtonAccepted(obj) ==
    Or(obj, "id", 0) # 0 /\ Or(obj, "kind", "") \in {"momentary", "toggle"} /\ Has(obj, "pin")

-----------------------------------------------------------------------------
(* Bindings. *)

SourceOf(obj, rule) ==
    CASE Has(obj, "button") ->
            [kind |-> "button", id |-> Or(obj, "button", 0), gesture |-> Or(obj, "gesture", "press_1")]
      [] ~Has(obj, "button") /\ Has(obj, "sensor") ->
            [kind |-> "sensor", type |-> TypeOf(obj.sensor, ""), id |-> Or(obj.sensor, "id", 0)]
      [] OTHER ->
            [kind |-> "remote", topic |-> Or(obj, "topic", ""),
             payloads |-> IF rule = "motion"
                          THEN <<Or(obj, "payload_active", "1"), Or(obj, "payload_inactive", "0")>>
                          ELSE <<Or(obj, "payload", "")>>]

SourceAccepted(obj, rule) ==
    LET source == SourceOf(obj, rule) IN
    \/ source.kind = "button" /\ source.gesture \in Gestures
    \/ source.kind = "sensor" /\ source.type \in OccupancySensors /\ source.id # 0 /\ rule = "motion"
    \/ /\ source.kind = "remote" /\ source.topic # ""
       /\ IF rule = "motion" THEN source.payloads[1] # source.payloads[2] ELSE source.payloads[1] # ""

TargetTypes(rule) ==
    CASE rule = "toggle" -> Lights \cup {"outlet", "damper"}
      [] rule = "motion" -> Lights
      [] rule = "cover"  -> {"blinds"}

BindingOf(obj) ==
    [rule |-> obj.rule, targets |-> obj.targets,
     sources |-> [i \in DOMAIN obj.sources |-> SourceOf(obj.sources[i], obj.rule)],
     offDelay |-> Or(obj, "off_delay_ms", 0)]

BindingAccepted(obj) ==
    LET binding == BindingOf(obj) IN
    /\ obj.rule \in {"toggle", "motion", "cover"}
    /\ obj.sources # <<>> /\ \A i \in DOMAIN obj.sources : SourceAccepted(obj.sources[i], obj.rule)
    /\ obj.targets # <<>>
    /\ \A ref \in ToSet(obj.targets) : ref.type \in TargetTypes(obj.rule) /\ ref.id # 0
    /\ ~Has(obj, "lux_below")
    /\ obj.rule = "motion" =>
          binding.offDelay # 0 /\ \A source \in ToSet(binding.sources) : source.kind # "button"

-----------------------------------------------------------------------------
(* Parsing: header, network, the sections, and what is checked across them.     *)

WiringInit ==
    /\ phase = "header"
    /\ app = [username |-> "", password |-> "", expanders |-> <<>>, actuators |-> <<>>,
              sensors |-> <<>>, buttons |-> <<>>, bindings |-> <<>>]
    /\ registry = <<>> /\ rules = <<>> /\ router = <<>>
    /\ table = [rows |-> <<>>, sources |-> 0]
    /\ signal = [kind |-> "none"] /\ reactions = <<>>

(* A key that is there replaces what was read before, by nothing if it is wrong. *)
Login(net) ==
    [app EXCEPT !.username = IF Has(net, "username") THEN Or(net, "username", "") ELSE @,
                !.password = IF Has(net, "password") THEN Or(net, "password", "") ELSE @]

LoginAccepted(login) ==
    /\ login.username = "" => login.password = ""
    /\ login.username # TooLong /\ login.password # TooLong

(* A malformed text, another schema version or no building is refused. *)
Header == phase = "header" /\ phase' \in {"network", "refused"} /\ UNCHANGED <<app, built>>

Network ==
    /\ phase = "network"
    /\ \/ phase' = "expanders" /\ UNCHANGED app
       \/ \E net \in Networks :
             IF LoginAccepted(Login(net)) THEN app' = Login(net) /\ phase' = "expanders"
                                          ELSE phase' = "refused" /\ UNCHANGED app
    /\ UNCHANGED built

(* A section: one entry more, or on to the next section. *)
FileSize == Len(app.expanders) + Len(app.actuators) + Len(app.sensors) + Len(app.buttons) + Len(app.bindings)
Take(section, next, Accepted(_), Of(_)) ==
    /\ phase = section
    /\ \/ /\ Len(app[section]) < MaxEntries[section] /\ FileSize < MaxFile
          /\ \E obj \in Entries[section] :
                IF Accepted(obj) THEN app' = [app EXCEPT ![section] = Append(@, Of(obj))] /\ UNCHANGED phase
                                 ELSE phase' = "refused" /\ UNCHANGED app
       \/ phase' = next /\ UNCHANGED app
    /\ UNCHANGED built

Expanders == Take("expanders", "actuators", ExpanderAccepted, ExpanderOf)
Actuators == Take("actuators", "sensors", ActuatorAccepted, ActuatorOf)
Sensors == Take("sensors", "buttons", SensorAccepted, SensorOf)
Buttons == Take("buttons", "bindings", ButtonAccepted, ButtonOf)
Bindings == Take("bindings", "checks", BindingAccepted, BindingOf)

(* The pins of a list of devices, in order. *)
Pins(devices) == FlattenSeq([i \in DOMAIN devices |-> devices[i].pins])
DevicePins == Pins(app.actuators) \o Pins(app.sensors) \o Pins(app.buttons)

(* Mutant: of a cover only the first pin is checked. *)
UpPinsDeclared ==
    \A pin \in {d.pins[1] : d \in ToSet(app.actuators \o app.sensors \o app.buttons)} : pin.expander >= 0 =>
        pin.pin <= 15 /\ \E e \in ToSet(app.expanders) : e.index = pin.expander

PinsDeclared ==
    \A pin \in ToSet(DevicePins) : pin.expander >= 0 =>
        pin.pin <= 15 /\ \E e \in ToSet(app.expanders) : e.index = pin.expander

BackendsMatch ==
    \A a \in ToSet(app.actuators) : a.backend # "cover" => (a.backend = "mcp" <=> a.pins[1].expander >= 0)

Name(device) == <<device.type, device.id>>

NamesUnique ==
    LET named == app.actuators \o app.sensors IN IsInjective([i \in DOMAIN named |-> Name(named[i])])

(* Who claims which pin, the interrupt lines first; buttons of one group too. *)
Claims == [i \in DOMAIN app.expanders |-> [expander |-> -1, pin |-> app.expanders[i].intPin]] \o DevicePins
PinsUnique == IsInjective(Claims)

Checks ==
    /\ phase = "checks"
    /\ phase' = IF PinsDeclared /\ BackendsMatch /\ NamesUnique /\ PinsUnique THEN "secrets" ELSE "refused"
    /\ UNCHANGED <<app, built>>

(* The login of secrets.json: no such file is no error, one that cannot be read is. *)
Overlay ==
    /\ phase = "secrets"
    /\ \/ phase' \in {"devices", "refused"} /\ UNCHANGED app
       \/ \E net \in Secrets :
             IF LoginAccepted(Login(net)) THEN app' = Login(net) /\ phase' = "devices"
                                          ELSE phase' = "refused" /\ UNCHANGED app
    /\ UNCHANGED built

-----------------------------------------------------------------------------
(* Building. *)

(* The devices; an expander that does not answer halts the panel. *)
Devices ==
    /\ phase = "devices"
    /\ \/ phase' = "build"
       \/ app.expanders # <<>> /\ phase' = "halted"
    /\ registry' =
          [i \in DOMAIN app.actuators |->
              With([kind |-> IF app.actuators[i].backend = "cover" THEN "cover" ELSE "relay"], app.actuators[i])]
          \o [i \in DOMAIN app.sensors |-> With([kind |-> "sensor"], app.sensors[i])]
          \o [i \in DOMAIN app.buttons |-> With([kind |-> "button", type |-> "button"], app.buttons[i])]
    /\ UNCHANGED <<app, rules, router, table, signal, reactions>>

(* DeviceRegistry::find; zero for nullptr. *)
Find(ref) == SelectInSeq(registry, LAMBDA d : d.type = ref.type /\ d.id = ref.id)

Drives(rule, device) == device.kind = (IF rule = "cover" THEN "cover" ELSE "relay")

(* Mutant: a cover's switch is asked for the gesture of the source only. *)
AttachableBySource(source, rule) ==
    CASE source.kind = "button" ->
            LET i == SelectInSeq(app.buttons, LAMBDA b : b.id = source.id) IN
            i # 0 /\ Produces(app.buttons[i], source.gesture)
      [] source.kind = "sensor" -> \E s \in ToSet(app.sensors) : s.type = source.type /\ s.id = source.id
      [] source.kind = "remote" -> TRUE

(* A source exists, and the first switch of that id can say what it is bound to. *)
Attachable(source, rule) ==
    CASE source.kind = "button" ->
            LET i == SelectInSeq(app.buttons, LAMBDA b : b.id = source.id) IN
            i # 0 /\ Produces(app.buttons[i], IF rule = "cover" THEN "hold_start" ELSE source.gesture)
      [] source.kind = "sensor" -> \E s \in ToSet(app.sensors) : s.type = source.type /\ s.id = source.id
      [] source.kind = "remote" -> TRUE

(* The first row for a topic and payload; zero if there is none. *)
Row(tab, topic, payload) == SelectInSeq(tab.rows, LAMBDA r : r.topic = topic /\ r.payload = payload)

(* internSensor gives every caller rows of its own, internAction looks first. *)
Intern(tab, source, rule) ==
    LET known == Row(tab, source.topic, source.payloads[1])
        index == tab.sources
        row(i) == [topic |-> source.topic, payload |-> source.payloads[i], index |-> index,
                   edge |-> rule = "motion"]
    IN  IF rule # "motion" /\ known # 0
        THEN [table |-> tab, index |-> tab.rows[known].index]
        ELSE [table |-> [rows |-> tab.rows \o [i \in DOMAIN source.payloads |-> row(i)],
                         sources |-> index + 1],
              index |-> index]

(* Mutant: a cover is handed one gesture, like a toggle rule. *)
FilterOne(source, rule, index) ==
    [key |-> IF source.kind = "remote" THEN <<"remote", index>>
             ELSE IF source.kind = "button" THEN <<"button", source.id>> ELSE <<source.type, source.id>>,
     any |-> source.kind # "button",
     gesture |-> IF source.kind = "button" THEN source.gesture ELSE "press_1"]

Filter(source, rule, index) ==
    [key |-> IF source.kind = "remote" THEN <<"remote", index>>
             ELSE IF source.kind = "button" THEN <<"button", source.id>> ELSE <<source.type, source.id>>,
     any |-> source.kind # "button" \/ rule = "cover",
     gesture |-> IF source.kind = "button" THEN source.gesture ELSE "press_1"]

(* Sources one after the other: what each interns, and the filter it becomes. *)
Attach(acc, source) ==
    LET interned == IF source.kind = "remote" THEN Intern(acc.table, source, acc.rule)
                    ELSE [table |-> acc.table, index |-> 0]
    IN  [acc EXCEPT !.table = interned.table, !.filters = Append(@, Filter(source, acc.rule, interned.index))]

Attached(rule, sources) ==
    LET after[n \in 0..Len(sources)] ==
            IF n = 0 THEN [rule |-> rule, table |-> table, filters |-> <<>>]
                     ELSE Attach(after[n - 1], sources[n])
    IN  after[Len(sources)]

(* BindingSet::build, one binding; a subscription for each of its sources.  What *)
(* a binding that is refused leaves in the tables is heard by nobody.            *)
Build ==
    LET b == Len(rules) + 1
        binding == app.bindings[b]
        targets == [i \in DOMAIN binding.targets |-> Find(binding.targets[i])]
        attached == Attached(binding.rule, binding.sources)
    IN
    /\ phase = "build" /\ b <= Len(app.bindings)
    /\ IF /\ \A i \in DOMAIN targets : targets[i] # 0 /\ Drives(binding.rule, registry[targets[i]])
          /\ \A source \in ToSet(binding.sources) : Attachable(source, binding.rule)
       THEN /\ rules' = Append(rules, [targets |-> targets, filters |-> attached.filters])
            /\ router' = router \o [i \in DOMAIN attached.filters |-> [key |-> attached.filters[i].key, rule |-> b]]
            /\ table' = attached.table /\ UNCHANGED phase
       ELSE phase' = "halted" /\ UNCHANGED <<rules, router, table>>
    /\ UNCHANGED <<app, registry, signal, reactions>>

Run ==
    /\ phase = "build" /\ Len(rules) = Len(app.bindings)
    /\ phase' = "running"
    /\ UNCHANGED <<app, built>>

-----------------------------------------------------------------------------
(* Running: a signal becomes an event, and the router hands it on.              *)

(* Binding::onSourceEvent handles an event once if any filter matches it.       *)
Matches(filter, event) == filter.key = event.key /\ (event.edge \/ filter.any \/ filter.gesture = event.gesture)

(* emit calls an observer once for each of its subscriptions to the key. *)
Handled(b, event) ==
    IF \E filter \in ToSet(rules[b].filters) : Matches(filter, event)
    THEN Cardinality({i \in DOMAIN router : router[i].key = event.key /\ router[i].rule = b})
    ELSE 0

Emit(said, event) ==
    /\ phase = "running"
    /\ signal' = said /\ reactions' = [b \in DOMAIN rules |-> Handled(b, event)]
    /\ UNCHANGED <<phase, app, registry, rules, router, table>>

Press(device, gesture) ==
    /\ device.kind = "button" /\ Produces(device, gesture)
    /\ Emit([kind |-> "button", id |-> device.id, gesture |-> gesture],
            [key |-> <<"button", device.id>>, edge |-> FALSE, gesture |-> gesture])

Edge(device) ==
    /\ device.kind = "sensor"
    /\ Emit([kind |-> "sensor", type |-> device.type, id |-> device.id],
            [key |-> Name(device), edge |-> TRUE, gesture |-> "none"])

(* A publication on a topic some source names: RemoteSourceTable::find. *)
Message(topic, payload) ==
    LET i == Row(table, topic, payload) IN
    /\ i # 0
    /\ Emit([kind |-> "remote", topic |-> topic, payload |-> payload],
            [key |-> <<"remote", table.rows[i].index>>, edge |-> table.rows[i].edge, gesture |-> "press_1"])

Parse == Header \/ Network \/ Expanders \/ Actuators \/ Sensors \/ Buttons \/ Bindings \/ Checks \/ Overlay
Boot == Parse \/ Devices \/ Build \/ Run
Events ==
    \/ \E d \in ToSet(registry), g \in Gestures : Press(d, g)
    \/ \E d \in ToSet(registry) : Edge(d)
    \/ \E r \in ToSet(table.rows) : Message(r.topic, r.payload)

Next == Boot \/ Events

Spec == WiringInit /\ [][Next]_vars

-----------------------------------------------------------------------------
Accepted == phase \in {"devices", "build", "running"}
Built == phase \in {"build", "running"}

(* What the tables refer to exists: a rule's targets are devices, a             *)
(* subscription's rule is built, and a row's source was counted.                *)
WiringTypeOK ==
    /\ phase \in ToSet(Sections) \cup Ended \cup {"header", "network", "checks", "secrets", "devices", "build"}
    /\ Len(rules) <= Len(app.bindings) /\ Len(reactions) <= Len(rules)
    /\ \A rule \in ToSet(rules) : ToSet(rule.targets) \subseteq DOMAIN registry
    /\ \A entry \in ToSet(router) : entry.rule \in DOMAIN rules
    /\ \A row \in ToSet(table.rows) : row.index < table.sources

(* main.cpp:65: "the parser already proved this cannot happen".  Each half of a *)
(* pair of relays has a chip of its own, and makeOutput finds exactly that one. *)
ChipsAreFound ==
    \A pin \in ToSet(DevicePins) : pin.expander >= 0 =>
        /\ pin.pin <= 15
        /\ \E i \in DOMAIN app.expanders : \A j \in DOMAIN app.expanders :
              app.expanders[j].index = pin.expander <=> j = i

(* config_parser.cpp:529-532: no line is driven or read by two, the lines of the *)
(* interrupts included.  What is not on an expander is on the controller; a     *)
(* number below -1 says so too (main.cpp:94), but is claimed apart from -1.     *)
LinesAreOwned ==
    (\A claim \in ToSet(Claims) : claim.expander >= -1) =>
        \A i, j \in DOMAIN Claims : Claims[i] = Claims[j] => i = j

(* config_parser.cpp:506-508: a name on MQTT leads to the device that drives    *)
(* the pin declared with it, whatever lists the two come from.                  *)
CommandsArrive == \A i \in DOMAIN registry : registry[i].kind # "button" => Find(registry[i]) = i

(* A cover's times are what Cover's arithmetic assumes of them                  *)
(* (TimingAssumption), from whichever of the keys each came.                    *)
CoversMeetAssumption ==
    \A d \in ToSet(registry) : d.kind = "cover" =>
        /\ d.timing.up # 0 /\ d.timing.down # 0
        /\ d.timing.tilt < d.timing.up /\ d.timing.tilt < d.timing.down

(* What main() and the devices take from the parser without checking it again,  *)
(* after both files are read: a chip for every pin, a device for every name,    *)
(* times a cover can reckon with, and a login that MQTT can send whichever file *)
(* each half of it came from.                                                   *)
BootReliesOnIt ==
    /\ Accepted => ChipsAreFound /\ LinesAreOwned /\ LoginAccepted(app)
    /\ Built => CommandsArrive /\ CoversMeetAssumption

(* binding_set.cpp:60: a binding must not wait for what its switch can never    *)
(* produce; some switch of the group can, and a cover's can say all of it.      *)
NothingWaits ==
    \A b \in DOMAIN rules : \A source \in ToSet(app.bindings[b].sources) : source.kind = "button" =>
        \E d \in ToSet(registry) :
            /\ d.kind = "button" /\ d.id = source.id
            /\ IF app.bindings[b].rule = "cover" THEN \A gesture \in Gestures : Produces(d, gesture)
                                                 ELSE Produces(d, source.gesture)

(* A motion rule's topic is named by no other source: it takes two payloads for *)
(* its own, and what else is asked of the topic may be taken for one of them.   *)
MotionAlone(topic) ==
    \A b, c \in DOMAIN rules : \A i \in DOMAIN app.bindings[b].sources, j \in DOMAIN app.bindings[c].sources :
        LET s == app.bindings[b].sources[i]
            t == app.bindings[c].sources[j]
        IN  /\ s.kind = "remote" /\ t.kind = "remote" /\ s.topic = topic /\ t.topic = topic
            /\ app.bindings[b].rule = "motion"
            => b = c /\ i = j

(* What a source says it is about. *)
Describes(source, rule) ==
    /\ source.kind = signal.kind
    /\ CASE signal.kind = "button" ->
               source.id = signal.id /\ (rule = "cover" \/ source.gesture = signal.gesture)
         [] signal.kind = "sensor" -> source.type = signal.type /\ source.id = signal.id
         [] signal.kind = "remote" -> source.topic = signal.topic /\ signal.payload \in ToSet(source.payloads)

(* Parser, filters, interned rows and subscriptions taken together: a rule      *)
(* reacts to exactly the signals its sources describe, from here or from        *)
(* another controller, shared with other rules or not.                          *)
ReactsToItsSources ==
    (signal.kind = "remote" => MotionAlone(signal.topic)) =>
        \A b \in DOMAIN reactions :
            reactions[b] > 0 <=> \E source \in ToSet(app.bindings[b].sources) : Describes(source, app.bindings[b].rule)

(* binding.cpp:19: "one binding reacts once per event, even with duplicate      *)
(* sources".                                                                    *)
OncePerEvent == \A b \in DOMAIN reactions : reactions[b] <= 1
=============================================================================
