------------------------------- MODULE Panels -------------------------------
(* Several panels around one broker: what one of them publishes is a source of *)
(* another's rules, and Home Assistant commands them all.                      *)
(*                                                                             *)
(* Session follows the values of one panel through its queues.  This module    *)
(* follows messages from panel to panel, by their topics: who is sent what     *)
(* (buildTopic, buildSubscriptions), what each makes of it (onMessage,         *)
(* CommandRouter::handle) and what a press, or the occupancy of a room, has    *)
(* become by the time it gets there.  A topic is the sequence of its segments, *)
(* a panel is named by its building.  Of the rules only what a remote source   *)
(* does is here: a toggle rule and a motion rule with one source and one       *)
(* target each; the rest of them is Motion.                                    *)
EXTENDS Naturals, Sequences, FiniteSets, SequencesExt, FiniteSetsExt

CONSTANTS
    Panels,      \* the buildings
    Own,         \* per panel: its retained topics, in the order of the registry
    Buttons,     \* per panel: the event topics of its buttons
    Gestures,    \* what their switches report
    Rows,        \* per panel: the rows of its RemoteSourceTable
    Commands,    \* the messages Home Assistant may send
    OutDepth, InDepth,
    MaxInputs, MaxFaults   \* bounds: presses, movements and commands; faults

VARIABLES
    \* Per panel, core 0:
    value,       \* what each of its retained topics should say
    picture,     \* what its motion rules last heard of each remote sensor
    claims,      \* sensors whose motion rule has switched its lamp on
    on,          \* sensors whose motion rule is on
    inq, outq,   \* gInbound, gOutbound
    \* Per panel, core 1:
    phase, link,
    step,        \* how many of its filters are subscribed
    down,        \* what the broker has sent it and it has not read
    \* The broker:
    retained,
    inputs, faults,      \* what is left of the bounds
    \* History, read by no action:
    presses,     \* gestures made at a button, of each that some row waits for
    toggles,     \* per row: those its rule has acted on
    lost,        \* topics whose newest publication a full gOutbound dropped
    missed,      \* <<panel, topic>>: the newest message was dropped by a full gInbound
    unasked,     \* panels whose newest refresh request was dropped
    day          \* gates the broker has held closed since their panel has power

core0 == <<value, picture, claims, on>>
core1 == <<phase, link, step, down>>
bounds == <<inputs, faults>>
counts == <<presses, toggles>>
history == <<counts, lost, missed, unasked, day>>
vars == <<core0, inq, outq, core1, retained, bounds, history>>

RetainedBy(p) == ToSet(Own[p])
Reported == UNION {RetainedBy(p) : p \in Panels}
None == "none"

CommandVerbs == <<"set_binary", "set_night_mode", "set_position", "set_tilt", "stop">>
Types == {"light", "dimmable_light", "blinds", "curtains", "outlet", "damper", "heating_mat",
          "rgb", "button", "reed", "water_leak", "pir", "presence", "smoke", "light_level",
          "temperature", "humidity", "co2", "status"}
Ids == {"1", "2", "3"}      \* bound: the ids in use

(* The topic of the same device with another verb: buildTopic. *)
Topic(t, verb) == [t EXCEPT ![5] = verb]
Gates == {t \in Reported : t[5] = "night_mode"}
GateCommand(t) == Topic(t, "set_night_mode")
Sensors(p) == {Rows[p][i].topic : i \in {j \in DOMAIN Rows[p] : Rows[p][j].kind = "edge"}}
PressRows(p) == {i \in DOMAIN Rows[p] : Rows[p][i].kind = "press"}
Awaited(p, i) == <<Rows[p][i].topic, Rows[p][i].payload>>
Topics == Reported \cup {c.topic : c \in Commands} \cup UNION {Buttons[p] : p \in Panels}

IsSensor(t) == t[3] \in {"pir", "presence"}

Payload(v) == IF v THEN "1" ELSE "0"
Message(t, payload, keep) == [topic |-> t, payload |-> payload, retained |-> keep]

(* The rows of a rule, and the lamp it works, come from one configuration.       *)
ASSUME TablesAssumption ==
    /\ \A p \in Panels : Own[p] \in Seq(RetainedBy(p)) /\ Rows[p] \in Seq(ToSet(Rows[p]))
    /\ \A p \in Panels : \A i \in DOMAIN Rows[p] : Rows[p][i].lamp \in RetainedBy(p)
    /\ \A c \in Commands : c = Message(c.topic, c.payload, c.retained) /\ c.retained \in BOOLEAN
    /\ IsFiniteSet(Topics) /\ OutDepth \in Nat /\ InDepth \in Nat

(* internSensor enters both edges of a remote sensor.  Its topic is the state    *)
(* topic of a device, on which nobody speaks but the panel that has it.          *)
ASSUME SensorsAssumption ==
    \A p \in Panels : \A t \in Sensors(p) :
        /\ t[5] \notin ToSet(CommandVerbs)
        /\ \A c \in Commands : c.topic # t
        /\ \A q \in Panels : t \notin Buttons[q]
        /\ \A v \in {"0", "1"} : \E i \in DOMAIN Rows[p] :
                Rows[p][i].topic = t /\ Rows[p][i].payload = v
        /\ \A i \in DOMAIN Rows[p] : Rows[p][i].topic = t =>
                Rows[p][i].kind = "edge" /\ Rows[p][i].value = (Rows[p][i].payload = "1")

(* A device has one topic for each of its values; its gate is no sensor and is    *)
(* commanded under one topic.  A rule works the state of its lamp.               *)
ASSUME GatesAssumption ==
    /\ \A p \in Panels : \A t \in RetainedBy(p) :
           t \in Seq(STRING) /\ Len(t) = 5 /\ t[1] = p /\ t[3] \in Types /\ t[4] \in Ids
           /\ \A i \in 1..5 : t[i] # ""
    /\ \A p \in Panels : \A t, u \in RetainedBy(p) :
           t[3] = u[3] /\ t[4] = u[4] /\ t[5] = u[5] => t = u
    /\ \A t \in Gates : ~IsSensor(t) /\ GateCommand(t) \in {c.topic : c \in Commands}
    /\ \A t \in Gates :
       \A u \in Topics \cup UNION {{Rows[p][i].topic : i \in DOMAIN Rows[p]} : p \in Panels} :
           u[1] = t[1] /\ u[3] = t[3] /\ u[4] = t[4] /\ u[5] = "set_night_mode"
           => u = GateCommand(t)
    /\ \A p \in Panels : \A i \in DOMAIN Rows[p] :
           Rows[p][i].kind \in {"press", "edge"} /\ Rows[p][i].lamp[5] = "state"

(* Event topics: buttons speak on topics of their own, named by their building.  *)
ASSUME PressesAssumption ==
    /\ \A p \in Panels : \A t \in Buttons[p] : t[1] = p /\ t \notin Reported
    /\ \A p \in Panels : \A i \in PressRows(p) :
           Rows[p][i].topic \notin Reported \cup {c.topic : c \in Commands}

-----------------------------------------------------------------------------
(* Topics: topic.cpp and onMessage. *)

ParseTopic(t) == Len(t) = 5 /\ (\A i \in 1..5 : t[i] # "") /\ t[3] \in Types /\ t[4] \in Ids

IsCommandVerb(verb) == verb \in ToSet(CommandVerbs)

(* The entries of a sequence at the places in keep, in their order. *)
Kept(s, keep) ==
    LET rank(i) == Cardinality({j \in keep : j <= i})
    IN [k \in 1..Cardinality(keep) |-> s[CHOOSE i \in keep : rank(i) = k]]

(* The remote topics of p in the order they were interned, each once. *)
RemoteTopics(p) ==
    LET topics == [i \in DOMAIN Rows[p] |-> Rows[p][i].topic]
    IN Kept(topics, {i \in DOMAIN topics : \A j \in 1..i - 1 : topics[j] # topics[i]})

Wildcard(p, verb) == {t \in Topics : Len(t) = 5 /\ t[1] = p /\ t[5] = verb}

Matched(filters) == Kept(filters, {i \in DOMAIN filters : filters[i] # {}})

(* Mutant: the remote sources before the commands. *)
FiltersRemoteFirst ==
    [p \in Panels |-> Matched(
        [i \in 1..Len(RemoteTopics(p)) |-> {RemoteTopics(p)[i]}]
        \o [i \in 1..Len(CommandVerbs) |-> Wildcard(p, CommandVerbs[i])])]

(* buildSubscriptions, each filter as the topics it lets through; those that    *)
(* match no topic of the instance are left out.                                 *)
Filters ==
    [p \in Panels |-> Matched(
        [i \in 1..Len(CommandVerbs) |-> Wildcard(p, CommandVerbs[i])]
        \o [i \in 1..Len(RemoteTopics(p)) |-> {RemoteTopics(p)[i]}])]

(* Mutant: match a remote source by its topic alone. *)
FindByTopic(p, t, payload) == {i \in DOMAIN Rows[p] : Rows[p][i].topic = t}

(* RemoteSourceTable::find: the rows with this topic and payload. *)
Find(p, t, payload) == {i \in DOMAIN Rows[p] : Rows[p][i].topic = t /\ Rows[p][i].payload = payload}

Smallest(S) == CHOOSE i \in S : \A j \in S : i <= j

(* onMessage: a remote source if it is one, else a command for this building,  *)
(* else nothing.                                                                *)
OnMessage(p, m) ==
    IF Find(p, m.topic, m.payload) # {}
    THEN <<[kind |-> "remote", row |-> Smallest(Find(p, m.topic, m.payload))]>>
    ELSE IF ParseTopic(m.topic) /\ m.topic[1] = p /\ IsCommandVerb(m.topic[5])
    THEN <<[kind |-> "command", topic |-> m.topic, payload |-> m.payload]>>
    ELSE <<>>

-----------------------------------------------------------------------------
(* Core 0. *)

(* QueuePublisher::publish for several messages at once: what does not fit is   *)
(* dropped.                                                                     *)
Push(p, messages) ==
    LET all == outq[p] \o messages
        fit == SubSeq(all, 1, IF Len(all) < OutDepth THEN Len(all) ELSE OutDepth)
        cut == SubSeq(all, Len(fit) + 1, Len(all))
    IN /\ outq' = [outq EXCEPT ![p] = fit]
       /\ lost' = (lost \ {m.topic : m \in ToSet(messages)}) \cup {m.topic : m \in ToSet(cut)}

Input == inputs > 0 /\ inputs' = inputs - 1

StateMessage(t, v) == Message(t, Payload(v), TRUE)

(* setBinary, setNightMode and a sensor's edge: announce what has changed. *)
SetValue(p, t, v) ==
    IF value[t] = v THEN UNCHANGED <<value, outq, lost>>
    ELSE value' = [value EXCEPT ![t] = v] /\ Push(p, <<StateMessage(t, v)>>)

(* BinarySensor::update: a debounced change. *)
SensorMoves(p, t) ==
    /\ IsSensor(t) /\ Input
    /\ SetValue(p, t, ~value[t])
    /\ UNCHANGED <<picture, claims, on, inq, core1, retained, faults,
                   counts, missed, unasked, day>>

(* Mutant: events are retained like states. *)
PressRetained(p, t, gesture) ==
    /\ Input
    /\ Push(p, <<Message(t, gesture, TRUE)>>)
    /\ presses' = [a \in DOMAIN presses |-> presses[a] + IF a = <<t, gesture>> THEN 1 ELSE 0]
    /\ UNCHANGED <<core0, inq, core1, retained, faults, toggles, missed, unasked, day>>

(* Button::onGesture. *)
Press(p, t, gesture) ==
    /\ Input
    /\ Push(p, <<Message(t, gesture, FALSE)>>)
    /\ presses' = [a \in DOMAIN presses |-> presses[a] + IF a = <<t, gesture>> THEN 1 ELSE 0]
    /\ UNCHANGED <<core0, inq, core1, retained, faults, toggles, missed, unasked, day>>

(* Mutant: a sensor does not repeat its state. *)
RefreshWithoutSensors(p) ==
    LET says(t) == ~IsSensor(t)
        own == SelectSeq(Own[p], says)
    IN [i \in 1..Len(own) |-> StateMessage(own[i], value[own[i]])]

(* DeviceRegistry::publishAllStates. *)
Refresh(p) == [i \in 1..Len(Own[p]) |-> StateMessage(Own[p][i], value[Own[p][i]])]

Next0(p) == inq[p] # <<>> /\ inq' = [inq EXCEPT ![p] = Tail(@)]
Untouched == <<core1, retained, bounds, presses, missed, unasked, day>>

HandleRefresh(p) ==
    /\ Next0(p) /\ Head(inq[p]).kind = "refresh" /\ Push(p, Refresh(p))
    /\ UNCHANGED <<core0, toggles, Untouched>>

(* Relay::handleCommand for the device the topic names, whatever its room.      *)
Obeys == [set_binary |-> "state", set_night_mode |-> "night_mode"]
HandleCommand(p) ==
    /\ Next0(p) /\ Head(inq[p]).kind = "command"
    /\ LET m == Head(inq[p])
           verb == m.topic[5]
           target == {t \in RetainedBy(p) : /\ verb \in DOMAIN Obeys /\ t[5] = Obeys[verb]
                                            /\ t[3] = m.topic[3] /\ t[4] = m.topic[4]
                                            /\ ~IsSensor(t)}
       IN IF m.payload \notin {"0", "1"} \/ target = {} THEN UNCHANGED <<value, outq, lost>>
          ELSE \E t \in target : SetValue(p, t, m.payload = "1")
    /\ UNCHANGED <<picture, claims, on, toggles, Untouched>>

(* ToggleRule::handle, for a remote press. *)
HandlePress(p) ==
    /\ Next0(p) /\ Head(inq[p]).kind = "remote"
    /\ LET row == Rows[p][Head(inq[p]).row] IN
       /\ row.kind = "press" /\ toggles' = [toggles EXCEPT ![<<p, Head(inq[p]).row>>] = @ + 1]
       /\ SetValue(p, row.lamp, ~value[row.lamp])
    /\ UNCHANGED <<picture, claims, on, Untouched>>

(* MotionRule::handle, for one edge of a remote sensor: the lamp is switched on  *)
(* when its gate is open.                                                       *)
HandleEdge(p) ==
    /\ Next0(p) /\ Head(inq[p]).kind = "remote"
    /\ LET row == Rows[p][Head(inq[p]).row]
           s == <<p, row.topic>>
           gate == Topic(row.lamp, "night_mode")
           opens == row.value /\ s \notin on /\ value[gate]
       IN /\ row.kind = "edge" /\ picture' = [picture EXCEPT ![s] = row.value]
          /\ on' = IF row.value THEN on \cup {s} ELSE on
          /\ claims' = IF opens THEN claims \cup {s} ELSE claims
          /\ IF opens THEN SetValue(p, row.lamp, TRUE) ELSE UNCHANGED <<value, outq, lost>>
    /\ UNCHANGED <<toggles, Untouched>>

(* MotionRule::update when the off-delay is over: what it switched on goes off.  *)
RuleEnds(p) ==
    \E i \in DOMAIN Rows[p] :
        LET row == Rows[p][i]
            s == <<p, row.topic>>
        IN /\ row.kind = "edge" /\ s \in on /\ ~picture[s]
           /\ on' = on \ {s} /\ claims' = claims \ {s}
           /\ IF s \in claims THEN SetValue(p, row.lamp, FALSE) ELSE UNCHANGED <<value, outq, lost>>
           /\ UNCHANGED <<picture, inq, toggles, Untouched>>

-----------------------------------------------------------------------------
(* The broker. *)

Listens(q, t) == link[q] /\ \E i \in 1..step[q] : t \in Filters[q][i]

(* Keep what is retained (if a panel of the instance may ask for it), and send   *)
(* the message to whoever listens.                                              *)
Accept(m) ==
    /\ retained' = IF m.retained /\ m.topic \in DOMAIN retained
                   THEN [retained EXCEPT ![m.topic] = m.payload] ELSE retained
    /\ down' = [q \in Panels |-> IF Listens(q, m.topic) THEN Append(down[q], m) ELSE down[q]]
    /\ day' = (day \ {t \in Gates : GateCommand(t) = m.topic /\ m.payload # "0"})

(* Home Assistant commands a device. *)
HaCommand(m) ==
    /\ Input /\ Accept(m)
    /\ UNCHANGED <<core0, inq, outq, phase, link, step, faults, counts,
                   lost, missed, unasked>>

-----------------------------------------------------------------------------
(* Core 1 of panel p. *)

Leave(p) ==
    /\ phase' = [phase EXCEPT ![p] = "away"] /\ link' = [link EXCEPT ![p] = FALSE]
    /\ step' = [step EXCEPT ![p] = 0] /\ down' = [down EXCEPT ![p] = <<>>]
Subscribed(p) == step[p] = Len(Filters[p])
Core1Only == <<core0, bounds, counts, day>>

(* flushOutbound, then connectSession up to the first SUBSCRIBE: the broker      *)
(* remembers nothing of an earlier session (cleansession).                      *)
Connect(p) ==
    /\ phase[p] = "away"
    /\ phase' = [phase EXCEPT ![p] = "subscribe"] /\ link' = [link EXCEPT ![p] = TRUE]
    /\ step' = [step EXCEPT ![p] = 0] /\ down' = [down EXCEPT ![p] = <<>>]
    /\ outq' = [outq EXCEPT ![p] = <<>>]
    /\ UNCHANGED <<Core1Only, inq, retained, lost, missed, unasked>>

(* MQTTSubscribe for the next filter; the broker sends what it has retained      *)
(* under it, in any order.  On a dead link the attempt fails.                   *)
Subscribe(p) ==
    /\ phase[p] = "subscribe" /\ ~Subscribed(p)
    /\ IF ~link[p] THEN Leave(p)
       ELSE /\ step' = [step EXCEPT ![p] = @ + 1] /\ UNCHANGED <<phase, link>>
            /\ LET kept == {t \in Filters[p][step[p] + 1] : retained[t] # None}
               IN \E order \in SetToSeqs(kept) :
                    down' = [down EXCEPT ![p] = @ \o [i \in DOMAIN order |->
                                Message(order[i], retained[order[i]], TRUE)]]
    /\ UNCHANGED <<Core1Only, inq, outq, retained, lost, missed, unasked>>

Room(p) == Len(inq[p]) < InDepth

(* The settling yield is over: ask core 0 for its states. *)
EndSettle(p) ==
    /\ Subscribed(p) /\ phase[p] = "subscribe" /\ phase' = [phase EXCEPT ![p] = "serve"]
    /\ inq' = IF Room(p) THEN [inq EXCEPT ![p] = Append(@, [kind |-> "refresh"])] ELSE inq
    /\ unasked' = IF Room(p) THEN unasked \ {p} ELSE unasked \cup {p}
    /\ UNCHANGED <<Core1Only, outq, link, step, down, retained, lost, missed>>

(* onMessage for the next packet, in every wait for an answer.  A closing that is *)
(* dropped while the gate is open leaves the panel in the dark about the day.     *)
Receive(p) ==
    /\ phase[p] # "away" /\ down[p] # <<>> /\ down' = [down EXCEPT ![p] = Tail(@)]
    /\ LET m == Head(down[p])
           entry == OnMessage(p, m)
       IN /\ inq' = IF Room(p) THEN [inq EXCEPT ![p] = @ \o entry] ELSE inq
          /\ missed' = IF Room(p) \/ entry = <<>> THEN missed \ {<<p, m.topic>>}
                       ELSE missed \cup {<<p, m.topic>>}
          /\ day' = IF Room(p) THEN day ELSE day \ {t \in Gates : GateCommand(t) = m.topic /\ value[t]}
    /\ UNCHANGED <<core0, bounds, counts, outq, phase, link, step, retained, lost, unasked>>

(* One publishNow of the session loop. *)
Publish(p) ==
    /\ phase[p] = "serve" /\ link[p] /\ outq[p] # <<>>
    /\ outq' = [outq EXCEPT ![p] = Tail(@)]
    /\ Accept(Head(outq[p]))
    /\ UNCHANGED <<core0, inq, phase, link, step, bounds, counts, lost, missed, unasked>>

(* The link is found dead, by a failed publish (its message is off the queue)    *)
(* or by socketAlive and the ping.                                              *)
NoticeDeath(p) ==
    /\ phase[p] = "serve" /\ ~link[p] /\ Leave(p)
    /\ \/ UNCHANGED outq
       \/ outq[p] # <<>> /\ outq' = [outq EXCEPT ![p] = Tail(@)]
    /\ UNCHANGED <<Core1Only, inq, retained, lost, missed, unasked>>

-----------------------------------------------------------------------------
(* Faults. *)

(* What the broker had sent and p had not read is lost with the connection. *)
LinkBreaks(p) ==
    /\ link[p] /\ faults > 0 /\ faults' = faults - 1
    /\ link' = [link EXCEPT ![p] = FALSE] /\ down' = [down EXCEPT ![p] = <<>>]
    /\ UNCHANGED <<core0, inq, outq, phase, step, retained, inputs, history>>

(* p loses power and boots: its lamps are off, its gates open, its sensors what  *)
(* they are.                                                                    *)
PowerCut(p) ==
    /\ faults > 0 /\ faults' = faults - 1 /\ Leave(p)
    /\ value' = [t \in Reported |-> IF t \notin RetainedBy(p) \/ IsSensor(t) THEN value[t]
                                     ELSE t \in Gates]
    /\ picture' = [s \in DOMAIN picture |-> s[1] # p /\ picture[s]]
    /\ on' = {s \in on : s[1] # p} /\ claims' = {s \in claims : s[1] # p}
    /\ inq' = [inq EXCEPT ![p] = <<>>] /\ outq' = [outq EXCEPT ![p] = <<>>]
    /\ day' = (day \ RetainedBy(p))
              \cup {t \in Gates \cap RetainedBy(p) : retained[GateCommand(t)] = "0"}
    /\ missed' = {x \in missed : x[1] # p}
    /\ UNCHANGED <<retained, inputs, counts, lost, unasked>>

-----------------------------------------------------------------------------
PanelsInit ==
    /\ value = [t \in Reported |-> t \in Gates]
    /\ picture = [s \in UNION {{p} \X Sensors(p) : p \in Panels} |-> FALSE]
    /\ claims = {} /\ on = {}
    /\ inq = [p \in Panels |-> <<>>] /\ outq = [p \in Panels |-> <<>>]
    /\ phase = [p \in Panels |-> "away"] /\ link = [p \in Panels |-> FALSE]
    /\ step = [p \in Panels |-> 0] /\ down = [p \in Panels |-> <<>>]
    /\ retained = [t \in UNION {UNION ToSet(Filters[p]) : p \in Panels} |-> None]
    /\ inputs = MaxInputs /\ faults = MaxFaults
    /\ presses = [a \in UNION {{Awaited(p, i) : i \in PressRows(p)} : p \in Panels} |-> 0]
    /\ toggles = [a \in UNION {{p} \X PressRows(p) : p \in Panels} |-> 0]
    /\ lost = {} /\ missed = {} /\ unasked = {} /\ day = {}

Core0(p) == HandleRefresh(p) \/ HandleCommand(p) \/ HandlePress(p) \/ HandleEdge(p) \/ RuleEnds(p)
Core1(p) == \/ Connect(p) \/ Subscribe(p) \/ EndSettle(p) \/ Receive(p)
            \/ Publish(p) \/ NoticeDeath(p)
Inputs(p) == \/ \E t \in Buttons[p], g \in Gestures : Press(p, t, g)
             \/ \E t \in RetainedBy(p) : SensorMoves(p, t)
             \/ LinkBreaks(p) \/ PowerCut(p)

Next == \/ \E p \in Panels : Core0(p) \/ Core1(p) \/ Inputs(p)
        \/ \E m \in Commands : HaCommand(m)
Spec == PanelsInit /\ [][Next]_vars

(* While a core of some panel has work, some core does some: less than the code  *)
(* gives, whose cores all run, and enough, for their work comes to an end.      *)
FairSpec == Spec /\ WF_vars(\E p \in Panels : Core0(p) \/ Core1(p))

-----------------------------------------------------------------------------
(* asyncapi.yaml:213: a gesture is a moment, and replaying it to a panel that    *)
(* connects later would switch a light nobody touched.  No crash, no reconnect   *)
(* and no order of the queues makes the rule of a row act on more gestures than  *)
(* were made at the button it waits for.                                         *)
PressActsAtMostOnce ==
    \A p \in Panels : \A i \in PressRows(p) : toggles[<<p, i>>] <= presses[Awaited(p, i)]

(* An entry of gInbound that tells the motion rules of p about sensor t. *)
Tells(p, e, t) ==
    e.kind = "remote" /\ Rows[p][e.row].kind = "edge" /\ Rows[p][e.row].topic = t

(* What p will think of sensor t once it has worked off what it has and what     *)
(* the broker has sent it.                                                      *)
Foresees(p, t) ==
    LET coming == {i \in DOMAIN down[p] : \E e \in ToSet(OnMessage(p, down[p][i])) : Tells(p, e, t)}
        waiting == {i \in DOMAIN inq[p] : Tells(p, inq[p][i], t)}
    IN IF coming # {} THEN Rows[p][OnMessage(p, down[p][Max(coming)])[1].row].value
       ELSE IF waiting # {} THEN Rows[p][inq[p][Max(waiting)].row].value
       ELSE picture[<<p, t>>]

(* A panel in session never holds a stale picture of another panel's sensor:     *)
(* with what is on its way it is what the broker has retained, unless gInbound   *)
(* was full.                                                                    *)
PictureFollowsBroker ==
    \A p \in Panels : \A t \in Sensors(p) :
        link[p] /\ Subscribed(p) /\ <<p, t>> \notin missed
        => Foresees(p, t) = (retained[t] = "1")

(* buildSubscriptions puts the commands before the remote sources, so that the   *)
(* retained set_night_mode of a gate closed since before the panel booted is     *)
(* heard before any sensor: motion never switches on a light in the daytime,     *)
(* unless the closing found gInbound full.                                      *)
DayIsKnownFirst ==
    [][\A t \in day : LET lamp == Topic(t, "state") IN
           \A p \in Panels : lamp \in RetainedBy(p) /\ HandleEdge(p)
               => (value'[lamp] => value[lamp])]_vars

(* Once faults and inputs end, every panel knows the occupancy its rules need,   *)
(* unless a queue was full.                                                     *)
OccupancyArrives ==
    \A p \in Panels : \A t \in Sensors(p) :
        <>[](\/ picture[<<p, t>>] = value[t]
            \/ t \in lost \/ <<p, t>> \in missed \/ unasked # {})
=============================================================================
