# PicoHome: specification and verification

PicoHome is the firmware of a home-automation panel: an RP2040 (Raspberry Pi Pico)
works lights, blinds, switches and presence sensors, locally through bindings and
over MQTT for Home Assistant.  This directory holds TLA+ specifications of its
logic, TLC configurations that model-check them on small instances, and theorems
that TLAPS checks for every value of the constants.

Paths such as `cover.cpp:162` are below `src/`: the logic is in `core/src` and
`core/include/picohome`, the firmware in `controller/src`.

## 1. The system

### 1.1 Two cores and a loop

Core 0 runs one loop that never blocks (`controller/src/main.cpp:260-296`):

1. refresh the inputs of every port expander whose interrupt line fired;
2. pop at most 8 inbound messages and handle each (`CommandRouter`);
3. update every device in registry order, actuators before inputs; an input that
   changes emits an event, and `EventRouter` calls every binding subscribed to
   it *synchronously*;
4. update every binding (only `MotionRule` has a timer);
5. flush the outputs of every expander.

Core 1 owns the network (`controller/src/net/net_core.cpp`).  The cores share
nothing but two bounded queues: `gOutbound` (states to publish) and `gInbound`
(commands, events of remote sensors, and the request to publish every state).

### 1.2 Inventory

| Component | State it keeps | Operations | What is hard, and what makes it right |
|---|---|---|---|
| **Cover** `cover.cpp` | two relays, direction, a pending direction, an *estimated* position and tilt, a target, the time of the last release | `update`, `setPosition`, `setTilt`, `stop`, `stepAlongDirection`, `toggleDirection`, `moveAlongDirection`, `moveToEnd`, `releaseHold` | no position feedback; one motor with two axes; requests arrive while the motor rests; clocks wrap.  Never both windings, never without the rest, always towards the target, always ends, no drift that adds up. |
| **Gesture detector** `gesture_detector.cpp`, `button.cpp` | debouncer, hold, count of presses and their times | `prime`, `update` | three thresholds crossed between samples by one state machine.  Holds are bracketed, presses are counted once, nothing is left unsaid. |
| **Cover rule** `binding.cpp:93` | none | `handle(gesture)` | switch and MQTT command work one cover.  Letting go stops what a hold started and nothing else. |
| **Motion rule, toggle rule** `binding.cpp:27-132` | on, the activity of each source, a countdown, the lights it switched on | `handle(event)`, `update` | edges, countdown, gates, presses and other rules interleave.  Never stranded on, never off early, never touches a light by day. |
| **Binary sensor** `binary_sensor.cpp` | debounced level | `initialize`, `update` | silent boot, both edges reported. |
| **Relay** `relay.cpp` | on/off, night-mode gate | `setBinary`, `setNightMode`, `toggle`, `publishState` | gate and state are retained topics that core 1 must keep true. |
| **Event router, remote sources** `event_router.cpp`, `remote_sources.cpp` | subscriptions; topic to index | `subscribe`, `emit`, `find` | fan-out to every subscriber, also of a remote sensor. |
| **MQTT session** `net_core.cpp`, `publisher.cpp`, `command_router.cpp` | the two queues, the phase of the session | connect, subscribe, settle, serve, publish, receive, back off | loss in every phase, queues that overflow, commands replayed on subscription. The broker ends up true, the gates follow Home Assistant. |
| **MQTT port and link** `mqtt_port.cpp`, `w5100_link.cpp` | socket, local port, the client's timers | `ConnectNetwork`, read, write, disconnect, `w5100Init` | frozen or restarted broker, cut cable, lost power.  A dead session is noticed, a live one is not given up, the alive topic ends up true. |
| **Topics** `topic.cpp`, `commands.h` | – | build, parse, subscriptions | who is sent what, and in which order on a reconnect. |
| **Control loop** `main.cpp` | – | the five steps above | order within an iteration. |
| **MCP23017 expander** `mcp23017.cpp` | input and output shadows, interrupt and dirty flags | `initialize`, `refreshInputs`, `setOutputLevel`, `flushOutputs`, `onInterrupt` | interrupt between any two steps, lost edges, failed transfers.  The shadow catches up; an output is what the shadow says once flushed. |
| **Configuration parser** `config_parser.cpp` | – | parse and cross-check | what a configuration that is accepted guarantees to everything else. |
| **Binding set** `binding_set.cpp` | the bindings | `build` | every reference resolves, every gesture can be produced. |
| SD card, pins, I2C, clock | – | I/O | out of scope (section 7). |
| Room node, Modbus register map | – | a placeholder program and constants | no behaviour yet. |

`PROJECT.json` lists the same parts with their sources, and under `hazards` the
places that are hard to test, each at its line with the properties that watch it.

### 1.3 How the parts meet

```
 pins ─► GestureDetector ─► Button ─┐                     ┌─► Cover ─► two relays
 pins ─► BinarySensor ──────────────┼─► EventRouter ─► rules ─► Relay ─► lamp
 MQTT remote events ────────────────┘                     ▲       │
 MQTT commands ─► gInbound ─► CommandRouter ──────────────┴───────┤
 broker ◄─ core 1 ◄─ gOutbound ◄─ QueuePublisher ◄────────────────┘
```

Calls on core 0 are synchronous, so between two iterations the state of the
devices is consistent; concurrency lives between the cores, at the pins, in the
broker and in the *order* in which operations reach one object.

## 2. Modules

| Module | Models | Uses |
|---|---|---|
| `Motor` | abstract: what a two-winding motor must be able to rely on | – |
| `Cover` | `Cover`: every operation and every branch of `update()` | refines `Motor` |
| `Blind` | the blind under a `Cover`, as the environment | extends `Cover` |
| `CoverProofs` | theorems about `Cover`, `Blind` and `CoverSwitch` | extends `Blind`, `CoverSwitch` |
| `GestureGrammar` | abstract: what a listener of one switch may count on | – |
| `Gesture` | `GestureDetector`: both kinds, both modes | refines `GestureGrammar` |
| `GestureProofs` | theorems about `Gesture` | extends `Gesture` |
| `CoverSwitch` | `Cover` + `CoverRule` + `Button` + the loop + MQTT commands | extends `Cover`, instantiates `Gesture` |
| `Motion` | `BinarySensor`, `EventRouter`, `RemoteSourceTable`, `MotionRule`, `ToggleRule`, lights with gates | – |
| `MotionProofs` | theorems about `Motion` | extends `Motion` |
| `Session` | both queues, `core1Main` and `connectSession`, the broker, Home Assistant, the core 0 side of publishing and commands | – |
| `SessionProofs` | theorems about `Session` | extends `Session` |
| `Link` | `w5100Init`, `connectSession` and `sessionLoop` in time: socket, local port, keepalive and ping timeout, backoff; the broker's sessions, wills and the alive topic; every fault of chip, cable, broker and power | – |
| `LinkProofs` | theorems about `Link` | extends `Link` |
| `Panels` | several panels, a broker and Home Assistant: topics, subscriptions, `onMessage`, remote presses and remote motion | – |
| `PanelsProofs` | theorems about `Panels` | extends `Panels` |
| `Expander` | the MCP23017 driver, its interrupt, the bus and the loop around it, from boot on | – |
| `ExpanderProofs` | theorems about `Expander` | extends `Expander` |
| `Wiring` | what a configuration becomes: parser, secrets, devices, `BindingSet`, subscriptions, and the routing of events and remote messages | – |
| `WiringProofs` | theorems about `Wiring` | extends `Wiring` |
| `MC*` | instances for TLC | extend their module |

### 2.1 Cover and Motor

Variables carry the fields' names without the underscore.  The code stores
readings of a 32-bit clock and only uses differences, so the model stores the
differences (`sinceOff`, `sincePublish`, and `goal` for a timed run), modulo
`Word` = 2 * `HalfWord`; `Rested` keeps the signed comparison of `cover.cpp:158`.
`update()` is five actions that exclude one another: `Start` (the first call, which
anchors the clock and begins homing), `Wait`, `Resume` (the rest is over), `Travel`
and `Arrive` (a limit or the target).  Each public operation is one action.

An iteration of the loop reads the clock (`ReadClock`; time passes there and nowhere
else), hands on the MQTT commands that came in, and calls `update()` with the reading;
then the switches are heard (`main.cpp:261`, `:271`, `:284`).  `late` is the reading less
`nowMs_`.  A switch asks with `late = 0`; a command asks when the clock has been read
and `nowMs_` is still the reading of the iteration before, by which the code then
judges the rest, dates a release and times a nudge.  The time from boot to the first
update is one of `Elapsed` as well.  `Integrated`, `DownTravel` and `ScaleToPercent` are the
integer arithmetic of the code, with its truncation and the carried remainder.  Publishing is part of the action that causes it.

`Motor` has a winding, the time both have been dead, and by how much the last release
was dated early, which the rest after it may be short by.  `TheMotor` is the
refinement mapping: the winding is read off the two relay outputs ("Both" if both
are on, which `Motor` has no step to); `cooled` is the time that has really passed since
the release and `early` what a command's release was dated early, history variables
that no action reads and that do *not* wrap.  `FullRest` is the promise of the
documentation, the same `Motor` with nothing early: the code breaks it by commands
(section 5) and keeps it otherwise (section 4).

`Blind` adds what the estimate is an estimate of.  Its height has the unit
1/`TravelDown` ms, so nothing rounds on the physical side, and it starts anywhere.
The blind moves as time passes (`BlindReads`), under the relays that are on meanwhile;
`update()` charges the same time later, to the relays it finds.  Where a command has
switched a winding in between, the two differ by that iteration, once for each winding
switched, and `adrift` adds these up until estimate and blind next meet at a limit.
`DriftsOnlyByCommands` bounds `Error` by that, one full sweep of the slats in the slower
direction (`SlatSweep`) and the ms that one division can carry, however long the cover
has been asked this and that: nothing else adds up.  `MaxAdrift` bounds `adrift` for TLC.

### 2.2 Gestures and the switch of a cover

`Gesture` keeps ages instead of clock readings, counted up to the threshold they
are compared with.  `InstantUpdate`, `HeldUpdate`, `UpUpdate` and `ToggleUpdate` are
`update()` for mode instant, a momentary switch that is down, one that is up, and a
rocker.  `emitted` is the sequence of gestures of one update.  `GestureGrammar` is
the promise to listeners, with `producesGesture` (`gesture.h:68-72`) as `producible`.

In `CoverSwitch`, `Begin` reads the clock, `Command` is what MQTT may then ask (a press of
a switch on another panel among it), `Iterate` updates cover and button with that reading
in the loop's order, and `Dispatch` hands one gesture to the rule before anything else may
happen.  The detector never
looks at the cover and the rule runs after both, so one step for the two updates
loses no behaviour.

### 2.3 Motion

An iteration is `Begin`, a `Scan` of every local sensor, an `UpdateRule` of every
rule (`todo` holds who is still to be visited; sensors in any order, since they do
not interact).  `Notify` is `EventRouter::emit` together with `MotionRule::handle`
in each subscriber.  `Hears` says who a sensor reaches: every rule for a local one,
but for a remote one only the first rule that names it, since each rule interns
rows of its own and `find()` returns the first match.  `RemoteReport` is a change on
another controller, heard or lost; `Repeat` is what a reconnect brings.  `Toggle`,
`SetBinary` and `SetNightMode` share the lights.

History (`quiet`, `silent`, `stale`, `night`) exists only for the properties.  `night`
is the honest reading of "left completely alone" in `binding.h`: the lights whose
gate was open at some time since no rule that targets them was on.

### 2.4 Session

`phase` is where core 1 is: flush the queue, connect, subscribe, settle (300 ms for
the retained commands to arrive), serve, back off.  `downlink` is what the broker has
written on the connection and core 1 has not read, `link` whether the connection
still carries anything.  A publication that gets no acknowledgement is off the queue
and may or may not have arrived.  A full refresh (`publishAllStates`) is one
`RefreshStep` per topic, because core 1 drains the queue meanwhile.  The queues'
overflow branches are as in the code, and `lost`, `missed`, `unasked` remember them.

### 2.5 Link

`Session` says what becomes of values; `Link` says *when* a session is noticed dead, and
by whom.  `at` is where core 1 is, `wait` how long its present call still waits; `Request`
is any of `MQTTConnect`'s successors that send and wait for an answer.  `socket` is
`Sn_SR`, `port` is `gLocalPort`.  `sent` and `outstanding` are the Paho client's ping timer
and flag, `pending` and `age` those of `sessionLoop`, and `budget` the publishes left in
its iteration.  `stream` is what each connection has sent and the broker has not read;
`open`, `owner` and `heard` are the broker's view: which connections it holds, which of
them is our session, and how long ago it last said something.  A restarted controller
dials from the first port again while the broker may still hold the old connection.

`Tick` passes time only when core 1 has nothing to do but wait (`AtRest`).  Packets are
kinds: a command, an acknowledgement, a ping.  What `keepalive`, `cycle`, `waitfor` and
`MQTTYield` of the client library do is modelled from what `net_core.cpp` says of them
and relies on (`:22`, `:106-111`, `:236-240`, `:248-255`), the broker from MQTT's rules for
sessions and wills; both are external.  History: `upset` (this connection has met a
fault), `more` (a yield has read a packet already), `silent`, `unwilled` (a broker that
restarted may forget to announce a will).

### 2.6 Panels

A topic is the sequence of its five segments, a filter the set of topics it lets
through, in the order of `buildSubscriptions`; filters no topic of the instance matches
are left out, and the broker keeps what some panel may ask for.  Each panel has both
queues and a core 1 reduced to its session (away, subscribing filter by filter, serving);
core 0 handles the head of `gInbound`, works a toggle rule for a remote press and a motion
rule of one source and one target for a remote sensor, and answers a refresh.  On
subscription the broker sends what it has retained under the filter, in any order.
`PowerCut` is loss of power and boot.  `lost`, `missed` and `unasked` remember what a full
queue has cost, `day` the gates that have been closed at the broker since before their
panel last booted, less those of which a full `gInbound` dropped the closing while the panel
had them open.  `presses` counts the gestures made, of each that some row waits for,
and `toggles` those the rule of a row has acted on.

`RemoteTopics` and `Matched` keep some places of a sequence in their order (`Kept`).
`TablesAssumption` says that tables are sequences and that a rule works a lamp of its own
panel; `SensorsAssumption` that a row exists for both edges of a remote sensor
(`internSensor`), that its topic is the state topic of a device and no command, and that
nobody but the device's panel speaks on it; `PressesAssumption` that buttons speak on event
topics of their own panel, and that a press row waits for no topic that is retained or a
command; `GatesAssumption` that type, id and verb name a topic of a building once
(`docs/config_reference.md:146`, `:222`), that a gate is commanded under one topic, and
that a row is a press or an edge and works the state of its lamp.  The parser checks none of
the last three: a configuration that enters the state topic of a light as a button is
outside the model.

### 2.7 Expander

`step` and `turn` say where core 0 is: boot takes each chip through `Direct`, `Latch` and
`FirstRead`, an iteration is `Begin`, `Refresh` and `Read` for each chip, the devices'
`Write`s, `EndWork`, and `Flush` or `FlushFails` for each chip.  `Direct` stands for the
seven register writes before the latch, of which only the directions matter to the
model; every write is tried even when an earlier one failed, as in the code.
`PinMoves` is the environment and may happen between any two of these steps: it pulls
INT low, and if INT was high that edge either runs the interrupt handler or is lost
(a chip without a wired INT line is one whose edges are all lost).  Reading the ports
is what releases INT, also in the hardware.  `Refresh` clears the flag and `Read` comes
after it, so a pin can move in between.  Ages stand for `nowMs - lastReadMs_`.

Devices are reduced to what they may ask: anything, except that a pair in `Interlocks`
is never asked for together, which is `RelaysMatchMotion` of `Cover`.  `Energised` is the
physical side: the direction register, the latch and the polarity.

### 2.8 Wiring

`phase` follows the boot: `Header` and `Network`, one action per section of the file,
`Checks` across the sections, `Overlay` (secrets.json), `Devices`, one `Build` per binding,
`Run`; any of them may refuse the file or halt the panel.  A file is read entry by entry:
an entry is the record of the keys it has, taken from `Entries`, so TLC walks every file
that can be made of them.  A key can be absent or `Wrong` (of another type, or out of its
type's range), and `Or` is ArduinoJson's `|`, which takes the default for both.  Rooms,
names, polarities, debounce times and the texts of error messages are left out.

`router` and `table` are the subscriptions and the interned rows in their order, since the
order is what `emit` and `find` go by.  `Emit` records in `reactions` how often each rule
*handles* a signal: once per subscription to its key, if any filter of the rule matches.
What a rule then does is `Motion`'s and `CoverSwitch`'s business.

## 3. Runs

| Run | Instance and bounds | Shows |
|---|---|---|
| `cover_and_blind` | travel 5 up, 3 down (the remainder never divides out), slats 1, rest 1, step 1, homing at boot, blind anywhere; iterations of 1 or 2 ms, clock of 6, positions 0 and 100 %; `MaxAdrift` 2 | relays and target stay consistent; a run ends where it should (`ArrivesOnTarget`); once they agreed at a limit, estimate and blind come apart only by what commands cost; homing measures |
| `full_rest` | travel 4:3, slats 2, rest 2, step 1, iterations of 1 or 2 ms, clock of 8, positions 0/50/100 % | **violation**: `FullRest` |
| `gesture_grammar` | debounce 2, gap 4, hold 3, long hold 6, iterations of 1 or 2 | the grammar, no press from the position at boot, none overdue, nothing left unsaid |
| `cover_and_switch` | travel 4:3, slats 1, rest 2, step 1, iterations of 1 ms, clock of 6, positions 0/50/100 %; a bouncing switch | what the motor is given (`MotorSpec`), reports and slats in order at rest, dead-man control, the meaning of a commitment, rest once left alone or let go |
| `motion_lighting` | two rules that share a local sensor and a gated light, one of them with a remote sensor and an ungated fan; delay 3, debounce 1 | never stranded on, never off early, the day is left alone, an empty room goes dark |
| `motion_fan_out` | the shared sensor is remote | **violation**: `FanOutIsFree` |
| `session_safety` | one state topic, one gate, queues of 2, two changes, one fault | the broker is stale, or a gate deaf, only when a queue was full; refreshes come after the retained commands; the broker ends up current |
| `link_life` | keepalive 5, command timeout 2, grace of the broker 9, answers within 1, backoff 1 to 2, two local ports, two publishes per iteration; two faults, one command | a session is not given up without a fault, nor served in silence for longer than two intervals and a timeout; the alive topic is honest, and true in the end |
| `remote_events` | a panel with a button and a PIR, one with a gated light they work, commands for both topics of the light; queues of 2; two inputs, one fault | a press acts at most once; a panel's picture of a remote sensor is what the broker holds; a gate is known before the first remote motion; occupancy arrives |
| `expander_service` | two chips, a switch on one and a cover's relays on both, one of them active-low; safety period 3, iterations of 1 or 2, at most one failed read in a row, any number of failed flushes | no change forgotten, no shadow older than the safety period, the interlock across chips, outputs follow |
| `wiring_boot` | up to two expanders, actuators, buttons and bindings, a sensor, six entries in all, from 21 that are right, odd or wrong, and four logins in either file | what is accepted has a chip, a line and a name of its own for everything, covers within `Cover`'s assumption and a login MQTT can send; no binding waits for the impossible; rules react to exactly what their sources describe |
| `wiring_once` | the same | **violation**: `OncePerEvent` |

### 3.1 Why the bounds are enough

* *Times.*  What the code compares are orders of thresholds.  In every instance
  thresholds are pairwise distinct where the code allows it, an iteration can step
  exactly onto a threshold or over it, two thresholds can be crossed by one step
  (`Hold` and `HoldLong`, limit and target), and travel times have no common factor.
* *The clock* of `Cover` wraps after 6 or 8 ms, several times per run, so each comparison is
  met in both halves of its range and at the seam.  `ClockAssumption` asks what the
  real build satisfies: rest and step below 2^31 ms, and iterations short of that.
* *`MaxAdrift`* is one iteration of two ms, or two of one, charged wrongly by commands; a
  cover that has had more is outside the instance until it meets a limit.  Of a height of
  15 the error stays below 8 with nothing adrift and below 13 with one ms, which is where
  the run says something; with two it only lets the cover on to its next limit.  The
  proof covers every `adrift` and all travel times.
* *Queues of two* are full after two messages, and one fault and two changes place a
  failure between any two of core 1's steps, on either side of any message.
* *Two rules* are the fewest that share a light and a sensor; what a rule does depends
  on its own state and its lights only, and `MotionProofs` covers any number.
* *Two chips* are the fewest that can fail one without the other; the proofs cover any
  number, and any bound on failed reads.
* *Two entries* of a section are the fewest that can collide with each other or shadow
  one another, and six in all hold two bindings with their targets and sources.  Each
  check across the sections meets files that only this check refuses.
* `wiring_*` run with `CHECK_DEADLOCK FALSE`: a panel that refused its configuration stops.
* *`link_life`* keeps the order the real spans have (30 s, 5 s, 45 s of grace, answers well
  within the timeout; `SpanAssumption`), so that a deadline can be met, missed by one
  tick or overtaken by another.  Two faults are what a fault during the recovery from
  another takes; two ports make the walk meet a connection the broker still holds.
* *`remote_events`* has the fewest panels, presses and edges for a message to be replayed,
  overtaken or dropped between two of them; two inputs are a gate and a movement, or
  two edges, and one fault resets either panel or either connection at any point.
* `session_safety`, `remote_events` and `link_life` run with `CHECK_DEADLOCK FALSE`: once
  the budgets are spent and everything is delivered, an instance may have nothing left
  to do.
* `cover_and_blind` checks the type invariant `TypeOK`.  The other modules state theirs for the
  reader; those of `Gesture`, `Motion`, `Session` and `Expander` are proved.

### 3.2 Fairness

The control loop has no blocking call and a free-running clock, so an iteration
that takes time happens again and again: `WF` of a clock reading (`Begin`) that is not
the one before, of the update that is due when the clock has been read, and of handing
out the gestures the update emitted.  Within an
iteration `registry.updateAll` and `bindings.updateAll` visit everyone: `WF` of `Scan`
and `UpdateRule`.  In `Session` each core's loop goes on for ever and every call core 1
makes returns, by an answer or a timeout: `WF` of `Core0` and of `Core1`, none of the
environment.  In `Link` core 1 goes on and clocks run (`WF` of `Core1` and `Tick`), and a broker
that is up reads what reaches it and in the end closes what its clients have left (`WF` of
`Broker`); that cable and broker stay well is a premise of `AliveComesTrue`.  In `Panels`
one `WF` for all cores together is enough, since all their work comes to an end.
In `Expander` boot and loop go on (`WF` of `Boot` and of `Loop`): no bus call
blocks, it fails.  No strong fairness is used and none of what people, sensors, brokers
or networks do is assumed to happen.  Convergence is stated under the premise that
the disturbance ends (`SettlesWhenLeftAlone`, `EmptyRoomGoesDark`) or with a budget of
faults that runs out (`EventuallyCurrent`, `OccupancyArrives`), or that transfers work and devices ask nothing
new (`OutputsFollow`).

## 4. What is proved

All proofs are for every value of the constants that meets the named assumptions.

**`CoverProofs`** (`TimingAssumption`, `ClockAssumption`).

* `InvariantHolds`: `Spec => []CoverInv`.  `CoverInv` is the conjunction of `TypeOK`,
  `RelaysMatchMotion`, `RestIsKnown`, `TargetAhead`, `PackedAtTop` and `PublishedAtRest`.
  None is inductive alone: that the relays match needs the types of the directions;
  that a target is ahead needs to know which of `direction` and `pending` is being
  driven; that reports are right at rest needs that a cover at rest did not move.
  `RestIsKnown` is the strengthening that carries the motor's promise through the wrap
  of the clock and the two clock readings of an iteration: either the motor really has
  rested, or what the code will read at the update (`sinceOff + late`) is no more than the
  truth and what the release was dated early.
* `TypesHold`, `RelaysAlwaysMatch`, `TargetAlwaysAhead`, `RestIsTidy` are its parts.
* `CoverImplementsMotor`: `Spec => MotorSpec`, by a step lemma for each action: a request
  is a release, an energising after the rest, or nothing, and so is an update; the motor
  cools as the clock is read.  `Instant` is what the two sides of the clock reading have in
  common: how long ago the code takes the release to be, and by how much it may be wrong.
* `SwitchesGiveFullRest`: `Spec /\ SwitchesOnly => FullRest`.  The rest that is promised is
  given as long as nothing is asked between a clock reading and its update, so the dating
  of commands is the *only* thing that shortens it; `PairGivesFullRest` is the same
  of a cover worked by its wall switch alone.
* `RunsArriveOnTarget` (`ArrivesOnTarget`): one update moves the estimate no further than
  the time it integrates (`IntegratedMovesNoFurther`), whichever way it scales, so a run
  passes its target by less than one iteration.

The proof has one lemma per operation; `RequestMoveKeeps` does the work the seven
requests share, and `StopAtStep` that of everything that ends in `stop()`.

**`CoverProofs`, the blind** (`TimingAssumption`, `ClockAssumption`: any travel times, any slats, the
blind anywhere).

* `EstimateDriftsOnlyByCommands` (`DriftsOnlyByCommands`).  The argument weighs an angle against
  height.  Whatever one ms of a run adds to the estimate it adds to the blind, but one of
  them may be turning slats while the other already climbs; if a ms of slat is worth what
  that run covers in a ms (`TravelDown` units going up, `TravelUp` going down), height and
  angle *together* keep their distance (`Distance`).  A run at the pace of one weight moves the
  gaps at the other weights towards its own (`GapsMoveBetween`), a limit only brings the
  two closer, and packing at the top costs at most a sweep of the slats.  So the gap stays
  `Bounded` at the weights 0, `TravelDown` and `TravelUp` at once (`Near`), and that, not
  the error alone, is inductive.  What is `Near` the blind is the estimate that the coming
  update will make of the time that has passed (`Ran`, `NearWhenCharged`): as time passes both
  sides move, and the update only catches up.  A command changes what that update will
  make, by no more than the iteration at the pace of the faster direction for each winding
  it switches (`SwitchingIsNear`), which is the slack `adrift * Pace` in `Bounded`.  The remainder that `Cover` carries is part of the gap,
  which is why it does not add up.
* `HomingAlwaysMeasures` (`HomingMeasures`): while homing runs the blind is at the top or
  at least as high and as far turned as the estimate (`BlindAhead`), which began at zero, so
  the estimate cannot arrive first.

An earlier attempt at the proof corrected the property.  It used to bound the error by
`(Tilt + 1) * TravelDown`, which every checked instance satisfied; the step that packs the
slats could not be proved, and travel times of 7 up and 2 down with slats of 1, where a ms
of slat is worth more climbing than falling, violate it.

**`GestureProofs`** (`GestureAssumption`: any debounce, gap and thresholds, any pace).

* `GestureTypesHold`, `NoPressIsOverdue` (`NoPressOverdue`) and `BootNeverReportsAPress`
  (`BootReportsNoPress`), from `GestureInv`.  `HoldIsAlone` (while a hold is timed the switch
  is down and no press is being counted) is what makes the hold's branch of `update()` and
  the counting branch exclude each other; `UntouchedIsSettled` (until the pin first moves
  there is neither an edge nor a count) is what makes the position at boot harmless.
* `GestureImplementsGrammar` (`FollowsGrammar`): each of the four updates says nothing, one
  thing the grammar allows in its state, or a hold and its promotion at once.

**`CoverProofs`, the switch** (the assumptions of `Cover` only: any timing of the switch).

* `DeadManAlwaysStops` (`DeadManStops`) and `CommittedAlwaysHeadsForEnd`
  (`CommittedHeadsForEnd`), from `PairInv`: `CoverInv`, what the detector may have said
  (`SwitchInv`), and that a hold in charge of the cover is not committed and began after the
  cover's first update (`DeadManIsFree`) - the one update that may set a resting cover going
  without anyone asking.
* `PairImplementsCoverAndMotor`: `PairSpec => Spec /\ MotorSpec`.  Every step of the pair is a
  step of `Cover`, so what is proved of a cover holds of one with a switch and MQTT at it:
  also that its motor may miss the iteration a command's release was dated early.

**`MotionProofs`** (`SensorAssumption`, `RuleAssumption`, `DelayAssumption`: any sensors,
lights, rules and wiring).

* `InvariantHolds`: `Spec => []MotionInv`.  To what the runs check, `MotionInv` adds
  `CountdownIsQuiet` (what a countdown has counted, its rule has been quiet for) and
  `ClaimsAreNight` (a rule marks only lights of its own that it found at night).
* `TypesHold`, `NeverStranded` (`CountdownWhileQuiet`), `PictureIsRight`
  (`RulesSeeSensors`), and the action properties `NeverOffEarly` (`OffOnlyAfterDelay`) and
  `DayIsUntouched` (`DayIsLeftAlone`), which follow from those two additions.

The events of a pin, of a remote report and of a repeated one are one formula,
`Heard`, and the invariant is proved for it once.

**`ExpanderProofs`** (`ChipAssumption`, `PaceAssumption`: any number of chips, any pins and
interlocks on them, any safety period and pace).

* `InvariantHolds`: `Spec => []ExpanderInv`.  `IntTellsOfChanges` is the chain behind
  `NothingForgotten`: a wrong shadow holds INT low, and a low INT is flagged, excused or
  being read.  `ReadInTime` and `BehindIsCounted` carry the ages through an iteration chip
  by chip.  `CleanIsWritten` (a port that is not dirty holds its shadow) and
  `NeverAskedTogether` give the interlock.
* `TypesHold`, `NoChangeForgotten` (`NothingForgotten`), `MissedEdgesHeal` (`ShadowCatchesUp`)
  and `InterlockKept` (`InterlockHolds`) follow from it.

**`SessionProofs`** (`TopicsAssumption`, `DepthAssumption`, `BoundAssumption`: any topics, any gates among them, queues of any depth).

* `SessionTypesHold`, `StaleOnlyByLoss` (`StaleOnlyWhenLost`), `GatesFollowTheBroker`
  (`GateFollowsBroker`) and `NoGateIsDoomed` (`NoDoomedGate`).
* The heart is what the *last* entry of a queue for a topic says (`Says`), and how that
  survives an entry at the end, one taken from the front, and a full queue that refuses
  (`SaysAppend` and the lemmas next to it).
* `GateOnItsWay` strengthens `GateFollowsBroker` to what is still on the connection: on an
  intact one the broker's word is last, and once it has been read it is in `gInbound`.
* `ReplaysBeforeRefresh` carries the order that `NoDoomedGate` is about through both
  queues, phase by phase: nothing replayed is queued behind a refresh.

**`LinkProofs`** (`SpanAssumption`: any spans in which two command timeouts
fit into the keepalive interval, any burst, any number of local ports).

* `SilenceIsBounded` (`SilenceIsNoticed`): `TInv` says where each tick of silence comes
  from.  While core 1 is in a call, the silence and what is left of the wait stay below the
  bound together (`CallsAreTimed`); in the loop itself the silence is no older than the last
  thing sent, or than the interval before a ping and the time the ping has been watched
  (`LoopIsWatched`), and a yield that has nothing left to read has read something within the
  timeout.
* `AliveHasAWill` (the second half of `AliveIsHonest`): `IInv`.  A connection the broker
  knows either has the session or has its CONNECT to be read next, so whatever else the
  broker reads, an "online" in particular, comes from the owner.
* `AliveIsAlwaysHonest` (`AliveIsHonest`): `HInv` follows CONNECT, "online" and SUBSCRIBE
  through the stream, and CONNACK and SUBACK back.  The loop begins after a SUBACK; the
  broker had then read the "online" ahead of the SUBSCRIBE, acknowledged or not.

`HInv` holds only together with the other two (what core 1 has still to read has its type
in `TInv`, the owner of a packet is in `IInv`), so they are proved as one.

* `SessionsEndForAReason` (`EndsForAReason`): `LInv` adds `Fine`, which speaks of connections
  that have met no fault.  What a call of core 1 waits for was asked when its wait began
  and is still to be read, by the broker within `Prompt` or by core 1 at once
  (`AnswersComeInTime`); the same holds of a ping for as long as the flag of the watchdog has
  counted it (`PingsAreAnswered`); and the broker's clock for the session is behind core 1's
  since what was last sent, or no further ahead than the oldest packet it has still to
  read (`HeardInTime`).  The proof found what keeps a watchdog from counting a new ping on
  the count of an old one: an answer is read within `Prompt` of the ping, the yield it is
  read in ends a command timeout later, and both together are shorter than the interval
  (`LoopKeepsPace`), so the flag is cleared in between.

**`WiringProofs`** (`LoginAssumption`: credentials may have a length; `SourcesAssumption`: the
sources of a binding are an array.  Any file, any limits).

* `BootMayRelyOnIt` (`BootReliesOnIt`) and `NothingEverWaits` (`NothingWaits`), from
  `WiringInv`: what each section of the file leaves in the configuration (`AppOK`), expanders
  at different addresses (`ChipsDiffer`), what the checks across the sections have settled by
  the time they are over (`Checked`), a registry of what the configuration names
  (`RegistryOK`), and rules built from bindings that were checked (`RulesOK`).  There is one
  lemma per section.
* `RulesReactToTheirSources` (`ReactsToItsSources`), from `RoutingInv`: a rule has a filter for
  each source of its binding, in their order, and the router a subscription for each filter
  (`FiltersOK`, `RouterOK`).  Whoever listens for a remote payload has the index of the first
  row with that topic and payload, and no row is without a listener (`Serves`); a topic with
  a motion rule on it is exempt, as in the property.  `Attached` adds a binding's sources one
  after the other, and `AttachedServes` is the induction over them: the least source at
  which the claim fails would follow one at which it holds.

**`PanelsProofs`** (`TablesAssumption`, `SensorsAssumption`, with `PressesAssumption` for the
presses and `GatesAssumption` for the gates: any panels, rules and topics, queues of any depth, any number of inputs and faults).

* `PicturesFollowTheBroker` (`PictureFollowsBroker`), from `PanelsInv`
  (`PanelsInvariantHolds`).  Its parts are the types, in which of a sensor only its states
  travel (`Sent`); `OnItsWay`: to a panel that has asked for a sensor the broker has sent
  last what it retains, and once that has been read it is last in `gInbound`, or what the
  panel heard last; and `Unheard`: nobody has heard anything of a sensor that has never
  reported, so that "not retained" and "off" agree.
* Whether a panel has asked goes by its filters.  `FiltersAre` says of any rows that a sensor
  is asked for by a filter of its own and by no wildcard, from `KeptIs` and `RanksCount`: the
  places that are kept are as many as the result is long, each in its turn.  The SUBSCRIBE
  that asks is also the one that has the retained state sent.
* `LastHasTheWord` turns what is said of the last entry of a queue (`Says`) into what the
  property looks up with `Max`.
* `PressesActOnce` (`PressActsAtMostOnce`), from `PressInv`.  For each row it keeps an
  account (`Settled`): what its rule has acted on, its entries in `gInbound`, the messages
  on its panel's connection and those in the `gOutbound` of the button's panel are together no
  more than the gestures made.  The messages of an event topic are never retained and come from one
  panel only (`Ours`), so that a subscription replays none and the broker sends each at
  most once to a panel (`AcceptCounts`), however many of its filters overlap.
  The property is stated per row: counted over an instance it would hold only
  where one rule listens to a press.
* `DayIsAlwaysKnownFirst` (`DayIsKnownFirst`), from `DayInv`.  Of a gate on `day` the broker
  retains the closing and nothing on its way would open it (`Shut`).  The panel has it closed,
  or a closing is in `gInbound` ahead of every edge there, or `gInbound` holds no edge and a
  closing comes before every edge on the connection (`ClosingComes`).  The
  step that asks for a sensor keeps this because the gate's command has been asked for by an
  earlier filter (`GateIsAskedFirst`), and every other step because the queues keep their
  order (`CarriesAppend`, `CarriesTail`, `CarriesBehind`).
  The property used to exempt the panels whose last message for the gate was dropped
  (`missed`).  The proof failed there: a closing is dropped, another one clears `missed` as it
  enters `gInbound`, and an edge ahead of it is handled first.  TLC shows it with one
  input and one fault more than `remote_events` has.  A dropped closing now takes the gate
  off `day` until the panel boots again.

**Only model-checked.**  Every liveness property: fairness and `ENABLED` are out of the
prover's reach.

Where an argument goes along a sequence (`Attached`, `Kept`, the last entry of a
queue) it is made with sets: the claim fails at a least place or holds at a greatest one
(`LeastOf`, `GreatestOf` in `PanelsProofs`), which needs well-ordering only.  The library's induction theorems,
which take an operator, are not used.

## 5. Findings

Each is shown by a run that violates what the repository says of itself.

1. **A second motion rule never hears a shared remote sensor** (`motion_fan_out`).  Each
   rule interns rows of its own and `find()` returns the first that matches.
2. **A binding hears one event several times** (`wiring_once`).  A binding subscribes once
   for each source, and `emit` calls it once for each subscription to the key.  A toggle
   binding on press_1 and press_2 of the same button, or with a source listed twice,
   toggles twice on every press and so changes nothing; `binding.cpp:17` means to prevent
   this, but looks only at the filters within one call.
3. **A command dates a release an iteration early** (`full_rest`).  The loop reads the clock,
   handles the commands, and only then calls `update()`, so `nowMs_`, by which
   `releaseRelays` dates the release (`cover.cpp:155`), is still the previous iteration's
   reading.  After a stop or a reversal by MQTT the motor rests that much less than
   `motor_rest_ms`, which is "measured from the moment the relays actually released"
   (`docs/config_reference.md:208`; `cover.cpp:153` says the same).  The loop does not block, so
   iterations are short beside the rest; if one took as long as the rest, none
   of it would be left.  The estimate pays for the same cause: the update charges the
   iteration before a command to the relays the command left (`cover.cpp:72`, `:84`), so that
   a run begun by MQTT is charged an iteration it did not run, and one stopped by MQTT is
   not charged its last.  This adds up from command to command until the cover is next
   at a limit; `DriftsOnlyByCommands` says that it is all that does.

### 5.1 Noticed while modelling

Modelled as the code has them; no property is stated, because no document promises
otherwise clearly enough, or the effect is small.

* `prime()` adopts the position of a switch at boot but leaves `pressStartMs_` at 0: a
  momentary switch that is held then is reported as a hold and a long hold by the first
  update, and a cover on it commits itself to an end (`gesture_detector.cpp:45`, `:87`;
  `gesture.h:109` says "without reporting it").  `BootReportsNoPress` excludes presses only.
* `publishAllStates` pushes without waiting, and core 1 needs a round trip per message: a
  panel with more retained topics than `kOutboundDepth` loses the rest of its refresh, and
  nothing sends it again (`net_core.cpp:31`, `:57`).  `StaleOnlyWhenLost`, `EventuallyCurrent`
  and `OccupancyArrives` exempt what a full queue has cost.
* A command that begins to arrive in the last instant of a yield opened by an earlier
  packet is not acknowledged and drops the session (`net_core.cpp:248-259` narrows this
  window, it does not close it).  `EndsForAReason` exempts it.
* A controller that restarts begins its walk of local ports at the same port
  (`mqtt_port.cpp:31`) and may meet a connection the broker still holds; the attempt fails
  and the next port is tried.
* A topic longer than its buffer is counted as dropped by a publisher
  (`publisher.cpp:26-29`), but the alive and error topics are built without looking
  (`net_core.cpp:332-337`) and would be cut.
* A remote sensor whose controller dies while it reports motion stays active for the
  panels that listen to it: its light stays on until the controller is back.
* A broker that restarts and keeps a retained "online" of a panel it no longer knows has
  nobody to announce that panel's death (`unwilled`).
* A malformed address of broker or panel in the configuration is not refused: core 1
  retries for ever.
* `rested()` compares the elapsed time as `int32_t` (`cover.cpp:158`): between 2^31 and 2^32
  ms after the last release it reads as negative, and a request to a cover that has
  been still for weeks waits a fresh rest.
* `stop()` on a cover at rest dates the rest anew (`cover.cpp:153-154`, `:200`).
* A nudge asked for during the rest is shortened by what is left of it, because its
  end is dated when it is asked for (`cover.cpp:228`).
* A reversal in the iteration that reaches the top, before the cover's own stop, leaves
  a slat angle in the estimate that the blind does not have (`cover.h:19-23`).
* A run that ends at a limit after a wrong assumption at boot does not correct the
  estimate; only homing does.
* A second press made while the first is still being counted, but debounced after the
  window has passed, starts a count of its own (`gesture_detector.cpp:98-101`).
* A hold that reaches a limit before it becomes long is turned round by that limit, and
  the long hold then commits the cover the other way (`binding.cpp:114`); to
  `CommittedHeadsForEnd` that is a commitment like any other.
* The settling time before a refresh is fixed at 300 ms (`net_core.cpp:214-224`); a broker
  slower than that lets a gate be advertised that a retained command is about to
  change.  `NoDoomedGate` therefore exempts the sessions recorded in `hurried`.
* Two motion rules that share a light do not arbitrate: the first to end switches it off.
* A repeated "inactive" of a remote sensor disarms the countdown and so restarts it.
* A light that was on already, when a rule claims it, is switched off by that rule.
* An expander's directions are written before its latch (`mcp23017.cpp:40`, `:48`).  After a
  power cut the latch is clear, so an active-low output is energised between the two
  writes, and for ever if boot fails between them; the driver of local pins takes care
  to write the level first (`pico_pins.cpp:12`).
* A cover whose relays sit on two expanders can have both windings energised while the
  flush that drops one keeps failing and the other's works: the rest that `Cover` takes
  is a rest of the shadows.  `InterlockHolds` says exactly when.
* A read that fails is not tried again in the next iteration but after a whole safety
  period, since flag and clock are reset before it (`mcp23017.cpp:65-67`).
* An expander number below -1 means the controller to `checkPin` and `makeOutput`, as -1
  does, but is another line to `claimPin` (`config_parser.cpp:539`): with it one GPIO
  can be claimed twice.  `LinesAreOwned` therefore speaks of numbers from -1 up.
* A key of the wrong type is its default, not an error: an expander index that is a text
  is index 0, a pin number out of range is pin 0.
* An address given as text is cut to eight bits before it is checked
  (`config_parser.cpp:63`): "0x120" is accepted as 0x20.
* Of switches that share an id only the first is asked whether it can produce a gesture
  (`binding_set.cpp:49-54`); a group of a rocker and a pushbutton is accepted or refused by
  their order in the file.
* A toggle or cover rule that names topic and payload of an earlier motion rule shares its
  row, and so hears both edges of the sensor (`remote_sources.cpp:17-20`); a later motion
  rule on the same topic and payloads hears nothing.  `ReactsToItsSources` exempts
  topics a motion rule shares.
* A target listed twice in a toggle rule is toggled twice.

## 6. Plan

Order of work, most important behaviour first.  All of it is done.

1. `Motor`, `Cover`, `CoverProofs` – 2. `Blind` – 3. `GestureGrammar`, `Gesture` –
4. `CoverSwitch` – 5. `Session` – 6. `Motion`, `MotionProofs` –
7. `Expander`, `ExpanderProofs` – 8. `Wiring`.
9. `Link`, `LinkProofs` – `Panels`.
10. `GestureProofs`, `SessionProofs`, `Blind` and `CoverSwitch` in `CoverProofs`.
11. `EndsForAReason`, in `LinkProofs`.
12. `BootReliesOnIt`, `NothingWaits` and `ReactsToItsSources`, in `WiringProofs`.
13. `PictureFollowsBroker` and `PressActsAtMostOnce`, in `PanelsProofs`.
14. `DayIsKnownFirst`, in `PanelsProofs`.

## 7. Not modelled

* **Formatting and parsing** of payloads and JSON, and the characters of topics: a topic is
  a sequence of segments, a percentage a number the parser would accept.  `publishState` also omits the tilt topic
  of a cover without slats, which no property depends on.
* **Below a packet**: packets split over reads, a stream that loses its framing, packet
  identifiers of acknowledgements, TIME_WAIT.  The error topic is a request like another
  in `Link`; what it says is left out.
* **Drivers**: SD card, SPI, the W5100's registers, GPIO and I2C registers.
* **Room node and Modbus register map**: a stub and constants.
* **The bound of 8 inbound messages per iteration**: the models allow any number of
  operations between two updates, which includes it.
