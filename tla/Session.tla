------------------------------ MODULE Session ------------------------------
(* The retained topics of one controller, kept true across an unreliable       *)
(* broker by two cores that share two bounded queues.                          *)
(*                                                                             *)
(* Core 0 owns the devices: it publishes through QueuePublisher into gOutbound *)
(* and acts on what it pops from gInbound (CommandRouter).  Core 1 owns the    *)
(* socket: core1Main() flushes gOutbound, connects, subscribes, lets the       *)
(* retained commands land, asks core 0 for every state, and then serves both   *)
(* directions until the session dies.                                          *)
(*                                                                             *)
(* A topic is a light's retained `state` or `night_mode` topic; its value is   *)
(* BOOLEAN.  QoS, keepalive arithmetic, the alive and error topics and the     *)
(* length of the backoff are abstracted to "the session may be lost".          *)
EXTENDS Naturals, Sequences, FiniteSets

CONSTANTS
    States,       \* `state` topics: changed by switches on core 0 and by set_binary
    Gates,        \* `night_mode` topics: changed only by set_night_mode
    OutDepth,     \* kOutboundDepth
    InDepth,      \* kInboundDepth
    MaxChanges,   \* bound: switch presses plus commands from Home Assistant
    MaxFaults     \* bound: refusals, lost links and publishes left unanswered

Topics == States \cup Gates

ASSUME TopicsAssumption == IsFiniteSet(Topics) /\ States \cap Gates = {}
ASSUME DepthAssumption == OutDepth \in Nat \ {0} /\ InDepth \in Nat \ {0}
ASSUME BoundAssumption == MaxChanges \in Nat /\ MaxFaults \in Nat

VARIABLES
    value,        \* core 0: what each device's topic should say
    todo,         \* core 0: topics a running publishAllStates() has still to send
    inq,          \* gInbound
    outq,         \* gOutbound
    phase,        \* core 1: where core1Main() is
    link,         \* the TCP connection still carries bytes to the broker
    downlink,     \* commands the broker has sent on the session, not yet read
    retained,     \* broker: the retained value of each of our topics
    wanted,       \* broker: the retained set_night_mode command of each gate
    changes, faults,   \* what is left of the two bounds
    \* History, read by no action:
    lost,         \* topics whose newest publication was dropped by a full gOutbound
    missed,       \* gates whose newest command was dropped by a full gInbound
    unasked,      \* the newest refresh request was dropped by a full gInbound
    hurried       \* this session began before core 0 had caught up with the last
                  \* one, or was served before every retained command had landed

core0 == <<value, todo>>
broker == <<retained, wanted>>
history == <<lost, missed, unasked, hurried>>
vars == <<value, todo, inq, outq, phase, link, downlink, retained, wanted,
          changes, faults, history>>

Refresh == [kind |-> "refresh"]
Command(t, v) == [kind |-> "command", topic |-> t, value |-> v, replay |-> FALSE]
Replayed(g) == [Command(g, wanted[g]) EXCEPT !.replay = TRUE]
Commands == [kind : {"command"}, topic : Topics, value : BOOLEAN, replay : BOOLEAN]
Messages == [topic : Topics, value : BOOLEAN]
Phases == {"flush", "connect", "subscribe", "settle", "serve", "backoff"}

Contents(q) == {q[i] : i \in 1..Len(q)}

(* An entry of a queue that is about a topic; a refresh is about none. *)
Concerns(m, t) == m # Refresh /\ m.topic = t

(* What the last entry of queue q about t says; `otherwise` when it has none. *)
Says(q, t, otherwise, v) ==
    \/ \E i \in 1..Len(q) : /\ Concerns(q[i], t) /\ q[i].value = v
                            /\ \A j \in i + 1..Len(q) : ~Concerns(q[j], t)
    \/ (\A i \in 1..Len(q) : ~Concerns(q[i], t)) /\ otherwise = v

SessionInit ==
    /\ value = [t \in Topics |-> t \in Gates]   \* lights off, nightMode_ = true
    /\ todo = {} /\ inq = <<>> /\ outq = <<>>
    /\ phase = "flush" /\ link = FALSE /\ downlink = <<>>
    /\ retained \in [Topics -> BOOLEAN]         \* left by whatever ran before
    /\ wanted \in [Gates -> BOOLEAN]
    /\ changes = MaxChanges /\ faults = MaxFaults
    /\ lost = {} /\ missed = {} /\ unasked = FALSE /\ hurried = FALSE

Change == changes > 0 /\ changes' = changes - 1
Fault == faults > 0 /\ faults' = faults - 1

-----------------------------------------------------------------------------
(* Core 0. *)

(* QueuePublisher::publish: push, or count the message as dropped. *)
Announce(t, v) ==
    IF Len(outq) < OutDepth
    THEN outq' = Append(outq, [topic |-> t, value |-> v]) /\ lost' = lost \ {t}
    ELSE outq' = outq /\ lost' = lost \cup {t}

(* Relay::setBinary and setNightMode: nothing moved, nothing to announce. *)
SetValue(t, v) ==
    IF value[t] = v THEN UNCHANGED <<value, outq, lost>>
    ELSE value' = [value EXCEPT ![t] = v] /\ Announce(t, v)

(* A wall switch, or a rule, works a light. *)
LocalChange(t) ==
    /\ todo = {} /\ Change
    /\ SetValue(t, ~value[t])
    /\ UNCHANGED <<todo, inq, phase, link, downlink, broker, faults, missed, unasked, hurried>>

(* CommandRouter::handle on the next inbound message. *)
HandleInbound ==
    /\ todo = {} /\ inq # <<>> /\ inq' = Tail(inq)
    /\ \/ /\ Head(inq) = Refresh
          /\ todo' = Topics /\ UNCHANGED <<value, outq, lost>>
       \/ /\ Head(inq) # Refresh
          /\ SetValue(Head(inq).topic, Head(inq).value) /\ UNCHANGED todo
    /\ UNCHANGED <<phase, link, downlink, broker, changes, faults, missed, unasked, hurried>>

(* One publish() of publishAllStates(); core 1 may drain the queue in between. *)
RefreshStep(t) ==
    /\ t \in todo /\ todo' = todo \ {t}
    /\ Announce(t, value[t])
    /\ UNCHANGED <<value, inq, phase, link, downlink, broker, changes, faults, missed, unasked, hurried>>

-----------------------------------------------------------------------------
(* Core 1. *)

Flush ==
    /\ phase = "flush" /\ phase' = "connect" /\ outq' = <<>>
    /\ UNCHANGED <<core0, inq, link, downlink, broker, changes, faults, history>>

(* Clean session: the broker keeps nothing from the last one. *)
Connect ==
    /\ phase = "connect"
    /\ \/ phase' = "subscribe" /\ link' = TRUE /\ UNCHANGED faults
       \/ phase' = "backoff" /\ link' = FALSE /\ Fault
    /\ downlink' = <<>>
    /\ UNCHANGED <<core0, inq, outq, broker, changes, history>>

(* Mutant: ask for the states before the retained commands have landed. *)
SubscribeAsksForStates ==
    /\ phase = "subscribe" /\ link /\ phase' = "settle"
    /\ \E order \in [1..Cardinality(Gates) -> Gates] :
          /\ Gates = {order[i] : i \in 1..Cardinality(Gates)}
          /\ downlink' = downlink \o [i \in 1..Cardinality(Gates) |-> Replayed(order[i])]
    /\ inq' = IF Len(inq) < InDepth THEN Append(inq, Refresh) ELSE inq
    /\ UNCHANGED <<core0, outq, link, broker, changes, faults, history>>

(* The broker answers a subscription with the retained commands it matches. *)
Subscribe ==
    /\ phase = "subscribe" /\ link /\ phase' = "settle"
    /\ \E order \in [1..Cardinality(Gates) -> Gates] :
          /\ Gates = {order[i] : i \in 1..Cardinality(Gates)}
          /\ downlink' = downlink \o [i \in 1..Cardinality(Gates) |-> Replayed(order[i])]
    /\ UNCHANGED <<core0, inq, outq, link, broker, changes, faults, history>>

SubscribeFails ==
    /\ phase = "subscribe" /\ phase' = "backoff" /\ link' = FALSE
    /\ IF link THEN Fault ELSE UNCHANGED faults
    /\ UNCHANGED <<core0, inq, outq, downlink, broker, changes, history>>

(* Mutant: take a retained message for an echo of the past and ignore it. *)
ReceiveIgnoresRetained ==
    /\ phase \in {"settle", "serve"} /\ downlink # <<>> /\ downlink' = Tail(downlink)
    /\ LET c == Head(downlink) IN
          IF c.replay THEN UNCHANGED <<inq, missed>>
          ELSE IF Len(inq) < InDepth
          THEN inq' = Append(inq, c) /\ missed' = missed \ {c.topic}
          ELSE inq' = inq /\ missed' = missed \cup {c.topic}
    /\ UNCHANGED <<core0, outq, phase, link, broker, changes, faults, lost, unasked, hurried>>

(* onMessage: hand the command to core 0, or lose it without a word. *)
Receive ==
    /\ phase \in {"settle", "serve"} /\ downlink # <<>> /\ downlink' = Tail(downlink)
    /\ LET c == Head(downlink) IN
          IF Len(inq) < InDepth
          THEN inq' = Append(inq, c) /\ missed' = missed \ {c.topic}
          ELSE inq' = inq /\ missed' = missed \cup {c.topic}
    /\ UNCHANGED <<core0, outq, phase, link, broker, changes, faults, lost, unasked, hurried>>

(* Mutant: trust the broker to hold what the last session published. *)
EndSettleWithoutRefresh ==
    /\ phase = "settle" /\ phase' = "serve"
    /\ UNCHANGED <<core0, inq, outq, link, downlink, broker, changes, faults, history>>

(* The 300 ms are over: ask core 0 for its states and start to serve. *)
EndSettle ==
    /\ phase = "settle" /\ phase' = "serve"
    /\ hurried' = (hurried \/ \E c \in Contents(downlink) : c.replay)
    /\ IF Len(inq) < InDepth THEN inq' = Append(inq, Refresh) /\ unasked' = FALSE
                             ELSE inq' = inq /\ unasked' = TRUE
    /\ UNCHANGED <<core0, outq, link, downlink, broker, changes, faults, lost, missed>>

(* publishNow() succeeds: the broker holds the value and has acknowledged it. *)
Publish ==
    /\ phase = "serve" /\ link /\ outq # <<>> /\ outq' = Tail(outq)
    /\ retained' = [retained EXCEPT ![Head(outq).topic] = Head(outq).value]
    /\ UNCHANGED <<core0, inq, phase, link, downlink, wanted, changes, faults, history>>

(* Mutant: a publish without an answer does not end the session. *)
PublishFailsAndGoesOn ==
    /\ phase = "serve" /\ outq # <<>> /\ outq' = Tail(outq)
    /\ \/ link /\ retained' = [retained EXCEPT ![Head(outq).topic] = Head(outq).value]
       \/ UNCHANGED retained
    /\ IF link THEN Fault ELSE UNCHANGED faults
    /\ UNCHANGED <<core0, inq, phase, link, downlink, wanted, changes, history>>

(* No acknowledgement: the message is off the queue, and may have arrived. *)
PublishFails ==
    /\ phase = "serve" /\ outq # <<>> /\ outq' = Tail(outq)
    /\ \/ link /\ retained' = [retained EXCEPT ![Head(outq).topic] = Head(outq).value]
       \/ UNCHANGED retained
    /\ IF link THEN Fault ELSE UNCHANGED faults
    /\ phase' = "backoff" /\ link' = FALSE
    /\ UNCHANGED <<core0, inq, downlink, wanted, changes, history>>

(* The socket left ESTABLISHED, a read failed or a ping went unanswered. *)
NoticeDeath ==
    /\ phase = "serve" /\ ~link /\ phase' = "backoff"
    /\ UNCHANGED <<core0, inq, outq, link, downlink, broker, changes, faults, history>>

Backoff ==
    /\ phase = "backoff" /\ phase' = "flush"
    /\ hurried' = (inq # <<>> \/ todo # {})
    /\ UNCHANGED <<core0, inq, outq, link, downlink, broker, changes, faults, lost, missed, unasked>>

-----------------------------------------------------------------------------
(* The world outside. *)

(* The broker or the cable goes; what had reached the socket can still be read. *)
LinkBreaks ==
    /\ link /\ link' = FALSE /\ Fault
    /\ \E n \in 0..Len(downlink) : downlink' = SubSeq(downlink, 1, n)
    /\ UNCHANGED <<core0, inq, outq, phase, broker, changes, history>>

(* Home Assistant commands a light; a gate command is retained by the broker.   *)
(* It is passed on only to a session that has subscribed.                       *)
HaCommand(t, v) ==
    /\ Change
    /\ wanted' = [g \in Gates |-> IF g = t THEN v ELSE wanted[g]]
    /\ downlink' = IF phase \in {"settle", "serve"} /\ link
                   THEN Append(downlink, Command(t, v)) ELSE downlink
    /\ UNCHANGED <<core0, inq, outq, phase, link, retained, faults, history>>

Core0 == HandleInbound \/ (\E t \in Topics : RefreshStep(t))
Core1 == \/ Flush \/ Connect \/ Subscribe \/ SubscribeFails \/ Receive \/ EndSettle
         \/ Publish \/ PublishFails \/ NoticeDeath \/ Backoff
World == \/ \E t \in States : LocalChange(t)
         \/ LinkBreaks
         \/ \E t \in Topics, v \in BOOLEAN : HaCommand(t, v)

Next == Core0 \/ Core1 \/ World
Spec == SessionInit /\ [][Next]_vars

(* Both cores loop for ever, and every call core 1 makes returns, by an answer  *)
(* or by a timeout.                                                             *)
FairSpec == Spec /\ WF_vars(Core0) /\ WF_vars(Core1)

-----------------------------------------------------------------------------
SessionTypeOK ==
    /\ value \in [Topics -> BOOLEAN] /\ todo \in SUBSET Topics
    /\ inq \in Seq(Commands \cup {Refresh}) /\ Len(inq) <= InDepth
    /\ outq \in Seq(Messages) /\ Len(outq) <= OutDepth
    /\ phase \in Phases /\ link \in BOOLEAN
    /\ downlink \in Seq(Commands)
    /\ retained \in [Topics -> BOOLEAN] /\ wanted \in [Gates -> BOOLEAN]
    /\ changes \in 0..MaxChanges /\ faults \in 0..MaxFaults
    /\ lost \in SUBSET Topics /\ missed \in SUBSET Topics /\ unasked \in BOOLEAN
    /\ hurried \in BOOLEAN

AskedFor(t) == t \in todo \/ Refresh \in Contents(inq)

(* While a session is served, what the broker holds for a topic, or will hold   *)
(* once gOutbound is sent, is the device's value, unless a refresh is still to  *)
(* come or gOutbound or gInbound was full.                                      *)
StaleOnlyWhenLost ==
    phase = "serve" => \A t \in Topics :
        \/ Says(outq, t, retained[t], value[t])
        \/ AskedFor(t) \/ t \in lost \/ unasked

(* From the subscription on, the commands under way bring each gate to what     *)
(* Home Assistant last retained for it, unless gInbound was full.               *)
GateFollowsBroker ==
    phase \in {"settle", "serve"} /\ link => \A g \in Gates :
        Says(inq \o downlink, g, value[g], wanted[g]) \/ g \in missed

(* Unless core 0 was a whole backoff behind, or the retained commands needed    *)
(* more than the 300 ms they are given, a refresh never advertises a gate that  *)
(* one of them is about to change (net_core.cpp:214-216).                       *)
NoDoomedGate ==
    ~hurried => \A g \in todo \cap Gates : \A c \in Contents(inq \o downlink) :
        ~(Concerns(c, g) /\ c.replay /\ c.value # value[g])

(* When faults and changes end, the broker ends up holding every value that no  *)
(* full queue has cost it.                                                      *)
EventuallyCurrent ==
    <>[](\/ unasked
         \/ \A t \in Topics \ lost : retained[t] = value[t])

=============================================================================
