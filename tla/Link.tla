-------------------------------- MODULE Link --------------------------------
(* One panel's connection to the broker, in time: from the reset of the W5100  *)
(* to the session and back, as core 1 drives it (core1Main, connectSession,    *)
(* sessionLoop), over the socket of mqtt_port.cpp and the Paho client.         *)
(*                                                                             *)
(* A tick is the unit of every span.  Core 1's loops take microseconds, so     *)
(* Tick waits until it has nothing left to do but wait.  What the packets say  *)
(* is Session's business; here they are kinds.  The client library, the chip   *)
(* and the broker are not part of the repository: they do what net_core.cpp    *)
(* and mqtt_port.cpp say of them and rely on.                                  *)
EXTENDS Naturals, Sequences, FiniteSets

CONSTANTS
    KeepAlive,    \* keepAliveInterval: the client pings after so long without sending
    Timeout,      \* command_timeout_ms
    Grace,        \* the broker drops a client it has not heard for so long
    Prompt,       \* bound: a healthy broker answers within so long
    InitRetry,    \* pause after a failed w5100Init()
    BackoffFirst, BackoffCap,   \* backoffMs starts at the one, doubles below the other
    Burst,        \* publishes per iteration of sessionLoop()
    LastPort,     \* gLocalPort walks 0..LastPort (20000..65535)
    MaxFaults,    \* bound: faults of chip, cable, broker and power
    MaxCommands   \* bound: commands the broker sends

ASSUME SpanAssumption ==
    /\ {KeepAlive, Timeout, Grace, Prompt, InitRetry, BackoffFirst, BackoffCap, Burst,
        LastPort} \subseteq Nat \ {0}
    /\ Prompt < Timeout /\ 2 * Timeout < KeepAlive /\ KeepAlive + Timeout + Prompt < Grace
ASSUME BudgetAssumption == MaxFaults \in Nat /\ MaxCommands \in Nat

VARIABLES
    at, wait,     \* where core 1 is, and how long its present call still waits
    backoff,      \* backoffMs
    socket, port, \* Sn_SR of the MQTT socket, and gLocalPort
    sent,         \* Paho: time since anything was sent (ping_timer)
    outstanding,  \* Paho: ping_outstanding
    pending, age, \* pingPending, and now - pingSeenMs
    budget,       \* what is left of Burst in this iteration
    stream,       \* per local port: what was sent and the broker has not read
    down,         \* what the broker sent and core 1 has not read
    open,         \* ports of the connections the broker's host still holds
    owner,        \* the one of them that holds our MQTT session, if any
    heard,        \* how long ago the broker last heard the owner
    broker, wire, \* "well" or "frozen"; the cable carries packets
    alive,        \* the retained alive topic
    faults, commands,   \* what is left of the two bounds
    \* History, read by no action:
    upset,        \* this connection has met a fault, its own or an older one's
    more,         \* this yield has read a packet already
    silent,       \* how long core 1 has served the session without reading a packet
    unwilled      \* the broker lost a session without announcing its will

core1 == <<at, wait, backoff, port>>
client == <<sent, outstanding, pending, age, budget>>
host == <<stream, open, owner, heard>>
world == <<broker, wire, faults, commands>>
history == <<upset, more, silent, unwilled>>
vars == <<core1, socket, client, down, host, world, alive, history>>

Ports == 0..LastPort
None == LastPort + 1
Awaiting == {"connack", "alive", "error", "subscribe", "publish"}
Served == {"poll", "yield", "watch", "publish"}
Connected == Awaiting \cup Served \cup {"settle"}
Requests == {"CONNECT", "ONLINE", "ERROR", "SUBSCRIBE", "PUBLISH", "PINGREQ", "PUBACK", "FIN"}
Replies == {"CONNACK", "REFUSED", "PUBACK", "SUBACK", "PINGRESP", "PUBLISH"}

Upto(n, bound) == IF n < bound THEN n ELSE bound
Fault == faults > 0 /\ faults' = faults - 1
Established == socket = "established"
Has(s, kind) == \E i \in DOMAIN s : s[i].kind = kind

LinkInit ==
    /\ at = "init" /\ wait = 0 /\ backoff = BackoffFirst
    /\ socket = "closed" /\ port = 0
    /\ sent = 0 /\ outstanding = FALSE /\ pending = FALSE /\ age = 0 /\ budget = 0
    /\ stream = [p \in Ports |-> <<>>] /\ down = <<>>
    /\ open = {} /\ owner = None /\ heard = 0
    /\ broker = "well" /\ wire = TRUE /\ alive = "offline"
    /\ faults = MaxFaults /\ commands = MaxCommands
    /\ upset = FALSE /\ more = FALSE /\ silent = 0 /\ unwilled = FALSE

-----------------------------------------------------------------------------
(* The socket: mqtt_port.cpp. *)

Packet(kind) == [kind |-> kind, age |-> 0]

(* w5x00_write: only ESTABLISHED sends.  A host that no longer knows the       *)
(* connection resets it.                                                       *)
Write(kind) ==
    /\ Established
    /\ stream' = IF port \in open THEN [stream EXCEPT ![port] = Append(@, Packet(kind))] ELSE stream
    /\ socket' = IF port \in open \/ ~wire THEN socket ELSE "closed"

(* w5x00_disconnect: FIN and close; without a cable the broker hears nothing,  *)
(* and perhaps not all of what was sent before.                                *)
Hangup ==
    /\ socket' = "closed" /\ down' = <<>>
    /\ IF port \notin open THEN UNCHANGED stream
       ELSE IF wire /\ Established
       THEN stream' = [stream EXCEPT ![port] = Append(@, Packet("FIN"))]
       ELSE \E n \in 0..Len(stream[port]) :
               stream' = [stream EXCEPT ![port] = SubSeq(@, 1, n)]

(* ConnectNetwork: the next local port, and a SYN from it. *)
NextPort == IF port = LastPort THEN 0 ELSE port + 1

-----------------------------------------------------------------------------
(* Core 1: w5100Init and core1Main. *)

InitWorks ==
    /\ at = "init" /\ wait = 0 /\ at' = "dial"
    /\ UNCHANGED <<wait, backoff, socket, port, client, down, host, world, alive, history>>

(* No chip on the bus, or one that does not read back its address. *)
InitFails ==
    /\ at = "init" /\ wait = 0 /\ wait' = InitRetry /\ Fault
    /\ UNCHANGED <<at, backoff, socket, port, client, down, host, broker, wire, commands, alive, history>>

Sleep == at' = "backoff" /\ wait' = backoff

(* connectSession up to MQTTConnect: a fresh client, the next local port, a     *)
(* CONNECT that carries the will, and the command timeout for its answer.  A    *)
(* port the broker's host still knows is reset, and the attempt fails.          *)
Dial ==
    /\ at = "dial" /\ port' = NextPort
    /\ IF wire /\ port' \notin open
       THEN /\ at' = "connack" /\ wait' = Timeout /\ socket' = "established"
            /\ open' = open \cup {port'}
            /\ stream' = [stream EXCEPT ![port'] = <<Packet("CONNECT")>>]
            /\ sent' = 0 /\ outstanding' = FALSE
            /\ upset' = (broker # "well" \/ \E p \in open : Has(stream[p], "CONNECT"))
       ELSE /\ Sleep /\ UNCHANGED <<socket, sent, outstanding, open, upset>>
            /\ stream' = IF wire THEN [stream EXCEPT ![port'] = <<Packet("FIN")>>] ELSE stream
    /\ UNCHANGED <<backoff, pending, age, budget, down, owner, heard, world, alive,
                   more, silent, unwilled>>

Wake ==
    /\ at = "backoff" /\ wait = 0 /\ at' = "dial"
    /\ backoff' = IF backoff < BackoffCap THEN 2 * backoff ELSE backoff
    /\ UNCHANGED <<wait, socket, port, client, down, host, world, alive, history>>

(* What ends a connection, or an attempt at one: disconnect, then sleep. *)
EndSession ==
    /\ Sleep /\ Hangup /\ silent' = 0 /\ more' = FALSE
    /\ UNCHANGED <<backoff, port, client, open, owner, heard, world, alive, unwilled>>

-----------------------------------------------------------------------------
(* Core 1: connectSession from the CONNACK on. *)

(* Send the next request and wait for its answer.  On a dead socket every       *)
(* request fails at once, the last of them with it the attempt.                 *)
Request(kind, place) ==
    IF Established
    THEN /\ Write(kind) /\ sent' = 0
         /\ at' = place /\ wait' = Timeout
         /\ UNCHANGED <<backoff, port, outstanding, pending, age, open, owner, heard,
                        world, alive, history>>
    ELSE EndSession /\ UNCHANGED upset

Readable == socket \in {"established", "closewait"} /\ down # <<>>
Reads(kind) == Readable /\ Head(down) = kind
Expired == wait = 0

(* Mutant: the broker has the alive topic from the last session. *)
AnnounceErrorsOnly ==
    /\ at = "connack" /\ Reads("CONNACK")
    /\ Request("ERROR", "error") /\ (Established => down' = Tail(down)) /\ UNCHANGED budget

Announce ==
    /\ at = "connack" /\ Reads("CONNACK")
    /\ Request("ONLINE", "alive") /\ (Established => down' = Tail(down)) /\ UNCHANGED budget

(* Whether the broker acknowledged "online", or the errors, is not looked at. *)
GoOn(place, request, next) ==
    /\ at = place /\ (Reads("PUBACK") \/ Expired)
    /\ Request(request, next) /\ UNCHANGED budget
    /\ Established => down' = IF Reads("PUBACK") THEN Tail(down) ELSE down

Subscribed ==
    /\ at = "subscribe" /\ Reads("SUBACK") /\ down' = Tail(down)
    /\ at' = "settle" /\ wait' \in {0, 1}      \* 300 ms: less than a tick
    /\ UNCHANGED <<backoff, socket, port, client, host, world, alive, history>>

GivesUp ==
    /\ \/ at \in {"connack", "subscribe", "publish"} /\ Expired
       \/ at = "connack" /\ Reads("REFUSED")
    /\ EndSession /\ UNCHANGED upset

(* connectSession is done; core1Main resets the backoff and sessionLoop begins. *)
Settled ==
    /\ at = "settle" /\ Expired /\ at' = "poll"
    /\ backoff' = BackoffFirst /\ pending' = FALSE /\ age' = 0 /\ budget' = 0
    /\ UNCHANGED <<wait, socket, port, sent, outstanding, down, host, world, alive, history>>

-----------------------------------------------------------------------------
(* The client library, as sessionLoop relies on it. *)

(* keepalive(): ping when nothing was sent for the interval and no ping is out. *)
Keepalive(out) ==
    IF Established /\ sent >= KeepAlive /\ ~out
    THEN Write("PINGREQ") /\ sent' = 0 /\ outstanding' = TRUE
    ELSE UNCHANGED <<stream, socket, sent>> /\ outstanding' = out

(* One packet in cycle(): a command is acknowledged on the timer of the call,   *)
(* so one read when that has run out fails it.                                  *)
Unacknowledged == Reads("PUBLISH") /\ (Expired \/ ~Established)
Cycle ==
    /\ Readable /\ ~Unacknowledged /\ down' = Tail(down)
    /\ IF Head(down) = "PUBLISH" THEN Write("PUBACK") /\ sent' = 0 /\ UNCHANGED outstanding
       ELSE Keepalive(outstanding /\ Head(down) # "PINGRESP")
    /\ silent' = 0
    /\ UNCHANGED <<backoff, port, pending, age, budget, open, owner, heard, world,
                   alive, upset, unwilled>>

(* waitfor() and the settling yield pass over what they do not wait for; a      *)
(* failed acknowledgement does not end them.                                    *)
Expects == [connack |-> {"CONNACK", "REFUSED"}, alive |-> {"PUBACK"}, error |-> {"PUBACK"},
            subscribe |-> {"SUBACK"}, publish |-> {"PUBACK"}, settle |-> {}]
PassOver ==
    /\ at \in DOMAIN Expects /\ Readable /\ Head(down) \notin Expects[at]
    /\ UNCHANGED <<at, wait, more>>
    /\ \/ Cycle
       \/ /\ Unacknowledged /\ down' = Tail(down)
          /\ UNCHANGED <<backoff, socket, port, client, host, world, alive,
                         upset, silent, unwilled>>

-----------------------------------------------------------------------------
(* Core 1: sessionLoop. *)

NoticeIfClosed == at = "poll" /\ socket = "closed" /\ EndSession /\ UNCHANGED upset  \* mutant

Notice == at = "poll" /\ ~Established /\ EndSession /\ UNCHANGED upset

(* Mutant: a short poll window. *)
ReadBriefly ==
    /\ at = "poll" /\ Established /\ down # <<>>
    /\ at' = "yield" /\ wait' = 0 /\ more' = FALSE
    /\ UNCHANGED <<backoff, socket, port, client, down, host, world, alive, upset, silent, unwilled>>

(* A packet has begun to arrive: yield with the whole command timeout. *)
Read ==
    /\ at = "poll" /\ Established /\ down # <<>>
    /\ at' = "yield" /\ wait' = Timeout /\ more' = FALSE
    /\ UNCHANGED <<backoff, socket, port, client, down, host, world, alive, upset, silent, unwilled>>

(* Nothing to read.  One such iteration stands for all those between two ticks  *)
(* or publishes.                                                                *)
Idle ==
    /\ at = "poll" /\ Established /\ down = <<>> /\ budget # Burst
    /\ Keepalive(outstanding) /\ at' = "watch"
    /\ UNCHANGED <<wait, backoff, port, pending, age, budget, down, open, owner, heard, world,
                   alive, history>>

YieldReads ==
    /\ at = "yield" /\ Cycle
    /\ \/ UNCHANGED <<at, wait>> /\ more' = TRUE
       \/ at' = "watch" /\ wait' = 0 /\ more' = FALSE

YieldEnds ==
    /\ at = "yield" /\ Expired /\ at' = "watch" /\ more' = FALSE
    /\ Keepalive(outstanding)
    /\ UNCHANGED <<wait, backoff, port, pending, age, budget, down, open, owner, heard, world,
                   alive, upset, silent, unwilled>>

YieldFails ==
    /\ at = "yield" /\ Unacknowledged
    /\ EndSession /\ upset' = (upset \/ more)

Overdue == outstanding /\ pending /\ age >= KeepAlive

(* Mutant: an answer does not reset the count. *)
WatchForgetful ==
    /\ at = "watch"
    /\ IF Overdue THEN EndSession /\ UNCHANGED upset
       ELSE /\ at' = "poll" /\ budget' = Burst
            /\ pending' = (pending \/ outstanding) /\ age' = age
            /\ UNCHANGED <<wait, backoff, socket, port, sent, outstanding, down, host, world,
                           alive, history>>

(* Mutant: never give up on a ping. *)
WatchTrusting ==
    /\ at = "watch" /\ at' = "poll" /\ budget' = Burst
    /\ pending' = outstanding /\ age' = IF pending /\ outstanding THEN age ELSE 0
    /\ UNCHANGED <<wait, backoff, socket, port, sent, outstanding, down, host, world, alive, history>>

(* Give a ping one more interval, then drop the session. *)
Watch ==
    /\ at = "watch"
    /\ IF Overdue THEN EndSession /\ UNCHANGED upset
       ELSE /\ at' = "poll" /\ budget' = Burst
            /\ pending' = outstanding /\ age' = IF pending /\ outstanding THEN age ELSE 0
            /\ UNCHANGED <<wait, backoff, socket, port, sent, outstanding, down, host, world,
                           alive, history>>

Publish ==
    /\ at = "poll" /\ budget > 0
    /\ Request("PUBLISH", "publish")
    /\ Established => budget' = budget - 1 /\ UNCHANGED down

Published ==
    /\ at = "publish" /\ Reads("PUBACK") /\ down' = Tail(down) /\ at' = "poll"
    /\ wait' = 0 /\ silent' = 0
    /\ UNCHANGED <<backoff, socket, port, client, host, world, alive, upset, more, unwilled>>

-----------------------------------------------------------------------------
(* The broker. *)

(* The broker closes connection p: the will is published if p had the session,  *)
(* and the panel's socket hears of it if it still is that connection.           *)
Close(p) ==
    /\ open' = open \ {p} /\ stream' = [stream EXCEPT ![p] = <<>>]
    /\ socket' = IF p = port /\ Established /\ wire THEN "closewait" ELSE socket
    /\ IF p = owner THEN owner' = None /\ alive' = "offline" ELSE UNCHANGED <<owner, alive>>

Reply(p, kind) ==
    down' = IF p = port /\ Established THEN Append(down, kind) ELSE down

Answer == [ONLINE |-> "PUBACK", ERROR |-> "PUBACK", PUBLISH |-> "PUBACK",
           SUBSCRIBE |-> "SUBACK", PINGREQ |-> "PINGRESP"]

(* A CONNECT with our client id takes the session over: the older connection is *)
(* closed and its will published first.                                         *)
TakeOver(p) ==
    /\ owner' = p /\ heard' = 0 /\ unwilled' = FALSE
    /\ alive' = IF owner # None THEN "offline" ELSE alive
    /\ open' = open \ {owner}
    /\ stream' = [q \in Ports |-> IF q = p THEN Tail(stream[p])
                                  ELSE IF q = owner THEN <<>> ELSE stream[q]]
    /\ socket' = IF owner = port /\ Established THEN "closewait" ELSE socket
    /\ upset' = (upset \/ owner = port)
    /\ Reply(p, "CONNACK")
    /\ UNCHANGED <<faults, more, silent>>

Refuse(p) ==
    /\ Fault /\ Close(p) /\ Reply(p, "REFUSED") /\ upset' = TRUE
    /\ UNCHANGED <<heard, more, silent, unwilled>>

Receive(p) ==
    /\ broker = "well" /\ wire /\ stream[p] # <<>>
    /\ LET kind == Head(stream[p]).kind IN
       \/ kind = "CONNECT" /\ (TakeOver(p) \/ Refuse(p))
       \/ kind = "FIN" /\ Close(p) /\ UNCHANGED <<heard, down, faults, history>>
       \/ /\ kind \notin {"CONNECT", "FIN"}
          /\ stream' = [stream EXCEPT ![p] = Tail(@)] /\ heard' = 0
          /\ alive' = IF kind = "ONLINE" THEN "online" ELSE alive
          /\ IF kind = "PUBACK" THEN UNCHANGED down ELSE Reply(p, Answer[kind])
          /\ UNCHANGED <<open, owner, socket, faults, history>>
    /\ UNCHANGED <<core1, client, broker, wire, commands>>

(* A client not heard for Grace, or a connection the panel has left, is closed. *)
Drop(p) ==
    /\ broker = "well" /\ p \in open
    /\ (p = owner /\ heard >= Grace) \/ p # port \/ socket = "closed"
    /\ Close(p)
    /\ UNCHANGED <<core1, client, down, heard, world, history>>

Command ==
    /\ broker = "well" /\ wire /\ commands > 0 /\ commands' = commands - 1
    /\ owner = port /\ Established /\ at \in Served \cup {"settle"}
    /\ down' = Append(down, "PUBLISH")
    /\ UNCHANGED <<core1, socket, client, host, broker, wire, faults, alive, history>>

-----------------------------------------------------------------------------
(* Faults, and what repairs them. *)

Freeze ==
    /\ broker = "well" /\ broker' = "frozen" /\ Fault /\ upset' = TRUE
    /\ UNCHANGED <<core1, socket, client, down, host, wire, commands, alive, more, silent, unwilled>>

Thaw ==
    /\ broker = "frozen" /\ broker' = "well"
    /\ UNCHANGED <<core1, socket, client, down, host, wire, faults, commands, alive, history>>

(* The broker forgets every session; it may or may not announce the wills.      *)
Restart ==
    /\ Fault /\ broker' = "well" /\ upset' = TRUE
    /\ open' = {} /\ owner' = None /\ stream' = [p \in Ports |-> <<>>]
    /\ alive' \in {alive, "offline"} /\ unwilled' = (alive' = "online")
    /\ socket' = IF Established /\ wire THEN "closewait" ELSE socket
    /\ UNCHANGED <<core1, client, down, heard, wire, commands, more, silent>>

Cut ==
    /\ wire /\ wire' = FALSE /\ Fault /\ upset' = TRUE
    /\ UNCHANGED <<core1, socket, client, down, host, broker, commands, alive, more, silent, unwilled>>

Mend ==
    /\ ~wire /\ wire' = TRUE
    /\ UNCHANGED <<core1, socket, client, down, host, broker, faults, commands, alive, history>>

(* What is never acknowledged makes the chip close the socket; a connection     *)
(* the broker has closed meanwhile is found closed when the cable is back.      *)
SocketCloses ==
    /\ Established
    /\ port \notin open \/ (~wire /\ stream[port] # <<>>)
    /\ socket' = IF wire THEN "closewait" ELSE "closed"
    /\ UNCHANGED <<core1, client, down, host, world, alive, history>>

(* Power is lost: the broker hears nothing of it. *)
PowerCut ==
    /\ at # "off" /\ at' = "off" /\ Fault
    /\ wait' = 0 /\ backoff' = BackoffFirst /\ port' = 0
    /\ socket' = "closed" /\ down' = <<>>
    /\ sent' = 0 /\ outstanding' = FALSE /\ pending' = FALSE /\ age' = 0 /\ budget' = 0
    /\ upset' = TRUE /\ more' = FALSE /\ silent' = 0
    /\ UNCHANGED <<host, broker, wire, commands, alive, unwilled>>

PowerUp ==
    /\ at = "off" /\ at' = "init"
    /\ UNCHANGED <<wait, backoff, socket, port, client, down, host, world, alive, history>>

-----------------------------------------------------------------------------
(* Time. *)

(* Core 1 has nothing to do but wait. *)
AtRest ==
    \/ at = "off"
    \/ at \in {"init", "backoff"} /\ wait > 0
    \/ at \in Awaiting \cup {"settle", "yield"} /\ wait > 0 /\ ~Readable
    \/ at = "poll" /\ budget = Burst /\ Established /\ down = <<>>

(* A healthy broker that can be reached is Prompt; one that is healthy does not *)
(* wait longer than Grace.                                                      *)
BrokerInTime ==
    broker = "well" =>
        /\ wire => \A p \in Ports : \A i \in DOMAIN stream[p] : stream[p][i].age < Prompt
        /\ owner # None => heard < Grace

Minus1(n) == IF n = 0 THEN 0 ELSE n - 1
Serving == at \in Served /\ Established /\ owner = port

Tick ==
    /\ AtRest /\ BrokerInTime
    /\ wait' = Minus1(wait)
    /\ sent' = IF at \in Connected THEN Upto(sent + 1, KeepAlive) ELSE sent
    /\ age' = IF pending /\ at \in Served THEN Upto(age + 1, KeepAlive) ELSE age
    /\ budget' = IF at = "poll" THEN 0 ELSE budget
    /\ heard' = IF owner # None THEN Upto(heard + 1, Grace) ELSE 0
    /\ stream' = [p \in Ports |-> [i \in DOMAIN stream[p] |->
                     [stream[p][i] EXCEPT !.age = Upto(@ + 1, Prompt)]]]
    /\ silent' = IF at \in Served THEN silent + 1 ELSE 0
    /\ UNCHANGED <<at, backoff, port, socket, outstanding, pending, down, open, owner,
                   world, alive, upset, more, unwilled>>

Init1 == InitWorks \/ InitFails
Connect1 ==
    \/ Dial \/ Wake \/ Announce \/ Subscribed \/ Settled \/ GivesUp \/ PassOver
    \/ GoOn("alive", "ERROR", "error") \/ GoOn("error", "SUBSCRIBE", "subscribe")
Session1 ==
    \/ Notice \/ Read \/ Idle \/ YieldReads \/ YieldEnds \/ YieldFails \/ Watch \/ Published
Core1 == Init1 \/ Connect1 \/ Session1
Broker == \E p \in Ports : Receive(p) \/ Drop(p)
Environment == Command \/ Freeze \/ Thaw \/ Restart \/ Cut \/ Mend \/ SocketCloses
               \/ PowerCut \/ PowerUp

Next == Core1 \/ Publish \/ Broker \/ Environment \/ Tick
Spec == LinkInit /\ [][Next]_vars

(* Core 1's loops go on and its calls time out; clocks run; a broker that is up  *)
(* reads what reaches it and in the end closes what its clients have left.      *)
FairSpec == Spec /\ WF_vars(Core1) /\ WF_vars(Tick) /\ WF_vars(Broker)

-----------------------------------------------------------------------------
LinkTypeOK ==
    /\ at \in {"off", "init", "dial", "backoff", "watch"} \cup Connected
    /\ wait \in Nat /\ backoff \in BackoffFirst..2 * BackoffCap
    /\ socket \in {"closed", "established", "closewait"} /\ port \in Ports
    /\ sent \in 0..KeepAlive /\ age \in 0..KeepAlive /\ budget \in 0..Burst
    /\ {outstanding, pending, wire, upset, more, unwilled} \subseteq BOOLEAN
    /\ \A p \in Ports : stream[p] \in Seq([kind : Requests, age : 0..Prompt])
    /\ down \in Seq(Replies) /\ open \subseteq Ports
    /\ owner \in open \cup {None} /\ heard \in 0..Grace
    /\ broker \in {"well", "frozen"} /\ alive \in {"online", "offline"}
    /\ faults \in 0..MaxFaults /\ commands \in 0..MaxCommands

(* Nobody gives up for nothing: a connection that has met no fault of cable,     *)
(* broker or power is given up by neither side, whatever core 0 publishes and    *)
(* the broker sends.  (The exception: a command that begins to arrive in the     *)
(* last instant of the yield an earlier packet opened.)                          *)
EndsForAReason ==
    [][ (at \in Connected /\ at' = "backoff") \/ (Established /\ socket' = "closewait")
        => upset' ]_vars

(* sessionLoop's promise (net_core.cpp:236-240): a session is not served for     *)
(* longer than two keepalive intervals and one command timeout without a word    *)
(* from the broker, whether it froze, restarted or the cable is out.             *)
SilenceIsNoticed == silent <= 2 * KeepAlive + Timeout

(* "online" is never said without a session whose will says the opposite, unless *)
(* the broker lost that session itself.                                          *)
OnlineHasAWill == alive = "online" => owner # None \/ unwilled

(* Who is served has been announced, although nobody looks whether "online" was  *)
(* acknowledged; and what is announced has a will.                               *)
AliveIsHonest == (Serving => alive = "online") /\ OnlineHasAWill

(* Once cable and broker stay well, a panel that has power is served and online  *)
(* for good, and one that has none is offline for good.                          *)
AliveComesTrue ==
    /\ <>[](wire /\ broker = "well" /\ at # "off") => <>[](Serving /\ alive = "online")
    /\ <>[](wire /\ broker = "well" /\ at = "off") => <>[](alive = "offline" \/ unwilled)
=============================================================================
