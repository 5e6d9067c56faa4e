------------------------------ MODULE LinkProofs ------------------------------
(***************************************************************************)
(* Proofs about Link, for every value of its constants: the retained alive *)
(* topic never says "online" without a will to take it back, a dead        *)
(* session is noticed in time, who is served has been announced, and a     *)
(* session that has met no fault is given up by nobody.                    *)
(***************************************************************************)
EXTENDS Link, SequenceTheorems, TLAPS

Packets == [kind : Requests, age : Nat]

(* The part of the type invariant that the argument needs. *)
Shape ==
    /\ port \in Ports /\ owner \in Ports \cup {None}
    /\ stream \in [Ports -> Seq(Packets)]

(* A live socket belongs to a call of core 1 that made it. *)
SocketIsUsed == Established => at \in Connected

Calling(p) == stream[p] # <<>> /\ Head(stream[p]).kind = "CONNECT"

(* A live connection the broker knows has our session, or its CONNECT is the   *)
(* next thing the broker reads of it.                                          *)
ConnectComesFirst == Established /\ port \in open => owner = port \/ Calling(port)

(* From any other connection the broker reads a CONNECT or a FIN next, never   *)
(* an "online" of a session it has closed.                                     *)
OthersAreNotHeard ==
    \A p \in Ports : stream[p] # <<>> =>
        owner = p \/ Head(stream[p]).kind \in {"CONNECT", "FIN"}

IInv == Shape /\ SocketIsUsed /\ ConnectComesFirst /\ OthersAreNotHeard /\ OnlineHasAWill

------------------------------------------------------------------------------
(* What happens to the first packet of a stream. *)

LEMMA AppendHead ==
  ASSUME NEW s \in Seq(Packets), NEW e \in Packets
  PROVE  /\ Append(s, e) \in Seq(Packets) /\ Append(s, e) # <<>>
         /\ Head(Append(s, e)) = IF s = <<>> THEN e ELSE Head(s)
<1>1. /\ Append(s, e) \in Seq(Packets) /\ Append(s, e) # <<>>
      /\ Len(Append(s, e)) = Len(s) + 1 /\ Append(s, e)[Len(s) + 1] = e
      /\ \A i \in 1..Len(s) : Append(s, e)[i] = s[i]
  BY AppendProperties
<1>2. Head(Append(s, e)) = Append(s, e)[1]
  BY <1>1
<1>3. CASE s = <<>>
  BY <1>1, <1>2, <1>3
<1>4. CASE s # <<>>
  <2>1. Len(s) \in Nat \ {0} /\ Head(s) = s[1]
    BY <1>4
  <2> QED
    BY <1>1, <1>2, <1>4, <2>1
<1>5. QED
  BY <1>3, <1>4

LEMMA PrefixHead ==
  ASSUME NEW s \in Seq(Packets), NEW n \in 0..Len(s)
  PROVE  /\ SubSeq(s, 1, n) \in Seq(Packets)
         /\ SubSeq(s, 1, n) # <<>> => s # <<>> /\ Head(SubSeq(s, 1, n)) = Head(s)
<1>1. \A i \in 1..n : s[i] \in Packets
  OBVIOUS
<1>2. /\ SubSeq(s, 1, n) \in Seq(Packets)
      /\ Len(SubSeq(s, 1, n)) = IF 1 <= n THEN n - 1 + 1 ELSE 0
      /\ \A i \in 1..n - 1 + 1 : SubSeq(s, 1, n)[i] = s[1 + i - 1]
  BY <1>1, SubSeqProperties
<1>3. ASSUME SubSeq(s, 1, n) # <<>>
      PROVE  s # <<>> /\ Head(SubSeq(s, 1, n)) = Head(s)
  <2>1. Len(SubSeq(s, 1, n)) # 0
    BY <1>2, <1>3
  <2>2. 1 <= n /\ 1 <= Len(s) /\ s # <<>>
    BY <1>2, <2>1
  <2>3. Head(SubSeq(s, 1, n)) = SubSeq(s, 1, n)[1] /\ Head(s) = s[1]
    BY <1>2, <1>3, <2>2
  <2> QED
    BY <1>2, <2>2, <2>3
<1>4. QED
  BY <1>2, <1>3

LEMMA PortsAreNumbers == Ports \subseteq Nat /\ None \notin Ports /\ 0 \in Ports
  BY SpanAssumption DEF Ports, None

LEMMA PacketType == \A kind \in Requests : Packet(kind) \in Packets /\ Packet(kind).kind = kind
  BY DEF Packet, Packets

------------------------------------------------------------------------------
(* The steps the actions are made of. *)

(* What leaves the connections and the broker's books alone. *)
LEMMA Untouched ==
  ASSUME IInv, UNCHANGED <<stream, open, owner, port, alive, unwilled>>,
         Established' => Established /\ at' \in Connected
  PROVE  IInv'
  BY DEF IInv, Shape, SocketIsUsed, ConnectComesFirst, OthersAreNotHeard, OnlineHasAWill,
         Calling, Established

(* What changes the stream of our own connection, without touching its head. *)
LEMMA StreamKept ==
  ASSUME IInv, UNCHANGED <<open, owner, port, alive, unwilled>>,
         Established' => Established /\ at' \in Connected,
         NEW s \in Seq(Packets), stream' = [stream EXCEPT ![port] = s],
         Established' => s # <<>>,
         s # <<>> => IF stream[port] # <<>> THEN Head(s) = Head(stream[port])
                     ELSE owner = port \/ Head(s).kind = "FIN"
  PROVE  IInv'
<1> USE DEF IInv, Shape
<1>1. Shape'
  BY DEF Shape
<1>2. stream'[port] = s /\ \A p \in Ports \ {port} : stream'[p] = stream[p]
  OBVIOUS
<1>3. SocketIsUsed' /\ OnlineHasAWill'
  BY DEF SocketIsUsed, OnlineHasAWill, Established
<1>4. ConnectComesFirst'
  BY <1>2 DEF ConnectComesFirst, Calling, Established
<1>5. OthersAreNotHeard'
  BY <1>2 DEF OthersAreNotHeard
<1>6. QED
  BY <1>1, <1>3, <1>4, <1>5

LEMMA WriteKeeps ==
  ASSUME IInv, NEW kind \in Requests, Write(kind), at' \in Connected,
         UNCHANGED <<open, owner, port, alive, unwilled>>
  PROVE  IInv'
<1> DEFINE s == Append(stream[port], Packet(kind))
<1>1. Established /\ (Established' => Established /\ at' \in Connected)
  BY DEF Write
<1>2. CASE port \in open
  <2>1. stream[port] \in Seq(Packets) /\ Packet(kind) \in Packets
    BY PacketType DEF IInv, Shape
  <2>2. /\ s \in Seq(Packets) /\ s # <<>>
        /\ stream[port] # <<>> => Head(s) = Head(stream[port])
    BY <2>1, AppendHead
  <2>3. stream[port] = <<>> => owner = port
    BY <1>1, <1>2 DEF IInv, ConnectComesFirst, Calling
  <2>4. stream' = [stream EXCEPT ![port] = s]
    BY <1>2 DEF Write
  <2> QED
    BY <1>1, <2>2, <2>3, <2>4, StreamKept
<1>3. CASE port \notin open
  BY <1>1, <1>3, Untouched DEF Write
<1>4. QED
  BY <1>2, <1>3

LEMMA HangupKeeps ==
  ASSUME IInv, Hangup, UNCHANGED <<open, owner, port, alive, unwilled>>
  PROVE  IInv'
<1>1. ~Established' /\ stream[port] \in Seq(Packets)
  BY DEF Hangup, Established, IInv, Shape
<1>2. CASE port \notin open
  BY <1>1, <1>2, Untouched DEF Hangup
<1>3. CASE port \in open /\ wire /\ Established
  <2> DEFINE s == Append(stream[port], Packet("FIN"))
  <2>1. Packet("FIN") \in Packets /\ Packet("FIN").kind = "FIN"
    BY PacketType DEF Requests
  <2>2. /\ s \in Seq(Packets) /\ s # <<>>
        /\ Head(s) = IF stream[port] = <<>> THEN Packet("FIN") ELSE Head(stream[port])
    BY <1>1, <2>1, AppendHead
  <2>3. stream' = [stream EXCEPT ![port] = s]
    BY <1>3 DEF Hangup
  <2>4. IF stream[port] # <<>> THEN Head(s) = Head(stream[port]) ELSE Head(s).kind = "FIN"
    BY <2>1, <2>2
  <2> QED
    BY <1>1, <2>2, <2>3, <2>4, StreamKept
<1>4. CASE port \in open /\ ~(wire /\ Established)
  <2>1. PICK n \in 0..Len(stream[port]) : stream' = [stream EXCEPT ![port] = SubSeq(@, 1, n)]
    BY <1>4 DEF Hangup
  <2> DEFINE s == SubSeq(stream[port], 1, n)
  <2>2. /\ s \in Seq(Packets)
        /\ s # <<>> => stream[port] # <<>> /\ Head(s) = Head(stream[port])
    BY <1>1, PrefixHead
  <2>3. stream' = [stream EXCEPT ![port] = s]
    BY <2>1
  <2> QED
    BY <1>1, <2>2, <2>3, StreamKept
<1>5. QED
  BY <1>2, <1>3, <1>4

LEMMA KeepaliveKeeps ==
  ASSUME IInv, NEW out, Keepalive(out), at' \in Connected,
         UNCHANGED <<open, owner, port, alive, unwilled>>
  PROVE  IInv'
<1>1. CASE Established /\ sent >= KeepAlive /\ ~out
  BY <1>1, WriteKeeps DEF Keepalive, Requests
<1>2. CASE ~(Established /\ sent >= KeepAlive /\ ~out)
  BY <1>2, Untouched DEF Keepalive, Established
<1>3. QED
  BY <1>1, <1>2

LEMMA EndSessionKeeps ==
  ASSUME IInv, EndSession
  PROVE  IInv'
  BY HangupKeeps DEF EndSession, world, vars

LEMMA RequestKeeps ==
  ASSUME IInv, NEW kind \in Requests, NEW place \in Connected, Request(kind, place)
  PROVE  IInv'
<1>1. CASE Established
  BY <1>1, WriteKeeps DEF Request, history
<1>2. CASE ~Established
  BY <1>2, EndSessionKeeps DEF Request
<1>3. QED
  BY <1>1, <1>2

LEMMA CycleKeeps ==
  ASSUME IInv, Cycle, at' \in Connected
  PROVE  IInv'
<1>1. UNCHANGED <<open, owner, port, alive, unwilled>>
  BY DEF Cycle
<1>2. CASE Head(down) = "PUBLISH"
  BY <1>1, <1>2, WriteKeeps DEF Cycle, Requests
<1>3. CASE Head(down) # "PUBLISH"
  BY <1>1, <1>3, KeepaliveKeeps DEF Cycle
<1>4. QED
  BY <1>2, <1>3

LEMMA CloseKeeps ==
  ASSUME IInv, NEW p \in Ports, Close(p), UNCHANGED <<at, port, unwilled>>
  PROVE  IInv'
<1> USE DEF IInv, Shape, Close
<1>1. Shape'
  <2>1. <<>> \in Seq(Packets) /\ stream' = [stream EXCEPT ![p] = <<>>]
    OBVIOUS
  <2> QED
    BY <2>1
<1>2. stream'[p] = <<>> /\ \A q \in Ports \ {p} : stream'[q] = stream[q]
  OBVIOUS
<1>3. Established' => Established
  BY DEF Established
<1>4. SocketIsUsed'
  BY <1>3 DEF SocketIsUsed
<1>5. ConnectComesFirst'
  BY <1>2, <1>3 DEF ConnectComesFirst, Calling
<1>6. OthersAreNotHeard'
  BY <1>2 DEF OthersAreNotHeard
<1>7. OnlineHasAWill'
  BY DEF OnlineHasAWill
<1>8. QED
  BY <1>1, <1>4, <1>5, <1>6, <1>7

LEMMA TakeOverKeeps ==
  ASSUME IInv, NEW p \in Ports, TakeOver(p), stream[p] # <<>>, UNCHANGED <<at, port>>
  PROVE  IInv'
<1> USE DEF IInv, Shape, TakeOver
<1>1. Shape'
  <2>1. \A q \in Ports : stream[q] \in Seq(Packets)
    OBVIOUS
  <2>2. <<>> \in Seq(Packets) /\ Tail(stream[p]) \in Seq(Packets)
    BY <2>1, HeadTailProperties
  <2> QED
    BY <2>1, <2>2
<1>2. \A q \in Ports \ {p} : stream'[q] = IF q = owner THEN <<>> ELSE stream[q]
  OBVIOUS
<1>3. Established' => Established /\ owner # port
  BY DEF Established
<1>4. SocketIsUsed'
  BY <1>3 DEF SocketIsUsed
<1>5. ConnectComesFirst'
  BY <1>2, <1>3 DEF ConnectComesFirst, Calling
<1>6. OthersAreNotHeard'
  BY <1>2 DEF OthersAreNotHeard
<1>7. OnlineHasAWill'
  BY PortsAreNumbers DEF OnlineHasAWill
<1>8. QED
  BY <1>1, <1>4, <1>5, <1>6, <1>7

(* Anything but a CONNECT or a FIN comes from the connection that has the      *)
(* session: "online" in particular.                                            *)
LEMMA ReceiveKeeps ==
  ASSUME IInv, NEW p \in Ports, Receive(p)
  PROVE  IInv'
<1>1. UNCHANGED <<at, port>> /\ stream[p] # <<>>
  BY DEF Receive, core1
<1> DEFINE kind == Head(stream[p]).kind
<1>2. CASE kind = "CONNECT" /\ TakeOver(p)
  BY <1>1, <1>2, TakeOverKeeps
<1>3. CASE kind = "CONNECT" /\ Refuse(p)
  BY <1>1, <1>3, CloseKeeps DEF Refuse
<1>4. CASE kind = "FIN" /\ Close(p) /\ UNCHANGED history
  BY <1>1, <1>4, CloseKeeps DEF history
<1>5. CASE /\ kind \notin {"CONNECT", "FIN"}
           /\ stream' = [stream EXCEPT ![p] = Tail(@)]
           /\ alive' = IF kind = "ONLINE" THEN "online" ELSE alive
           /\ UNCHANGED <<open, owner, socket, unwilled>>
  <2> USE DEF IInv, Shape
  <2>1. stream[p] \in Seq(Packets)
    OBVIOUS
  <2>2. Tail(stream[p]) \in Seq(Packets)
    BY <1>1, <2>1, HeadTailProperties
  <2>3. owner = p
    BY <1>1, <1>5 DEF OthersAreNotHeard
  <2>4. Shape'
    BY <1>1, <1>5, <2>2
  <2>5. \A q \in Ports \ {p} : stream'[q] = stream[q]
    BY <1>5
  <2>6. SocketIsUsed'
    BY <1>1, <1>5 DEF SocketIsUsed, Established
  <2>7. ConnectComesFirst'
    BY <1>1, <1>5, <2>3, <2>5 DEF ConnectComesFirst, Calling, Established
  <2>8. OthersAreNotHeard'
    BY <1>5, <2>3, <2>5 DEF OthersAreNotHeard
  <2>9. OnlineHasAWill'
    BY <1>5, <2>3, PortsAreNumbers DEF OnlineHasAWill
  <2> QED
    BY <2>4, <2>6, <2>7, <2>8, <2>9
<1>6. QED
  BY <1>2, <1>3, <1>4, <1>5 DEF Receive, history

LEMMA DropKeeps ==
  ASSUME IInv, NEW p \in Ports, Drop(p)
  PROVE  IInv'
  BY CloseKeeps DEF Drop, core1, history

(* A restarted broker has forgotten whom it would announce. *)
LEMMA RestartKeeps ==
  ASSUME IInv, Restart
  PROVE  IInv'
<1>1. /\ at' = at /\ port' = port /\ open' = {} /\ owner' = None
      /\ stream' = [p \in Ports |-> <<>>]
      /\ alive' \in {alive, "offline"} /\ unwilled' = (alive' = "online")
      /\ Established' => Established
  BY DEF Restart, core1, Established
<1>2. <<>> \in Seq(Packets)
  OBVIOUS
<1>3. Shape' /\ SocketIsUsed'
  BY <1>1, <1>2 DEF IInv, Shape, SocketIsUsed
<1>4. ConnectComesFirst' /\ OthersAreNotHeard' /\ OnlineHasAWill'
  BY <1>1 DEF ConnectComesFirst, OthersAreNotHeard, OnlineHasAWill
<1>5. QED
  BY <1>3, <1>4 DEF IInv

LEMMA DialKeeps ==
  ASSUME IInv, Dial
  PROVE  IInv'
<1>1. /\ at = "dial" /\ port' \in Ports /\ ~Established
      /\ UNCHANGED <<owner, alive, unwilled>>
  <2>1. port \in 0..LastPort /\ LastPort \in Nat
    BY SpanAssumption DEF IInv, Shape, Ports
  <2>2. NextPort \in 0..LastPort
    BY <2>1 DEF NextPort
  <2> QED
    BY <2>2 DEF Dial, world, Ports, IInv, SocketIsUsed, Connected, Awaiting, Served
<1>2. CASE wire /\ port' \notin open
  <2>1. /\ at' = "connack" /\ stream' = [stream EXCEPT ![port'] = <<Packet("CONNECT")>>]
    BY <1>2 DEF Dial
  <2>2. <<Packet("CONNECT")>> \in Seq(Packets) /\ Packet("CONNECT").kind = "CONNECT"
    BY PacketType DEF Requests
  <2>3. /\ stream'[port'] # <<>> /\ Head(stream'[port']).kind = "CONNECT"
        /\ \A q \in Ports \ {port'} : stream'[q] = stream[q]
    BY <1>1, <2>1, <2>2 DEF IInv, Shape
  <2>4. Shape' /\ OnlineHasAWill'
    BY <1>1, <2>1, <2>2 DEF IInv, Shape, OnlineHasAWill
  <2>5. SocketIsUsed' /\ ConnectComesFirst'
    BY <2>1, <2>3 DEF SocketIsUsed, ConnectComesFirst, Calling, Connected, Awaiting
  <2>6. OthersAreNotHeard'
    BY <1>1, <2>3 DEF IInv, OthersAreNotHeard
  <2> QED
    BY <2>4, <2>5, <2>6 DEF IInv
<1>3. CASE ~(wire /\ port' \notin open)
  <2>1. /\ stream' = IF wire THEN [stream EXCEPT ![port'] = <<Packet("FIN")>>] ELSE stream
        /\ socket' = socket
    BY <1>3 DEF Dial
  <2>2. <<Packet("FIN")>> \in Seq(Packets) /\ Packet("FIN").kind = "FIN"
    BY PacketType DEF Requests
  <2>3. \A q \in Ports : stream'[q] = stream[q] \/ Head(stream'[q]).kind = "FIN"
    BY <1>1, <2>1, <2>2 DEF IInv, Shape
  <2>4. Shape' /\ OnlineHasAWill'
    BY <1>1, <2>1, <2>2 DEF IInv, Shape, OnlineHasAWill
  <2>5. SocketIsUsed' /\ ConnectComesFirst'
    BY <1>1, <2>1 DEF SocketIsUsed, ConnectComesFirst, Established
  <2>6. OthersAreNotHeard'
    BY <1>1, <2>3 DEF IInv, OthersAreNotHeard
  <2> QED
    BY <2>4, <2>5, <2>6 DEF IInv
<1>4. QED
  BY <1>2, <1>3

(* Time passes: packets grow older, and stay what they are. *)
LEMMA TickKeeps ==
  ASSUME IInv, Tick
  PROVE  IInv'
<1>1. UNCHANGED <<at, port, socket, open, owner, alive, unwilled>>
  BY DEF Tick
<1>2. stream' = [p \in Ports |-> [i \in DOMAIN stream[p] |->
                    [stream[p][i] EXCEPT !.age = Upto(@ + 1, Prompt)]]]
  BY DEF Tick
<1>3. ASSUME NEW p \in Ports
      PROVE  /\ stream'[p] \in Seq(Packets)
             /\ stream'[p] # <<>> <=> stream[p] # <<>>
             /\ stream[p] # <<>> => Head(stream'[p]).kind = Head(stream[p]).kind
  <2>1. stream[p] \in Seq(Packets) /\ Len(stream[p]) \in Nat
    BY DEF IInv, Shape
  <2>2. \A i \in 1..Len(stream[p]) :
           /\ stream[p][i].age \in Nat /\ stream[p][i] \in Packets
           /\ Upto(stream[p][i].age + 1, Prompt) \in Nat
    <3>1. \A i \in 1..Len(stream[p]) : stream[p][i] \in Packets
      BY <2>1, ElementOfSeq
    <3>2. Prompt \in Nat
      BY SpanAssumption
    <3> QED
      BY <3>1, <3>2 DEF Packets, Upto
  <2>3. DOMAIN stream[p] = 1..Len(stream[p])
    BY <2>1
  <2>4. stream'[p] = [i \in 1..Len(stream[p]) |->
                        [stream[p][i] EXCEPT !.age = Upto(stream[p][i].age + 1, Prompt)]]
    BY <1>2, <2>3
  <2>5. \A i \in 1..Len(stream[p]) :
           /\ [stream[p][i] EXCEPT !.age = Upto(stream[p][i].age + 1, Prompt)] \in Packets
           /\ stream'[p][i].kind = stream[p][i].kind
    BY <2>2, <2>4 DEF Packets
  <2>6. stream'[p] \in Seq(Packets) /\ Len(stream'[p]) = Len(stream[p])
    <3> DEFINE e(i) == [stream[p][i] EXCEPT !.age = Upto(stream[p][i].age + 1, Prompt)]
    <3>1. [i \in 1..Len(stream[p]) |-> e(i)] \in Seq(Packets)
      BY <2>1, <2>5, IsASeq
    <3>2. Len([i \in 1..Len(stream[p]) |-> e(i)]) = Len(stream[p])
      BY <2>1
    <3> QED
      BY <2>4, <3>1, <3>2
  <2>7. ASSUME stream[p] # <<>>
        PROVE  stream'[p] # <<>> /\ Head(stream'[p]).kind = Head(stream[p]).kind
    <3>1. 1 \in 1..Len(stream[p]) /\ Head(stream[p]) = stream[p][1]
      BY <2>1, <2>7
    <3>2. stream'[p] # <<>> /\ Head(stream'[p]) = stream'[p][1]
      BY <2>6, <3>1
    <3> QED
      BY <2>5, <3>1, <3>2
  <2>8. stream[p] = <<>> => stream'[p] = <<>>
    BY <2>4, <2>6
  <2> QED
    BY <2>6, <2>7, <2>8
<1>4. Shape'
  BY <1>1, <1>2, <1>3 DEF IInv, Shape
<1>5. SocketIsUsed' /\ OnlineHasAWill'
  BY <1>1 DEF IInv, SocketIsUsed, OnlineHasAWill, Established
<1>6. ConnectComesFirst'
  BY <1>1, <1>3 DEF IInv, Shape, ConnectComesFirst, Calling, Established
<1>7. OthersAreNotHeard'
  BY <1>1, <1>3 DEF IInv, OthersAreNotHeard
<1>8. QED
  BY <1>4, <1>5, <1>6, <1>7 DEF IInv

------------------------------------------------------------------------------
(* Every action of core 1 but the dialling. *)

LEMMA Core1Keeps ==
  ASSUME IInv, Core1
  PROVE  IInv'
<1> USE DEF Connected, Awaiting, Served, Requests
<1>1. CASE InitWorks \/ InitFails \/ Wake \/ Subscribed \/ Settled \/ Read \/ Published
  <2>1. /\ UNCHANGED <<stream, open, owner, port, alive, unwilled, socket>>
        /\ Established => at' \in Connected
    BY <1>1 DEF InitWorks, InitFails, Wake, Subscribed, Settled, Read, Published,
                host, world, history, IInv, SocketIsUsed
  <2> QED
    BY <2>1, Untouched DEF Established
<1>2. CASE Dial
  BY <1>2, DialKeeps
<1>3. CASE Announce \/ GoOn("alive", "ERROR", "error") \/ GoOn("error", "SUBSCRIBE", "subscribe")
  BY <1>3, RequestKeeps DEF Announce, GoOn
<1>4. CASE GivesUp \/ Notice \/ YieldFails
  BY <1>4, EndSessionKeeps DEF GivesUp, Notice, YieldFails
<1>5. CASE PassOver
  <2>1. at \in Connected /\ at' = at
    BY <1>5 DEF PassOver, Expects
  <2>2. CASE Cycle
    BY <2>1, <2>2, CycleKeeps
  <2>3. CASE ~Cycle
    BY <1>5, <2>1, <2>3, Untouched DEF PassOver, host, Established, world
  <2> QED
    BY <2>2, <2>3
<1>6. CASE Idle
  BY <1>6, KeepaliveKeeps DEF Idle, history
<1>7. CASE YieldReads
  <2>1. Cycle /\ at' \in Connected
    BY <1>7 DEF YieldReads
  <2> QED
    BY <2>1, CycleKeeps
<1>8. CASE YieldEnds
  BY <1>8, KeepaliveKeeps DEF YieldEnds
<1>9. CASE Watch
  <2>1. CASE Overdue
    BY <1>9, <2>1, EndSessionKeeps DEF Watch
  <2>2. CASE ~Overdue
    BY <1>9, <2>2, Untouched DEF Watch, host, history, Established
  <2> QED
    BY <2>1, <2>2
<1>10. QED
  BY <1>1, <1>2, <1>3, <1>4, <1>5, <1>6, <1>7, <1>8, <1>9
  DEF Core1, Init1, Connect1, Session1

LEMMA EnvironmentKeeps ==
  ASSUME IInv, Environment
  PROVE  IInv'
<1>1. CASE Command \/ Freeze \/ Thaw \/ Cut \/ Mend \/ SocketCloses
  <2>1. /\ UNCHANGED <<stream, open, owner, port, alive, unwilled, at>>
        /\ Established' => Established
    BY <1>1 DEF Command, Freeze, Thaw, Cut, Mend, SocketCloses, host, history, core1, Established
  <2> QED
    BY <2>1, Untouched DEF IInv, SocketIsUsed
<1>2. CASE Restart
  BY <1>2, RestartKeeps
<1>3. CASE PowerCut
  <2>1. /\ UNCHANGED <<stream, open, owner, alive, unwilled>>
        /\ port' \in Ports /\ ~Established'
    BY <1>3, PortsAreNumbers DEF PowerCut, host, Established
  <2> QED
    BY <2>1 DEF IInv, Shape, SocketIsUsed, ConnectComesFirst, OthersAreNotHeard, OnlineHasAWill
<1>4. CASE PowerUp
  <2>1. /\ UNCHANGED <<stream, open, owner, port, alive, unwilled, socket>> /\ ~Established
    BY <1>4 DEF PowerUp, host, history, IInv, SocketIsUsed, Connected, Awaiting, Served
  <2> QED
    BY <2>1, Untouched DEF Established
<1>5. QED
  BY <1>1, <1>2, <1>3, <1>4 DEF Environment

LEMMA InitEstablishes == LinkInit => IInv
<1> SUFFICES ASSUME LinkInit PROVE IInv
  OBVIOUS
<1>1. <<>> \in Seq(Packets)
  OBVIOUS
<1>2. Shape
  BY <1>1, PortsAreNumbers DEF LinkInit, Shape
<1>3. QED
  BY <1>2 DEF LinkInit, IInv, SocketIsUsed, ConnectComesFirst, OthersAreNotHeard,
              OnlineHasAWill, Established

LEMMA SessionsKeepTheirWill == IInv /\ [Next]_vars => IInv'
<1> SUFFICES ASSUME IInv, [Next]_vars PROVE IInv'
  OBVIOUS
<1>1. CASE Core1
  BY <1>1, Core1Keeps
<1>2. CASE Publish
  BY <1>2, RequestKeeps DEF Publish, Requests, Connected, Awaiting
<1>3. CASE Broker
  BY <1>3, ReceiveKeeps, DropKeeps DEF Broker
<1>4. CASE Environment
  BY <1>4, EnvironmentKeeps
<1>5. CASE Tick
  BY <1>5, TickKeeps
<1>6. CASE UNCHANGED vars
  BY <1>6, Untouched DEF vars, core1, host, history, Established, IInv, SocketIsUsed
<1>7. QED
  BY <1>1, <1>2, <1>3, <1>4, <1>5, <1>6 DEF Next

(* The alive topic says "online" only while the broker holds a session whose   *)
(* will would take it back, or has lost that session itself: for any number of *)
(* local ports, any spans, faults, restarts and reused ports.                  *)
THEOREM AliveHasAWill == Spec => []OnlineHasAWill
<1>1. IInv => OnlineHasAWill
  BY DEF IInv
<1>2. QED
  BY InitEstablishes, SessionsKeepTheirWill, <1>1, PTL DEF Spec

------------------------------------------------------------------------------
(* How long a session is served without a word from the broker.            *)

Spans ==
    /\ sent \in 0..KeepAlive /\ age \in 0..KeepAlive /\ budget \in 0..Burst
    /\ wait \in Nat /\ backoff \in Nat /\ silent \in Nat
    /\ outstanding \in BOOLEAN /\ pending \in BOOLEAN
    /\ down \in Seq(Replies)

(* The silence is no older than what was last sent, or than the interval that  *)
(* led to the ping and the time the ping has been watched.                     *)
Heard ==
    IF outstanding THEN silent <= KeepAlive + (IF pending THEN age ELSE 0) ELSE silent <= sent

(* The calls the loop makes wait no longer than the command timeout, so that   *)
(* what is left of a wait can be spent in silence and no more.                 *)
CallsAreTimed ==
    /\ at \notin Served => silent = 0
    /\ at \in Served => silent + wait <= 2 * KeepAlive + Timeout
    /\ at \in {"poll", "watch"} => wait = 0
    /\ at = "publish" => budget < Burst

(* On a live socket the loop keeps its watch: before it waits again it has     *)
(* pinged, or sent something lately, and a ping is watched for its interval.   *)
(* A yield has its packet still to read or has read it.                        *)
LoopIsWatched ==
    at \in {"poll", "watch", "yield"} /\ Established =>
        /\ Heard
        /\ at = "yield" => (down # <<>> /\ wait = Timeout) \/ silent + wait <= Timeout
        /\ at = "watch" \/ (at = "poll" /\ budget = Burst) => outstanding \/ sent < KeepAlive
        /\ at = "poll" /\ budget = Burst /\ outstanding => pending /\ age < KeepAlive

TInv == Spans /\ CallsAreTimed /\ LoopIsWatched

LEMMA SpansAreNumbers ==
    /\ KeepAlive \in Nat /\ Timeout \in Nat \ {0} /\ Burst \in Nat \ {0}
    /\ InitRetry \in Nat /\ BackoffFirst \in Nat /\ 2 * Timeout < KeepAlive
  BY SpanAssumption

(* Who is not core 1 only closes the socket or adds to what there is to read.  *)
LEMMA Bystander ==
  ASSUME TInv, Established' => Established,
         UNCHANGED <<at, wait, backoff, sent, outstanding, pending, age, budget, silent>>,
         down' \in Seq(Replies), down # <<>> => down' # <<>>
  PROVE  TInv'
  BY DEF TInv, Spans, CallsAreTimed, LoopIsWatched, Heard, Established

(* Core 1 outside sessionLoop() has no silence to count. *)
LEMMA NotServed ==
  ASSUME TInv, at \notin Served, at' \notin Served, silent' = silent,
         UNCHANGED <<pending, age>>, outstanding' \in BOOLEAN,
         budget' \in 0..Burst, backoff' \in Nat, wait' \in Nat, sent' \in 0..KeepAlive,
         down' \in Seq(Replies)
  PROVE  TInv'
  BY DEF TInv, Spans, CallsAreTimed, LoopIsWatched, Served

LEMMA LeavesServed ==
  ASSUME TInv, EndSession
  PROVE  TInv'
<1>1. at' = "backoff" /\ wait' = backoff /\ silent' = 0 /\ down' = <<>>
  BY DEF EndSession, Sleep, Hangup
<1>2. <<>> \in Seq(Replies)
  OBVIOUS
<1>3. UNCHANGED <<backoff, sent, outstanding, pending, age, budget>>
  BY DEF EndSession, client
<1>4. Spans'
  BY <1>1, <1>2, <1>3 DEF TInv, Spans
<1>5. CallsAreTimed' /\ LoopIsWatched'
  BY <1>1 DEF CallsAreTimed, LoopIsWatched, Served
<1>6. QED
  BY <1>4, <1>5 DEF TInv

LEMMA WriteKills ==
  ASSUME NEW kind, Write(kind)
  PROVE  Established
  BY DEF Write

(* keepalive() leaves no live session unwatched: it has pinged, or need not.   *)
LEMMA KeepaliveWatches ==
  ASSUME NEW out \in BOOLEAN, Keepalive(out), sent \in 0..KeepAlive
  PROVE  /\ outstanding' \in BOOLEAN /\ sent' \in 0..KeepAlive
         /\ out => outstanding' /\ sent' = sent
         /\ Established' => Established /\ (outstanding' \/ (sent' < KeepAlive /\ sent' = sent))
<1> USE SpansAreNumbers
<1>1. CASE Established /\ sent >= KeepAlive /\ ~out
  BY <1>1 DEF Keepalive
<1>2. CASE ~(Established /\ sent >= KeepAlive /\ ~out)
  <2>1. outstanding' = out /\ sent' = sent /\ socket' = socket
    BY <1>2 DEF Keepalive
  <2> QED
    BY <1>2, <2>1 DEF Established
<1>3. QED
  BY <1>1, <1>2

LEMMA CycleIsHeard ==
  ASSUME TInv, Cycle
  PROVE  /\ silent' = 0 /\ UNCHANGED <<backoff, pending, age, budget>>
         /\ outstanding' \in BOOLEAN /\ sent' \in 0..KeepAlive /\ down' \in Seq(Replies)
         /\ Established' => Established /\ (outstanding' \/ sent' < KeepAlive)
<1> USE SpansAreNumbers
<1>1. silent' = 0 /\ UNCHANGED <<backoff, pending, age, budget>>
  BY DEF Cycle
<1>2. down' \in Seq(Replies)
  <2>1. down \in Seq(Replies) /\ down # <<>> /\ down' = Tail(down)
    BY DEF Cycle, Readable, TInv, Spans
  <2> QED
    BY <2>1, HeadTailProperties
<1>3. CASE Head(down) = "PUBLISH"
  <2>1. Established /\ sent' = 0 /\ outstanding' = outstanding
    BY <1>3, WriteKills DEF Cycle
  <2> QED
    BY <1>1, <1>2, <2>1 DEF TInv, Spans
<1>4. CASE Head(down) # "PUBLISH"
  <2> DEFINE out == outstanding /\ Head(down) # "PINGRESP"
  <2>1. Keepalive(out) /\ out \in BOOLEAN
    BY <1>4 DEF Cycle
  <2>2. sent \in 0..KeepAlive
    BY DEF TInv, Spans
  <2> QED
    BY <1>1, <1>2, <2>1, <2>2, KeepaliveWatches
<1>5. QED
  BY <1>3, <1>4

(* A request is written on a live socket, or ends the attempt. *)
LEMMA RequestIsTimed ==
  ASSUME NEW kind, NEW place, Request(kind, place), Established
  PROVE  /\ at' = place /\ wait' = Timeout /\ sent' = 0
         /\ UNCHANGED <<backoff, outstanding, pending, age, silent>>
  BY DEF Request, history

LEMMA TailType ==
  ASSUME TInv, down # <<>>
  PROVE  Tail(down) \in Seq(Replies)
  BY HeadTailProperties DEF TInv, Spans

LEMMA ConnectIsUncounted ==
  ASSUME TInv, Init1 \/ (Connect1 /\ ~PassOver)
  PROVE  TInv'
<1> USE SpansAreNumbers
<1>1. CASE InitWorks
  BY <1>1, NotServed DEF InitWorks, client, history, Served, TInv, Spans
<1>2. CASE InitFails
  BY <1>2, NotServed DEF InitFails, client, history, Served, TInv, Spans
<1>3. CASE Dial
  <2>1. /\ at = "dial" /\ UNCHANGED <<backoff, pending, age, budget, down, silent>>
        /\ \/ at' = "connack" /\ wait' = Timeout /\ sent' = 0 /\ outstanding' = FALSE
           \/ at' = "backoff" /\ wait' = backoff /\ UNCHANGED <<sent, outstanding>>
    BY <1>3 DEF Dial, Sleep
  <2>2. /\ sent' \in 0..KeepAlive /\ wait' \in Nat
        /\ budget' \in 0..Burst /\ backoff' \in Nat /\ down' \in Seq(Replies)
    BY <2>1 DEF TInv, Spans
  <2>3. outstanding' \in BOOLEAN
    BY <2>1, Zenon DEF TInv, Spans
  <2> QED
    BY <2>1, <2>2, <2>3, NotServed DEF Served
<1>4. CASE Wake
  BY <1>4, NotServed DEF Wake, client, history, Served, TInv, Spans
<1>5. CASE Announce
  <2>1. CASE Established
    <3>1. /\ at = "connack" /\ down # <<>> /\ down' = Tail(down)
          /\ budget' = budget /\ Request("ONLINE", "alive")
      BY <1>5, <2>1 DEF Announce, Reads, Readable
    <3>2. /\ at' = "alive" /\ wait' = Timeout /\ sent' = 0
          /\ UNCHANGED <<backoff, outstanding, pending, age, silent>>
      BY <2>1, <3>1, RequestIsTimed
    <3> QED
      BY <3>1, <3>2, TailType, NotServed DEF Served, TInv, Spans
  <2>2. CASE ~Established
    BY <1>5, <2>2, LeavesServed DEF Announce, Request
  <2> QED
    BY <2>1, <2>2
<1>6. ASSUME NEW place \in {"alive", "error"}, NEW request, NEW next \in {"error", "subscribe"},
             GoOn(place, request, next)
      PROVE  TInv'
  <2>1. CASE Established
    <3>1. /\ at = place /\ budget' = budget /\ Request(request, next)
          /\ down' = IF Reads("PUBACK") THEN Tail(down) ELSE down
      BY <1>6, <2>1 DEF GoOn
    <3>2. /\ at' = next /\ wait' = Timeout /\ sent' = 0
          /\ UNCHANGED <<backoff, outstanding, pending, age, silent>>
      BY <2>1, <3>1, RequestIsTimed
    <3>3. down' \in Seq(Replies)
      BY <3>1, TailType DEF Reads, Readable, TInv, Spans
    <3> QED
      BY <3>1, <3>2, <3>3, NotServed DEF Served, TInv, Spans
  <2>2. CASE ~Established
    BY <1>6, <2>2, LeavesServed DEF GoOn, Request
  <2> QED
    BY <2>1, <2>2
<1>7. CASE Subscribed
  <2>1. down # <<>> /\ down' = Tail(down)
    BY <1>7 DEF Subscribed, Reads, Readable
  <2> QED
    BY <1>7, <2>1, TailType, NotServed DEF Subscribed, client, history, Served, TInv, Spans
<1>8. CASE GivesUp
  BY <1>8, LeavesServed DEF GivesUp
<1>9. CASE Settled
  <2>1. /\ at = "settle" /\ at' = "poll" /\ wait = 0 /\ wait' = 0 /\ silent' = silent
        /\ backoff' = BackoffFirst /\ pending' = FALSE /\ age' = 0 /\ budget' = 0
        /\ UNCHANGED <<sent, outstanding, down>>
    BY <1>9 DEF Settled, Expired, history
  <2>2. silent = 0
    BY <2>1 DEF TInv, CallsAreTimed, Served
  <2>3. Spans'
    <3>1. age' \in 0..KeepAlive /\ budget' \in 0..Burst /\ backoff' \in Nat
      BY <2>1
    <3>2. pending' \in BOOLEAN
      BY <2>1, Zenon
    <3> QED
      BY <2>1, <3>1, <3>2 DEF TInv, Spans
  <2>4. CallsAreTimed' /\ LoopIsWatched'
    BY <2>1, <2>2 DEF TInv, Spans, CallsAreTimed, LoopIsWatched, Heard, Served
  <2> QED
    BY <2>3, <2>4 DEF TInv
<1>10. QED
  BY <1>1, <1>2, <1>3, <1>4, <1>5, <1>6, <1>7, <1>8, <1>9 DEF Init1, Connect1

LEMMA PassOverIsTimed ==
  ASSUME TInv, PassOver
  PROVE  TInv'
<1>1. at \in Awaiting \cup {"settle"} /\ at' = at /\ wait' = wait
  BY DEF PassOver, Expects, Awaiting
<1>2. CASE Cycle
  <2>1. /\ silent' = 0 /\ UNCHANGED <<backoff, pending, age, budget>>
        /\ outstanding' \in BOOLEAN /\ sent' \in 0..KeepAlive /\ down' \in Seq(Replies)
    BY <1>2, CycleIsHeard
  <2> QED
    BY <1>1, <2>1, SpansAreNumbers
    DEF TInv, Spans, CallsAreTimed, LoopIsWatched, Served, Awaiting
<1>3. CASE ~Cycle
  <2>1. /\ down # <<>> /\ down' = Tail(down)
        /\ UNCHANGED <<backoff, sent, outstanding, pending, age, budget, silent>>
    BY <1>3 DEF PassOver, Readable, client
  <2> QED
    BY <1>1, <2>1, TailType DEF TInv, Spans, CallsAreTimed, LoopIsWatched, Served, Awaiting
<1>4. QED
  BY <1>2, <1>3

LEMMA ReadIsTimed ==
  ASSUME TInv, Read
  PROVE  TInv'
<1> USE SpansAreNumbers
<1>1. /\ at = "poll" /\ at' = "yield" /\ wait' = Timeout /\ Established /\ down # <<>>
      /\ UNCHANGED <<backoff, socket, sent, outstanding, pending, age, budget, down, silent>>
  BY DEF Read, client
<1>2. Heard /\ Heard'
  BY <1>1 DEF TInv, LoopIsWatched, Heard
<1>3. Spans'
  BY <1>1 DEF TInv, Spans
<1>4. silent' + wait' <= 2 * KeepAlive + Timeout
  BY <1>1, <1>2 DEF TInv, Spans, Heard
<1>5. QED
  BY <1>1, <1>2, <1>3, <1>4 DEF TInv, CallsAreTimed, LoopIsWatched, Served

(* From the poll or the yield to the watch, with keepalive() called. *)
LEMMA ToWatch ==
  ASSUME TInv, at \in {"poll", "yield"}, wait = 0, Keepalive(outstanding),
         Established => Heard,
         at' = "watch", wait' = 0, UNCHANGED <<backoff, pending, age, budget, down, silent>>
  PROVE  TInv'
<1> USE SpansAreNumbers
<1>1. outstanding \in BOOLEAN /\ sent \in 0..KeepAlive
  BY DEF TInv, Spans
<1>2. /\ outstanding' \in BOOLEAN /\ sent' \in 0..KeepAlive
      /\ outstanding => outstanding' /\ sent' = sent
      /\ Established' => Established /\ (outstanding' \/ (sent' < KeepAlive /\ sent' = sent))
  BY <1>1, KeepaliveWatches
<1>3. Spans' /\ CallsAreTimed'
  BY <1>2 DEF TInv, Spans, CallsAreTimed, Served
<1>4. ASSUME Established' PROVE Heard'
  BY <1>1, <1>2, <1>4 DEF TInv, Spans, Heard
<1>5. QED
  BY <1>2, <1>3, <1>4 DEF TInv, LoopIsWatched

LEMMA IdleIsTimed ==
  ASSUME TInv, Idle
  PROVE  TInv'
<1>1. /\ at = "poll" /\ at' = "watch" /\ Established /\ Keepalive(outstanding) /\ wait' = wait
      /\ UNCHANGED <<backoff, pending, age, budget, down, silent>>
  BY DEF Idle, history
<1>2. wait = 0 /\ Heard
  BY <1>1 DEF TInv, CallsAreTimed, LoopIsWatched
<1>3. QED
  BY <1>1, <1>2, ToWatch

(* A yield that waited it out has read its packet before: it ends with no more *)
(* silence than it waited.                                                     *)
LEMMA YieldIsTimed ==
  ASSUME TInv, YieldReads \/ YieldEnds \/ YieldFails
  PROVE  TInv'
<1> USE SpansAreNumbers
<1>1. CASE YieldReads
  <2>1. /\ silent' = 0 /\ UNCHANGED <<backoff, pending, age, budget>>
        /\ outstanding' \in BOOLEAN /\ sent' \in 0..KeepAlive /\ down' \in Seq(Replies)
        /\ Established' => Established /\ (outstanding' \/ sent' < KeepAlive)
    BY <1>1, CycleIsHeard DEF YieldReads
  <2>2. /\ at = "yield"
        /\ (at' = at /\ wait' = wait) \/ (at' = "watch" /\ wait' = 0)
    BY <1>1 DEF YieldReads
  <2>3. Spans'
    BY <2>1, <2>2 DEF TInv, Spans
  <2>4. CallsAreTimed'
    BY <2>1, <2>2 DEF TInv, Spans, CallsAreTimed, Served
  <2>5. Heard'
    BY <2>1, <2>3 DEF Spans, Heard
  <2>6. Established' => wait <= Timeout
    BY <2>1, <2>2 DEF TInv, Spans, LoopIsWatched
  <2>7. LoopIsWatched'
    <3>1. wait' \in Nat /\ (Established' /\ at' = "yield" => silent' + wait' <= Timeout)
      BY <2>1, <2>2, <2>6 DEF TInv, Spans
    <3>2. Established' /\ at' = "watch" => outstanding' \/ sent' < KeepAlive
      BY <2>1
    <3> QED
      BY <2>2, <2>5, <3>1, <3>2 DEF LoopIsWatched
  <2> QED
    BY <2>3, <2>4, <2>7 DEF TInv
<1>2. CASE YieldEnds
  <2>1. /\ at = "yield" /\ at' = "watch" /\ wait = 0 /\ wait' = 0 /\ Keepalive(outstanding)
        /\ UNCHANGED <<backoff, pending, age, budget, down, silent>>
    BY <1>2 DEF YieldEnds, Expired
  <2>2. Established => Heard
    BY <2>1 DEF TInv, LoopIsWatched
  <2> QED
    BY <2>1, <2>2, ToWatch
<1>3. CASE YieldFails
  BY <1>3, LeavesServed DEF YieldFails
<1>4. QED
  BY <1>1, <1>2, <1>3

LEMMA WatchIsTimed ==
  ASSUME TInv, Watch
  PROVE  TInv'
<1> USE SpansAreNumbers
<1>1. CASE Overdue
  BY <1>1, LeavesServed DEF Watch
<1>2. CASE ~Overdue
  <2>1. /\ at = "watch" /\ at' = "poll" /\ budget' = Burst
        /\ pending' = outstanding /\ age' = IF pending /\ outstanding THEN age ELSE 0
        /\ UNCHANGED <<wait, backoff, socket, sent, outstanding, down, silent>>
    BY <1>2 DEF Watch, history
  <2>2. ~outstanding \/ ~pending \/ age < KeepAlive
    BY <1>2 DEF Overdue, TInv, Spans
  <2>3. age' \in 0..KeepAlive /\ budget' \in 0..Burst
    BY <2>1 DEF TInv, Spans
  <2>4. Spans'
    BY <2>1, <2>3 DEF TInv, Spans
  <2>5. CallsAreTimed'
    BY <2>1 DEF TInv, CallsAreTimed, Served
  <2>6. ASSUME Established PROVE LoopIsWatched'
    <3>1. Heard /\ (outstanding \/ sent < KeepAlive)
      BY <2>1, <2>6 DEF TInv, LoopIsWatched
    <3>2. Heard'
      BY <2>1, <3>1 DEF TInv, Spans, Heard
    <3>3. outstanding => pending' /\ age' < KeepAlive
      BY <2>1, <2>2
    <3> QED
      BY <2>1, <3>1, <3>2, <3>3 DEF LoopIsWatched
  <2> QED
    BY <2>1, <2>4, <2>5, <2>6 DEF TInv, LoopIsWatched, Established
<1>3. QED
  BY <1>1, <1>2

LEMMA PublishIsTimed ==
  ASSUME TInv, Publish \/ Published
  PROVE  TInv'
<1> USE SpansAreNumbers
<1>1. CASE Publish /\ Established
  <2>1. /\ at = "poll" /\ budget > 0 /\ budget' = budget - 1 /\ down' = down
        /\ Request("PUBLISH", "publish")
    BY <1>1 DEF Publish
  <2>2. /\ at' = "publish" /\ wait' = Timeout /\ sent' = 0
        /\ UNCHANGED <<backoff, outstanding, pending, age, silent>>
    BY <1>1, <2>1, RequestIsTimed
  <2>3. silent <= 2 * KeepAlive
    BY <1>1, <2>1 DEF TInv, Spans, LoopIsWatched, Heard
  <2>4. Spans'
    BY <2>1, <2>2 DEF TInv, Spans
  <2>5. CallsAreTimed'
    BY <2>1, <2>2, <2>3 DEF TInv, Spans, CallsAreTimed, Served
  <2> QED
    BY <2>2, <2>4, <2>5 DEF TInv, LoopIsWatched
<1>2. CASE Publish /\ ~Established
  BY <1>2, LeavesServed DEF Publish, Request
<1>3. CASE Published
  <2>1. /\ at = "publish" /\ at' = "poll" /\ wait' = 0 /\ silent' = 0
        /\ down # <<>> /\ down' = Tail(down)
        /\ UNCHANGED <<backoff, sent, outstanding, pending, age, budget>>
    BY <1>3 DEF Published, Reads, Readable, client
  <2>2. budget < Burst
    BY <2>1 DEF TInv, CallsAreTimed
  <2>3. Spans'
    BY <2>1, TailType DEF TInv, Spans
  <2>4. CallsAreTimed' /\ Heard'
    BY <2>1, <2>3 DEF Spans, CallsAreTimed, Heard, Served
  <2>5. LoopIsWatched'
    BY <2>1, <2>2, <2>4 DEF TInv, Spans, LoopIsWatched
  <2> QED
    BY <2>3, <2>4, <2>5 DEF TInv
<1>4. QED
  BY <1>1, <1>2, <1>3

LEMMA ReplyType ==
  ASSUME TInv, NEW p, NEW kind \in Replies, Reply(p, kind)
  PROVE  down' \in Seq(Replies) /\ (down # <<>> => down' # <<>>)
<1>1. down \in Seq(Replies)
  BY DEF TInv, Spans
<1>2. Append(down, kind) \in Seq(Replies) /\ Append(down, kind) # <<>>
  BY <1>1, AppendProperties
<1>3. QED
  BY <1>1, <1>2 DEF Reply

LEMMA BrokerIsABystander ==
  ASSUME IInv, TInv, NEW p \in Ports, Receive(p) \/ Drop(p)
  PROVE  TInv'
<1> USE DEF core1, client, history, Replies
<1>1. /\ UNCHANGED <<at, wait, backoff, sent, outstanding, pending, age, budget, silent>>
      /\ Established' => Established
  <2>1. UNCHANGED <<at, wait, backoff, sent, outstanding, pending, age, budget>>
    BY DEF Receive, Drop
  <2>2. silent' = silent
    BY DEF Receive, Drop, TakeOver, Refuse
  <2>3. Established' => Established
    BY DEF Receive, Drop, TakeOver, Refuse, Close, Established
  <2> QED
    BY <2>1, <2>2, <2>3
<1>2. down' \in Seq(Replies) /\ (down # <<>> => down' # <<>>)
  <2>1. down' = down => down' \in Seq(Replies) /\ (down # <<>> => down' # <<>>)
    BY DEF TInv, Spans
  <2>2. CASE Drop(p)
    BY <2>1, <2>2 DEF Drop
  <2>3. CASE Receive(p)
    <3> DEFINE kind == Head(stream[p]).kind
    <3>1. stream[p] \in Seq(Packets) /\ stream[p] # <<>>
      BY <2>3 DEF Receive, IInv, Shape
    <3>2. kind \in Requests
      <4>1. Head(stream[p]) \in Packets
        BY <3>1, HeadTailProperties
      <4> QED
        BY <4>1 DEF Packets
    <3>3. CASE TakeOver(p)
      BY <3>3, ReplyType DEF TakeOver
    <3>4. CASE Refuse(p)
      BY <3>4, ReplyType DEF Refuse
    <3>5. CASE kind \notin {"CONNECT", "FIN", "PUBACK"} /\ Reply(p, Answer[kind])
      <4>1. Answer[kind] \in Replies
        BY <3>2, <3>5 DEF Answer, Requests
      <4> QED
        BY <3>5, <4>1, ReplyType
    <3>6. CASE down' = down
      BY <2>1, <3>6
    <3> QED
      BY <2>3, <3>3, <3>4, <3>5, <3>6 DEF Receive
  <2> QED
    BY <2>2, <2>3
<1>3. QED
  BY <1>1, <1>2, Bystander

LEMMA EnvironmentIsABystander ==
  ASSUME IInv, TInv, Environment
  PROVE  TInv'
<1>1. CASE Command
  <2>1. /\ UNCHANGED <<at, wait, backoff, sent, outstanding, pending, age, budget, silent, socket>>
        /\ down' = Append(down, "PUBLISH")
    BY <1>1 DEF Command, core1, client, history
  <2>2. down \in Seq(Replies) /\ "PUBLISH" \in Replies
    BY DEF TInv, Spans, Replies
  <2>3. down' \in Seq(Replies) /\ down' # <<>>
    BY <2>1, <2>2, AppendProperties
  <2> QED
    BY <2>1, <2>3, Bystander DEF Established
<1>2. CASE Freeze \/ Thaw \/ Restart \/ Cut \/ Mend \/ SocketCloses
  <2>1. /\ UNCHANGED <<at, wait, backoff, sent, outstanding, pending, age, budget, silent, down>>
        /\ Established' => Established
    BY <1>2 DEF Freeze, Thaw, Restart, Cut, Mend, SocketCloses, core1, client, history, Established
  <2> QED
    BY <2>1, Bystander DEF TInv, Spans
<1>3. CASE PowerCut
  <2>1. /\ at' = "off" /\ wait' = 0 /\ backoff' = BackoffFirst /\ silent' = 0 /\ down' = <<>>
        /\ sent' = 0 /\ outstanding' = FALSE /\ pending' = FALSE /\ age' = 0 /\ budget' = 0
    BY <1>3 DEF PowerCut
  <2>2. outstanding' \in BOOLEAN /\ pending' \in BOOLEAN
    BY <2>1, Zenon
  <2>3. down' \in Seq(Replies)
    BY <2>1
  <2>4. Spans'
    BY <2>1, <2>2, <2>3, SpansAreNumbers DEF Spans
  <2> QED
    BY <2>1, <2>4 DEF TInv, CallsAreTimed, LoopIsWatched, Served
<1>4. CASE PowerUp
  BY <1>4, NotServed DEF PowerUp, client, history, Served, TInv, Spans
<1>5. QED
  BY <1>1, <1>2, <1>3, <1>4 DEF Environment

(* A tick of silence is a tick off a wait, or one the watch has room for. *)
LEMMA TickIsTimed ==
  ASSUME TInv, Tick
  PROVE  TInv'
<1> USE SpansAreNumbers
<1>1. /\ wait' = (IF wait = 0 THEN 0 ELSE wait - 1)
      /\ sent' = IF at \in Connected THEN Upto(sent + 1, KeepAlive) ELSE sent
      /\ age' = IF pending /\ at \in Served THEN Upto(age + 1, KeepAlive) ELSE age
      /\ budget' = IF at = "poll" THEN 0 ELSE budget
      /\ silent' = IF at \in Served THEN silent + 1 ELSE 0
      /\ UNCHANGED <<at, backoff, socket, outstanding, pending, down>>
  BY DEF Tick, Minus1
<1>2. Spans'
  BY <1>1 DEF TInv, Spans, Upto
<1>3. CASE at \notin Served
  BY <1>1, <1>2, <1>3 DEF TInv, CallsAreTimed, LoopIsWatched, Served
<1>4. CASE at \in {"yield", "publish"}
  <2>1. wait > 0 /\ (at = "yield" => down = <<>> \/ ~Established)
    BY <1>4 DEF Tick, AtRest, Readable, Established
  <2>2. silent' + wait' = silent + wait
    BY <1>1, <1>4, <2>1 DEF TInv, Spans, Served
  <2>3. CallsAreTimed'
    BY <1>1, <1>4, <2>2 DEF TInv, Spans, CallsAreTimed, Served
  <2>4. ASSUME at = "yield", Established
        PROVE  Heard' /\ silent' + wait' <= Timeout
    <3>1. Heard /\ silent + wait <= Timeout
      BY <2>1, <2>4 DEF TInv, LoopIsWatched
    <3>2. silent' <= Timeout /\ sent' = Upto(sent + 1, KeepAlive)
      BY <1>1, <2>1, <2>2, <2>4, <3>1 DEF TInv, Spans, Connected, Served
    <3>3. Heard'
      BY <1>1, <1>2, <2>4, <3>1, <3>2 DEF TInv, Spans, Heard, Upto, Served
    <3> QED
      BY <2>2, <3>1, <3>3
  <2>5. LoopIsWatched'
    BY <1>1, <1>4, <2>4 DEF LoopIsWatched, Established
  <2> QED
    BY <1>2, <2>3, <2>5 DEF TInv
<1>5. CASE at = "poll"
  <2>1. budget = Burst /\ Established
    BY <1>5 DEF Tick, AtRest, Awaiting
  <2>2. /\ Heard /\ (outstanding \/ sent < KeepAlive)
        /\ outstanding => pending /\ age < KeepAlive
    BY <1>5, <2>1 DEF TInv, LoopIsWatched
  <2>3. Heard'
    BY <1>1, <1>5, <2>2 DEF TInv, Spans, Heard, Upto, Connected, Served
  <2>4. wait' = 0 /\ silent' <= 2 * KeepAlive
    BY <1>1, <1>2, <1>5, <2>3 DEF TInv, CallsAreTimed, Spans, Heard
  <2>5. CallsAreTimed' /\ LoopIsWatched'
    BY <1>1, <1>2, <1>5, <2>3, <2>4 DEF CallsAreTimed, LoopIsWatched, Served, Spans
  <2> QED
    BY <1>2, <2>5 DEF TInv
<1>6. CASE at = "watch"
  BY <1>6 DEF Tick, AtRest, Awaiting
<1>7. QED
  BY <1>3, <1>4, <1>5, <1>6 DEF Served

LEMMA InitIsTimed == LinkInit => TInv
<1> SUFFICES ASSUME LinkInit PROVE TInv
  OBVIOUS
<1>1. outstanding \in BOOLEAN /\ pending \in BOOLEAN
  BY Zenon DEF LinkInit
<1>2. Spans
  BY <1>1, SpansAreNumbers DEF LinkInit, Spans
<1>3. QED
  BY <1>2 DEF LinkInit, TInv, CallsAreTimed, LoopIsWatched, Served

LEMMA SilenceIsWatched == IInv /\ TInv /\ [Next]_vars => TInv'
<1> SUFFICES ASSUME IInv, TInv, [Next]_vars PROVE TInv'
  OBVIOUS
<1>1. CASE Init1 \/ Connect1
  BY <1>1, ConnectIsUncounted, PassOverIsTimed
<1>2. CASE Notice
  BY <1>2, LeavesServed DEF Notice
<1>3. CASE Session1 /\ ~Notice
  BY <1>3, ReadIsTimed, IdleIsTimed, YieldIsTimed, WatchIsTimed, PublishIsTimed DEF Session1
<1>4. CASE Publish
  BY <1>4, PublishIsTimed
<1>5. CASE Broker
  BY <1>5, BrokerIsABystander DEF Broker
<1>6. CASE Environment
  BY <1>6, EnvironmentIsABystander
<1>7. CASE Tick
  BY <1>7, TickIsTimed
<1>8. CASE UNCHANGED vars
  BY <1>8, Bystander DEF vars, core1, client, history, Established, TInv, Spans
<1>9. QED
  BY <1>1, <1>2, <1>3, <1>4, <1>5, <1>6, <1>7, <1>8 DEF Next, Core1

(* The promise of sessionLoop() holds for any spans with 2 * Timeout below     *)
(* KeepAlive, any burst, and whatever the broker, the cable and the client do: *)
(* no session is served for longer than two intervals and a timeout in silence.*)
THEOREM SilenceIsBounded == Spec => []SilenceIsNoticed
<1>1. TInv => SilenceIsNoticed
  <2> SUFFICES ASSUME TInv PROVE SilenceIsNoticed
    OBVIOUS
  <2>1. CASE at \in Served
    BY <2>1, SpansAreNumbers DEF TInv, Spans, CallsAreTimed, SilenceIsNoticed
  <2>2. CASE at \notin Served
    BY <2>2, SpansAreNumbers DEF TInv, CallsAreTimed, SilenceIsNoticed
  <2> QED
    BY <2>1, <2>2
<1>2. QED
  BY InitEstablishes, InitIsTimed, SessionsKeepTheirWill, SilenceIsWatched, <1>1, PTL DEF Spec

------------------------------------------------------------------------------
(* Who is served has been announced. *)

Lacks(s, kind) == \A i \in 1..Len(s) : s[i].kind # kind
Once(s) == \A i \in 2..Len(s) : s[i].kind # "CONNECT"
InTurn(s) == \A i, j \in 1..Len(s) : i < j /\ s[i].kind = "SUBSCRIBE" => s[j].kind # "ONLINE"
Unanswered(d, kind) == \A i \in 1..Len(d) : d[i] # kind

Subscribing == {"settle"} \cup Served
Announced == {"alive", "error", "subscribe"} \cup Subscribing

(* The broker's books agree: what waits to be read belongs to a connection it  *)
(* holds, and so does the session.                                             *)
BooksAgree ==
    /\ owner \in open \cup {None}
    /\ \A p \in Ports : stream[p] # <<>> => p \in open

(* A connection begins with its CONNECT and has no other; once the session is  *)
(* its own the CONNECT has been read.                                          *)
OneConnect == \A p \in Ports : Once(stream[p]) /\ (owner = p => ~Calling(p))

NothingLeftOver == at \notin Connected => down = <<>>

(* What the broker reads, and so what core 1 reads of its answers, keeps the   *)
(* order in which connectSession() wrote: CONNECT, "online", SUBSCRIBE.        *)
ReadInTurn ==
    Established =>
        /\ at \in Announced \/ ~Unanswered(down, "CONNACK") => ~Calling(port)
        /\ at = "connack" => /\ Lacks(stream[port], "ONLINE") /\ Lacks(stream[port], "SUBSCRIBE")
                             /\ Unanswered(down, "SUBACK")
        /\ at \in Subscribing \/ ~Unanswered(down, "SUBACK") => Lacks(stream[port], "ONLINE")
        /\ InTurn(stream[port])
        /\ at \in Announced /\ owner = port => alive = "online" \/ ~Lacks(stream[port], "ONLINE")

HInv == BooksAgree /\ OneConnect /\ NothingLeftOver /\ ReadInTurn

------------------------------------------------------------------------------
(* Sequences of packets. *)

LEMMA AppendOf ==
  ASSUME NEW s \in Seq(Packets), NEW e \in Packets
  PROVE  /\ Append(s, e) # <<>>
         /\ \A kind : Lacks(Append(s, e), kind) <=> Lacks(s, kind) /\ e.kind # kind
         /\ Once(s) /\ e.kind # "CONNECT" => Once(Append(s, e))
         /\ InTurn(s) /\ (e.kind # "ONLINE" \/ Lacks(s, "SUBSCRIBE")) => InTurn(Append(s, e))
<1> DEFINE t == Append(s, e)
<1>1. /\ t # <<>> /\ Len(t) = Len(s) + 1 /\ t[Len(s) + 1] = e
      /\ \A i \in 1..Len(s) : t[i] = s[i]
  BY AppendProperties
<1>2. Len(s) \in Nat
  OBVIOUS
<1>3. \A kind : Lacks(t, kind) <=> Lacks(s, kind) /\ e.kind # kind
  <2> TAKE kind
  <2>1. \A i \in 1..Len(t) : i \in 1..Len(s) \/ i = Len(s) + 1
    BY <1>1, <1>2
  <2>2. Len(s) + 1 \in 1..Len(t) /\ \A i \in 1..Len(s) : i \in 1..Len(t)
    BY <1>1, <1>2
  <2> HIDE DEF t
  <2> QED
    BY <1>1, <2>1, <2>2 DEF Lacks
<1>4. Once(s) /\ e.kind # "CONNECT" => Once(t)
  <2> SUFFICES ASSUME Once(s), e.kind # "CONNECT", NEW i \in 2..Len(t)
               PROVE  t[i].kind # "CONNECT"
    BY DEF Once
  <2>1. i \in 2..Len(s) \/ i = Len(s) + 1
    BY <1>1, <1>2
  <2>2. i \in 2..Len(s) => t[i] = s[i]
    BY <1>1, <1>2
  <2> HIDE DEF t
  <2> QED
    BY <1>1, <2>1, <2>2 DEF Once
<1>5. InTurn(s) /\ (e.kind # "ONLINE" \/ Lacks(s, "SUBSCRIBE")) => InTurn(t)
  <2> SUFFICES ASSUME InTurn(s), e.kind # "ONLINE" \/ Lacks(s, "SUBSCRIBE"),
                      NEW i \in 1..Len(t), NEW j \in 1..Len(t), i < j, t[i].kind = "SUBSCRIBE"
               PROVE  t[j].kind # "ONLINE"
    BY DEF InTurn
  <2>1. i \in 1..Len(s) /\ (j \in 1..Len(s) \/ j = Len(s) + 1)
    BY <1>1, <1>2
  <2>2. s[i].kind = "SUBSCRIBE"
    BY <1>1, <2>1
  <2> HIDE DEF t
  <2> QED
    BY <1>1, <2>1, <2>2 DEF InTurn, Lacks
<1>6. QED
  BY <1>1, <1>3, <1>4, <1>5

LEMMA TailOf ==
  ASSUME NEW s \in Seq(Packets), s # <<>>, Once(s), InTurn(s)
  PROVE  /\ \A kind : Lacks(s, kind) <=> Head(s).kind # kind /\ Lacks(Tail(s), kind)
         /\ Once(Tail(s)) /\ InTurn(Tail(s))
         /\ Tail(s) # <<>> => Head(Tail(s)).kind # "CONNECT"
         /\ Head(s).kind = "SUBSCRIBE" => Lacks(Tail(s), "ONLINE")
<1> DEFINE t == Tail(s)
<1>1. /\ t \in Seq(Packets) /\ Len(t) = Len(s) - 1
      /\ \A i \in 1..Len(t) : t[i] = s[i + 1]
  BY HeadTailProperties
<1>2. Len(s) \in Nat \ {0} /\ Head(s) = s[1]
  OBVIOUS
<1>3. \A i \in 1..Len(s) : i = 1 \/ (i - 1 \in 1..Len(t) /\ t[i - 1] = s[i])
  BY <1>1, <1>2
<1>4. \A i \in 1..Len(t) : i + 1 \in 2..Len(s) /\ i + 1 \in 1..Len(s) /\ t[i] = s[i + 1]
  BY <1>1, <1>2
<1>5. 1 \in 1..Len(s)
  BY <1>2
<1> HIDE DEF t
<1>6. \A kind : Lacks(s, kind) <=> Head(s).kind # kind /\ Lacks(t, kind)
  BY <1>2, <1>3, <1>4, <1>5 DEF Lacks
<1>7. \A i \in 1..Len(t) : t[i].kind # "CONNECT"
  BY <1>4 DEF Once
<1>8. Once(t) /\ (t # <<>> => Head(t).kind # "CONNECT")
  <2>1. \A i \in 2..Len(t) : i \in 1..Len(t)
    BY <1>1
  <2>2. t # <<>> => 1 \in 1..Len(t) /\ Head(t) = t[1]
    BY <1>1
  <2> QED
    BY <1>7, <2>1, <2>2 DEF Once
<1>9. InTurn(t)
  <2> SUFFICES ASSUME NEW i \in 1..Len(t), NEW j \in 1..Len(t), i < j, t[i].kind = "SUBSCRIBE"
               PROVE  t[j].kind # "ONLINE"
    BY DEF InTurn
  <2>1. i + 1 < j + 1
    OBVIOUS
  <2> QED
    BY <1>4, <2>1 DEF InTurn
<1>10. Head(s).kind = "SUBSCRIBE" => Lacks(t, "ONLINE")
  <2> SUFFICES ASSUME Head(s).kind = "SUBSCRIBE", NEW i \in 1..Len(t)
               PROVE  t[i].kind # "ONLINE"
    BY DEF Lacks
  <2>1. 1 < i + 1
    OBVIOUS
  <2> QED
    BY <1>2, <1>4, <1>5, <2>1 DEF InTurn
<1>11. QED
  BY <1>6, <1>8, <1>9, <1>10 DEF t

LEMMA PrefixOf ==
  ASSUME NEW s \in Seq(Packets), NEW n \in 0..Len(s), Once(s)
  PROVE  Once(SubSeq(s, 1, n))
<1>1. \A i \in 1..n : s[i] \in Packets
  OBVIOUS
<1>2. /\ Len(SubSeq(s, 1, n)) = IF 1 <= n THEN n - 1 + 1 ELSE 0
      /\ \A i \in 1..n - 1 + 1 : SubSeq(s, 1, n)[i] = s[1 + i - 1]
  BY <1>1, SubSeqProperties
<1>3. \A i \in 2..Len(SubSeq(s, 1, n)) : i \in 2..Len(s) /\ SubSeq(s, 1, n)[i] = s[i]
  BY <1>2
<1>4. QED
  BY <1>3 DEF Once

(* What core 1 has still to read. *)
LEMMA Answered ==
  ASSUME NEW d \in Seq(Replies)
  PROVE  /\ \A reply \in Replies : \A kind :
               Unanswered(Append(d, reply), kind) <=> Unanswered(d, kind) /\ reply # kind
         /\ d # <<>> => \A kind :
               Unanswered(d, kind) <=> Head(d) # kind /\ Unanswered(Tail(d), kind)
<1>1. ASSUME NEW reply \in Replies, NEW kind
      PROVE  Unanswered(Append(d, reply), kind) <=> Unanswered(d, kind) /\ reply # kind
  <2> DEFINE t == Append(d, reply)
  <2>1. /\ Len(t) = Len(d) + 1 /\ t[Len(d) + 1] = reply
        /\ \A i \in 1..Len(d) : t[i] = d[i]
    BY AppendProperties
  <2>2. \A i \in 1..Len(t) : i \in 1..Len(d) \/ i = Len(d) + 1
    BY <2>1
  <2>3. Len(d) + 1 \in 1..Len(t) /\ \A i \in 1..Len(d) : i \in 1..Len(t)
    BY <2>1
  <2> HIDE DEF t
  <2>4. QED
    BY <2>1, <2>2, <2>3 DEF Unanswered, t
<1>2. ASSUME d # <<>>, NEW kind
      PROVE  Unanswered(d, kind) <=> Head(d) # kind /\ Unanswered(Tail(d), kind)
  <2> DEFINE t == Tail(d)
  <2>1. Len(t) = Len(d) - 1 /\ \A i \in 1..Len(t) : t[i] = d[i + 1]
    BY <1>2, HeadTailProperties
  <2>2. Len(d) \in Nat \ {0} /\ Head(d) = d[1]
    BY <1>2
  <2>3. \A i \in 1..Len(d) : i = 1 \/ (i - 1 \in 1..Len(t) /\ t[i - 1] = d[i])
    BY <2>1, <2>2
  <2>4. 1 \in 1..Len(d) /\ \A i \in 1..Len(t) : i + 1 \in 1..Len(d) /\ t[i] = d[i + 1]
    BY <2>1, <2>2
  <2> HIDE DEF t
  <2>5. QED
    BY <2>2, <2>3, <2>4 DEF Unanswered, t
<1>3. QED
  BY <1>1, <1>2

------------------------------------------------------------------------------
(* Core 1: what each call leaves of the invariant. *)

(* What any step of core 1 keeps that opens and announces nothing. *)
OnwardOnly ==
    /\ BooksAgree' /\ OneConnect' /\ UNCHANGED <<owner, port, alive>>
    /\ Established' => Established
    /\ Established' =>
        /\ Calling(port)' => Calling(port)
        /\ InTurn(stream[port])'
        /\ Lacks(stream[port], "ONLINE") <=> Lacks(stream[port], "ONLINE")'
        /\ at' = "connack" /\ Lacks(stream[port], "SUBSCRIBE") => Lacks(stream[port], "SUBSCRIBE")'

LEMMA Onward ==
  ASSUME HInv, OnwardOnly, at' \in Connected,
         \A kind : Unanswered(down, kind) => Unanswered(down, kind)',
         at' = "connack" => at = "connack", at' \in Announced => at \in Announced,
         at' \in Subscribing => at \in Subscribing \/ ~Unanswered(down, "SUBACK")
  PROVE  HInv'
<1>1. NothingLeftOver'
  BY DEF NothingLeftOver
<1>2. ReadInTurn'
  BY DEF HInv, OnwardOnly, ReadInTurn
<1>3. QED
  BY <1>1, <1>2 DEF HInv, OnwardOnly

(* Leaving the connection alone. *)
LEMMA KeptAlone ==
  ASSUME HInv, UNCHANGED <<stream, open, owner, port, alive>>, Established' => Established
  PROVE  OnwardOnly
  BY DEF HInv, BooksAgree, OneConnect, Calling, ReadInTurn, OnwardOnly

(* Writing to it: a CONNECT is never written here. *)
LEMMA Wrote ==
  ASSUME IInv, HInv, NEW kind \in Requests \ {"CONNECT"}, Write(kind),
         UNCHANGED <<open, owner, port, alive>>
  PROVE  /\ BooksAgree' /\ OneConnect' /\ Established
         /\ Established' =>
             /\ Calling(port)' => Calling(port)
             /\ kind # "ONLINE" \/ Lacks(stream[port], "SUBSCRIBE") => InTurn(stream[port])'
             /\ kind # "ONLINE" =>
                   (Lacks(stream[port], "ONLINE") <=> Lacks(stream[port], "ONLINE")')
             /\ kind # "SUBSCRIBE" =>
                   (Lacks(stream[port], "SUBSCRIBE") => Lacks(stream[port], "SUBSCRIBE")')
             /\ port \in open => ~Lacks(stream[port], kind)'
<1> DEFINE s == stream[port]
           e == Packet(kind)
<1>1. s \in Seq(Packets) /\ e \in Packets /\ e.kind = kind /\ kind # "CONNECT" /\ Established
  BY PacketType DEF IInv, Shape, Write
<1>2. Once(s) /\ InTurn(s) /\ port \in Ports
  BY <1>1 DEF HInv, OneConnect, ReadInTurn, IInv, Shape
<1>3. CASE port \notin open
  <2>1. stream' = stream
    BY <1>3 DEF Write
  <2> QED
    BY <1>1, <1>2, <1>3, <2>1 DEF HInv, BooksAgree, OneConnect, Calling
<1>4. CASE port \in open
  <2> DEFINE t == Append(s, e)
  <2>1. stream' = [stream EXCEPT ![port] = t]
    BY <1>4 DEF Write
  <2>2. stream'[port] = t /\ \A p \in Ports \ {port} : stream'[p] = stream[p]
    BY <1>2, <2>1 DEF IInv, Shape
  <2>3. /\ t # <<>> /\ Once(t)
        /\ \A k : Lacks(t, k) <=> Lacks(s, k) /\ kind # k
        /\ kind # "ONLINE" \/ Lacks(s, "SUBSCRIBE") => InTurn(t)
    BY <1>1, <1>2, AppendOf
  <2>4. Head(t) = IF s = <<>> THEN e ELSE Head(s)
    BY <1>1, AppendHead
  <2> HIDE DEF t
  <2>5. Calling(port)' => Calling(port)
    BY <1>1, <2>2, <2>4 DEF Calling
  <2>6. BooksAgree'
    BY <1>4, <2>2 DEF HInv, BooksAgree
  <2>7. OneConnect'
    BY <2>2, <2>3, <2>5 DEF HInv, OneConnect, Calling
  <2> QED
    BY <1>1, <2>2, <2>3, <2>5, <2>6, <2>7
<1>5. QED
  BY <1>3, <1>4

LEMMA WroteOnward ==
  ASSUME IInv, HInv, NEW kind \in Requests \ {"CONNECT", "ONLINE"}, Write(kind),
         UNCHANGED <<open, owner, port, alive>>, kind = "SUBSCRIBE" => at' # "connack"
  PROVE  OnwardOnly
  BY Wrote DEF OnwardOnly

LEMMA KeepaliveOnward ==
  ASSUME IInv, HInv, NEW out, Keepalive(out), UNCHANGED <<open, owner, port, alive>>
  PROVE  OnwardOnly
<1>1. CASE Established /\ sent >= KeepAlive /\ ~out
  BY <1>1, WroteOnward DEF Keepalive, Requests
<1>2. CASE ~(Established /\ sent >= KeepAlive /\ ~out)
  BY <1>2, KeptAlone DEF Keepalive, Established
<1>3. QED
  BY <1>1, <1>2

LEMMA ReadOnward ==
  ASSUME TInv, down' = down \/ (down # <<>> /\ down' = Tail(down))
  PROVE  \A kind : Unanswered(down, kind) => Unanswered(down, kind)'
  BY Answered DEF TInv, Spans, Unanswered

LEMMA CycleOnward ==
  ASSUME IInv, TInv, HInv, Cycle
  PROVE  OnwardOnly /\ \A kind : Unanswered(down, kind) => Unanswered(down, kind)'
<1>1. UNCHANGED <<open, owner, port, alive>> /\ down # <<>> /\ down' = Tail(down)
  BY DEF Cycle, Readable
<1>2. CASE Head(down) = "PUBLISH"
  BY <1>1, <1>2, WroteOnward, ReadOnward DEF Cycle, Requests
<1>3. CASE Head(down) # "PUBLISH"
  BY <1>1, <1>3, KeepaliveOnward, ReadOnward DEF Cycle
<1>4. QED
  BY <1>2, <1>3

LEMMA HangupIsOrderly ==
  ASSUME IInv, HInv, EndSession
  PROVE  HInv'
<1> DEFINE s == stream[port]
<1>1. /\ Hangup /\ at' = "backoff" /\ down' = <<>> /\ ~Established'
      /\ UNCHANGED <<open, owner, port>>
  BY DEF EndSession, Sleep, Hangup, Established
<1>2. s \in Seq(Packets) /\ Once(s) /\ port \in Ports
  BY DEF IInv, Shape, HInv, OneConnect
<1>3. CASE port \notin open
  BY <1>1, <1>3 DEF Hangup, HInv, BooksAgree, OneConnect, Calling, NothingLeftOver, ReadInTurn
<1>4. ASSUME port \in open, NEW t \in Seq(Packets), stream' = [stream EXCEPT ![port] = t],
             Once(t), t # <<>> => (s # <<>> /\ Head(t) = Head(s)) \/ Head(t).kind = "FIN"
      PROVE  HInv'
  <2>1. stream'[port] = t /\ \A p \in Ports \ {port} : stream'[p] = stream[p]
    BY <1>2, <1>4 DEF IInv, Shape
  <2>2. BooksAgree'
    BY <1>1, <1>4, <2>1 DEF HInv, BooksAgree
  <2>3. OneConnect'
    BY <1>1, <1>4, <2>1 DEF HInv, OneConnect, Calling
  <2> QED
    BY <1>1, <2>2, <2>3 DEF HInv, NothingLeftOver, ReadInTurn
<1>5. CASE port \in open /\ wire /\ Established
  <2> DEFINE t == Append(s, Packet("FIN"))
  <2>1. Packet("FIN") \in Packets /\ Packet("FIN").kind = "FIN" /\ InTurn(s)
    BY <1>5, PacketType DEF Requests, HInv, ReadInTurn
  <2>2. Once(t) /\ t \in Seq(Packets)
    BY <1>2, <2>1, AppendOf, AppendHead
  <2>3. Head(t) = IF s = <<>> THEN Packet("FIN") ELSE Head(s)
    BY <1>2, <2>1, AppendHead
  <2>4. stream' = [stream EXCEPT ![port] = t]
    BY <1>1, <1>5 DEF Hangup
  <2> HIDE DEF t
  <2> QED
    BY <1>4, <1>5, <2>1, <2>2, <2>3, <2>4
<1>6. CASE port \in open /\ ~(wire /\ Established)
  <2>1. PICK n \in 0..Len(s) : stream' = [stream EXCEPT ![port] = SubSeq(@, 1, n)]
    BY <1>1, <1>6 DEF Hangup
  <2> DEFINE t == SubSeq(s, 1, n)
  <2>2. Once(t) /\ t \in Seq(Packets) /\ (t # <<>> => s # <<>> /\ Head(t) = Head(s))
    BY <1>2, PrefixOf, PrefixHead
  <2>3. stream' = [stream EXCEPT ![port] = t]
    BY <2>1
  <2> HIDE DEF t
  <2> QED
    BY <1>4, <1>6, <2>2, <2>3
<1>7. QED
  BY <1>3, <1>5, <1>6

(* A port dialled anew holds the CONNECT, one that is refused a FIN. *)
LEMMA DialIsOrderly ==
  ASSUME IInv, HInv, Dial
  PROVE  HInv'
<1>1. /\ at = "dial" /\ port' \in Ports /\ ~Established
      /\ UNCHANGED <<owner, alive, down>>
  <2>1. port \in 0..LastPort /\ LastPort \in Nat
    BY SpanAssumption DEF IInv, Shape, Ports
  <2>2. NextPort \in 0..LastPort
    BY <2>1 DEF NextPort
  <2> QED
    BY <2>2 DEF Dial, world, Ports, IInv, SocketIsUsed, Connected, Awaiting, Served
<1>2. down = <<>>
  BY <1>1 DEF HInv, NothingLeftOver, Connected, Awaiting, Served
<1>3. ASSUME NEW e \in Packets
      PROVE  /\ Once(<<e>>) /\ InTurn(<<e>>)
             /\ \A kind : e.kind # kind => Lacks(<<e>>, kind)
  BY DEF Once, InTurn, Lacks
<1>4. CASE wire /\ port' \notin open
  <2> DEFINE t == <<Packet("CONNECT")>>
  <2>1. at' = "connack" /\ open' = open \cup {port'} /\ stream' = [stream EXCEPT ![port'] = t]
    BY <1>4 DEF Dial
  <2>2. Packet("CONNECT") \in Packets /\ Packet("CONNECT").kind = "CONNECT"
    BY PacketType DEF Requests
  <2>3. Once(t) /\ InTurn(t) /\ Lacks(t, "ONLINE") /\ Lacks(t, "SUBSCRIBE")
    BY <1>3, <2>2
  <2> HIDE DEF t
  <2>4. stream'[port'] = t /\ \A q \in Ports \ {port'} : stream'[q] = stream[q]
    BY <1>1, <2>1 DEF IInv, Shape
  <2>5. owner # port'
    BY <1>1, <1>4, PortsAreNumbers DEF HInv, BooksAgree
  <2>6. BooksAgree'
    BY <1>1, <2>1, <2>4 DEF HInv, BooksAgree
  <2>7. OneConnect'
    BY <1>1, <2>3, <2>4, <2>5 DEF HInv, OneConnect, Calling
  <2>8. NothingLeftOver' /\ ReadInTurn'
    BY <1>1, <1>2, <2>1, <2>3, <2>4
    DEF NothingLeftOver, ReadInTurn, Unanswered, Announced, Subscribing, Served
  <2> QED
    BY <2>6, <2>7, <2>8 DEF HInv
<1>5. CASE ~(wire /\ port' \notin open)
  <2> DEFINE t == <<Packet("FIN")>>
  <2>1. /\ stream' = IF wire THEN [stream EXCEPT ![port'] = t] ELSE stream
        /\ socket' = socket /\ open' = open /\ (wire => port' \in open)
    BY <1>5 DEF Dial
  <2>2. Packet("FIN") \in Packets /\ Packet("FIN").kind = "FIN"
    BY PacketType DEF Requests
  <2>3. Once(t) /\ Head(t).kind = "FIN"
    BY <1>3, <2>2
  <2> HIDE DEF t
  <2>4. \A q \in Ports : stream'[q] = stream[q] \/ (stream'[q] = t /\ q \in open)
    BY <1>1, <2>1 DEF IInv, Shape
  <2>5. BooksAgree' /\ OneConnect'
    BY <1>1, <2>1, <2>3, <2>4 DEF HInv, BooksAgree, OneConnect, Calling
  <2>6. NothingLeftOver' /\ ReadInTurn'
    BY <1>1, <1>2, <2>1 DEF NothingLeftOver, ReadInTurn, Established
  <2> QED
    BY <2>5, <2>6 DEF HInv
<1>6. QED
  BY <1>4, <1>5

(* The announcement goes out behind the CONNECT the broker has read, and ahead *)
(* of the subscription.                                                        *)
LEMMA AnnounceIsOrderly ==
  ASSUME IInv, TInv, HInv, Announce
  PROVE  HInv'
<1>1. CASE ~Established
  BY <1>1, HangupIsOrderly DEF Announce, Request
<1>2. CASE Established
  <2>1. /\ at = "connack" /\ down # <<>> /\ Head(down) = "CONNACK" /\ down' = Tail(down)
        /\ at' = "alive" /\ Write("ONLINE") /\ UNCHANGED <<open, owner, port, alive>>
    BY <1>2 DEF Announce, Request, Reads, Readable
  <2>2. ~Unanswered(down, "CONNACK")
    BY <2>1, Answered DEF TInv, Spans
  <2>3. /\ ~Calling(port) /\ Lacks(stream[port], "SUBSCRIBE") /\ Unanswered(down, "SUBACK")
    BY <1>2, <2>1, <2>2 DEF HInv, ReadInTurn
  <2>4. Unanswered(down, "SUBACK")'
    BY <2>1, <2>3, ReadOnward
  <2>5. /\ BooksAgree' /\ OneConnect'
        /\ Established' => /\ ~Calling(port)' /\ InTurn(stream[port])'
                           /\ port \in open => ~Lacks(stream[port], "ONLINE")'
    BY <2>1, <2>3, Wrote DEF Requests
  <2>6. owner = port => port \in open
    BY PortsAreNumbers DEF HInv, BooksAgree, IInv, Shape
  <2>7. ReadInTurn'
    BY <2>1, <2>4, <2>5, <2>6 DEF ReadInTurn, Announced, Subscribing, Served
  <2>8. NothingLeftOver'
    BY <2>1 DEF NothingLeftOver, Connected, Awaiting
  <2> QED
    BY <2>5, <2>7, <2>8 DEF HInv
<1>3. QED
  BY <1>1, <1>2

LEMMA RequestIsOrderly ==
  ASSUME IInv, TInv, HInv, NEW kind \in Requests \ {"CONNECT", "ONLINE"},
         NEW place \in Announced, Request(kind, place), at \in Announced,
         place \in Subscribing => at \in Subscribing,
         Established => down' = down \/ (down # <<>> /\ down' = Tail(down))
  PROVE  HInv'
<1> USE DEF Announced, Subscribing, Served, Connected, Awaiting
<1>1. CASE ~Established
  BY <1>1, HangupIsOrderly DEF Request
<1>2. CASE Established
  <2>1. Write(kind) /\ at' = place /\ UNCHANGED <<open, owner, port, alive>>
    BY <1>2 DEF Request
  <2>2. OnwardOnly
    BY <2>1, WroteOnward
  <2> QED
    BY <1>2, <2>1, <2>2, ReadOnward, Onward
<1>3. QED
  BY <1>1, <1>2

LEMMA Core1IsOrderly ==
  ASSUME IInv, TInv, HInv, Core1 \/ Publish
  PROVE  HInv'
<1> USE DEF Announced, Subscribing, Served, Connected, Awaiting
<1>1. CASE InitWorks \/ InitFails \/ Wake
  BY <1>1 DEF InitWorks, InitFails, Wake, host, world, HInv, BooksAgree, OneConnect, Calling,
              NothingLeftOver, ReadInTurn, Established, IInv, SocketIsUsed
<1>2. CASE Dial
  BY <1>2, DialIsOrderly
<1>3. CASE Announce
  BY <1>3, AnnounceIsOrderly
<1>4. CASE GoOn("alive", "ERROR", "error") \/ GoOn("error", "SUBSCRIBE", "subscribe")
  BY <1>4, RequestIsOrderly DEF GoOn, Requests, Reads, Readable
<1>5. CASE Publish
  BY <1>5, RequestIsOrderly DEF Publish, Requests
<1>6. CASE GivesUp \/ Notice \/ YieldFails
  BY <1>6, HangupIsOrderly DEF GivesUp, Notice, YieldFails
<1>7. CASE Subscribed \/ Settled \/ Read \/ Published
  <2>1. /\ UNCHANGED <<stream, open, owner, port, alive, socket>>
        /\ down' = down \/ (down # <<>> /\ down' = Tail(down))
    BY <1>7 DEF Subscribed, Settled, Read, Published, host, world, Reads, Readable
  <2>2. OnwardOnly
    BY <2>1, KeptAlone DEF Established
  <2>3. CASE Subscribed
    <3>1. at = "subscribe" /\ at' = "settle" /\ down # <<>> /\ Head(down) = "SUBACK"
      BY <2>3 DEF Subscribed, Reads, Readable
    <3>2. ~Unanswered(down, "SUBACK")
      BY <3>1, Answered DEF TInv, Spans
    <3> QED
      BY <2>1, <2>2, <3>1, <3>2, ReadOnward, Onward
  <2>4. CASE Settled \/ Read \/ Published
    <3>1. at \in Subscribing /\ at' \in Served
      BY <2>4 DEF Settled, Read, Published
    <3> QED
      BY <2>1, <2>2, <3>1, ReadOnward, Onward
  <2> QED
    BY <1>7, <2>3, <2>4
<1>8. CASE PassOver
  <2>1. at \in Connected /\ at' = at
    BY <1>8 DEF PassOver, Expects
  <2>2. CASE Cycle
    BY <2>1, <2>2, CycleOnward, Onward
  <2>3. CASE ~Cycle
    <3>1. /\ UNCHANGED <<stream, open, owner, port, alive, socket>>
          /\ down # <<>> /\ down' = Tail(down)
      BY <1>8, <2>3 DEF PassOver, host, world, Readable
    <3> QED
      BY <2>1, <3>1, KeptAlone, ReadOnward, Onward DEF Established
  <2> QED
    BY <2>2, <2>3
<1>9. CASE YieldReads
  <2>1. Cycle /\ at = "yield" /\ at' \in {"yield", "watch"}
    BY <1>9 DEF YieldReads
  <2> QED
    BY <2>1, CycleOnward, Onward
<1>10. CASE Idle \/ YieldEnds
  <2>1. /\ at \in Served /\ at' = "watch" /\ down' = down /\ Keepalive(outstanding)
        /\ UNCHANGED <<open, owner, port, alive>>
    BY <1>10 DEF Idle, YieldEnds
  <2> QED
    BY <2>1, KeepaliveOnward, ReadOnward, Onward
<1>11. CASE Watch /\ Overdue
  BY <1>11, HangupIsOrderly DEF Watch
<1>12. CASE Watch /\ ~Overdue
  <2>1. /\ at = "watch" /\ at' = "poll" /\ down' = down
        /\ UNCHANGED <<stream, open, owner, port, alive, socket>>
    BY <1>12 DEF Watch, host
  <2> QED
    BY <2>1, KeptAlone, ReadOnward, Onward DEF Established
<1>13. QED
  BY <1>1, <1>2, <1>3, <1>4, <1>5, <1>6, <1>7, <1>8, <1>9, <1>10, <1>11, <1>12
  DEF Core1, Init1, Connect1, Session1

------------------------------------------------------------------------------
(* The broker, the environment and time. *)

LEMMA CloseIsOrderly ==
  ASSUME IInv, HInv, NEW p \in Ports, Close(p), UNCHANGED <<at, port>>,
         at \in Connected \/ down' = down,
         \A kind \in {"CONNACK", "SUBACK"} : Unanswered(down, kind) => Unanswered(down, kind)'
  PROVE  HInv'
<1>1. /\ open' = open \ {p} /\ stream' = [stream EXCEPT ![p] = <<>>]
      /\ IF p = owner THEN owner' = None ELSE UNCHANGED <<owner, alive>>
      /\ Established' => Established
  BY DEF Close, Established
<1>2. /\ \A q \in Ports : stream'[q] = IF q = p THEN <<>> ELSE stream[q]
      /\ \A q \in Ports : Lacks(stream[q], "ONLINE") => Lacks(stream[q], "ONLINE")'
      /\ port \in Ports /\ p # None
  BY <1>1, PortsAreNumbers DEF IInv, Shape, Lacks
<1>3. BooksAgree'
  BY <1>1, <1>2 DEF HInv, BooksAgree
<1>4. OneConnect'
  <2>1. Once(<<>>)
    BY DEF Once
  <2>2. \A q \in Ports : owner' = q => owner = q
    BY <1>1, PortsAreNumbers
  <2> QED
    BY <1>2, <2>1, <2>2 DEF HInv, OneConnect, Calling
<1>5. NothingLeftOver'
  BY DEF HInv, NothingLeftOver
<1>6. ASSUME Established'
      PROVE  ReadInTurn'
  <2>1. InTurn(<<>>) /\ Lacks(<<>>, "ONLINE") /\ Lacks(<<>>, "SUBSCRIBE")
    BY DEF InTurn, Lacks
  <2>2. CASE p = port
    <3>1. stream'[port'] = <<>> /\ owner' # port'
      BY <1>1, <1>2, <2>2, PortsAreNumbers DEF IInv, Shape
    <3> QED
      BY <1>1, <1>6, <2>1, <3>1 DEF HInv, ReadInTurn, Calling
  <2>3. CASE p # port
    <3>1. stream'[port'] = stream[port] /\ (owner' = port' => owner = port /\ alive' = alive)
      BY <1>1, <1>2, <2>3, PortsAreNumbers
    <3> QED
      BY <1>1, <1>6, <3>1 DEF HInv, ReadInTurn, Calling
  <2> QED
    BY <2>2, <2>3
<1>7. QED
  BY <1>3, <1>4, <1>5, <1>6 DEF HInv, ReadInTurn

LEMMA ReplyIsOrderly ==
  ASSUME IInv, TInv, NEW p \in Ports, NEW reply \in Replies, Reply(p, reply)
  PROVE  /\ at \in Connected \/ down' = down
         /\ \A kind : Unanswered(down, kind) /\ (kind # reply \/ p # port) => Unanswered(down, kind)'
<1>1. CASE p = port /\ Established
  <2>1. down' = Append(down, reply) /\ down \in Seq(Replies) /\ at \in Connected
    BY <1>1 DEF Reply, TInv, Spans, IInv, SocketIsUsed
  <2> QED
    BY <1>1, <2>1, Answered
<1>2. CASE ~(p = port /\ Established)
  BY <1>2 DEF Reply, Unanswered, IInv, SocketIsUsed
<1>3. QED
  BY <1>1, <1>2

(* One packet of p is read: the rest of its stream is in order. *)
LEMMA OneRead ==
  ASSUME IInv, HInv, NEW p \in Ports, stream[p] # <<>>, InTurn(stream[p]),
         stream'[p] = Tail(stream[p])
  PROVE  /\ \A kind : Lacks(stream[p], kind) <=>
                          Head(stream[p]).kind # kind /\ Lacks(stream[p], kind)'
         /\ Once(stream[p])' /\ InTurn(stream[p])' /\ ~Calling(p)'
         /\ Head(stream[p]).kind = "SUBSCRIBE" => Lacks(stream[p], "ONLINE")'
<1>1. stream[p] \in Seq(Packets) /\ Once(stream[p])
  BY DEF IInv, Shape, HInv, OneConnect
<1>2. QED
  BY <1>1, TailOf DEF Calling

LEMMA OnceRead ==
  ASSUME NEW s \in Seq(Packets), s # <<>>, Once(s)
  PROVE  Once(Tail(s)) /\ (Tail(s) # <<>> => Head(Tail(s)).kind # "CONNECT")
<1>1. /\ Tail(s) \in Seq(Packets) /\ Len(Tail(s)) = Len(s) - 1
      /\ \A i \in 1..Len(Tail(s)) : Tail(s)[i] = s[i + 1]
  BY HeadTailProperties
<1>2. \A i \in 1..Len(Tail(s)) : i + 1 \in 2..Len(s)
  BY <1>1
<1>3. \A i \in 1..Len(Tail(s)) : Tail(s)[i].kind # "CONNECT"
  BY <1>1, <1>2 DEF Once
<1>4. \A i \in 2..Len(Tail(s)) : i \in 1..Len(Tail(s))
  OBVIOUS
<1>5. Tail(s) # <<>> => 1 \in 1..Len(Tail(s)) /\ Head(Tail(s)) = Tail(s)[1]
  BY <1>1
<1>6. QED
  BY <1>3, <1>4, <1>5 DEF Once

LEMMA TakeOverIsOrderly ==
  ASSUME IInv, TInv, HInv, NEW p \in Ports, TakeOver(p), Calling(p), UNCHANGED <<at, port>>
  PROVE  HInv'
<1>1. /\ owner' = p /\ open' = open \ {owner}
      /\ stream' = [q \in Ports |-> IF q = p THEN Tail(stream[p])
                                    ELSE IF q = owner THEN <<>> ELSE stream[q]]
      /\ Established' => Established /\ owner # port
      /\ Reply(p, "CONNACK")
  BY DEF TakeOver, Established
<1>2. /\ stream[p] # <<>> /\ owner # p /\ p \in open /\ port \in Ports
      /\ stream[p] \in Seq(Packets) /\ Once(stream[p])
  BY DEF Calling, HInv, OneConnect, BooksAgree, IInv, Shape
<1>3. Once(Tail(stream[p])) /\ ~Calling(p)'
  BY <1>1, <1>2, OnceRead DEF Calling
<1>4. BooksAgree'
  BY <1>1, <1>2 DEF HInv, BooksAgree
<1>5. OneConnect'
  <2>1. Once(<<>>)
    BY DEF Once
  <2> QED
    BY <1>1, <1>3, <2>1 DEF HInv, OneConnect, Calling
<1>6. /\ at \in Connected \/ down' = down
      /\ \A kind : Unanswered(down, kind) /\ (kind # "CONNACK" \/ p # port) => Unanswered(down, kind)'
  BY <1>1, ReplyIsOrderly DEF Replies
<1>7. NothingLeftOver'
  BY <1>6 DEF HInv, NothingLeftOver
<1>8. ASSUME Established'
      PROVE  ReadInTurn'
  <2>1. CASE p = port
    <3>1. at \notin Announced
      BY <1>1, <1>8, <2>1 DEF HInv, ReadInTurn
    <3>2. InTurn(stream[p]) /\ stream'[p] = Tail(stream[p])
      BY <1>1, <1>8, <2>1 DEF HInv, ReadInTurn
    <3>3. /\ \A kind : Lacks(stream[p], kind) => Lacks(stream[p], kind)'
          /\ InTurn(stream[p])' /\ ~Calling(p)'
      BY <1>2, <3>2, OneRead
    <3> QED
      BY <1>1, <1>6, <1>8, <2>1, <3>1, <3>3 DEF HInv, ReadInTurn, Announced
  <2>2. CASE p # port
    <3>1. stream'[port'] = stream[port] /\ owner' # port'
      BY <1>1, <1>2, <1>8, <2>2
    <3> QED
      BY <1>1, <1>6, <1>8, <2>2, <3>1 DEF HInv, ReadInTurn, Calling
  <2> QED
    BY <2>1, <2>2
<1>9. QED
  BY <1>4, <1>5, <1>7, <1>8 DEF HInv, ReadInTurn

(* The broker reads something else than a CONNECT or a FIN, and answers it.    *)
LEMMA ServeIsOrderly ==
  ASSUME IInv, TInv, HInv, NEW p \in Ports, stream[p] # <<>>,
         Head(stream[p]).kind \notin {"CONNECT", "FIN"},
         stream' = [stream EXCEPT ![p] = Tail(@)],
         alive' = IF Head(stream[p]).kind = "ONLINE" THEN "online" ELSE alive,
         UNCHANGED <<at, port, open, owner, socket>>,
         down' = down \/ (Head(stream[p]).kind # "PUBACK" /\ Reply(p, Answer[Head(stream[p]).kind]))
  PROVE  HInv'
<1> DEFINE kind == Head(stream[p]).kind
<1>1. /\ stream[p] \in Seq(Packets) /\ Once(stream[p]) /\ p \in open
      /\ stream'[p] = Tail(stream[p]) /\ port \in Ports /\ owner = p
      /\ \A q \in Ports \ {p} : stream'[q] = stream[q]
  BY DEF HInv, OneConnect, BooksAgree, IInv, Shape, OthersAreNotHeard
<1>2. kind \in Requests
  <2>1. Head(stream[p]) \in Packets
    BY <1>1, HeadTailProperties
  <2> QED
    BY <2>1 DEF Packets
<1>3. Once(Tail(stream[p])) /\ ~Calling(p)'
  BY <1>1, OnceRead DEF Calling
<1>4. BooksAgree' /\ OneConnect'
  BY <1>1, <1>3 DEF HInv, BooksAgree, OneConnect, Calling
<1>5. /\ at \in Connected \/ down' = down
      /\ Unanswered(down, "CONNACK") => Unanswered(down, "CONNACK")'
      /\ Unanswered(down, "SUBACK") /\ (kind # "SUBSCRIBE" \/ p # port) => Unanswered(down, "SUBACK")'
  <2>1. CASE down' = down
    BY <2>1 DEF Unanswered
  <2>2. CASE kind # "PUBACK" /\ Reply(p, Answer[kind])
    <3>1. /\ Answer[kind] \in Replies /\ Answer[kind] # "CONNACK"
          /\ kind # "SUBSCRIBE" => Answer[kind] # "SUBACK"
      BY <1>2, <2>2 DEF Requests, Answer, Replies
    <3> QED
      BY <2>2, <3>1, ReplyIsOrderly
  <2> QED
    BY <2>1, <2>2
<1>6. NothingLeftOver'
  BY <1>5 DEF HInv, NothingLeftOver
<1>7. ASSUME Established
      PROVE  ReadInTurn'
  <2>1. CASE p = port
    <3>1. InTurn(stream[p])
      BY <1>7, <2>1 DEF HInv, ReadInTurn
    <3>2. /\ \A k : Lacks(stream[p], k) <=> kind # k /\ Lacks(stream[p], k)'
          /\ InTurn(stream[p])' /\ ~Calling(p)'
          /\ kind = "SUBSCRIBE" => Lacks(stream[p], "ONLINE")'
      BY <1>1, <3>1, OneRead
    <3>3. at = "connack" => kind # "SUBSCRIBE" /\ kind # "ONLINE"
      BY <1>7, <2>1, <3>2 DEF HInv, ReadInTurn
    <3> HIDE DEF kind
    <3> QED
      BY <1>1, <1>5, <1>7, <2>1, <3>2, <3>3 DEF HInv, ReadInTurn, kind
  <2>2. CASE p # port
    BY <1>1, <1>5, <1>7, <2>2 DEF HInv, ReadInTurn, Calling
  <2> QED
    BY <2>1, <2>2
<1>8. QED
  BY <1>4, <1>6, <1>7 DEF HInv, ReadInTurn, Established

LEMMA BrokerIsOrderly ==
  ASSUME IInv, TInv, HInv, NEW p \in Ports, Receive(p) \/ Drop(p)
  PROVE  HInv'
<1>1. UNCHANGED <<at, port>>
  BY DEF Receive, Drop, core1
<1>2. CASE Drop(p)
  BY <1>1, <1>2, CloseIsOrderly DEF Drop, Unanswered
<1>3. CASE Receive(p)
  <2> DEFINE kind == Head(stream[p]).kind
  <2>1. stream[p] # <<>>
    BY <1>3 DEF Receive
  <2>2. CASE kind = "CONNECT" /\ TakeOver(p)
    BY <1>1, <2>1, <2>2, TakeOverIsOrderly DEF Calling
  <2>3. CASE kind = "CONNECT" /\ Refuse(p)
    <3>1. Close(p) /\ Reply(p, "REFUSED")
      BY <2>3 DEF Refuse
    <3> QED
      BY <1>1, <3>1, ReplyIsOrderly, CloseIsOrderly DEF Replies
  <2>4. CASE kind = "FIN" /\ Close(p) /\ down' = down
    BY <1>1, <2>4, CloseIsOrderly DEF Unanswered
  <2>5. CASE /\ kind \notin {"CONNECT", "FIN"}
             /\ stream' = [stream EXCEPT ![p] = Tail(@)]
             /\ alive' = IF kind = "ONLINE" THEN "online" ELSE alive
             /\ IF kind = "PUBACK" THEN UNCHANGED down ELSE Reply(p, Answer[kind])
             /\ UNCHANGED <<open, owner, socket>>
    BY <1>1, <2>1, <2>5, ServeIsOrderly
  <2> QED
    BY <1>3, <2>2, <2>3, <2>4, <2>5 DEF Receive
<1>4. QED
  BY <1>2, <1>3

LEMMA EnvironmentIsOrderly ==
  ASSUME IInv, TInv, HInv, Environment
  PROVE  HInv'
<1>1. CASE Freeze \/ Thaw \/ Cut \/ Mend \/ SocketCloses
  <2>1. /\ UNCHANGED <<stream, open, owner, port, alive, at, down>>
        /\ Established' => Established
    BY <1>1 DEF Freeze, Thaw, Cut, Mend, SocketCloses, host, core1, Established
  <2> QED
    BY <2>1 DEF HInv, BooksAgree, OneConnect, Calling, NothingLeftOver, ReadInTurn
<1>2. CASE Command
  <2>1. /\ UNCHANGED <<stream, open, owner, port, alive, at, socket>>
        /\ at \in Connected /\ down' = Append(down, "PUBLISH") /\ down \in Seq(Replies)
    BY <1>2 DEF Command, host, core1, Connected, TInv, Spans
  <2>2. \A kind \in {"CONNACK", "SUBACK"} : Unanswered(down, kind)' <=> Unanswered(down, kind)
    BY <2>1, Answered DEF Replies
  <2> QED
    BY <2>1, <2>2
    DEF HInv, BooksAgree, OneConnect, Calling, NothingLeftOver, ReadInTurn, Established
<1>3. CASE Restart
  <2>1. /\ open' = {} /\ owner' = None /\ stream' = [p \in Ports |-> <<>>]
        /\ UNCHANGED <<at, port, down>> /\ (Established' => Established)
    BY <1>3 DEF Restart, core1, Established
  <2>2. Once(<<>>) /\ InTurn(<<>>) /\ \A kind : Lacks(<<>>, kind)
    BY DEF Once, InTurn, Lacks
  <2>3. port \in Ports /\ None \notin Ports
    BY PortsAreNumbers DEF IInv, Shape
  <2>4. BooksAgree' /\ OneConnect' /\ NothingLeftOver'
    BY <2>1, <2>2, <2>3 DEF HInv, BooksAgree, OneConnect, Calling, NothingLeftOver
  <2>5. ReadInTurn'
    BY <2>1, <2>2, <2>3 DEF HInv, ReadInTurn, Calling
  <2> QED
    BY <2>4, <2>5 DEF HInv
<1>4. CASE PowerCut
  <2>1. /\ UNCHANGED <<stream, open, owner>> /\ down' = <<>> /\ ~Established'
    BY <1>4 DEF PowerCut, host, Established
  <2> QED
    BY <2>1 DEF HInv, BooksAgree, OneConnect, Calling, NothingLeftOver, ReadInTurn
<1>5. CASE PowerUp
  <2>1. /\ UNCHANGED <<stream, open, owner, port, alive, socket, down>>
        /\ at \notin Connected
    BY <1>5 DEF PowerUp, host, Connected, Awaiting, Served
  <2> QED
    BY <2>1 DEF HInv, BooksAgree, OneConnect, Calling, NothingLeftOver, ReadInTurn,
                Established, IInv, SocketIsUsed
<1>6. QED
  BY <1>1, <1>2, <1>3, <1>4, <1>5 DEF Environment

LEMMA TickIsOrderly ==
  ASSUME IInv, HInv, Tick
  PROVE  HInv'
<1>1. UNCHANGED <<at, port, socket, open, owner, alive, down>>
  BY DEF Tick
<1>2. ASSUME NEW p \in Ports
      PROVE  /\ Len(stream'[p]) = Len(stream[p]) /\ Len(stream[p]) \in Nat
             /\ \A i \in 1..Len(stream[p]) : stream'[p][i].kind = stream[p][i].kind
             /\ stream'[p] # <<>> <=> stream[p] # <<>>
             /\ stream[p] # <<>> => Head(stream'[p]).kind = Head(stream[p]).kind
  <2>1. stream[p] \in Seq(Packets) /\ Len(stream[p]) \in Nat
    BY DEF IInv, Shape
  <2> DEFINE older(i) == [stream[p][i] EXCEPT !.age = Upto(@ + 1, Prompt)]
             t == [i \in 1..Len(stream[p]) |-> older(i)]
  <2>2. stream'[p] = t
    BY <2>1 DEF Tick
  <2>3. \A i \in 1..Len(stream[p]) : t[i].kind = stream[p][i].kind
    <3>1. \A i \in 1..Len(stream[p]) : stream[p][i] \in Packets
      BY <2>1, ElementOfSeq
    <3> QED
      BY <3>1 DEF Packets
  <2>4. Len(t) = Len(stream[p]) /\ (t # <<>> <=> stream[p] # <<>>)
    BY <2>1
  <2>5. stream[p] # <<>> => Head(t) = t[1] /\ Head(stream[p]) = stream[p][1] /\ 1 \in 1..Len(stream[p])
    BY <2>1
  <2> HIDE DEF t
  <2> QED
    BY <2>1, <2>2, <2>3, <2>4, <2>5
<1>3. ASSUME NEW p \in Ports
      PROVE  /\ Calling(p)' <=> Calling(p)
             /\ Once(stream[p])' <=> Once(stream[p])
             /\ InTurn(stream[p])' <=> InTurn(stream[p])
             /\ \A kind : Lacks(stream[p], kind)' <=> Lacks(stream[p], kind)
  <2>1. Calling(p)' <=> Calling(p)
    BY <1>2 DEF Calling
  <2>2. Once(stream[p])' <=> Once(stream[p])
    BY <1>2 DEF Once
  <2>3. InTurn(stream[p])' <=> InTurn(stream[p])
    BY <1>2 DEF InTurn
  <2>4. \A kind : Lacks(stream[p], kind)' <=> Lacks(stream[p], kind)
    BY <1>2 DEF Lacks
  <2> QED
    BY <2>1, <2>2, <2>3, <2>4
<1>4. port \in Ports
  BY DEF IInv, Shape
<1>5. BooksAgree' /\ OneConnect' /\ NothingLeftOver'
  BY <1>1, <1>2, <1>3 DEF HInv, BooksAgree, OneConnect, NothingLeftOver
<1>6. ReadInTurn'
  BY <1>1, <1>3, <1>4 DEF HInv, ReadInTurn, Established
<1>7. QED
  BY <1>5, <1>6 DEF HInv

LEMMA InitIsOrderly == LinkInit => HInv
<1> SUFFICES ASSUME LinkInit PROVE HInv
  OBVIOUS
<1>1. \A p \in Ports : stream[p] = <<>>
  BY DEF LinkInit
<1>2. Once(<<>>)
  BY DEF Once
<1>3. None \notin Ports /\ ~Established
  BY PortsAreNumbers DEF LinkInit, Established
<1>4. QED
  BY <1>1, <1>2, <1>3 DEF LinkInit, HInv, BooksAgree, OneConnect, Calling, NothingLeftOver, ReadInTurn

LEMMA WhoIsServedIsAnnounced == IInv /\ TInv /\ HInv /\ [Next]_vars => HInv'
<1> SUFFICES ASSUME IInv, TInv, HInv, [Next]_vars PROVE HInv'
  OBVIOUS
<1>1. CASE Core1 \/ Publish
  BY <1>1, Core1IsOrderly
<1>2. CASE Broker
  BY <1>2, BrokerIsOrderly DEF Broker
<1>3. CASE Environment
  BY <1>3, EnvironmentIsOrderly
<1>4. CASE Tick
  BY <1>4, TickIsOrderly
<1>5. CASE UNCHANGED vars
  BY <1>5 DEF vars, core1, host, HInv, BooksAgree, OneConnect, Calling, NothingLeftOver,
              ReadInTurn, Established
<1>6. QED
  BY <1>1, <1>2, <1>3, <1>4, <1>5 DEF Next

(* The alive topic is honest, for any spans and any number of local ports: who *)
(* is served has been announced, although a lost acknowledgement of "online"   *)
(* is passed over, because the broker reads the announcement before the        *)
(* subscription whose acknowledgement lets the loop begin.                     *)
THEOREM AliveIsAlwaysHonest == Spec => []AliveIsHonest
<1>1. IInv /\ HInv => AliveIsHonest
  BY DEF IInv, HInv, ReadInTurn, AliveIsHonest, Serving, Announced, Subscribing
<1>2. IInv /\ [Next]_vars => IInv'
  BY SessionsKeepTheirWill
<1>3. IInv /\ TInv /\ [Next]_vars => TInv'
  BY SilenceIsWatched
<1>4. QED
  BY InitEstablishes, InitIsTimed, InitIsOrderly, WhoIsServedIsAnnounced, <1>1, <1>2, <1>3, PTL DEF Spec

------------------------------------------------------------------------------
(* Nobody gives up for nothing. *)

(* One of the packets of a kind has waited for so long. *)
Waits(s, kind, span) == \E i \in 1..Len(s) : s[i].kind = kind /\ s[i].age >= span
Young(s) == \A i \in 1..Len(s) : s[i].age <= Prompt

Unharmed == at \in Connected /\ ~upset

(* A connection that has met no fault is read promptly, at both ends. *)
LineIsGood ==
    Unharmed =>
        /\ Established /\ wire /\ broker = "well" /\ port \in open
        /\ Young(stream[port]) /\ Lacks(stream[port], "FIN") /\ Unanswered(down, "REFUSED")
        /\ \A p \in Ports \ {port} : Lacks(stream[p], "CONNECT")

Asked == [connack |-> "CONNECT", alive |-> "ONLINE", error |-> "ERROR",
          subscribe |-> "SUBSCRIBE", publish |-> "PUBLISH"]
Awaited == [connack |-> "CONNACK", alive |-> "PUBACK", error |-> "PUBACK",
            subscribe |-> "SUBACK", publish |-> "PUBACK"]

(* What a call of core 1 waits for has been asked when the call began, and is  *)
(* still to be read by the broker, or by core 1.                               *)
AnswersComeInTime ==
    Unharmed /\ at \in Awaiting =>
        /\ sent + wait <= Timeout
        /\ \/ Waits(stream[port], Asked[at], Timeout - wait)
           \/ ~Unanswered(down, Awaited[at]) /\ Timeout <= wait + Prompt

(* How long the ping that is out has been out at least. *)
Watched == IF pending /\ age > sent THEN age ELSE sent

PingsAreAnswered ==
    Unharmed /\ outstanding =>
        /\ at \in Served
        /\ \/ Waits(stream[port], "PINGREQ", Watched)
           \/ ~Unanswered(down, "PINGRESP") /\ Watched <= Prompt

(* A yield ends in time for the next ping, and the flag of an answered ping is *)
(* cleared before another one goes out.                                        *)
LoopKeepsPace ==
    Unharmed =>
        /\ at = "settle" => sent + wait <= Timeout
        /\ at = "watch" \/ (at = "poll" /\ budget = Burst) => sent < KeepAlive
        /\ at = "yield" => wait <= Timeout /\ (more \/ (wait = Timeout /\ down # <<>>))
        /\ at \in {"poll", "yield"} /\ pending /\ ~outstanding =>
              sent + wait <= Prompt + (IF at = "yield" THEN Timeout ELSE 0)
        /\ at = "poll" /\ pending /\ ~outstanding => budget # Burst

(* The broker's clock for our session is behind core 1's: it has heard what    *)
(* was last sent, or has it still to read.                                     *)
HeardInTime ==
    Unharmed /\ owner = port =>
        IF stream[port] # <<>>
        THEN heard <= KeepAlive + Timeout + Head(stream[port]).age
        ELSE /\ sent < KeepAlive => heard <= sent
             /\ heard + (IF at = "yield" THEN wait ELSE 0)
                  <= KeepAlive + (IF at = "yield" THEN Timeout ELSE 0)

Fine == LineIsGood /\ AnswersComeInTime /\ PingsAreAnswered /\ LoopKeepsPace /\ HeardInTime

LInv == IInv /\ TInv /\ HInv /\ heard \in Nat /\ Fine

LEMMA SpansInOrder ==
    /\ KeepAlive \in Nat /\ Timeout \in Nat /\ Grace \in Nat /\ Prompt \in Nat /\ Burst \in Nat
    /\ 0 < Burst /\ Prompt < Timeout /\ 2 * Timeout < KeepAlive
    /\ KeepAlive + Timeout + Prompt < Grace
  BY SpanAssumption

(* Packets that wait, as the stream grows, is read and grows older. *)
LEMMA WaitsOn ==
  ASSUME NEW s \in Seq(Packets)
  PROVE  /\ \A kind : \A j, k \in Int : j <= k /\ Waits(s, kind, k) => Waits(s, kind, j)
         /\ Young(s) => \A kind : \A k \in Int : Waits(s, kind, k) => k <= Prompt
<1>1. \A i \in 1..Len(s) : s[i].age \in Nat
  <2>1. \A i \in 1..Len(s) : s[i] \in Packets
    BY ElementOfSeq
  <2> QED
    BY <2>1 DEF Packets
<1>2. \A kind : \A j, k \in Int : j <= k /\ Waits(s, kind, k) => Waits(s, kind, j)
  <2> SUFFICES ASSUME NEW kind, NEW j \in Int, NEW k \in Int, j <= k, Waits(s, kind, k)
               PROVE  Waits(s, kind, j)
    OBVIOUS
  <2>1. PICK i \in 1..Len(s) : s[i].kind = kind /\ s[i].age >= k
    BY DEF Waits
  <2>2. s[i].age >= j
    BY <1>1, <2>1
  <2> QED
    BY <2>1, <2>2 DEF Waits
<1>3. Young(s) => \A kind : \A k \in Int : Waits(s, kind, k) => k <= Prompt
  <2> SUFFICES ASSUME Young(s), NEW kind, NEW k \in Int, Waits(s, kind, k) PROVE k <= Prompt
    OBVIOUS
  <2>1. PICK i \in 1..Len(s) : s[i].age >= k
    BY DEF Waits
  <2>2. s[i].age <= Prompt
    BY DEF Young
  <2> QED
    BY <1>1, <2>1, <2>2, SpansInOrder
<1>4. QED
  BY <1>2, <1>3

LEMMA WaitsAppended ==
  ASSUME NEW s \in Seq(Packets), NEW e \in Packets
  PROVE  /\ \A kind, k : Waits(s, kind, k) => Waits(Append(s, e), kind, k)
         /\ \A k \in Int : k <= e.age => Waits(Append(s, e), e.kind, k)
         /\ Young(s) /\ e.age <= Prompt => Young(Append(s, e))
<1> DEFINE t == Append(s, e)
<1>1. /\ Len(t) = Len(s) + 1 /\ t[Len(s) + 1] = e
      /\ \A i \in 1..Len(s) : t[i] = s[i]
  BY AppendProperties
<1>2. Len(s) \in Nat /\ e.age \in Nat
  BY DEF Packets
<1>3. /\ \A i \in 1..Len(t) : i \in 1..Len(s) \/ i = Len(s) + 1
      /\ Len(s) + 1 \in 1..Len(t) /\ \A i \in 1..Len(s) : i \in 1..Len(t)
  BY <1>1, <1>2
<1> HIDE DEF t
<1>4. \A kind, k : Waits(s, kind, k) => Waits(t, kind, k)
  BY <1>1, <1>3 DEF Waits
<1>5. \A k \in Int : k <= e.age => Waits(t, e.kind, k)
  <2> SUFFICES ASSUME NEW k \in Int, k <= e.age PROVE Waits(t, e.kind, k)
    OBVIOUS
  <2>1. t[Len(s) + 1].kind = e.kind /\ t[Len(s) + 1].age >= k
    BY <1>1, <1>2
  <2> QED
    BY <1>3, <2>1 DEF Waits
<1>6. Young(s) /\ e.age <= Prompt => Young(t)
  BY <1>1, <1>3 DEF Young
<1>7. QED
  BY <1>4, <1>5, <1>6 DEF t

LEMMA WaitsRead ==
  ASSUME NEW s \in Seq(Packets), s # <<>>
  PROVE  /\ \A kind, k : Waits(s, kind, k) =>
               Waits(Tail(s), kind, k) \/ (Head(s).kind = kind /\ Head(s).age >= k)
         /\ Young(s) => Young(Tail(s)) /\ Head(s).age <= Prompt
         /\ Head(s) \in Packets
<1> DEFINE t == Tail(s)
<1>1. Len(t) = Len(s) - 1 /\ \A i \in 1..Len(t) : t[i] = s[i + 1]
  BY HeadTailProperties
<1>2. Len(s) \in Nat \ {0} /\ Head(s) = s[1] /\ Head(s) \in Packets
  BY HeadTailProperties
<1>3. \A i \in 1..Len(s) : i = 1 \/ (i - 1 \in 1..Len(t) /\ t[i - 1] = s[i])
  BY <1>1, <1>2
<1>4. 1 \in 1..Len(s) /\ \A i \in 1..Len(t) : i + 1 \in 1..Len(s) /\ t[i] = s[i + 1]
  BY <1>1, <1>2
<1> HIDE DEF t
<1>5. \A kind, k : Waits(s, kind, k) =>
        Waits(t, kind, k) \/ (Head(s).kind = kind /\ Head(s).age >= k)
  BY <1>2, <1>3 DEF Waits
<1>6. Young(s) => Young(t) /\ Head(s).age <= Prompt
  BY <1>2, <1>4 DEF Young
<1>7. QED
  BY <1>2, <1>5, <1>6 DEF t

(* The invariant, on a connection that has met no fault. *)
LEMMA GoodLine ==
  ASSUME LInv, Unharmed
  PROVE  /\ port \in Ports /\ stream[port] \in Seq(Packets) /\ down \in Seq(Replies)
         /\ Established /\ wire /\ broker = "well" /\ port \in open
         /\ Young(stream[port]) /\ Lacks(stream[port], "FIN") /\ Unanswered(down, "REFUSED")
         /\ \A p \in Ports \ {port} : Lacks(stream[p], "CONNECT")
         /\ sent \in 0..KeepAlive /\ age \in 0..KeepAlive /\ wait \in Nat /\ heard \in Nat
         /\ budget \in 0..Burst /\ outstanding \in BOOLEAN /\ pending \in BOOLEAN
  BY DEF LInv, IInv, Shape, TInv, Spans, Fine, LineIsGood

LEMMA PingIsYoung ==
  ASSUME LInv, Unharmed, outstanding
  PROVE  at \in Served /\ Watched <= Prompt /\ sent <= Prompt /\ (pending => age <= Prompt)
<1> USE SpansInOrder
<1>1. Watched \in Int /\ sent <= Watched /\ (pending => age <= Watched)
  BY GoodLine DEF Watched
<1>2. Waits(stream[port], "PINGREQ", Watched) => Watched <= Prompt
  BY <1>1, GoodLine, WaitsOn
<1>3. at \in Served /\ Watched <= Prompt
  BY <1>2 DEF LInv, Fine, PingsAreAnswered
<1>4. QED
  BY <1>1, <1>3, GoodLine

LEMMA AnswerIsSoon ==
  ASSUME LInv, Unharmed, at \in Awaiting
  PROVE  sent <= Prompt /\ 0 < wait /\ Timeout <= wait + Prompt
<1> USE SpansInOrder
<1>1. Waits(stream[port], Asked[at], Timeout - wait) => Timeout - wait <= Prompt
  BY GoodLine, WaitsOn
<1>2. Timeout <= wait + Prompt /\ sent + wait <= Timeout
  BY <1>1, GoodLine DEF LInv, Fine, AnswersComeInTime
<1>3. QED
  BY <1>2, GoodLine

(* What a step of core 1 does to the connection. *)
OnTheLine ==
    /\ Established' /\ wire' /\ broker' = "well" /\ port' = port /\ port \in open'
    /\ owner' = owner /\ heard' = heard
    /\ stream'[port] \in Seq(Packets) /\ Young(stream'[port]) /\ Lacks(stream'[port], "FIN")
    /\ \A p \in Ports \ {port} : Lacks(stream'[p], "CONNECT")
    /\ \A kind, k : Waits(stream[port], kind, k) => Waits(stream'[port], kind, k)
    /\ owner = port /\ stream'[port] # <<>> =>
          heard <= KeepAlive + Timeout + Head(stream'[port]).age

Line == <<open, owner, port, wire, broker, heard>>

LEMMA Unwritten ==
  ASSUME LInv, Unharmed, UNCHANGED <<stream, socket, Line>>
  PROVE  OnTheLine /\ stream'[port] = stream[port]
<1>1. owner = port /\ stream[port] # <<>> => heard <= KeepAlive + Timeout + Head(stream[port]).age
  BY DEF LInv, Fine, HeardInTime
<1>2. QED
  BY <1>1, GoodLine DEF OnTheLine, Line, Established

LEMMA Written ==
  ASSUME LInv, Unharmed, NEW kind \in Requests \ {"CONNECT", "FIN"}, Write(kind), UNCHANGED Line
  PROVE  OnTheLine /\ stream'[port] # <<>> /\ Waits(stream'[port], kind, 0)
<1> USE SpansInOrder
<1> DEFINE s == stream[port]
           e == Packet(kind)
           t == Append(s, e)
<1>1. e \in Packets /\ e.kind = kind /\ e.age = 0
  BY PacketType DEF Packet
<1>2. stream' = [stream EXCEPT ![port] = t] /\ socket' = socket
  BY GoodLine DEF Write
<1>3. stream'[port] = t /\ \A p \in Ports \ {port} : stream'[p] = stream[p]
  BY <1>2, GoodLine DEF LInv, IInv, Shape
<1>4. t \in Seq(Packets) /\ t # <<>> /\ Head(t) = IF s = <<>> THEN e ELSE Head(s)
  BY <1>1, GoodLine, AppendHead
<1>5. Lacks(t, "FIN")
  BY <1>1, GoodLine, AppendOf
<1>6. Young(t) /\ Waits(t, kind, 0) /\ \A k2, k : Waits(s, k2, k) => Waits(t, k2, k)
  BY <1>1, GoodLine, WaitsAppended
<1>7. owner = port => heard <= KeepAlive + Timeout + Head(t).age
  <2>1. CASE s = <<>>
    <3>1. owner = port => heard + (IF at = "yield" THEN wait ELSE 0)
                  <= KeepAlive + (IF at = "yield" THEN Timeout ELSE 0)
      BY <2>1 DEF LInv, Fine, HeardInTime
    <3> QED
      BY <1>1, <1>4, <2>1, <3>1, GoodLine
  <2>2. CASE s # <<>>
    BY <1>4, <2>2 DEF LInv, Fine, HeardInTime
  <2> QED
    BY <2>1, <2>2
<1> HIDE DEF t, e
<1>8. QED
  BY <1>2, <1>3, <1>4, <1>5, <1>6, <1>7, GoodLine DEF OnTheLine, Line, Established

LEMMA KeepaliveStep ==
  ASSUME LInv, Unharmed, NEW out \in BOOLEAN, Keepalive(out), UNCHANGED Line
  PROVE  /\ OnTheLine
         /\ \/ /\ out \/ sent < KeepAlive
               /\ outstanding' = out /\ sent' = sent /\ stream'[port] = stream[port]
            \/ /\ ~out /\ sent = KeepAlive /\ sent' = 0 /\ outstanding' = TRUE
               /\ stream'[port] # <<>> /\ Waits(stream'[port], "PINGREQ", 0)
<1> USE SpansInOrder
<1>1. CASE sent >= KeepAlive /\ ~out
  <2>1. Write("PINGREQ") /\ sent' = 0 /\ outstanding' = TRUE
    BY <1>1, GoodLine DEF Keepalive
  <2>2. OnTheLine /\ stream'[port] # <<>> /\ Waits(stream'[port], "PINGREQ", 0)
    BY <2>1, Written DEF Requests
  <2>3. sent = KeepAlive
    BY <1>1, GoodLine
  <2> QED
    BY <1>1, <2>1, <2>2, <2>3
<1>2. CASE ~(sent >= KeepAlive /\ ~out)
  <2>1. UNCHANGED <<stream, socket, sent>> /\ outstanding' = out
    BY <1>2 DEF Keepalive
  <2>2. out \/ sent < KeepAlive
    BY <1>2, GoodLine
  <2> QED
    BY <2>1, <2>2, Unwritten
<1>3. QED
  BY <1>1, <1>2

(* One packet read in a call of core 1. *)
LEMMA CycleStep ==
  ASSUME LInv, Unharmed, Cycle, at \in Awaiting \cup {"settle", "yield"}
  PROVE  /\ OnTheLine /\ upset' = upset /\ UNCHANGED <<pending, age, budget>>
         /\ down # <<>> /\ down' = Tail(down)
         /\ sent' \in Nat /\ sent' <= sent /\ sent' < KeepAlive /\ outstanding' \in BOOLEAN
         /\ stream'[port] = <<>> => sent' = sent /\ stream[port] = <<>>
         /\ outstanding' =>
              /\ at \in Served
              /\ \/ Waits(stream'[port], "PINGREQ", Watched')
                 \/ ~Unanswered(down', "PINGRESP") /\ Watched' <= Prompt
         /\ pending /\ ~outstanding' => sent' <= Prompt \/ ~outstanding
<1> USE SpansInOrder
<1>1. /\ UNCHANGED Line /\ upset' = upset /\ UNCHANGED <<pending, age, budget>>
      /\ down # <<>> /\ down' = Tail(down)
  BY DEF Cycle, Line, world, Readable
<1>2. /\ Unanswered(down, "PINGRESP") <=>
            Head(down) # "PINGRESP" /\ Unanswered(Tail(down), "PINGRESP")
  BY <1>1, GoodLine, Answered
<1>3. ~outstanding \/ sent <= Prompt
  BY PingIsYoung
<1>4. outstanding => /\ at \in Served
                     /\ \/ Waits(stream[port], "PINGREQ", Watched)
                        \/ ~Unanswered(down, "PINGRESP") /\ Watched <= Prompt
  BY DEF LInv, Fine, PingsAreAnswered
<1>5. at \in Awaiting \cup {"settle"} => sent < KeepAlive
  <2>1. at \in Awaiting => sent < KeepAlive
    BY AnswerIsSoon, GoodLine
  <2>2. at = "settle" => sent + wait <= Timeout
    BY DEF LInv, Fine, LoopKeepsPace
  <2> QED
    BY <2>1, <2>2, GoodLine
<1>6. at = "yield" /\ pending /\ ~outstanding => sent < KeepAlive
  <2>1. at = "yield" /\ pending /\ ~outstanding => sent + wait <= Prompt + Timeout
    BY DEF LInv, Fine, LoopKeepsPace
  <2> QED
    BY <2>1, GoodLine
<1>7. CASE Head(down) = "PUBLISH"
  <2>1. Write("PUBACK") /\ sent' = 0 /\ outstanding' = outstanding
    BY <1>7 DEF Cycle
  <2>2. OnTheLine /\ stream'[port] # <<>>
    BY <1>1, <2>1, Written DEF Requests
  <2>3. Watched' \in Nat /\ Watched \in Nat /\ Watched' <= Watched
    BY <1>1, <2>1, GoodLine DEF Watched
  <2>4. Waits(stream[port], "PINGREQ", Watched) => Waits(stream'[port], "PINGREQ", Watched')
    BY <2>2, <2>3, WaitsOn DEF OnTheLine
  <2>5. ~Unanswered(down, "PINGRESP") => ~Unanswered(down', "PINGRESP")
    BY <1>1, <1>2, <1>7
  <2>6. outstanding' => /\ at \in Served
                        /\ \/ Waits(stream'[port], "PINGREQ", Watched')
                           \/ ~Unanswered(down', "PINGRESP") /\ Watched' <= Prompt
    BY <1>4, <2>1, <2>3, <2>4, <2>5
  <2>7. outstanding' \in BOOLEAN
    BY <2>1, GoodLine, Zenon
  <2>8. sent' \in Nat /\ sent' <= sent /\ sent' < KeepAlive /\ sent' <= Prompt
    BY <2>1, GoodLine
  <2> QED
    BY <1>1, <2>2, <2>6, <2>7, <2>8
<1>8. CASE Head(down) # "PUBLISH"
  <2> DEFINE out == outstanding /\ Head(down) # "PINGRESP"
  <2>1. Keepalive(out) /\ out \in BOOLEAN
    BY <1>8 DEF Cycle
  <2>2. out => outstanding /\ Head(down) # "PINGRESP"
    OBVIOUS
  <2>3. ~out => ~outstanding \/ sent <= Prompt
    BY <1>3
  <2>4. OnTheLine
    BY <1>1, <2>1, KeepaliveStep
  <2> HIDE DEF out
  <2>5. CASE (out \/ sent < KeepAlive) /\ outstanding' = out /\ sent' = sent
             /\ stream'[port] = stream[port]
    <3>1. Watched' = Watched
      BY <1>1, <2>5 DEF Watched
    <3>2. outstanding' => /\ at \in Served
                          /\ \/ Waits(stream'[port], "PINGREQ", Watched')
                             \/ ~Unanswered(down', "PINGRESP") /\ Watched' <= Prompt
      BY <1>1, <1>2, <1>4, <2>2, <2>5, <3>1
    <3>3. sent' \in Nat /\ sent' <= sent /\ sent' < KeepAlive
      BY <1>3, <2>2, <2>5, GoodLine
    <3>4. outstanding' \in BOOLEAN
      BY <2>1, <2>5, Zenon
    <3>5. pending /\ ~outstanding' => sent' <= Prompt \/ ~outstanding
      BY <2>3, <2>5
    <3> QED
      BY <1>1, <2>4, <2>5, <3>2, <3>3, <3>4, <3>5
  <2>6. CASE /\ ~out /\ sent = KeepAlive /\ sent' = 0 /\ outstanding' = TRUE
             /\ stream'[port] # <<>> /\ Waits(stream'[port], "PINGREQ", 0)
    <3>1. at = "yield" /\ ~pending
      BY <1>3, <1>5, <1>6, <2>3, <2>6, GoodLine
    <3>2. Watched' = 0 /\ at \in Served
      BY <1>1, <2>6, <3>1 DEF Watched, Served
    <3> QED
      BY <1>1, <2>4, <2>6, <3>1, <3>2, GoodLine
  <2>7. QED
    BY <1>1, <2>1, <2>5, <2>6, KeepaliveStep
<1>9. QED
  BY <1>7, <1>8

(* Whoever hangs up, or has met a fault, owes nothing. *)
LEMMA Harmed ==
  ASSUME ~Unharmed'
  PROVE  Fine'
  BY DEF Fine, LineIsGood, AnswersComeInTime, PingsAreAnswered, LoopKeepsPace, HeardInTime

LEMMA HungUp ==
  ASSUME EndSession
  PROVE  ~Unharmed'
  BY DEF EndSession, Sleep, Unharmed, Connected, Awaiting, Served

LEMMA ReadsOn ==
  ASSUME LInv, Unharmed, down # <<>>
  PROVE  /\ Unanswered(Tail(down), "REFUSED")
         /\ \A kind : Unanswered(down, kind) <=> Head(down) # kind /\ Unanswered(Tail(down), kind)
  BY GoodLine, Answered

LEMMA LineStays ==
  ASSUME OnTheLine, Unanswered(down', "REFUSED")
  PROVE  LineIsGood'
  BY DEF OnTheLine, LineIsGood

(* A request has its answer ahead of it. *)
LEMMA RequestIsFine ==
  ASSUME LInv, at \in Connected, NEW place \in Awaiting \ {"connack"}, Request(Asked[place], place),
         Established => (down' = down \/ (down # <<>> /\ down' = Tail(down))),
         outstanding => place = "publish" /\ (Established => down' = down)
  PROVE  Fine'
<1> USE SpansInOrder
<1>1. SUFFICES ASSUME Unharmed' PROVE Fine'
  BY Harmed
<1>2. Established
  BY <1>1, HungUp DEF Request
<1> DEFINE kind == Asked[place]
<1>3. kind \in Requests \ {"CONNECT", "FIN"}
  BY DEF Asked, Awaiting, Requests
<1>4. /\ Write(kind) /\ sent' = 0 /\ at' = place /\ wait' = Timeout
      /\ UNCHANGED Line /\ UNCHANGED <<outstanding, pending, age>> /\ upset' = upset
  BY <1>2 DEF Request, Line, world, history
<1> HIDE DEF kind
<1>5. Unharmed
  BY <1>1, <1>4 DEF Unharmed
<1>6. OnTheLine /\ stream'[port] # <<>> /\ Waits(stream'[port], kind, 0)
  BY <1>3, <1>4, <1>5, Written
<1>7. LineIsGood'
  <2>1. Unanswered(down', "REFUSED")
    BY <1>2, <1>5, GoodLine, ReadsOn
  <2> QED
    BY <1>6, <2>1, LineStays
<1>8. AnswersComeInTime'
  <2>1. Timeout - wait' = 0 /\ port' = port /\ Asked[at'] = kind
    BY <1>4, <1>6 DEF OnTheLine, kind
  <2>2. Waits(stream'[port'], Asked[at'], Timeout - wait')
    BY <1>6, <2>1
  <2> QED
    BY <1>4, <2>2 DEF AnswersComeInTime
<1>9. PingsAreAnswered'
  <2> SUFFICES ASSUME outstanding'
               PROVE  /\ at' \in Served
                      /\ \/ Waits(stream'[port], "PINGREQ", Watched')
                         \/ ~Unanswered(down', "PINGRESP") /\ Watched' <= Prompt
    BY <1>6 DEF PingsAreAnswered, OnTheLine
  <2>1. outstanding /\ at' \in Served /\ down' = down
    BY <1>2, <1>4 DEF Served
  <2>2. Watched' \in Nat /\ Watched \in Nat /\ Watched' <= Watched
    BY <1>4, <1>5, GoodLine DEF Watched
  <2>3. \/ Waits(stream[port], "PINGREQ", Watched)
        \/ ~Unanswered(down, "PINGRESP") /\ Watched <= Prompt
    BY <1>5, <2>1 DEF LInv, Fine, PingsAreAnswered
  <2>4. Waits(stream[port], "PINGREQ", Watched) => Waits(stream'[port], "PINGREQ", Watched')
    BY <1>6, <2>2, WaitsOn DEF OnTheLine
  <2> QED
    BY <2>1, <2>2, <2>3, <2>4
<1>10. LoopKeepsPace'
  BY <1>4 DEF LoopKeepsPace, Awaiting
<1>11. HeardInTime'
  BY <1>6 DEF HeardInTime, OnTheLine
<1>12. QED
  BY <1>7, <1>8, <1>9, <1>10, <1>11 DEF Fine

(* connectSession(). *)
LEMMA ConnectIsFine ==
  ASSUME LInv, Init1 \/ Wake \/ Announce \/ Subscribed \/ Settled \/ GivesUp
               \/ GoOn("alive", "ERROR", "error") \/ GoOn("error", "SUBSCRIBE", "subscribe")
  PROVE  Fine'
<1> USE SpansInOrder
<1>0. at \in Connected \ Served => (Unharmed => ~outstanding)
  BY DEF LInv, Fine, PingsAreAnswered
<1>1. CASE Init1 \/ Wake
  BY <1>1, Harmed DEF Init1, InitWorks, InitFails, Wake, Unharmed, Connected, Awaiting, Served
<1>2. CASE GivesUp
  BY <1>2, HungUp, Harmed DEF GivesUp
<1>3. CASE Announce
  <2>1. CASE ~Unharmed
    <3>1. at \in Connected /\ (upset' = upset \/ EndSession)
      BY <1>3 DEF Announce, Request, history, Connected, Awaiting
    <3> QED
      BY <2>1, <3>1, HungUp, Harmed DEF Unharmed
  <2>2. CASE Unharmed
    <3>1. /\ at = "connack" /\ Request(Asked["alive"], "alive")
          /\ Established => down # <<>> /\ down' = Tail(down)
      BY <1>3 DEF Announce, Asked, Reads, Readable
    <3>2. ~outstanding /\ at \in Connected
      BY <1>0, <2>2, <3>1 DEF Connected, Awaiting, Served
    <3> QED
      BY <3>1, <3>2, RequestIsFine DEF Awaiting
  <2> QED
    BY <2>1, <2>2
<1>4. ASSUME NEW place \in {"alive", "error"}, NEW next \in {"error", "subscribe"},
             GoOn(place, Asked[next], next)
      PROVE  Fine'
  <2>1. CASE ~Unharmed
    <3>1. at \in Connected /\ (upset' = upset \/ EndSession)
      BY <1>4 DEF GoOn, Request, history, Connected, Awaiting
    <3> QED
      BY <2>1, <3>1, HungUp, Harmed DEF Unharmed
  <2>2. CASE Unharmed
    <3>1. /\ at = place /\ Request(Asked[next], next)
          /\ Established => (down' = down \/ (down # <<>> /\ down' = Tail(down)))
      BY <1>4 DEF GoOn, Reads, Readable
    <3>2. ~outstanding /\ at \in Connected
      BY <1>0, <2>2, <3>1 DEF Connected, Awaiting, Served
    <3> QED
      BY <3>1, <3>2, RequestIsFine DEF Awaiting
  <2> QED
    BY <2>1, <2>2
<1>5. CASE Subscribed
  <2>1. /\ at = "subscribe" /\ at' = "settle" /\ wait' \in {0, 1} /\ upset' = upset
        /\ down # <<>> /\ down' = Tail(down) /\ UNCHANGED <<stream, socket, Line, sent, outstanding>>
    BY <1>5 DEF Subscribed, Reads, Readable, client, host, world, history, Line
  <2>2. CASE ~Unharmed
    BY <2>1, <2>2, Harmed DEF Unharmed, Connected, Awaiting
  <2>3. CASE Unharmed
    <3>1. ~outstanding /\ sent <= Prompt
      BY <1>0, <2>1, <2>3, AnswerIsSoon DEF Connected, Awaiting, Served
    <3>2. OnTheLine /\ stream'[port] = stream[port]
      BY <2>1, <2>3, Unwritten
    <3>3. LineIsGood'
      BY <2>1, <2>3, <3>2, ReadsOn, LineStays
    <3>4. AnswersComeInTime' /\ PingsAreAnswered'
      BY <2>1, <3>1 DEF AnswersComeInTime, PingsAreAnswered, Awaiting
    <3>5. LoopKeepsPace'
      BY <2>1, <2>3, <3>1, GoodLine DEF LoopKeepsPace
    <3>6. HeardInTime'
      BY <2>1, <2>3, <3>2 DEF LInv, Fine, HeardInTime, OnTheLine
    <3> QED
      BY <3>3, <3>4, <3>5, <3>6 DEF Fine
  <2> QED
    BY <2>2, <2>3
<1>6. CASE Settled
  <2>1. /\ at = "settle" /\ at' = "poll" /\ wait' = wait /\ upset' = upset /\ pending' = FALSE
        /\ budget' = 0 /\ UNCHANGED <<stream, socket, Line, sent, outstanding, down>>
    BY <1>6 DEF Settled, host, world, history, Line
  <2>2. CASE ~Unharmed
    BY <2>1, <2>2, Harmed DEF Unharmed, Connected
  <2>3. CASE Unharmed
    <3>1. ~outstanding
      BY <1>0, <2>1, <2>3 DEF Connected, Served
    <3>2. OnTheLine /\ stream'[port] = stream[port]
      BY <2>1, <2>3, Unwritten
    <3>3. LineIsGood'
      BY <2>1, <2>3, <3>2, GoodLine, LineStays
    <3>4. AnswersComeInTime' /\ PingsAreAnswered' /\ LoopKeepsPace'
      BY <2>1, <3>1 DEF AnswersComeInTime, PingsAreAnswered, LoopKeepsPace, Awaiting
    <3>5. HeardInTime'
      BY <2>1, <2>3, <3>2 DEF LInv, Fine, HeardInTime, OnTheLine
    <3> QED
      BY <3>3, <3>4, <3>5 DEF Fine
  <2> QED
    BY <2>2, <2>3
<1>7. QED
  BY <1>1, <1>2, <1>3, <1>4, <1>5, <1>6 DEF Asked

(* What waitfor() passes over is not what it waits for. *)
LEMMA PassOverIsFine ==
  ASSUME LInv, PassOver
  PROVE  Fine'
<1> USE SpansInOrder
<1>1. /\ at \in Awaiting \cup {"settle"} /\ at' = at /\ wait' = wait /\ upset' = upset
      /\ down # <<>> /\ Head(down) \notin Expects[at]
  BY DEF PassOver, Cycle, Readable, Expects, Awaiting
<1>2. SUFFICES ASSUME Unharmed PROVE Fine'
  BY <1>1, Harmed DEF Unharmed
<1>3. at \in Awaiting => Head(down) # Awaited[at]
  BY <1>1 DEF Awaiting, Expects, Awaited
<1>4. LoopKeepsPace
  BY DEF LInv, Fine
<1>5. at # "yield" /\ at # "poll" /\ at # "watch"
  BY <1>1 DEF Awaiting
<1>6. AnswersComeInTime /\ HeardInTime /\ PingsAreAnswered
  BY DEF LInv, Fine
<1>7. CASE Cycle
  <2>1. /\ OnTheLine /\ UNCHANGED <<pending, age, budget>> /\ down' = Tail(down)
        /\ sent' \in Nat /\ sent' <= sent
        /\ stream'[port] = <<>> => sent' = sent /\ stream[port] = <<>>
        /\ outstanding' =>
              /\ at \in Served
              /\ \/ Waits(stream'[port], "PINGREQ", Watched')
                 \/ ~Unanswered(down', "PINGRESP") /\ Watched' <= Prompt
    BY <1>1, <1>2, <1>7, CycleStep
  <2>2. LineIsGood'
    BY <1>1, <1>2, <2>1, ReadsOn, LineStays
  <2>3. AnswersComeInTime'
    <3>1. at \in Awaiting =>
            (~Unanswered(down, Awaited[at]) => ~Unanswered(down', Awaited[at]))
      BY <1>1, <1>2, <1>3, <2>1, ReadsOn
    <3>2. at \in Awaiting => sent' + wait <= Timeout
      BY <1>2, <1>6, <2>1, GoodLine DEF AnswersComeInTime
    <3> QED
      BY <1>1, <1>2, <1>6, <2>1, <3>1, <3>2 DEF AnswersComeInTime, OnTheLine
  <2>4. PingsAreAnswered'
    BY <1>1, <2>1 DEF PingsAreAnswered, OnTheLine
  <2>5. LoopKeepsPace'
    BY <1>1, <1>2, <1>4, <1>5, <2>1, GoodLine DEF LoopKeepsPace
  <2>6. HeardInTime'
    BY <1>1, <1>2, <1>5, <1>6, <2>1 DEF HeardInTime, OnTheLine
  <2> QED
    BY <2>2, <2>3, <2>4, <2>5, <2>6 DEF Fine
<1>8. CASE ~Cycle
  <2>1. /\ Head(down) = "PUBLISH" /\ down' = Tail(down)
        /\ UNCHANGED <<stream, socket, Line, sent, outstanding, pending, age, budget>>
    BY <1>8 DEF PassOver, Unacknowledged, Reads, client, host, world, Line
  <2>2. OnTheLine /\ stream'[port] = stream[port]
    BY <1>2, <2>1, Unwritten
  <2>3. LineIsGood'
    BY <1>1, <1>2, <2>1, <2>2, ReadsOn, LineStays
  <2>4. AnswersComeInTime'
    <3>1. at \in Awaiting =>
            (~Unanswered(down, Awaited[at]) => ~Unanswered(down', Awaited[at]))
      BY <1>1, <1>2, <1>3, <2>1, ReadsOn
    <3> QED
      BY <1>1, <1>2, <1>6, <2>1, <2>2, <3>1 DEF AnswersComeInTime, OnTheLine
  <2>5. PingsAreAnswered'
    <3>1. ~Unanswered(down, "PINGRESP") => ~Unanswered(down', "PINGRESP")
      BY <1>1, <1>2, <2>1, ReadsOn
    <3>2. Watched' = Watched
      BY <2>1 DEF Watched
    <3> QED
      BY <1>1, <1>2, <1>6, <2>1, <2>2, <3>1, <3>2 DEF PingsAreAnswered, OnTheLine
  <2>6. LoopKeepsPace'
    BY <1>1, <1>2, <1>4, <1>5, <2>1 DEF LoopKeepsPace
  <2>7. HeardInTime'
    BY <1>1, <1>2, <1>5, <1>6, <2>1, <2>2 DEF HeardInTime, OnTheLine
  <2> QED
    BY <2>3, <2>4, <2>5, <2>6, <2>7 DEF Fine
<1>9. QED
  BY <1>7, <1>8

(* The loop with nothing to read, and a yield that ends: keepalive() pings in time. *)
LEMMA ToWatchIsFine ==
  ASSUME LInv, Idle \/ YieldEnds
  PROVE  Fine'
<1> USE SpansInOrder
<1>1. /\ at \in {"poll", "yield"} /\ (at = "yield" => wait = 0) /\ at' = "watch" /\ upset' = upset
      /\ Keepalive(outstanding) /\ UNCHANGED <<Line, wait, pending, age, budget, down>>
  BY DEF Idle, YieldEnds, Line, world, history, Expired
<1>2. SUFFICES ASSUME Unharmed PROVE Fine'
  BY <1>1, Harmed DEF Unharmed, Connected, Served
<1>3. LoopKeepsPace /\ HeardInTime /\ PingsAreAnswered
  BY DEF LInv, Fine
<1>4. outstanding => sent <= Prompt
  BY <1>2, PingIsYoung
<1>5. pending /\ ~outstanding => sent < KeepAlive
  <2>1. pending /\ ~outstanding => sent + wait <= Prompt + (IF at = "yield" THEN Timeout ELSE 0)
    BY <1>1, <1>2, <1>3 DEF LoopKeepsPace
  <2> QED
    BY <1>1, <1>2, <2>1, GoodLine
<1>6. outstanding \in BOOLEAN
  BY <1>2, GoodLine
<1>7. LineIsGood'
  BY <1>1, <1>2, <1>6, KeepaliveStep, GoodLine, LineStays
<1>8. AnswersComeInTime'
  BY <1>1 DEF AnswersComeInTime, Awaiting
<1>9. CASE /\ OnTheLine /\ (outstanding \/ sent < KeepAlive)
           /\ outstanding' = outstanding /\ sent' = sent /\ stream'[port] = stream[port]
  <2>1. sent' < KeepAlive
    BY <1>2, <1>4, <1>9, GoodLine
  <2>2. PingsAreAnswered'
    BY <1>1, <1>2, <1>3, <1>9 DEF PingsAreAnswered, OnTheLine, Watched, Served
  <2>3. LoopKeepsPace'
    BY <1>1, <2>1 DEF LoopKeepsPace
  <2>4. HeardInTime'
    BY <1>1, <1>2, <1>3, <1>9, <2>1, GoodLine DEF HeardInTime, OnTheLine
  <2> QED
    BY <1>7, <1>8, <2>2, <2>3, <2>4 DEF Fine
<1>10. CASE /\ OnTheLine /\ ~outstanding /\ sent = KeepAlive /\ sent' = 0 /\ outstanding' = TRUE
            /\ stream'[port] # <<>> /\ Waits(stream'[port], "PINGREQ", 0)
  <2>1. ~pending /\ Watched' = 0
    BY <1>1, <1>5, <1>10, SpansInOrder DEF Watched
  <2>2. PingsAreAnswered'
    BY <1>1, <1>10, <2>1 DEF PingsAreAnswered, OnTheLine, Served
  <2>3. LoopKeepsPace'
    BY <1>1, <1>10 DEF LoopKeepsPace
  <2>4. HeardInTime'
    BY <1>10 DEF HeardInTime, OnTheLine
  <2> QED
    BY <1>7, <1>8, <2>2, <2>3, <2>4 DEF Fine
<1>11. QED
  BY <1>1, <1>2, <1>6, <1>9, <1>10, KeepaliveStep

LEMMA YieldReadsIsFine ==
  ASSUME LInv, YieldReads
  PROVE  Fine'
<1> USE SpansInOrder
<1>1. /\ at = "yield" /\ Cycle /\ upset' = upset
      /\ \/ at' = "yield" /\ wait' = wait /\ more' = TRUE
         \/ at' = "watch" /\ wait' = 0 /\ more' = FALSE
  BY DEF YieldReads, Cycle
<1>2. SUFFICES ASSUME Unharmed PROVE Fine'
  BY <1>1, Harmed DEF Unharmed, Connected, Served
<1>3. LoopKeepsPace /\ HeardInTime
  BY DEF LInv, Fine
<1>4. /\ OnTheLine /\ UNCHANGED <<pending, age, budget>> /\ down # <<>> /\ down' = Tail(down)
      /\ sent' \in Nat /\ sent' <= sent /\ sent' < KeepAlive
      /\ stream'[port] = <<>> => sent' = sent /\ stream[port] = <<>>
      /\ outstanding' =>
            \/ Waits(stream'[port], "PINGREQ", Watched')
            \/ ~Unanswered(down', "PINGRESP") /\ Watched' <= Prompt
      /\ pending /\ ~outstanding' => sent' <= Prompt \/ ~outstanding
  BY <1>1, <1>2, CycleStep
<1>5. LineIsGood'
  BY <1>2, <1>4, ReadsOn, LineStays
<1>6. AnswersComeInTime'
  BY <1>1 DEF AnswersComeInTime, Awaiting
<1>7. PingsAreAnswered'
  BY <1>1, <1>4 DEF PingsAreAnswered, OnTheLine, Served
<1>8. LoopKeepsPace'
  <2>1. wait <= Timeout
    BY <1>1, <1>2, <1>3 DEF LoopKeepsPace
  <2>2. pending /\ ~outstanding' => sent' + wait <= Prompt + Timeout
    BY <1>1, <1>2, <1>3, <1>4, <2>1, GoodLine DEF LoopKeepsPace
  <2> QED
    BY <1>1, <1>4, <2>1, <2>2 DEF LoopKeepsPace
<1>9. HeardInTime'
  <2> SUFFICES ASSUME owner = port, stream'[port] = <<>>
               PROVE  /\ sent' < KeepAlive => heard <= sent'
                      /\ heard + (IF at' = "yield" THEN wait' ELSE 0)
                           <= KeepAlive + (IF at' = "yield" THEN Timeout ELSE 0)
    BY <1>4 DEF HeardInTime, OnTheLine
  <2>1. sent' = sent /\ heard <= sent /\ heard + wait <= KeepAlive + Timeout
    BY <1>1, <1>2, <1>3, <1>4 DEF HeardInTime
  <2> QED
    BY <1>1, <1>2, <1>4, <2>1, GoodLine
<1>10. QED
  BY <1>5, <1>6, <1>7, <1>8, <1>9 DEF Fine

(* The steps of the loop that send nothing and read at most an acknowledgement. *)
LEMMA LoopIsFine ==
  ASSUME LInv, Read \/ Watch \/ Published
  PROVE  Fine'
<1> USE SpansInOrder
<1>1. SUFFICES ASSUME Unharmed, ~EndSession PROVE Fine'
  BY HungUp, Harmed DEF Read, Watch, Published, Unharmed, Connected, Served, history
<1>2. LoopKeepsPace /\ HeardInTime /\ PingsAreAnswered
  BY DEF LInv, Fine
<1>3. UNCHANGED <<stream, socket, Line, sent, outstanding>> /\ upset' = upset
  BY <1>1 DEF Read, Watch, Published, client, host, world, history, Line
<1>4. OnTheLine /\ stream'[port] = stream[port]
  BY <1>1, <1>3, Unwritten
<1>5. CASE Read
  <2>1. /\ at = "poll" /\ at' = "yield" /\ wait' = Timeout /\ more' = FALSE /\ down # <<>>
        /\ UNCHANGED <<down, pending, age, budget>>
    BY <1>5 DEF Read, client
  <2>2. LineIsGood' /\ AnswersComeInTime'
    BY <1>1, <1>4, <2>1, GoodLine, LineStays DEF AnswersComeInTime, Awaiting
  <2>3. PingsAreAnswered'
    BY <1>1, <1>2, <1>3, <1>4, <2>1 DEF PingsAreAnswered, OnTheLine, Watched, Served
  <2>4. LoopKeepsPace'
    BY <1>1, <1>2, <1>3, <2>1, GoodLine DEF LoopKeepsPace
  <2>5. HeardInTime'
    BY <1>1, <1>2, <1>3, <1>4, <2>1, GoodLine DEF HeardInTime, OnTheLine
  <2> QED
    BY <2>2, <2>3, <2>4, <2>5 DEF Fine
<1>6. CASE Watch
  <2>1. /\ at = "watch" /\ at' = "poll" /\ budget' = Burst /\ pending' = outstanding
        /\ age' = (IF pending /\ outstanding THEN age ELSE 0)
        /\ UNCHANGED <<wait, down>>
    BY <1>1, <1>6 DEF Watch
  <2>2. LineIsGood' /\ AnswersComeInTime'
    BY <1>1, <1>4, <2>1, GoodLine, LineStays DEF AnswersComeInTime, Awaiting
  <2>3. PingsAreAnswered'
    <3> SUFFICES ASSUME outstanding
                 PROVE  \/ Waits(stream'[port], "PINGREQ", Watched')
                        \/ ~Unanswered(down', "PINGRESP") /\ Watched' <= Prompt
      BY <1>3, <1>4, <2>1 DEF PingsAreAnswered, OnTheLine, Served
    <3>1. Watched' \in Nat /\ Watched \in Nat /\ Watched' <= Watched
      BY <1>1, <1>3, <2>1, GoodLine DEF Watched
    <3>2. Waits(stream[port], "PINGREQ", Watched) => Waits(stream'[port], "PINGREQ", Watched')
      BY <1>4, <3>1, WaitsOn DEF OnTheLine
    <3> QED
      BY <1>1, <1>2, <2>1, <3>1, <3>2 DEF PingsAreAnswered
  <2>4. LoopKeepsPace'
    BY <1>1, <1>2, <1>3, <2>1 DEF LoopKeepsPace
  <2>5. HeardInTime'
    BY <1>1, <1>2, <1>3, <1>4, <2>1 DEF HeardInTime, OnTheLine
  <2> QED
    BY <2>2, <2>3, <2>4, <2>5 DEF Fine
<1>7. CASE Published
  <2>1. /\ at = "publish" /\ at' = "poll" /\ wait' = 0 /\ UNCHANGED <<pending, age, budget>>
        /\ down # <<>> /\ down' = Tail(down) /\ Head(down) = "PUBACK"
    BY <1>7 DEF Published, Reads, Readable, client
  <2>2. LineIsGood' /\ AnswersComeInTime'
    BY <1>1, <1>4, <2>1, ReadsOn, LineStays DEF AnswersComeInTime, Awaiting
  <2>3. PingsAreAnswered'
    <3>1. ~Unanswered(down, "PINGRESP") => ~Unanswered(down', "PINGRESP")
      BY <1>1, <2>1, ReadsOn
    <3>2. Watched' = Watched
      BY <1>3, <2>1 DEF Watched
    <3> QED
      BY <1>1, <1>2, <1>3, <1>4, <2>1, <3>1, <3>2 DEF PingsAreAnswered, OnTheLine, Served
  <2>4. LoopKeepsPace'
    <3>1. budget < Burst
      BY <2>1 DEF LInv, TInv, CallsAreTimed
    <3>2. sent <= Prompt
      BY <1>1, <2>1, AnswerIsSoon DEF Awaiting
    <3> QED
      BY <1>1, <1>3, <2>1, <3>1, <3>2, GoodLine DEF LoopKeepsPace
  <2>5. HeardInTime'
    BY <1>1, <1>2, <1>3, <1>4, <2>1 DEF HeardInTime, OnTheLine
  <2> QED
    BY <2>2, <2>3, <2>4, <2>5 DEF Fine
<1>8. QED
  BY <1>5, <1>6, <1>7

(* A new connection has its CONNECT to be answered, unless it starts badly. *)
LEMMA DialIsFine ==
  ASSUME LInv, Dial
  PROVE  Fine'
<1> USE SpansInOrder
<1>1. SUFFICES ASSUME Unharmed' PROVE Fine'
  BY Harmed
<1>2. wire /\ port' \notin open
  BY <1>1 DEF Dial, Sleep, Unharmed, Connected, Awaiting, Served
<1>3. /\ at = "dial" /\ at' = "connack" /\ wait' = Timeout /\ sent' = 0 /\ outstanding' = FALSE
      /\ Established' /\ wire' /\ broker' = broker /\ port' \in open' /\ down' = down
      /\ stream' = [stream EXCEPT ![port'] = <<Packet("CONNECT")>>]
      /\ owner' = owner /\ upset' = (broker # "well" \/ \E p \in open : Has(stream[p], "CONNECT"))
  BY <1>2 DEF Dial, world, Established
<1>4. broker = "well" /\ \A p \in open : ~Has(stream[p], "CONNECT")
  BY <1>1, <1>3 DEF Unharmed
<1>5. port' \in Ports /\ stream' \in [Ports -> Seq(Packets)] /\ stream \in [Ports -> Seq(Packets)]
  BY DialKeeps DEF LInv, IInv, Shape
<1> DEFINE e == Packet("CONNECT")
<1>6. e \in Packets /\ e.kind = "CONNECT" /\ e.age = 0
  BY PacketType DEF Packet, Requests
<1>7. stream'[port'] = <<e>> /\ \A p \in Ports \ {port'} : stream'[p] = stream[p]
  BY <1>3, <1>5
<1> HIDE DEF e
<1>8. Len(<<e>>) = 1 /\ <<e>>[1] = e
  OBVIOUS
<1>9. Young(<<e>>) /\ Lacks(<<e>>, "FIN") /\ Waits(<<e>>, "CONNECT", 0)
  BY <1>6, <1>8 DEF Young, Lacks, Waits
<1>10. Unanswered(down', "REFUSED")
  <2>1. down' = <<>>
    BY <1>3 DEF LInv, HInv, NothingLeftOver, Connected, Awaiting, Served
  <2> QED
    BY <2>1 DEF Unanswered
<1>11. \A p \in Ports \ {port'} : Lacks(stream'[p], "CONNECT")
  <2> SUFFICES ASSUME NEW p \in Ports \ {port'} PROVE Lacks(stream[p], "CONNECT")
    BY <1>7
  <2>1. CASE p \in open
    <3>1. DOMAIN stream[p] = 1..Len(stream[p])
      BY <1>5
    <3> QED
      BY <1>4, <2>1, <3>1 DEF Has, Lacks
  <2>2. CASE p \notin open
    <3>1. stream[p] = <<>>
      BY <2>2 DEF LInv, HInv, BooksAgree
    <3> QED
      BY <3>1 DEF Lacks
  <2> QED
    BY <2>1, <2>2
<1>12. LineIsGood'
  BY <1>3, <1>4, <1>7, <1>9, <1>10, <1>11 DEF LineIsGood
<1>13. AnswersComeInTime'
  <2>1. Asked[at'] = "CONNECT" /\ Timeout - wait' = 0
    BY <1>3 DEF Asked
  <2> QED
    BY <1>3, <1>7, <1>9, <2>1 DEF AnswersComeInTime
<1>14. PingsAreAnswered' /\ LoopKeepsPace'
  BY <1>3 DEF PingsAreAnswered, LoopKeepsPace
<1>15. owner' # port'
  BY <1>2, <1>3, <1>5, PortsAreNumbers DEF LInv, HInv, BooksAgree
<1>16. QED
  BY <1>12, <1>13, <1>14, <1>15 DEF Fine, HeardInTime

LEMMA Core1IsFine ==
  ASSUME LInv, Core1 \/ Publish
  PROVE  Fine'
<1>1. CASE Notice \/ YieldFails
  BY <1>1, HungUp, Harmed DEF Notice, YieldFails
<1>2. CASE Publish
  <2>1. /\ at \in Connected /\ Request(Asked["publish"], "publish")
        /\ Established => down' = down
    BY <1>2 DEF Publish, Asked, Connected, Served
  <2> QED
    BY <2>1, RequestIsFine DEF Awaiting
<1>3. QED
  BY <1>1, <1>2, ConnectIsFine, PassOverIsFine, ToWatchIsFine, YieldReadsIsFine, LoopIsFine,
     DialIsFine DEF Core1, Connect1, Session1

(* What leaves our connection alone, or has a command for it. *)
LEMMA LeftAlone ==
  ASSUME LInv, Unharmed, UNCHANGED <<core1, client, socket, wire, broker, more>>,
         stream'[port] = stream[port], port \in open',
         \A p \in Ports \ {port} : Lacks(stream'[p], "CONNECT"),
         owner' = port => owner = port /\ heard' = heard,
         down' = down \/ down' = Append(down, "PUBLISH")
  PROVE  Fine'
<1>1. /\ UNCHANGED <<at, wait, port, sent, outstanding, pending, age, budget>>
      /\ Watched' = Watched /\ (Unharmed' => Unharmed)
  BY DEF core1, client, Watched, Unharmed
<1>2. /\ Unanswered(down', "REFUSED") /\ (down # <<>> => down' # <<>>)
      /\ \A kind : ~Unanswered(down, kind) => ~Unanswered(down', kind)
  <2>1. CASE down' = down
    BY <2>1, GoodLine
  <2>2. CASE down' = Append(down, "PUBLISH")
    <3>1. down' # <<>>
      BY <2>2, GoodLine
    <3>2. "PUBLISH" \in Replies
      BY DEF Replies
    <3> QED
      BY <2>2, <3>1, <3>2, GoodLine, Answered
  <2> QED
    BY <2>1, <2>2
<1>3. AnswersComeInTime /\ PingsAreAnswered /\ LoopKeepsPace /\ HeardInTime
  BY DEF LInv, Fine
<1>4. LineIsGood'
  BY <1>1, <1>2, GoodLine DEF LineIsGood, Established
<1>5. AnswersComeInTime'
  BY <1>1, <1>2, <1>3 DEF AnswersComeInTime
<1>6. PingsAreAnswered'
  BY <1>1, <1>2, <1>3 DEF PingsAreAnswered
<1>7. LoopKeepsPace'
  BY <1>1, <1>2, <1>3 DEF LoopKeepsPace
<1>8. HeardInTime'
  BY <1>1, <1>3 DEF HeardInTime
<1>9. QED
  BY <1>4, <1>5, <1>6, <1>7, <1>8 DEF Fine

(* The broker reads the next packet of our connection, and answers it. *)
LEMMA AnswerIsFine ==
  ASSUME LInv, Unharmed, UNCHANGED <<core1, client, socket, wire, broker, more>>,
         stream[port] # <<>>, stream'[port] = Tail(stream[port]), port \in open',
         \A p \in Ports \ {port} : Lacks(stream'[p], "CONNECT"), heard' = 0,
         NEW kind \in Requests \ {"FIN"}, kind = Head(stream[port]).kind,
         kind = "CONNECT" => at = "connack",
         NEW reply \in Replies \ {"REFUSED"},
         IF kind = "PUBACK" THEN down' = down
         ELSE down' = Append(down, reply)
              /\ reply = IF kind = "CONNECT" THEN "CONNACK" ELSE Answer[kind]
  PROVE  Fine'
<1> USE SpansInOrder
<1>1. /\ UNCHANGED <<at, wait, port, sent, outstanding, pending, age, budget>>
      /\ Watched' = Watched /\ (Unharmed' => Unharmed)
  BY DEF core1, client, Watched, Unharmed
<1>2. /\ Unanswered(down', "REFUSED") /\ (down # <<>> => down' # <<>>)
      /\ \A k : ~Unanswered(down, k) => ~Unanswered(down', k)
      /\ kind # "PUBACK" => ~Unanswered(down', reply)
  <2>1. CASE kind = "PUBACK"
    BY <2>1, GoodLine
  <2>2. CASE kind # "PUBACK"
    <3>1. down' = Append(down, reply) /\ down' # <<>>
      BY <2>2, GoodLine
    <3>2. \A k : Unanswered(down', k) <=> Unanswered(down, k) /\ reply # k
      BY <3>1, GoodLine, Answered
    <3> QED
      BY <3>1, <3>2, GoodLine
  <2> QED
    BY <2>1, <2>2
<1>3. AnswersComeInTime /\ PingsAreAnswered /\ LoopKeepsPace
  BY DEF LInv, Fine
<1>4. /\ \A k2, k : Waits(stream[port], k2, k) => Waits(stream'[port], k2, k) \/ kind = k2
      /\ Young(stream'[port]) /\ stream'[port] \in Seq(Packets)
  BY GoodLine, WaitsRead, HeadTailProperties
<1>5. Lacks(stream'[port], "FIN")
  <2>1. Once(stream[port]) /\ InTurn(stream[port])
    BY GoodLine DEF LInv, HInv, OneConnect, ReadInTurn
  <2> QED
    BY <2>1, GoodLine, TailOf
<1>6. LineIsGood'
  BY <1>1, <1>2, <1>4, <1>5, GoodLine DEF LineIsGood, Established
<1>7. AnswersComeInTime'
  <2> SUFFICES ASSUME at \in Awaiting
               PROVE  \/ Waits(stream'[port], Asked[at], Timeout - wait)
                      \/ ~Unanswered(down', Awaited[at]) /\ Timeout <= wait + Prompt
    BY <1>1, <1>3 DEF AnswersComeInTime
  <2>1. Timeout <= wait + Prompt
    BY AnswerIsSoon
  <2>2. kind = Asked[at] => kind # "PUBACK" /\ reply = Awaited[at]
    BY DEF Asked, Awaited, Answer, Awaiting
  <2>3. \/ Waits(stream[port], Asked[at], Timeout - wait)
        \/ ~Unanswered(down, Awaited[at])
    BY <1>3 DEF AnswersComeInTime
  <2> QED
    BY <1>2, <1>4, <2>1, <2>2, <2>3
<1>8. PingsAreAnswered'
  <2> SUFFICES ASSUME outstanding
               PROVE  /\ at \in Served
                      /\ \/ Waits(stream'[port], "PINGREQ", Watched)
                         \/ ~Unanswered(down', "PINGRESP") /\ Watched <= Prompt
    BY <1>1 DEF PingsAreAnswered
  <2>1. at \in Served /\ Watched <= Prompt
    BY PingIsYoung
  <2>2. kind = "PINGREQ" => kind # "PUBACK" /\ reply = "PINGRESP"
    BY DEF Answer
  <2>3. Waits(stream[port], "PINGREQ", Watched) \/ ~Unanswered(down, "PINGRESP")
    BY <1>3 DEF PingsAreAnswered
  <2> QED
    BY <1>2, <1>4, <2>1, <2>2, <2>3
<1>9. LoopKeepsPace'
  BY <1>1, <1>2, <1>3 DEF LoopKeepsPace
<1>10. HeardInTime'
  <2>1. stream'[port] # <<>> => Head(stream'[port]).age \in Nat
    <3>1. stream'[port] # <<>> => Head(stream'[port]) \in Packets
      BY <1>4, WaitsRead
    <3> QED
      BY <3>1 DEF Packets
  <2>2. at = "yield" => wait <= Timeout
    BY <1>3 DEF LoopKeepsPace
  <2>3. stream'[port] # <<>> => heard' <= KeepAlive + Timeout + Head(stream'[port]).age
    BY <2>1
  <2>4. heard' <= sent /\ heard' + (IF at = "yield" THEN wait ELSE 0)
                            <= KeepAlive + (IF at = "yield" THEN Timeout ELSE 0)
    BY <2>2, GoodLine
  <2> QED
    BY <1>1, <2>3, <2>4 DEF HeardInTime
<1>11. QED
  BY <1>6, <1>7, <1>8, <1>9, <1>10 DEF Fine

LEMMA CloseOther ==
  ASSUME LInv, Unharmed, NEW p \in Ports, p # port, Close(p),
         UNCHANGED <<core1, client, down, heard, wire, broker, more>>
  PROVE  Fine'
<1>1. /\ socket' = socket /\ open' = open \ {p} /\ (owner' = owner \/ owner' = None)
      /\ stream' = [stream EXCEPT ![p] = <<>>] /\ stream \in [Ports -> Seq(Packets)]
  BY DEF Close, LInv, IInv, Shape
<1>2. stream'[p] = <<>> /\ \A q \in Ports \ {p} : stream'[q] = stream[q]
  BY <1>1
<1>3. Lacks(<<>>, "CONNECT")
  BY DEF Lacks
<1>4. \A q \in Ports \ {port} : Lacks(stream'[q], "CONNECT")
  BY <1>2, <1>3, GoodLine
<1>5. stream'[port] = stream[port] /\ port \in open' /\ None # port
  BY <1>1, <1>2, GoodLine, PortsAreNumbers
<1>6. QED
  BY <1>1, <1>4, <1>5, LeftAlone

(* The rest of a stream has no CONNECT, if the whole has none or begins with it. *)
LEMMA TailLacksConnect ==
  ASSUME LInv, NEW p \in Ports, stream[p] # <<>>
  PROVE  Lacks(Tail(stream[p]), "CONNECT")
<1>1. stream[p] \in Seq(Packets) /\ Once(stream[p])
  BY DEF LInv, IInv, Shape, HInv, OneConnect
<1>2. Len(Tail(stream[p])) = Len(stream[p]) - 1 /\ Len(stream[p]) \in Nat
      /\ \A i \in 1..Len(Tail(stream[p])) : Tail(stream[p])[i] = stream[p][i + 1]
  BY <1>1, HeadTailProperties
<1>3. \A i \in 1..Len(Tail(stream[p])) : i + 1 \in 2..Len(stream[p])
  BY <1>2
<1>4. QED
  BY <1>1, <1>2, <1>3 DEF Once, Lacks

LEMMA HeardBeforeGrace ==
  ASSUME LInv, Unharmed, owner = port
  PROVE  heard < Grace
<1> USE SpansInOrder
<1>1. CASE stream[port] # <<>>
  <2>1. Head(stream[port]).age <= Prompt /\ Head(stream[port]) \in Packets
    BY <1>1, GoodLine, WaitsRead
  <2>2. heard <= KeepAlive + Timeout + Head(stream[port]).age
    BY <1>1 DEF LInv, Fine, HeardInTime
  <2> QED
    BY <2>1, <2>2, GoodLine DEF Packets
<1>2. CASE stream[port] = <<>>
  <2>1. heard + (IF at = "yield" THEN wait ELSE 0) <= KeepAlive + (IF at = "yield" THEN Timeout ELSE 0)
    BY <1>2 DEF LInv, Fine, HeardInTime
  <2> QED
    BY <2>1, GoodLine
<1>3. QED
  BY <1>1, <1>2

LEMMA BrokerIsFine ==
  ASSUME LInv, NEW p \in Ports, Receive(p) \/ Drop(p)
  PROVE  Fine'
<1> USE SpansInOrder
<1>1. UNCHANGED <<core1, client, wire, broker, more>> /\ at' = at /\ port' = port
  BY DEF Receive, Drop, core1, world, history, TakeOver, Refuse
<1>2. SUFFICES ASSUME Unharmed, ~upset' PROVE Fine'
  <2>1. upset' = TRUE \/ upset' = upset \/ upset' = (upset \/ owner = port)
    BY DEF Receive, Drop, TakeOver, Refuse, history
  <2>2. Unharmed' => Unharmed /\ ~upset'
    BY <1>1, <2>1 DEF Unharmed
  <2> QED
    BY <2>2, Harmed
<1>3. p # port => Lacks(stream[p], "CONNECT")
  BY <1>2, GoodLine
<1>4. CASE Drop(p)
  <2>1. p # port
    <3>1. p = port => p = owner /\ heard >= Grace
      BY <1>2, <1>4, GoodLine DEF Drop, Established
    <3> QED
      BY <1>2, <3>1, HeardBeforeGrace, GoodLine
  <2>2. Close(p) /\ UNCHANGED <<down, heard>>
    BY <1>4 DEF Drop, history
  <2> QED
    BY <1>1, <1>2, <2>1, <2>2, CloseOther
<1>5. CASE Receive(p)
  <2> DEFINE kind == Head(stream[p]).kind
  <2>1. stream[p] # <<>> /\ stream[p] \in Seq(Packets) /\ stream \in [Ports -> Seq(Packets)]
    BY <1>5 DEF Receive, LInv, IInv, Shape
  <2>2. kind \in Requests
    <3>1. Head(stream[p]) \in Packets
      BY <2>1, WaitsRead
    <3> QED
      BY <3>1 DEF Packets
  <2>3. \A k : Lacks(stream[p], k) => kind # k
    <3>1. 1 \in 1..Len(stream[p]) /\ Head(stream[p]) = stream[p][1]
      BY <2>1
    <3> QED
      BY <3>1 DEF Lacks
  <2>4. CASE kind = "CONNECT" /\ TakeOver(p)
    <3>1. p = port
      BY <1>3, <2>3, <2>4
    <3>2. Calling(port) /\ port \in Ports
      BY <2>1, <2>4, <3>1 DEF Calling
    <3>3. owner # port
      BY <3>2 DEF LInv, HInv, OneConnect
    <3>4. at = "connack"
      BY <1>2, <3>2, GoodLine DEF LInv, HInv, ReadInTurn, Announced, Subscribing, Unharmed, Connected,
                                  Awaiting, Served
    <3>5. /\ stream' = [q \in Ports |-> IF q = p THEN Tail(stream[p])
                                        ELSE IF q = owner THEN <<>> ELSE stream[q]]
          /\ socket' = socket /\ open' = open \ {owner} /\ heard' = 0
          /\ down' = Append(down, "CONNACK")
      BY <1>2, <2>4, <3>1, <3>3, GoodLine DEF TakeOver, Reply
    <3>6. \A q \in Ports \ {port} : Lacks(stream'[q], "CONNECT")
      <4>1. Lacks(<<>>, "CONNECT")
        BY DEF Lacks
      <4> QED
        BY <1>2, <3>1, <3>5, <4>1, GoodLine
    <3>7. stream'[port] = Tail(stream[port]) /\ port \in open'
      BY <1>2, <3>1, <3>3, <3>5, GoodLine
    <3>8. "CONNACK" \in Replies \ {"REFUSED"}
      BY DEF Replies
    <3> QED
      BY <1>1, <1>2, <2>1, <2>2, <2>4, <3>1, <3>4, <3>5, <3>6, <3>7, <3>8, AnswerIsFine
  <2>5. CASE Refuse(p)
    BY <1>2, <2>5 DEF Refuse
  <2>6. CASE kind = "FIN" /\ Close(p) /\ UNCHANGED <<heard, down>>
    <3>1. p # port
      BY <1>2, <2>3, <2>6, GoodLine
    <3> QED
      BY <1>1, <1>2, <2>6, <3>1, CloseOther
  <2>7. CASE /\ kind \notin {"CONNECT", "FIN"}
             /\ stream' = [stream EXCEPT ![p] = Tail(@)] /\ heard' = 0
             /\ IF kind = "PUBACK" THEN UNCHANGED down ELSE Reply(p, Answer[kind])
             /\ UNCHANGED <<open, owner, socket>>
    <3>1. owner = p
      BY <2>1, <2>7 DEF LInv, IInv, OthersAreNotHeard
    <3>2. /\ stream'[p] = Tail(stream[p]) /\ \A q \in Ports \ {p} : stream'[q] = stream[q]
          /\ port \in open'
      BY <1>2, <2>1, <2>7, GoodLine
    <3>3. \A q \in Ports \ {port} : Lacks(stream'[q], "CONNECT")
      BY <1>2, <2>1, <3>2, GoodLine, TailLacksConnect
    <3>4. CASE p = port
      <4> DEFINE reply == Answer[kind]
      <4>1. kind # "PUBACK" => reply \in Replies \ {"REFUSED"}
        BY <2>2, <2>7 DEF Answer, Requests, Replies
      <4>2. kind # "PUBACK" => down' = Append(down, reply)
        BY <1>2, <2>7, <3>4, GoodLine DEF Reply
      <4>3. kind \in Requests \ {"FIN"} /\ kind = Head(stream[port]).kind
        BY <2>2, <2>7, <3>4
      <4> HIDE DEF reply, kind
      <4>4. CASE kind # "PUBACK"
        BY <1>1, <1>2, <2>1, <2>7, <3>2, <3>3, <3>4, <4>1, <4>2, <4>3, <4>4, AnswerIsFine DEF reply
      <4>5. CASE kind = "PUBACK"
        <5>1. "PUBACK" \in Replies \ {"REFUSED"}
          BY DEF Replies
        <5> QED
          BY <1>1, <1>2, <2>1, <2>7, <3>2, <3>3, <3>4, <4>3, <4>5, <5>1, AnswerIsFine
      <4> QED
        BY <4>4, <4>5
    <3>5. CASE p # port
      <4>1. stream'[port] = stream[port] /\ down' = down
        BY <1>2, <2>7, <3>2, <3>5, GoodLine DEF Reply
      <4> QED
        BY <1>1, <1>2, <2>7, <3>1, <3>2, <3>3, <3>5, <4>1, LeftAlone
    <3> QED
      BY <3>4, <3>5
  <2>8. QED
    BY <1>5, <2>4, <2>5, <2>6, <2>7 DEF Receive, history
<1>6. QED
  BY <1>4, <1>5

LEMMA EnvironmentIsFine ==
  ASSUME LInv, Environment
  PROVE  Fine'
<1>1. CASE Freeze \/ Restart \/ Cut \/ PowerCut
  BY <1>1, Harmed DEF Freeze, Restart, Cut, PowerCut, Unharmed
<1>2. CASE PowerUp
  BY <1>2, Harmed DEF PowerUp, Unharmed, Connected, Awaiting, Served
<1>3. CASE Thaw \/ Mend \/ SocketCloses
  <2>1. ~Unharmed
    <3> SUFFICES ASSUME Unharmed PROVE FALSE
      OBVIOUS
    <3> QED
      BY <1>3, GoodLine DEF Thaw, Mend, SocketCloses
  <2> QED
    BY <1>3, <2>1, Harmed DEF Thaw, Mend, SocketCloses, Unharmed, core1, history
<1>4. CASE Command
  <2>1. /\ UNCHANGED <<core1, client, socket, wire, broker, more, upset, heard>>
        /\ stream' = stream /\ open' = open /\ owner' = owner /\ down' = Append(down, "PUBLISH")
    BY <1>4 DEF Command, host, history
  <2>2. CASE ~Unharmed
    BY <2>1, <2>2, Harmed DEF Unharmed, core1
  <2>3. CASE Unharmed
    BY <2>1, <2>3, GoodLine, LeftAlone
  <2> QED
    BY <2>2, <2>3
<1>5. QED
  BY <1>1, <1>2, <1>3, <1>4 DEF Environment

(* Time passes for what waits in a stream a healthy broker has not read yet. *)
LEMMA StreamAges ==
  ASSUME LInv, Unharmed, Tick, NEW p \in Ports
  PROVE  /\ Young(stream'[p]) /\ (stream'[p] # <<>> <=> stream[p] # <<>>)
         /\ stream[p] # <<>> =>
              Head(stream[p]).age \in Nat /\ Head(stream'[p]).age = Head(stream[p]).age + 1
         /\ \A kind : Lacks(stream[p], kind) => Lacks(stream'[p], kind)
         /\ \A kind : \A k \in Int : Waits(stream[p], kind, k) => Waits(stream'[p], kind, k + 1)
<1>1. stream[p] \in Seq(Packets) /\ Len(stream[p]) \in Nat /\ DOMAIN stream[p] = 1..Len(stream[p])
  BY DEF LInv, IInv, Shape
<1>2. \A i \in 1..Len(stream[p]) : stream[p][i].age < Prompt
  BY <1>1, GoodLine DEF Tick, BrokerInTime
<1>3. \A i \in 1..Len(stream[p]) : stream[p][i] \in Packets /\ stream[p][i].age \in Nat
  <2>1. \A i \in 1..Len(stream[p]) : stream[p][i] \in Packets
    BY <1>1, ElementOfSeq
  <2> QED
    BY <2>1 DEF Packets
<1> DEFINE older(i) == [stream[p][i] EXCEPT !.age = Upto(@ + 1, Prompt)]
           t == [i \in 1..Len(stream[p]) |-> older(i)]
<1>4. stream'[p] = t
  BY <1>1 DEF Tick
<1>5. \A i \in 1..Len(stream[p]) : Upto(stream[p][i].age + 1, Prompt) = stream[p][i].age + 1
  BY <1>2, <1>3, SpansInOrder DEF Upto
<1>6. ASSUME NEW i \in 1..Len(stream[p])
      PROVE  /\ t[i].kind = stream[p][i].kind
             /\ t[i].age = stream[p][i].age + 1 /\ t[i].age <= Prompt
  <2>1. t[i] = [stream[p][i] EXCEPT !.age = stream[p][i].age + 1]
    BY <1>5
  <2>2. t[i].kind = stream[p][i].kind /\ t[i].age = stream[p][i].age + 1
    BY <1>3, <2>1 DEF Packets
  <2> QED
    BY <1>2, <1>3, <2>2, SpansInOrder
<1>7. Len(t) = Len(stream[p]) /\ (t # <<>> <=> stream[p] # <<>>)
  BY <1>1
<1>8. stream[p] # <<>> => Head(t) = t[1] /\ Head(stream[p]) = stream[p][1] /\ 1 \in 1..Len(stream[p])
  BY <1>1
<1> HIDE DEF t
<1>9. Young(t) /\ \A kind : Lacks(stream[p], kind) => Lacks(t, kind)
  BY <1>6, <1>7 DEF Young, Lacks
<1>10. \A kind : \A k \in Int : Waits(stream[p], kind, k) => Waits(t, kind, k + 1)
  <2> SUFFICES ASSUME NEW kind, NEW k \in Int, Waits(stream[p], kind, k)
               PROVE  Waits(t, kind, k + 1)
    OBVIOUS
  <2>1. PICK i \in 1..Len(stream[p]) : stream[p][i].kind = kind /\ stream[p][i].age >= k
    BY DEF Waits
  <2>2. t[i].kind = kind /\ t[i].age >= k + 1
    BY <1>3, <1>6, <2>1
  <2> QED
    BY <1>7, <2>2 DEF Waits
<1>11. QED
  BY <1>3, <1>4, <1>6, <1>7, <1>8, <1>9, <1>10

LEMMA TickIsFine ==
  ASSUME LInv, Tick
  PROVE  Fine'
<1> USE SpansInOrder
<1>1. UNCHANGED <<at, port, socket, outstanding, pending, down, open, owner, wire, broker, upset, more>>
  BY DEF Tick, world
<1>2. SUFFICES ASSUME Unharmed PROVE Fine'
  BY <1>1, Harmed DEF Unharmed
<1> DEFINE s == stream[port]
           t == stream'[port]
<1>3. /\ Young(t) /\ (t # <<>> <=> s # <<>>)
      /\ s # <<>> => Head(s).age \in Nat /\ Head(t).age = Head(s).age + 1
      /\ \A kind : Lacks(s, kind) => Lacks(t, kind)
      /\ \A kind : \A k \in Int : Waits(s, kind, k) => Waits(t, kind, k + 1)
  BY <1>2, GoodLine, StreamAges
<1>4. \A p \in Ports \ {port} : Lacks(stream'[p], "CONNECT")
  BY <1>2, GoodLine, StreamAges
<1> HIDE DEF s, t
<1>5. /\ down = <<>>
      /\ \/ at \in Awaiting \cup {"settle", "yield"} /\ wait > 0 /\ budget' = budget
         \/ at = "poll" /\ budget = Burst /\ budget' = 0 /\ wait = 0
  <2>1. at \in Connected /\ Established
    BY <1>2, GoodLine DEF Unharmed
  <2>2. at = "poll" => wait = 0
    BY DEF LInv, TInv, CallsAreTimed
  <2> QED
    BY <2>1, <2>2 DEF Tick, AtRest, Readable, Established, Connected, Awaiting, Served
<1>6. \A kind : Unanswered(down, kind)
  BY <1>5 DEF Unanswered
<1>7. /\ wait' = (IF wait = 0 THEN 0 ELSE wait - 1) /\ wait' \in Nat
      /\ sent' = (IF sent + 1 < KeepAlive THEN sent + 1 ELSE KeepAlive)
      /\ age' = age \/ (pending /\ age' <= age + 1)
      /\ age' \in Nat
      /\ owner = port => heard' <= heard + 1 /\ heard' \in Nat
  <2>1. wait' = (IF wait = 0 THEN 0 ELSE wait - 1) /\ wait' \in Nat
    BY <1>2, GoodLine DEF Tick, Minus1
  <2>2. sent' = (IF sent + 1 < KeepAlive THEN sent + 1 ELSE KeepAlive)
    BY <1>2 DEF Tick, Upto, Unharmed
  <2>3. age' = age \/ (pending /\ age' <= age + 1 /\ age' \in Nat)
    BY <1>2, GoodLine DEF Tick, Upto
  <2>4. age' \in Nat
    BY <1>2, <2>3, GoodLine
  <2>5. owner = port => heard' <= heard + 1 /\ heard' \in Nat
    <3>1. owner = port => heard' = Upto(heard + 1, Grace)
      BY <1>2, GoodLine, PortsAreNumbers DEF Tick
    <3>2. heard \in Nat /\ Grace \in Nat
      BY <1>2, GoodLine
    <3> QED
      BY <3>1, <3>2 DEF Upto
  <2> QED
    BY <2>1, <2>2, <2>3, <2>4, <2>5
<1>8. AnswersComeInTime /\ PingsAreAnswered /\ LoopKeepsPace /\ HeardInTime
  BY DEF LInv, Fine
<1>9. LineIsGood'
  BY <1>1, <1>2, <1>3, <1>4, GoodLine DEF LineIsGood, Established, s, t
<1>10. AnswersComeInTime'
  <2> SUFFICES ASSUME at \in Awaiting
               PROVE  sent' + wait' <= Timeout /\ Waits(t, Asked[at], Timeout - wait')
    BY <1>1 DEF AnswersComeInTime, t
  <2>1. sent + wait <= Timeout /\ Waits(s, Asked[at], Timeout - wait)
    BY <1>2, <1>6, <1>8 DEF AnswersComeInTime, s
  <2>2. wait > 0
    BY <1>5 DEF Awaiting
  <2>3. Waits(t, Asked[at], Timeout - wait + 1)
    BY <1>2, <1>3, <2>1, GoodLine
  <2>4. Timeout - wait + 1 = Timeout - wait'
    BY <1>2, <1>7, <2>2, GoodLine
  <2>5. sent' + wait' <= Timeout
    BY <1>2, <1>7, <2>1, <2>2, GoodLine
  <2> QED
    BY <2>3, <2>4, <2>5
<1>11. PingsAreAnswered'
  <2> SUFFICES ASSUME outstanding PROVE at \in Served /\ Waits(t, "PINGREQ", Watched')
    BY <1>1 DEF PingsAreAnswered, t
  <2>1. at \in Served /\ Waits(s, "PINGREQ", Watched)
    BY <1>2, <1>6, <1>8 DEF PingsAreAnswered, s
  <2>2. Watched \in Nat /\ Watched' \in Nat /\ Watched' <= Watched + 1
    BY <1>1, <1>2, <1>7, GoodLine DEF Watched
  <2>3. Waits(t, "PINGREQ", Watched + 1)
    BY <1>3, <2>1, <2>2
  <2>4. t \in Seq(Packets)
    BY <1>2, TickKeeps, GoodLine DEF LInv, IInv, Shape, t
  <2> QED
    BY <2>1, <2>2, <2>3, <2>4, WaitsOn
<1>12. LoopKeepsPace'
  <2>1. at = "settle" => sent' + wait' <= Timeout
    BY <1>2, <1>5, <1>7, <1>8, GoodLine DEF LoopKeepsPace
  <2>2. at # "watch" /\ (at = "poll" => budget' # Burst)
    BY <1>5 DEF Awaiting
  <2>3. at = "yield" => wait' <= Timeout /\ more
    BY <1>2, <1>5, <1>7, <1>8, GoodLine DEF LoopKeepsPace
  <2>4. at = "poll" => ~(pending /\ ~outstanding)
    BY <1>2, <1>5, <1>8 DEF LoopKeepsPace, Awaiting
  <2>5. at = "yield" /\ pending /\ ~outstanding => sent' + wait' <= Prompt + Timeout
    BY <1>2, <1>5, <1>7, <1>8, GoodLine DEF LoopKeepsPace
  <2> QED
    BY <1>1, <2>1, <2>2, <2>3, <2>4, <2>5 DEF LoopKeepsPace
<1>13. HeardInTime'
  <2> SUFFICES ASSUME owner = port
               PROVE  IF t # <<>>
                      THEN heard' <= KeepAlive + Timeout + Head(t).age
                      ELSE /\ sent' < KeepAlive => heard' <= sent'
                           /\ heard' + (IF at = "yield" THEN wait' ELSE 0)
                                <= KeepAlive + (IF at = "yield" THEN Timeout ELSE 0)
    BY <1>1 DEF HeardInTime, t
  <2>1. CASE t # <<>>
    <3>1. heard <= KeepAlive + Timeout + Head(s).age
      BY <1>2, <1>3, <1>8, <2>1 DEF HeardInTime, s
    <3> QED
      BY <1>2, <1>3, <1>7, <2>1, <3>1, GoodLine
  <2>2. CASE t = <<>>
    <3>1. /\ sent < KeepAlive => heard <= sent
          /\ heard + (IF at = "yield" THEN wait ELSE 0)
               <= KeepAlive + (IF at = "yield" THEN Timeout ELSE 0)
      BY <1>2, <1>3, <1>8, <2>2 DEF HeardInTime, s
    <3>2. sent' < KeepAlive => heard' <= sent'
      <4>1. /\ sent' = (IF sent + 1 < KeepAlive THEN sent + 1 ELSE KeepAlive)
            /\ heard' <= heard + 1 /\ heard' \in Nat
        BY <1>7
      <4>2. sent \in Nat /\ heard \in Nat
        BY <1>2, GoodLine
      <4> QED
        BY <3>1, <4>1, <4>2
    <3>3. at = "yield" => heard' + wait' <= KeepAlive + Timeout
      BY <1>2, <1>5, <1>7, <3>1, GoodLine
    <3>4. at # "yield" => sent < KeepAlive
      <4>1. at \in Awaiting => sent + wait <= Timeout
        BY <1>2, <1>8 DEF AnswersComeInTime
      <4>2. at = "settle" => sent + wait <= Timeout
        BY <1>2, <1>8 DEF LoopKeepsPace
      <4>3. at = "poll" => sent < KeepAlive
        BY <1>2, <1>5, <1>8 DEF LoopKeepsPace, Awaiting
      <4> QED
        BY <1>2, <1>5, <4>1, <4>2, <4>3, GoodLine
    <3>5. at # "yield" => heard' <= KeepAlive
      BY <1>2, <1>7, <3>1, <3>4, GoodLine
    <3> QED
      BY <2>2, <3>2, <3>3, <3>5, <1>7
  <2> QED
    BY <2>1, <2>2
<1>14. QED
  BY <1>9, <1>10, <1>11, <1>12, <1>13 DEF Fine

LEMMA HeardIsNumber ==
  ASSUME heard \in Nat, [Next]_vars
  PROVE  heard' \in Nat
<1> USE SpansInOrder DEF host
<1>1. CASE Core1
  BY <1>1 DEF Core1, Init1, Connect1, Session1, InitWorks, InitFails, Dial, Wake, Announce, GoOn,
              Request, EndSession, Subscribed, Settled, GivesUp, PassOver, Cycle, Notice, Read, Idle,
              YieldReads, YieldEnds, YieldFails, Watch, Published
<1>2. CASE Publish
  BY <1>2 DEF Publish, Request, EndSession
<1>3. CASE Broker
  BY <1>3 DEF Broker, Receive, Drop, TakeOver, Refuse
<1>4. CASE Environment
  BY <1>4 DEF Environment, Command, Freeze, Thaw, Restart, Cut, Mend, SocketCloses, PowerCut, PowerUp
<1>5. CASE Tick
  BY <1>5 DEF Tick, Upto
<1>6. CASE UNCHANGED vars
  BY <1>6 DEF vars
<1>7. QED
  BY <1>1, <1>2, <1>3, <1>4, <1>5, <1>6 DEF Next

(* A fault stays on record until the next connection. *)
LEMMA UpsetStays ==
  ASSUME upset, Next, ~Dial
  PROVE  upset'
<1> USE DEF history
<1>1. CASE Core1
  BY <1>1 DEF Core1, Init1, Connect1, Session1, InitWorks, InitFails, Wake, Announce, GoOn,
              Request, EndSession, Subscribed, Settled, GivesUp, PassOver, Cycle, Notice, Read, Idle,
              YieldReads, YieldEnds, YieldFails, Watch, Published
<1>2. CASE Publish
  BY <1>2 DEF Publish, Request, EndSession
<1>3. CASE Broker
  BY <1>3 DEF Broker, Receive, Drop, TakeOver, Refuse
<1>4. CASE Environment
  BY <1>4 DEF Environment, Command, Freeze, Thaw, Restart, Cut, Mend, SocketCloses, PowerCut, PowerUp
<1>5. CASE Tick
  BY <1>5 DEF Tick
<1>6. QED
  BY <1>1, <1>2, <1>3, <1>4, <1>5 DEF Next

(* Who gives up a connection that has met no fault meets one in that very step. *)
LEMMA GivingUpHasAReason ==
  ASSUME LInv, Unharmed, Next,
         (at \in Connected /\ at' = "backoff") \/ (Established /\ socket' = "closewait")
  PROVE  upset'
<1> USE SpansInOrder
<1>1. Established /\ at \in Connected /\ Unanswered(down, "REFUSED") /\ port \in open /\ wire
  BY GoodLine DEF Unharmed
<1>2. at \in Awaiting => ~Expired
  BY AnswerIsSoon DEF Expired
<1>3. \A kind : down # <<>> /\ Unanswered(down, kind) => Head(down) # kind
  BY GoodLine, Answered
<1>4. socket # "closewait" /\ socket = "established"
  BY <1>1 DEF Established
<1>5. CASE Init1 \/ Dial \/ Wake
  BY <1>1, <1>5 DEF Init1, InitWorks, InitFails, Dial, Wake, Connected, Awaiting, Served
<1>6. CASE Announce \/ GoOn("alive", "ERROR", "error") \/ GoOn("error", "SUBSCRIBE", "subscribe")
           \/ Publish
  <2>1. at' \in Awaiting /\ socket' = socket
    BY <1>1, <1>6 DEF Announce, GoOn, Publish, Request, Write, Awaiting
  <2> QED
    BY <1>4, <2>1 DEF Awaiting
<1>7. CASE Subscribed \/ Settled \/ Read \/ Published
  <2>1. at' # "backoff" /\ socket' = socket
    BY <1>7 DEF Subscribed, Settled, Read, Published
  <2> QED
    BY <1>4, <2>1
<1>8. CASE GivesUp
  <2>1. at \in Awaiting /\ (Expired \/ (down # <<>> /\ Head(down) = "REFUSED"))
    BY <1>8 DEF GivesUp, Awaiting, Reads, Readable
  <2> QED
    BY <1>1, <1>2, <1>3, <2>1
<1>9. CASE PassOver \/ YieldReads \/ Idle \/ YieldEnds
  <2>1. at' # "backoff"
    BY <1>9 DEF PassOver, YieldReads, Idle, YieldEnds, Expects
  <2>2. socket' = socket
    BY <1>1, <1>9 DEF PassOver, YieldReads, Idle, YieldEnds, Cycle, Keepalive, Write
  <2> QED
    BY <1>4, <2>1, <2>2
<1>10. CASE Notice
  BY <1>1, <1>10 DEF Notice
<1>11. CASE YieldFails
  <2>1. at = "yield" /\ Expired /\ (upset' <=> upset \/ more)
    BY <1>1, <1>11 DEF YieldFails, Unacknowledged
  <2>2. more \/ wait = Timeout
    BY <2>1 DEF LInv, Fine, LoopKeepsPace
  <2> QED
    BY <2>1, <2>2 DEF Expired
<1>12. CASE Watch
  <2>1. ~Overdue
    BY PingIsYoung, GoodLine DEF Overdue
  <2>2. at' = "poll" /\ socket' = socket
    BY <1>12, <2>1 DEF Watch
  <2> QED
    BY <1>4, <2>2
<1>13. CASE Broker
  <2>1. PICK p \in Ports : Receive(p) \/ Drop(p)
    BY <1>13 DEF Broker
  <2>2. at' = at /\ at # "backoff"
    BY <1>1, <2>1 DEF Receive, Drop, core1, Connected, Awaiting, Served
  <2>3. socket' = "closewait"
    BY <2>2
  <2>4. CASE Drop(p)
    <3>1. p = port
      BY <1>4, <2>3, <2>4 DEF Drop, Close
    <3>2. owner = port /\ heard >= Grace
      BY <1>4, <2>4, <3>1 DEF Drop
    <3> QED
      BY <3>2, HeardBeforeGrace, GoodLine
  <2>5. CASE Receive(p)
    <3> DEFINE kind == Head(stream[p]).kind
    <3>1. stream[p] # <<>> /\ stream[p] \in Seq(Packets)
      BY <2>5 DEF Receive, LInv, IInv, Shape
    <3>2. Lacks(stream[p], "FIN") => kind # "FIN"
      <4>1. 1 \in 1..Len(stream[p]) /\ Head(stream[p]) = stream[p][1]
        BY <3>1
      <4> QED
        BY <4>1 DEF Lacks
    <3>3. CASE TakeOver(p)
      <4>1. owner = port
        BY <1>4, <2>3, <3>3 DEF TakeOver
      <4> QED
        BY <3>3, <4>1 DEF TakeOver
    <3>4. CASE Refuse(p)
      BY <3>4 DEF Refuse
    <3>5. CASE kind = "FIN" /\ Close(p)
      <4>1. p = port
        BY <1>4, <2>3, <3>5 DEF Close
      <4> QED
        BY <3>2, <3>5, <4>1, GoodLine
    <3>6. CASE socket' = socket
      BY <1>4, <2>3, <3>6
    <3> QED
      BY <2>5, <3>3, <3>4, <3>5, <3>6 DEF Receive
  <2> QED
    BY <2>1, <2>4, <2>5
<1>14. CASE Environment
  <2>1. CASE Command \/ Thaw \/ Mend \/ PowerUp \/ SocketCloses
    BY <1>1, <1>4, <2>1 DEF Command, Thaw, Mend, PowerUp, SocketCloses, core1, Connected, Awaiting,
                            Served
  <2>2. CASE Freeze \/ Restart \/ Cut \/ PowerCut
    BY <2>2 DEF Freeze, Restart, Cut, PowerCut
  <2> QED
    BY <1>14, <2>1, <2>2 DEF Environment
<1>15. CASE Tick
  <2>1. at' = at /\ socket' = socket /\ at # "backoff"
    BY <1>1, <1>15 DEF Tick, Connected, Awaiting, Served
  <2> QED
    BY <1>4, <2>1
<1>16. QED
  BY <1>5, <1>6, <1>7, <1>8, <1>9, <1>10, <1>11, <1>12, <1>13, <1>14, <1>15
  DEF Next, Core1, Connect1, Session1

LEMMA InitIsFine == LinkInit => heard \in Nat /\ Fine
<1> SUFFICES ASSUME LinkInit PROVE heard \in Nat /\ Fine
  OBVIOUS
<1>1. at = "init" /\ heard = 0
  BY DEF LinkInit
<1>2. ~Unharmed
  BY <1>1 DEF Unharmed, Connected, Awaiting, Served
<1> QED
  BY <1>1, <1>2 DEF Fine, LineIsGood, AnswersComeInTime, PingsAreAnswered, LoopKeepsPace, HeardInTime

LEMMA LinkKeepsItsWord == LInv /\ [Next]_vars => LInv'
<1> SUFFICES ASSUME LInv, [Next]_vars PROVE LInv'
  OBVIOUS
<1>1. IInv' /\ TInv' /\ HInv'
  BY SessionsKeepTheirWill, SilenceIsWatched, WhoIsServedIsAnnounced DEF LInv
<1>2. heard' \in Nat
  BY HeardIsNumber DEF LInv
<1>3. SUFFICES Fine'
  BY <1>1, <1>2 DEF LInv
<1>4. CASE Core1 \/ Publish
  BY <1>4, Core1IsFine
<1>5. CASE Broker
  BY <1>5, BrokerIsFine DEF Broker
<1>6. CASE Environment
  BY <1>6, EnvironmentIsFine
<1>7. CASE Tick
  BY <1>7, TickIsFine
<1>8. CASE UNCHANGED vars
  BY <1>8 DEF vars, core1, client, host, world, history, LInv, Fine, LineIsGood, AnswersComeInTime,
              PingsAreAnswered, LoopKeepsPace, HeardInTime, Unharmed, Established, Watched
<1>9. QED
  BY <1>4, <1>5, <1>6, <1>7, <1>8 DEF Next

(* A session without a fault is given up by neither side, for any spans in the *)
(* order of SpanAssumption, however fast core 0 publishes and whatever the     *)
(* broker sends: connectSession() gets its answers within the command timeout, *)
(* the watchdog on the ping of sessionLoop() is never met, and what the client *)
(* says keeps the broker within its grace.                                     *)
THEOREM SessionsEndForAReason == Spec => EndsForAReason
<1> DEFINE GivesUpNow == (at \in Connected /\ at' = "backoff") \/ (Established /\ socket' = "closewait")
<1>1. LInv /\ [Next]_vars => [GivesUpNow => upset']_vars
  <2> SUFFICES ASSUME LInv, Next, GivesUpNow PROVE upset'
    OBVIOUS
  <2>1. at \in Connected
    BY DEF LInv, IInv, SocketIsUsed
  <2>2. CASE Unharmed
    BY <2>2, GivingUpHasAReason
  <2>3. CASE ~Unharmed
    <3>1. upset
      BY <2>1, <2>3 DEF Unharmed
    <3>2. ~Dial
      BY <2>1 DEF Dial, Connected, Awaiting, Served
    <3> QED
      BY <3>1, <3>2, UpsetStays
  <2> QED
    BY <2>2, <2>3
<1>2. LinkInit => LInv
  BY InitEstablishes, InitIsTimed, InitIsOrderly, InitIsFine DEF LInv
<1>3. QED
  BY <1>1, <1>2, LinkKeepsItsWord, PTL DEF Spec, EndsForAReason
=============================================================================
