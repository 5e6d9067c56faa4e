----------------------------- MODULE SessionProofs -----------------------------
(* Proofs about Session, for every set of topics and every depth of the two      *)
(* queues.                                                                        *)
EXTENDS Session, SequenceTheorems, FiniteSetTheorems, TLAPS

-----------------------------------------------------------------------------
(* The inductive invariants. *)

(* A refresh on its way covers every topic. *)
FreshOrAsked(t) ==
    \/ Says(outq, t, retained[t], value[t])
    \/ AskedFor(t) \/ t \in lost \/ unasked

Silent(q, t) == \A i \in 1..Len(q) : ~Concerns(q[i], t)

(* The broker sends what it retains last; what has been read from it and not     *)
(* been dropped is still to be handled.                                           *)
GateOnItsWay ==
    /\ phase = "subscribe" => downlink = <<>>
    /\ phase \in {"settle", "serve"} /\ link => \A g \in Gates :
         /\ Says(downlink, g, wanted[g], wanted[g])
         /\ Silent(downlink, g) => Says(inq, g, value[g], wanted[g]) \/ g \in missed

IsReplay(m) == m # Refresh /\ m.replay
NoReplay(q) == \A i \in 1..Len(q) : ~IsReplay(q[i])
NoRefresh(q) == \A i \in 1..Len(q) : q[i] # Refresh
InOrder(q) == \A i \in 1..Len(q) : \A j \in 1..Len(q) :
                i < j /\ q[i] = Refresh => ~IsReplay(q[j])

(* A session that began at rest asks for a refresh after the replays have landed, *)
(* and core 0 takes them in that order.                                           *)
ReplaysBeforeRefresh ==
    ~hurried =>
      /\ phase \in {"flush", "connect", "subscribe"} => inq = <<>> /\ todo = {}
      /\ phase = "settle" => todo = {} /\ NoRefresh(inq)
      /\ phase \in {"serve", "backoff"} =>
           /\ NoReplay(downlink)
           /\ InOrder(inq)
           /\ todo # {} => NoReplay(inq)

SessionInv ==
    /\ SessionTypeOK
    /\ StaleOnlyWhenLost
    /\ GateOnItsWay
    /\ ReplaysBeforeRefresh

-----------------------------------------------------------------------------
(* What a queue says, as entries come and go. *)

(* Put m at the end: it has the last word on its own topic. *)
LEMMA SaysAppend ==
    ASSUME NEW S, NEW q \in Seq(S), NEW m \in S, NEW t, NEW otherwise, NEW v
    PROVE  /\ Concerns(m, t) /\ m.value = v => Says(Append(q, m), t, otherwise, v)
           /\ ~Concerns(m, t) /\ Says(q, t, otherwise, v) => Says(Append(q, m), t, otherwise, v)
           /\ Silent(Append(q, m), t) => Silent(q, t) /\ ~Concerns(m, t)
<1> DEFINE p == Append(q, m)
<1>1. /\ Len(q) \in Nat /\ Len(p) = Len(q) + 1 /\ p[Len(q) + 1] = m
      /\ \A i \in 1..Len(q) : p[i] = q[i]
  BY AppendProperties
<1> HIDE DEF p
<1>2. \A i \in 1..Len(p) : i \in 1..Len(q) \/ i = Len(q) + 1
  BY <1>1
<1>3. Len(q) + 1 \in 1..Len(p) /\ \A i \in 1..Len(q) : i \in 1..Len(p)
  BY <1>1
<1>4. ASSUME Concerns(m, t), m.value = v PROVE Says(p, t, otherwise, v)
  <2>1. \A j \in (Len(q) + 1) + 1..Len(p) : ~Concerns(p[j], t)
    BY <1>1
  <2>2. QED
    BY <1>1, <1>3, <1>4, <2>1 DEF Says
<1>5. ASSUME ~Concerns(m, t), Says(q, t, otherwise, v) PROVE Says(p, t, otherwise, v)
  <2>1. CASE \E i \in 1..Len(q) : /\ Concerns(q[i], t) /\ q[i].value = v
                                   /\ \A j \in i + 1..Len(q) : ~Concerns(q[j], t)
    <3>1. PICK i \in 1..Len(q) : /\ Concerns(q[i], t) /\ q[i].value = v
                                 /\ \A j \in i + 1..Len(q) : ~Concerns(q[j], t)
      BY <2>1
    <3>2. ASSUME NEW j \in i + 1..Len(p) PROVE ~Concerns(p[j], t)
      <4>1. (j \in i + 1..Len(q) /\ j \in 1..Len(q)) \/ j = Len(q) + 1
        BY <1>1
      <4>2. QED
        BY <1>1, <1>5, <3>1, <4>1
    <3>3. i \in 1..Len(p) /\ Concerns(p[i], t) /\ p[i].value = v
      BY <1>1, <1>3, <3>1
    <3>4. QED
      BY <3>2, <3>3 DEF Says
  <2>2. CASE (\A i \in 1..Len(q) : ~Concerns(q[i], t)) /\ otherwise = v
    BY <1>1, <1>2, <1>5, <2>2 DEF Says
  <2>3. QED
    BY <1>5, <2>1, <2>2 DEF Says
<1>6. Silent(p, t) => Silent(q, t) /\ ~Concerns(m, t)
  BY <1>1, <1>3 DEF Silent
<1>7. QED
  BY <1>4, <1>5, <1>6 DEF p

(* Take the head: what it said becomes what holds when the rest says nothing. *)
LEMMA SaysTail ==
    ASSUME NEW S, NEW q \in Seq(S), q # <<>>, NEW t, NEW otherwise, NEW v,
           Says(q, t, otherwise, v)
    PROVE  /\ Concerns(Head(q), t) => Says(Tail(q), t, Head(q).value, v)
           /\ ~Concerns(Head(q), t) => Says(Tail(q), t, otherwise, v)
<1> DEFINE p == Tail(q)
<1>1. /\ Len(q) \in Nat \ {0} /\ Len(p) = Len(q) - 1 /\ Head(q) = q[1]
      /\ \A i \in 1..Len(p) : p[i] = q[i + 1]
  BY HeadTailProperties, EmptySeq
<1> HIDE DEF p
<1>2. CASE \E i \in 1..Len(q) : /\ Concerns(q[i], t) /\ q[i].value = v
                                 /\ \A j \in i + 1..Len(q) : ~Concerns(q[j], t)
  <2>1. PICK i \in 1..Len(q) : /\ Concerns(q[i], t) /\ q[i].value = v
                               /\ \A j \in i + 1..Len(q) : ~Concerns(q[j], t)
    BY <1>2
  <2>2. CASE i = 1
    <3>1. ASSUME NEW j \in 1..Len(p) PROVE ~Concerns(p[j], t)
      <4>1. j + 1 \in i + 1..Len(q) /\ p[j] = q[j + 1]
        BY <1>1, <2>2
      <4>2. QED
        BY <2>1, <4>1
    <3>2. Concerns(Head(q), t) /\ Head(q).value = v
      BY <1>1, <2>1, <2>2
    <3>3. QED
      BY <3>1, <3>2 DEF Says, p
  <2>3. CASE i # 1
    <3>1. PICK k \in 1..Len(p) : i = k + 1
      <4>1. i - 1 \in 1..Len(p) /\ i = (i - 1) + 1
        BY <1>1, <2>3
      <4>2. QED
        BY <4>1
    <3>2. ASSUME NEW j \in k + 1..Len(p) PROVE ~Concerns(p[j], t)
      <4>1. j \in 1..Len(p) /\ j + 1 \in i + 1..Len(q)
        BY <1>1, <3>1
      <4>2. QED
        BY <1>1, <2>1, <4>1
    <3>3. Concerns(p[k], t) /\ p[k].value = v
      BY <1>1, <2>1, <3>1
    <3>4. QED
      BY <3>2, <3>3 DEF Says, p
  <2>4. QED
    BY <2>2, <2>3
<1>3. CASE (\A i \in 1..Len(q) : ~Concerns(q[i], t)) /\ otherwise = v
  <2>1. ~Concerns(Head(q), t)
    BY <1>1, <1>3
  <2>2. ASSUME NEW j \in 1..Len(p) PROVE ~Concerns(p[j], t)
    <3>1. j + 1 \in 1..Len(q)
      BY <1>1
    <3>2. QED
      BY <1>1, <1>3, <3>1
  <2>3. QED
    BY <1>3, <2>1, <2>2 DEF Says, p
<1>4. QED
  BY <1>2, <1>3 DEF Says

(* Put a queue that has a word on t behind another: it is the last word. *)
LEMMA SaysBehind ==
    ASSUME NEW S, NEW p \in Seq(S), NEW q \in Seq(S), NEW t, NEW o, NEW otherwise, NEW v
    PROVE  /\ ~Silent(q, t) /\ Says(q, t, o, v) => Says(p \o q, t, otherwise, v)
           /\ Silent(q, t) /\ Says(p, t, otherwise, v) => Says(p \o q, t, otherwise, v)
<1> DEFINE c == p \o q
<1>1. /\ Len(p) \in Nat /\ Len(q) \in Nat /\ Len(c) = Len(p) + Len(q)
      /\ \A i \in 1..Len(p) + Len(q) : c[i] = IF i <= Len(p) THEN p[i] ELSE q[i - Len(p)]
  BY ConcatProperties, LenProperties
<1> HIDE DEF c
<1>2. \A i \in 1..Len(p) : i \in 1..Len(c) /\ c[i] = p[i]
  BY <1>1
<1>3. \A i \in 1..Len(q) : Len(p) + i \in 1..Len(c) /\ c[Len(p) + i] = q[i]
  <2>1. ASSUME NEW i \in 1..Len(q)
        PROVE  /\ Len(p) + i \in 1..Len(p) + Len(q)
               /\ ~(Len(p) + i <= Len(p)) /\ (Len(p) + i) - Len(p) = i
    BY <1>1
  <2>2. ASSUME NEW i \in 1..Len(q) PROVE c[Len(p) + i] = q[i]
    BY <1>1, <2>1, <2>2
  <2>3. QED
    BY <1>1, <2>1, <2>2
<1>4. ASSUME ~Silent(q, t), Says(q, t, o, v) PROVE Says(c, t, otherwise, v)
  <2>1. PICK i \in 1..Len(q) : /\ Concerns(q[i], t) /\ q[i].value = v
                               /\ \A j \in i + 1..Len(q) : ~Concerns(q[j], t)
    BY <1>4 DEF Says, Silent
  <2>2. ASSUME NEW j \in (Len(p) + i) + 1..Len(c) PROVE ~Concerns(c[j], t)
    <3>1. j - Len(p) \in i + 1..Len(q) /\ j - Len(p) \in 1..Len(q) /\ j = Len(p) + (j - Len(p))
      BY <1>1
    <3>2. QED
      BY <1>3, <2>1, <3>1
  <2>3. Len(p) + i \in 1..Len(c) /\ Concerns(c[Len(p) + i], t) /\ c[Len(p) + i].value = v
    BY <1>3, <2>1
  <2>4. QED
    BY <2>2, <2>3 DEF Says
<1>5. ASSUME Silent(q, t), Says(p, t, otherwise, v) PROVE Says(c, t, otherwise, v)
  <2>1. ASSUME NEW j \in 1..Len(c), ~(j \in 1..Len(p)) PROVE ~Concerns(c[j], t)
    <3>1. j - Len(p) \in 1..Len(q) /\ j = Len(p) + (j - Len(p))
      BY <1>1, <2>1
    <3>2. QED
      BY <1>3, <1>5, <3>1 DEF Silent
  <2>2. CASE \E i \in 1..Len(p) : /\ Concerns(p[i], t) /\ p[i].value = v
                                   /\ \A j \in i + 1..Len(p) : ~Concerns(p[j], t)
    <3>1. PICK i \in 1..Len(p) : /\ Concerns(p[i], t) /\ p[i].value = v
                                 /\ \A j \in i + 1..Len(p) : ~Concerns(p[j], t)
      BY <2>2
    <3>2. ASSUME NEW j \in i + 1..Len(c) PROVE ~Concerns(c[j], t)
      <4>1. j \in 1..Len(c) /\ (j \in 1..Len(p) => j \in i + 1..Len(p))
        BY <1>1
      <4>2. QED
        BY <1>2, <2>1, <3>1, <4>1
    <3>3. i \in 1..Len(c) /\ Concerns(c[i], t) /\ c[i].value = v
      BY <1>2, <3>1
    <3>4. QED
      BY <3>2, <3>3 DEF Says
  <2>3. CASE (\A i \in 1..Len(p) : ~Concerns(p[i], t)) /\ otherwise = v
    <3>1. \A j \in 1..Len(c) : ~Concerns(c[j], t)
      BY <1>2, <2>1, <2>3
    <3>2. QED
      BY <2>3, <3>1 DEF Says
  <2>4. QED
    BY <1>5, <2>2, <2>3 DEF Says
<1>6. QED
  BY <1>4, <1>5 DEF c

(* The contents of a queue, likewise. *)
LEMMA ContentsMove ==
    ASSUME NEW S, NEW q \in Seq(S)
    PROVE  /\ \A m \in S : Contents(Append(q, m)) = Contents(q) \cup {m}
           /\ q # <<>> => Contents(q) = {Head(q)} \cup Contents(Tail(q))
<1>1. ASSUME NEW m \in S PROVE Contents(Append(q, m)) = Contents(q) \cup {m}
  <2> DEFINE p == Append(q, m)
  <2>1. /\ Len(q) \in Nat /\ Len(p) = Len(q) + 1 /\ p[Len(q) + 1] = m
        /\ \A i \in 1..Len(q) : p[i] = q[i]
    BY AppendProperties
  <2> HIDE DEF p
  <2>2. \A i \in 1..Len(p) : i \in 1..Len(q) \/ i = Len(q) + 1
    BY <2>1
  <2>3. Len(q) + 1 \in 1..Len(p) /\ \A i \in 1..Len(q) : i \in 1..Len(p)
    BY <2>1
  <2>4. Contents(p) = Contents(q) \cup {m}
    BY <2>1, <2>2, <2>3 DEF Contents
  <2>5. QED
    BY <2>4 DEF p
<1>2. ASSUME q # <<>> PROVE Contents(q) = {Head(q)} \cup Contents(Tail(q))
  <2> DEFINE p == Tail(q)
  <2>1. /\ Len(q) \in Nat \ {0} /\ Len(p) = Len(q) - 1 /\ Head(q) = q[1]
        /\ \A i \in 1..Len(p) : p[i] = q[i + 1]
    BY <1>2, HeadTailProperties, EmptySeq
  <2> HIDE DEF p
  <2>2. \A i \in 1..Len(q) : i = 1 \/ (i - 1 \in 1..Len(p) /\ (i - 1) + 1 = i)
    BY <2>1
  <2>3. 1 \in 1..Len(q) /\ \A i \in 1..Len(p) : i + 1 \in 1..Len(q)
    BY <2>1
  <2>4. Contents(q) = {Head(q)} \cup Contents(p)
    <3>1. ASSUME NEW x \in Contents(q) PROVE x \in {Head(q)} \cup Contents(p)
      <4>1. PICK i \in 1..Len(q) : x = q[i]
        BY <3>1 DEF Contents
      <4>2. i = 1 \/ (i - 1 \in 1..Len(p) /\ q[i] = p[i - 1])
        BY <2>1, <2>2
      <4>3. QED
        BY <2>1, <4>1, <4>2 DEF Contents
    <3>2. ASSUME NEW x \in {Head(q)} \cup Contents(p) PROVE x \in Contents(q)
      BY <2>1, <2>3 DEF Contents
    <3>3. QED
      BY <3>1, <3>2
  <2>5. QED
    BY <2>4 DEF p
<1>3. QED
  BY <1>1, <1>2

(* Replays and refreshes keep their order as the queue moves. *)
LEMMA OrderAppend ==
    ASSUME NEW S, NEW q \in Seq(S), NEW m \in S
    PROVE  /\ NoReplay(q) /\ ~IsReplay(m) => NoReplay(Append(q, m))
           /\ NoRefresh(q) /\ m # Refresh => NoRefresh(Append(q, m))
           /\ InOrder(q) /\ ~IsReplay(m) => InOrder(Append(q, m))
           /\ NoRefresh(q) => InOrder(Append(q, m))
<1> DEFINE p == Append(q, m)
<1>1. /\ Len(q) \in Nat /\ Len(p) = Len(q) + 1 /\ p[Len(q) + 1] = m
      /\ \A i \in 1..Len(q) : p[i] = q[i]
  BY AppendProperties
<1> HIDE DEF p
<1>2. \A i \in 1..Len(p) : i \in 1..Len(q) \/ i = Len(q) + 1
  BY <1>1
<1>3. NoReplay(q) /\ ~IsReplay(m) => NoReplay(p)
  BY <1>1, <1>2 DEF NoReplay
<1>4. NoRefresh(q) /\ m # Refresh => NoRefresh(p)
  BY <1>1, <1>2 DEF NoRefresh
<1>5. ASSUME NEW i \in 1..Len(p), NEW j \in 1..Len(p), i < j
      PROVE  /\ i \in 1..Len(q) /\ p[i] = q[i]
             /\ (j \in 1..Len(q) /\ p[j] = q[j]) \/ p[j] = m
  <2>1. i \in 1..Len(q) /\ (j \in 1..Len(q) \/ j = Len(q) + 1)
    BY <1>1, <1>5
  <2>2. QED
    BY <1>1, <2>1
<1>6. InOrder(q) /\ ~IsReplay(m) => InOrder(p)
  BY <1>5 DEF InOrder
<1>7. NoRefresh(q) => InOrder(p)
  BY <1>5 DEF InOrder, NoRefresh
<1>8. QED
  BY <1>3, <1>4, <1>6, <1>7 DEF p

LEMMA OrderTail ==
    ASSUME NEW S, NEW q \in Seq(S), q # <<>>
    PROVE  /\ NoReplay(q) => NoReplay(Tail(q)) /\ ~IsReplay(Head(q))
           /\ NoRefresh(q) => NoRefresh(Tail(q)) /\ Head(q) # Refresh
           /\ InOrder(q) => InOrder(Tail(q))
           /\ InOrder(q) /\ Head(q) = Refresh => NoReplay(Tail(q))
<1> DEFINE p == Tail(q)
<1>1. /\ Len(q) \in Nat \ {0} /\ Len(p) = Len(q) - 1 /\ Head(q) = q[1]
      /\ \A i \in 1..Len(p) : p[i] = q[i + 1]
  BY HeadTailProperties, EmptySeq
<1> HIDE DEF p
<1>2. 1 \in 1..Len(q) /\ \A i \in 1..Len(p) : i + 1 \in 1..Len(q) /\ 1 < i + 1
  BY <1>1
<1>3. NoReplay(q) => NoReplay(p) /\ ~IsReplay(Head(q))
  BY <1>1, <1>2 DEF NoReplay
<1>4. NoRefresh(q) => NoRefresh(p) /\ Head(q) # Refresh
  BY <1>1, <1>2 DEF NoRefresh
<1>5. InOrder(q) => InOrder(p)
  <2>1. ASSUME InOrder(q), NEW i \in 1..Len(p), NEW j \in 1..Len(p), i < j, p[i] = Refresh
        PROVE  ~IsReplay(p[j])
    <3>1. i + 1 < j + 1
      BY <1>1, <2>1
    <3>2. QED
      BY <1>1, <1>2, <2>1, <3>1 DEF InOrder
  <2>2. QED
    BY <2>1 DEF InOrder
<1>6. InOrder(q) /\ Head(q) = Refresh => NoReplay(p)
  BY <1>1, <1>2 DEF InOrder, NoReplay
<1>7. QED
  BY <1>3, <1>4, <1>5, <1>6 DEF p

(* What a lost link leaves to be read is a beginning of what was sent. *)
LEMMA PrefixFacts ==
    ASSUME NEW S, NEW q \in Seq(S), NEW n \in 0..Len(q)
    PROVE  /\ SubSeq(q, 1, n) \in Seq(S)
           /\ NoReplay(q) => NoReplay(SubSeq(q, 1, n))
           /\ q = <<>> => SubSeq(q, 1, n) = <<>>
<1> DEFINE p == SubSeq(q, 1, n)
<1>1. Len(q) \in Nat /\ n \in Int /\ 1 \in Int
  OBVIOUS
<1>2. \A i \in 1..n : i \in 1..Len(q) /\ q[i] \in S
  BY <1>1, ElementOfSeq
<1>3. /\ p \in Seq(S)
      /\ Len(p) = IF 1 <= n THEN n - 1 + 1 ELSE 0
      /\ \A i \in 1..n - 1 + 1 : p[i] = q[1 + i - 1]
  BY <1>1, <1>2, SubSeqProperties
<1> HIDE DEF p
<1>4. Len(p) = n /\ \A i \in 1..n : p[i] = q[i]
  BY <1>1, <1>3
<1>5. NoReplay(q) => NoReplay(p)
  BY <1>2, <1>4 DEF NoReplay
<1>6. q = <<>> => p = <<>>
  <2>1. ASSUME q = <<>> PROVE Len(p) = 0
    BY <1>4, <2>1, EmptySeq
  <2>2. QED
    BY <1>3, <2>1, EmptySeq
<1>7. QED
  BY <1>3, <1>5, <1>6 DEF p

(* A refresh is no command and no message, and concerns no topic. *)
LEMMA KindsApart ==
    /\ \A c \in Commands : /\ c # Refresh /\ c.topic \in Topics /\ c.value \in BOOLEAN
                            /\ IsReplay(c) = c.replay
                            /\ \A t : Concerns(c, t) <=> c.topic = t
    /\ \A m \in Messages : /\ m # Refresh /\ m.topic \in Topics /\ m.value \in BOOLEAN
                            /\ \A t : Concerns(m, t) <=> m.topic = t
    /\ ~IsReplay(Refresh) /\ \A t : ~Concerns(Refresh, t)
<1>1. \A c \in Commands : /\ c # Refresh /\ c.topic \in Topics /\ c.value \in BOOLEAN
                           /\ c.replay \in BOOLEAN
  <2>1. \A c \in Commands : c.kind = "command"
    BY DEF Commands
  <2>2. Refresh.kind = "refresh"
    BY DEF Refresh
  <2>3. QED
    BY <2>1, <2>2 DEF Commands
<1>2. \A m \in Messages : m # Refresh /\ m.topic \in Topics /\ m.value \in BOOLEAN
  <2>1. \A m \in Messages : "topic" \in DOMAIN m
    BY DEF Messages
  <2>2. "topic" \notin DOMAIN Refresh
    BY DEF Refresh
  <2>3. QED
    BY <2>1, <2>2 DEF Messages
<1>3. QED
  BY <1>1, <1>2 DEF Concerns, IsReplay

-----------------------------------------------------------------------------
(* Publishing into the queue. *)

(* The invariant, topic by topic. *)
LEMMA StaleByTopic ==
    /\ StaleOnlyWhenLost <=> (phase = "serve" => \A t \in Topics : FreshOrAsked(t))
    /\ StaleOnlyWhenLost' <=> (phase' = "serve" => \A t \in Topics : FreshOrAsked(t)')
BY DEF StaleOnlyWhenLost, FreshOrAsked

(* A message pushed says the value it carries; a message dropped is known to be. *)
LEMMA AnnounceStep ==
    ASSUME DepthAssumption, outq \in Seq(Messages), Len(outq) <= OutDepth,
           lost \in SUBSET Topics,
           NEW t \in Topics, NEW v \in BOOLEAN, Announce(t, v)
    PROVE  /\ outq' \in Seq(Messages) /\ Len(outq') <= OutDepth /\ lost' \in SUBSET Topics
           /\ \A o : Says(outq', t, o, v) \/ t \in lost'
           /\ \A x, o, w : x # t /\ (Says(outq, x, o, w) \/ x \in lost) =>
                            Says(outq', x, o, w) \/ x \in lost'
<1> DEFINE m == [topic |-> t, value |-> v]
<1>1. m \in Messages /\ m.topic = t /\ m.value = v
  BY DEF Messages
<1>2. \A x : Concerns(m, x) <=> t = x
  BY <1>1, KindsApart
<1> HIDE DEF m
<1>3. CASE Len(outq) < OutDepth
  <2>1. outq' = Append(outq, m) /\ lost' = lost \ {t}
    BY <1>3 DEF Announce, m
  <2>2. outq' \in Seq(Messages) /\ Len(outq') = Len(outq) + 1 /\ Len(outq) \in Nat
    BY <1>1, <2>1, AppendProperties, LenProperties
  <2>3. Len(outq') <= OutDepth
    BY <1>3, <2>2 DEF DepthAssumption
  <2>4. \A o : Says(outq', t, o, v)
    BY <1>1, <1>2, <2>1, SaysAppend
  <2>5. \A x, o, w : x # t /\ Says(outq, x, o, w) => Says(outq', x, o, w)
    BY <1>1, <1>2, <2>1, SaysAppend
  <2>6. QED
    BY <2>1, <2>2, <2>3, <2>4, <2>5
<1>4. CASE ~(Len(outq) < OutDepth)
  BY <1>4 DEF Announce
<1>5. QED
  BY <1>3, <1>4

(* A device set to a value: if it moved it announces it, if not it has nothing    *)
(* new to say.                                                                     *)
LEMMA SetValueStep ==
    ASSUME DepthAssumption, SessionTypeOK,
           NEW t \in Topics, NEW v \in BOOLEAN, SetValue(t, v)
    PROVE  /\ value' \in [Topics -> BOOLEAN]
           /\ outq' \in Seq(Messages) /\ Len(outq') <= OutDepth /\ lost' \in SUBSET Topics
           /\ \A x \in Topics : value'[x] = IF x = t THEN v ELSE value[x]
           /\ \A x \in Topics : Says(outq, x, retained[x], value[x]) \/ x \in lost =>
                                Says(outq', x, retained[x], value'[x]) \/ x \in lost'
<1>1. /\ value \in [Topics -> BOOLEAN] /\ outq \in Seq(Messages) /\ Len(outq) <= OutDepth
      /\ lost \in SUBSET Topics
  BY DEF SessionTypeOK
<1>2. CASE value[t] = v
  <2>1. value' = value /\ outq' = outq /\ lost' = lost
    BY <1>2 DEF SetValue
  <2>2. QED
    BY <1>1, <1>2, <2>1
<1>3. CASE value[t] # v
  <2>1. value' = [value EXCEPT ![t] = v] /\ Announce(t, v)
    BY <1>3 DEF SetValue
  <2>2. /\ outq' \in Seq(Messages) /\ Len(outq') <= OutDepth /\ lost' \in SUBSET Topics
        /\ \A o : Says(outq', t, o, v) \/ t \in lost'
        /\ \A x, o, w : x # t /\ (Says(outq, x, o, w) \/ x \in lost) =>
                         Says(outq', x, o, w) \/ x \in lost'
    BY <1>1, <2>1, AnnounceStep
  <2>3. /\ value' \in [Topics -> BOOLEAN]
        /\ \A x \in Topics : value'[x] = IF x = t THEN v ELSE value[x]
    BY <1>1, <2>1
  <2>4. ASSUME NEW x \in Topics, Says(outq, x, retained[x], value[x]) \/ x \in lost
        PROVE  Says(outq', x, retained[x], value'[x]) \/ x \in lost'
    <3>1. CASE x = t
      BY <2>2, <2>3, <3>1
    <3>2. CASE x # t
      <4>1. value'[x] = value[x]
        BY <2>3, <3>2
      <4>2. QED
        BY <2>2, <2>4, <3>2, <4>1
    <3>3. QED
      BY <3>1, <3>2
  <2>5. QED
    BY <2>2, <2>3, <2>4
<1>4. QED
  BY <1>2, <1>3

-----------------------------------------------------------------------------
(* The steps of core 0. *)

(* What core 0 leaves alone. *)
LEMMA LocalChangeStep ==
    ASSUME TopicsAssumption, DepthAssumption, BoundAssumption,
           SessionInv, NEW t \in States, LocalChange(t)
    PROVE  SessionInv'
<1>1. SessionTypeOK /\ StaleOnlyWhenLost /\ GateOnItsWay /\ ReplaysBeforeRefresh
  BY DEF SessionInv
<1>2. /\ changes \in Nat /\ changes > 0 /\ changes' = changes - 1
      /\ todo' = todo /\ inq' = inq /\ phase' = phase /\ link' = link
      /\ downlink' = downlink /\ retained' = retained /\ wanted' = wanted
      /\ faults' = faults /\ missed' = missed /\ unasked' = unasked /\ hurried' = hurried
  BY <1>1 DEF LocalChange, Change, broker, SessionTypeOK, BoundAssumption
<1>3. t \in Topics /\ (~value[t]) \in BOOLEAN /\ SetValue(t, ~value[t])
  <2>1. t \in Topics /\ SetValue(t, ~value[t])
    BY DEF LocalChange, Topics
  <2>2. (~value[t]) \in BOOLEAN
    BY Zenon
  <2>3. QED
    BY <2>1, <2>2
<1>4. /\ value' \in [Topics -> BOOLEAN]
      /\ outq' \in Seq(Messages) /\ Len(outq') <= OutDepth /\ lost' \in SUBSET Topics
      /\ \A x \in Topics : value'[x] = IF x = t THEN ~value[t] ELSE value[x]
      /\ \A x \in Topics : Says(outq, x, retained[x], value[x]) \/ x \in lost =>
                           Says(outq', x, retained[x], value'[x]) \/ x \in lost'
  BY <1>1, <1>3, SetValueStep
<1>5. SessionTypeOK'
  BY <1>1, <1>2, <1>4 DEF SessionTypeOK, BoundAssumption
<1>6. StaleOnlyWhenLost'
  BY <1>1, <1>2, <1>4, StaleByTopic DEF FreshOrAsked, AskedFor
<1>7. \A g \in Gates : value'[g] = value[g]
  BY <1>4 DEF TopicsAssumption, Topics
<1>8. GateOnItsWay'
  BY <1>1, <1>2, <1>7 DEF GateOnItsWay
<1>9. ReplaysBeforeRefresh'
  BY <1>1, <1>2 DEF ReplaysBeforeRefresh
<1>10. QED
  BY <1>5, <1>6, <1>8, <1>9 DEF SessionInv

(* A refresh taken off the queue is running; a command is carried out. *)
LEMMA HandleInboundStep ==
    ASSUME TopicsAssumption, DepthAssumption, SessionInv, HandleInbound
    PROVE  SessionInv'
<1>1. SessionTypeOK /\ StaleOnlyWhenLost /\ GateOnItsWay /\ ReplaysBeforeRefresh
  BY DEF SessionInv
<1>2. /\ todo = {} /\ inq # <<>> /\ inq' = Tail(inq)
      /\ phase' = phase /\ link' = link
      /\ downlink' = downlink /\ retained' = retained /\ wanted' = wanted
      /\ changes' = changes /\ faults' = faults
      /\ missed' = missed /\ unasked' = unasked /\ hurried' = hurried
  BY DEF HandleInbound, broker
<1>3. inq \in Seq(Commands \cup {Refresh})
  BY <1>1 DEF SessionTypeOK
<1>4. /\ Head(inq) \in Commands \cup {Refresh} /\ inq' \in Seq(Commands \cup {Refresh})
      /\ Len(inq') <= InDepth
  <2>1. Len(inq') = Len(inq) - 1 /\ Len(inq) \in Nat /\ Len(inq) <= InDepth
    BY <1>1, <1>2, <1>3, HeadTailProperties, LenProperties DEF SessionTypeOK
  <2>2. QED
    BY <1>2, <1>3, <2>1, HeadTailProperties DEF DepthAssumption
<1>5. Contents(inq) = {Head(inq)} \cup Contents(inq')
  BY <1>2, <1>3, ContentsMove
<1>6. /\ NoReplay(inq) => NoReplay(inq')
      /\ NoRefresh(inq) => NoRefresh(inq') /\ Head(inq) # Refresh
      /\ InOrder(inq) => InOrder(inq')
      /\ InOrder(inq) /\ Head(inq) = Refresh => NoReplay(inq')
  BY <1>2, <1>3, OrderTail
<1>7. \A g, o, v : Says(inq, g, o, v) =>
         /\ Concerns(Head(inq), g) => Says(inq', g, Head(inq).value, v)
         /\ ~Concerns(Head(inq), g) => Says(inq', g, o, v)
  BY <1>2, <1>3, SaysTail
<1>8. CASE Head(inq) = Refresh
  <2>1. todo' = Topics /\ value' = value /\ outq' = outq /\ lost' = lost
    BY <1>8 DEF HandleInbound
  <2>2. SessionTypeOK'
    BY <1>1, <1>2, <1>4, <2>1 DEF SessionTypeOK
  <2>3. StaleOnlyWhenLost'
    BY <2>1, StaleByTopic DEF FreshOrAsked, AskedFor
  <2>4. GateOnItsWay'
    BY <1>1, <1>2, <1>7, <1>8, <2>1, KindsApart DEF GateOnItsWay
  <2>5. ReplaysBeforeRefresh'
    BY <1>1, <1>2, <1>6, <1>8 DEF ReplaysBeforeRefresh
  <2>6. QED
    BY <2>2, <2>3, <2>4, <2>5 DEF SessionInv
<1>9. CASE Head(inq) # Refresh
  <2>1. PICK t \in Topics, v \in BOOLEAN :
           /\ t = Head(inq).topic /\ v = Head(inq).value
           /\ \A x : Concerns(Head(inq), x) <=> t = x
    BY <1>4, <1>9, KindsApart
  <2>2. todo' = todo /\ SetValue(t, v)
    BY <1>9, <2>1 DEF HandleInbound
  <2>3. /\ value' \in [Topics -> BOOLEAN]
        /\ outq' \in Seq(Messages) /\ Len(outq') <= OutDepth /\ lost' \in SUBSET Topics
        /\ \A x \in Topics : value'[x] = IF x = t THEN v ELSE value[x]
        /\ \A x \in Topics : Says(outq, x, retained[x], value[x]) \/ x \in lost =>
                             Says(outq', x, retained[x], value'[x]) \/ x \in lost'
    BY <1>1, <2>2, SetValueStep
  <2>4. SessionTypeOK'
    BY <1>1, <1>2, <1>4, <2>2, <2>3 DEF SessionTypeOK
  <2>5. StaleOnlyWhenLost'
    BY <1>1, <1>2, <1>5, <1>9, <2>2, <2>3, StaleByTopic DEF FreshOrAsked, AskedFor
  <2>6. \A g \in Gates : Says(inq, g, value[g], wanted[g]) => Says(inq', g, value'[g], wanted[g])
    <3>1. ASSUME NEW g \in Gates, Says(inq, g, value[g], wanted[g])
          PROVE  Says(inq', g, value'[g], wanted[g])
      <4>1. value'[g] = IF g = t THEN v ELSE value[g]
        BY <2>3 DEF Topics
      <4>2. QED
        BY <1>7, <2>1, <3>1, <4>1
    <3>2. QED
      BY <3>1
  <2>7. GateOnItsWay'
    BY <1>1, <1>2, <2>6 DEF GateOnItsWay
  <2>8. ReplaysBeforeRefresh'
    BY <1>1, <1>2, <1>6, <2>2 DEF ReplaysBeforeRefresh
  <2>9. QED
    BY <2>4, <2>5, <2>7, <2>8 DEF SessionInv
<1>10. QED
  BY <1>8, <1>9

(* One topic of a refresh is announced. *)
LEMMA RefreshStepStep ==
    ASSUME DepthAssumption, SessionInv, NEW t \in Topics, RefreshStep(t)
    PROVE  SessionInv'
<1>1. SessionTypeOK /\ StaleOnlyWhenLost /\ GateOnItsWay /\ ReplaysBeforeRefresh
  BY DEF SessionInv
<1>2. /\ t \in todo /\ todo' = todo \ {t} /\ Announce(t, value[t])
      /\ value' = value /\ inq' = inq /\ phase' = phase /\ link' = link
      /\ downlink' = downlink /\ retained' = retained /\ wanted' = wanted
      /\ changes' = changes /\ faults' = faults
      /\ missed' = missed /\ unasked' = unasked /\ hurried' = hurried
  BY DEF RefreshStep, broker
<1>3. /\ outq' \in Seq(Messages) /\ Len(outq') <= OutDepth /\ lost' \in SUBSET Topics
      /\ \A o : Says(outq', t, o, value[t]) \/ t \in lost'
      /\ \A x, o, w : x # t /\ (Says(outq, x, o, w) \/ x \in lost) =>
                       Says(outq', x, o, w) \/ x \in lost'
  <2>1. /\ outq \in Seq(Messages) /\ Len(outq) <= OutDepth
        /\ lost \in SUBSET Topics /\ value[t] \in BOOLEAN
    BY <1>1 DEF SessionTypeOK
  <2>2. QED
    BY <1>2, <2>1, AnnounceStep
<1>4. SessionTypeOK'
  BY <1>1, <1>2, <1>3 DEF SessionTypeOK
<1>5. StaleOnlyWhenLost'
  <2>1. ASSUME NEW x \in Topics, FreshOrAsked(x) PROVE FreshOrAsked(x)'
    <3>1. CASE x = t
      BY <1>2, <1>3, <3>1 DEF FreshOrAsked
    <3>2. CASE x # t
      BY <1>2, <1>3, <2>1, <3>2 DEF FreshOrAsked, AskedFor
    <3>3. QED
      BY <3>1, <3>2
  <2>2. QED
    BY <1>1, <1>2, <2>1, StaleByTopic
<1>6. GateOnItsWay'
  BY <1>1, <1>2 DEF GateOnItsWay
<1>7. ReplaysBeforeRefresh'
  BY <1>1, <1>2 DEF ReplaysBeforeRefresh
<1>8. QED
  BY <1>4, <1>5, <1>6, <1>7 DEF SessionInv

-----------------------------------------------------------------------------
(* The steps of core 1. *)

(* Those that only move core 1 along, and touch a queue only to empty it. *)
LEMMA FlushStep ==
    ASSUME DepthAssumption, SessionInv, Flush
    PROVE  SessionInv'
<1>1. SessionTypeOK /\ ReplaysBeforeRefresh
  BY DEF SessionInv
<1>2. /\ phase = "flush" /\ phase' = "connect" /\ outq' = <<>>
      /\ value' = value /\ todo' = todo /\ inq' = inq /\ link' = link
      /\ downlink' = downlink /\ retained' = retained /\ wanted' = wanted
      /\ changes' = changes /\ faults' = faults
      /\ lost' = lost /\ missed' = missed /\ unasked' = unasked /\ hurried' = hurried
  BY DEF Flush, core0, broker, history
<1>3. outq' \in Seq(Messages) /\ Len(outq') <= OutDepth
  <2>1. outq' \in Seq(Messages) /\ Len(outq') = 0
    BY <1>2, EmptySeq
  <2>2. QED
    BY <2>1 DEF DepthAssumption
<1>4. SessionTypeOK'
  BY <1>1, <1>2, <1>3 DEF SessionTypeOK, Phases
<1>5. StaleOnlyWhenLost' /\ GateOnItsWay'
  BY <1>2 DEF StaleOnlyWhenLost, GateOnItsWay
<1>6. ReplaysBeforeRefresh'
  BY <1>1, <1>2 DEF ReplaysBeforeRefresh
<1>7. QED
  BY <1>4, <1>5, <1>6 DEF SessionInv

LEMMA FaultType ==
    ASSUME BoundAssumption, SessionTypeOK, Fault \/ faults' = faults
    PROVE  faults' \in 0..MaxFaults
BY DEF Fault, SessionTypeOK, BoundAssumption

LEMMA ConnectStep ==
    ASSUME BoundAssumption, SessionInv, Connect
    PROVE  SessionInv'
<1>1. SessionTypeOK /\ ReplaysBeforeRefresh
  BY DEF SessionInv
<1>2. /\ phase = "connect" /\ phase' \in {"subscribe", "backoff"} /\ downlink' = <<>>
      /\ value' = value /\ todo' = todo /\ inq' = inq /\ outq' = outq
      /\ retained' = retained /\ wanted' = wanted /\ changes' = changes
      /\ Fault \/ faults' = faults
      /\ lost' = lost /\ missed' = missed /\ unasked' = unasked /\ hurried' = hurried
  BY DEF Connect, core0, broker, history
<1>3. link' \in BOOLEAN
  <2>1. link' = TRUE \/ link' = FALSE
    BY DEF Connect
  <2>2. QED
    BY <2>1, Zenon
<1>4. downlink' \in Seq(Commands) /\ faults' \in 0..MaxFaults
  BY <1>1, <1>2, EmptySeq, FaultType
<1>5. SessionTypeOK'
  BY <1>1, <1>2, <1>3, <1>4 DEF SessionTypeOK, Phases
<1>6. StaleOnlyWhenLost' /\ GateOnItsWay'
  BY <1>2 DEF StaleOnlyWhenLost, GateOnItsWay
<1>7. ReplaysBeforeRefresh'
  <2>1. NoReplay(downlink')
    BY <1>2, EmptySeq DEF NoReplay
  <2>2. ASSUME inq' = <<>> PROVE InOrder(inq')
    BY <2>2, EmptySeq DEF InOrder
  <2>3. QED
    BY <1>1, <1>2, <2>1, <2>2 DEF ReplaysBeforeRefresh
<1>8. QED
  BY <1>5, <1>6, <1>7 DEF SessionInv

(* The retained commands, whatever their order, end with what is retained. *)
LEMMA SubscribeStep ==
    ASSUME TopicsAssumption, SessionInv, Subscribe
    PROVE  SessionInv'
<1>1. SessionTypeOK /\ GateOnItsWay /\ ReplaysBeforeRefresh
  BY DEF SessionInv
<1>2. /\ phase = "subscribe" /\ phase' = "settle"
      /\ value' = value /\ todo' = todo /\ inq' = inq /\ outq' = outq /\ link' = link
      /\ retained' = retained /\ wanted' = wanted /\ changes' = changes /\ faults' = faults
      /\ lost' = lost /\ missed' = missed /\ unasked' = unasked /\ hurried' = hurried
  BY DEF Subscribe, core0, broker, history
<1> DEFINE n == Cardinality(Gates)
<1>3. PICK order \in [1..n -> Gates] :
         /\ Gates = {order[i] : i \in 1..n}
         /\ downlink' = downlink \o [i \in 1..n |-> Replayed(order[i])]
  BY DEF Subscribe
<1>4. IsFiniteSet(Gates) /\ n \in Nat
  BY FS_Subset, FS_CardinalityType DEF TopicsAssumption, Topics
<1>5. \A g \in Gates : /\ Replayed(g) \in Commands
                        /\ Replayed(g).topic = g /\ Replayed(g).value = wanted[g]
  BY <1>1 DEF Replayed, Command, Commands, Topics, SessionTypeOK
<1> DEFINE replays == [i \in 1..n |-> Replayed(order[i])]
<1> HIDE DEF n
<1>6. replays \in Seq(Commands) /\ Len(replays) = n
  <2>1. \A i \in 1..n : Replayed(order[i]) \in Commands
    BY <1>5
  <2>2. replays \in Seq(Commands)
    BY <1>4, <2>1, IsASeq
  <2>3. QED
    BY <1>4, <2>2
<1>7. downlink' = replays
  <2>1. downlink = <<>>
    BY <1>1, <1>2 DEF GateOnItsWay
  <2> HIDE DEF replays
  <2>2. <<>> \o replays = replays
    BY <1>6, ConcatEmptySeq
  <2>3. downlink' = downlink \o replays
    BY <1>3 DEF replays
  <2>4. QED
    BY <2>1, <2>2, <2>3
<1>8. \A i \in 1..n, j \in 1..n : order[i] = order[j] => i = j
  <2>1. order \in Surjection(1..n, Gates)
    BY <1>3 DEF Surjection
  <2>2. IsFiniteSet(1..n) /\ Cardinality(1..n) = n
    BY <1>4, FS_Interval
  <2>3. order \in Injection(1..n, Gates)
    BY <1>4, <2>1, <2>2, FS_Surjection DEF n
  <2>4. QED
    BY <2>3 DEF Injection, IsInjective
<1>9. ASSUME NEW g \in Gates
      PROVE  Says(downlink', g, wanted'[g], wanted'[g]) /\ ~Silent(downlink', g)
  <2>1. PICK i \in 1..n : order[i] = g
    BY <1>3
  <2>2. \A j \in 1..n : /\ downlink'[j] = Replayed(order[j]) /\ downlink'[j] \in Commands
                        /\ downlink'[j].topic = order[j]
    BY <1>5, <1>7
  <2>3. \A j \in 1..n : Concerns(downlink'[j], g) <=> order[j] = g
    BY <2>2, KindsApart
  <2>4. \A j \in i + 1..n : j \in 1..n /\ order[j] # g
    BY <1>4, <1>8, <2>1
  <2>5. downlink'[i].value = wanted'[g]
    BY <1>2, <1>5, <2>1, <2>2
  <2>6. Len(downlink') = n
    BY <1>6, <1>7
  <2>7. QED
    BY <2>1, <2>3, <2>4, <2>5, <2>6 DEF Says, Silent
<1>10. SessionTypeOK'
  <2>1. downlink' \in Seq(Commands)
    BY <1>6, <1>7
  <2>2. QED
    BY <1>1, <1>2, <2>1 DEF SessionTypeOK, Phases
<1>11. GateOnItsWay'
  BY <1>2, <1>9 DEF GateOnItsWay
<1>12. StaleOnlyWhenLost'
  BY <1>2 DEF StaleOnlyWhenLost
<1>13. ReplaysBeforeRefresh'
  BY <1>1, <1>2, EmptySeq DEF ReplaysBeforeRefresh, NoRefresh
<1>14. QED
  BY <1>10, <1>11, <1>12, <1>13 DEF SessionInv

LEMMA SubscribeFailsStep ==
    ASSUME BoundAssumption, SessionInv, SubscribeFails
    PROVE  SessionInv'
<1>1. SessionTypeOK /\ GateOnItsWay /\ ReplaysBeforeRefresh
  BY DEF SessionInv
<1>2. /\ phase = "subscribe" /\ phase' = "backoff" /\ link' = FALSE
      /\ value' = value /\ todo' = todo /\ inq' = inq /\ outq' = outq /\ downlink' = downlink
      /\ retained' = retained /\ wanted' = wanted /\ changes' = changes
      /\ Fault \/ faults' = faults
      /\ lost' = lost /\ missed' = missed /\ unasked' = unasked /\ hurried' = hurried
  BY DEF SubscribeFails, core0, broker, history
<1>3. faults' \in 0..MaxFaults /\ link' \in BOOLEAN
  BY <1>1, <1>2, FaultType, Zenon
<1>4. SessionTypeOK'
  BY <1>1, <1>2, <1>3 DEF SessionTypeOK, Phases
<1>5. StaleOnlyWhenLost' /\ GateOnItsWay'
  BY <1>2 DEF StaleOnlyWhenLost, GateOnItsWay
<1>6. ReplaysBeforeRefresh'
  <2>1. downlink = <<>>
    BY <1>1, <1>2 DEF GateOnItsWay
  <2>2. NoReplay(downlink')
    BY <1>2, <2>1, EmptySeq DEF NoReplay
  <2>3. ASSUME inq' = <<>> PROVE InOrder(inq')
    BY <2>3, EmptySeq DEF InOrder
  <2>4. QED
    BY <1>1, <1>2, <2>2, <2>3 DEF ReplaysBeforeRefresh
<1>7. QED
  BY <1>4, <1>5, <1>6 DEF SessionInv

(* A command read moves from one queue to the other, or is lost and known to be. *)
LEMMA ReceiveStep ==
    ASSUME DepthAssumption, SessionInv, Receive
    PROVE  SessionInv'
<1>1. SessionTypeOK /\ StaleOnlyWhenLost /\ GateOnItsWay /\ ReplaysBeforeRefresh
  BY DEF SessionInv
<1> DEFINE c == Head(downlink)
           Entries == Commands \cup {Refresh}
<1>2. /\ phase \in {"settle", "serve"} /\ downlink # <<>> /\ downlink' = Tail(downlink)
      /\ IF Len(inq) < InDepth
         THEN inq' = Append(inq, c) /\ missed' = missed \ {c.topic}
         ELSE inq' = inq /\ missed' = missed \cup {c.topic}
      /\ value' = value /\ todo' = todo /\ outq' = outq /\ phase' = phase /\ link' = link
      /\ retained' = retained /\ wanted' = wanted /\ changes' = changes
      /\ faults' = faults /\ lost' = lost /\ unasked' = unasked /\ hurried' = hurried
  BY DEF Receive, core0, broker
<1>3. downlink \in Seq(Commands) /\ inq \in Seq(Entries) /\ Len(inq) <= InDepth
      /\ missed \in SUBSET Topics
  BY <1>1 DEF SessionTypeOK
<1>4. c \in Commands /\ downlink' \in Seq(Commands)
  BY <1>2, <1>3, HeadTailProperties
<1> HIDE DEF c
<1>5. /\ c # Refresh /\ c.topic \in Topics /\ c \in Entries
      /\ \A x : Concerns(c, x) <=> c.topic = x
  BY <1>4, KindsApart
<1> HIDE DEF Entries
<1>6. /\ inq' \in Seq(Entries) /\ Len(inq') <= InDepth
      /\ Contents(inq) \subseteq Contents(inq')
  <2>1. CASE Len(inq) < InDepth
    <3>1. /\ inq' \in Seq(Entries) /\ Len(inq') = Len(inq) + 1
          /\ Len(inq) \in Nat
      BY <1>2, <1>3, <1>5, <2>1, AppendProperties, LenProperties
    <3>2. Contents(Append(inq, c)) = Contents(inq) \cup {c}
      BY <1>3, <1>5, ContentsMove
    <3>3. Len(inq') <= InDepth
      BY <2>1, <3>1 DEF DepthAssumption
    <3>4. inq' = Append(inq, c)
      BY <1>2, <2>1
    <3>5. QED
      BY <3>1, <3>2, <3>3, <3>4
  <2>2. CASE ~(Len(inq) < InDepth)
    BY <1>2, <1>3, <2>2
  <2>3. QED
    BY <2>1, <2>2
<1>7. SessionTypeOK'
  <2>1. missed' \in SUBSET Topics
    BY <1>2, <1>3, <1>5
  <2>2. QED
    BY <1>1, <1>2, <1>4, <1>6, <2>1 DEF SessionTypeOK, Entries
<1>8. StaleOnlyWhenLost'
  BY <1>1, <1>2, <1>6, StaleByTopic DEF FreshOrAsked, AskedFor
<1>9. ASSUME link, NEW g \in Gates
      PROVE  /\ Says(downlink', g, wanted[g], wanted[g])
             /\ Silent(downlink', g) => Says(inq', g, value[g], wanted[g]) \/ g \in missed'
  <2>1. /\ Says(downlink, g, wanted[g], wanted[g])
        /\ Silent(downlink, g) => Says(inq, g, value[g], wanted[g]) \/ g \in missed
    BY <1>1, <1>2, <1>9 DEF GateOnItsWay
  <2>2. CASE Concerns(c, g)
    <3>1. Says(downlink', g, c.value, wanted[g])
      BY <1>2, <1>3, <2>1, <2>2, SaysTail DEF c
    <3>2. Silent(downlink', g) => c.value = wanted[g]
      BY <3>1 DEF Says, Silent
    <3>3. Says(downlink', g, wanted[g], wanted[g])
      BY <3>1 DEF Says
    <3>4. Silent(downlink', g) => Says(inq', g, value[g], wanted[g]) \/ g \in missed'
      <4>1. CASE Len(inq) < InDepth
        <5>1. c.value = wanted[g] => Says(Append(inq, c), g, value[g], wanted[g])
          BY <1>3, <1>5, <2>2, SaysAppend
        <5>2. QED
          BY <1>2, <3>2, <4>1, <5>1
      <4>2. CASE ~(Len(inq) < InDepth)
        BY <1>2, <1>5, <2>2, <4>2
      <4>3. QED
        BY <4>1, <4>2
    <3>5. QED
      BY <3>3, <3>4
  <2>3. CASE ~Concerns(c, g)
    <3>1. Says(downlink', g, wanted[g], wanted[g])
      BY <1>2, <1>3, <2>1, <2>3, SaysTail DEF c
    <3>2. Silent(downlink', g) => Silent(downlink, g)
      <4>1. ASSUME Silent(downlink', g), NEW i \in 1..Len(downlink)
            PROVE  ~Concerns(downlink[i], g)
        <5>1. /\ Len(downlink) \in Nat \ {0} /\ Len(downlink') = Len(downlink) - 1
              /\ c = downlink[1]
              /\ \A j \in 1..Len(downlink') : downlink'[j] = downlink[j + 1]
          BY <1>2, <1>3, HeadTailProperties, EmptySeq DEF c
        <5>2. i = 1 \/ (i - 1 \in 1..Len(downlink') /\ downlink[i] = downlink'[i - 1])
          BY <5>1
        <5>3. QED
          BY <2>3, <4>1, <5>1, <5>2 DEF Silent
      <4>2. QED
        BY <4>1 DEF Silent
    <3>3. Says(inq, g, value[g], wanted[g]) => Says(inq', g, value[g], wanted[g])
      <4>1. Says(inq, g, value[g], wanted[g]) => Says(Append(inq, c), g, value[g], wanted[g])
        BY <1>3, <1>5, <2>3, SaysAppend
      <4>2. QED
        BY <1>2, <4>1
    <3>4. g \in missed => g \in missed'
      BY <1>2, <1>5, <2>3
    <3>5. QED
      BY <2>1, <3>1, <3>2, <3>3, <3>4
  <2>4. QED
    BY <2>2, <2>3
<1>10. GateOnItsWay'
  BY <1>2, <1>9 DEF GateOnItsWay
<1>11. ReplaysBeforeRefresh'
  <2>1. NoRefresh(inq) => NoRefresh(inq')
    <3>1. NoRefresh(inq) => NoRefresh(Append(inq, c))
      BY <1>3, <1>5, OrderAppend
    <3>2. QED
      BY <1>2, <3>1
  <2>2. NoReplay(downlink) => NoReplay(downlink') /\ ~IsReplay(c)
    BY <1>2, <1>3, OrderTail DEF c
  <2>3. ~IsReplay(c) => (NoReplay(inq) => NoReplay(inq')) /\ (InOrder(inq) => InOrder(inq'))
    <3>1. ~IsReplay(c) => /\ NoReplay(inq) => NoReplay(Append(inq, c))
                          /\ InOrder(inq) => InOrder(Append(inq, c))
      BY <1>3, <1>5, OrderAppend
    <3>2. QED
      BY <1>2, <3>1
  <2>4. QED
    BY <1>1, <1>2, <2>1, <2>2, <2>3 DEF ReplaysBeforeRefresh
<1>12. QED
  BY <1>7, <1>8, <1>10, <1>11 DEF SessionInv

(* The refresh is asked for behind all that has landed. *)
LEMMA EndSettleStep ==
    ASSUME DepthAssumption, SessionInv, EndSettle
    PROVE  SessionInv'
<1>1. SessionTypeOK /\ GateOnItsWay /\ ReplaysBeforeRefresh
  BY DEF SessionInv
<1>2. /\ phase = "settle" /\ phase' = "serve"
      /\ IF Len(inq) < InDepth THEN inq' = Append(inq, Refresh) /\ unasked' = FALSE
                               ELSE inq' = inq /\ unasked' = TRUE
      /\ value' = value /\ todo' = todo /\ outq' = outq /\ link' = link /\ downlink' = downlink
      /\ retained' = retained /\ wanted' = wanted /\ changes' = changes
      /\ faults' = faults /\ lost' = lost /\ missed' = missed
      /\ hurried' = (hurried \/ \E c \in Contents(downlink) : c.replay)
  BY DEF EndSettle, core0, broker
<1> DEFINE Entries == Commands \cup {Refresh}
<1>3. inq \in Seq(Entries) /\ Len(inq) <= InDepth /\ Refresh \in Entries
  BY <1>1 DEF SessionTypeOK
<1> HIDE DEF Entries
<1>4. /\ Append(inq, Refresh) \in Seq(Entries) /\ Len(Append(inq, Refresh)) = Len(inq) + 1
      /\ Len(inq) \in Nat
      /\ Contents(Append(inq, Refresh)) = Contents(inq) \cup {Refresh}
      /\ NoRefresh(inq) => InOrder(Append(inq, Refresh))
      /\ \A g, o, v : Says(inq, g, o, v) => Says(Append(inq, Refresh), g, o, v)
  <2>1. /\ Append(inq, Refresh) \in Seq(Entries) /\ Len(Append(inq, Refresh)) = Len(inq) + 1
        /\ Len(inq) \in Nat
    BY <1>3, AppendProperties, LenProperties
  <2>2. Contents(Append(inq, Refresh)) = Contents(inq) \cup {Refresh}
    BY <1>3, ContentsMove
  <2>3. NoRefresh(inq) => InOrder(Append(inq, Refresh))
    BY <1>3, OrderAppend
  <2>4. \A g, o, v : Says(inq, g, o, v) => Says(Append(inq, Refresh), g, o, v)
    BY <1>3, KindsApart, SaysAppend
  <2>5. QED
    BY <2>1, <2>2, <2>3, <2>4
<1>5. inq' \in Seq(Entries) /\ Len(inq') <= InDepth
  <2>1. CASE Len(inq) < InDepth
    <3>1. Len(Append(inq, Refresh)) <= InDepth
      BY <1>4, <2>1 DEF DepthAssumption
    <3>2. inq' = Append(inq, Refresh)
      BY <1>2, <2>1
    <3>3. QED
      BY <1>4, <3>1, <3>2
  <2>2. CASE ~(Len(inq) < InDepth)
    BY <1>2, <1>3, <2>2
  <2>3. QED
    BY <2>1, <2>2
<1>6. hurried' \in BOOLEAN /\ unasked' \in BOOLEAN
  BY <1>2, Zenon
<1>7. SessionTypeOK'
  BY <1>1, <1>2, <1>5, <1>6 DEF SessionTypeOK, Phases, Entries
<1>8. Refresh \in Contents(inq') \/ unasked'
  BY <1>2, <1>4
<1>9. StaleOnlyWhenLost'
  BY <1>8, StaleByTopic DEF FreshOrAsked, AskedFor
<1>10. GateOnItsWay'
  <2>1. \A g, o, v : Says(inq, g, o, v) => Says(inq', g, o, v)
    BY <1>2, <1>4
  <2>2. QED
    BY <1>1, <1>2, <2>1 DEF GateOnItsWay
<1>11. ASSUME ~hurried'
       PROVE  todo' = {} /\ NoReplay(downlink') /\ InOrder(inq')
  <2>1. ~hurried /\ \A c \in Contents(downlink) : ~c.replay
    BY <1>2, <1>11
  <2>2. NoReplay(downlink)
    BY <2>1 DEF NoReplay, Contents, IsReplay
  <2>3. todo = {} /\ NoRefresh(inq)
    BY <1>1, <1>2, <2>1 DEF ReplaysBeforeRefresh
  <2>4. InOrder(inq)
    BY <2>3 DEF InOrder, NoRefresh
  <2>5. InOrder(inq')
    BY <1>2, <1>4, <2>3, <2>4
  <2>6. QED
    BY <1>2, <2>2, <2>3, <2>5
<1>12. ReplaysBeforeRefresh'
  BY <1>2, <1>11 DEF ReplaysBeforeRefresh
<1>13. QED
  BY <1>7, <1>9, <1>10, <1>12 DEF SessionInv

(* What is published is what was next to be said. *)
LEMMA OutboundHead ==
    ASSUME SessionTypeOK, outq # <<>>, outq' = Tail(outq)
    PROVE  /\ Head(outq).topic \in Topics /\ Head(outq).value \in BOOLEAN
           /\ outq' \in Seq(Messages) /\ Len(outq') <= OutDepth
           /\ \A x, o, v : Says(outq, x, o, v) =>
                Says(outq', x, IF x = Head(outq).topic THEN Head(outq).value ELSE o, v)
<1>1. outq \in Seq(Messages) /\ Len(outq) <= OutDepth
  BY DEF SessionTypeOK
<1>2. /\ Head(outq) \in Messages /\ outq' \in Seq(Messages)
      /\ Len(outq') = Len(outq) - 1 /\ Len(outq) \in Nat
  BY <1>1, HeadTailProperties, LenProperties
<1>3. Len(outq') <= OutDepth
  BY <1>1, <1>2, DepthAssumption DEF DepthAssumption
<1>4. /\ Head(outq).topic \in Topics /\ Head(outq).value \in BOOLEAN
      /\ \A x : Concerns(Head(outq), x) <=> Head(outq).topic = x
  BY <1>2, KindsApart
<1>5. ASSUME NEW x, NEW o, NEW v, Says(outq, x, o, v)
      PROVE  Says(outq', x, IF x = Head(outq).topic THEN Head(outq).value ELSE o, v)
  <2>1. /\ Concerns(Head(outq), x) => Says(outq', x, Head(outq).value, v)
        /\ ~Concerns(Head(outq), x) => Says(outq', x, o, v)
    BY <1>1, <1>5, SaysTail
  <2>2. CASE x = Head(outq).topic
    BY <1>4, <2>1, <2>2
  <2>3. CASE x # Head(outq).topic
    BY <1>4, <2>1, <2>3
  <2>4. QED
    BY <2>2, <2>3
<1>6. QED
  BY <1>2, <1>3, <1>4, <1>5

LEMMA PublishStep ==
    ASSUME SessionInv, Publish
    PROVE  SessionInv'
<1>1. SessionTypeOK /\ StaleOnlyWhenLost /\ GateOnItsWay /\ ReplaysBeforeRefresh
  BY DEF SessionInv
<1>2. /\ phase = "serve" /\ outq # <<>> /\ outq' = Tail(outq)
      /\ retained' = [retained EXCEPT ![Head(outq).topic] = Head(outq).value]
      /\ value' = value /\ todo' = todo /\ inq' = inq /\ phase' = phase /\ link' = link
      /\ downlink' = downlink /\ wanted' = wanted /\ changes' = changes /\ faults' = faults
      /\ lost' = lost /\ missed' = missed /\ unasked' = unasked /\ hurried' = hurried
  BY DEF Publish, core0, history
<1>3. /\ Head(outq).topic \in Topics /\ Head(outq).value \in BOOLEAN
      /\ outq' \in Seq(Messages) /\ Len(outq') <= OutDepth
      /\ \A x, o, v : Says(outq, x, o, v) =>
           Says(outq', x, IF x = Head(outq).topic THEN Head(outq).value ELSE o, v)
  BY <1>1, <1>2, OutboundHead
<1>4. /\ retained' \in [Topics -> BOOLEAN]
      /\ \A x \in Topics : retained'[x] = IF x = Head(outq).topic THEN Head(outq).value
                                                                ELSE retained[x]
  BY <1>1, <1>2, <1>3 DEF SessionTypeOK
<1>5. SessionTypeOK'
  BY <1>1, <1>2, <1>3, <1>4 DEF SessionTypeOK
<1>6. StaleOnlyWhenLost'
  <2>1. ASSUME NEW x \in Topics, FreshOrAsked(x) PROVE FreshOrAsked(x)'
    <3>1. Says(outq, x, retained[x], value[x]) => Says(outq', x, retained'[x], value[x])
      BY <1>3, <1>4
    <3>2. QED
      BY <1>2, <2>1, <3>1 DEF FreshOrAsked, AskedFor
  <2>2. QED
    BY <1>1, <1>2, <2>1, StaleByTopic
<1>7. GateOnItsWay'
  BY <1>1, <1>2 DEF GateOnItsWay
<1>8. ReplaysBeforeRefresh'
  BY <1>1, <1>2 DEF ReplaysBeforeRefresh
<1>9. QED
  BY <1>5, <1>6, <1>7, <1>8 DEF SessionInv

LEMMA PublishFailsStep ==
    ASSUME BoundAssumption, SessionInv, PublishFails
    PROVE  SessionInv'
<1>1. SessionTypeOK /\ ReplaysBeforeRefresh
  BY DEF SessionInv
<1>2. /\ phase = "serve" /\ phase' = "backoff" /\ link' = FALSE
      /\ outq # <<>> /\ outq' = Tail(outq)
      /\ \/ retained' = [retained EXCEPT ![Head(outq).topic] = Head(outq).value]
         \/ retained' = retained
      /\ Fault \/ faults' = faults
      /\ value' = value /\ todo' = todo /\ inq' = inq
      /\ downlink' = downlink /\ wanted' = wanted /\ changes' = changes
      /\ lost' = lost /\ missed' = missed /\ unasked' = unasked /\ hurried' = hurried
  BY DEF PublishFails, core0, history
<1>3. /\ Head(outq).topic \in Topics /\ Head(outq).value \in BOOLEAN
      /\ outq' \in Seq(Messages) /\ Len(outq') <= OutDepth
  BY <1>1, <1>2, OutboundHead
<1>4. retained' \in [Topics -> BOOLEAN]
  BY <1>1, <1>2, <1>3 DEF SessionTypeOK
<1>5. faults' \in 0..MaxFaults /\ link' \in BOOLEAN
  BY <1>1, <1>2, FaultType, Zenon
<1>6. SessionTypeOK'
  BY <1>1, <1>2, <1>3, <1>4, <1>5 DEF SessionTypeOK, Phases
<1>7. StaleOnlyWhenLost' /\ GateOnItsWay'
  BY <1>2 DEF StaleOnlyWhenLost, GateOnItsWay
<1>8. ReplaysBeforeRefresh'
  BY <1>1, <1>2 DEF ReplaysBeforeRefresh
<1>9. QED
  BY <1>6, <1>7, <1>8 DEF SessionInv

LEMMA NoticeDeathStep ==
    ASSUME SessionInv, NoticeDeath
    PROVE  SessionInv'
<1>1. SessionTypeOK /\ ReplaysBeforeRefresh
  BY DEF SessionInv
<1>2. /\ phase = "serve" /\ phase' = "backoff" /\ link' = link
      /\ outq' = outq /\ retained' = retained /\ faults' = faults
      /\ value' = value /\ todo' = todo /\ inq' = inq
      /\ downlink' = downlink /\ wanted' = wanted /\ changes' = changes
      /\ lost' = lost /\ missed' = missed /\ unasked' = unasked /\ hurried' = hurried
  BY DEF NoticeDeath, core0, broker, history
<1>3. SessionTypeOK'
  BY <1>1, <1>2 DEF SessionTypeOK, Phases
<1>4. StaleOnlyWhenLost' /\ GateOnItsWay'
  BY <1>2 DEF StaleOnlyWhenLost, GateOnItsWay
<1>5. ReplaysBeforeRefresh'
  BY <1>1, <1>2 DEF ReplaysBeforeRefresh
<1>6. QED
  BY <1>3, <1>4, <1>5 DEF SessionInv

(* A session that begins with work left over is one that hurries. *)
LEMMA BackoffStep ==
    ASSUME SessionInv, Backoff
    PROVE  SessionInv'
<1>1. SessionTypeOK /\ ReplaysBeforeRefresh
  BY DEF SessionInv
<1>2. /\ phase = "backoff" /\ phase' = "flush" /\ link' = link
      /\ outq' = outq /\ retained' = retained /\ faults' = faults
      /\ value' = value /\ todo' = todo /\ inq' = inq
      /\ downlink' = downlink /\ wanted' = wanted /\ changes' = changes
      /\ lost' = lost /\ missed' = missed /\ unasked' = unasked
      /\ hurried' = (inq # <<>> \/ todo # {})
  BY DEF Backoff, core0, broker
<1>3. hurried' \in BOOLEAN
  BY <1>2, Zenon
<1>4. SessionTypeOK'
  BY <1>1, <1>2, <1>3 DEF SessionTypeOK, Phases
<1>5. StaleOnlyWhenLost' /\ GateOnItsWay'
  BY <1>2 DEF StaleOnlyWhenLost, GateOnItsWay
<1>6. ReplaysBeforeRefresh'
  BY <1>1, <1>2 DEF ReplaysBeforeRefresh
<1>7. QED
  BY <1>4, <1>5, <1>6 DEF SessionInv

-----------------------------------------------------------------------------
(* The world outside. *)

LEMMA LinkBreaksStep ==
    ASSUME BoundAssumption, SessionInv, LinkBreaks
    PROVE  SessionInv'
<1>1. SessionTypeOK /\ StaleOnlyWhenLost /\ GateOnItsWay /\ ReplaysBeforeRefresh
  BY DEF SessionInv
<1>2. /\ link' = FALSE /\ Fault
      /\ outq' = outq /\ retained' = retained /\ phase' = phase
      /\ value' = value /\ todo' = todo /\ inq' = inq
      /\ wanted' = wanted /\ changes' = changes
      /\ lost' = lost /\ missed' = missed /\ unasked' = unasked /\ hurried' = hurried
  BY DEF LinkBreaks, core0, broker, history
<1>3. PICK n \in 0..Len(downlink) : downlink' = SubSeq(downlink, 1, n)
  BY DEF LinkBreaks
<1>4. /\ downlink' \in Seq(Commands)
      /\ NoReplay(downlink) => NoReplay(downlink')
      /\ downlink = <<>> => downlink' = <<>>
  <2>1. downlink \in Seq(Commands)
    BY <1>1 DEF SessionTypeOK
  <2>2. QED
    BY <1>3, <2>1, PrefixFacts
<1>5. faults' \in 0..MaxFaults /\ link' \in BOOLEAN
  BY <1>1, <1>2, FaultType, Zenon
<1>6. SessionTypeOK'
  BY <1>1, <1>2, <1>4, <1>5 DEF SessionTypeOK
<1>7. StaleOnlyWhenLost'
  BY <1>1, <1>2, StaleByTopic DEF FreshOrAsked, AskedFor
<1>8. GateOnItsWay'
  BY <1>1, <1>2, <1>4 DEF GateOnItsWay
<1>9. ReplaysBeforeRefresh'
  BY <1>1, <1>2, <1>4 DEF ReplaysBeforeRefresh
<1>10. QED
  BY <1>6, <1>7, <1>8, <1>9 DEF SessionInv

(* What Home Assistant retains is what it last sent to a session that listens. *)
LEMMA HaCommandStep ==
    ASSUME BoundAssumption, SessionInv, NEW t \in Topics, NEW v \in BOOLEAN, HaCommand(t, v)
    PROVE  SessionInv'
<1>1. SessionTypeOK /\ StaleOnlyWhenLost /\ GateOnItsWay /\ ReplaysBeforeRefresh
  BY DEF SessionInv
<1>2. /\ changes > 0 /\ changes' = changes - 1
      /\ wanted' = [g \in Gates |-> IF g = t THEN v ELSE wanted[g]]
      /\ downlink' = IF phase \in {"settle", "serve"} /\ link
                     THEN Append(downlink, Command(t, v)) ELSE downlink
      /\ outq' = outq /\ retained' = retained /\ phase' = phase /\ link' = link
      /\ value' = value /\ todo' = todo /\ inq' = inq /\ faults' = faults
      /\ lost' = lost /\ missed' = missed /\ unasked' = unasked /\ hurried' = hurried
  BY DEF HaCommand, Change, core0, history
<1> DEFINE c == Command(t, v)
<1>3. c \in Commands /\ c.topic = t /\ c.value = v /\ ~c.replay
  BY DEF Command, Commands
<1> HIDE DEF c
<1>4. ~IsReplay(c) /\ \A x : Concerns(c, x) <=> t = x
  BY <1>3, KindsApart
<1>5. downlink \in Seq(Commands)
  BY <1>1 DEF SessionTypeOK
<1>6. /\ Append(downlink, c) \in Seq(Commands)
      /\ NoReplay(downlink) => NoReplay(Append(downlink, c))
  BY <1>3, <1>4, <1>5, AppendProperties, OrderAppend
<1>7. changes' \in 0..MaxChanges /\ wanted' \in [Gates -> BOOLEAN]
  BY <1>1, <1>2 DEF SessionTypeOK, BoundAssumption
<1>8. SessionTypeOK'
  BY <1>1, <1>2, <1>5, <1>6, <1>7 DEF SessionTypeOK, c
<1>9. StaleOnlyWhenLost'
  BY <1>1, <1>2, StaleByTopic DEF FreshOrAsked, AskedFor
<1>10. GateOnItsWay'
  <2>1. ASSUME phase \in {"settle", "serve"}, link, NEW g \in Gates
        PROVE  /\ Says(downlink', g, wanted'[g], wanted'[g])
               /\ Silent(downlink', g) => Says(inq, g, value[g], wanted'[g]) \/ g \in missed
    <3>1. downlink' = Append(downlink, c)
      BY <1>2, <2>1 DEF c
    <3>2. /\ Says(downlink, g, wanted[g], wanted[g])
          /\ Silent(downlink, g) => Says(inq, g, value[g], wanted[g]) \/ g \in missed
      BY <1>1, <2>1 DEF GateOnItsWay
    <3>3. Silent(Append(downlink, c), g) => Silent(downlink, g) /\ ~Concerns(c, g)
      BY <1>3, <1>5, SaysAppend
    <3>4. CASE g = t
      <4>1. wanted'[g] = v
        BY <1>2, <3>4
      <4>2. Says(Append(downlink, c), g, v, v)
        BY <1>3, <1>4, <1>5, <3>4, SaysAppend
      <4>3. QED
        BY <1>4, <3>1, <3>3, <3>4, <4>1, <4>2
    <3>5. CASE g # t
      <4>1. wanted'[g] = wanted[g]
        BY <1>2, <3>5
      <4>2. Says(Append(downlink, c), g, wanted[g], wanted[g])
        BY <1>3, <1>4, <1>5, <3>2, <3>5, SaysAppend
      <4>3. QED
        BY <3>1, <3>2, <3>3, <4>1, <4>2
    <3>6. QED
      BY <3>4, <3>5
  <2>2. phase = "subscribe" => downlink' = <<>>
    BY <1>1, <1>2 DEF GateOnItsWay
  <2>3. QED
    BY <1>2, <2>1, <2>2 DEF GateOnItsWay
<1>11. ReplaysBeforeRefresh'
  <2>1. NoReplay(downlink) => NoReplay(downlink')
    BY <1>2, <1>6 DEF c
  <2>2. QED
    BY <1>1, <1>2, <2>1 DEF ReplaysBeforeRefresh
<1>12. QED
  BY <1>8, <1>9, <1>10, <1>11 DEF SessionInv

-----------------------------------------------------------------------------
(* Every step, and the specification. *)

LEMMA SessionInitInv ==
    ASSUME TopicsAssumption, DepthAssumption, BoundAssumption, SessionInit
    PROVE  SessionInv
<1>1. /\ value = [t \in Topics |-> t \in Gates] /\ todo = {} /\ inq = <<>> /\ outq = <<>>
      /\ phase = "flush" /\ link = FALSE /\ downlink = <<>>
      /\ retained \in [Topics -> BOOLEAN] /\ wanted \in [Gates -> BOOLEAN]
      /\ changes = MaxChanges /\ faults = MaxFaults
      /\ lost = {} /\ missed = {} /\ unasked = FALSE /\ hurried = FALSE
  BY DEF SessionInit
<1>2. value \in [Topics -> BOOLEAN]
  <2>1. \A t : (t \in Gates) = TRUE \/ (t \in Gates) = FALSE
    OBVIOUS
  <2>2. QED
    BY <1>1, <2>1, Zenon
<1>3. link \in BOOLEAN /\ unasked \in BOOLEAN /\ hurried \in BOOLEAN
  BY <1>1, Zenon
<1>4. /\ inq \in Seq(Commands \cup {Refresh}) /\ Len(inq) <= InDepth
      /\ outq \in Seq(Messages) /\ Len(outq) <= OutDepth /\ downlink \in Seq(Commands)
  <2>1. /\ inq \in Seq(Commands \cup {Refresh}) /\ Len(inq) = 0
        /\ outq \in Seq(Messages) /\ Len(outq) = 0 /\ downlink \in Seq(Commands)
    BY <1>1, EmptySeq
  <2>2. QED
    BY <2>1 DEF DepthAssumption
<1>5. SessionTypeOK
  BY <1>1, <1>2, <1>3, <1>4 DEF SessionTypeOK, Phases, BoundAssumption
<1>6. StaleOnlyWhenLost /\ GateOnItsWay /\ ReplaysBeforeRefresh
  BY <1>1 DEF StaleOnlyWhenLost, GateOnItsWay, ReplaysBeforeRefresh
<1>7. QED
  BY <1>5, <1>6 DEF SessionInv

LEMMA SessionStep ==
    ASSUME TopicsAssumption, DepthAssumption, BoundAssumption, SessionInv, [Next]_vars
    PROVE  SessionInv'
<1>1. CASE Core0
  BY <1>1, HandleInboundStep, RefreshStepStep DEF Core0
<1>2. CASE Core1
  BY <1>2, FlushStep, ConnectStep, SubscribeStep, SubscribeFailsStep, ReceiveStep,
     EndSettleStep, PublishStep, PublishFailsStep, NoticeDeathStep, BackoffStep DEF Core1
<1>3. CASE World
  BY <1>3, LocalChangeStep, LinkBreaksStep, HaCommandStep DEF World
<1>4. CASE UNCHANGED vars
  <2>1. /\ value' = value /\ todo' = todo /\ inq' = inq /\ outq' = outq /\ phase' = phase
        /\ link' = link /\ downlink' = downlink /\ retained' = retained /\ wanted' = wanted
        /\ changes' = changes /\ faults' = faults /\ lost' = lost /\ missed' = missed
        /\ unasked' = unasked /\ hurried' = hurried
    BY <1>4 DEF vars, history
  <2>2. SessionTypeOK' /\ StaleOnlyWhenLost'
    BY <2>1, StaleByTopic DEF SessionInv, SessionTypeOK, FreshOrAsked, AskedFor
  <2>3. GateOnItsWay' /\ ReplaysBeforeRefresh'
    BY <2>1 DEF SessionInv, GateOnItsWay, ReplaysBeforeRefresh
  <2>4. QED
    BY <2>2, <2>3 DEF SessionInv
<1>5. QED
  BY <1>1, <1>2, <1>3, <1>4 DEF Next

LEMMA SessionInvHolds == Spec => []SessionInv
<1>1. SessionInit => SessionInv
  BY SessionInitInv, TopicsAssumption, DepthAssumption, BoundAssumption
<1>2. SessionInv /\ [Next]_vars => SessionInv'
  BY SessionStep, TopicsAssumption, DepthAssumption, BoundAssumption
<1>3. QED
  BY <1>1, <1>2, PTL DEF Spec

(* What has been read and what is still to be read, one behind the other. *)
LEMMA GateOnItsWayFollows ==
    ASSUME SessionInv
    PROVE  GateFollowsBroker
<1>1. SessionTypeOK /\ GateOnItsWay
  BY DEF SessionInv
<1> DEFINE Entries == Commands \cup {Refresh}
<1>2. inq \in Seq(Entries) /\ downlink \in Seq(Entries)
  <2>1. inq \in Seq(Entries) /\ downlink \in Seq(Commands) /\ Commands \subseteq Entries
    BY <1>1 DEF SessionTypeOK
  <2>2. QED
    BY <2>1, SeqMonotonic
<1> HIDE DEF Entries
<1>3. ASSUME phase \in {"settle", "serve"}, link, NEW g \in Gates
      PROVE  Says(inq \o downlink, g, value[g], wanted[g]) \/ g \in missed
  <2>1. /\ Says(downlink, g, wanted[g], wanted[g])
        /\ Silent(downlink, g) => Says(inq, g, value[g], wanted[g]) \/ g \in missed
    BY <1>1, <1>3 DEF GateOnItsWay
  <2>2. CASE Silent(downlink, g)
    BY <1>2, <2>1, <2>2, SaysBehind
  <2>3. CASE ~Silent(downlink, g)
    BY <1>2, <2>1, <2>3, SaysBehind
  <2>4. QED
    BY <2>2, <2>3
<1>4. QED
  BY <1>3 DEF GateFollowsBroker

(* While a refresh runs no replay is left, read or unread. *)
LEMMA NoReplayDuringRefresh ==
    ASSUME SessionInv
    PROVE  NoDoomedGate
<1>1. SessionTypeOK /\ ReplaysBeforeRefresh
  BY DEF SessionInv
<1> DEFINE Entries == Commands \cup {Refresh}
<1>2. inq \in Seq(Entries) /\ downlink \in Seq(Entries)
  <2>1. inq \in Seq(Entries) /\ downlink \in Seq(Commands) /\ Commands \subseteq Entries
    BY <1>1 DEF SessionTypeOK
  <2>2. QED
    BY <2>1, SeqMonotonic
<1> HIDE DEF Entries
<1>3. ASSUME ~hurried, todo # {}, NEW c \in Contents(inq \o downlink)
      PROVE  ~IsReplay(c)
  <2>1. NoReplay(inq) /\ NoReplay(downlink)
    BY <1>1, <1>3 DEF ReplaysBeforeRefresh, SessionTypeOK, Phases
  <2>2. /\ Len(inq) \in Nat /\ Len(downlink) \in Nat
        /\ Len(inq \o downlink) = Len(inq) + Len(downlink)
        /\ \A i \in 1..Len(inq) + Len(downlink) :
             (inq \o downlink)[i] = IF i <= Len(inq) THEN inq[i] ELSE downlink[i - Len(inq)]
    BY <1>2, ConcatProperties, LenProperties
  <2>3. PICK i \in 1..Len(inq) + Len(downlink) : c = (inq \o downlink)[i]
    BY <1>3, <2>2 DEF Contents
  <2>4. CASE i <= Len(inq)
    <3>1. i \in 1..Len(inq) /\ c = inq[i]
      BY <2>2, <2>3, <2>4
    <3>2. QED
      BY <2>1, <3>1 DEF NoReplay
  <2>5. CASE ~(i <= Len(inq))
    <3>1. i - Len(inq) \in 1..Len(downlink) /\ c = downlink[i - Len(inq)]
      BY <2>2, <2>3, <2>5
    <3>2. QED
      BY <2>1, <3>1 DEF NoReplay
  <2>6. QED
    BY <2>4, <2>5
<1>4. QED
  BY <1>3 DEF NoDoomedGate, Concerns, IsReplay

(* The two queues keep to their depth, core 1 to its phases and the broker to     *)
(* its topics, for every depth and every set of topics.                           *)
THEOREM SessionTypesHold == Spec => []SessionTypeOK
<1>1. SessionInv => SessionTypeOK
  BY DEF SessionInv
<1>2. QED
  BY <1>1, SessionInvHolds, PTL

(* While a session is served the broker is stale about a topic only when a        *)
(* refresh is still to come or a full queue cost it the news (net_core.cpp,       *)
(* connectSession and sessionLoop; publisher.cpp): for every depth of the queues. *)
THEOREM StaleOnlyByLoss == Spec => []StaleOnlyWhenLost
<1>1. SessionInv => StaleOnlyWhenLost
  BY DEF SessionInv
<1>2. QED
  BY <1>1, SessionInvHolds, PTL

(* From the subscription on, the commands under way bring every gate to what      *)
(* Home Assistant retains for it, in whichever order the broker replays them,     *)
(* unless gInbound was full (net_core.cpp, onMessage; command_router.cpp).        *)
THEOREM GatesFollowTheBroker == Spec => []GateFollowsBroker
<1>1. SessionInv => GateFollowsBroker
  BY GateOnItsWayFollows
<1>2. QED
  BY <1>1, SessionInvHolds, PTL

(* A refresh never advertises a gate that a replayed command is about to change,  *)
(* but in a session that hurried (net_core.cpp 214-216): for every order in which *)
(* the two cores take their turns.                                                *)
THEOREM NoGateIsDoomed == Spec => []NoDoomedGate
<1>1. SessionInv => NoDoomedGate
  BY NoReplayDuringRefresh
<1>2. QED
  BY <1>1, SessionInvHolds, PTL
=============================================================================
