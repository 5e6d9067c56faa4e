---------------------------- MODULE PanelsProofs ----------------------------
(* Proofs about Panels, for any panels, rules and topics and queues of any      *)
(* depth: no panel in session holds a stale picture of another one's sensor, a  *)
(* press acts at most once, and motion switches on no light by day.             *)
EXTENDS Panels, SequenceTheorems, FiniteSetTheorems, WellFoundedInduction, TLAPS

(* A set of one. *)
LEMMA SingletonIs ==
    ASSUME NEW x
    PROVE  IsFiniteSet({x}) /\ Cardinality({x}) = 1
  BY FS_Singleton

-----------------------------------------------------------------------------
(* The ends of a set of numbers. *)

Below == {pair \in Nat \X Nat : pair[1] < pair[2]}

LEMMA LeastOf ==
    ASSUME NEW T, T \subseteq Nat, T # {}
    PROVE  \E m \in T : \A n \in T : m <= n
<1>1. IsWellFoundedOn(Below, Nat)
  BY NatLessThanWellFounded DEF OpToRel, Below
<1>2. PICK m \in T : \A n \in T : <<n, m>> \notin Below
  BY <1>1, WFMin
<1>3. \A n \in T : ~(n < m)
  <2> TAKE n \in T
  <2>1. m \in Nat /\ n \in Nat /\ <<n, m>> \in Nat \X Nat /\ <<n, m>>[1] = n /\ <<n, m>>[2] = m
    OBVIOUS
  <2>2. QED
    BY <1>2, <2>1 DEF Below
<1>4. \A n \in T : m <= n
  BY <1>3
<1>5. QED
  BY <1>4

LEMMA GreatestOf ==
    ASSUME NEW k \in Nat, NEW T \in SUBSET (1..k), T # {}
    PROVE  Max(T) \in T /\ \A n \in T : Max(T) >= n
<1> DEFINE away == {i \in 0..k : k - i \in T}
<1>1. PICK m \in away : \A i \in away : m <= i
  <2>1. PICK n \in T : TRUE
    OBVIOUS
  <2>2. k - n \in 0..k /\ k - (k - n) = n
    OBVIOUS
  <2>3. k - n \in away /\ away \subseteq Nat
    BY <2>2
  <2> HIDE DEF away
  <2>4. QED
    BY <2>3, LeastOf
<1>2. ASSUME NEW n \in T PROVE k - m >= n
  <2>1. k - n \in 0..k /\ k - (k - n) = n
    OBVIOUS
  <2>2. m <= k - n /\ m \in Int /\ n \in Int
    BY <1>1, <2>1
  <2>3. QED
    BY <2>2
<1>3. k - m \in T
  BY <1>1
<1>4. QED
  BY <1>2, <1>3 DEF Max

-----------------------------------------------------------------------------
(* The entries a selection keeps. *)

Rank(keep, i) == Cardinality({j \in keep : j <= i})

(* The places that are kept have the ranks from 1 to their number. *)
LEMMA RanksCount ==
    ASSUME NEW n \in Nat, NEW keep \in SUBSET (1..n)
    PROVE  /\ Cardinality(keep) \in Nat
           /\ \A i \in keep : Rank(keep, i) \in 1..Cardinality(keep)
           /\ \A i, j \in keep : Rank(keep, i) = Rank(keep, j) => i = j
           /\ \A k \in 1..Cardinality(keep) : \E i \in keep : Rank(keep, i) = k
<1>1. IsFiniteSet(keep) /\ Cardinality(keep) \in Nat
  <2>1. IsFiniteSet(1..n)
    BY FS_Interval
  <2>2. QED
    BY <2>1, FS_Subset, FS_CardinalityType
<1>2. ASSUME NEW i \in keep
      PROVE  Rank(keep, i) \in 1..Cardinality(keep)
  <2> DEFINE low == {j \in keep : j <= i}
  <2>1. i \in low /\ low \in SUBSET keep
    OBVIOUS
  <2>2. IsFiniteSet(low) /\ Cardinality(low) <= Cardinality(keep)
    BY <1>1, <2>1, FS_Subset
  <2>3. Cardinality(low) \in Nat /\ Cardinality(low) # 0
    <3> HIDE DEF low
    <3>1. QED
      BY <2>1, <2>2, FS_CardinalityType, FS_EmptySet
  <2>4. QED
    BY <1>1, <2>2, <2>3 DEF Rank
<1>3. ASSUME NEW i \in keep, NEW j \in keep, i < j
      PROVE  Rank(keep, i) # Rank(keep, j)
  <2> DEFINE low == {m \in keep : m <= i}
             high == {m \in keep : m <= j}
  <2>1. low \in SUBSET high /\ j \in high /\ j \notin low
    <3>1. i \in Int /\ j \in Int /\ j \in keep /\ ~(j <= i)
      BY <1>3
    <3>2. ASSUME NEW m \in keep, m <= i PROVE m <= j
      <4>1. m \in Int
        OBVIOUS
      <4>2. QED
        BY <1>3, <3>1, <3>2, <4>1
    <3>3. low \subseteq high
      BY <3>2
    <3>4. j \in high /\ j \notin low
      BY <3>1
    <3>5. QED
      BY <3>3, <3>4
  <2>2. IsFiniteSet(high)
    BY <1>1, FS_Subset
  <2>3. Cardinality(low) # Cardinality(high)
    <3> HIDE DEF low, high
    <3>1. QED
      BY <2>1, <2>2, FS_Subset
  <2>4. QED
    BY <2>3 DEF Rank
<1>4. \A i, j \in keep : Rank(keep, i) = Rank(keep, j) => i = j
  <2> SUFFICES ASSUME NEW i \in keep, NEW j \in keep, i # j
               PROVE  Rank(keep, i) # Rank(keep, j)
    OBVIOUS
  <2>1. i < j \/ j < i
    OBVIOUS
  <2>2. QED
    BY <1>3, <2>1
<1>5. \A k \in 1..Cardinality(keep) : \E i \in keep : Rank(keep, i) = k
  <2> DEFINE ranks == 1..Cardinality(keep)
             f == [i \in keep |-> Rank(keep, i)]
  <2>1. f \in Injection(keep, ranks)
    <3>1. f \in [keep -> ranks]
      BY <1>2
    <3>2. \A i, j \in keep : f[i] = f[j] => i = j
      BY <1>4
    <3> HIDE DEF f
    <3>3. QED
      BY <3>1, <3>2 DEF Injection, IsInjective
  <2>2. IsFiniteSet(ranks) /\ Cardinality(ranks) = Cardinality(keep)
    BY <1>1, FS_Interval
  <2>3. f \in Surjection(keep, ranks)
    <3> HIDE DEF f, ranks
    <3>1. QED
      BY <2>1, <2>2, FS_Injection
  <2>4. \A k \in ranks : \E i \in keep : f[i] = k
    <3> HIDE DEF f, ranks
    <3>1. QED
      BY <2>3 DEF Surjection
  <2>5. QED
    BY <2>4
<1>6. QED
  BY <1>1, <1>2, <1>4, <1>5

(* Each entry of a selection comes from a place that is kept, and each of those  *)
(* is in it.                                                                     *)
LEMMA KeptIs ==
    ASSUME NEW s, NEW n \in Nat, NEW keep \in SUBSET (1..n)
    PROVE  /\ Len(Kept(s, keep)) \in Nat
           /\ DOMAIN Kept(s, keep) = 1..Len(Kept(s, keep))
           /\ \A k \in 1..Len(Kept(s, keep)) : \E i \in keep : Kept(s, keep)[k] = s[i]
           /\ \A i \in keep : \E k \in 1..Len(Kept(s, keep)) : Kept(s, keep)[k] = s[i]
<1> DEFINE count == Cardinality(keep)
           place(k) == CHOOSE i \in keep : Rank(keep, i) = k
           kept == [k \in 1..count |-> s[place(k)]]
<1>1. Kept(s, keep) = kept
  BY DEF Kept, Rank
<1>2. /\ count \in Nat
      /\ \A i \in keep : Rank(keep, i) \in 1..count
      /\ \A i, j \in keep : Rank(keep, i) = Rank(keep, j) => i = j
      /\ \A k \in 1..count : \E i \in keep : Rank(keep, i) = k
  BY RanksCount
<1>3. \A k \in 1..count : place(k) \in keep /\ Rank(keep, place(k)) = k
  BY <1>2
<1>4. \A i \in keep : Rank(keep, i) \in 1..count /\ place(Rank(keep, i)) = i
  BY <1>2, <1>3
<1>5. DOMAIN kept = 1..count /\ \A k \in 1..count : kept[k] = s[place(k)]
  OBVIOUS
<1> HIDE DEF place, count, kept
<1>6. Len(kept) = count
  BY <1>2, <1>5
<1>7. ASSUME NEW k \in 1..count PROVE \E i \in keep : kept[k] = s[i]
  BY <1>3, <1>5
<1>8. ASSUME NEW i \in keep PROVE \E k \in 1..count : kept[k] = s[i]
  <2>1. kept[Rank(keep, i)] = s[i] /\ Rank(keep, i) \in 1..count
    BY <1>4, <1>5
  <2>2. QED
    BY <2>1
<1>9. QED
  BY <1>1, <1>2, <1>5, <1>6, <1>7, <1>8

-----------------------------------------------------------------------------
(* The filters of a panel. *)

SensorTopics == UNION {Sensors(p) : p \in Panels}

(* A remote topic is one of a row, and each row has its topic among them. *)
LEMMA RemoteTopicsAre ==
    ASSUME NEW p \in Panels
    PROVE  /\ Len(RemoteTopics(p)) \in Nat
           /\ DOMAIN RemoteTopics(p) = 1..Len(RemoteTopics(p))
           /\ \A i \in DOMAIN Rows[p] : \E k \in 1..Len(RemoteTopics(p)) :
                  RemoteTopics(p)[k] = Rows[p][i].topic
<1> DEFINE n == Len(Rows[p])
           topics == [i \in DOMAIN Rows[p] |-> Rows[p][i].topic]
           first == {i \in DOMAIN topics : \A j \in 1..i - 1 : topics[j] # topics[i]}
<1>1. n \in Nat /\ DOMAIN Rows[p] = 1..n
  BY TablesAssumption, LenProperties
<1>2. RemoteTopics(p) = Kept(topics, first)
  BY DEF RemoteTopics
<1>3. first \in SUBSET (1..n)
  BY <1>1
<1>4. ASSUME NEW i \in 1..n PROVE \E m \in first : topics[m] = topics[i]
  <2> DEFINE same == {j \in 1..n : topics[j] = topics[i]}
  <2>1. PICK m \in same : \A j \in same : m <= j
    <3>1. same # {} /\ same \subseteq Nat
      OBVIOUS
    <3> HIDE DEF same
    <3>2. QED
      BY <3>1, LeastOf
  <2>2. ASSUME NEW j \in 1..m - 1 PROVE topics[j] # topics[m]
    <3>1. m \in 1..n /\ topics[m] = topics[i]
      BY <2>1
    <3>2. j \in 1..n /\ ~(m <= j)
      BY <1>1, <3>1
    <3>3. j \notin same
      BY <2>1, <3>2
    <3>4. QED
      BY <3>1, <3>2, <3>3
  <2>3. m \in first /\ topics[m] = topics[i]
    BY <1>1, <2>1, <2>2
  <2>4. QED
    BY <2>3
<1>5. \A i \in 1..n : topics[i] = Rows[p][i].topic
  BY <1>1
<1> HIDE DEF topics, first, n
<1>6. /\ Len(Kept(topics, first)) \in Nat
      /\ DOMAIN Kept(topics, first) = 1..Len(Kept(topics, first))
      /\ \A i \in first : \E k \in 1..Len(Kept(topics, first)) : Kept(topics, first)[k] = topics[i]
  BY <1>1, <1>3, KeptIs
<1>7. ASSUME NEW i \in 1..n
      PROVE  \E k \in 1..Len(Kept(topics, first)) : Kept(topics, first)[k] = Rows[p][i].topic
  BY <1>4, <1>5, <1>6
<1>8. QED
  BY <1>1, <1>2, <1>6, <1>7

(* The filters before those without a topic are left out. *)
AllFilters(p) ==
    [i \in 1..Len(CommandVerbs) |-> Wildcard(p, CommandVerbs[i])]
    \o [i \in 1..Len(RemoteTopics(p)) |-> {RemoteTopics(p)[i]}]

LEMMA AllFiltersAre ==
    ASSUME NEW p \in Panels
    PROVE  /\ Len(AllFilters(p)) = 5 + Len(RemoteTopics(p))
           /\ DOMAIN AllFilters(p) = 1..5 + Len(RemoteTopics(p))
           /\ \A i \in 1..5 + Len(RemoteTopics(p)) : AllFilters(p)[i] =
                  IF i <= 5 THEN Wildcard(p, CommandVerbs[i]) ELSE {RemoteTopics(p)[i - 5]}
<1> DEFINE wild == [i \in 1..Len(CommandVerbs) |-> Wildcard(p, CommandVerbs[i])]
           n == Len(RemoteTopics(p))
           exact == [i \in 1..n |-> {RemoteTopics(p)[i]}]
           S == {wild[i] : i \in 1..5} \cup {exact[i] : i \in 1..n}
<1>1. n \in Nat /\ Len(CommandVerbs) = 5
  BY RemoteTopicsAre DEF CommandVerbs
<1> HIDE DEF n
<1>2. wild \in Seq(S) /\ Len(wild) = 5
  BY <1>1
<1>3. exact \in Seq(S) /\ Len(exact) = n
  BY <1>1
<1>4. /\ \A i \in 1..5 : wild[i] = Wildcard(p, CommandVerbs[i])
      /\ \A i \in 1..n : exact[i] = {RemoteTopics(p)[i]}
  BY <1>1
<1>5. AllFilters(p) = wild \o exact
  BY DEF AllFilters, n
<1> HIDE DEF wild, exact, S
<1>6. /\ wild \o exact \in Seq(S)
      /\ Len(wild \o exact) = 5 + n
      /\ \A i \in 1..5 + n : (wild \o exact)[i] = IF i <= 5 THEN wild[i] ELSE exact[i - 5]
  <2>1. /\ wild \o exact \in Seq(S)
        /\ Len(wild \o exact) = Len(wild) + Len(exact)
        /\ \A i \in 1..Len(wild) + Len(exact) :
               (wild \o exact)[i] = IF i <= Len(wild) THEN wild[i] ELSE exact[i - Len(wild)]
    BY <1>2, <1>3, ConcatProperties, Zenon
  <2>2. QED
    BY <1>2, <1>3, <2>1
<1>7. DOMAIN (wild \o exact) = 1..5 + n
  BY <1>6, LenProperties
<1>8. ASSUME NEW i \in 1..5 + n
      PROVE  (wild \o exact)[i] = IF i <= 5 THEN Wildcard(p, CommandVerbs[i]) ELSE {RemoteTopics(p)[i - 5]}
  <2>1. CASE i <= 5
    BY <1>4, <1>6, <2>1
  <2>2. CASE ~(i <= 5)
    <3>1. i - 5 \in 1..n
      BY <1>1, <2>2
    <3>2. QED
      BY <1>4, <1>6, <2>2, <3>1
  <2>3. QED
    BY <2>1, <2>2
<1>9. QED
  BY <1>5, <1>6, <1>7, <1>8 DEF n

(* A sensor is asked for by its own topic and by no wildcard. *)
LEMMA FiltersAre ==
    ASSUME NEW p \in Panels
    PROVE  /\ Len(Filters[p]) \in Nat /\ DOMAIN Filters[p] = 1..Len(Filters[p])
           /\ \A i \in 1..Len(Filters[p]) : IsFiniteSet(Filters[p][i])
           /\ \A t \in Sensors(p) :
                 /\ \E i \in 1..Len(Filters[p]) : Filters[p][i] = {t}
                 /\ \A i \in 1..Len(Filters[p]) : t \in Filters[p][i] => Filters[p][i] = {t}
<1> DEFINE n == Len(RemoteTopics(p))
           all == AllFilters(p)
           keep == {i \in DOMAIN all : all[i] # {}}
           fs == Filters[p]
<1>1. fs = Kept(all, keep)
  BY DEF Filters, Matched, AllFilters
<1>2. /\ n \in Nat /\ DOMAIN all = 1..5 + n
      /\ \A i \in 1..5 + n : all[i] =
             IF i <= 5 THEN Wildcard(p, CommandVerbs[i]) ELSE {RemoteTopics(p)[i - 5]}
      /\ \A i \in DOMAIN Rows[p] : \E k \in 1..n : RemoteTopics(p)[k] = Rows[p][i].topic
  BY AllFiltersAre, RemoteTopicsAre
<1> HIDE DEF n, all
<1>3. keep \in SUBSET (1..5 + n) /\ 5 + n \in Nat
  BY <1>2
<1>4. /\ Len(fs) \in Nat /\ DOMAIN fs = 1..Len(fs)
      /\ \A k \in 1..Len(fs) : \E i \in keep : fs[k] = all[i]
      /\ \A i \in keep : \E k \in 1..Len(fs) : fs[k] = all[i]
  <2> HIDE DEF keep, fs
  <2>1. QED
    BY <1>1, <1>3, KeptIs
<1>5. ASSUME NEW t \in Sensors(p)
      PROVE  \E i \in 1..Len(fs) : fs[i] = {t}
  <2>1. PICK r \in DOMAIN Rows[p] : Rows[p][r].topic = t
    BY DEF Sensors
  <2>2. PICK k \in 1..n : RemoteTopics(p)[k] = t
    BY <1>2, <2>1
  <2>3. 5 + k \in 1..5 + n /\ ~(5 + k <= 5) /\ 5 + k - 5 = k
    BY <1>2
  <2>4. all[5 + k] = {t}
    BY <1>2, <2>2, <2>3
  <2>5. 5 + k \in keep
    BY <1>2, <2>3, <2>4
  <2>6. QED
    BY <1>4, <2>4, <2>5
<1>6. ASSUME NEW t \in Sensors(p), NEW k \in 1..Len(fs), t \in fs[k]
      PROVE  fs[k] = {t}
  <2>1. PICK i \in keep : fs[k] = all[i]
    BY <1>4
  <2>2. CASE i <= 5
    <3>1. t[5] = CommandVerbs[i]
      BY <1>2, <1>6, <2>1, <2>2 DEF Wildcard
    <3>2. i \in DOMAIN CommandVerbs
      BY <1>2, <2>2 DEF CommandVerbs
    <3>3. t[5] \in ToSet(CommandVerbs)
      BY <3>1, <3>2 DEF ToSet
    <3>4. QED
      BY <3>3, SensorsAssumption
  <2>3. CASE ~(i <= 5)
    BY <1>2, <1>6, <2>1, <2>3
  <2>4. QED
    BY <2>2, <2>3
<1>7. ASSUME NEW k \in 1..Len(fs) PROVE IsFiniteSet(fs[k])
  <2>1. PICK i \in keep : fs[k] = all[i]
    BY <1>4
  <2>2. CASE i <= 5
    <3>1. fs[k] = Wildcard(p, CommandVerbs[i])
      BY <1>2, <2>1, <2>2
    <3>2. fs[k] \in SUBSET Topics
      BY <3>1 DEF Wildcard
    <3>3. QED
      BY <3>2, TablesAssumption, FS_Subset
  <2>3. CASE ~(i <= 5)
    <3>1. fs[k] = {RemoteTopics(p)[i - 5]}
      BY <1>2, <2>1, <2>3
    <3>2. PICK x : x = RemoteTopics(p)[i - 5]
      OBVIOUS
    <3>3. IsFiniteSet({x})
      BY SingletonIs
    <3>4. QED
      BY <3>1, <3>2, <3>3
  <2>4. QED
    BY <2>2, <2>3
<1>8. QED
  BY <1>4, <1>5, <1>6, <1>7

-----------------------------------------------------------------------------
(* What a queue says last.  f gives the word of each entry, "" if it has none.   *)

Quiet(q, f) == \A i \in 1..Len(q) : f[q[i]] = ""

Says(q, f, otherwise, v) ==
    /\ \A i \in 1..Len(q) :
          f[q[i]] # "" /\ (\A j \in i + 1..Len(q) : f[q[j]] = "") => f[q[i]] = v
    /\ Quiet(q, f) => otherwise = v

LEMMA EmptySays ==
    ASSUME NEW f, NEW v
    PROVE  Quiet(<<>>, f) /\ Says(<<>>, f, v, v)
BY DEF Quiet, Says

(* An entry at the end has the last word, if it has one. *)
LEMMA SaysAppend ==
    ASSUME NEW S, NEW q \in Seq(S), NEW x \in S, NEW f
    PROVE  /\ Quiet(Append(q, x), f) <=> Quiet(q, f) /\ f[x] = ""
           /\ f[x] = "" => \A o, v : Says(q, f, o, v) => Says(Append(q, x), f, o, v)
           /\ f[x] # "" => \A o : Says(Append(q, x), f, o, f[x])
<1>1. PICK p : p = Append(q, x)
  OBVIOUS
<1>2. /\ Len(q) \in Nat /\ Len(p) = Len(q) + 1 /\ p[Len(q) + 1] = x
      /\ \A i \in 1..Len(q) : p[i] = q[i]
  BY <1>1, AppendProperties
<1>3. /\ Len(q) + 1 \in 1..Len(p)
      /\ \A i \in 1..Len(q) : i \in 1..Len(p)
      /\ \A i \in 1..Len(p) : i \in 1..Len(q) \/ i = Len(q) + 1
  BY <1>2
<1>4. Quiet(p, f) <=> Quiet(q, f) /\ f[x] = ""
  BY <1>2, <1>3 DEF Quiet
<1>5. ASSUME f[x] = "", NEW o, NEW v, Says(q, f, o, v) PROVE Says(p, f, o, v)
  <2>1. ASSUME NEW i \in 1..Len(p), f[p[i]] # "", \A j \in i + 1..Len(p) : f[p[j]] = ""
        PROVE  f[p[i]] = v
    <3>1. i \in 1..Len(q) /\ p[i] = q[i]
      BY <1>2, <1>3, <1>5, <2>1
    <3>2. ASSUME NEW j \in i + 1..Len(q) PROVE f[q[j]] = ""
      <4>1. j \in 1..Len(q) /\ j \in i + 1..Len(p)
        BY <1>2, <3>1
      <4>2. QED
        BY <1>2, <2>1, <4>1
    <3>3. QED
      BY <1>5, <2>1, <3>1, <3>2 DEF Says
  <2>2. Quiet(p, f) => o = v
    BY <1>4, <1>5 DEF Says
  <2>3. QED
    BY <2>1, <2>2 DEF Says
<1>6. ASSUME f[x] # "", NEW o PROVE Says(p, f, o, f[x])
  <2>1. ASSUME NEW i \in 1..Len(p), \A j \in i + 1..Len(p) : f[p[j]] = ""
        PROVE  f[p[i]] = f[x]
    <3>1. i \notin 1..Len(q)
      <4> SUFFICES ASSUME i \in 1..Len(q) PROVE FALSE
        OBVIOUS
      <4>1. Len(q) + 1 \in i + 1..Len(p)
        BY <1>2
      <4>2. QED
        BY <1>2, <1>6, <2>1, <4>1
    <3>2. QED
      BY <1>2, <1>3, <3>1
  <2>2. ~Quiet(p, f)
    BY <1>4, <1>6
  <2>3. QED
    BY <2>1, <2>2 DEF Says
<1>7. QED
  BY <1>1, <1>4, <1>5, <1>6

(* The first entry matters when no other has a word. *)
LEMMA SaysTail ==
    ASSUME NEW S, NEW q \in Seq(S), q # <<>>, NEW f
    PROVE  /\ Quiet(q, f) <=> f[Head(q)] = "" /\ Quiet(Tail(q), f)
           /\ f[Head(q)] = "" => \A o, v : Says(q, f, o, v) => Says(Tail(q), f, o, v)
           /\ f[Head(q)] # "" => \A o, v : Says(q, f, o, v) => Says(Tail(q), f, f[Head(q)], v)
<1>1. PICK p, x : p = Tail(q) /\ x = Head(q)
  OBVIOUS
<1>2. /\ Len(q) \in Nat \ {0} /\ Len(p) = Len(q) - 1 /\ q[1] = x
      /\ \A i \in 1..Len(p) : p[i] = q[i + 1]
  BY <1>1, HeadTailProperties, EmptySeq
<1>3. /\ 1 \in 1..Len(q)
      /\ \A i \in 1..Len(p) : i + 1 \in 1..Len(q)
      /\ \A i \in 1..Len(q) : i # 1 => i - 1 \in 1..Len(p) /\ q[i] = p[i - 1]
  <2>1. ASSUME NEW i \in 1..Len(q), i # 1 PROVE i - 1 \in 1..Len(p) /\ q[i] = p[i - 1]
    <3>1. i - 1 \in 1..Len(p) /\ (i - 1) + 1 = i
      BY <1>2, <2>1
    <3>2. QED
      BY <1>2, <3>1
  <2>2. QED
    BY <1>2, <2>1
<1>4. Quiet(q, f) <=> f[x] = "" /\ Quiet(p, f)
  <2>1. ASSUME Quiet(q, f) PROVE f[x] = "" /\ Quiet(p, f)
    <3>1. f[x] = ""
      BY <1>2, <1>3, <2>1 DEF Quiet
    <3>2. ASSUME NEW i \in 1..Len(p) PROVE f[p[i]] = ""
      <4>1. i + 1 \in 1..Len(q) /\ p[i] = q[i + 1]
        BY <1>2, <1>3
      <4>2. QED
        BY <2>1, <4>1 DEF Quiet
    <3>3. QED
      BY <3>1, <3>2 DEF Quiet
  <2>2. ASSUME f[x] = "", Quiet(p, f) PROVE Quiet(q, f)
    BY <1>2, <1>3, <2>2 DEF Quiet
  <2>3. QED
    BY <2>1, <2>2
<1>5. ASSUME NEW o, NEW v, Says(q, f, o, v), NEW i \in 1..Len(p), f[p[i]] # "",
             \A j \in i + 1..Len(p) : f[p[j]] = ""
      PROVE  f[p[i]] = v
  <2>1. ASSUME NEW j \in i + 1 + 1..Len(q) PROVE f[q[j]] = ""
    <3>1. j \in 1..Len(q) /\ j # 1 /\ j - 1 \in i + 1..Len(p)
      BY <1>2
    <3>2. QED
      BY <1>3, <1>5, <3>1
  <2>2. i + 1 \in 1..Len(q) /\ q[i + 1] = p[i]
    BY <1>2, <1>3
  <2>3. QED
    BY <1>5, <2>1, <2>2 DEF Says
<1>6. ASSUME NEW o, NEW v, Says(q, f, o, v), Quiet(p, f), f[x] # "" PROVE f[x] = v
  <2>1. \A j \in 1 + 1..Len(q) : f[q[j]] = ""
    <3> TAKE j \in 1 + 1..Len(q)
    <3>1. j \in 1..Len(q) /\ j # 1
      BY <1>2
    <3>2. QED
      BY <1>3, <1>6, <3>1 DEF Quiet
  <2>2. QED
    BY <1>2, <1>3, <1>6, <2>1 DEF Says
<1>7. ASSUME NEW o, NEW v, Says(q, f, o, v)
      PROVE  /\ f[x] = "" => Says(p, f, o, v)
             /\ f[x] # "" => Says(p, f, f[x], v)
  BY <1>4, <1>5, <1>6, <1>7 DEF Says
<1>8. QED
  BY <1>1, <1>4, <1>7

(* Entries without a word change nothing. *)
LEMMA SaysBehind ==
    ASSUME NEW S, NEW q \in Seq(S), NEW r \in Seq(S), NEW f, Quiet(r, f)
    PROVE  /\ Quiet(q \o r, f) <=> Quiet(q, f)
           /\ \A o, v : Says(q, f, o, v) => Says(q \o r, f, o, v)
<1>1. PICK p : p = q \o r
  OBVIOUS
<1>2. /\ Len(q) \in Nat /\ Len(r) \in Nat /\ Len(p) = Len(q) + Len(r)
      /\ \A i \in 1..Len(p) : p[i] = IF i <= Len(q) THEN q[i] ELSE r[i - Len(q)]
  BY <1>1, ConcatProperties, LenProperties
<1>3. \A i \in 1..Len(q) : i \in 1..Len(p) /\ p[i] = q[i]
  BY <1>2
<1>4. ASSUME NEW i \in 1..Len(p), i \notin 1..Len(q) PROVE f[p[i]] = ""
  <2>1. ~(i <= Len(q)) /\ i - Len(q) \in 1..Len(r)
    BY <1>2, <1>4
  <2>2. QED
    BY <1>2, <2>1 DEF Quiet
<1>5. Quiet(p, f) <=> Quiet(q, f)
  BY <1>3, <1>4 DEF Quiet
<1>6. ASSUME NEW o, NEW v, Says(q, f, o, v) PROVE Says(p, f, o, v)
  <2>1. ASSUME NEW i \in 1..Len(p), f[p[i]] # "", \A j \in i + 1..Len(p) : f[p[j]] = ""
        PROVE  f[p[i]] = v
    <3>1. i \in 1..Len(q) /\ p[i] = q[i]
      BY <1>3, <1>4, <2>1
    <3>2. ASSUME NEW j \in i + 1..Len(q) PROVE f[q[j]] = ""
      <4>1. j \in 1..Len(q) /\ j \in i + 1..Len(p)
        BY <1>2, <3>1
      <4>2. QED
        BY <1>3, <2>1, <4>1
    <3>3. QED
      BY <1>6, <2>1, <3>1, <3>2 DEF Says
  <2>2. QED
    BY <1>5, <1>6, <2>1 DEF Says
<1>7. QED
  BY <1>1, <1>5, <1>6

-----------------------------------------------------------------------------
(* The inductive invariant. *)

Bits == {"0", "1"}
Payloads == Bits \cup Gestures \cup {c.payload : c \in Commands}
Asked == UNION {UNION ToSet(Filters[p]) : p \in Panels}
Watched == UNION {{p} \X Sensors(p) : p \in Panels}

(* What may be on its way from core 0 or to core 1: of a sensor only its states.  *)
Sent == {m \in [topic : Topics \cup Asked, payload : Payloads, retained : BOOLEAN] :
            m.topic \in SensorTopics => m.retained = TRUE /\ m.payload \in Bits}

(* What may wait in the gInbound of p. *)
Entries(p) ==
    [kind : {"refresh"}] \cup [kind : {"remote"}, row : DOMAIN Rows[p]]
    \cup [kind : {"command"}, topic : Topics \cup Asked, payload : Payloads]

PanelsTypeOK ==
    /\ value \in [Reported -> BOOLEAN]
    /\ picture \in [Watched -> BOOLEAN]
    /\ DOMAIN inq = Panels /\ \A p \in Panels : inq[p] \in Seq(Entries(p))
    /\ outq \in [Panels -> Seq(Sent)] /\ down \in [Panels -> Seq(Sent)]
    /\ phase \in [Panels -> {"away", "subscribe", "serve"}] /\ link \in [Panels -> BOOLEAN]
    /\ step \in [Panels -> Nat] /\ \A p \in Panels : step[p] <= Len(Filters[p])
    /\ retained \in [Asked -> {None} \cup Payloads]
    /\ \A t \in SensorTopics : retained[t] \in {None} \cup Bits

(* What a message, an entry of gInbound and the broker say of sensor t. *)
MessageWord(t) == [m \in Sent |-> IF m.topic = t THEN m.payload ELSE ""]
EntryWord(p, t) ==
    [e \in Entries(p) |-> IF Tells(p, e, t) THEN Payload(Rows[p][e.row].value) ELSE ""]
Word(kept) == IF kept = "1" THEN "1" ELSE "0"

(* To a panel that has asked for a sensor, the broker has sent last what it       *)
(* retains; once that is read it is the last in gInbound, or what the panel last   *)
(* heard.                                                                          *)
OnItsWay(p, t) ==
    Listens(p, t) =>
      /\ Says(down[p], MessageWord(t), Word(retained[t]), Word(retained[t]))
      /\ Quiet(down[p], MessageWord(t)) /\ <<p, t>> \notin missed =>
            Says(inq[p], EntryWord(p, t), Payload(picture[<<p, t>>]), Word(retained[t]))

(* Of a sensor that has not reported yet nobody knows anything. *)
Unheard(p, t) ==
    retained[t] = None =>
        /\ Quiet(down[p], MessageWord(t)) /\ Quiet(inq[p], EntryWord(p, t))
        /\ Payload(picture[<<p, t>>]) = "0"

PanelsInv ==
    /\ PanelsTypeOK
    /\ \A p \in Panels : \A t \in Sensors(p) : OnItsWay(p, t) /\ Unheard(p, t)

-----------------------------------------------------------------------------
(* Messages and entries. *)

LEMMA SensorIsAsked ==
    ASSUME NEW p \in Panels, NEW t \in Sensors(p)
    PROVE  t \in Asked /\ t \in SensorTopics /\ <<p, t>> \in Watched
<1>1. PICK i \in 1..Len(Filters[p]) : Filters[p][i] = {t}
  BY FiltersAre
<1>2. Filters[p][i] \in ToSet(Filters[p])
  BY FiltersAre DEF ToSet
<1>3. t \in UNION ToSet(Filters[p])
  BY <1>1, <1>2
<1>4. QED
  BY <1>3 DEF Asked, SensorTopics, Watched

LEMMA OwnIsReported ==
    ASSUME NEW p \in Panels
    PROVE  /\ RetainedBy(p) \subseteq Reported
           /\ Len(Own[p]) \in Nat /\ \A i \in 1..Len(Own[p]) : Own[p][i] \in Reported
<1>1. Own[p] \in Seq(RetainedBy(p))
  BY TablesAssumption
<1>2. RetainedBy(p) \subseteq Reported
  BY DEF Reported
<1>3. Len(Own[p]) \in Nat /\ \A i \in 1..Len(Own[p]) : Own[p][i] \in RetainedBy(p)
  <2> HIDE DEF RetainedBy
  <2>1. QED
    BY <1>1, LenProperties, ElementOfSeq
<1>4. QED
  BY <1>2, <1>3

LEMMA StateIsSent ==
    ASSUME NEW t \in Reported, NEW v \in BOOLEAN
    PROVE  StateMessage(t, v) \in Sent
<1>1. Payload(v) \in Bits
  BY DEF Payload, Bits
<1>2. QED
  BY <1>1 DEF StateMessage, Message, Sent, Payloads, Topics

LEMMA PressIsSent ==
    ASSUME NEW p \in Panels, NEW t \in Buttons[p], NEW gesture \in Gestures
    PROVE  Message(t, gesture, FALSE) \in Sent
<1>1. t \in Topics /\ gesture \in Payloads
  BY DEF Topics, Payloads
<1>2. t \notin SensorTopics
  BY SensorsAssumption DEF SensorTopics
<1>3. QED
  BY <1>1, <1>2 DEF Message, Sent

LEMMA CommandIsSent ==
    ASSUME NEW m \in Commands
    PROVE  m \in Sent /\ m.topic \notin SensorTopics
<1>1. m.topic \in Topics /\ m.payload \in Payloads
  BY DEF Topics, Payloads
<1>2. m.topic \notin SensorTopics
  BY SensorsAssumption DEF SensorTopics
<1>3. m = Message(m.topic, m.payload, m.retained) /\ m.retained \in BOOLEAN
  BY TablesAssumption
<1>4. m \in [topic : Topics \cup Asked, payload : Payloads, retained : BOOLEAN]
  BY <1>1, <1>3 DEF Message
<1>5. QED
  BY <1>2, <1>4 DEF Sent

(* The row find() returns. *)
LEMMA FoundIs ==
    ASSUME NEW p \in Panels, NEW t, NEW payload, Find(p, t, payload) # {}
    PROVE  LET r == Smallest(Find(p, t, payload))
           IN r \in DOMAIN Rows[p] /\ Rows[p][r].topic = t /\ Rows[p][r].payload = payload
<1> DEFINE S == Find(p, t, payload)
<1>1. S \subseteq DOMAIN Rows[p] /\ S # {}
  BY DEF Find
<1>2. DOMAIN Rows[p] \subseteq Nat
  <2>1. DOMAIN Rows[p] = 1..Len(Rows[p]) /\ Len(Rows[p]) \in Nat
    BY TablesAssumption, LenProperties
  <2>2. QED
    BY <2>1
<1>3. \E r \in S : \A j \in S : r <= j
  <2> HIDE DEF S
  <2>1. QED
    BY <1>1, <1>2, LeastOf
<1>4. Smallest(S) \in S
  <2> HIDE DEF S
  <2>1. QED
    BY <1>3 DEF Smallest
<1>5. QED
  BY <1>4 DEF Find

(* A message becomes one entry or none. *)
LEMMA OnMessageIs ==
    ASSUME NEW p \in Panels, NEW m \in Sent
    PROVE  OnMessage(p, m) = <<>> \/ \E e \in Entries(p) : OnMessage(p, m) = <<e>>
<1>1. m.topic \in Topics \cup Asked /\ m.payload \in Payloads
  BY DEF Sent
<1>2. CASE Find(p, m.topic, m.payload) # {}
  <2> DEFINE r == Smallest(Find(p, m.topic, m.payload))
             e == [kind |-> "remote", row |-> r]
  <2>1. OnMessage(p, m) = <<e>>
    BY <1>2 DEF OnMessage
  <2>2. r \in DOMAIN Rows[p]
    BY <1>2, FoundIs
  <2> HIDE DEF r
  <2>3. e \in Entries(p)
    BY <2>2 DEF Entries
  <2>4. QED
    BY <2>1, <2>3
<1>3. CASE Find(p, m.topic, m.payload) = {}
  <2> DEFINE e == [kind |-> "command", topic |-> m.topic, payload |-> m.payload]
  <2>1. OnMessage(p, m) = <<e>> \/ OnMessage(p, m) = <<>>
    BY <1>3 DEF OnMessage
  <2>2. e \in Entries(p)
    BY <1>1 DEF Entries
  <2>3. QED
    BY <2>1, <2>2
<1>4. QED
  BY <1>2, <1>3

(* Only a sensor's own messages tell of it, and they tell its state. *)
TellsAsItSays(p, t, m) ==
    /\ m.topic = t => \E e \in Entries(p) :
           OnMessage(p, m) = <<e>> /\ Tells(p, e, t) /\ EntryWord(p, t)[e] = m.payload
    /\ m.topic # t => \A e \in Entries(p) :
           OnMessage(p, m) = <<e>> => ~Tells(p, e, t) /\ EntryWord(p, t)[e] = ""

LEMMA MessageTells ==
    ASSUME NEW p \in Panels, NEW t \in Sensors(p), NEW m \in Sent
    PROVE  TellsAsItSays(p, t, m)
<1>1. ASSUME m.topic = t
      PROVE  \E e \in Entries(p) :
                 OnMessage(p, m) = <<e>> /\ Tells(p, e, t) /\ EntryWord(p, t)[e] = m.payload
  <2> DEFINE r == Smallest(Find(p, m.topic, m.payload))
             e == [kind |-> "remote", row |-> r]
  <2>1. m.payload \in Bits
    BY <1>1, SensorIsAsked DEF Sent
  <2>2. Find(p, m.topic, m.payload) # {}
    BY <1>1, <2>1, SensorsAssumption DEF Find, Bits
  <2>3. r \in DOMAIN Rows[p] /\ Rows[p][r].topic = t /\ Rows[p][r].payload = m.payload
    BY <1>1, <2>2, FoundIs
  <2>4. OnMessage(p, m) = <<e>>
    BY <2>2 DEF OnMessage
  <2> HIDE DEF r
  <2>5. Rows[p][r].kind = "edge" /\ Rows[p][r].value = (m.payload = "1")
    BY <2>3, SensorsAssumption
  <2>6. e \in Entries(p) /\ e.kind = "remote" /\ e.row = r
    BY <2>3 DEF Entries
  <2> HIDE DEF e
  <2>7. Tells(p, e, t)
    BY <2>3, <2>5, <2>6 DEF Tells
  <2>8. Payload(Rows[p][r].value) = m.payload
    BY <2>1, <2>5 DEF Payload, Bits
  <2>9. EntryWord(p, t)[e] = m.payload
    BY <2>6, <2>7, <2>8 DEF EntryWord
  <2>10. QED
    BY <2>4, <2>6, <2>7, <2>9
<1>2. ASSUME m.topic # t, NEW e \in Entries(p), OnMessage(p, m) = <<e>>
      PROVE  ~Tells(p, e, t) /\ EntryWord(p, t)[e] = ""
  <2> SUFFICES ~Tells(p, e, t)
    BY DEF EntryWord
  <2>1. CASE Find(p, m.topic, m.payload) # {}
    <3> DEFINE r == Smallest(Find(p, m.topic, m.payload))
    <3>1. Rows[p][r].topic = m.topic
      BY <2>1, FoundIs
    <3>2. e = [kind |-> "remote", row |-> r]
      BY <1>2, <2>1 DEF OnMessage
    <3> HIDE DEF r
    <3>3. QED
      BY <1>2, <3>1, <3>2 DEF Tells
  <2>2. CASE Find(p, m.topic, m.payload) = {}
    <3>1. e.kind = "command"
      <4>1. <<e>> # <<>>
        OBVIOUS
      <4>2. <<e>> = <<[kind |-> "command", topic |-> m.topic, payload |-> m.payload]>>
        BY <1>2, <2>2, <4>1 DEF OnMessage
      <4>3. QED
        BY <4>2
    <3>2. QED
      BY <3>1 DEF Tells
  <2>3. QED
    BY <2>1, <2>2
<1>3. QED
  BY <1>1, <1>2 DEF TellsAsItSays

-----------------------------------------------------------------------------
(* What core 0 puts into gOutbound. *)

LEMMA PushKeepsType ==
    ASSUME PanelsTypeOK, NEW p \in Panels, NEW messages \in Seq(Sent), Push(p, messages)
    PROVE  outq' \in [Panels -> Seq(Sent)]
<1> DEFINE all == outq[p] \o messages
           n == IF Len(all) < OutDepth THEN Len(all) ELSE OutDepth
<1>1. outq[p] \in Seq(Sent)
  BY DEF PanelsTypeOK
<1>2. all \in Seq(Sent)
  BY <1>1, ConcatProperties
<1>3. outq' = [outq EXCEPT ![p] = SubSeq(all, 1, n)]
  BY DEF Push
<1> HIDE DEF all
<1>4. n \in Nat /\ n <= Len(all) /\ Len(all) \in Nat
  BY <1>2, TablesAssumption, LenProperties
<1> HIDE DEF n
<1>5. \A i \in 1..n : all[i] \in Sent
  <2> TAKE i \in 1..n
  <2>1. i \in 1..Len(all)
    BY <1>4
  <2>2. QED
    BY <1>2, <2>1, ElementOfSeq
<1>6. SubSeq(all, 1, n) \in Seq(Sent)
  BY <1>4, <1>5, SubSeqProperties
<1>7. QED
  BY <1>3, <1>6 DEF PanelsTypeOK

LEMMA OneIsSent ==
    ASSUME NEW m \in Sent
    PROVE  <<m>> \in Seq(Sent)
OBVIOUS

LEMMA SetValueKeepsType ==
    ASSUME PanelsTypeOK, NEW p \in Panels, NEW t \in Reported, NEW v \in BOOLEAN, SetValue(p, t, v)
    PROVE  value' \in [Reported -> BOOLEAN] /\ outq' \in [Panels -> Seq(Sent)]
<1>1. CASE value[t] = v
  BY <1>1 DEF SetValue, PanelsTypeOK
<1>2. CASE value[t] # v
  <2>1. value' = [value EXCEPT ![t] = v] /\ Push(p, <<StateMessage(t, v)>>)
    BY <1>2 DEF SetValue
  <2>2. <<StateMessage(t, v)>> \in Seq(Sent)
    BY StateIsSent, OneIsSent
  <2>3. outq' \in [Panels -> Seq(Sent)]
    BY <2>1, <2>2, PushKeepsType
  <2>4. QED
    BY <2>1, <2>3 DEF PanelsTypeOK
<1>3. QED
  BY <1>1, <1>2

LEMMA RefreshIsSent ==
    ASSUME PanelsTypeOK, NEW p \in Panels
    PROVE  Refresh(p) \in Seq(Sent)
<1>1. /\ Len(Own[p]) \in Nat
      /\ \A i \in 1..Len(Own[p]) : StateMessage(Own[p][i], value[Own[p][i]]) \in Sent
  <2>1. Len(Own[p]) \in Nat /\ \A i \in 1..Len(Own[p]) : Own[p][i] \in Reported
    BY OwnIsReported
  <2>2. ASSUME NEW i \in 1..Len(Own[p])
        PROVE  StateMessage(Own[p][i], value[Own[p][i]]) \in Sent
    <3>1. Own[p][i] \in Reported /\ value[Own[p][i]] \in BOOLEAN
      BY <2>1 DEF PanelsTypeOK
    <3>2. QED
      BY <3>1, StateIsSent
  <2>3. QED
    BY <2>1, <2>2
<1>2. QED
  BY <1>1 DEF Refresh

-----------------------------------------------------------------------------
(* Steps that leave what a panel hears alone. *)

(* What the picture of sensor t at panel p depends on. *)
Undisturbed(p, t) ==
    /\ inq'[p] = inq[p] /\ down'[p] = down[p] /\ picture'[<<p, t>>] = picture[<<p, t>>]
    /\ retained'[t] = retained[t] /\ link'[p] = link[p] /\ step'[p] = step[p]
    /\ <<p, t>> \in missed => <<p, t>> \in missed'

LEMMA UndisturbedIsKept ==
    ASSUME NEW p, NEW t, OnItsWay(p, t), Unheard(p, t), Undisturbed(p, t)
    PROVE  OnItsWay(p, t)' /\ Unheard(p, t)'
BY DEF OnItsWay, Unheard, Undisturbed, Listens

(* Nothing but values and gOutbound changes. *)
LEMMA OutsideKeeps ==
    ASSUME PanelsInv, UNCHANGED <<picture, inq, core1, retained, missed>>,
           value' \in [Reported -> BOOLEAN], outq' \in [Panels -> Seq(Sent)]
    PROVE  PanelsInv'
<1>1. PanelsTypeOK'
  BY DEF PanelsInv, PanelsTypeOK, core1
<1>2. ASSUME NEW p \in Panels, NEW t \in Sensors(p)
      PROVE  OnItsWay(p, t)' /\ Unheard(p, t)'
  BY UndisturbedIsKept DEF Undisturbed, PanelsInv, core1
<1>3. QED
  BY <1>1, <1>2 DEF PanelsInv

LEMMA SensorMovesKeeps ==
    ASSUME PanelsInv, NEW p \in Panels, NEW t \in RetainedBy(p), SensorMoves(p, t)
    PROVE  PanelsInv'
<1>1. PanelsTypeOK /\ t \in Reported /\ (~value[t]) \in BOOLEAN
  BY OwnIsReported DEF PanelsInv
<1>2. SetValue(p, t, ~value[t])
  BY DEF SensorMoves
<1>3. value' \in [Reported -> BOOLEAN] /\ outq' \in [Panels -> Seq(Sent)]
  BY <1>1, <1>2, SetValueKeepsType
<1>4. QED
  BY <1>3, OutsideKeeps DEF SensorMoves

LEMMA PressKeeps ==
    ASSUME PanelsInv, NEW p \in Panels, NEW t \in Buttons[p], NEW gesture \in Gestures,
           Press(p, t, gesture)
    PROVE  PanelsInv'
<1>1. <<Message(t, gesture, FALSE)>> \in Seq(Sent)
  BY PressIsSent, OneIsSent
<1>2. outq' \in [Panels -> Seq(Sent)] /\ UNCHANGED core0
  BY <1>1, PushKeepsType DEF Press, PanelsInv
<1>3. QED
  BY <1>2, OutsideKeeps DEF Press, core0, PanelsInv, PanelsTypeOK

LEMMA RowIs ==
    ASSUME NEW p \in Panels, NEW i \in DOMAIN Rows[p]
    PROVE  /\ Rows[p][i].lamp \in Reported
           /\ Rows[p][i].kind = "edge" =>
                 /\ Rows[p][i].topic \in Sensors(p) /\ <<p, Rows[p][i].topic>> \in Watched
                 /\ Rows[p][i].value \in BOOLEAN
<1>1. Rows[p][i].lamp \in Reported
  BY TablesAssumption, OwnIsReported
<1>2. ASSUME Rows[p][i].kind = "edge"
      PROVE  Rows[p][i].topic \in Sensors(p)
  BY <1>2 DEF Sensors
<1>3. ASSUME Rows[p][i].kind = "edge"
      PROVE  <<p, Rows[p][i].topic>> \in Watched /\ Rows[p][i].value \in BOOLEAN
  <2>1. Rows[p][i].topic \in Sensors(p)
    BY <1>2, <1>3
  <2>2. Rows[p][i].value = (Rows[p][i].payload = "1")
    BY <2>1, SensorsAssumption
  <2>3. QED
    BY <2>1, <2>2, SensorIsAsked
<1>4. QED
  BY <1>1, <1>2, <1>3

LEMMA RuleEndsKeeps ==
    ASSUME PanelsInv, NEW p \in Panels, RuleEnds(p)
    PROVE  PanelsInv'
<1>1. PICK i \in DOMAIN Rows[p] :
        /\ \/ SetValue(p, Rows[p][i].lamp, FALSE)
           \/ UNCHANGED <<value, outq, lost>>
        /\ UNCHANGED <<picture, inq, toggles, Untouched>>
  BY DEF RuleEnds
<1>2. value' \in [Reported -> BOOLEAN] /\ outq' \in [Panels -> Seq(Sent)]
  <2>1. CASE SetValue(p, Rows[p][i].lamp, FALSE)
    BY <2>1, RowIs, SetValueKeepsType DEF PanelsInv
  <2>2. CASE UNCHANGED <<value, outq, lost>>
    BY <2>2 DEF PanelsInv, PanelsTypeOK
  <2>3. QED
    BY <1>1, <2>1, <2>2
<1>3. QED
  BY <1>1, <1>2, OutsideKeeps DEF Untouched

-----------------------------------------------------------------------------
(* Core 0 takes an entry from gInbound. *)

LEMMA InvOf ==
    ASSUME PanelsInv
    PROVE  /\ PanelsTypeOK
           /\ \A p \in Panels : inq[p] \in Seq(Entries(p)) /\ down[p] \in Seq(Sent)
           /\ \A p \in Panels : \A t \in Sensors(p) : OnItsWay(p, t) /\ Unheard(p, t)
BY DEF PanelsInv, PanelsTypeOK

LEMMA EntryWordIs ==
    ASSUME NEW p \in Panels, NEW e \in Entries(p), NEW t
    PROVE  EntryWord(p, t)[e] = IF Tells(p, e, t) THEN Payload(Rows[p][e.row].value) ELSE ""
BY DEF EntryWord

LEMMA MessageWordIs ==
    ASSUME NEW m \in Sent, NEW t
    PROVE  MessageWord(t)[m] = IF m.topic = t THEN m.payload ELSE ""
BY DEF MessageWord

(* The types, when core 0 of p works off the head of its queue. *)
LEMMA TakenKeepsType ==
    ASSUME PanelsTypeOK, NEW p \in Panels, Next0(p), UNCHANGED <<core1, retained>>,
           value' \in [Reported -> BOOLEAN], outq' \in [Panels -> Seq(Sent)],
           picture' \in [Watched -> BOOLEAN]
    PROVE  PanelsTypeOK'
<1>1. inq[p] \in Seq(Entries(p)) /\ inq[p] # <<>> /\ inq' = [inq EXCEPT ![p] = Tail(inq[p])]
  BY DEF Next0, PanelsTypeOK
<1>2. Tail(inq[p]) \in Seq(Entries(p))
  BY <1>1, HeadTailProperties
<1>3. DOMAIN inq' = Panels /\ \A q \in Panels : inq'[q] \in Seq(Entries(q))
  BY <1>1, <1>2 DEF PanelsTypeOK
<1>4. QED
  BY <1>3 DEF PanelsTypeOK, core1

(* What the entry tells becomes what the panel has heard. *)
LEMMA TakenIsHeard ==
    ASSUME PanelsInv, NEW p \in Panels, Next0(p), UNCHANGED <<core1, retained, missed>>,
           NEW t \in Sensors(p),
           ~Tells(p, Head(inq[p]), t) => picture'[<<p, t>>] = picture[<<p, t>>],
           Tells(p, Head(inq[p]), t) => picture'[<<p, t>>] = Rows[p][Head(inq[p]).row].value
    PROVE  OnItsWay(p, t)' /\ Unheard(p, t)'
<1>1. /\ inq[p] \in Seq(Entries(p)) /\ inq[p] # <<>> /\ inq'[p] = Tail(inq[p])
      /\ OnItsWay(p, t) /\ Unheard(p, t)
  BY InvOf DEF Next0, PanelsInv, PanelsTypeOK
<1>2. PICK f, q, e : f = EntryWord(p, t) /\ q = inq[p] /\ e = Head(q)
  OBVIOUS
<1>3. /\ e \in Entries(p) /\ f[e] = IF Tells(p, e, t) THEN Payload(Rows[p][e.row].value) ELSE ""
  <2>1. e \in Entries(p)
    BY <1>1, <1>2, HeadTailProperties
  <2>2. QED
    BY <1>2, <2>1, EntryWordIs
<1>4. /\ Quiet(q, f) <=> f[e] = "" /\ Quiet(Tail(q), f)
      /\ f[e] = "" => \A o, v : Says(q, f, o, v) => Says(Tail(q), f, o, v)
      /\ f[e] # "" => \A o, v : Says(q, f, o, v) => Says(Tail(q), f, f[e], v)
  BY <1>1, <1>2, SaysTail
<1>5. Payload(picture'[<<p, t>>]) = IF f[e] = "" THEN Payload(picture[<<p, t>>]) ELSE f[e]
  <2>1. CASE Tells(p, e, t)
    <3>1. f[e] # ""
      BY <1>3, <2>1 DEF Payload
    <3>2. picture'[<<p, t>>] = Rows[p][e.row].value
      BY <1>2, <2>1
    <3>3. QED
      BY <1>3, <2>1, <3>1, <3>2
  <2>2. CASE ~Tells(p, e, t)
    <3>1. f[e] = "" /\ picture'[<<p, t>>] = picture[<<p, t>>]
      BY <1>2, <1>3, <2>2
    <3>2. QED
      BY <3>1
  <2>3. QED
    BY <2>1, <2>2
<1>6. PICK now, was : now = Payload(picture'[<<p, t>>]) /\ was = Payload(picture[<<p, t>>])
  OBVIOUS
<1>7. OnItsWay(p, t)'
  <2>1. \A v : Says(q, f, was, v) => Says(Tail(q), f, now, v)
    BY <1>4, <1>5, <1>6
  <2>2. /\ down' = down /\ retained' = retained /\ missed' = missed
        /\ Listens(p, t)' => Listens(p, t)
    BY DEF core1, Listens
  <2>3. ASSUME Listens(p, t)
        PROVE  /\ Says(down[p], MessageWord(t), Word(retained[t]), Word(retained[t]))
               /\ Quiet(down[p], MessageWord(t)) /\ <<p, t>> \notin missed =>
                     Says(q, f, was, Word(retained[t]))
    BY <1>1, <1>2, <1>6, <2>3 DEF OnItsWay
  <2>4. ASSUME Listens(p, t)'
        PROVE  /\ Says(down'[p], MessageWord(t), Word(retained'[t]), Word(retained'[t]))
               /\ Quiet(down'[p], MessageWord(t)) /\ <<p, t>> \notin missed' =>
                     Says(inq'[p], f, now, Word(retained'[t]))
    BY <1>1, <1>2, <2>1, <2>2, <2>3, <2>4
  <2>5. QED
    BY <1>2, <1>6, <2>4 DEF OnItsWay
<1>8. Unheard(p, t)'
  <2>1. Quiet(q, f) => Quiet(Tail(q), f) /\ now = was
    BY <1>4, <1>5, <1>6
  <2>2. down' = down /\ retained' = retained
    BY DEF core1
  <2>3. retained[t] = None => /\ Quiet(down[p], MessageWord(t)) /\ Quiet(q, f) /\ was = "0"
    BY <1>1, <1>2, <1>6 DEF Unheard
  <2>4. retained'[t] = None => /\ Quiet(down'[p], MessageWord(t)) /\ Quiet(inq'[p], f) /\ now = "0"
    BY <1>1, <1>2, <2>1, <2>2, <2>3
  <2>5. QED
    BY <1>2, <1>6, <2>4 DEF Unheard
<1>9. QED
  BY <1>7, <1>8

(* Another panel hears nothing of it. *)
LEMMA OthersHearNothing ==
    ASSUME PanelsInv, NEW p \in Panels, Next0(p), UNCHANGED <<core1, retained, missed>>,
           NEW q \in Panels, q # p, NEW t \in Sensors(q), picture'[<<q, t>>] = picture[<<q, t>>]
    PROVE  OnItsWay(q, t)' /\ Unheard(q, t)'
<1>1. inq'[q] = inq[q]
  BY InvOf DEF Next0, PanelsTypeOK
<1>2. Undisturbed(q, t)
  BY <1>1 DEF Undisturbed, core1
<1>3. QED
  BY <1>2, InvOf, UndisturbedIsKept

(* An entry that tells of no sensor. *)
LEMMA SilentEntryKeeps ==
    ASSUME PanelsInv, NEW p \in Panels, Next0(p), UNCHANGED <<core1, retained, missed, picture>>,
           \A t \in Sensors(p) : ~Tells(p, Head(inq[p]), t),
           value' \in [Reported -> BOOLEAN], outq' \in [Panels -> Seq(Sent)]
    PROVE  PanelsInv'
<1>1. PanelsTypeOK'
  BY TakenKeepsType DEF PanelsInv, PanelsTypeOK
<1>2. ASSUME NEW q \in Panels, NEW t \in Sensors(q)
      PROVE  OnItsWay(q, t)' /\ Unheard(q, t)'
  BY TakenIsHeard, OthersHearNothing
<1>3. QED
  BY <1>1, <1>2 DEF PanelsInv

LEMMA HandleRefreshKeeps ==
    ASSUME PanelsInv, NEW p \in Panels, HandleRefresh(p)
    PROVE  PanelsInv'
<1>1. outq' \in [Panels -> Seq(Sent)]
  BY InvOf, RefreshIsSent, PushKeepsType DEF HandleRefresh
<1>2. \A t \in Sensors(p) : ~Tells(p, Head(inq[p]), t)
  BY DEF HandleRefresh, Tells
<1>3. value' \in [Reported -> BOOLEAN] /\ UNCHANGED <<core1, retained, missed, picture>>
  BY DEF HandleRefresh, core0, Untouched, PanelsInv, PanelsTypeOK
<1>4. QED
  BY <1>1, <1>2, <1>3, SilentEntryKeeps DEF HandleRefresh

LEMMA HandleCommandKeeps ==
    ASSUME PanelsInv, NEW p \in Panels, HandleCommand(p)
    PROVE  PanelsInv'
<1>1. \/ UNCHANGED <<value, outq, lost>>
      \/ \E t \in RetainedBy(p) : SetValue(p, t, Head(inq[p]).payload = "1")
  BY DEF HandleCommand
<1>2. value' \in [Reported -> BOOLEAN] /\ outq' \in [Panels -> Seq(Sent)]
  <2>1. CASE UNCHANGED <<value, outq, lost>>
    BY <2>1 DEF PanelsInv, PanelsTypeOK
  <2>2. ASSUME NEW t \in RetainedBy(p), SetValue(p, t, Head(inq[p]).payload = "1")
        PROVE  value' \in [Reported -> BOOLEAN] /\ outq' \in [Panels -> Seq(Sent)]
    <3>1. t \in Reported /\ (Head(inq[p]).payload = "1") \in BOOLEAN
      BY OwnIsReported
    <3>2. QED
      BY <2>2, <3>1, InvOf, SetValueKeepsType
  <2>3. QED
    BY <1>1, <2>1, <2>2
<1>3. \A t \in Sensors(p) : ~Tells(p, Head(inq[p]), t)
  BY DEF HandleCommand, Tells
<1>4. UNCHANGED <<core1, retained, missed, picture>> /\ Next0(p)
  BY DEF HandleCommand, Untouched
<1>5. QED
  BY <1>2, <1>3, <1>4, SilentEntryKeeps

LEMMA HandlePressKeeps ==
    ASSUME PanelsInv, NEW p \in Panels, HandlePress(p)
    PROVE  PanelsInv'
<1>1. Head(inq[p]) \in Entries(p) /\ Head(inq[p]).kind = "remote" /\ Next0(p)
  BY InvOf, HeadTailProperties DEF HandlePress, Next0
<1>2. PICK r : r = Head(inq[p]).row
  OBVIOUS
<1>3. r \in DOMAIN Rows[p]
  BY <1>1, <1>2 DEF Entries
<1>4. /\ Rows[p][r].kind = "press"
      /\ SetValue(p, Rows[p][r].lamp, ~value[Rows[p][r].lamp])
  BY <1>2 DEF HandlePress
<1>5. Rows[p][r].lamp \in Reported /\ (~value[Rows[p][r].lamp]) \in BOOLEAN
  BY <1>3, RowIs
<1>6. value' \in [Reported -> BOOLEAN] /\ outq' \in [Panels -> Seq(Sent)]
  BY <1>4, <1>5, InvOf, SetValueKeepsType
<1>7. \A t \in Sensors(p) : ~Tells(p, Head(inq[p]), t)
  BY <1>2, <1>4 DEF Tells
<1>8. UNCHANGED <<core1, retained, missed, picture>>
  BY DEF HandlePress, Untouched
<1>9. QED
  BY <1>1, <1>6, <1>7, <1>8, SilentEntryKeeps

LEMMA HandleEdgeKeeps ==
    ASSUME PanelsInv, NEW p \in Panels, HandleEdge(p)
    PROVE  PanelsInv'
<1>1. Head(inq[p]) \in Entries(p) /\ Head(inq[p]).kind = "remote" /\ Next0(p)
  BY InvOf, HeadTailProperties DEF HandleEdge, Next0
<1>2. PICK r, s : r = Head(inq[p]).row /\ s = Rows[p][r].topic
  OBVIOUS
<1>3. r \in DOMAIN Rows[p]
  BY <1>1, <1>2 DEF Entries
<1>4. /\ Rows[p][r].kind = "edge" /\ picture' = [picture EXCEPT ![<<p, s>>] = Rows[p][r].value]
      /\ SetValue(p, Rows[p][r].lamp, TRUE) \/ UNCHANGED <<value, outq, lost>>
      /\ UNCHANGED <<core1, retained, missed>>
  BY <1>2 DEF HandleEdge, Untouched
<1>5. /\ Rows[p][r].lamp \in Reported /\ s \in Sensors(p) /\ <<p, s>> \in Watched
      /\ Rows[p][r].value \in BOOLEAN
  BY <1>2, <1>3, <1>4, RowIs
<1>6. value' \in [Reported -> BOOLEAN] /\ outq' \in [Panels -> Seq(Sent)]
  <2>1. CASE SetValue(p, Rows[p][r].lamp, TRUE)
    BY <1>5, <2>1, InvOf, SetValueKeepsType
  <2>2. CASE UNCHANGED <<value, outq, lost>>
    BY <2>2 DEF PanelsInv, PanelsTypeOK
  <2>3. QED
    BY <1>4, <2>1, <2>2
<1>7. picture' \in [Watched -> BOOLEAN] /\ DOMAIN picture = Watched
  BY <1>4, <1>5 DEF PanelsInv, PanelsTypeOK
<1>8. PanelsTypeOK'
  BY <1>1, <1>4, <1>6, <1>7, InvOf, TakenKeepsType
<1>9. ASSUME NEW t \in Sensors(p)
      PROVE  OnItsWay(p, t)' /\ Unheard(p, t)'
  <2>1. Tells(p, Head(inq[p]), t) <=> t = s
    BY <1>1, <1>2, <1>4 DEF Tells
  <2>2. Tells(p, Head(inq[p]), t) => picture'[<<p, t>>] = Rows[p][Head(inq[p]).row].value
    BY <1>2, <1>4, <1>5, <1>7, <2>1
  <2>3. ~Tells(p, Head(inq[p]), t) => picture'[<<p, t>>] = picture[<<p, t>>]
    BY <1>4, <1>7, <2>1, SensorIsAsked
  <2>4. QED
    BY <1>1, <1>4, <2>2, <2>3, TakenIsHeard
<1>10. ASSUME NEW q \in Panels, q # p, NEW t \in Sensors(q)
       PROVE  OnItsWay(q, t)' /\ Unheard(q, t)'
  <2>1. picture'[<<q, t>>] = picture[<<q, t>>]
    BY <1>4, <1>7, <1>10, SensorIsAsked
  <2>2. QED
    BY <1>1, <1>4, <1>10, <2>1, OthersHearNothing
<1>11. QED
  BY <1>8, <1>9, <1>10 DEF PanelsInv

-----------------------------------------------------------------------------
(* The broker accepts a message. *)

LEMMA AcceptKeepsType ==
    ASSUME PanelsTypeOK, NEW m \in Sent, Accept(m)
    PROVE  /\ down' \in [Panels -> Seq(Sent)]
           /\ retained' \in [Asked -> {None} \cup Payloads]
           /\ \A t \in SensorTopics : retained'[t] \in {None} \cup Bits
<1>1. \A q \in Panels : down[q] \in Seq(Sent) /\ Append(down[q], m) \in Seq(Sent)
  BY AppendProperties DEF PanelsTypeOK
<1>2. down' \in [Panels -> Seq(Sent)]
  BY <1>1 DEF Accept
<1>3. m.payload \in Payloads /\ (m.topic \in SensorTopics => m.payload \in Bits)
  BY DEF Sent
<1>4. retained' = IF m.retained /\ m.topic \in DOMAIN retained
                  THEN [retained EXCEPT ![m.topic] = m.payload] ELSE retained
  BY DEF Accept
<1>5. retained \in [Asked -> {None} \cup Payloads]
      /\ \A t \in SensorTopics : retained[t] \in {None} \cup Bits
  BY DEF PanelsTypeOK
<1>6. retained' \in [Asked -> {None} \cup Payloads]
  BY <1>3, <1>4, <1>5
<1>7. ASSUME NEW t \in SensorTopics PROVE retained'[t] \in {None} \cup Bits
  BY <1>3, <1>4, <1>5
<1>8. QED
  BY <1>2, <1>6, <1>7

(* What it retains of a sensor, it has sent last to whoever listens. *)
LEMMA AcceptIsOnItsWay ==
    ASSUME PanelsInv, NEW m \in Sent, Accept(m), UNCHANGED <<picture, inq, link, step, missed>>,
           NEW q \in Panels, NEW t \in Sensors(q)
    PROVE  OnItsWay(q, t)' /\ Unheard(q, t)'
<1>1. /\ OnItsWay(q, t) /\ Unheard(q, t) /\ down[q] \in Seq(Sent)
      /\ t \in Asked /\ t \in SensorTopics /\ DOMAIN retained = Asked
  BY InvOf, SensorIsAsked DEF PanelsTypeOK
<1>2. /\ retained' = IF m.retained /\ m.topic \in DOMAIN retained
                     THEN [retained EXCEPT ![m.topic] = m.payload] ELSE retained
      /\ down'[q] = IF Listens(q, m.topic) THEN Append(down[q], m) ELSE down[q]
  BY DEF Accept
<1>3. PICK f, w : f = MessageWord(t) /\ w = IF m.topic = t THEN m.payload ELSE ""
  OBVIOUS
<1>4. /\ f[m] = w
      /\ Quiet(Append(down[q], m), f) <=> Quiet(down[q], f) /\ f[m] = ""
      /\ f[m] = "" => \A o, v : Says(down[q], f, o, v) => Says(Append(down[q], m), f, o, v)
      /\ f[m] # "" => \A o : Says(Append(down[q], m), f, o, f[m])
  BY <1>1, <1>3, MessageWordIs, SaysAppend
<1>5. UNCHANGED <<picture, inq, missed>> /\ (Listens(q, t)' <=> Listens(q, t))
  BY DEF Listens
<1>6. CASE m.topic = t
  <2>1. w = m.payload /\ w \in Bits /\ m.retained = TRUE
    BY <1>1, <1>3, <1>6 DEF Sent
  <2>2. retained'[t] = w /\ w # "" /\ w # None /\ Word(w) = w
    BY <1>1, <1>2, <1>6, <2>1 DEF Bits, None, Word
  <2>3. OnItsWay(q, t)'
    <3> SUFFICES ASSUME Listens(q, t)'
                 PROVE  Says(down'[q], f, Word(retained'[t]), Word(retained'[t])) /\ ~Quiet(down'[q], f)
      BY <1>3 DEF OnItsWay
    <3>1. down'[q] = Append(down[q], m)
      BY <1>2, <1>5, <1>6
    <3>2. QED
      BY <1>4, <2>2, <3>1
  <2>4. Unheard(q, t)'
    BY <2>2 DEF Unheard
  <2>5. QED
    BY <2>3, <2>4
<1>7. CASE m.topic # t
  <2>1. retained'[t] = retained[t] /\ f[m] = ""
    BY <1>1, <1>2, <1>3, <1>4, <1>7
  <2>2. /\ Quiet(down'[q], f) <=> Quiet(down[q], f)
        /\ \A o, v : Says(down[q], f, o, v) => Says(down'[q], f, o, v)
    BY <1>2, <1>4, <2>1
  <2>3. OnItsWay(q, t)'
    BY <1>1, <1>3, <1>5, <2>1, <2>2 DEF OnItsWay
  <2>4. Unheard(q, t)'
    BY <1>1, <1>3, <1>5, <2>1, <2>2 DEF Unheard
  <2>5. QED
    BY <2>3, <2>4
<1>8. QED
  BY <1>6, <1>7

LEMMA HaCommandKeeps ==
    ASSUME PanelsInv, NEW m \in Commands, HaCommand(m)
    PROVE  PanelsInv'
<1>1. m \in Sent /\ Accept(m)
  BY CommandIsSent DEF HaCommand
<1>2. UNCHANGED <<picture, inq, link, step, missed>> /\ UNCHANGED <<core0, inq, outq, phase, link, step>>
  BY DEF HaCommand, core0
<1>3. PanelsTypeOK'
  BY <1>1, <1>2, AcceptKeepsType DEF PanelsInv, PanelsTypeOK, core0
<1>4. ASSUME NEW q \in Panels, NEW t \in Sensors(q)
      PROVE  OnItsWay(q, t)' /\ Unheard(q, t)'
  BY <1>1, <1>2, AcceptIsOnItsWay
<1>5. QED
  BY <1>3, <1>4 DEF PanelsInv

LEMMA PublishKeeps ==
    ASSUME PanelsInv, NEW p \in Panels, Publish(p)
    PROVE  PanelsInv'
<1>1. outq[p] \in Seq(Sent) /\ outq[p] # <<>>
  BY DEF Publish, PanelsInv, PanelsTypeOK
<1>2. Head(outq[p]) \in Sent /\ Tail(outq[p]) \in Seq(Sent)
  BY <1>1, HeadTailProperties
<1>3. /\ Accept(Head(outq[p])) /\ outq' = [outq EXCEPT ![p] = Tail(outq[p])]
      /\ UNCHANGED <<core0, inq, phase, link, step, missed>>
  BY DEF Publish
<1>4. PICK m \in Sent : Accept(m)
  BY <1>2, <1>3
<1>5. PanelsTypeOK'
  <2>1. outq' \in [Panels -> Seq(Sent)]
    BY <1>2, <1>3 DEF PanelsInv, PanelsTypeOK
  <2>2. QED
    BY <1>3, <1>4, <2>1, AcceptKeepsType DEF PanelsInv, PanelsTypeOK, core0
<1>6. ASSUME NEW q \in Panels, NEW t \in Sensors(q)
      PROVE  OnItsWay(q, t)' /\ Unheard(q, t)'
  BY <1>3, <1>4, AcceptIsOnItsWay DEF core0
<1>7. QED
  BY <1>5, <1>6 DEF PanelsInv

-----------------------------------------------------------------------------
(* A connection begins or ends. *)

(* A panel that is not connected has been sent nothing. *)
LEMMA NotConnectedKeeps ==
    ASSUME NEW p, NEW t, Unheard(p, t), ~Listens(p, t)', down'[p] = <<>> \/ down'[p] = down[p],
           inq'[p] = inq[p] \/ inq'[p] = <<>>, retained'[t] = retained[t],
           picture'[<<p, t>>] = picture[<<p, t>>] \/ picture'[<<p, t>>] = FALSE
    PROVE  OnItsWay(p, t)' /\ Unheard(p, t)'
<1>1. OnItsWay(p, t)'
  BY DEF OnItsWay
<1>2. PICK f, g, now, was : /\ f = MessageWord(t) /\ g = EntryWord(p, t)
                            /\ now = Payload(picture'[<<p, t>>]) /\ was = Payload(picture[<<p, t>>])
  OBVIOUS
<1>3. now = was \/ now = "0"
  BY <1>2 DEF Payload
<1>4. Quiet(<<>>, f) /\ Quiet(<<>>, g)
  BY EmptySays
<1>5. retained[t] = None => Quiet(down[p], f) /\ Quiet(inq[p], g) /\ was = "0"
  BY <1>2 DEF Unheard
<1>6. retained'[t] = None => Quiet(down'[p], f) /\ Quiet(inq'[p], g) /\ now = "0"
  BY <1>3, <1>4, <1>5
<1>7. Unheard(p, t)'
  BY <1>2, <1>6 DEF Unheard
<1>8. QED
  BY <1>1, <1>7

LEMMA LeaveIs ==
    ASSUME PanelsTypeOK, NEW p \in Panels, Leave(p)
    PROVE  /\ phase' \in [Panels -> {"away", "subscribe", "serve"}] /\ link' \in [Panels -> BOOLEAN]
           /\ step' \in [Panels -> Nat] /\ \A q \in Panels : step'[q] <= Len(Filters[q])
           /\ down' \in [Panels -> Seq(Sent)]
           /\ link'[p] = FALSE /\ down'[p] = <<>>
           /\ \A q \in Panels : q # p => link'[q] = link[q] /\ step'[q] = step[q] /\ down'[q] = down[q]
<1>1. <<>> \in Seq(Sent) /\ Len(Filters[p]) \in Nat
  BY EmptySeq, FiltersAre
<1>2. step' \in [Panels -> Nat] /\ \A q \in Panels : step'[q] <= Len(Filters[q])
  BY <1>1 DEF Leave, PanelsTypeOK
<1>3. QED
  BY <1>1, <1>2 DEF Leave, PanelsTypeOK

(* The steps that only leave. *)
LEMMA LeavingKeeps ==
    ASSUME PanelsInv, NEW p \in Panels, Leave(p), outq' \in [Panels -> Seq(Sent)],
           UNCHANGED <<core0, inq, retained, missed>>
    PROVE  PanelsInv'
<1>1. PanelsTypeOK'
  BY InvOf, LeaveIs DEF PanelsTypeOK, core0
<1>2. ASSUME NEW q \in Panels, NEW t \in Sensors(q)
      PROVE  OnItsWay(q, t)' /\ Unheard(q, t)'
  <2>1. OnItsWay(q, t) /\ Unheard(q, t) /\ UNCHANGED <<inq, retained, missed, picture>>
    BY InvOf DEF core0
  <2>2. CASE q = p
    <3>1. down'[q] = <<>> /\ ~Listens(q, t)'
      BY <2>2, InvOf, LeaveIs DEF Listens
    <3>2. QED
      BY <2>1, <3>1, NotConnectedKeeps
  <2>3. CASE q # p
    <3>1. Undisturbed(q, t)
      BY <2>1, <2>3, InvOf, LeaveIs DEF Undisturbed
    <3>2. QED
      BY <2>1, <3>1, UndisturbedIsKept
  <2>4. QED
    BY <2>2, <2>3
<1>3. QED
  BY <1>1, <1>2 DEF PanelsInv

LEMMA NoticeDeathKeeps ==
    ASSUME PanelsInv, NEW p \in Panels, NoticeDeath(p)
    PROVE  PanelsInv'
<1>1. outq' \in [Panels -> Seq(Sent)]
  <2>1. CASE UNCHANGED outq
    BY <2>1 DEF PanelsInv, PanelsTypeOK
  <2>2. CASE outq[p] # <<>> /\ outq' = [outq EXCEPT ![p] = Tail(outq[p])]
    <3>1. Tail(outq[p]) \in Seq(Sent)
      BY <2>2, HeadTailProperties DEF PanelsInv, PanelsTypeOK
    <3>2. QED
      BY <2>2, <3>1 DEF PanelsInv, PanelsTypeOK
  <2>3. QED
    BY <2>1, <2>2 DEF NoticeDeath
<1>2. QED
  BY <1>1, LeavingKeeps DEF NoticeDeath, Core1Only

LEMMA ConnectKeeps ==
    ASSUME PanelsInv, NEW p \in Panels, Connect(p)
    PROVE  PanelsInv'
<1>1. /\ phase' = [phase EXCEPT ![p] = "subscribe"] /\ link' = [link EXCEPT ![p] = TRUE]
      /\ step' = [step EXCEPT ![p] = 0] /\ down' = [down EXCEPT ![p] = <<>>]
      /\ outq' = [outq EXCEPT ![p] = <<>>]
      /\ UNCHANGED <<core0, inq, retained, missed>>
  BY DEF Connect, Core1Only
<1>2. <<>> \in Seq(Sent) /\ Len(Filters[p]) \in Nat
  BY EmptySeq, FiltersAre
<1>3. PanelsTypeOK'
  <2>1. step' \in [Panels -> Nat] /\ \A q \in Panels : step'[q] <= Len(Filters[q])
    BY <1>1, <1>2 DEF PanelsInv, PanelsTypeOK
  <2>2. QED
    BY <1>1, <1>2, <2>1 DEF PanelsInv, PanelsTypeOK, core0
<1>4. ASSUME NEW q \in Panels, NEW t \in Sensors(q)
      PROVE  OnItsWay(q, t)' /\ Unheard(q, t)'
  <2>1. /\ OnItsWay(q, t) /\ Unheard(q, t) /\ UNCHANGED <<inq, retained, missed, picture>>
        /\ DOMAIN step = Panels /\ DOMAIN down = Panels /\ DOMAIN link = Panels
    BY <1>1, InvOf DEF core0, PanelsTypeOK
  <2>2. CASE q = p
    <3>1. down'[q] = <<>> /\ step'[q] = 0
      BY <1>1, <2>1, <2>2
    <3>2. ~Listens(q, t)'
      BY <3>1 DEF Listens
    <3>3. QED
      BY <2>1, <3>1, <3>2, NotConnectedKeeps
  <2>3. CASE q # p
    <3>1. Undisturbed(q, t)
      BY <1>1, <2>1, <2>3 DEF Undisturbed
    <3>2. QED
      BY <2>1, <3>1, UndisturbedIsKept
  <2>4. QED
    BY <2>2, <2>3
<1>5. QED
  BY <1>3, <1>4 DEF PanelsInv

LEMMA LinkBreaksKeeps ==
    ASSUME PanelsInv, NEW p \in Panels, LinkBreaks(p)
    PROVE  PanelsInv'
<1>1. /\ link' = [link EXCEPT ![p] = FALSE] /\ down' = [down EXCEPT ![p] = <<>>]
      /\ UNCHANGED <<core0, inq, outq, phase, step, retained, missed>>
  BY DEF LinkBreaks, history
<1>2. <<>> \in Seq(Sent)
  BY EmptySeq
<1>3. PanelsTypeOK'
  BY <1>1, <1>2 DEF PanelsInv, PanelsTypeOK, core0
<1>4. ASSUME NEW q \in Panels, NEW t \in Sensors(q)
      PROVE  OnItsWay(q, t)' /\ Unheard(q, t)'
  <2>1. /\ OnItsWay(q, t) /\ Unheard(q, t) /\ UNCHANGED <<inq, retained, missed, picture, step>>
        /\ DOMAIN down = Panels /\ DOMAIN link = Panels
    BY <1>1, InvOf DEF core0, PanelsTypeOK
  <2>2. CASE q = p
    <3>1. down'[q] = <<>> /\ ~Listens(q, t)'
      BY <1>1, <2>1, <2>2 DEF Listens
    <3>2. QED
      BY <2>1, <3>1, NotConnectedKeeps
  <2>3. CASE q # p
    <3>1. Undisturbed(q, t)
      BY <1>1, <2>1, <2>3 DEF Undisturbed
    <3>2. QED
      BY <2>1, <3>1, UndisturbedIsKept
  <2>4. QED
    BY <2>2, <2>3
<1>5. QED
  BY <1>3, <1>4 DEF PanelsInv

LEMMA PowerCutKeeps ==
    ASSUME PanelsInv, NEW p \in Panels, PowerCut(p)
    PROVE  PanelsInv'
<1>1. /\ Leave(p)
      /\ inq' = [inq EXCEPT ![p] = <<>>] /\ outq' = [outq EXCEPT ![p] = <<>>]
      /\ missed' = {x \in missed : x[1] # p} /\ retained' = retained
  BY DEF PowerCut
<1>2. <<>> \in Seq(Sent) /\ <<>> \in Seq(Entries(p))
  BY EmptySeq
<1>3. value' \in [Reported -> BOOLEAN]
  <2>1. value' = [t \in Reported |-> IF t \notin RetainedBy(p) \/ IsSensor(t) THEN value[t]
                                     ELSE t \in Gates]
    BY DEF PowerCut
  <2>2. \A t \in Reported : value[t] \in BOOLEAN /\ (t \in Gates) \in BOOLEAN
    BY DEF PanelsInv, PanelsTypeOK
  <2>3. QED
    BY <2>1, <2>2
<1>4. /\ picture' \in [Watched -> BOOLEAN]
      /\ \A q \in Panels : \A t \in Sensors(q) :
            picture'[<<q, t>>] = IF q = p THEN FALSE ELSE picture[<<q, t>>]
  <2>1. picture' = [s \in DOMAIN picture |-> s[1] # p /\ picture[s]] /\ picture \in [Watched -> BOOLEAN]
    BY DEF PowerCut, PanelsInv, PanelsTypeOK
  <2>2. ASSUME NEW q \in Panels, NEW t \in Sensors(q)
        PROVE  picture'[<<q, t>>] = IF q = p THEN FALSE ELSE picture[<<q, t>>]
    <3>1. <<q, t>> \in Watched /\ <<q, t>>[1] = q
      BY SensorIsAsked
    <3>2. picture'[<<q, t>>] = (q # p /\ picture[<<q, t>>]) /\ picture[<<q, t>>] \in BOOLEAN
      BY <2>1, <3>1
    <3>3. QED
      BY <3>2
  <2>3. picture' \in [Watched -> BOOLEAN]
    BY <2>1
  <2>4. QED
    BY <2>2, <2>3
<1>5. PanelsTypeOK'
  <2>1. DOMAIN inq' = Panels /\ \A q \in Panels : inq'[q] \in Seq(Entries(q))
    BY <1>1, <1>2 DEF PanelsInv, PanelsTypeOK
  <2>2. outq' \in [Panels -> Seq(Sent)]
    BY <1>1, <1>2 DEF PanelsInv, PanelsTypeOK
  <2>3. /\ phase' \in [Panels -> {"away", "subscribe", "serve"}] /\ link' \in [Panels -> BOOLEAN]
        /\ step' \in [Panels -> Nat] /\ \A q \in Panels : step'[q] <= Len(Filters[q])
        /\ down' \in [Panels -> Seq(Sent)]
    BY <1>1, InvOf, LeaveIs
  <2>4. QED
    BY <1>1, <1>3, <1>4, <2>1, <2>2, <2>3 DEF PanelsInv, PanelsTypeOK
<1>6. ASSUME NEW q \in Panels, NEW t \in Sensors(q)
      PROVE  OnItsWay(q, t)' /\ Unheard(q, t)'
  <2>1. OnItsWay(q, t) /\ Unheard(q, t) /\ DOMAIN inq = Panels
    BY InvOf DEF PanelsTypeOK
  <2>2. CASE q = p
    <3>1. down'[q] = <<>> /\ ~Listens(q, t)'
      BY <1>1, <2>2, InvOf, LeaveIs DEF Listens
    <3>2. inq'[q] = <<>> /\ picture'[<<q, t>>] = FALSE
      BY <1>1, <1>4, <2>1, <2>2
    <3>3. QED
      BY <1>1, <2>1, <3>1, <3>2, NotConnectedKeeps
  <2>3. CASE q # p
    <3>1. link'[q] = link[q] /\ step'[q] = step[q] /\ down'[q] = down[q]
      BY <1>1, <2>3, InvOf, LeaveIs
    <3>2. <<q, t>> \in missed => <<q, t>> \in missed'
      BY <1>1, <2>3
    <3>3. Undisturbed(q, t)
      BY <1>1, <1>4, <2>1, <2>3, <3>1, <3>2 DEF Undisturbed
    <3>4. QED
      BY <2>1, <3>3, UndisturbedIsKept
  <2>4. QED
    BY <2>2, <2>3
<1>7. QED
  BY <1>5, <1>6 DEF PanelsInv

-----------------------------------------------------------------------------
(* Core 1 subscribes and reads. *)

LEMMA EndSettleKeeps ==
    ASSUME PanelsInv, NEW p \in Panels, EndSettle(p)
    PROVE  PanelsInv'
<1> DEFINE ask == [kind |-> "refresh"]
<1>1. /\ phase' = [phase EXCEPT ![p] = "serve"]
      /\ inq' = [inq EXCEPT ![p] = Append(inq[p], ask)] \/ inq' = inq
      /\ UNCHANGED <<core0, outq, link, step, down, retained, missed>>
  BY DEF EndSettle, Core1Only
<1>2. ask \in Entries(p) /\ ask.kind = "refresh"
  BY DEF Entries
<1>3. \A t : EntryWord(p, t)[ask] = ""
  BY <1>2 DEF EntryWord, Tells
<1> HIDE DEF ask
<1>4. PanelsTypeOK'
  <2>1. inq[p] \in Seq(Entries(p)) /\ Append(inq[p], ask) \in Seq(Entries(p))
    BY <1>2, InvOf, AppendProperties
  <2>2. DOMAIN inq' = Panels /\ \A q \in Panels : inq'[q] \in Seq(Entries(q))
    BY <1>1, <2>1 DEF PanelsInv, PanelsTypeOK
  <2>3. QED
    BY <1>1, <2>2 DEF PanelsInv, PanelsTypeOK, core0
<1>5. ASSUME NEW q \in Panels, NEW t \in Sensors(q)
      PROVE  OnItsWay(q, t)' /\ Unheard(q, t)'
  <2>1. /\ OnItsWay(q, t) /\ Unheard(q, t) /\ UNCHANGED <<down, retained, missed, picture, link, step>>
        /\ DOMAIN inq = Panels /\ inq[p] \in Seq(Entries(p))
    BY <1>1, InvOf DEF core0, PanelsTypeOK
  <2>2. CASE inq'[q] = inq[q]
    <3>1. Undisturbed(q, t)
      BY <2>1, <2>2 DEF Undisturbed
    <3>2. QED
      BY <2>1, <3>1, UndisturbedIsKept
  <2>3. CASE q = p /\ inq'[q] = Append(inq[p], ask)
    <3>1. PICK f, old : f = EntryWord(p, t) /\ old = inq[p]
      OBVIOUS
    <3>2. /\ Quiet(inq'[q], f) <=> Quiet(inq[q], f)
          /\ \A o, v : Says(inq[q], f, o, v) => Says(inq'[q], f, o, v)
      <4>1. f[ask] = "" /\ old \in Seq(Entries(p)) /\ inq[q] = old /\ inq'[q] = Append(old, ask)
        BY <1>3, <2>1, <2>3, <3>1
      <4>2. /\ Quiet(Append(old, ask), f) <=> Quiet(old, f) /\ f[ask] = ""
            /\ f[ask] = "" => \A o, v : Says(old, f, o, v) => Says(Append(old, ask), f, o, v)
        BY <1>2, <4>1, SaysAppend
      <4>3. QED
        BY <4>1, <4>2
    <3>3. Listens(q, t)' <=> Listens(q, t)
      BY <2>1 DEF Listens
    <3>4. OnItsWay(q, t)'
      BY <2>1, <2>3, <3>1, <3>2, <3>3 DEF OnItsWay
    <3>5. Unheard(q, t)'
      BY <2>1, <2>3, <3>1, <3>2 DEF Unheard
    <3>6. QED
      BY <3>4, <3>5
  <2>4. inq'[q] = inq[q] \/ (q = p /\ inq'[q] = Append(inq[p], ask))
    BY <1>1, <2>1
  <2>5. QED
    BY <2>2, <2>3, <2>4
<1>6. QED
  BY <1>4, <1>5 DEF PanelsInv

(* What core 1 makes of the next message, and what it misses. *)
LEMMA ReceiveIs ==
    ASSUME PanelsInv, NEW p \in Panels, Receive(p)
    PROVE  \E m \in Sent, entry \in Seq(Entries(p)) :
             /\ m = Head(down[p]) /\ entry = OnMessage(p, m)
             /\ down[p] # <<>> /\ down' = [down EXCEPT ![p] = Tail(down[p])]
             /\ \/ inq' = [inq EXCEPT ![p] = inq[p] \o entry] /\ missed' = missed \ {<<p, m.topic>>}
                \/ inq' = inq /\ entry = <<>> /\ missed' = missed \ {<<p, m.topic>>}
                \/ inq' = inq /\ missed' = missed \cup {<<p, m.topic>>}
             /\ UNCHANGED <<core0, outq, phase, link, step, retained>>
<1>1. PICK m, entry : m = Head(down[p]) /\ entry = OnMessage(p, m)
  OBVIOUS
<1>2. down[p] # <<>> /\ m \in Sent
  BY <1>1, InvOf, HeadTailProperties DEF Receive
<1>3. entry \in Seq(Entries(p))
  <2>1. <<>> \in Seq(Entries(p)) /\ \A e \in Entries(p) : <<e>> \in Seq(Entries(p))
    <3>1. PICK S : S = Entries(p)
      OBVIOUS
    <3>2. <<>> \in Seq(S) /\ \A e \in S : <<e>> \in Seq(S)
      OBVIOUS
    <3>3. QED
      BY <3>1, <3>2
  <2>2. QED
    BY <1>1, <1>2, <2>1, OnMessageIs
<1>4. /\ down' = [down EXCEPT ![p] = Tail(down[p])]
      /\ inq' = IF Room(p) THEN [inq EXCEPT ![p] = inq[p] \o entry] ELSE inq
      /\ missed' = IF Room(p) \/ entry = <<>> THEN missed \ {<<p, m.topic>>}
                   ELSE missed \cup {<<p, m.topic>>}
      /\ UNCHANGED <<core0, outq, phase, link, step, retained>>
  BY <1>1 DEF Receive, Core1Only
<1>5. QED
  BY <1>1, <1>2, <1>3, <1>4

LEMMA ReceiveKeeps ==
    ASSUME PanelsInv, NEW p \in Panels, Receive(p)
    PROVE  PanelsInv'
<1>1. PICK m \in Sent, entry \in Seq(Entries(p)) :
        /\ m = Head(down[p]) /\ entry = OnMessage(p, m)
        /\ down[p] # <<>> /\ down' = [down EXCEPT ![p] = Tail(down[p])]
        /\ \/ inq' = [inq EXCEPT ![p] = inq[p] \o entry] /\ missed' = missed \ {<<p, m.topic>>}
           \/ inq' = inq /\ entry = <<>> /\ missed' = missed \ {<<p, m.topic>>}
           \/ inq' = inq /\ missed' = missed \cup {<<p, m.topic>>}
        /\ UNCHANGED <<core0, outq, phase, link, step, retained>>
  BY ReceiveIs
<1>2. /\ inq[p] \in Seq(Entries(p)) /\ down[p] \in Seq(Sent)
      /\ DOMAIN inq = Panels /\ DOMAIN down = Panels
  BY InvOf DEF PanelsTypeOK
<1>3. PanelsTypeOK'
  <2>1. inq[p] \o entry \in Seq(Entries(p)) /\ Tail(down[p]) \in Seq(Sent)
    BY <1>1, <1>2, ConcatProperties, HeadTailProperties
  <2>2. DOMAIN inq' = Panels /\ \A q \in Panels : inq'[q] \in Seq(Entries(q))
    BY <1>1, <2>1 DEF PanelsInv, PanelsTypeOK
  <2>3. down' \in [Panels -> Seq(Sent)]
    BY <1>1, <2>1 DEF PanelsInv, PanelsTypeOK
  <2>4. QED
    BY <1>1, <2>2, <2>3 DEF PanelsInv, PanelsTypeOK, core0
<1>4. ASSUME NEW t \in Sensors(p)
      PROVE  OnItsWay(p, t)' /\ Unheard(p, t)'
  <2>0. TellsAsItSays(p, t, m)
    BY MessageTells
  <2>1. PICK f, g, word, said, q, d :
          /\ f = MessageWord(t) /\ g = EntryWord(p, t) /\ word = Word(retained[t])
          /\ said = Payload(picture[<<p, t>>]) /\ q = inq[p] /\ d = down[p]
    OBVIOUS
  <2>2. /\ OnItsWay(p, t) /\ Unheard(p, t) /\ t \in SensorTopics
        /\ UNCHANGED <<picture, retained>> /\ (Listens(p, t)' <=> Listens(p, t))
        /\ down'[p] = Tail(d)
    BY <1>1, <1>2, <2>1, InvOf, SensorIsAsked DEF core0, Listens
  <2>3. /\ Quiet(d, f) <=> f[m] = "" /\ Quiet(Tail(d), f)
        /\ f[m] = "" => \A o, v : Says(d, f, o, v) => Says(Tail(d), f, o, v)
        /\ f[m] # "" => \A o, v : Says(d, f, o, v) => Says(Tail(d), f, f[m], v)
    BY <1>1, <1>2, <2>1, SaysTail
  <2>4. /\ retained[t] = None => Quiet(d, f) /\ Quiet(q, g) /\ said = "0"
        /\ Listens(p, t) => /\ Says(d, f, word, word)
                            /\ Quiet(d, f) /\ <<p, t>> \notin missed => Says(q, g, said, word)
    BY <2>1, <2>2 DEF OnItsWay, Unheard
  <2>5. CASE m.topic = t
    <3>1. m.payload \in Bits /\ f[m] = m.payload /\ f[m] # ""
      BY <2>1, <2>2, <2>5, MessageWordIs DEF Sent, Bits
    <3>2. PICK e \in Entries(p) : entry = <<e>> /\ g[e] = m.payload
      <4>1. \E e \in Entries(p) : OnMessage(p, m) = <<e>> /\ EntryWord(p, t)[e] = m.payload
        BY <2>0, <2>5 DEF TellsAsItSays
      <4>2. QED
        BY <1>1, <2>1, <4>1
    <3>3. entry # <<>> /\ q \o entry = Append(q, e)
      BY <1>2, <2>1, <3>2, AppendIsConcat
    <3>4. Says(Append(q, e), g, said, m.payload)
      BY <1>2, <2>1, <3>1, <3>2, SaysAppend
    <3>5. retained[t] # None
      BY <2>3, <2>4, <3>1
    <3>6. Listens(p, t) =>
            /\ Says(Tail(d), f, f[m], word)
            /\ Quiet(Tail(d), f) => m.payload = word
      BY <2>3, <2>4, <3>1 DEF Says
    <3>7. Listens(p, t) => Says(Tail(d), f, word, word)
      BY <3>6 DEF Says
    <3>8. inq'[p] = Append(q, e) \/ <<p, t>> \in missed'
      BY <1>1, <1>2, <2>1, <2>5, <3>3
    <3>9. OnItsWay(p, t)'
      BY <2>1, <2>2, <3>4, <3>6, <3>7, <3>8 DEF OnItsWay
    <3>10. Unheard(p, t)'
      BY <2>2, <3>5 DEF Unheard
    <3>11. QED
      BY <3>9, <3>10
  <2>6. CASE m.topic # t
    <3>1. f[m] = ""
      BY <2>1, <2>6, MessageWordIs
    <3>2. Quiet(entry, g)
      <4>1. CASE entry = <<>>
        BY <4>1, EmptySays
      <4>2. ASSUME NEW e \in Entries(p), entry = <<e>> PROVE Quiet(entry, g)
        <5>1. g[e] = ""
          <6>1. OnMessage(p, m) = <<e>>
            BY <1>1, <4>2
          <6>2. EntryWord(p, t)[e] = ""
            BY <2>0, <2>6, <6>1 DEF TellsAsItSays
          <6>3. QED
            BY <2>1, <6>2
        <5>2. Len(entry) = 1 /\ entry[1] = e
          BY <4>2
        <5>3. ASSUME NEW i \in 1..Len(entry) PROVE g[entry[i]] = ""
          <6>1. i = 1
            BY <5>2
          <6>2. QED
            BY <5>1, <5>2, <6>1
        <5>4. QED
          BY <5>3 DEF Quiet
      <4>3. QED
        BY <1>1, <4>1, <4>2, OnMessageIs
    <3>3. /\ Quiet(q \o entry, g) <=> Quiet(q, g)
          /\ \A o, v : Says(q, g, o, v) => Says(q \o entry, g, o, v)
      BY <1>2, <2>1, <3>2, SaysBehind
    <3>4. inq'[p] = q \o entry \/ inq'[p] = q
      BY <1>1, <1>2, <2>1
    <3>5. <<p, t>> \in missed => <<p, t>> \in missed'
      BY <1>1, <2>6
    <3>6. Listens(p, t) =>
            /\ Says(Tail(d), f, word, word)
            /\ Quiet(Tail(d), f) /\ <<p, t>> \notin missed' => Says(inq'[p], g, said, word)
      BY <2>3, <2>4, <3>1, <3>3, <3>4, <3>5
    <3>7. retained[t] = None => Quiet(Tail(d), f) /\ Quiet(inq'[p], g) /\ said = "0"
      BY <2>3, <2>4, <3>1, <3>3, <3>4
    <3>8. QED
      BY <2>1, <2>2, <3>6, <3>7 DEF OnItsWay, Unheard
  <2>7. QED
    BY <2>5, <2>6
<1>5. ASSUME NEW q \in Panels, q # p, NEW t \in Sensors(q)
      PROVE  OnItsWay(q, t)' /\ Unheard(q, t)'
  <2>1. inq'[q] = inq[q] /\ down'[q] = down[q]
    BY <1>1, <1>2, <1>5
  <2>2. <<q, t>> \in missed => <<q, t>> \in missed'
    BY <1>1, <1>5
  <2>3. Undisturbed(q, t)
    BY <1>1, <2>1, <2>2 DEF Undisturbed, core0
  <2>4. QED
    BY <2>3, InvOf, UndisturbedIsKept
<1>6. QED
  BY <1>3, <1>4, <1>5 DEF PanelsInv

(* What the broker sends on a subscription. *)
Repeats(order) == [i \in DOMAIN order |-> Message(order[i], retained[order[i]], TRUE)]

EachRepeated(kept, order) ==
    /\ Repeats(order) \in Seq(Sent)
    /\ Len(Repeats(order)) = Cardinality(kept)
    /\ \A i \in 1..Cardinality(kept) :
          order[i] \in kept /\ Repeats(order)[i] = Message(order[i], retained[order[i]], TRUE)

LEMMA RepeatsAre ==
    ASSUME PanelsInv, NEW p \in Panels, NEW k \in 1..Len(Filters[p]), NEW kept, NEW order,
           kept = {t \in Filters[p][k] : retained[t] # None}, order \in SetToSeqs(kept)
    PROVE  EachRepeated(kept, order)
<1> DEFINE n == Cardinality(kept)
<1>1. n \in Nat
  <2>1. IsFiniteSet(Filters[p][k]) /\ kept \in SUBSET Filters[p][k]
    BY FiltersAre
  <2>2. QED
    BY <2>1, FS_Subset, FS_CardinalityType
<1>2. order \in [1..n -> kept]
  BY DEF SetToSeqs
<1> HIDE DEF n
<1>3. ASSUME NEW i \in 1..n
      PROVE  order[i] \in kept /\ Message(order[i], retained[order[i]], TRUE) \in Sent
  <2>1. PICK t \in kept : t = order[i]
    BY <1>2
  <2>2. t \in Asked
    <3>1. Filters[p][k] \in ToSet(Filters[p])
      BY FiltersAre DEF ToSet
    <3>2. t \in UNION ToSet(Filters[p])
      BY <3>1
    <3>3. QED
      BY <3>2 DEF Asked
  <2>3. /\ retained[t] \in Payloads
        /\ t \in SensorTopics => retained[t] \in Bits
    BY <2>2 DEF PanelsInv, PanelsTypeOK
  <2>4. Message(t, retained[t], TRUE) \in Sent
    BY <2>2, <2>3 DEF Message, Sent
  <2>5. QED
    BY <1>2, <2>1, <2>4
<1>4. /\ Repeats(order) = [i \in 1..n |-> Message(order[i], retained[order[i]], TRUE)]
  BY <1>2 DEF Repeats
<1>5. Repeats(order) \in Seq(Sent) /\ Len(Repeats(order)) = n
  <2>1. PICK e : e = [i \in 1..n |-> Message(order[i], retained[order[i]], TRUE)]
    OBVIOUS
  <2>2. e \in [1..n -> Sent]
    BY <1>3, <2>1
  <2>3. e \in Seq(Sent) /\ Len(e) = n
    BY <1>1, <2>2
  <2>4. QED
    BY <1>4, <2>1, <2>3
<1>6. QED
  BY <1>3, <1>4, <1>5 DEF n, EachRepeated

LEMMA QuietSays ==
    ASSUME NEW q, NEW f, NEW v, Quiet(q, f)
    PROVE  Says(q, f, v, v)
BY DEF Quiet, Says

LEMMA SubscribeIs ==
    ASSUME PanelsInv, NEW p \in Panels, Subscribe(p), link[p]
    PROVE  \E k, kept, order :
             /\ k \in 1..Len(Filters[p]) /\ k = step[p] + 1
             /\ kept = {t \in Filters[p][k] : retained[t] # None}
             /\ order \in SetToSeqs(kept)
             /\ down' = [down EXCEPT ![p] = down[p] \o Repeats(order)]
             /\ step' = [step EXCEPT ![p] = k]
             /\ UNCHANGED <<core0, inq, outq, phase, link, retained, missed>>
<1>1. PICK k, kept : k = step[p] + 1 /\ kept = {t \in Filters[p][k] : retained[t] # None}
  OBVIOUS
<1>2. k \in 1..Len(Filters[p])
  <2>1. step[p] \in Nat /\ Len(Filters[p]) \in Nat /\ step[p] <= Len(Filters[p])
    BY FiltersAre DEF PanelsInv, PanelsTypeOK
  <2>2. step[p] # Len(Filters[p])
    BY DEF Subscribe, Subscribed
  <2>3. QED
    BY <1>1, <2>1, <2>2
<1>3. /\ \E order \in SetToSeqs(kept) : down' = [down EXCEPT ![p] = down[p] \o Repeats(order)]
      /\ step' = [step EXCEPT ![p] = k]
      /\ UNCHANGED <<core0, inq, outq, phase, link, retained, missed>>
  BY <1>1 DEF Subscribe, Repeats, Core1Only
<1>4. QED
  BY <1>1, <1>2, <1>3

LEMMA SubscribeKeeps ==
    ASSUME PanelsInv, NEW p \in Panels, Subscribe(p)
    PROVE  PanelsInv'
<1>1. CASE ~link[p]
  <2>1. Leave(p) /\ UNCHANGED <<core0, inq, outq, retained, missed>>
    BY <1>1 DEF Subscribe, Core1Only
  <2>2. outq' \in [Panels -> Seq(Sent)]
    BY <2>1 DEF PanelsInv, PanelsTypeOK
  <2>3. QED
    BY <2>1, <2>2, LeavingKeeps
<1>2. CASE link[p]
  <2>1. PICK k, kept, order :
          /\ k \in 1..Len(Filters[p]) /\ k = step[p] + 1
          /\ kept = {t \in Filters[p][k] : retained[t] # None}
          /\ order \in SetToSeqs(kept)
          /\ down' = [down EXCEPT ![p] = down[p] \o Repeats(order)]
          /\ step' = [step EXCEPT ![p] = k]
          /\ UNCHANGED <<core0, inq, outq, phase, link, retained, missed>>
    BY <1>2, SubscribeIs
  <2>2. PICK new : new = Repeats(order)
    OBVIOUS
  <2>3. /\ new \in Seq(Sent) /\ Len(new) = Cardinality(kept)
        /\ \A i \in 1..Cardinality(kept) :
              order[i] \in kept /\ new[i] = Message(order[i], retained[order[i]], TRUE)
    <3>1. EachRepeated(kept, order)
      BY <2>1, RepeatsAre
    <3>2. QED
      BY <2>2, <3>1 DEF EachRepeated
  <2>4. /\ down[p] \in Seq(Sent) /\ down[p] \o new \in Seq(Sent)
        /\ DOMAIN down = Panels /\ DOMAIN step = Panels /\ step[p] \in Nat
        /\ Len(Filters[p]) \in Nat
    BY <2>3, InvOf, ConcatProperties, FiltersAre DEF PanelsTypeOK
  <2>5. PanelsTypeOK'
    <3>1. step' \in [Panels -> Nat] /\ \A q \in Panels : step'[q] <= Len(Filters[q])
      BY <2>1, <2>4 DEF PanelsInv, PanelsTypeOK
    <3>2. down' \in [Panels -> Seq(Sent)]
      BY <2>1, <2>2, <2>4 DEF PanelsInv, PanelsTypeOK
    <3>3. QED
      BY <2>1, <3>1, <3>2 DEF PanelsInv, PanelsTypeOK, core0
  <2>6. ASSUME NEW q \in Panels, q # p, NEW t \in Sensors(q)
        PROVE  OnItsWay(q, t)' /\ Unheard(q, t)'
    <3>1. Undisturbed(q, t)
      BY <2>1, <2>4, <2>6 DEF Undisturbed, core0
    <3>2. QED
      BY <3>1, InvOf, UndisturbedIsKept
  <2>7. ASSUME NEW t \in Sensors(p)
        PROVE  OnItsWay(p, t)' /\ Unheard(p, t)'
    <3>1. PICK f, g, word, said, q, d :
            /\ f = MessageWord(t) /\ g = EntryWord(p, t) /\ word = Word(retained[t])
            /\ said = Payload(picture[<<p, t>>]) /\ q = inq[p] /\ d = down[p]
      OBVIOUS
    <3>2. /\ OnItsWay(p, t) /\ Unheard(p, t) /\ t \in SensorTopics
          /\ UNCHANGED <<inq, picture, retained, missed, link>>
          /\ down'[p] = d \o new /\ step'[p] = k
      BY <2>1, <2>2, <2>4, <3>1, InvOf, SensorIsAsked DEF core0
    <3>3. /\ retained[t] = None => Quiet(d, f) /\ Quiet(q, g) /\ said = "0"
          /\ Listens(p, t) => /\ Says(d, f, word, word)
                              /\ Quiet(d, f) /\ <<p, t>> \notin missed => Says(q, g, said, word)
      BY <3>1, <3>2 DEF OnItsWay, Unheard
    <3>4. ASSUME Quiet(new, f)
          PROVE  /\ Quiet(d \o new, f) <=> Quiet(d, f)
                 /\ \A o, v : Says(d, f, o, v) => Says(d \o new, f, o, v)
      BY <2>3, <2>4, <3>1, <3>4, SaysBehind
    <3>5. CASE t \notin Filters[p][k]
      <4>1. Quiet(new, f)
        <5>1. ASSUME NEW i \in 1..Len(new) PROVE f[new[i]] = ""
          <6>1. new[i].topic # t
            BY <2>1, <2>3, <3>5 DEF Message
          <6>2. new[i] \in Sent
            BY <2>3, ElementOfSeq
          <6>3. QED
            BY <3>1, <6>1, <6>2, MessageWordIs
        <5>2. QED
          BY <5>1 DEF Quiet
      <4>2. Listens(p, t)' => Listens(p, t)
        <5>1. ASSUME NEW i \in 1..k, t \in Filters[p][i]
              PROVE  i \in 1..step[p]
          BY <2>1, <2>4, <3>5, <5>1
        <5>2. QED
          BY <3>2, <5>1 DEF Listens
      <4>3. OnItsWay(p, t)'
        BY <3>1, <3>2, <3>3, <3>4, <4>1, <4>2 DEF OnItsWay
      <4>4. Unheard(p, t)'
        BY <3>1, <3>2, <3>3, <3>4, <4>1 DEF Unheard
      <4>5. QED
        BY <4>3, <4>4
    <3>6. CASE t \in Filters[p][k] /\ retained[t] = None
      <4>1. kept = {}
        BY <2>1, <3>6, FiltersAre
      <4>2. Quiet(new, f)
        BY <2>3, <4>1, FS_EmptySet DEF Quiet
      <4>3. Quiet(d \o new, f) /\ Quiet(q, g) /\ said = "0" /\ word = "0"
        BY <3>1, <3>3, <3>4, <3>6, <4>2 DEF Word, None
      <4>4. Says(d \o new, f, word, word) /\ Says(q, g, said, word)
        BY <4>3, QuietSays
      <4>5. OnItsWay(p, t)'
        BY <3>1, <3>2, <4>4 DEF OnItsWay
      <4>6. Unheard(p, t)'
        BY <3>1, <3>2, <4>3 DEF Unheard
      <4>7. QED
        BY <4>5, <4>6
    <3>7. CASE t \in Filters[p][k] /\ retained[t] # None
      <4>1. kept = {t}
        BY <2>1, <3>7, FiltersAre
      <4>2. PICK m : m = Message(t, retained[t], TRUE)
        OBVIOUS
      <4>3. Len(new) = 1 /\ new[1] = m
        <5>1. Cardinality(kept) = 1
          <6>1. Cardinality({t}) = 1
            BY SingletonIs
          <6>2. QED
            BY <4>1, <6>1
        <5>2. 1 \in 1..1
          OBVIOUS
        <5>3. order[1] = t
          BY <2>3, <4>1, <5>1, <5>2
        <5>4. QED
          BY <2>3, <4>2, <5>1, <5>2, <5>3
      <4>4. m \in Sent /\ new = <<m>>
        <5>1. m \in Sent
          <6>1. 1 \in 1..Len(new)
            BY <4>3
          <6>2. QED
            BY <2>3, <4>3, <6>1, ElementOfSeq
        <5>2. QED
          BY <2>3, <4>3, <5>1
      <4>5. d \o new = Append(d, m)
        BY <2>4, <3>1, <4>4, AppendIsConcat
      <4>6. retained[t] \in Bits
        BY <3>2, <3>7, InvOf DEF PanelsTypeOK
      <4>7. f[m] = word /\ f[m] # ""
        <5>1. m.topic = t /\ m.payload = retained[t]
          BY <4>2 DEF Message
        <5>2. QED
          BY <3>1, <4>4, <4>6, <5>1, MessageWordIs DEF Word, Bits
      <4>8. Says(d \o new, f, word, word) /\ ~Quiet(d \o new, f)
        <5>1. d \in Seq(Sent)
          BY <2>4, <3>1
        <5>2. /\ Quiet(Append(d, m), f) <=> Quiet(d, f) /\ f[m] = ""
              /\ f[m] # "" => \A o : Says(Append(d, m), f, o, f[m])
          BY <4>4, <5>1, SaysAppend
        <5>3. QED
          BY <4>5, <4>7, <5>2
      <4>9. OnItsWay(p, t)'
        BY <3>1, <3>2, <4>8 DEF OnItsWay
      <4>10. Unheard(p, t)'
        BY <3>2, <3>7 DEF Unheard
      <4>11. QED
        BY <4>9, <4>10
    <3>8. QED
      BY <3>5, <3>6, <3>7
  <2>8. QED
    BY <2>5, <2>6, <2>7 DEF PanelsInv
<1>3. QED
  BY <1>1, <1>2

-----------------------------------------------------------------------------
(* Together. *)

LEMMA PanelsInitInv == PanelsInit => PanelsInv
<1> SUFFICES ASSUME PanelsInit PROVE PanelsInv
  OBVIOUS
<1>1. PanelsTypeOK
  <2>1. picture \in [Watched -> BOOLEAN]
    BY DEF PanelsInit, Watched
  <2>2. value \in [Reported -> BOOLEAN]
    BY DEF PanelsInit
  <2>3. DOMAIN inq = Panels /\ \A p \in Panels : inq[p] \in Seq(Entries(p))
    BY EmptySeq DEF PanelsInit
  <2>4. outq \in [Panels -> Seq(Sent)] /\ down \in [Panels -> Seq(Sent)]
    BY EmptySeq DEF PanelsInit
  <2>5. /\ phase \in [Panels -> {"away", "subscribe", "serve"}] /\ link \in [Panels -> BOOLEAN]
        /\ step \in [Panels -> Nat]
    BY DEF PanelsInit
  <2>6. \A p \in Panels : step[p] <= Len(Filters[p])
    BY FiltersAre DEF PanelsInit
  <2>7. /\ retained \in [Asked -> {None} \cup Payloads]
        /\ \A t \in SensorTopics : retained[t] \in {None} \cup Bits
    <3>1. retained = [t \in Asked |-> None]
      BY DEF PanelsInit, Asked
    <3>2. SensorTopics \subseteq Asked
      BY SensorIsAsked DEF SensorTopics
    <3>3. QED
      BY <3>1, <3>2
  <2>8. QED
    BY <2>1, <2>2, <2>3, <2>4, <2>5, <2>6, <2>7 DEF PanelsTypeOK
<1>2. ASSUME NEW p \in Panels, NEW t \in Sensors(p)
      PROVE  OnItsWay(p, t) /\ Unheard(p, t)
  <2>1. link[p] = FALSE /\ down[p] = <<>> /\ inq[p] = <<>>
    BY DEF PanelsInit
  <2>2. picture[<<p, t>>] = FALSE
    BY SensorIsAsked DEF PanelsInit, Watched
  <2>3. OnItsWay(p, t)
    BY <2>1 DEF OnItsWay, Listens
  <2>4. Unheard(p, t)
    BY <2>1, <2>2, EmptySays DEF Unheard, Payload
  <2>5. QED
    BY <2>3, <2>4
<1>3. QED
  BY <1>1, <1>2 DEF PanelsInv

LEMMA StillKeeps ==
    ASSUME PanelsInv, UNCHANGED vars
    PROVE  PanelsInv'
<1>1. UNCHANGED <<picture, inq, core1, retained, missed>> /\ UNCHANGED <<value, outq>>
  BY DEF vars, core0, history
<1>2. QED
  BY <1>1, OutsideKeeps DEF PanelsInv, PanelsTypeOK

LEMMA PanelsStep == PanelsInv /\ [Next]_vars => PanelsInv'
<1> SUFFICES ASSUME PanelsInv, [Next]_vars PROVE PanelsInv'
  OBVIOUS
<1>1. CASE UNCHANGED vars
  BY <1>1, StillKeeps
<1>2. ASSUME NEW p \in Panels, Core0(p) PROVE PanelsInv'
  BY <1>2, HandleRefreshKeeps, HandleCommandKeeps, HandlePressKeeps, HandleEdgeKeeps, RuleEndsKeeps
     DEF Core0
<1>3. ASSUME NEW p \in Panels, Core1(p) PROVE PanelsInv'
  BY <1>3, ConnectKeeps, SubscribeKeeps, EndSettleKeeps, ReceiveKeeps, PublishKeeps, NoticeDeathKeeps
     DEF Core1
<1>4. ASSUME NEW p \in Panels, Inputs(p) PROVE PanelsInv'
  <2>1. ASSUME NEW t \in Buttons[p], NEW g \in Gestures, Press(p, t, g) PROVE PanelsInv'
    BY <2>1, PressKeeps
  <2>2. ASSUME NEW t \in RetainedBy(p), SensorMoves(p, t) PROVE PanelsInv'
    BY <2>2, SensorMovesKeeps
  <2>3. CASE LinkBreaks(p)
    BY <2>3, LinkBreaksKeeps
  <2>4. CASE PowerCut(p)
    BY <2>4, PowerCutKeeps
  <2>5. QED
    BY <1>4, <2>1, <2>2, <2>3, <2>4 DEF Inputs
<1>5. ASSUME NEW m \in Commands, HaCommand(m) PROVE PanelsInv'
  BY <1>5, HaCommandKeeps
<1>6. QED
  BY <1>1, <1>2, <1>3, <1>4, <1>5 DEF Next

(* The inductive invariant holds: what each panel that has asked for a sensor is  *)
(* still to hear of it ends in what the broker has retained (onMessage,           *)
(* connectSession, publishNow).                                                   *)
THEOREM PanelsInvariantHolds == Spec => []PanelsInv
<1>1. PanelsInit => PanelsInv
  BY PanelsInitInv
<1>2. PanelsInv /\ [Next]_vars => PanelsInv'
  BY PanelsStep
<1>3. QED
  BY <1>1, <1>2, PTL DEF Spec

-----------------------------------------------------------------------------
(* What a panel will think. *)

Worded(q, f) == {i \in 1..Len(q) : f[q[i]] # ""}

EndsIn(q, f, o, v) ==
    LET T == Worded(q, f)
    IN /\ T # {} => Max(T) \in 1..Len(q) /\ f[q[Max(T)]] # "" /\ f[q[Max(T)]] = v
       /\ T = {} => Quiet(q, f) /\ o = v

LEMMA LastHasTheWord ==
    ASSUME NEW S, NEW q \in Seq(S), NEW f, NEW o, NEW v, Says(q, f, o, v)
    PROVE  EndsIn(q, f, o, v)
<1>. PICK T : T = Worded(q, f)
  OBVIOUS
<1>5. T = {i \in 1..Len(q) : f[q[i]] # ""}
  BY DEF Worded
<1>1. Len(q) \in Nat /\ T \in SUBSET (1..Len(q))
  BY <1>5, LenProperties
<1>2. ASSUME T # {}
      PROVE  Max(T) \in 1..Len(q) /\ f[q[Max(T)]] # "" /\ f[q[Max(T)]] = v
  <2>1. PICK i : i = Max(T)
    OBVIOUS
  <2>2. i \in T /\ \A j \in T : i >= j
    BY <1>1, <1>2, <2>1, GreatestOf
  <2>3. i \in 1..Len(q) /\ f[q[i]] # ""
    BY <1>5, <2>2
  <2>4. ASSUME NEW j \in i + 1..Len(q) PROVE f[q[j]] = ""
    <3>1. PICK n \in Nat : n = Len(q)
      BY <1>1
    <3>2. i \in 1..n /\ j \in i + 1..n
      BY <2>3, <3>1
    <3>3. j \in 1..n /\ ~(i >= j)
      BY <3>2
    <3>4. QED
      BY <1>5, <2>2, <3>1, <3>3
  <2>5. f[q[i]] = v
    BY <2>3, <2>4 DEF Says
  <2>6. QED
    BY <2>1, <2>3, <2>5
<1>3. ASSUME T = {} PROVE Quiet(q, f) /\ o = v
  BY <1>3, <1>5 DEF Quiet, Says
<1>4. QED
  BY <1>2, <1>3 DEF EndsIn

(* An entry that has a word tells, and tells what its row says. *)
TellsItsRow(p, t, e) ==
    /\ Tells(p, e, t) <=> EntryWord(p, t)[e] # ""
    /\ Tells(p, e, t) => Rows[p][e.row].value = (EntryWord(p, t)[e] = "1")

LEMMA TellingEntry ==
    ASSUME NEW p \in Panels, NEW t, NEW e \in Entries(p)
    PROVE  TellsItsRow(p, t, e)
<1>1. EntryWord(p, t)[e] = IF Tells(p, e, t) THEN Payload(Rows[p][e.row].value) ELSE ""
  BY EntryWordIs
<1>2. ASSUME Tells(p, e, t) PROVE Rows[p][e.row].value \in BOOLEAN
  <2>1. e.kind = "remote" /\ Rows[p][e.row].kind = "edge"
    BY <1>2 DEF Tells
  <2>2. e.row \in DOMAIN Rows[p]
    BY <2>1 DEF Entries
  <2>3. QED
    BY <2>1, <2>2, RowIs
<1>3. QED
  BY <1>1, <1>2 DEF Payload, TellsItsRow

LEMMA ForeseesTheLast ==
    ASSUME PanelsInv, NEW p \in Panels, NEW t \in Sensors(p), Listens(p, t), <<p, t>> \notin missed
    PROVE  Foresees(p, t) = (retained[t] = "1")
<1>1. PICK f, g, word, said, q, d :
        /\ f = MessageWord(t) /\ g = EntryWord(p, t) /\ word = Word(retained[t])
        /\ said = Payload(picture[<<p, t>>]) /\ q = inq[p] /\ d = down[p]
  OBVIOUS
<1>2. /\ q \in Seq(Entries(p)) /\ d \in Seq(Sent) /\ OnItsWay(p, t)
      /\ picture[<<p, t>>] \in BOOLEAN
  BY <1>1, InvOf, SensorIsAsked DEF PanelsTypeOK
<1>3. Says(d, f, word, word) /\ (Quiet(d, f) => Says(q, g, said, word))
  BY <1>1, <1>2 DEF OnItsWay
<1>4. (word = "1") = (retained[t] = "1")
  BY <1>1 DEF Word
<1>5. PICK coming, waiting :
        /\ coming = {i \in 1..Len(d) : f[d[i]] # ""}
        /\ waiting = {i \in 1..Len(q) : g[q[i]] # ""}
  OBVIOUS
<1>13. coming = Worded(d, f) /\ waiting = Worded(q, g)
  BY <1>5 DEF Worded
<1>14. EndsIn(d, f, word, word)
  BY <1>2, <1>3, LastHasTheWord
<1>15. Says(q, g, said, word) => EndsIn(q, g, said, word)
  BY <1>2, LastHasTheWord
<1>6. coming = {i \in DOMAIN d : \E e \in ToSet(OnMessage(p, d[i])) : Tells(p, e, t)}
  <2>1. DOMAIN d = 1..Len(d)
    BY <1>2, LenProperties
  <2>2. ASSUME NEW i \in 1..Len(d)
        PROVE  f[d[i]] # "" <=> \E e \in ToSet(OnMessage(p, d[i])) : Tells(p, e, t)
    <3>1. PICK m : m = d[i]
      OBVIOUS
    <3>2. m \in Sent /\ f[m] = IF m.topic = t THEN m.payload ELSE ""
      BY <1>1, <1>2, <3>1, ElementOfSeq, MessageWordIs
    <3>3. TellsAsItSays(p, t, m)
      BY <3>2, MessageTells
    <3>4. CASE m.topic = t
      <4>1. PICK e \in Entries(p) : OnMessage(p, m) = <<e>> /\ Tells(p, e, t)
        BY <3>3, <3>4 DEF TellsAsItSays
      <4>2. e \in ToSet(OnMessage(p, m))
        BY <4>1 DEF ToSet
      <4>3. m.payload \in Bits
        BY <3>2, <3>4, SensorIsAsked DEF Sent
      <4>4. f[m] # ""
        BY <3>2, <3>4, <4>3 DEF Bits
      <4>5. QED
        BY <3>1, <4>1, <4>2, <4>4
    <3>5. CASE m.topic # t
      <4>1. ASSUME NEW x \in ToSet(OnMessage(p, m)) PROVE ~Tells(p, x, t)
        <5>1. OnMessage(p, m) # <<>>
          BY DEF ToSet
        <5>2. PICK e \in Entries(p) : OnMessage(p, m) = <<e>>
          BY <3>2, <5>1, OnMessageIs
        <5>3. x = e
          BY <5>2 DEF ToSet
        <5>4. QED
          BY <3>3, <3>5, <5>2, <5>3 DEF TellsAsItSays
      <4>2. QED
        BY <3>1, <3>2, <3>5, <4>1
    <3>6. QED
      BY <3>4, <3>5
  <2>3. QED
    BY <1>5, <2>1, <2>2
<1>7. waiting = {i \in DOMAIN q : Tells(p, q[i], t)}
  <2>1. DOMAIN q = 1..Len(q)
    BY <1>2, LenProperties
  <2>2. ASSUME NEW i \in 1..Len(q) PROVE g[q[i]] # "" <=> Tells(p, q[i], t)
    <3>1. q[i] \in Entries(p)
      BY <1>2, ElementOfSeq
    <3>2. QED
      BY <1>1, <3>1, TellingEntry DEF TellsItsRow
  <2>3. QED
    BY <1>5, <2>1, <2>2
<1>8. Foresees(p, t) =
        IF coming # {} THEN Rows[p][OnMessage(p, d[Max(coming)])[1].row].value
        ELSE IF waiting # {} THEN Rows[p][q[Max(waiting)].row].value
        ELSE picture[<<p, t>>]
  BY <1>1, <1>6, <1>7 DEF Foresees
<1>9. CASE coming # {}
  <2>1. PICK m : m = d[Max(coming)]
    OBVIOUS
  <2>2. Max(coming) \in 1..Len(d) /\ f[m] # "" /\ f[m] = word
    BY <1>9, <1>13, <1>14, <2>1 DEF EndsIn
  <2>3. m \in Sent
    BY <1>2, <2>1, <2>2, ElementOfSeq
  <2>4. m.topic = t /\ m.payload = word
    BY <1>1, <2>2, <2>3, MessageWordIs
  <2>5. TellsAsItSays(p, t, m)
    BY <2>3, MessageTells
  <2>6. PICK e \in Entries(p) : OnMessage(p, m) = <<e>> /\ Tells(p, e, t) /\ EntryWord(p, t)[e] = word
    BY <2>4, <2>5 DEF TellsAsItSays
  <2>7. Rows[p][e.row].value = (word = "1")
    BY <2>6, TellingEntry DEF TellsItsRow
  <2>8. OnMessage(p, m)[1] = e
    BY <2>6
  <2>9. QED
    BY <1>4, <1>8, <1>9, <2>1, <2>7, <2>8
<1>10. CASE coming = {} /\ waiting # {}
  <2>1. PICK e : e = q[Max(waiting)]
    OBVIOUS
  <2>2. Says(q, g, said, word)
    BY <1>3, <1>10, <1>13, <1>14 DEF EndsIn
  <2>3. Max(waiting) \in 1..Len(q) /\ g[e] # "" /\ g[e] = word
    BY <1>10, <1>13, <1>15, <2>1, <2>2 DEF EndsIn
  <2>4. e \in Entries(p)
    <3>1. q \in Seq(Entries(p)) /\ Max(waiting) \in 1..Len(q)
      BY <1>2, <2>3
    <3>2. QED
      BY <2>1, <3>1, ElementOfSeq
  <2>5. Rows[p][e.row].value = (word = "1")
    <3>1. TellsItsRow(p, t, e)
      BY <2>4, TellingEntry
    <3>2. EntryWord(p, t)[e] # "" /\ EntryWord(p, t)[e] = word
      BY <1>1, <2>3
    <3>3. QED
      BY <3>1, <3>2 DEF TellsItsRow
  <2>6. QED
    BY <1>4, <1>8, <1>10, <2>1, <2>5
<1>11. CASE coming = {} /\ waiting = {}
  <2>1. Says(q, g, said, word)
    BY <1>3, <1>11, <1>13, <1>14 DEF EndsIn
  <2>2. said = word
    BY <1>11, <1>13, <1>15, <2>1 DEF EndsIn
  <2>3. picture[<<p, t>>] = (word = "1")
    BY <1>1, <1>2, <2>2 DEF Payload
  <2>4. QED
    BY <1>4, <1>8, <1>11, <2>3
<1>12. QED
  BY <1>9, <1>10, <1>11

(* A panel in session never holds a stale picture of another panel's sensor: with *)
(* what is on its way it is what the broker has retained, unless gInbound was     *)
(* full (RemoteSourceTable, onMessage, buildSubscriptions).                       *)
THEOREM PicturesFollowTheBroker == Spec => []PictureFollowsBroker
<1>1. PanelsInv => PictureFollowsBroker
  <2> SUFFICES ASSUME PanelsInv, NEW p \in Panels, NEW t \in Sensors(p),
                      link[p], Subscribed(p), <<p, t>> \notin missed
               PROVE  Foresees(p, t) = (retained[t] = "1")
    BY DEF PictureFollowsBroker
  <2>1. PICK i \in 1..Len(Filters[p]) : Filters[p][i] = {t}
    BY FiltersAre
  <2>2. Listens(p, t)
    BY <2>1 DEF Listens, Subscribed
  <2>3. QED
    BY <2>2, ForeseesTheLast
<1>2. QED
  BY <1>1, PanelsInvariantHolds, PTL

-----------------------------------------------------------------------------
(* Counting the entries of a queue. *)

LEMMA OneMore ==
    ASSUME NEW S, IsFiniteSet(S), NEW x, x \notin S, NEW T, NEW b \in BOOLEAN,
           T = IF b THEN S \cup {x} ELSE S
    PROVE  Cardinality(T) = Cardinality(S) + IF b THEN 1 ELSE 0
<1>1. Cardinality(S) \in Nat
  BY FS_CardinalityType
<1>2. Cardinality(S \cup {x}) = Cardinality(S) + 1
  BY FS_AddElement
<1>3. CASE b
  BY <1>2, <1>3
<1>4. CASE ~b
  BY <1>1, <1>4
<1>5. QED
  BY <1>3, <1>4

Count(s, S) == Cardinality({k \in 1..Len(s) : s[k] \in S})

LEMMA CountIsFinite ==
    ASSUME NEW T, NEW s \in Seq(T), NEW S
    PROVE  IsFiniteSet({k \in 1..Len(s) : s[k] \in S}) /\ Count(s, S) \in Nat
<1>1. Len(s) \in Nat
  BY LenProperties
<1>2. PICK places : places = {k \in 1..Len(s) : s[k] \in S}
  OBVIOUS
<1>3. IsFiniteSet(1..Len(s)) /\ places \in SUBSET (1..Len(s))
  BY <1>1, <1>2, FS_Interval
<1>4. IsFiniteSet(places) /\ Cardinality(places) \in Nat
  BY <1>3, FS_Subset, FS_CardinalityType
<1>5. QED
  BY <1>2, <1>4 DEF Count

LEMMA CountEmpty ==
    ASSUME NEW S
    PROVE  Count(<<>>, S) = 0
<1>1. {k \in 1..Len(<<>>) : <<>>[k] \in S} = {}
  OBVIOUS
<1>2. QED
  BY <1>1, FS_EmptySet DEF Count

LEMMA CountAppend ==
    ASSUME NEW T, NEW s \in Seq(T), NEW e \in T, NEW S
    PROVE  Count(Append(s, e), S) = Count(s, S) + IF e \in S THEN 1 ELSE 0
<1>1. PICK n, r : n = Len(s) /\ r = Append(s, e)
  OBVIOUS
<1>2. /\ n \in Nat /\ r \in Seq(T) /\ Len(r) = n + 1 /\ r[n + 1] = e
      /\ \A k \in 1..n : r[k] = s[k]
  BY <1>1, AppendProperties, LenProperties
<1>3. PICK old, new : /\ old = {k \in 1..Len(s) : s[k] \in S}
                      /\ new = {k \in 1..Len(r) : r[k] \in S}
  OBVIOUS
<1>4. IsFiniteSet(old) /\ Cardinality(old) \in Nat
  BY <1>3, CountIsFinite DEF Count
<1>5. n + 1 \notin old
  BY <1>1, <1>2, <1>3
<1>6. new = IF e \in S THEN old \cup {n + 1} ELSE old
  <2>1. \A k \in 1..n + 1 : k \in 1..n \/ k = n + 1
    BY <1>2
  <2>2. 1..n \subseteq 1..n + 1 /\ n + 1 \in 1..n + 1 /\ n + 1 \notin 1..n
    BY <1>2
  <2>3. old = {k \in 1..n : r[k] \in S} /\ new = {k \in 1..n + 1 : r[k] \in S}
    BY <1>1, <1>2, <1>3
  <2>4. new = {k \in 1..n : r[k] \in S} \cup {k \in {n + 1} : e \in S}
    BY <1>2, <2>1, <2>2, <2>3
  <2>5. QED
    BY <2>3, <2>4
<1>7. Cardinality(new) = Cardinality(old) + IF e \in S THEN 1 ELSE 0
  <2>1. (e \in S) \in BOOLEAN
    OBVIOUS
  <2>2. QED
    BY <1>4, <1>5, <1>6, <2>1, OneMore
<1>8. QED
  BY <1>1, <1>3, <1>7 DEF Count

LEMMA CountTail ==
    ASSUME NEW T, NEW s \in Seq(T), s # <<>>, NEW S
    PROVE  Count(s, S) = Count(Tail(s), S) + IF Head(s) \in S THEN 1 ELSE 0
<1>1. PICK n, r : n = Len(s) /\ r = Tail(s)
  OBVIOUS
<1>2. /\ n \in Nat \ {0} /\ r \in Seq(T) /\ Len(r) = n - 1 /\ s[1] = Head(s)
      /\ \A k \in 1..n - 1 : r[k] = s[k + 1]
  BY <1>1, HeadTailProperties, LenProperties
<1>3. PICK old, new : /\ old = {k \in 1..Len(s) : s[k] \in S}
                      /\ new = {k \in 1..Len(r) : r[k] \in S}
  OBVIOUS
<1>4. IsFiniteSet(new) /\ IsFiniteSet(old)
  BY <1>2, <1>3, CountIsFinite
<1>5. PICK rest : rest = {k \in 2..n : s[k] \in S}
  OBVIOUS
<1>6. IsFiniteSet(rest) /\ Cardinality(rest) = Cardinality(new)
  <2>1. PICK f : f = [k \in new |-> k + 1]
    OBVIOUS
  <2>2. new = {k \in 1..n - 1 : s[k + 1] \in S}
    BY <1>2, <1>3
  <2>3. \A k \in 1..n - 1 : k \in Int /\ k + 1 \in 2..n
    BY <1>2
  <2>4. \A k \in 2..n : k - 1 \in 1..n - 1 /\ (k - 1) + 1 = k
    BY <1>2
  <2>5. f \in [new -> rest]
    BY <1>5, <2>1, <2>2, <2>3
  <2>6. \A j, k \in new : f[j] = f[k] => j = k
    BY <2>1, <2>2, <2>3
  <2>7. \A k \in rest : \E j \in new : f[j] = k
    <3> TAKE k \in rest
    <3>1. k \in 2..n /\ s[k] \in S
      BY <1>5
    <3>2. k - 1 \in new /\ f[k - 1] = k
      BY <2>1, <2>2, <2>4, <3>1
    <3>3. QED
      BY <3>2
  <2>8. f \in Bijection(new, rest)
    BY <2>5, <2>6, <2>7 DEF Bijection, Injection, Surjection, IsInjective
  <2>9. QED
    BY <1>4, <2>8, FS_Bijection DEF ExistsBijection
<1>7. old = IF Head(s) \in S THEN rest \cup {1} ELSE rest
  <2>1. \A k \in 1..n : k \in 2..n \/ k = 1
    BY <1>2
  <2>2. 2..n \subseteq 1..n /\ 1 \in 1..n
    BY <1>2
  <2>3. old = {k \in 2..n : s[k] \in S} \cup {k \in {1} : Head(s) \in S}
    BY <1>1, <1>2, <1>3, <2>1, <2>2
  <2>4. QED
    BY <1>5, <2>3
<1>8. 1 \notin rest
  BY <1>5
<1>9. Cardinality(old) = Cardinality(rest) + IF Head(s) \in S THEN 1 ELSE 0
  <2>1. (Head(s) \in S) \in BOOLEAN
    OBVIOUS
  <2>2. QED
    BY <1>6, <1>7, <1>8, <2>1, OneMore
<1>10. QED
  BY <1>1, <1>3, <1>6, <1>9 DEF Count

(* Entries of another kind behind it. *)
LEMMA CountBehind ==
    ASSUME NEW T, NEW s \in Seq(T), NEW more \in Seq(T), NEW S,
           \A k \in 1..Len(more) : more[k] \notin S
    PROVE  Count(s \o more, S) = Count(s, S)
<1>1. PICK n, d, r : n = Len(s) /\ d = Len(more) /\ r = s \o more
  OBVIOUS
<1>2. /\ n \in Nat /\ d \in Nat /\ Len(r) = n + d
      /\ \A k \in 1..n : r[k] = s[k]
      /\ \A k \in n + 1..n + d : r[k] = more[k - n]
  BY <1>1, ConcatProperties, LenProperties
<1>3. \A k \in n + 1..n + d : r[k] \notin S
  <2> TAKE k \in n + 1..n + d
  <2>1. k - n \in 1..d
    BY <1>2
  <2>2. QED
    BY <1>1, <1>2, <2>1
<1>4. \A k \in 1..n + d : k \in 1..n \/ k \in n + 1..n + d
  BY <1>2
<1>5. 1..n \subseteq 1..n + d
  BY <1>2
<1>6. {k \in 1..n + d : r[k] \in S} = {k \in 1..n : s[k] \in S}
  BY <1>2, <1>3, <1>4, <1>5
<1>7. QED
  BY <1>1, <1>2, <1>6 DEF Count

(* A queue cut off behind counts no more. *)
LEMMA CountPrefix ==
    ASSUME NEW T, NEW s \in Seq(T), NEW n \in Nat, n <= Len(s), NEW S
    PROVE  SubSeq(s, 1, n) \in Seq(T) /\ Count(SubSeq(s, 1, n), S) <= Count(s, S)
<1>1. PICK d, r : d = Len(s) /\ r = SubSeq(s, 1, n)
  OBVIOUS
<1>2. d \in Nat /\ n <= d /\ 1..n \subseteq 1..d
  <2>1. d \in Nat /\ n <= d
    BY <1>1, LenProperties
  <2>2. QED
    BY <2>1
<1>3. \A k \in 1..n : s[k] \in T
  BY <1>1, <1>2, ElementOfSeq
<1>4. r \in Seq(T) /\ Len(r) = n /\ \A k \in 1..n : r[k] = s[k]
  <2>1. r = [k \in 1..n |-> s[k]]
    BY <1>1, <1>2
  <2>2. QED
    BY <1>3, <2>1
<1>5. PICK few, all : few = {k \in 1..Len(r) : r[k] \in S} /\ all = {k \in 1..Len(s) : s[k] \in S}
  OBVIOUS
<1>6. few \subseteq all
  BY <1>1, <1>2, <1>4, <1>5
<1>7. Cardinality(few) <= Cardinality(all)
  <2>1. IsFiniteSet(all)
    BY <1>5, CountIsFinite
  <2>2. QED
    BY <1>6, <2>1, FS_Subset
<1>8. QED
  BY <1>1, <1>4, <1>5, <1>7 DEF Count

-----------------------------------------------------------------------------
(* The account of a row that waits for a press. *)

EventTopics == UNION {{Rows[p][i].topic : i \in PressRows(p)} : p \in Panels}
Acting == UNION {{p} \X PressRows(p) : p \in Panels}
Waited == UNION {{Awaited(p, i) : i \in PressRows(p)} : p \in Panels}

(* What core 0 of p may have to say: of buttons only its own, and never to be kept. *)
Ours(p) == {m \in Sent : m.topic \in EventTopics => m.topic[1] = p /\ m.retained = FALSE}

(* The entry for row i, and the messages that become it. *)
EntryFor(i) == [kind |-> "remote", row |-> i]
Becoming(p, i) == {m \in Sent : OnMessage(p, m) = <<EntryFor(i)>>}

(* The gOutbound that the messages a row waits for come from. *)
Source(p, i) == LET o == Rows[p][i].topic[1] IN IF o \in Panels THEN outq[o] ELSE <<>>

InInq(p, i) == Count(inq[p], {EntryFor(i)})
InDown(p, i) == Count(down[p], Becoming(p, i))
InOutq(p, i) == Count(Source(p, i), Becoming(p, i))

(* What a row has acted on, and what is still on its way to it, has been pressed. *)
Settled(p, i) ==
    toggles[<<p, i>>] + InInq(p, i) + InDown(p, i) + InOutq(p, i) <= presses[Awaited(p, i)]

PressTypeOK ==
    /\ toggles \in [Acting -> Nat] /\ presses \in [Waited -> Nat]
    /\ \A p \in Panels : outq[p] \in Seq(Ours(p))
    /\ \A t \in EventTopics \cap Asked : retained[t] = None

PressInv == PressTypeOK /\ \A p \in Panels : \A i \in PressRows(p) : Settled(p, i)

LEMMA RowKeysAre ==
    ASSUME NEW p \in Panels, NEW i \in PressRows(p)
    PROVE  <<p, i>> \in Acting /\ Awaited(p, i) \in Waited /\ Rows[p][i].topic \in EventTopics
BY DEF Acting, Waited, EventTopics

LEMMA EventsAreApart ==
    ASSUME NEW t \in EventTopics
    PROVE  t \notin Reported /\ \A c \in Commands : c.topic # t
BY PressesAssumption DEF EventTopics

(* Only the message a row waits for becomes its entry. *)
LEMMA BecomingIs ==
    ASSUME NEW p \in Panels, NEW i \in PressRows(p), NEW m \in Becoming(p, i)
    PROVE  m \in Sent /\ m.topic = Rows[p][i].topic /\ m.payload = Rows[p][i].payload
<1>1. m \in Sent /\ OnMessage(p, m) = <<EntryFor(i)>>
  BY DEF Becoming
<1>2. CASE Find(p, m.topic, m.payload) # {}
  <2>1. PICK r : r = Smallest(Find(p, m.topic, m.payload))
    OBVIOUS
  <2>2. Rows[p][r].topic = m.topic /\ Rows[p][r].payload = m.payload
    BY <1>2, <2>1, FoundIs
  <2>3. <<EntryFor(r)>> = <<EntryFor(i)>>
    BY <1>1, <1>2, <2>1 DEF OnMessage, EntryFor
  <2>4. EntryFor(r) = EntryFor(i)
    BY <2>3
  <2>5. r = i
    BY <2>4 DEF EntryFor
  <2>6. QED
    BY <1>1, <2>2, <2>5
<1>3. CASE Find(p, m.topic, m.payload) = {}
  <2>1. PICK e : e = [kind |-> "command", topic |-> m.topic, payload |-> m.payload]
    OBVIOUS
  <2>2. <<EntryFor(i)>> = <<e>> \/ <<EntryFor(i)>> = <<>>
    BY <1>1, <1>3, <2>1 DEF OnMessage
  <2>3. EntryFor(i) = e
    BY <2>2
  <2>4. e.kind = "command" /\ EntryFor(i).kind = "remote"
    BY <2>1 DEF EntryFor
  <2>5. QED
    BY <2>3, <2>4
<1>4. QED
  BY <1>2, <1>3

(* No row waits for a message on another topic. *)
LEMMA OthersBecomeNothing ==
    ASSUME NEW m, m.topic \notin EventTopics, NEW p \in Panels, NEW i \in PressRows(p)
    PROVE  m \notin Becoming(p, i)
BY BecomingIs, RowKeysAre

LEMMA CountsAre ==
    ASSUME PanelsInv, NEW p \in Panels, NEW i \in PressRows(p)
    PROVE  /\ InInq(p, i) \in Nat /\ InDown(p, i) \in Nat /\ InOutq(p, i) \in Nat
           /\ Source(p, i) \in Seq(Sent)
<1>1. inq[p] \in Seq(Entries(p)) /\ down[p] \in Seq(Sent)
  BY InvOf
<1>2. Source(p, i) \in Seq(Sent)
  BY EmptySeq DEF Source, PanelsInv, PanelsTypeOK
<1>3. QED
  BY <1>1, <1>2, CountIsFinite DEF InInq, InDown, InOutq

LEMMA NextCountsAre ==
    ASSUME PanelsInv', NEW p \in Panels, NEW i \in PressRows(p)
    PROVE  InInq(p, i)' \in Nat /\ InDown(p, i)' \in Nat /\ InOutq(p, i)' \in Nat
<1>1. inq'[p] \in Seq(Entries(p)) /\ down'[p] \in Seq(Sent)
  BY DEF PanelsInv, PanelsTypeOK
<1>2. Source(p, i)' \in Seq(Sent)
  BY EmptySeq DEF Source, PanelsInv, PanelsTypeOK
<1>3. QED
  BY <1>1, <1>2, CountIsFinite DEF InInq, InDown, InOutq

LEMMA SettledIs ==
    ASSUME PanelsInv, PressInv, NEW p \in Panels, NEW i \in PressRows(p)
    PROVE  /\ toggles[<<p, i>>] \in Nat /\ presses[Awaited(p, i)] \in Nat
           /\ InInq(p, i) \in Nat /\ InDown(p, i) \in Nat /\ InOutq(p, i) \in Nat
           /\ Settled(p, i)
BY CountsAre, RowKeysAre DEF PressInv, PressTypeOK

(* An account that has not grown by more than was pressed is still in order. *)
AccountKept(p, i) ==
    /\ InInq(p, i)' <= InInq(p, i) /\ InDown(p, i)' <= InDown(p, i)
    /\ InOutq(p, i)' <= InOutq(p, i)

LEMMA KeptIsSettled ==
    ASSUME PanelsInv, PanelsInv', PressInv, UNCHANGED counts,
           NEW p \in Panels, NEW i \in PressRows(p), AccountKept(p, i)
    PROVE  Settled(p, i)'
<1>1. toggles' = toggles /\ presses' = presses
  BY DEF counts
<1>2. PICK a, b, x, y, z :
        /\ a = toggles[<<p, i>>] /\ b = presses[Awaited(p, i)]
        /\ x = InInq(p, i) /\ y = InDown(p, i) /\ z = InOutq(p, i)
  OBVIOUS
<1>3. PICK x1, y1, z1 : x1 = InInq(p, i)' /\ y1 = InDown(p, i)' /\ z1 = InOutq(p, i)'
  OBVIOUS
<1>4. /\ a \in Nat /\ b \in Nat /\ x \in Nat /\ y \in Nat /\ z \in Nat
      /\ a + x + y + z <= b
  BY <1>2, SettledIs DEF Settled
<1>5. x1 \in Nat /\ y1 \in Nat /\ z1 \in Nat
  BY <1>3, NextCountsAre
<1>6. x1 <= x /\ y1 <= y /\ z1 <= z
  BY <1>2, <1>3 DEF AccountKept
<1>7. a + x1 + y1 + z1 <= b
  BY <1>4, <1>5, <1>6
<1>8. QED
  BY <1>1, <1>2, <1>3, <1>7 DEF Settled

(* The rest of the invariant. *)
LEMMA PressInvNext ==
    ASSUME PanelsInv, PanelsInv', PressInv, UNCHANGED counts,
           \A p \in Panels : outq'[p] \in Seq(Ours(p)),
           \A t \in EventTopics \cap Asked : retained'[t] = None,
           \A p \in Panels : \A i \in PressRows(p) : AccountKept(p, i)
    PROVE  PressInv'
<1>1. PressTypeOK'
  BY DEF PressInv, PressTypeOK, counts
<1>2. QED
  BY <1>1, KeptIsSettled DEF PressInv

-----------------------------------------------------------------------------
(* What becomes of one queue. *)

Shrinks(s, r) == r = s \/ r = <<>> \/ (s # <<>> /\ r = Tail(s))

LEMMA ShrinkingCounts ==
    ASSUME NEW T, NEW s \in Seq(T), NEW r, Shrinks(s, r), NEW S
    PROVE  r \in Seq(T) /\ Count(r, S) <= Count(s, S)
<1>1. Count(s, S) \in Nat
  BY CountIsFinite
<1>2. CASE r = s
  BY <1>1, <1>2
<1>3. CASE r = <<>>
  BY <1>1, <1>3, CountEmpty, EmptySeq
<1>4. CASE s # <<>> /\ r = Tail(s)
  <2>1. Tail(s) \in Seq(T)
    BY <1>4, HeadTailProperties
  <2>2. Count(Tail(s), S) \in Nat
    BY <2>1, CountIsFinite
  <2>3. Count(s, S) = Count(Tail(s), S) + IF Head(s) \in S THEN 1 ELSE 0
    BY <1>4, CountTail
  <2>4. QED
    BY <1>4, <2>1, <2>2, <2>3
<1>5. QED
  BY <1>2, <1>3, <1>4 DEF Shrinks

(* Whatever of the queues is lost or read away, the accounts stay in order. *)
LEMMA LosingKeeps ==
    ASSUME PanelsInv, PanelsInv', PressInv, UNCHANGED <<counts, retained>>,
           \A q \in Panels : /\ Shrinks(inq[q], inq'[q]) /\ Shrinks(down[q], down'[q])
                             /\ Shrinks(outq[q], outq'[q])
    PROVE  PressInv'
<1>1. ASSUME NEW p \in Panels PROVE outq'[p] \in Seq(Ours(p))
  <2>1. outq[p] \in Seq(Ours(p))
    BY DEF PressInv, PressTypeOK
  <2>2. QED
    BY <2>1, ShrinkingCounts
<1>2. ASSUME NEW p \in Panels, NEW i \in PressRows(p)
      PROVE  AccountKept(p, i)
  <2>1. /\ inq[p] \in Seq(Entries(p)) /\ down[p] \in Seq(Sent) /\ Source(p, i) \in Seq(Sent)
    BY InvOf, CountsAre
  <2>2. Shrinks(Source(p, i), Source(p, i)')
    BY DEF Source, Shrinks
  <2>3. QED
    BY <2>1, <2>2, ShrinkingCounts DEF AccountKept, InInq, InDown, InOutq
<1>3. UNCHANGED counts /\ \A t \in EventTopics \cap Asked : retained'[t] = None
  BY DEF PressInv, PressTypeOK
<1>4. QED
  BY <1>1, <1>2, <1>3, PressInvNext

LEMMA LeavingShrinks ==
    ASSUME PanelsInv, NEW p \in Panels, Leave(p), NEW q \in Panels
    PROVE  Shrinks(down[q], down'[q])
BY DEF Leave, Shrinks, PanelsInv, PanelsTypeOK

LEMMA ConnectSettles ==
    ASSUME PanelsInv, PanelsInv', PressInv, NEW p \in Panels, Connect(p)
    PROVE  PressInv'
<1>1. /\ down' = [down EXCEPT ![p] = <<>>] /\ outq' = [outq EXCEPT ![p] = <<>>]
      /\ UNCHANGED <<inq, counts, retained>>
  BY DEF Connect, Core1Only
<1>2. ASSUME NEW q \in Panels
      PROVE  /\ Shrinks(inq[q], inq'[q]) /\ Shrinks(down[q], down'[q])
             /\ Shrinks(outq[q], outq'[q])
  BY <1>1 DEF Shrinks, PanelsInv, PanelsTypeOK
<1>3. QED
  BY <1>1, <1>2, LosingKeeps

LEMMA NoticeDeathSettles ==
    ASSUME PanelsInv, PanelsInv', PressInv, NEW p \in Panels, NoticeDeath(p)
    PROVE  PressInv'
<1>1. /\ Leave(p) /\ UNCHANGED <<inq, counts, retained>>
      /\ UNCHANGED outq \/ (outq[p] # <<>> /\ outq' = [outq EXCEPT ![p] = Tail(outq[p])])
  BY DEF NoticeDeath, Core1Only
<1>2. ASSUME NEW q \in Panels
      PROVE  Shrinks(inq[q], inq'[q]) /\ Shrinks(outq[q], outq'[q])
  BY <1>1 DEF Shrinks, PanelsInv, PanelsTypeOK
<1>3. QED
  BY <1>1, <1>2, LeavingShrinks, LosingKeeps

LEMMA LinkBreaksSettles ==
    ASSUME PanelsInv, PanelsInv', PressInv, NEW p \in Panels, LinkBreaks(p)
    PROVE  PressInv'
<1>1. /\ down' = [down EXCEPT ![p] = <<>>] /\ UNCHANGED <<inq, outq, counts, retained>>
  BY DEF LinkBreaks, history
<1>2. ASSUME NEW q \in Panels
      PROVE  /\ Shrinks(inq[q], inq'[q]) /\ Shrinks(down[q], down'[q])
             /\ Shrinks(outq[q], outq'[q])
  BY <1>1 DEF Shrinks, PanelsInv, PanelsTypeOK
<1>3. QED
  BY <1>1, <1>2, LosingKeeps

LEMMA PowerCutSettles ==
    ASSUME PanelsInv, PanelsInv', PressInv, NEW p \in Panels, PowerCut(p)
    PROVE  PressInv'
<1>1. /\ Leave(p) /\ UNCHANGED <<counts, retained>>
      /\ inq' = [inq EXCEPT ![p] = <<>>] /\ outq' = [outq EXCEPT ![p] = <<>>]
  BY DEF PowerCut
<1>2. ASSUME NEW q \in Panels
      PROVE  Shrinks(inq[q], inq'[q]) /\ Shrinks(outq[q], outq'[q])
  BY <1>1 DEF Shrinks, PanelsInv, PanelsTypeOK
<1>3. QED
  BY <1>1, <1>2, LeavingShrinks, LosingKeeps

-----------------------------------------------------------------------------
(* Core 0 says something of its own states. *)

(* Nothing that a button says is among what core 0 of p has put into gOutbound. *)
SaysNoPress ==
    /\ \A q \in Panels : outq'[q] \in Seq(Ours(q))
    /\ \A q \in Panels : \A i \in PressRows(q) : InOutq(q, i)' <= InOutq(q, i)

LEMMA SilentSaysNoPress ==
    ASSUME PanelsInv, PressInv, outq' = outq
    PROVE  SaysNoPress
<1>1. \A q \in Panels : outq'[q] \in Seq(Ours(q))
  BY DEF PressInv, PressTypeOK
<1>2. ASSUME NEW q \in Panels, NEW i \in PressRows(q)
      PROVE  InOutq(q, i)' <= InOutq(q, i)
  <2>1. Source(q, i)' = Source(q, i)
    BY DEF Source
  <2>2. InOutq(q, i)' = InOutq(q, i)
    BY <2>1 DEF InOutq
  <2>3. QED
    BY <2>2, CountsAre
<1>3. QED
  BY <1>1, <1>2 DEF SaysNoPress

(* What fits into gOutbound. *)
LEMMA PushCounts ==
    ASSUME PanelsInv, NEW p \in Panels, NEW T, outq[p] \in Seq(T), NEW messages \in Seq(T),
           Push(p, messages)
    PROVE  /\ outq'[p] \in Seq(T) /\ \A q \in Panels : q # p => outq'[q] = outq[q]
           /\ \A S : Count(outq'[p], S) <= Count(outq[p] \o messages, S)
<1>1. PICK all, n : all = outq[p] \o messages /\ n = IF Len(all) < OutDepth THEN Len(all) ELSE OutDepth
  OBVIOUS
<1>2. all \in Seq(T)
  BY <1>1, ConcatProperties
<1>3. n \in Nat /\ n <= Len(all)
  BY <1>1, <1>2, TablesAssumption, LenProperties
<1>4. outq' = [outq EXCEPT ![p] = SubSeq(all, 1, n)]
  BY <1>1 DEF Push
<1>5. outq'[p] = SubSeq(all, 1, n) /\ \A q \in Panels : q # p => outq'[q] = outq[q]
  BY <1>4 DEF PanelsInv, PanelsTypeOK
<1>6. SubSeq(all, 1, n) \in Seq(T) /\ \A S : Count(SubSeq(all, 1, n), S) <= Count(all, S)
  BY <1>2, <1>3, CountPrefix
<1>7. QED
  BY <1>1, <1>5, <1>6

LEMMA StatesSayNoPress ==
    ASSUME PanelsInv, PressInv, NEW p \in Panels, NEW messages \in Seq(Sent),
           \A k \in 1..Len(messages) : messages[k].topic \notin EventTopics,
           Push(p, messages)
    PROVE  SaysNoPress
<1>1. messages \in Seq(Ours(p)) /\ outq[p] \in Seq(Ours(p)) /\ outq[p] \in Seq(Sent)
  <2>1. ASSUME NEW k \in 1..Len(messages) PROVE messages[k] \in Ours(p)
    <3>1. messages[k] \in Sent
      BY ElementOfSeq
    <3>2. QED
      BY <3>1 DEF Ours
  <2>2. messages \in Seq(Ours(p))
    <3>1. Len(messages) \in Nat /\ messages = [k \in 1..Len(messages) |-> messages[k]]
      BY LenProperties
    <3>2. QED
      BY <2>1, <3>1
  <2>3. QED
    BY <2>2, InvOf DEF PressInv, PressTypeOK, PanelsTypeOK
<1>2. /\ outq'[p] \in Seq(Ours(p)) /\ \A q \in Panels : q # p => outq'[q] = outq[q]
      /\ \A S : Count(outq'[p], S) <= Count(outq[p] \o messages, S)
  BY <1>1, PushCounts
<1>3. \A q \in Panels : outq'[q] \in Seq(Ours(q))
  BY <1>2 DEF PressInv, PressTypeOK
<1>4. ASSUME NEW q \in Panels, NEW i \in PressRows(q)
      PROVE  InOutq(q, i)' <= InOutq(q, i)
  <2>1. PICK S, o : S = Becoming(q, i) /\ o = Rows[q][i].topic[1]
    OBVIOUS
  <2>2. InOutq(q, i) \in Nat
    BY CountsAre
  <2>3. CASE o = p
    <3>1. Source(q, i) = outq[p] /\ Source(q, i)' = outq'[p]
      BY <2>1, <2>3 DEF Source
    <3>2. \A k \in 1..Len(messages) : messages[k] \notin S
      BY <2>1, OthersBecomeNothing
    <3>3. Count(outq[p] \o messages, S) = Count(outq[p], S)
      BY <1>1, <3>2, CountBehind
    <3>4. QED
      BY <1>2, <2>1, <3>1, <3>3 DEF InOutq
  <2>4. CASE o # p
    <3>1. Source(q, i)' = Source(q, i)
      BY <1>2, <2>1, <2>4 DEF Source
    <3>2. QED
      BY <2>2, <3>1 DEF InOutq
  <2>5. QED
    BY <2>3, <2>4
<1>5. QED
  BY <1>3, <1>4 DEF SaysNoPress

LEMMA SetValueSaysNoPress ==
    ASSUME PanelsInv, PressInv, NEW p \in Panels, NEW t \in Reported, NEW v \in BOOLEAN,
           SetValue(p, t, v)
    PROVE  SaysNoPress
<1>1. CASE outq' = outq
  BY <1>1, SilentSaysNoPress
<1>2. CASE Push(p, <<StateMessage(t, v)>>)
  <2>1. PICK messages, m : m = StateMessage(t, v) /\ messages = <<m>>
    OBVIOUS
  <2>2. m \in Sent /\ messages \in Seq(Sent)
    BY <2>1, StateIsSent, OneIsSent
  <2>3. m.topic = t /\ t \notin EventTopics
    BY <2>1, EventsAreApart DEF StateMessage, Message
  <2>4. \A k \in 1..Len(messages) : messages[k].topic \notin EventTopics
    BY <2>1, <2>3
  <2>5. QED
    BY <1>2, <2>1, <2>2, <2>4, StatesSayNoPress
<1>3. QED
  BY <1>1, <1>2 DEF SetValue

LEMMA RefreshSaysNoPress ==
    ASSUME PanelsInv, PressInv, NEW p \in Panels, Push(p, Refresh(p))
    PROVE  SaysNoPress
<1>1. Refresh(p) \in Seq(Sent)
  BY InvOf, RefreshIsSent
<1>2. ASSUME NEW k \in 1..Len(Refresh(p)) PROVE Refresh(p)[k].topic \notin EventTopics
  <2>1. Len(Own[p]) \in Nat /\ Len(Refresh(p)) = Len(Own[p])
    BY OwnIsReported DEF Refresh
  <2>2. Refresh(p)[k].topic = Own[p][k] /\ Own[p][k] \in Reported
    BY <2>1, OwnIsReported DEF Refresh, StateMessage, Message
  <2>3. QED
    BY <2>2, EventsAreApart
<1>3. QED
  BY <1>1, <1>2, StatesSayNoPress

LEMMA SameDownAndInq ==
    ASSUME PanelsInv, PressInv, SaysNoPress, UNCHANGED <<down, inq>>,
           NEW p \in Panels, NEW i \in PressRows(p)
    PROVE  AccountKept(p, i)
<1>1. InInq(p, i)' = InInq(p, i) /\ InDown(p, i)' = InDown(p, i)
  BY DEF InInq, InDown
<1>2. InInq(p, i) \in Nat /\ InDown(p, i) \in Nat /\ InOutq(p, i)' <= InOutq(p, i)
  BY CountsAre DEF SaysNoPress
<1>3. QED
  BY <1>1, <1>2 DEF AccountKept

LEMMA SensorMovesSettles ==
    ASSUME PanelsInv, PanelsInv', PressInv, NEW p \in Panels, NEW t \in RetainedBy(p),
           SensorMoves(p, t)
    PROVE  PressInv'
<1>1. t \in Reported /\ (~value[t]) \in BOOLEAN /\ SetValue(p, t, ~value[t])
  BY OwnIsReported DEF SensorMoves
<1>2. SaysNoPress
  BY <1>1, SetValueSaysNoPress
<1>3. UNCHANGED <<down, inq>> /\ UNCHANGED counts /\ UNCHANGED retained
  BY DEF SensorMoves, core1, counts
<1>4. QED
  BY <1>2, <1>3, SameDownAndInq, PressInvNext DEF SaysNoPress, PressInv, PressTypeOK

LEMMA RuleEndsSettles ==
    ASSUME PanelsInv, PanelsInv', PressInv, NEW p \in Panels, RuleEnds(p)
    PROVE  PressInv'
<1>1. PICK i \in DOMAIN Rows[p] :
        /\ SetValue(p, Rows[p][i].lamp, FALSE) \/ UNCHANGED <<value, outq, lost>>
        /\ UNCHANGED <<picture, inq, toggles, Untouched>>
  BY DEF RuleEnds
<1>2. SaysNoPress
  <2>1. CASE SetValue(p, Rows[p][i].lamp, FALSE)
    BY <2>1, RowIs, SetValueSaysNoPress
  <2>2. CASE outq' = outq
    BY <2>2, SilentSaysNoPress
  <2>3. QED
    BY <1>1, <2>1, <2>2
<1>3. UNCHANGED <<down, inq>> /\ UNCHANGED counts /\ UNCHANGED retained
  BY <1>1 DEF Untouched, core1, counts
<1>4. QED
  BY <1>2, <1>3, SameDownAndInq, PressInvNext DEF SaysNoPress, PressInv, PressTypeOK

-----------------------------------------------------------------------------
(* Core 0 takes an entry from gInbound. *)

LEMMA TakenCounts ==
    ASSUME PanelsInv, NEW p \in Panels, Next0(p), NEW q \in Panels, NEW i \in PressRows(q)
    PROVE  InInq(q, i) = InInq(q, i)' + IF q = p /\ Head(inq[p]) = EntryFor(i) THEN 1 ELSE 0
<1>1. inq[p] \in Seq(Entries(p)) /\ inq[p] # <<>> /\ inq' = [inq EXCEPT ![p] = Tail(inq[p])]
  BY InvOf DEF Next0
<1>2. InInq(q, i) \in Nat
  BY CountsAre
<1>3. CASE q = p
  <2>1. inq'[p] = Tail(inq[p])
    BY <1>1 DEF PanelsInv, PanelsTypeOK
  <2>2. PICK S : S = {EntryFor(i)}
    OBVIOUS
  <2>3. Count(inq[p], S) = Count(Tail(inq[p]), S) + IF Head(inq[p]) \in S THEN 1 ELSE 0
    BY <1>1, CountTail
  <2>4. Head(inq[p]) \in S <=> Head(inq[p]) = EntryFor(i)
    BY <2>2
  <2>5. QED
    BY <1>3, <2>1, <2>2, <2>3, <2>4 DEF InInq
<1>4. CASE q # p
  <2>1. inq'[q] = inq[q]
    BY <1>1, <1>4 DEF PanelsInv, PanelsTypeOK
  <2>2. QED
    BY <1>2, <1>4, <2>1 DEF InInq
<1>5. QED
  BY <1>3, <1>4

LEMMA SameDown ==
    ASSUME PanelsInv, PanelsInv', PressInv, SaysNoPress, UNCHANGED down, NEW p \in Panels, Next0(p),
           NEW q \in Panels, NEW i \in PressRows(q)
    PROVE  AccountKept(q, i)
<1>1. InDown(q, i)' = InDown(q, i)
  BY DEF InDown
<1>2. InDown(q, i) \in Nat /\ InOutq(q, i)' <= InOutq(q, i)
  BY CountsAre DEF SaysNoPress
<1>3. InInq(q, i)' <= InInq(q, i)
  <2>1. PICK b \in BOOLEAN : b = (q = p /\ Head(inq[p]) = EntryFor(i))
    OBVIOUS
  <2>2. InInq(q, i) = InInq(q, i)' + IF b THEN 1 ELSE 0
    BY <2>1, TakenCounts
  <2>3. InInq(q, i)' \in Nat
    BY NextCountsAre
  <2>4. QED
    BY <2>2, <2>3
<1>4. QED
  BY <1>1, <1>2, <1>3 DEF AccountKept

(* An entry that is no press of a row. *)
LEMMA HandlingSettles ==
    ASSUME PanelsInv, PanelsInv', PressInv, NEW p \in Panels, Next0(p), SaysNoPress,
           UNCHANGED <<toggles, Untouched>>
    PROVE  PressInv'
<1>1. UNCHANGED down /\ UNCHANGED counts /\ UNCHANGED retained
  BY DEF Untouched, core1, counts
<1>2. QED
  BY <1>1, SameDown, PressInvNext DEF SaysNoPress, PressInv, PressTypeOK

LEMMA HandleRefreshSettles ==
    ASSUME PanelsInv, PanelsInv', PressInv, NEW p \in Panels, HandleRefresh(p)
    PROVE  PressInv'
BY RefreshSaysNoPress, HandlingSettles DEF HandleRefresh

LEMMA HandleCommandSettles ==
    ASSUME PanelsInv, PanelsInv', PressInv, NEW p \in Panels, HandleCommand(p)
    PROVE  PressInv'
<1>1. \/ UNCHANGED <<value, outq, lost>>
      \/ \E t \in RetainedBy(p) : SetValue(p, t, Head(inq[p]).payload = "1")
  BY DEF HandleCommand
<1>2. SaysNoPress
  <2>1. CASE outq' = outq
    BY <2>1, SilentSaysNoPress
  <2>2. ASSUME NEW t \in RetainedBy(p), SetValue(p, t, Head(inq[p]).payload = "1")
        PROVE  SaysNoPress
    <3>1. t \in Reported /\ (Head(inq[p]).payload = "1") \in BOOLEAN
      BY OwnIsReported
    <3>2. QED
      BY <2>2, <3>1, SetValueSaysNoPress
  <2>3. QED
    BY <1>1, <2>1, <2>2
<1>3. QED
  BY <1>2, HandlingSettles DEF HandleCommand

LEMMA HandleEdgeSettles ==
    ASSUME PanelsInv, PanelsInv', PressInv, NEW p \in Panels, HandleEdge(p)
    PROVE  PressInv'
<1>1. Head(inq[p]) \in Entries(p) /\ Head(inq[p]).kind = "remote" /\ Next0(p)
  BY InvOf, HeadTailProperties DEF HandleEdge, Next0
<1>2. PICK r : r = Head(inq[p]).row
  OBVIOUS
<1>3. r \in DOMAIN Rows[p]
  BY <1>1, <1>2 DEF Entries
<1>4. SetValue(p, Rows[p][r].lamp, TRUE) \/ UNCHANGED <<value, outq, lost>>
  BY <1>2 DEF HandleEdge
<1>5. SaysNoPress
  <2>1. CASE SetValue(p, Rows[p][r].lamp, TRUE)
    BY <1>3, <2>1, RowIs, SetValueSaysNoPress
  <2>2. CASE outq' = outq
    BY <2>2, SilentSaysNoPress
  <2>3. QED
    BY <1>4, <2>1, <2>2
<1>6. QED
  BY <1>1, <1>5, HandlingSettles DEF HandleEdge

(* A press moves from what is on its way to what a rule has acted on. *)
LEMMA HandlePressSettles ==
    ASSUME PanelsInv, PanelsInv', PressInv, NEW p \in Panels, HandlePress(p)
    PROVE  PressInv'
<1>1. Head(inq[p]) \in Entries(p) /\ Head(inq[p]).kind = "remote" /\ Next0(p)
  BY InvOf, HeadTailProperties DEF HandlePress, Next0
<1>2. PICK r : r = Head(inq[p]).row
  OBVIOUS
<1>3. r \in DOMAIN Rows[p] /\ Head(inq[p]) = EntryFor(r)
  BY <1>1, <1>2 DEF Entries, EntryFor
<1>4. /\ Rows[p][r].kind = "press" /\ toggles' = [toggles EXCEPT ![<<p, r>>] = toggles[<<p, r>>] + 1]
      /\ SetValue(p, Rows[p][r].lamp, ~value[Rows[p][r].lamp])
      /\ UNCHANGED <<down, presses, retained>>
  BY <1>2 DEF HandlePress, Untouched, core1
<1>5. r \in PressRows(p) /\ <<p, r>> \in Acting
  BY <1>3, <1>4, RowKeysAre DEF PressRows
<1>6. SaysNoPress
  <2>1. Rows[p][r].lamp \in Reported /\ (~value[Rows[p][r].lamp]) \in BOOLEAN
    BY <1>3, RowIs
  <2>2. QED
    BY <1>4, <2>1, SetValueSaysNoPress
<1>7. PressTypeOK'
  <2>1. toggles \in [Acting -> Nat]
    BY DEF PressInv, PressTypeOK
  <2>2. toggles' \in [Acting -> Nat]
    BY <1>4, <1>5, <2>1
  <2>3. QED
    BY <1>4, <1>6, <2>2 DEF PressInv, PressTypeOK, SaysNoPress
<1>8. ASSUME NEW q \in Panels, NEW i \in PressRows(q)
      PROVE  Settled(q, i)'
  <2>1. PICK a, b, x, y, z :
          /\ a = toggles[<<q, i>>] /\ b = presses[Awaited(q, i)]
          /\ x = InInq(q, i) /\ y = InDown(q, i) /\ z = InOutq(q, i)
    OBVIOUS
  <2>2. PICK a1, x1, y1, z1 :
          /\ a1 = toggles'[<<q, i>>]
          /\ x1 = InInq(q, i)' /\ y1 = InDown(q, i)' /\ z1 = InOutq(q, i)'
    OBVIOUS
  <2>3. /\ a \in Nat /\ b \in Nat /\ x \in Nat /\ y \in Nat /\ z \in Nat
        /\ a + x + y + z <= b
    BY <2>1, SettledIs DEF Settled
  <2>4. x1 \in Nat /\ y1 \in Nat /\ z1 \in Nat /\ y1 = y /\ z1 <= z
    <3>1. x1 \in Nat /\ y1 \in Nat /\ z1 \in Nat
      BY <2>2, NextCountsAre
    <3>2. z1 <= z
      BY <1>6, <2>1, <2>2 DEF SaysNoPress
    <3>3. y1 = y
      BY <1>4, <2>1, <2>2 DEF InDown
    <3>4. QED
      BY <3>1, <3>2, <3>3
  <2>5. a1 + x1 = a + x
    <3>1. PICK moved \in BOOLEAN : moved = (q = p /\ Head(inq[p]) = EntryFor(i))
      OBVIOUS
    <3>2. x = x1 + IF moved THEN 1 ELSE 0
      BY <1>1, <2>1, <2>2, <3>1, TakenCounts
    <3>3. moved <=> q = p /\ i = r
      <4>1. EntryFor(r) = EntryFor(i) <=> i = r
        BY DEF EntryFor
      <4>2. QED
        BY <1>3, <3>1, <4>1
    <3>4. moved <=> <<q, i>> = <<p, r>>
      BY <3>3
    <3>5. toggles \in [Acting -> Nat] /\ <<q, i>> \in Acting
      BY RowKeysAre DEF PressInv, PressTypeOK
    <3>6. a1 = IF moved THEN a + 1 ELSE a
      BY <1>4, <1>5, <2>1, <2>2, <3>4, <3>5
    <3>7. QED
      BY <2>3, <2>4, <3>2, <3>6
  <2>6. a1 \in Nat
    BY <1>7, <2>2, RowKeysAre DEF PressTypeOK
  <2>7. a1 + x1 + y1 + z1 <= b
    BY <2>3, <2>4, <2>5, <2>6
  <2>8. presses'[Awaited(q, i)] = b
    BY <1>4, <2>1
  <2>9. QED
    BY <2>2, <2>7, <2>8 DEF Settled
<1>9. QED
  BY <1>7, <1>8 DEF PressInv

-----------------------------------------------------------------------------
(* A press. *)

LEMMA PressSettles ==
    ASSUME PanelsInv, PanelsInv', PressInv, NEW p \in Panels, NEW t \in Buttons[p],
           NEW gesture \in Gestures, Press(p, t, gesture)
    PROVE  PressInv'
<1>1. PICK m : m = Message(t, gesture, FALSE)
  OBVIOUS
<1>2. m \in Sent /\ m.topic = t /\ m.payload = gesture /\ m \in Ours(p)
  <2>1. m \in Sent
    BY <1>1, PressIsSent
  <2>2. m.topic = t /\ m.payload = gesture /\ m.retained = FALSE
    BY <1>1 DEF Message
  <2>3. t[1] = p
    BY PressesAssumption
  <2>4. QED
    BY <2>1, <2>2, <2>3 DEF Ours
<1>3. PICK messages : messages = <<m>>
  OBVIOUS
<1>4. /\ messages \in Seq(Ours(p)) /\ outq[p] \in Seq(Ours(p)) /\ outq[p] \in Seq(Sent)
      /\ outq[p] \o messages = Append(outq[p], m)
  <2>1. messages \in Seq(Ours(p))
    BY <1>2, <1>3
  <2>2. outq[p] \in Seq(Ours(p)) /\ outq[p] \in Seq(Sent)
    BY InvOf DEF PressInv, PressTypeOK, PanelsTypeOK
  <2>3. QED
    BY <1>2, <1>3, <2>1, <2>2, AppendIsConcat
<1>5. Push(p, messages)
  BY <1>1, <1>3 DEF Press
<1>6. /\ outq'[p] \in Seq(Ours(p)) /\ \A q \in Panels : q # p => outq'[q] = outq[q]
      /\ \A S : Count(outq'[p], S) <= Count(Append(outq[p], m), S)
  BY <1>4, <1>5, PushCounts
<1>7. UNCHANGED <<inq, down, retained, toggles>>
  BY DEF Press, core1
<1>8. presses' = [a \in Waited |-> presses[a] + IF a = <<t, gesture>> THEN 1 ELSE 0]
  BY DEF Press, PressInv, PressTypeOK
<1>9. PressTypeOK'
  <2>1. \A q \in Panels : outq'[q] \in Seq(Ours(q))
    BY <1>6 DEF PressInv, PressTypeOK
  <2>2. presses' \in [Waited -> Nat]
    <3>1. \A a \in Waited : presses[a] \in Nat
      BY DEF PressInv, PressTypeOK
    <3>2. QED
      BY <1>8, <3>1
  <2>3. QED
    BY <1>7, <2>1, <2>2 DEF PressInv, PressTypeOK
<1>10. ASSUME NEW q \in Panels, NEW i \in PressRows(q)
       PROVE  Settled(q, i)'
  <2>1. PICK a, b, x, y, z :
          /\ a = toggles[<<q, i>>] /\ b = presses[Awaited(q, i)]
          /\ x = InInq(q, i) /\ y = InDown(q, i) /\ z = InOutq(q, i)
    OBVIOUS
  <2>2. PICK b1, z1 : b1 = presses'[Awaited(q, i)] /\ z1 = InOutq(q, i)'
    OBVIOUS
  <2>3. /\ a \in Nat /\ b \in Nat /\ x \in Nat /\ y \in Nat /\ z \in Nat
        /\ a + x + y + z <= b
    BY <2>1, SettledIs DEF Settled
  <2>4. InInq(q, i)' = x /\ InDown(q, i)' = y /\ toggles'[<<q, i>>] = a
    BY <1>7, <2>1 DEF InInq, InDown
  <2>5. PICK mine \in BOOLEAN : mine = (m \in Becoming(q, i))
    <3>1. (m \in Becoming(q, i)) \in BOOLEAN
      OBVIOUS
    <3>2. QED
      BY <3>1
  <2>6. b1 = b + IF Awaited(q, i) = <<t, gesture>> THEN 1 ELSE 0
    BY <1>8, <2>1, <2>2, RowKeysAre
  <2>7. mine => Awaited(q, i) = <<t, gesture>>
    BY <1>2, <2>5, BecomingIs DEF Awaited
  <2>8. b1 \in Nat /\ b1 >= b + IF mine THEN 1 ELSE 0
    BY <2>3, <2>6, <2>7
  <2>9. z1 \in Nat
    BY <2>2, NextCountsAre
  <2>10. z1 <= z + IF mine THEN 1 ELSE 0
    <3>1. PICK S, o : S = Becoming(q, i) /\ o = Rows[q][i].topic[1]
      OBVIOUS
    <3>2. CASE o = p
      <4>1. Source(q, i) = outq[p] /\ Source(q, i)' = outq'[p]
        BY <3>1, <3>2 DEF Source
      <4>2. Count(Append(outq[p], m), S) = Count(outq[p], S) + IF m \in S THEN 1 ELSE 0
        BY <1>2, <1>4, CountAppend
      <4>3. Count(outq'[p], S) <= Count(Append(outq[p], m), S)
        BY <1>6
      <4>4. z = Count(outq[p], S) /\ z1 = Count(outq'[p], S)
        BY <2>1, <2>2, <3>1, <4>1 DEF InOutq
      <4>5. QED
        BY <2>5, <3>1, <4>2, <4>3, <4>4
    <3>3. CASE o # p
      <4>1. Source(q, i)' = Source(q, i)
        BY <1>6, <3>1, <3>3 DEF Source
      <4>2. z1 = z
        BY <2>1, <2>2, <4>1 DEF InOutq
      <4>3. QED
        BY <2>3, <4>2
    <3>4. QED
      BY <3>2, <3>3
  <2>11. a + x + y + z1 <= b1
    BY <2>3, <2>8, <2>9, <2>10
  <2>12. QED
    BY <2>2, <2>4, <2>11 DEF Settled
<1>11. QED
  BY <1>9, <1>10 DEF PressInv

-----------------------------------------------------------------------------
(* The broker accepts a message. *)

(* To a panel it sends a message once at most. *)
LEMMA AcceptCounts ==
    ASSUME PanelsInv, NEW m \in Sent, Accept(m), NEW q \in Panels, NEW i \in PressRows(q)
    PROVE  InDown(q, i)' <= InDown(q, i) + IF m \in Becoming(q, i) THEN 1 ELSE 0
<1>1. PICK S, d : S = Becoming(q, i) /\ d = down[q]
  OBVIOUS
<1>2. d \in Seq(Sent) /\ down'[q] = IF Listens(q, m.topic) THEN Append(d, m) ELSE d
  BY <1>1, InvOf DEF Accept
<1>3. Count(Append(d, m), S) = Count(d, S) + IF m \in S THEN 1 ELSE 0
  BY <1>2, CountAppend
<1>4. Count(d, S) \in Nat
  BY <1>2, CountIsFinite
<1>5. InDown(q, i) = Count(d, S)
  BY <1>1 DEF InDown
<1>6. InDown(q, i)' = Count(d, S) \/ InDown(q, i)' = Count(Append(d, m), S)
  BY <1>1, <1>2 DEF InDown
<1>7. QED
  BY <1>1, <1>3, <1>4, <1>5, <1>6

LEMMA AcceptRetains ==
    ASSUME PressInv, NEW m, Accept(m), m.topic \in EventTopics => m.retained = FALSE
    PROVE  \A t \in EventTopics \cap Asked : retained'[t] = None
BY DEF Accept, PressInv, PressTypeOK

LEMMA HaCommandSettles ==
    ASSUME PanelsInv, PanelsInv', PressInv, NEW m \in Commands, HaCommand(m)
    PROVE  PressInv'
<1>1. m \in Sent /\ Accept(m) /\ m.topic \notin EventTopics
  BY CommandIsSent, EventsAreApart DEF HaCommand
<1>2. UNCHANGED <<inq, outq, counts>>
  BY DEF HaCommand
<1>3. ASSUME NEW q \in Panels, NEW i \in PressRows(q)
      PROVE  AccountKept(q, i)
  <2>1. m \notin Becoming(q, i)
    BY <1>1, OthersBecomeNothing
  <2>2. InDown(q, i)' <= InDown(q, i) + 0
    BY <1>1, <2>1, AcceptCounts
  <2>3. InInq(q, i)' = InInq(q, i) /\ InOutq(q, i)' = InOutq(q, i)
    BY <1>2 DEF InInq, InOutq, Source
  <2>4. QED
    BY <2>2, <2>3, CountsAre DEF AccountKept
<1>4. \A q \in Panels : outq'[q] \in Seq(Ours(q))
  BY <1>2 DEF PressInv, PressTypeOK
<1>5. QED
  BY <1>1, <1>2, <1>3, <1>4, AcceptRetains, PressInvNext

LEMMA PublishSettles ==
    ASSUME PanelsInv, PanelsInv', PressInv, NEW p \in Panels, Publish(p)
    PROVE  PressInv'
<1>1. PICK m : m = Head(outq[p])
  OBVIOUS
<1>2. /\ Accept(m) /\ outq[p] # <<>> /\ outq' = [outq EXCEPT ![p] = Tail(outq[p])]
      /\ UNCHANGED <<inq, counts>>
  BY <1>1 DEF Publish
<1>3. outq[p] \in Seq(Sent) /\ outq[p] \in Seq(Ours(p))
  BY InvOf DEF PressInv, PressTypeOK, PanelsTypeOK
<1>4. m \in Sent /\ m \in Ours(p) /\ Tail(outq[p]) \in Seq(Ours(p))
  BY <1>1, <1>2, <1>3, HeadTailProperties
<1>5. outq'[p] = Tail(outq[p]) /\ \A q \in Panels : q # p => outq'[q] = outq[q]
  BY <1>2 DEF PanelsInv, PanelsTypeOK
<1>6. PressTypeOK'
  <2>1. \A q \in Panels : outq'[q] \in Seq(Ours(q))
    BY <1>4, <1>5 DEF PressInv, PressTypeOK
  <2>2. \A t \in EventTopics \cap Asked : retained'[t] = None
    BY <1>2, <1>4, AcceptRetains DEF Ours
  <2>3. QED
    BY <1>2, <2>1, <2>2 DEF PressInv, PressTypeOK, counts
<1>7. ASSUME NEW q \in Panels, NEW i \in PressRows(q)
      PROVE  Settled(q, i)'
  <2>1. PICK a, b, x, y, z :
          /\ a = toggles[<<q, i>>] /\ b = presses[Awaited(q, i)]
          /\ x = InInq(q, i) /\ y = InDown(q, i) /\ z = InOutq(q, i)
    OBVIOUS
  <2>2. PICK y1, z1 : y1 = InDown(q, i)' /\ z1 = InOutq(q, i)'
    OBVIOUS
  <2>3. /\ a \in Nat /\ b \in Nat /\ x \in Nat /\ y \in Nat /\ z \in Nat
        /\ a + x + y + z <= b
    BY <2>1, SettledIs DEF Settled
  <2>4. InInq(q, i)' = x /\ toggles'[<<q, i>>] = a /\ presses'[Awaited(q, i)] = b
    BY <1>2, <2>1 DEF InInq, counts
  <2>5. PICK mine \in BOOLEAN : mine = (m \in Becoming(q, i))
    <3>1. (m \in Becoming(q, i)) \in BOOLEAN
      OBVIOUS
    <3>2. QED
      BY <3>1
  <2>6. y1 \in Nat /\ z1 \in Nat
    BY <2>2, NextCountsAre
  <2>7. y1 <= y + IF mine THEN 1 ELSE 0
    BY <1>2, <1>4, <2>1, <2>2, <2>5, AcceptCounts
  <2>8. z = z1 + IF mine THEN 1 ELSE 0
    <3>1. PICK S, o : S = Becoming(q, i) /\ o = Rows[q][i].topic[1]
      OBVIOUS
    <3>2. CASE o = p
      <4>1. Source(q, i) = outq[p] /\ Source(q, i)' = Tail(outq[p])
        BY <1>5, <3>1, <3>2 DEF Source
      <4>2. Count(outq[p], S) = Count(Tail(outq[p]), S) + IF m \in S THEN 1 ELSE 0
        BY <1>1, <1>2, <1>3, CountTail
      <4>3. z = Count(outq[p], S) /\ z1 = Count(Tail(outq[p]), S)
        BY <2>1, <2>2, <3>1, <4>1 DEF InOutq
      <4>4. QED
        BY <2>5, <3>1, <4>2, <4>3
    <3>3. CASE o # p
      <4>1. Source(q, i)' = Source(q, i)
        BY <1>5, <3>1, <3>3 DEF Source
      <4>2. z1 = z
        BY <2>1, <2>2, <4>1 DEF InOutq
      <4>3. ~mine
        <5>1. ASSUME m \in Becoming(q, i) PROVE FALSE
          <6>1. m.topic = Rows[q][i].topic /\ m.topic \in EventTopics
            BY <5>1, BecomingIs, RowKeysAre
          <6>2. m.topic[1] = p
            BY <1>4, <6>1 DEF Ours
          <6>3. QED
            BY <3>1, <3>3, <6>1, <6>2
        <5>2. QED
          BY <2>5, <5>1
      <4>4. QED
        BY <2>3, <4>2, <4>3
    <3>4. QED
      BY <3>2, <3>3
  <2>9. a + x + y1 + z1 <= b
    BY <2>3, <2>6, <2>7, <2>8
  <2>10. QED
    BY <2>2, <2>4, <2>9 DEF Settled
<1>8. QED
  BY <1>6, <1>7 DEF PressInv

-----------------------------------------------------------------------------
(* Core 1 asks, reads and subscribes. *)

LEMMA EndSettleSettles ==
    ASSUME PanelsInv, PanelsInv', PressInv, NEW p \in Panels, EndSettle(p)
    PROVE  PressInv'
<1>1. PICK ask : ask = [kind |-> "refresh"]
  OBVIOUS
<1>2. /\ inq' = [inq EXCEPT ![p] = Append(inq[p], ask)] \/ inq' = inq
      /\ UNCHANGED <<outq, down, retained, counts>>
  BY <1>1 DEF EndSettle, Core1Only
<1>3. ASSUME NEW q \in Panels, NEW i \in PressRows(q)
      PROVE  AccountKept(q, i)
  <2>1. InDown(q, i)' = InDown(q, i) /\ InOutq(q, i)' = InOutq(q, i)
    BY <1>2 DEF InDown, InOutq, Source
  <2>2. InInq(q, i)' <= InInq(q, i)
    <3>1. CASE inq'[q] = inq[q]
      <4>1. InInq(q, i)' = InInq(q, i)
        BY <3>1 DEF InInq
      <4>2. QED
        BY <4>1, CountsAre
    <3>2. CASE q = p /\ inq'[q] = Append(inq[p], ask)
      <4>1. PICK S : S = {EntryFor(i)}
        OBVIOUS
      <4>2. ask \in Entries(p) /\ ask \notin S
        BY <1>1, <4>1 DEF Entries, EntryFor
      <4>3. Count(Append(inq[p], ask), S) = Count(inq[p], S) + IF ask \in S THEN 1 ELSE 0
        BY <4>2, InvOf, CountAppend
      <4>4. InInq(q, i) = Count(inq[p], S) /\ InInq(q, i)' = Count(Append(inq[p], ask), S)
        BY <3>2, <4>1 DEF InInq
      <4>5. QED
        BY <4>2, <4>3, <4>4, CountsAre
    <3>3. QED
      BY <1>2, <3>1, <3>2 DEF PanelsInv, PanelsTypeOK
  <2>3. QED
    BY <2>1, <2>2, CountsAre DEF AccountKept
<1>4. \A q \in Panels : outq'[q] \in Seq(Ours(q))
  BY <1>2 DEF PressInv, PressTypeOK
<1>5. \A t \in EventTopics \cap Asked : retained'[t] = None
  BY <1>2 DEF PressInv, PressTypeOK
<1>6. QED
  BY <1>2, <1>3, <1>4, <1>5, PressInvNext

(* What becomes an entry comes off the connection. *)
LEMMA ReceiveSettles ==
    ASSUME PanelsInv, PanelsInv', PressInv, NEW p \in Panels, Receive(p)
    PROVE  PressInv'
<1>1. PICK m \in Sent, entry \in Seq(Entries(p)) :
        /\ m = Head(down[p]) /\ entry = OnMessage(p, m)
        /\ down[p] # <<>> /\ down' = [down EXCEPT ![p] = Tail(down[p])]
        /\ inq' = [inq EXCEPT ![p] = inq[p] \o entry] \/ inq' = inq
        /\ UNCHANGED <<outq, retained>>
  <2>1. \E m \in Sent, entry \in Seq(Entries(p)) :
          /\ m = Head(down[p]) /\ entry = OnMessage(p, m)
          /\ down[p] # <<>> /\ down' = [down EXCEPT ![p] = Tail(down[p])]
          /\ \/ inq' = [inq EXCEPT ![p] = inq[p] \o entry] /\ missed' = missed \ {<<p, m.topic>>}
             \/ inq' = inq /\ entry = <<>> /\ missed' = missed \ {<<p, m.topic>>}
             \/ inq' = inq /\ missed' = missed \cup {<<p, m.topic>>}
          /\ UNCHANGED <<core0, outq, phase, link, step, retained>>
    BY ReceiveIs
  <2>2. QED
    BY <2>1
<1>2. UNCHANGED counts
  BY DEF Receive, Core1Only
<1>3. inq[p] \in Seq(Entries(p)) /\ down[p] \in Seq(Sent)
  BY InvOf
<1>4. /\ down'[p] = Tail(down[p]) /\ \A q \in Panels : q # p => down'[q] = down[q] /\ inq'[q] = inq[q]
      /\ inq'[p] = inq[p] \o entry \/ inq'[p] = inq[p]
  BY <1>1 DEF PanelsInv, PanelsTypeOK
<1>5. PressTypeOK'
  BY <1>1, <1>2 DEF PressInv, PressTypeOK, counts
<1>6. ASSUME NEW q \in Panels, q # p, NEW i \in PressRows(q)
      PROVE  AccountKept(q, i)
  <2>1. InInq(q, i)' = InInq(q, i) /\ InDown(q, i)' = InDown(q, i) /\ InOutq(q, i)' = InOutq(q, i)
    BY <1>1, <1>4, <1>6 DEF InInq, InDown, InOutq, Source
  <2>2. QED
    BY <2>1, CountsAre DEF AccountKept
<1>7. ASSUME NEW i \in PressRows(p)
      PROVE  Settled(p, i)'
  <2>1. PICK a, b, x, y, z :
          /\ a = toggles[<<p, i>>] /\ b = presses[Awaited(p, i)]
          /\ x = InInq(p, i) /\ y = InDown(p, i) /\ z = InOutq(p, i)
    OBVIOUS
  <2>2. PICK x1, y1 : x1 = InInq(p, i)' /\ y1 = InDown(p, i)'
    OBVIOUS
  <2>3. /\ a \in Nat /\ b \in Nat /\ x \in Nat /\ y \in Nat /\ z \in Nat
        /\ a + x + y + z <= b
    BY <2>1, SettledIs DEF Settled
  <2>4. InOutq(p, i)' = z /\ toggles'[<<p, i>>] = a /\ presses'[Awaited(p, i)] = b
    BY <1>1, <1>2, <2>1 DEF InOutq, Source, counts
  <2>5. PICK mine \in BOOLEAN : mine = (m \in Becoming(p, i))
    <3>1. (m \in Becoming(p, i)) \in BOOLEAN
      OBVIOUS
    <3>2. QED
      BY <3>1
  <2>6. x1 \in Nat /\ y1 \in Nat
    BY <2>2, NextCountsAre
  <2>7. y = y1 + IF mine THEN 1 ELSE 0
    <3>1. PICK S : S = Becoming(p, i)
      OBVIOUS
    <3>2. Count(down[p], S) = Count(Tail(down[p]), S) + IF m \in S THEN 1 ELSE 0
      BY <1>1, <1>3, CountTail
    <3>3. y = Count(down[p], S) /\ y1 = Count(Tail(down[p]), S)
      BY <1>4, <2>1, <2>2, <3>1 DEF InDown
    <3>4. QED
      BY <2>5, <3>1, <3>2, <3>3
  <2>8. x1 <= x + IF mine THEN 1 ELSE 0
    <3>1. PICK S : S = {EntryFor(i)}
      OBVIOUS
    <3>2. x = Count(inq[p], S) /\ (x1 = Count(inq[p] \o entry, S) \/ x1 = x)
      BY <1>4, <2>1, <2>2, <3>1 DEF InInq
    <3>3. CASE entry = <<>>
      <4>1. \A k \in 1..Len(entry) : entry[k] \notin S
        BY <3>3
      <4>2. Count(inq[p] \o entry, S) = Count(inq[p], S)
        BY <1>3, <4>1, CountBehind
      <4>3. QED
        BY <2>3, <3>2, <4>2
    <3>4. ASSUME NEW e \in Entries(p), entry = <<e>>
          PROVE  x1 <= x + IF mine THEN 1 ELSE 0
      <4>1. inq[p] \o entry = Append(inq[p], e)
        BY <1>3, <3>4, AppendIsConcat
      <4>2. Count(Append(inq[p], e), S) = Count(inq[p], S) + IF e \in S THEN 1 ELSE 0
        BY <1>3, CountAppend
      <4>3. e \in S => mine
        <5>1. ASSUME e \in S PROVE m \in Becoming(p, i)
          <6>1. OnMessage(p, m) = <<EntryFor(i)>>
            BY <1>1, <3>1, <3>4, <5>1
          <6>2. QED
            BY <6>1 DEF Becoming
        <5>2. QED
          BY <2>5, <5>1
      <4>4. PICK one \in BOOLEAN : one = (e \in S)
        <5>1. (e \in S) \in BOOLEAN
          OBVIOUS
        <5>2. QED
          BY <5>1
      <4>5. x1 = x + (IF one THEN 1 ELSE 0) \/ x1 = x
        BY <3>2, <4>1, <4>2, <4>4
      <4>6. one => mine
        BY <4>3, <4>4
      <4>7. QED
        BY <2>3, <4>5, <4>6
    <3>5. QED
      BY <1>1, <3>3, <3>4, OnMessageIs
  <2>9. a + x1 + y1 + z <= b
    BY <2>3, <2>6, <2>7, <2>8
  <2>10. QED
    BY <2>2, <2>4, <2>9 DEF Settled
<1>8. ASSUME NEW q \in Panels, NEW i \in PressRows(q)
      PROVE  Settled(q, i)'
  BY <1>2, <1>6, <1>7, KeptIsSettled
<1>9. QED
  BY <1>5, <1>8 DEF PressInv

(* No press is among what a subscription replays. *)
LEMMA SubscribeSettles ==
    ASSUME PanelsInv, PanelsInv', PressInv, NEW p \in Panels, Subscribe(p)
    PROVE  PressInv'
<1>1. UNCHANGED counts /\ UNCHANGED <<inq, outq, retained>>
  BY DEF Subscribe, Core1Only
<1>2. CASE ~link[p]
  <2>1. Leave(p)
    BY <1>2 DEF Subscribe
  <2>2. \A q \in Panels : Shrinks(inq[q], inq'[q]) /\ Shrinks(outq[q], outq'[q])
    BY <1>1 DEF Shrinks
  <2>3. QED
    BY <1>1, <2>1, <2>2, LeavingShrinks, LosingKeeps
<1>3. CASE link[p]
  <2>1. PICK k, kept, order :
          /\ k \in 1..Len(Filters[p]) /\ k = step[p] + 1
          /\ kept = {t \in Filters[p][k] : retained[t] # None}
          /\ order \in SetToSeqs(kept)
          /\ down' = [down EXCEPT ![p] = down[p] \o Repeats(order)]
          /\ step' = [step EXCEPT ![p] = k]
          /\ UNCHANGED <<core0, inq, outq, phase, link, retained, missed>>
    BY <1>3, SubscribeIs
  <2>2. EachRepeated(kept, order)
    BY <2>1, RepeatsAre
  <2>3. PICK new : new = Repeats(order)
    OBVIOUS
  <2>4. new \in Seq(Sent)
    BY <2>2, <2>3 DEF EachRepeated
  <2>5. ASSUME NEW j \in 1..Len(new) PROVE new[j].topic \notin EventTopics
    <3>1. order[j] \in kept /\ new[j].topic = order[j]
      BY <2>2, <2>3 DEF EachRepeated, Message
    <3>2. PICK t : t = order[j] /\ t \in Filters[p][k] /\ retained[t] # None
      BY <2>1, <3>1
    <3>3. t \in Asked
      <4>1. Filters[p][k] \in ToSet(Filters[p])
        BY <2>1, FiltersAre DEF ToSet
      <4>2. t \in UNION ToSet(Filters[p])
        BY <3>2, <4>1
      <4>3. QED
        BY <4>2 DEF Asked
    <3>4. t \notin EventTopics
      BY <3>2, <3>3 DEF PressInv, PressTypeOK
    <3>5. QED
      BY <3>1, <3>2, <3>4
  <2>6. ASSUME NEW q \in Panels, NEW i \in PressRows(q)
        PROVE  AccountKept(q, i)
    <3>1. InInq(q, i)' = InInq(q, i) /\ InOutq(q, i)' = InOutq(q, i)
      BY <1>1 DEF InInq, InOutq, Source
    <3>2. InDown(q, i)' = InDown(q, i)
      <4>1. CASE q = p
        <5>1. PICK S : S = Becoming(p, i)
          OBVIOUS
        <5>2. \A j \in 1..Len(new) : new[j] \notin S
          BY <2>5, <4>1, <5>1, OthersBecomeNothing
        <5>3. Count(down[p] \o new, S) = Count(down[p], S)
          BY <2>4, <5>2, InvOf, CountBehind
        <5>4. down'[p] = down[p] \o new
          BY <2>1, <2>3 DEF PanelsInv, PanelsTypeOK
        <5>5. QED
          BY <4>1, <5>1, <5>3, <5>4 DEF InDown
      <4>2. CASE q # p
        <5>1. down'[q] = down[q]
          BY <2>1, <4>2 DEF PanelsInv, PanelsTypeOK
        <5>2. QED
          BY <5>1 DEF InDown
      <4>3. QED
        BY <4>1, <4>2
    <3>3. QED
      BY <3>1, <3>2, CountsAre DEF AccountKept
  <2>7. \A q \in Panels : outq'[q] \in Seq(Ours(q))
    BY <1>1 DEF PressInv, PressTypeOK
  <2>8. \A t \in EventTopics \cap Asked : retained'[t] = None
    BY <1>1 DEF PressInv, PressTypeOK
  <2>9. QED
    BY <1>1, <2>6, <2>7, <2>8, PressInvNext
<1>4. QED
  BY <1>2, <1>3

-----------------------------------------------------------------------------
(* Together. *)

LEMMA PressInitInv == PanelsInit => PressInv
<1> SUFFICES ASSUME PanelsInit PROVE PressInv
  OBVIOUS
<1>1. toggles = [a \in Acting |-> 0] /\ presses = [a \in Waited |-> 0]
  BY DEF PanelsInit, Acting, Waited
<1>2. \A p \in Panels : inq[p] = <<>> /\ outq[p] = <<>> /\ down[p] = <<>>
  BY DEF PanelsInit
<1>3. PressTypeOK
  <2>1. \A p \in Panels : outq[p] \in Seq(Ours(p))
    BY <1>2, EmptySeq
  <2>2. retained = [t \in Asked |-> None]
    BY DEF PanelsInit, Asked
  <2>3. QED
    BY <1>1, <2>1, <2>2 DEF PressTypeOK
<1>4. ASSUME NEW p \in Panels, NEW i \in PressRows(p) PROVE Settled(p, i)
  <2>1. Source(p, i) = <<>>
    BY <1>2 DEF Source
  <2>2. InInq(p, i) = 0 /\ InDown(p, i) = 0 /\ InOutq(p, i) = 0
    BY <1>2, <2>1, CountEmpty DEF InInq, InDown, InOutq
  <2>3. toggles[<<p, i>>] = 0 /\ presses[Awaited(p, i)] = 0
    BY <1>1, RowKeysAre
  <2>4. QED
    BY <2>2, <2>3 DEF Settled
<1>5. QED
  BY <1>3, <1>4 DEF PressInv

LEMMA PressStep == PanelsInv /\ PanelsInv' /\ PressInv /\ [Next]_vars => PressInv'
<1> SUFFICES ASSUME PanelsInv, PanelsInv', PressInv, [Next]_vars PROVE PressInv'
  OBVIOUS
<1>1. CASE UNCHANGED vars
  <2>1. UNCHANGED <<counts, retained>> /\ UNCHANGED <<inq, outq, down>>
    BY <1>1 DEF vars, history, core1
  <2>2. \A q \in Panels : /\ Shrinks(inq[q], inq'[q]) /\ Shrinks(down[q], down'[q])
                          /\ Shrinks(outq[q], outq'[q])
    BY <2>1 DEF Shrinks
  <2>3. QED
    BY <2>1, <2>2, LosingKeeps
<1>2. ASSUME NEW p \in Panels, Core0(p) PROVE PressInv'
  BY <1>2, HandleRefreshSettles, HandleCommandSettles, HandlePressSettles, HandleEdgeSettles,
     RuleEndsSettles DEF Core0
<1>3. ASSUME NEW p \in Panels, Core1(p) PROVE PressInv'
  BY <1>3, ConnectSettles, SubscribeSettles, EndSettleSettles, ReceiveSettles, PublishSettles,
     NoticeDeathSettles DEF Core1
<1>4. ASSUME NEW p \in Panels, Inputs(p) PROVE PressInv'
  <2>1. ASSUME NEW t \in Buttons[p], NEW g \in Gestures, Press(p, t, g) PROVE PressInv'
    BY <2>1, PressSettles
  <2>2. ASSUME NEW t \in RetainedBy(p), SensorMoves(p, t) PROVE PressInv'
    BY <2>2, SensorMovesSettles
  <2>3. CASE LinkBreaks(p)
    BY <2>3, LinkBreaksSettles
  <2>4. CASE PowerCut(p)
    BY <2>4, PowerCutSettles
  <2>5. QED
    BY <1>4, <2>1, <2>2, <2>3, <2>4 DEF Inputs
<1>5. ASSUME NEW m \in Commands, HaCommand(m) PROVE PressInv'
  BY <1>5, HaCommandSettles
<1>6. QED
  BY <1>1, <1>2, <1>3, <1>4, <1>5 DEF Next

(* No crash, no reconnect and no order of the queues makes the rule of a row act  *)
(* on more gestures than were made at its button (Button::onGesture, onMessage,   *)
(* ToggleRule::handle).                                                           *)
THEOREM PressesActOnce == Spec => []PressActsAtMostOnce
<1>1. PanelsInit => PressInv
  BY PressInitInv
<1>2. PanelsInv /\ PanelsInv' /\ PressInv /\ [Next]_vars => PressInv'
  BY PressStep
<1>3. PanelsInv /\ PressInv => PressActsAtMostOnce
  <2> SUFFICES ASSUME PanelsInv, PressInv, NEW p \in Panels, NEW i \in PressRows(p)
               PROVE  toggles[<<p, i>>] <= presses[Awaited(p, i)]
    BY DEF PressActsAtMostOnce
  <2>1. PICK a, b, x, y, z :
          /\ a = toggles[<<p, i>>] /\ b = presses[Awaited(p, i)]
          /\ x = InInq(p, i) /\ y = InDown(p, i) /\ z = InOutq(p, i)
    OBVIOUS
  <2>2. /\ a \in Nat /\ b \in Nat /\ x \in Nat /\ y \in Nat /\ z \in Nat
        /\ a + x + y + z <= b
    BY <2>1, SettledIs DEF Settled
  <2>3. a <= b
    BY <2>2
  <2>4. QED
    BY <2>1, <2>3
<1>4. QED
  BY <1>1, <1>2, <1>3, PanelsInvariantHolds, PTL DEF Spec

-----------------------------------------------------------------------------
(* What comes first in a queue. *)

(* Something of C is in s; everything of E in s comes after something of C. *)
Carries(s, C) == \E j \in 1..Len(s) : s[j] \in C
Precedes(s, C, E) == \A i \in 1..Len(s) : s[i] \in E => \E j \in 1..i - 1 : s[j] \in C

LEMMA EmptyCarries ==
    ASSUME NEW C, NEW E
    PROVE  ~Carries(<<>>, C) /\ Precedes(<<>>, C, E)
BY DEF Carries, Precedes

LEMMA CarriesAppend ==
    ASSUME NEW T, NEW s \in Seq(T), NEW e \in T, NEW C, NEW E
    PROVE  /\ Carries(Append(s, e), C) <=> Carries(s, C) \/ e \in C
           /\ Precedes(s, C, E) /\ (e \in E => Carries(s, C)) => Precedes(Append(s, e), C, E)
<1>1. PICK n, r : n = Len(s) /\ r = Append(s, e)
  OBVIOUS
<1>2. /\ n \in Nat /\ Len(r) = n + 1 /\ r[n + 1] = e
      /\ \A k \in 1..n : r[k] = s[k]
  BY <1>1, AppendProperties, LenProperties
<1>3. /\ \A k \in 1..n + 1 : k \in 1..n \/ k = n + 1
      /\ 1..n \subseteq 1..n + 1 /\ n + 1 \in 1..n + 1
  BY <1>2
<1>4. Carries(r, C) <=> Carries(s, C) \/ e \in C
  BY <1>1, <1>2, <1>3 DEF Carries
<1>5. ASSUME Precedes(s, C, E), e \in E => Carries(s, C), NEW i \in 1..n + 1, r[i] \in E
      PROVE  \E j \in 1..i - 1 : r[j] \in C
  <2>1. CASE i \in 1..n
    <3>1. PICK j \in 1..i - 1 : s[j] \in C
      BY <1>1, <1>2, <1>5, <2>1 DEF Precedes
    <3>2. j \in 1..n
      BY <1>2, <2>1
    <3>3. QED
      BY <1>2, <3>1, <3>2
  <2>2. CASE i = n + 1
    <3>1. PICK j \in 1..n : s[j] \in C
      BY <1>1, <1>2, <1>5, <2>2 DEF Carries
    <3>2. j \in 1..i - 1
      BY <1>2, <2>2
    <3>3. QED
      BY <1>2, <3>1, <3>2
  <2>3. QED
    BY <1>3, <2>1, <2>2
<1>6. QED
  BY <1>1, <1>2, <1>4, <1>5 DEF Precedes

LEMMA CarriesTail ==
    ASSUME NEW T, NEW s \in Seq(T), s # <<>>, NEW C, NEW E
    PROVE  /\ Carries(s, C) <=> Head(s) \in C \/ Carries(Tail(s), C)
           /\ Precedes(s, C, E) => Head(s) \notin E
           /\ Precedes(s, C, E) /\ Head(s) \notin C => Precedes(Tail(s), C, E)
<1>1. PICK n, r : n = Len(s) /\ r = Tail(s)
  OBVIOUS
<1>2. /\ n \in Nat \ {0} /\ Len(r) = n - 1 /\ s[1] = Head(s)
      /\ \A k \in 1..n - 1 : r[k] = s[k + 1]
  BY <1>1, HeadTailProperties, LenProperties
<1>3. /\ \A k \in 1..n - 1 : k + 1 \in 1..n
      /\ \A k \in 1..n : k = 1 \/ (k - 1 \in 1..n - 1 /\ (k - 1) + 1 = k)
      /\ 1 \in 1..n
  BY <1>2
<1>4. Carries(s, C) <=> Head(s) \in C \/ Carries(r, C)
  BY <1>1, <1>2, <1>3 DEF Carries
<1>5. ASSUME Precedes(s, C, E) PROVE Head(s) \notin E
  <2>1. ~\E j \in 1..1 - 1 : s[j] \in C
    OBVIOUS
  <2>2. QED
    BY <1>1, <1>2, <1>3, <1>5, <2>1 DEF Precedes
<1>6. ASSUME Precedes(s, C, E), Head(s) \notin C, NEW i \in 1..n - 1, r[i] \in E
      PROVE  \E j \in 1..i - 1 : r[j] \in C
  <2>1. s[i + 1] \in E /\ i + 1 \in 1..n /\ (i + 1) - 1 = i
    BY <1>2, <1>3, <1>6
  <2>2. PICK j \in 1..(i + 1) - 1 : s[j] \in C
    BY <1>1, <1>6, <2>1 DEF Precedes
  <2>3. j \in 1..i /\ j # 1
    BY <1>2, <1>6, <2>1, <2>2
  <2>4. j - 1 \in 1..i - 1 /\ j - 1 \in 1..n - 1 /\ (j - 1) + 1 = j
    BY <1>2, <2>3
  <2>5. r[j - 1] = s[j]
    BY <1>2, <2>4
  <2>6. QED
    BY <2>2, <2>4, <2>5
<1>7. QED
  BY <1>1, <1>2, <1>4, <1>5, <1>6 DEF Precedes

LEMMA CarriesBehind ==
    ASSUME NEW T, NEW s \in Seq(T), NEW more \in Seq(T), NEW C, NEW E
    PROVE  /\ Carries(s \o more, C) <=> Carries(s, C) \/ Carries(more, C)
           /\ Precedes(s, C, E) /\ (Carries(more, E) => Carries(s, C)) => Precedes(s \o more, C, E)
<1>1. PICK n, d, r : n = Len(s) /\ d = Len(more) /\ r = s \o more
  OBVIOUS
<1>2. /\ n \in Nat /\ d \in Nat /\ Len(r) = n + d
      /\ \A k \in 1..n : r[k] = s[k]
      /\ \A k \in n + 1..n + d : r[k] = more[k - n]
  BY <1>1, ConcatProperties, LenProperties
<1>3. /\ \A k \in 1..n + d : k \in 1..n \/ (k \in n + 1..n + d /\ k - n \in 1..d)
      /\ 1..n \subseteq 1..n + d
      /\ \A k \in 1..d : n + k \in n + 1..n + d /\ n + k \in 1..n + d /\ (n + k) - n = k
  BY <1>2
<1>4. Carries(r, C) <=> Carries(s, C) \/ Carries(more, C)
  <2>1. ASSUME NEW k \in 1..d, more[k] \in C PROVE Carries(r, C)
    <3>1. r[n + k] = more[k]
      BY <1>2, <1>3
    <3>2. QED
      BY <1>2, <1>3, <2>1, <3>1 DEF Carries
  <2>2. ASSUME NEW k \in 1..n + d, r[k] \in C PROVE Carries(s, C) \/ Carries(more, C)
    BY <1>1, <1>2, <1>3, <2>2 DEF Carries
  <2>3. Carries(s, C) => Carries(r, C)
    BY <1>1, <1>2, <1>3 DEF Carries
  <2>4. QED
    BY <1>1, <1>2, <2>1, <2>2, <2>3 DEF Carries
<1>5. ASSUME Precedes(s, C, E), Carries(more, E) => Carries(s, C), NEW i \in 1..n + d, r[i] \in E
      PROVE  \E j \in 1..i - 1 : r[j] \in C
  <2>1. CASE i \in 1..n
    <3>1. PICK j \in 1..i - 1 : s[j] \in C
      BY <1>1, <1>2, <1>5, <2>1 DEF Precedes
    <3>2. j \in 1..n
      BY <1>2, <2>1
    <3>3. QED
      BY <1>2, <3>1, <3>2
  <2>2. CASE i \in n + 1..n + d /\ i - n \in 1..d
    <3>1. Carries(more, E)
      BY <1>1, <1>2, <1>5, <2>2 DEF Carries
    <3>2. PICK j \in 1..n : s[j] \in C
      BY <1>1, <1>5, <3>1 DEF Carries
    <3>3. j \in 1..i - 1
      BY <1>2, <2>2
    <3>4. QED
      BY <1>2, <3>2, <3>3
  <2>3. QED
    BY <1>3, <2>1, <2>2
<1>6. QED
  BY <1>1, <1>2, <1>4, <1>5 DEF Precedes

-----------------------------------------------------------------------------
(* Gates and their commands. *)

LEMMA GateIs ==
    ASSUME NEW p \in Panels, NEW t \in Gates, t \in RetainedBy(p)
    PROVE  /\ t \in [1..5 -> STRING] /\ t \in Reported /\ t[5] = "night_mode" /\ ~IsSensor(t)
           /\ GateCommand(t) = [t EXCEPT ![5] = "set_night_mode"]
           /\ GateCommand(t)[1] = p /\ GateCommand(t)[5] = "set_night_mode"
           /\ GateCommand(t)[3] = t[3] /\ GateCommand(t)[4] = t[4]
           /\ ParseTopic(GateCommand(t)) /\ Len(GateCommand(t)) = 5
<1>1. /\ t \in Seq(STRING) /\ Len(t) = 5 /\ t[1] = p /\ t[3] \in Types /\ t[4] \in Ids
      /\ \A i \in 1..5 : t[i] # ""
      /\ ~IsSensor(t)
  BY GatesAssumption
<1>2. t \in [1..5 -> STRING]
  <2>1. t \in [1..Len(t) -> STRING]
    BY <1>1, LenProperties, Zenon
  <2>2. QED
    BY <1>1, <2>1
<1>3. PICK g : g = [t EXCEPT ![5] = "set_night_mode"]
  OBVIOUS
<1>4. DOMAIN g = 1..5 /\ g[5] = "set_night_mode" /\ g = [i \in 1..5 |-> g[i]]
      /\ \A i \in 1..4 : g[i] = t[i]
  <2>1. DOMAIN t = 1..5 /\ 5 \in 1..5 /\ \A i \in 1..4 : i \in 1..5 /\ i # 5
    BY <1>2
  <2>2. DOMAIN g = 1..5 /\ g[5] = "set_night_mode" /\ \A i \in 1..4 : g[i] = t[i]
    BY <1>3, <2>1
  <2>3. g = [i \in 1..5 |-> g[i]]
    BY <1>3, <2>1
  <2>4. QED
    BY <2>2, <2>3
<1>5. Len(g) = 5
  BY <1>4
<1>6. \A i \in 1..5 : i \in 1..4 \/ i = 5
  OBVIOUS
<1>7. \A i \in 1..5 : g[i] # ""
  BY <1>1, <1>4, <1>6
<1>8. g[1] = p /\ g[3] = t[3] /\ g[4] = t[4]
  <2>1. 1 \in 1..4 /\ 3 \in 1..4 /\ 4 \in 1..4
    OBVIOUS
  <2>2. g[1] = t[1] /\ g[3] = t[3] /\ g[4] = t[4]
    BY <1>4, <2>1
  <2>3. QED
    BY <1>1, <2>2
<1>9. ParseTopic(g)
  BY <1>1, <1>5, <1>7, <1>8 DEF ParseTopic
<1>10. t \in Reported /\ t[5] = "night_mode"
  BY DEF Gates
<1>11. GateCommand(t) = g
  BY <1>3 DEF GateCommand, Topic
<1>12. QED
  BY <1>1, <1>2, <1>3, <1>4, <1>5, <1>8, <1>9, <1>10, <1>11

(* A device belongs to one panel. *)
LEMMA OwnerIs ==
    ASSUME NEW p \in Panels, NEW q \in Panels, NEW t, t \in RetainedBy(p), t \in RetainedBy(q)
    PROVE  p = q
<1>1. t[1] = p /\ t[1] = q
  BY GatesAssumption
<1>2. QED
  BY <1>1

(* No rule waits for what closes a gate: onMessage makes it a command. *)
LEMMA GateCommandIsHeard ==
    ASSUME NEW p \in Panels, NEW t \in Gates, t \in RetainedBy(p), NEW m, m.topic = GateCommand(t)
    PROVE  OnMessage(p, m) = <<[kind |-> "command", topic |-> GateCommand(t), payload |-> m.payload]>>
<1>1. PICK g : g = GateCommand(t)
  OBVIOUS
<1>2. g[1] = p /\ g[5] = "set_night_mode" /\ ParseTopic(g)
  BY <1>1, GateIs
<1>3. PICK c \in Commands : c.topic = g
  <2>1. GateCommand(t) \in {c.topic : c \in Commands}
    BY GatesAssumption
  <2>2. QED
    BY <1>1, <2>1
<1>4. "set_night_mode" \in ToSet(CommandVerbs)
  <2>1. 2 \in DOMAIN CommandVerbs /\ CommandVerbs[2] = "set_night_mode"
    BY DEF CommandVerbs
  <2>2. QED
    BY <2>1 DEF ToSet
<1>5. ASSUME NEW i \in DOMAIN Rows[p] PROVE Rows[p][i].topic # g
  <2>1. CASE Rows[p][i].kind = "edge"
    BY <1>3, <2>1, SensorsAssumption DEF Sensors
  <2>2. CASE Rows[p][i].kind = "press"
    <3>1. i \in PressRows(p)
      BY <2>2 DEF PressRows
    <3>2. Rows[p][i].topic \notin {x.topic : x \in Commands}
      BY <3>1, PressesAssumption
    <3>3. QED
      BY <1>3, <3>2
  <2>3. QED
    BY <2>1, <2>2, GatesAssumption
<1>6. Find(p, m.topic, m.payload) = {}
  BY <1>1, <1>5 DEF Find
<1>7. IsCommandVerb(g[5])
  BY <1>2, <1>4 DEF IsCommandVerb
<1>8. QED
  BY <1>1, <1>2, <1>6, <1>7 DEF OnMessage

(* A command for the building that works the gate is on the gate's topic. *)
LEMMA AskedIs ==
    ASSUME NEW u \in Topics \cup Asked
    PROVE  u \in Topics \cup UNION {{Rows[p][i].topic : i \in DOMAIN Rows[p]} : p \in Panels}
<1>1. SUFFICES ASSUME u \in Asked, u \notin Topics
               PROVE  \E p \in Panels : \E i \in DOMAIN Rows[p] : u = Rows[p][i].topic
  OBVIOUS
<1>2. PICK p \in Panels : u \in UNION ToSet(Filters[p])
  BY <1>1 DEF Asked
<1>3. PICK k \in DOMAIN Filters[p] : u \in Filters[p][k]
  BY <1>2 DEF ToSet
<1>4. PICK all, keep : all = AllFilters(p) /\ keep = {i \in DOMAIN all : all[i] # {}}
  OBVIOUS
<1>5. /\ Filters[p] = Kept(all, keep)
      /\ DOMAIN all = 1..5 + Len(RemoteTopics(p))
      /\ \A i \in 1..5 + Len(RemoteTopics(p)) : all[i] =
             IF i <= 5 THEN Wildcard(p, CommandVerbs[i]) ELSE {RemoteTopics(p)[i - 5]}
      /\ Len(RemoteTopics(p)) \in Nat
  BY <1>4, AllFiltersAre, RemoteTopicsAre DEF Filters, Matched, AllFilters
<1>6. keep \in SUBSET (1..5 + Len(RemoteTopics(p))) /\ 5 + Len(RemoteTopics(p)) \in Nat
  BY <1>4, <1>5
<1>7. PICK i \in keep : Filters[p][k] = all[i]
  <2>1. /\ DOMAIN Kept(all, keep) = 1..Len(Kept(all, keep))
        /\ \A m \in 1..Len(Kept(all, keep)) : \E i \in keep : Kept(all, keep)[m] = all[i]
    BY <1>6, KeptIs
  <2>2. QED
    BY <1>3, <1>5, <2>1
<1>8. CASE i <= 5
  <2>1. u \in Wildcard(p, CommandVerbs[i])
    BY <1>3, <1>5, <1>6, <1>7, <1>8
  <2>2. QED
    BY <1>1, <2>1 DEF Wildcard
<1>9. CASE ~(i <= 5)
  <2>1. u = RemoteTopics(p)[i - 5] /\ i - 5 \in 1..Len(RemoteTopics(p))
    BY <1>3, <1>5, <1>6, <1>7, <1>9
  <2>2. PICK topics, first : /\ topics = [j \in DOMAIN Rows[p] |-> Rows[p][j].topic]
                             /\ first = {a \in DOMAIN topics : \A j \in 1..a - 1 : topics[j] # topics[a]}
    OBVIOUS
  <2>3. RemoteTopics(p) = Kept(topics, first) /\ first \subseteq DOMAIN Rows[p]
    BY <2>2 DEF RemoteTopics
  <2>4. DOMAIN Rows[p] = 1..Len(Rows[p]) /\ Len(Rows[p]) \in Nat
    BY TablesAssumption, LenProperties
  <2>5. PICK j \in first : RemoteTopics(p)[i - 5] = topics[j]
    <3>1. first \in SUBSET (1..Len(Rows[p]))
      BY <2>3, <2>4
    <3>2. \A m \in 1..Len(Kept(topics, first)) : \E j \in first : Kept(topics, first)[m] = topics[j]
      BY <2>4, <3>1, KeptIs
    <3>3. QED
      BY <2>1, <2>3, <3>2
  <2>6. QED
    BY <2>1, <2>2, <2>3, <2>5
<1>10. QED
  BY <1>8, <1>9

(* What is kept stays in order. *)
LEMMA KeptInOrder ==
    ASSUME NEW s, NEW n \in Nat, NEW keep \in SUBSET (1..n), NEW k \in 1..Len(Kept(s, keep))
    PROVE  \E j \in keep : /\ Kept(s, keep)[k] = s[j]
                           /\ \A i \in keep : i < j => \E m \in 1..k - 1 : Kept(s, keep)[m] = s[i]
<1> DEFINE count == Cardinality(keep)
           place(m) == CHOOSE i \in keep : Rank(keep, i) = m
           kept == [m \in 1..count |-> s[place(m)]]
<1>1. Kept(s, keep) = kept
  BY DEF Kept, Rank
<1>2. /\ count \in Nat
      /\ \A i \in keep : Rank(keep, i) \in 1..count
      /\ \A i, j \in keep : Rank(keep, i) = Rank(keep, j) => i = j
      /\ \A m \in 1..count : \E i \in keep : Rank(keep, i) = m
  BY RanksCount
<1>3. \A m \in 1..count : place(m) \in keep /\ Rank(keep, place(m)) = m
  BY <1>2
<1>4. \A i \in keep : Rank(keep, i) \in 1..count /\ place(Rank(keep, i)) = i
  BY <1>2, <1>3
<1>5. DOMAIN kept = 1..count /\ \A m \in 1..count : kept[m] = s[place(m)]
  OBVIOUS
<1>6. ASSUME NEW i \in keep, NEW j \in keep, i < j PROVE Rank(keep, i) < Rank(keep, j)
  <2> DEFINE low == {m \in keep : m <= i}
             high == {m \in keep : m <= j}
  <2>1. IsFiniteSet(keep)
    <3>1. IsFiniteSet(1..n)
      BY FS_Interval
    <3>2. QED
      BY <3>1, FS_Subset
  <2>2. ASSUME NEW m \in keep, m <= i PROVE m <= j
    <3>1. m \in Int /\ i \in Int /\ j \in Int
      OBVIOUS
    <3>2. QED
      BY <1>6, <2>2, <3>1
  <2>3. low \in SUBSET high /\ high \in SUBSET keep
    BY <2>2
  <2>4. Cardinality(low) <= Cardinality(high)
    <3> HIDE DEF low, high
    <3>1. QED
      BY <2>1, <2>3, FS_Subset
  <2>5. Rank(keep, i) <= Rank(keep, j)
    BY <2>4 DEF Rank
  <2>6. Rank(keep, i) # Rank(keep, j)
    BY <1>2, <1>6
  <2>7. Rank(keep, i) \in Int /\ Rank(keep, j) \in Int
    BY <1>2
  <2>8. QED
    BY <2>5, <2>6, <2>7
<1> HIDE DEF place, count, kept
<1>7. Len(kept) = count
  BY <1>2, <1>5
<1>8. PICK j : j = place(k)
  OBVIOUS
<1>9. j \in keep /\ kept[k] = s[j] /\ Rank(keep, j) = k
  BY <1>1, <1>3, <1>5, <1>7, <1>8
<1>10. ASSUME NEW i \in keep, i < j PROVE \E m \in 1..k - 1 : kept[m] = s[i]
  <2>1. PICK m : m = Rank(keep, i)
    OBVIOUS
  <2>2. m \in 1..count /\ m < k /\ k \in 1..count
    BY <1>1, <1>4, <1>6, <1>7, <1>9, <1>10, <2>1
  <2>3. kept[m] = s[i]
    BY <1>4, <1>5, <2>1, <2>2
  <2>4. m \in 1..k - 1
    BY <1>2, <2>2
  <2>5. QED
    BY <2>3, <2>4
<1>11. QED
  BY <1>1, <1>9, <1>10

(* buildSubscriptions: a gate's command is asked for before any remote sensor. *)
LEMMA GateIsAskedFirst ==
    ASSUME NEW p \in Panels, NEW t \in Gates, t \in RetainedBy(p)
    PROVE  /\ GateCommand(t) \in Asked
           /\ \A x \in Sensors(p) : \A k \in 1..Len(Filters[p]) : x \in Filters[p][k] =>
                  \E i \in 1..k - 1 : GateCommand(t) \in Filters[p][i]
<1>1. PICK all, keep, n : /\ all = AllFilters(p) /\ keep = {i \in DOMAIN all : all[i] # {}}
                          /\ n = Len(RemoteTopics(p))
  OBVIOUS
<1>2. /\ Filters[p] = Kept(all, keep) /\ n \in Nat
      /\ DOMAIN all = 1..5 + n
      /\ \A i \in 1..5 + n : all[i] =
             IF i <= 5 THEN Wildcard(p, CommandVerbs[i]) ELSE {RemoteTopics(p)[i - 5]}
  BY <1>1, AllFiltersAre, RemoteTopicsAre DEF Filters, Matched, AllFilters
<1>3. keep \in SUBSET (1..5 + n) /\ 5 + n \in Nat
  BY <1>1, <1>2
<1>4. GateCommand(t) \in all[2] /\ 2 \in keep
  <2>1. all[2] = Wildcard(p, "set_night_mode") /\ 2 \in DOMAIN all
    BY <1>2 DEF CommandVerbs
  <2>2. GateCommand(t) \in {c.topic : c \in Commands}
    BY GatesAssumption
  <2>3. GateCommand(t) \in Wildcard(p, "set_night_mode")
    BY <2>2, GateIs DEF Wildcard, Topics
  <2>4. QED
    BY <1>1, <2>1, <2>3
<1>5. GateCommand(t) \in Asked
  <2>1. PICK k \in 1..Len(Filters[p]) : Filters[p][k] = all[2]
    <3>1. \A i \in keep : \E m \in 1..Len(Kept(all, keep)) : Kept(all, keep)[m] = all[i]
      BY <1>3, KeptIs
    <3>2. QED
      BY <1>2, <1>4, <3>1
  <2>2. Filters[p][k] \in ToSet(Filters[p])
    BY <2>1, FiltersAre DEF ToSet
  <2>3. GateCommand(t) \in UNION ToSet(Filters[p])
    BY <1>4, <2>1, <2>2
  <2>4. QED
    BY <2>3 DEF Asked
<1>6. ASSUME NEW x \in Sensors(p), NEW k \in 1..Len(Filters[p]), x \in Filters[p][k]
      PROVE  \E i \in 1..k - 1 : GateCommand(t) \in Filters[p][i]
  <2>1. PICK j \in keep : /\ Filters[p][k] = all[j]
                          /\ \A i \in keep : i < j => \E m \in 1..k - 1 : Filters[p][m] = all[i]
    <3>1. k \in 1..Len(Kept(all, keep))
      BY <1>2
    <3>2. PICK j \in keep :
            /\ Kept(all, keep)[k] = all[j]
            /\ \A i \in keep : i < j => \E m \in 1..k - 1 : Kept(all, keep)[m] = all[i]
      BY <1>3, <3>1, KeptInOrder
    <3>3. QED
      BY <1>2, <3>2
  <2>2. ~(j <= 5)
    <3>1. SUFFICES ASSUME j <= 5 PROVE FALSE
      OBVIOUS
    <3>2. j \in 1..5
      BY <1>3, <3>1
    <3>3. x[5] = CommandVerbs[j]
      BY <1>2, <1>3, <1>6, <2>1, <3>1 DEF Wildcard
    <3>4. j \in DOMAIN CommandVerbs
      BY <3>2 DEF CommandVerbs
    <3>5. x[5] \in ToSet(CommandVerbs)
      BY <3>3, <3>4 DEF ToSet
    <3>6. QED
      BY <3>5, SensorsAssumption
  <2>3. 2 < j
    BY <1>3, <2>2
  <2>4. PICK m \in 1..k - 1 : Filters[p][m] = all[2]
    BY <1>4, <2>1, <2>3
  <2>5. QED
    BY <1>4, <2>4
<1>7. QED
  BY <1>5, <1>6

-----------------------------------------------------------------------------
(* A gate that stays shut. *)

(* What closes and what opens gate t, as messages and as entries of gInbound, and *)
(* what tells of motion.                                                          *)
Closings(t) == {m \in Sent : m.topic = GateCommand(t) /\ m.payload = "0"}
Openings(t) == {m \in Sent : m.topic = GateCommand(t) /\ m.payload # "0"}
EdgesFor(p) == {m \in Sent : m.topic \in Sensors(p)}
ClosingEntry(t) == [kind |-> "command", topic |-> GateCommand(t), payload |-> "0"]
OpeningEntries(p, t) ==
    {e \in Entries(p) : e.kind = "command" /\ e.topic = GateCommand(t) /\ e.payload # "0"}
EdgeEntries(p) == {e \in Entries(p) : e.kind = "remote" /\ Rows[p][e.row].kind = "edge"}
Strays(p) == {e \in Entries(p) : e.kind = "command" /\ e.topic[1] # p}

(* In gInbound q, or else in what the broker has sent, d, a closing comes before  *)
(* any edge; and once asked for it is in one of them.                             *)
ClosingComes(p, t, q, d, asked) ==
    /\ Precedes(q, {ClosingEntry(t)}, EdgeEntries(p))
    /\ \/ Carries(q, {ClosingEntry(t)})
       \/ Precedes(d, Closings(t), EdgesFor(p)) /\ (asked => Carries(d, Closings(t)))

(* The broker keeps gate t closed and nothing opens it; it is closed, v, or will  *)
(* be before panel p hears of motion.                                             *)
Shut(p, t, v, q, d, asked, kept) ==
    /\ kept = "0" /\ ~Carries(d, Openings(t)) /\ ~Carries(q, OpeningEntries(p, t))
    /\ v = FALSE \/ ClosingComes(p, t, q, d, asked)

GateShut(p, t) ==
    Shut(p, t, value[t], inq[p], down[p], Listens(p, GateCommand(t)), retained[GateCommand(t)])

DayInv ==
    /\ day \subseteq Gates
    /\ \A p \in Panels : ~Carries(inq[p], Strays(p))
    /\ \A p \in Panels : \A t \in day \cap RetainedBy(p) : GateShut(p, t)

(* What onMessage makes of a closing, and of what an edge, an opening comes. *)
HeardAs(p, t, m) ==
    /\ m \in Closings(t) => OnMessage(p, m) = <<ClosingEntry(t)>>
    /\ \A e : OnMessage(p, m) = <<e>> =>
          /\ e \in EdgeEntries(p) => m \in EdgesFor(p)
          /\ e \in OpeningEntries(p, t) => m \in Openings(t)

LEMMA HeardIs ==
    ASSUME NEW p \in Panels, NEW t \in Gates, t \in RetainedBy(p), NEW m \in Sent
    PROVE  HeardAs(p, t, m)
<1>1. ASSUME m \in Closings(t) PROVE OnMessage(p, m) = <<ClosingEntry(t)>>
  BY <1>1, GateCommandIsHeard DEF Closings, ClosingEntry
<1>2. PICK r, c : /\ r = Smallest(Find(p, m.topic, m.payload))
                  /\ c = [kind |-> "command", topic |-> m.topic, payload |-> m.payload]
  OBVIOUS
<1>3. PICK z : z = [kind |-> "remote", row |-> r]
  OBVIOUS
<1>4. \/ OnMessage(p, m) = <<z>> /\ Find(p, m.topic, m.payload) # {}
      \/ OnMessage(p, m) = <<c>>
      \/ OnMessage(p, m) = <<>>
  BY <1>2, <1>3 DEF OnMessage
<1>5. Find(p, m.topic, m.payload) # {} => r \in DOMAIN Rows[p] /\ Rows[p][r].topic = m.topic
  BY <1>2, FoundIs
<1>6. c.kind = "command" /\ c.topic = m.topic /\ c.payload = m.payload /\ z.kind = "remote" /\ z.row = r
  BY <1>2, <1>3
<1>7. ASSUME NEW e, OnMessage(p, m) = <<e>>, e \in EdgeEntries(p)
      PROVE  m \in EdgesFor(p)
  <2>1. e.kind = "remote" /\ Rows[p][e.row].kind = "edge"
    BY <1>7 DEF EdgeEntries
  <2>2. e = z /\ Find(p, m.topic, m.payload) # {}
    BY <1>4, <1>6, <1>7, <2>1
  <2>3. r \in DOMAIN Rows[p] /\ Rows[p][r].topic = m.topic /\ Rows[p][r].kind = "edge"
    BY <1>5, <1>6, <2>1, <2>2
  <2>4. m.topic \in Sensors(p)
    BY <2>3 DEF Sensors
  <2>5. QED
    BY <2>4 DEF EdgesFor
<1>8. ASSUME NEW e, OnMessage(p, m) = <<e>>, e \in OpeningEntries(p, t)
      PROVE  m \in Openings(t)
  <2>1. e.kind = "command" /\ e.topic = GateCommand(t) /\ e.payload # "0"
    BY <1>8 DEF OpeningEntries
  <2>2. e = c
    BY <1>4, <1>6, <1>8, <2>1
  <2>3. QED
    BY <1>6, <2>1, <2>2 DEF Openings
<1>9. QED
  BY <1>1, <1>7, <1>8 DEF HeardAs

LEMMA ApartAre ==
    ASSUME NEW p \in Panels, NEW t \in Gates, t \in RetainedBy(p), NEW m
    PROVE  /\ m \in EdgesFor(p) => m.topic \in Sensors(p) /\ m.topic # GateCommand(t)
           /\ m \notin Closings(t) \/ m \notin Openings(t)
           /\ ClosingEntry(t) \notin EdgeEntries(p) /\ ClosingEntry(t) \notin OpeningEntries(p, t)
<1>1. GateCommand(t) \in {c.topic : c \in Commands}
  BY GatesAssumption
<1>2. \A x \in Sensors(p) : x # GateCommand(t)
  BY <1>1, SensorsAssumption
<1>3. QED
  BY <1>2 DEF EdgesFor, Closings, Openings, ClosingEntry, EdgeEntries, OpeningEntries

(* Core 0 takes the head of gInbound. *)
LEMMA ShutTaken ==
    ASSUME NEW p \in Panels, NEW t \in Gates, t \in RetainedBy(p),
           NEW q \in Seq(Entries(p)), q # <<>>, NEW d, NEW v, NEW w, NEW asked, NEW kept,
           Shut(p, t, v, q, d, asked, kept), w = FALSE \/ (w = v /\ Head(q) # ClosingEntry(t))
    PROVE  Shut(p, t, w, Tail(q), d, asked, kept)
<1>1. PICK C, E, O : C = {ClosingEntry(t)} /\ E = EdgeEntries(p) /\ O = OpeningEntries(p, t)
  OBVIOUS
<1>2. /\ Carries(q, C) <=> Head(q) \in C \/ Carries(Tail(q), C)
      /\ Precedes(q, C, E) /\ Head(q) \notin C => Precedes(Tail(q), C, E)
  BY CarriesTail
<1>3. Carries(q, O) <=> Head(q) \in O \/ Carries(Tail(q), O)
  BY CarriesTail
<1>4. kept = "0" /\ ~Carries(d, Openings(t)) /\ ~Carries(Tail(q), O)
  BY <1>1, <1>3 DEF Shut
<1>5. ASSUME w # FALSE PROVE ClosingComes(p, t, Tail(q), d, asked)
  <2>1. w = v /\ Head(q) \notin C
    BY <1>1, <1>5
  <2>2. ClosingComes(p, t, q, d, asked)
    BY <1>5, <2>1 DEF Shut
  <2>3. QED
    BY <1>1, <1>2, <2>1, <2>2 DEF ClosingComes
<1>6. QED
  BY <1>1, <1>4, <1>5 DEF Shut

(* An edge is not handled before its gate is closed. *)
LEMMA ShutAtAnEdge ==
    ASSUME NEW p \in Panels, NEW t, NEW q \in Seq(Entries(p)), q # <<>>, NEW d, NEW v,
           NEW asked, NEW kept, Shut(p, t, v, q, d, asked, kept), Head(q) \in EdgeEntries(p)
    PROVE  v = FALSE
<1>1. PICK C, E : C = {ClosingEntry(t)} /\ E = EdgeEntries(p)
  OBVIOUS
<1>2. Precedes(q, C, E) => Head(q) \notin E
  BY CarriesTail
<1>3. QED
  BY <1>1, <1>2 DEF Shut, ClosingComes

(* onMessage takes the next message of the broker. *)
LEMMA ShutReceived ==
    ASSUME NEW p \in Panels, NEW t \in Gates, t \in RetainedBy(p), NEW q \in Seq(Entries(p)),
           NEW d \in Seq(Sent), d # <<>>, NEW v, NEW asked, NEW kept,
           Shut(p, t, v, q, d, asked, kept), NEW e \in Entries(p), OnMessage(p, Head(d)) = <<e>>
    PROVE  Shut(p, t, v, Append(q, e), Tail(d), asked, kept)
<1>1. PICK C, E, O, c, f, o, m :
        /\ C = {ClosingEntry(t)} /\ E = EdgeEntries(p) /\ O = OpeningEntries(p, t)
        /\ c = Closings(t) /\ f = EdgesFor(p) /\ o = Openings(t) /\ m = Head(d)
  OBVIOUS
<1>2. m \in Sent
  BY <1>1, HeadTailProperties
<1>3. /\ m \in c => e \in C
      /\ e \in E => m \in f
      /\ e \in O => m \in o
  BY <1>1, <1>2, HeardIs DEF HeardAs
<1>4. /\ Carries(Append(q, e), C) <=> Carries(q, C) \/ e \in C
      /\ Precedes(q, C, E) /\ (e \in E => Carries(q, C)) => Precedes(Append(q, e), C, E)
  BY CarriesAppend
<1>5. Carries(Append(q, e), O) <=> Carries(q, O) \/ e \in O
  BY CarriesAppend
<1>6. /\ Carries(d, c) <=> m \in c \/ Carries(Tail(d), c)
      /\ Precedes(d, c, f) => m \notin f
      /\ Precedes(d, c, f) /\ m \notin c => Precedes(Tail(d), c, f)
  BY <1>1, CarriesTail
<1>7. Carries(d, o) <=> m \in o \/ Carries(Tail(d), o)
  BY <1>1, CarriesTail
<1>8. kept = "0" /\ ~Carries(d, o) /\ ~Carries(q, O)
  BY <1>1 DEF Shut
<1>9. ~Carries(Tail(d), o) /\ ~Carries(Append(q, e), O)
  BY <1>3, <1>5, <1>7, <1>8
<1>10. ASSUME v # FALSE PROVE ClosingComes(p, t, Append(q, e), Tail(d), asked)
  <2>1. ClosingComes(p, t, q, d, asked)
    BY <1>10 DEF Shut
  <2>2. /\ Precedes(q, C, E)
        /\ Carries(q, C) \/ (Precedes(d, c, f) /\ (asked => Carries(d, c)))
    BY <1>1, <2>1 DEF ClosingComes
  <2>3. Precedes(Append(q, e), C, E)
    BY <1>3, <1>4, <1>6, <2>2
  <2>4. \/ Carries(Append(q, e), C)
        \/ Precedes(Tail(d), c, f) /\ (asked => Carries(Tail(d), c))
    BY <1>3, <1>4, <1>6, <2>2
  <2>5. QED
    BY <1>1, <2>3, <2>4 DEF ClosingComes
<1>11. QED
  BY <1>1, <1>8, <1>9, <1>10 DEF Shut

(* onMessage makes nothing of it, or gInbound is full. *)
LEMMA ShutDropped ==
    ASSUME NEW p \in Panels, NEW t \in Gates, t \in RetainedBy(p), NEW q,
           NEW d \in Seq(Sent), d # <<>>, NEW v, NEW asked, NEW kept,
           Shut(p, t, v, q, d, asked, kept), v = FALSE \/ Head(d) \notin Closings(t)
    PROVE  Shut(p, t, v, q, Tail(d), asked, kept)
<1>1. PICK c, f, o, m : c = Closings(t) /\ f = EdgesFor(p) /\ o = Openings(t) /\ m = Head(d)
  OBVIOUS
<1>2. /\ Carries(d, c) <=> m \in c \/ Carries(Tail(d), c)
      /\ Precedes(d, c, f) /\ m \notin c => Precedes(Tail(d), c, f)
  BY <1>1, CarriesTail
<1>3. Carries(d, o) <=> m \in o \/ Carries(Tail(d), o)
  BY <1>1, CarriesTail
<1>4. kept = "0" /\ ~Carries(Tail(d), o) /\ ~Carries(q, OpeningEntries(p, t))
  BY <1>1, <1>3 DEF Shut
<1>5. ASSUME v # FALSE PROVE ClosingComes(p, t, q, Tail(d), asked)
  <2>1. ClosingComes(p, t, q, d, asked) /\ m \notin c
    BY <1>1, <1>5 DEF Shut
  <2>2. QED
    BY <1>1, <1>2, <2>1 DEF ClosingComes
<1>6. QED
  BY <1>1, <1>4, <1>5 DEF Shut

(* Core 1 asks for the states. *)
LEMMA ShutAsks ==
    ASSUME NEW p \in Panels, NEW t, NEW q \in Seq(Entries(p)), NEW d, NEW v, NEW asked, NEW kept,
           Shut(p, t, v, q, d, asked, kept), NEW e \in Entries(p), e.kind = "refresh"
    PROVE  Shut(p, t, v, Append(q, e), d, asked, kept)
<1>1. PICK C, E, O : C = {ClosingEntry(t)} /\ E = EdgeEntries(p) /\ O = OpeningEntries(p, t)
  OBVIOUS
<1>2. e \notin E /\ e \notin O
  BY <1>1 DEF EdgeEntries, OpeningEntries
<1>3. /\ Carries(Append(q, e), C) <=> Carries(q, C) \/ e \in C
      /\ Precedes(q, C, E) /\ (e \in E => Carries(q, C)) => Precedes(Append(q, e), C, E)
  BY CarriesAppend
<1>4. Carries(Append(q, e), O) <=> Carries(q, O) \/ e \in O
  BY CarriesAppend
<1>5. kept = "0" /\ ~Carries(d, Openings(t)) /\ ~Carries(Append(q, e), O)
  BY <1>1, <1>2, <1>4 DEF Shut
<1>6. ASSUME v # FALSE PROVE ClosingComes(p, t, Append(q, e), d, asked)
  <2>1. ClosingComes(p, t, q, d, asked)
    BY <1>6 DEF Shut
  <2>2. QED
    BY <1>1, <1>2, <1>3, <2>1 DEF ClosingComes
<1>7. QED
  BY <1>1, <1>5, <1>6 DEF Shut

(* The broker sends a message that is not an opening. *)
LEMMA ShutSent ==
    ASSUME NEW p \in Panels, NEW t, NEW q, NEW d \in Seq(Sent), NEW v, NEW asked, NEW kept,
           Shut(p, t, v, q, d, asked, kept), NEW m \in Sent, m \notin Openings(t),
           m \in EdgesFor(p) => asked
    PROVE  Shut(p, t, v, q, Append(d, m), asked, kept)
<1>1. PICK c, f, o : c = Closings(t) /\ f = EdgesFor(p) /\ o = Openings(t)
  OBVIOUS
<1>2. /\ Carries(Append(d, m), c) <=> Carries(d, c) \/ m \in c
      /\ Precedes(d, c, f) /\ (m \in f => Carries(d, c)) => Precedes(Append(d, m), c, f)
  BY CarriesAppend
<1>3. Carries(Append(d, m), o) <=> Carries(d, o) \/ m \in o
  BY CarriesAppend
<1>4. kept = "0" /\ ~Carries(Append(d, m), o) /\ ~Carries(q, OpeningEntries(p, t))
  BY <1>1, <1>3 DEF Shut
<1>5. ASSUME v # FALSE PROVE ClosingComes(p, t, q, Append(d, m), asked)
  <2>1. ClosingComes(p, t, q, d, asked)
    BY <1>5 DEF Shut
  <2>2. QED
    BY <1>1, <1>2, <2>1 DEF ClosingComes
<1>6. QED
  BY <1>1, <1>4, <1>5 DEF Shut

(* On a subscription it repeats what it keeps. *)
LEMMA ShutRepeated ==
    ASSUME NEW p \in Panels, NEW t, NEW q, NEW d \in Seq(Sent), NEW v, NEW asked, NEW kept,
           Shut(p, t, v, q, d, asked, kept), NEW more \in Seq(Sent), ~Carries(more, Openings(t)),
           Carries(more, EdgesFor(p)) => asked, NEW soon,
           soon => asked \/ Carries(more, Closings(t))
    PROVE  Shut(p, t, v, q, d \o more, soon, kept)
<1>1. PICK c, f, o : c = Closings(t) /\ f = EdgesFor(p) /\ o = Openings(t)
  OBVIOUS
<1>2. /\ Carries(d \o more, c) <=> Carries(d, c) \/ Carries(more, c)
      /\ Precedes(d, c, f) /\ (Carries(more, f) => Carries(d, c)) => Precedes(d \o more, c, f)
  BY CarriesBehind
<1>3. Carries(d \o more, o) <=> Carries(d, o) \/ Carries(more, o)
  BY CarriesBehind
<1>4. kept = "0" /\ ~Carries(d \o more, o) /\ ~Carries(q, OpeningEntries(p, t))
  BY <1>1, <1>3 DEF Shut
<1>5. ASSUME v # FALSE PROVE ClosingComes(p, t, q, d \o more, soon)
  <2>1. ClosingComes(p, t, q, d, asked)
    BY <1>5 DEF Shut
  <2>2. QED
    BY <1>1, <1>2, <2>1 DEF ClosingComes
<1>6. QED
  BY <1>1, <1>4, <1>5 DEF Shut

(* A connection ends or begins: nothing has been asked for or sent. *)
LEMMA ShutAlone ==
    ASSUME NEW p, NEW t, NEW q, NEW d, NEW v, NEW asked, NEW kept,
           Shut(p, t, v, q, d, asked, kept)
    PROVE  Shut(p, t, v, q, <<>>, FALSE, kept)
BY EmptyCarries DEF Shut, ClosingComes

LEMMA ShutAtBoot ==
    ASSUME NEW p, NEW t, NEW v
    PROVE  Shut(p, t, v, <<>>, <<>>, FALSE, "0")
BY EmptyCarries DEF Shut, ClosingComes

-----------------------------------------------------------------------------
(* No step opens a gate that the broker keeps closed. *)

LEMMA DayOf ==
    ASSUME PanelsInv, DayInv, NEW p \in Panels
    PROVE  /\ inq[p] \in Seq(Entries(p)) /\ down[p] \in Seq(Sent) /\ ~Carries(inq[p], Strays(p))
           /\ value \in [Reported -> BOOLEAN] /\ day \subseteq Gates
           /\ \A t \in day \cap RetainedBy(p) : t \in Gates /\ GateShut(p, t)
BY DEF DayInv, PanelsInv, PanelsTypeOK

(* What a gate depends on. *)
SameGate(p, t) ==
    /\ value'[t] = value[t] /\ inq'[p] = inq[p] /\ down'[p] = down[p]
    /\ link'[p] = link[p] /\ step'[p] = step[p]
    /\ retained'[GateCommand(t)] = retained[GateCommand(t)]

LEMMA SameGateIsShut ==
    ASSUME NEW p, NEW t, GateShut(p, t), SameGate(p, t)
    PROVE  GateShut(p, t)'
<1>1. Listens(p, GateCommand(t))' <=> Listens(p, GateCommand(t))
  BY DEF SameGate, Listens
<1>2. QED
  BY <1>1 DEF GateShut, SameGate, Shut, ClosingComes

LEMMA ValueIs ==
    ASSUME value \in [Reported -> BOOLEAN], NEW p, NEW u \in Reported, NEW b, SetValue(p, u, b)
    PROVE  \A t \in Reported : value'[t] = IF t = u THEN b ELSE value[t]
<1>1. (value' = value /\ value[u] = b) \/ value' = [value EXCEPT ![u] = b]
  BY DEF SetValue
<1>2. QED
  BY <1>1

GatesKeepTheirValue == \A t \in Gates : value'[t] = value[t]

LEMMA GatesAreReported == Gates \subseteq Reported /\ \A t \in Gates : t[5] = "night_mode"
BY DEF Gates

(* A step that sets something else, or nothing. *)
LEMMA OthersSet ==
    ASSUME value \in [Reported -> BOOLEAN], NEW p, NEW u \in Reported, u \notin Gates, NEW b,
           SetValue(p, u, b) \/ UNCHANGED <<value, outq, lost>>
    PROVE  GatesKeepTheirValue
BY ValueIs, GatesAreReported DEF GatesKeepTheirValue

LEMMA LampIsNoGate ==
    ASSUME NEW p \in Panels, NEW i \in DOMAIN Rows[p]
    PROVE  Rows[p][i].lamp \in Reported /\ Rows[p][i].lamp \notin Gates
<1>1. Rows[p][i].lamp[5] = "state"
  BY GatesAssumption
<1>2. QED
  BY <1>1, RowIs, GatesAreReported

(* Nothing that a gate depends on changes. *)
LEMMA OutsideLeavesShut ==
    ASSUME PanelsInv, DayInv, UNCHANGED <<inq, core1, retained, day>>, GatesKeepTheirValue
    PROVE  DayInv'
<1>1. ASSUME NEW p \in Panels, NEW t \in day \cap RetainedBy(p) PROVE GateShut(p, t)'
  <2>1. t \in Gates /\ GateShut(p, t)
    BY DayOf
  <2>2. SameGate(p, t)
    BY <2>1 DEF SameGate, core1, GatesKeepTheirValue
  <2>3. QED
    BY <2>1, <2>2, SameGateIsShut
<1>2. ASSUME NEW p \in Panels PROVE ~Carries(inq'[p], Strays(p))
  BY DayOf
<1>3. day' \subseteq Gates
  BY DEF DayInv
<1>4. QED
  BY <1>1, <1>2, <1>3 DEF DayInv

LEMMA SensorMovesLeavesShut ==
    ASSUME PanelsInv, DayInv, NEW p \in Panels, NEW t \in RetainedBy(p), SensorMoves(p, t)
    PROVE  DayInv'
<1>1. t \in Reported /\ t \notin Gates
  <2>1. t \in Reported
    BY OwnIsReported
  <2>2. IsSensor(t)
    BY DEF SensorMoves
  <2>3. QED
    BY <2>1, <2>2, GatesAssumption
<1>2. SetValue(p, t, ~value[t]) /\ UNCHANGED <<inq, core1, retained, day>>
  BY DEF SensorMoves
<1>3. GatesKeepTheirValue
  BY <1>1, <1>2, OthersSet DEF PanelsInv, PanelsTypeOK
<1>4. QED
  BY <1>2, <1>3, OutsideLeavesShut

LEMMA PressLeavesShut ==
    ASSUME PanelsInv, DayInv, NEW p \in Panels, NEW t \in Buttons[p], NEW gesture \in Gestures,
           Press(p, t, gesture)
    PROVE  DayInv'
<1>1. UNCHANGED <<inq, core1, retained, day>> /\ GatesKeepTheirValue
  BY DEF Press, core0, GatesKeepTheirValue
<1>2. QED
  BY <1>1, OutsideLeavesShut

LEMMA RuleEndsLeavesShut ==
    ASSUME PanelsInv, DayInv, NEW p \in Panels, RuleEnds(p)
    PROVE  DayInv'
<1>1. PICK i \in DOMAIN Rows[p] :
        /\ SetValue(p, Rows[p][i].lamp, FALSE) \/ UNCHANGED <<value, outq, lost>>
        /\ UNCHANGED <<picture, inq, toggles, Untouched>>
  BY DEF RuleEnds
<1>2. GatesKeepTheirValue
  <2>1. value \in [Reported -> BOOLEAN]
    BY DEF PanelsInv, PanelsTypeOK
  <2>2. PICK u : u = Rows[p][i].lamp
    OBVIOUS
  <2>3. u \in Reported /\ u \notin Gates
    BY <2>2, LampIsNoGate
  <2>4. QED
    BY <1>1, <2>1, <2>2, <2>3, OthersSet
<1>3. QED
  BY <1>1, <1>2, OutsideLeavesShut DEF Untouched

(* Core 0 of p works off the head of its queue. *)
LEMMA TakenLeavesShut ==
    ASSUME PanelsInv, DayInv, NEW p \in Panels, Next0(p), UNCHANGED <<core1, retained, day>>,
           \A t \in Gates : t \notin RetainedBy(p) => value'[t] = value[t],
           \A t \in day \cap RetainedBy(p) :
               value'[t] = FALSE \/ (value'[t] = value[t] /\ Head(inq[p]) # ClosingEntry(t))
    PROVE  DayInv'
<1>1. /\ inq[p] \in Seq(Entries(p)) /\ inq[p] # <<>> /\ inq'[p] = Tail(inq[p])
      /\ \A q \in Panels : q # p => inq'[q] = inq[q]
  BY DayOf DEF Next0, PanelsInv, PanelsTypeOK
<1>2. ASSUME NEW q \in Panels, NEW t \in day \cap RetainedBy(q) PROVE GateShut(q, t)'
  <2>1. t \in Gates /\ GateShut(q, t)
    BY DayOf
  <2>2. CASE q = p
    <3>1. PICK w, a : w = value'[t] /\ a = Listens(p, GateCommand(t))
      OBVIOUS
    <3>2. Shut(p, t, w, Tail(inq[p]), down[p], a, retained[GateCommand(t)])
      BY <1>1, <2>1, <2>2, <3>1, ShutTaken DEF GateShut
    <3>3. Listens(p, GateCommand(t))' <=> a
      BY <3>1 DEF Listens, core1
    <3>4. QED
      BY <1>1, <2>2, <3>1, <3>2, <3>3 DEF GateShut, Shut, ClosingComes, core1
  <2>3. CASE q # p
    <3>1. t \notin RetainedBy(p)
      BY <2>3, OwnerIs
    <3>2. SameGate(q, t)
      BY <1>1, <2>1, <2>3, <3>1 DEF SameGate, core1
    <3>3. QED
      BY <2>1, <3>2, SameGateIsShut
  <2>4. QED
    BY <2>2, <2>3
<1>3. ASSUME NEW q \in Panels PROVE ~Carries(inq'[q], Strays(q))
  <2>1. ~Carries(inq[q], Strays(q))
    BY DayOf
  <2>2. Carries(Tail(inq[p]), Strays(p)) => Carries(inq[p], Strays(p))
    BY <1>1, CarriesTail
  <2>3. QED
    BY <1>1, <2>1, <2>2
<1>4. day' \subseteq Gates
  BY DEF DayInv
<1>5. QED
  BY <1>2, <1>3, <1>4 DEF DayInv

(* An entry that is no command. *)
LEMMA NoCommandLeavesShut ==
    ASSUME PanelsInv, DayInv, NEW p \in Panels, Next0(p), UNCHANGED <<core1, retained, day>>,
           GatesKeepTheirValue, Head(inq[p]).kind # "command"
    PROVE  DayInv'
<1>1. \A t : Head(inq[p]) # ClosingEntry(t)
  BY DEF ClosingEntry
<1>2. \A t \in day : value'[t] = value[t]
  BY DEF GatesKeepTheirValue, DayInv
<1>3. QED
  BY <1>1, <1>2, TakenLeavesShut DEF GatesKeepTheirValue

LEMMA HandleRefreshLeavesShut ==
    ASSUME PanelsInv, DayInv, NEW p \in Panels, HandleRefresh(p)
    PROVE  DayInv'
<1>1. /\ Next0(p) /\ UNCHANGED <<core1, retained, day>> /\ GatesKeepTheirValue
      /\ Head(inq[p]).kind # "command"
  BY DEF HandleRefresh, Untouched, core0, GatesKeepTheirValue
<1>2. QED
  BY <1>1, NoCommandLeavesShut

LEMMA HandlePressLeavesShut ==
    ASSUME PanelsInv, DayInv, NEW p \in Panels, HandlePress(p)
    PROVE  DayInv'
<1>1. Head(inq[p]) \in Entries(p) /\ Head(inq[p]).kind = "remote" /\ Next0(p)
  BY InvOf, HeadTailProperties DEF HandlePress, Next0
<1>2. PICK r, u : r = Head(inq[p]).row /\ u = Rows[p][r].lamp
  OBVIOUS
<1>3. r \in DOMAIN Rows[p]
  BY <1>1, <1>2 DEF Entries
<1>4. u \in Reported /\ u \notin Gates
  BY <1>2, <1>3, LampIsNoGate
<1>5. SetValue(p, u, ~value[u]) /\ UNCHANGED <<core1, retained, day>>
  BY <1>2 DEF HandlePress, Untouched
<1>6. GatesKeepTheirValue
  BY <1>4, <1>5, OthersSet DEF PanelsInv, PanelsTypeOK
<1>7. QED
  BY <1>1, <1>5, <1>6, NoCommandLeavesShut

(* What HandleEdge does with the lamp of its row. *)
EdgeHandled(p, r) ==
    /\ r \in DOMAIN Rows[p] /\ r = Head(inq[p]).row
    /\ Rows[p][r].kind = "edge" /\ Head(inq[p]) \in EdgeEntries(p) /\ Next0(p)
    /\ \/ SetValue(p, Rows[p][r].lamp, TRUE) /\ value[Topic(Rows[p][r].lamp, "night_mode")]
       \/ UNCHANGED <<value, outq, lost>>
    /\ UNCHANGED <<core1, retained, day>>

LEMMA HandleEdgeIs ==
    ASSUME PanelsInv, NEW p \in Panels, HandleEdge(p)
    PROVE  \E r : EdgeHandled(p, r)
<1>1. Head(inq[p]) \in Entries(p) /\ Head(inq[p]).kind = "remote" /\ Next0(p)
  BY InvOf, HeadTailProperties DEF HandleEdge, Next0
<1>2. PICK r : r = Head(inq[p]).row
  OBVIOUS
<1>3. r \in DOMAIN Rows[p]
  BY <1>1, <1>2 DEF Entries
<1>4. Rows[p][r].kind = "edge"
  BY <1>2 DEF HandleEdge
<1>5. Head(inq[p]) \in EdgeEntries(p)
  BY <1>1, <1>2, <1>4 DEF EdgeEntries
<1>6. /\ \/ SetValue(p, Rows[p][r].lamp, TRUE) /\ value[Topic(Rows[p][r].lamp, "night_mode")]
         \/ UNCHANGED <<value, outq, lost>>
      /\ UNCHANGED <<core1, retained, day>>
  BY <1>2 DEF HandleEdge, Untouched
<1>7. EdgeHandled(p, r)
  BY <1>1, <1>2, <1>3, <1>4, <1>5, <1>6 DEF EdgeHandled
<1>8. QED
  BY <1>7

LEMMA HandleEdgeLeavesShut ==
    ASSUME PanelsInv, DayInv, NEW p \in Panels, HandleEdge(p)
    PROVE  DayInv'
<1>1. PICK r : EdgeHandled(p, r)
  BY HandleEdgeIs
<1>2. PICK u : u = Rows[p][r].lamp
  OBVIOUS
<1>3. u \in Reported /\ u \notin Gates
  BY <1>1, <1>2, LampIsNoGate DEF EdgeHandled
<1>4. SetValue(p, u, TRUE) \/ UNCHANGED <<value, outq, lost>>
  BY <1>1, <1>2 DEF EdgeHandled
<1>5. GatesKeepTheirValue
  BY <1>3, <1>4, OthersSet DEF PanelsInv, PanelsTypeOK
<1>6. Next0(p) /\ UNCHANGED <<core1, retained, day>> /\ Head(inq[p]).kind # "command"
  BY <1>1 DEF EdgeHandled, EdgeEntries
<1>7. QED
  BY <1>5, <1>6, NoCommandLeavesShut

LEMMA HandleCommandLeavesShut ==
    ASSUME PanelsInv, DayInv, NEW p \in Panels, HandleCommand(p)
    PROVE  DayInv'
<1>1. PICK e, verb, target :
        /\ e = Head(inq[p]) /\ verb = e.topic[5]
        /\ target = {t \in RetainedBy(p) : /\ verb \in DOMAIN Obeys /\ t[5] = Obeys[verb]
                                           /\ t[3] = e.topic[3] /\ t[4] = e.topic[4]
                                           /\ ~IsSensor(t)}
  OBVIOUS
<1>2. /\ Next0(p) /\ e.kind = "command" /\ UNCHANGED <<core1, retained, day>>
      /\ \/ (e.payload \notin {"0", "1"} \/ target = {}) /\ value' = value
         \/ /\ e.payload \in {"0", "1"} /\ target # {}
            /\ \E u \in target : SetValue(p, u, e.payload = "1")
  BY <1>1 DEF HandleCommand, Untouched
<1>3. /\ e \in Entries(p) /\ e \notin Strays(p)
      /\ value \in [Reported -> BOOLEAN] /\ inq[p] \in Seq(Entries(p)) /\ inq[p] # <<>>
  <2>1. inq[p] \in Seq(Entries(p)) /\ inq[p] # <<>> /\ ~Carries(inq[p], Strays(p))
    BY <1>2, DayOf DEF Next0
  <2>2. Head(inq[p]) \in Entries(p) /\ Head(inq[p]) \notin Strays(p)
    BY <2>1, CarriesTail, HeadTailProperties
  <2>3. QED
    BY <1>1, <2>1, <2>2, DayOf
<1>4. e.topic \in Topics \cup Asked /\ e.topic[1] = p
  BY <1>2, <1>3 DEF Entries, Strays
<1>5. ASSUME NEW u \in target, SetValue(p, u, e.payload = "1"), NEW t \in Gates
      PROVE  value'[t] = IF t = u THEN (e.payload = "1") ELSE value[t]
  <2>1. u \in Reported
    BY <1>1, OwnIsReported
  <2>2. QED
    BY <1>3, <1>5, <2>1, ValueIs, GatesAreReported
<1>6. ASSUME NEW t \in Gates, t \notin RetainedBy(p) PROVE value'[t] = value[t]
  BY <1>1, <1>2, <1>5, <1>6
<1>7. ASSUME NEW t \in day \cap RetainedBy(p)
      PROVE  value'[t] = FALSE \/ (value'[t] = value[t] /\ Head(inq[p]) # ClosingEntry(t))
  <2>1. t \in Gates /\ GateShut(p, t)
    BY DayOf
  <2>2. e \notin OpeningEntries(p, t)
    <3>1. ~Carries(inq[p], OpeningEntries(p, t))
      BY <2>1 DEF GateShut, Shut
    <3>2. QED
      BY <1>1, <1>3, <3>1, CarriesTail
  <2>3. /\ t[1] = p /\ t[5] = "night_mode" /\ ~IsSensor(t)
        /\ GateCommand(t)[5] = "set_night_mode" /\ GateCommand(t)[3] = t[3] /\ GateCommand(t)[4] = t[4]
    BY <2>1, GateIs, GatesAssumption
  <2>4. DOMAIN Obeys = {"set_binary", "set_night_mode"} /\ Obeys["set_night_mode"] = "night_mode"
        /\ Obeys["set_binary"] = "state"
    BY DEF Obeys
  <2>5. CASE e = ClosingEntry(t)
    <3>1. e.payload = "0" /\ e.topic = GateCommand(t)
      BY <2>5 DEF ClosingEntry
    <3>2. verb = "set_night_mode" /\ t \in target
      BY <1>1, <2>1, <2>3, <2>4, <3>1
    <3>3. ASSUME NEW u \in target PROVE u = t
      <4>1. u \in RetainedBy(p) /\ u[5] = t[5] /\ u[3] = t[3] /\ u[4] = t[4]
        BY <1>1, <2>3, <2>4, <3>1, <3>2
      <4>2. QED
        BY <4>1, GatesAssumption
    <3>4. SetValue(p, t, e.payload = "1")
      BY <1>2, <3>1, <3>2, <3>3
    <3>5. value'[t] = (e.payload = "1")
      BY <1>5, <2>1, <3>2, <3>4
    <3>6. QED
      BY <3>1, <3>5
  <2>6. CASE e # ClosingEntry(t)
    <3>1. ASSUME t \in target, e.payload \in {"0", "1"} PROVE e.payload # "1"
      <4>1. verb = "set_night_mode" /\ t[3] = e.topic[3] /\ t[4] = e.topic[4]
        BY <1>1, <2>3, <2>4, <3>1
      <4>2. e.topic = GateCommand(t)
        <5>1. PICK x : x = e.topic
          OBVIOUS
        <5>2. x \in Topics \cup UNION {{Rows[q][i].topic : i \in DOMAIN Rows[q]} : q \in Panels}
          BY <1>4, <5>1, AskedIs
        <5>3. x[1] = t[1] /\ x[3] = t[3] /\ x[4] = t[4] /\ x[5] = "set_night_mode"
          BY <1>1, <1>4, <2>3, <4>1, <5>1
        <5>4. x = GateCommand(t)
          BY <2>1, <5>2, <5>3, GatesAssumption
        <5>5. QED
          BY <5>1, <5>4
      <4>3. QED
        BY <1>2, <1>3, <2>2, <4>2 DEF OpeningEntries
    <3>2. value'[t] = value[t] \/ value'[t] = FALSE
      <4>1. CASE value' = value
        BY <4>1
      <4>2. ASSUME NEW u \in target, SetValue(p, u, e.payload = "1"), e.payload \in {"0", "1"}
            PROVE  value'[t] = value[t] \/ value'[t] = FALSE
        <5>1. value'[t] = IF t = u THEN (e.payload = "1") ELSE value[t]
          BY <1>5, <2>1, <4>2
        <5>2. CASE t = u
          <6>1. e.payload # "1"
            BY <3>1, <4>2, <5>2
          <6>2. QED
            BY <5>1, <5>2, <6>1
        <5>3. CASE t # u
          BY <5>1, <5>3
        <5>4. QED
          BY <5>2, <5>3
      <4>3. QED
        BY <1>2, <4>1, <4>2
    <3>3. QED
      BY <1>1, <2>6, <3>2
  <2>7. QED
    BY <2>5, <2>6
<1>8. QED
  BY <1>2, <1>6, <1>7, TakenLeavesShut

-----------------------------------------------------------------------------
(* The broker keeps and sends. *)

(* Whoever has asked for a remote sensor has asked for the gate. *)
LEMMA GateIsHeardFirst ==
    ASSUME PanelsInv, NEW p \in Panels, NEW t \in Gates, t \in RetainedBy(p),
           NEW x \in Sensors(p), Listens(p, x)
    PROVE  Listens(p, GateCommand(t))
<1>1. PICK i \in 1..step[p] : x \in Filters[p][i]
  BY DEF Listens
<1>2. step[p] \in Nat /\ step[p] <= Len(Filters[p]) /\ Len(Filters[p]) \in Nat
  BY FiltersAre DEF PanelsInv, PanelsTypeOK
<1>3. i \in 1..Len(Filters[p])
  BY <1>2
<1>4. PICK j \in 1..i - 1 : GateCommand(t) \in Filters[p][j]
  BY <1>1, <1>3, GateIsAskedFirst
<1>5. j \in 1..step[p]
  BY <1>2
<1>6. QED
  BY <1>4, <1>5 DEF Listens

LEMMA AcceptLeavesShut ==
    ASSUME PanelsInv, DayInv, NEW m \in Sent, Accept(m), UNCHANGED <<value, inq, link, step>>
    PROVE  DayInv'
<1>1. /\ day' = day \ {t \in Gates : GateCommand(t) = m.topic /\ m.payload # "0"}
      /\ retained' = IF m.retained /\ m.topic \in DOMAIN retained
                     THEN [retained EXCEPT ![m.topic] = m.payload] ELSE retained
      /\ \A q \in Panels : down'[q] = IF Listens(q, m.topic) THEN Append(down[q], m) ELSE down[q]
  BY DEF Accept
<1>2. ASSUME NEW p \in Panels, NEW t \in day' \cap RetainedBy(p) PROVE GateShut(p, t)'
  <2>1. PICK g, d, a : g = GateCommand(t) /\ d = down[p] /\ a = Listens(p, GateCommand(t))
    OBVIOUS
  <2>2. /\ t \in day /\ t \in Gates
        /\ m.topic = g => m.payload = "0"
        /\ d \in Seq(Sent) /\ GateShut(p, t)
    BY <1>1, <2>1, DayOf
  <2>3. Shut(p, t, value[t], inq[p], d, a, retained[g])
    BY <2>1, <2>2 DEF GateShut
  <2>4. retained[g] = "0" /\ retained'[g] = "0"
    <3>1. retained[g] = "0"
      BY <2>3 DEF Shut
    <3>2. CASE m.topic = g
      <4>1. m.payload = "0"
        BY <2>2, <3>2
      <4>2. QED
        BY <1>1, <3>1, <3>2, <4>1
    <3>3. CASE m.topic # g
      BY <1>1, <3>1, <3>3
    <3>4. QED
      BY <3>1, <3>2, <3>3
  <2>5. Listens(p, GateCommand(t))' <=> a
    BY <2>1 DEF Listens
  <2>6. Shut(p, t, value[t], inq[p], down'[p], a, retained[g])
    <3>1. CASE Listens(p, m.topic)
      <4>1. m \notin Openings(t)
        BY <2>1, <2>2 DEF Openings
      <4>2. m \in EdgesFor(p) => a
        BY <2>1, <2>2, <3>1, GateIsHeardFirst DEF EdgesFor
      <4>3. Shut(p, t, value[t], inq[p], Append(d, m), a, retained[g])
        BY <2>2, <2>3, <4>1, <4>2, ShutSent
      <4>4. QED
        BY <1>1, <2>1, <3>1, <4>3
    <3>2. CASE ~Listens(p, m.topic)
      BY <1>1, <2>1, <2>3, <3>2
    <3>3. QED
      BY <3>1, <3>2
  <2>7. QED
    BY <2>1, <2>4, <2>5, <2>6 DEF GateShut, Shut, ClosingComes
<1>3. ASSUME NEW p \in Panels PROVE ~Carries(inq'[p], Strays(p))
  BY DayOf
<1>4. day' \subseteq Gates
  BY <1>1 DEF DayInv
<1>5. QED
  BY <1>2, <1>3, <1>4 DEF DayInv

LEMMA HaCommandLeavesShut ==
    ASSUME PanelsInv, DayInv, NEW m \in Commands, HaCommand(m)
    PROVE  DayInv'
<1>1. m \in Sent /\ Accept(m) /\ UNCHANGED <<value, inq, link, step>>
  BY CommandIsSent DEF HaCommand, core0
<1>2. QED
  BY <1>1, AcceptLeavesShut

LEMMA PublishLeavesShut ==
    ASSUME PanelsInv, DayInv, NEW p \in Panels, Publish(p)
    PROVE  DayInv'
<1>1. outq[p] \in Seq(Sent) /\ outq[p] # <<>>
  BY DEF Publish, PanelsInv, PanelsTypeOK
<1>2. Head(outq[p]) \in Sent
  BY <1>1, HeadTailProperties
<1>3. Accept(Head(outq[p])) /\ UNCHANGED <<value, inq, link, step>>
  BY DEF Publish, core0
<1>4. QED
  BY <1>2, <1>3, AcceptLeavesShut

-----------------------------------------------------------------------------
(* A connection begins or ends. *)

LEMMA AloneLeavesShut ==
    ASSUME PanelsInv, DayInv, NEW p \in Panels, UNCHANGED <<value, inq, retained, day>>,
           down'[p] = <<>>, link'[p] = FALSE \/ step'[p] = 0,
           \A q \in Panels : q # p =>
               link'[q] = link[q] /\ step'[q] = step[q] /\ down'[q] = down[q]
    PROVE  DayInv'
<1>1. ASSUME NEW q \in Panels, NEW t \in day' \cap RetainedBy(q) PROVE GateShut(q, t)'
  <2>1. t \in day /\ GateShut(q, t)
    BY DayOf
  <2>2. CASE q = p
    <3>1. Shut(q, t, value[t], inq[q], <<>>, FALSE, retained[GateCommand(t)])
      BY <2>1, ShutAlone DEF GateShut
    <3>2. ~Listens(q, GateCommand(t))'
      BY <2>2 DEF Listens
    <3>3. QED
      BY <2>2, <3>1, <3>2 DEF GateShut, Shut, ClosingComes
  <2>3. CASE q # p
    <3>1. SameGate(q, t)
      BY <2>3 DEF SameGate
    <3>2. QED
      BY <2>1, <3>1, SameGateIsShut
  <2>4. QED
    BY <2>2, <2>3
<1>2. ASSUME NEW q \in Panels PROVE ~Carries(inq'[q], Strays(q))
  BY DayOf
<1>3. day' \subseteq Gates
  BY DEF DayInv
<1>4. QED
  BY <1>1, <1>2, <1>3 DEF DayInv

LEMMA LeavingLeavesShut ==
    ASSUME PanelsInv, DayInv, NEW p \in Panels, Leave(p), UNCHANGED <<value, inq, retained, day>>
    PROVE  DayInv'
<1>1. /\ link'[p] = FALSE /\ down'[p] = <<>>
      /\ \A q \in Panels : q # p =>
            link'[q] = link[q] /\ step'[q] = step[q] /\ down'[q] = down[q]
  BY InvOf, LeaveIs
<1>2. QED
  BY <1>1, AloneLeavesShut

LEMMA NoticeDeathLeavesShut ==
    ASSUME PanelsInv, DayInv, NEW p \in Panels, NoticeDeath(p)
    PROVE  DayInv'
BY LeavingLeavesShut DEF NoticeDeath, Core1Only, core0

LEMMA ConnectLeavesShut ==
    ASSUME PanelsInv, DayInv, NEW p \in Panels, Connect(p)
    PROVE  DayInv'
<1>1. /\ link' = [link EXCEPT ![p] = TRUE] /\ step' = [step EXCEPT ![p] = 0]
      /\ down' = [down EXCEPT ![p] = <<>>] /\ UNCHANGED <<value, inq, retained, day>>
  BY DEF Connect, Core1Only, core0
<1>2. DOMAIN link = Panels /\ DOMAIN step = Panels /\ DOMAIN down = Panels
  BY DEF PanelsInv, PanelsTypeOK
<1>3. /\ step'[p] = 0 /\ down'[p] = <<>>
      /\ \A q \in Panels : q # p =>
            link'[q] = link[q] /\ step'[q] = step[q] /\ down'[q] = down[q]
  BY <1>1, <1>2
<1>4. QED
  BY <1>1, <1>3, AloneLeavesShut

LEMMA LinkBreaksLeavesShut ==
    ASSUME PanelsInv, DayInv, NEW p \in Panels, LinkBreaks(p)
    PROVE  DayInv'
<1>1. /\ link' = [link EXCEPT ![p] = FALSE] /\ down' = [down EXCEPT ![p] = <<>>]
      /\ UNCHANGED <<value, inq, retained, day, step>>
  BY DEF LinkBreaks, core0, history
<1>2. DOMAIN link = Panels /\ DOMAIN down = Panels
  BY DEF PanelsInv, PanelsTypeOK
<1>3. /\ link'[p] = FALSE /\ down'[p] = <<>>
      /\ \A q \in Panels : q # p =>
            link'[q] = link[q] /\ step'[q] = step[q] /\ down'[q] = down[q]
  BY <1>1, <1>2
<1>4. QED
  BY <1>1, <1>3, AloneLeavesShut

(* At a boot nothing is on its way: a gate the broker keeps closed begins a day. *)
LEMMA PowerCutLeavesShut ==
    ASSUME PanelsInv, DayInv, NEW p \in Panels, PowerCut(p)
    PROVE  DayInv'
<1>1. /\ Leave(p) /\ inq' = [inq EXCEPT ![p] = <<>>] /\ retained' = retained
      /\ value' = [t \in Reported |-> IF t \notin RetainedBy(p) \/ IsSensor(t) THEN value[t]
                                       ELSE t \in Gates]
      /\ day' = (day \ RetainedBy(p))
                \cup {t \in Gates \cap RetainedBy(p) : retained[GateCommand(t)] = "0"}
  BY DEF PowerCut
<1>2. /\ link'[p] = FALSE /\ down'[p] = <<>> /\ inq'[p] = <<>>
      /\ \A q \in Panels : q # p => /\ link'[q] = link[q] /\ step'[q] = step[q]
                                    /\ down'[q] = down[q] /\ inq'[q] = inq[q]
  BY <1>1, InvOf, LeaveIs DEF PanelsTypeOK
<1>3. ASSUME NEW q \in Panels, NEW t \in day' \cap RetainedBy(q) PROVE GateShut(q, t)'
  <2>1. CASE q = p
    <3>1. retained'[GateCommand(t)] = "0"
      BY <1>1, <2>1
    <3>2. ~Listens(q, GateCommand(t))'
      BY <1>2, <2>1 DEF Listens
    <3>3. PICK w : w = value'[t]
      OBVIOUS
    <3>4. Shut(q, t, w, <<>>, <<>>, FALSE, "0")
      BY ShutAtBoot
    <3>5. QED
      BY <1>2, <2>1, <3>1, <3>2, <3>3, <3>4 DEF GateShut, Shut, ClosingComes
  <2>2. CASE q # p
    <3>1. t \notin RetainedBy(p)
      BY <2>2, OwnerIs
    <3>2. t \in day
      BY <1>1, <3>1
    <3>3. t \in Gates /\ GateShut(q, t)
      BY <3>2, DayOf
    <3>4. value'[t] = value[t]
      BY <1>1, <3>1, <3>3, GatesAreReported
    <3>5. SameGate(q, t)
      BY <1>1, <1>2, <2>2, <3>4 DEF SameGate
    <3>6. QED
      BY <3>3, <3>5, SameGateIsShut
  <2>3. QED
    BY <2>1, <2>2
<1>4. ASSUME NEW q \in Panels PROVE ~Carries(inq'[q], Strays(q))
  <2>1. CASE q = p
    BY <1>2, <2>1, EmptyCarries
  <2>2. CASE q # p
    BY <1>2, <2>2, DayOf
  <2>3. QED
    BY <2>1, <2>2
<1>5. day' \subseteq Gates
  BY <1>1 DEF DayInv
<1>6. QED
  BY <1>3, <1>4, <1>5 DEF DayInv

-----------------------------------------------------------------------------
(* Core 1 asks, reads and subscribes. *)

LEMMA EndSettleLeavesShut ==
    ASSUME PanelsInv, DayInv, NEW p \in Panels, EndSettle(p)
    PROVE  DayInv'
<1>1. PICK ask : ask = [kind |-> "refresh"]
  OBVIOUS
<1>2. /\ inq' = [inq EXCEPT ![p] = Append(inq[p], ask)] \/ inq' = inq
      /\ UNCHANGED <<value, link, step, down, retained, day>>
  BY <1>1 DEF EndSettle, Core1Only, core0
<1>3. ask \in Entries(p) /\ ask.kind = "refresh"
  BY <1>1 DEF Entries
<1>4. \A q \in Panels : inq'[q] = inq[q] \/ (q = p /\ inq'[q] = Append(inq[p], ask))
  BY <1>2 DEF PanelsInv, PanelsTypeOK
<1>5. ASSUME NEW q \in Panels, NEW t \in day' \cap RetainedBy(q) PROVE GateShut(q, t)'
  <2>1. t \in day /\ GateShut(q, t)
    BY <1>2, DayOf
  <2>2. CASE inq'[q] = inq[q]
    <3>1. SameGate(q, t)
      BY <1>2, <2>2 DEF SameGate
    <3>2. QED
      BY <2>1, <3>1, SameGateIsShut
  <2>3. CASE q = p /\ inq'[q] = Append(inq[p], ask)
    <3>1. PICK a : a = Listens(p, GateCommand(t))
      OBVIOUS
    <3>2. Shut(p, t, value[t], Append(inq[p], ask), down[p], a, retained[GateCommand(t)])
      BY <1>3, <2>1, <2>3, <3>1, DayOf, ShutAsks DEF GateShut
    <3>3. Listens(p, GateCommand(t))' <=> a
      BY <1>2, <3>1 DEF Listens
    <3>4. QED
      BY <1>2, <2>3, <3>2, <3>3 DEF GateShut, Shut, ClosingComes
  <2>4. QED
    BY <1>4, <2>2, <2>3
<1>6. ASSUME NEW q \in Panels PROVE ~Carries(inq'[q], Strays(q))
  <2>1. ask \notin Strays(p)
    BY <1>3 DEF Strays
  <2>2. Carries(Append(inq[p], ask), Strays(p)) <=> Carries(inq[p], Strays(p)) \/ ask \in Strays(p)
    <3>1. PICK Q, E, S : Q = inq[p] /\ E = Entries(p) /\ S = Strays(p)
      OBVIOUS
    <3>2. Q \in Seq(E) /\ ask \in E
      BY <1>3, <3>1, DayOf
    <3>3. /\ Carries(Append(Q, ask), S) <=> Carries(Q, S) \/ ask \in S
          /\ Precedes(Q, S, S) /\ (ask \in S => Carries(Q, S)) => Precedes(Append(Q, ask), S, S)
      BY <3>2, CarriesAppend
    <3>4. QED
      BY <3>1, <3>3
  <2>3. ~Carries(inq[q], Strays(q)) /\ ~Carries(inq[p], Strays(p))
    BY DayOf
  <2>4. QED
    BY <1>4, <2>1, <2>2, <2>3
<1>7. day' \subseteq Gates
  BY <1>2 DEF DayInv
<1>8. QED
  BY <1>5, <1>6, <1>7 DEF DayInv

(* What Receive leaves of the two queues, and of the day. *)
Read(p, m) ==
    /\ m \in Sent /\ m = Head(down[p]) /\ down[p] # <<>> /\ down'[p] = Tail(down[p])
    /\ \/ /\ \E e \in Entries(p) : OnMessage(p, m) = <<e>> /\ inq'[p] = Append(inq[p], e)
          /\ day' = day
       \/ inq'[p] = inq[p] /\ OnMessage(p, m) = <<>> /\ day' \subseteq day
       \/ inq'[p] = inq[p] /\ day' = day \ {t \in Gates : GateCommand(t) = m.topic /\ value[t]}
    /\ \A q \in Panels : q # p => inq'[q] = inq[q] /\ down'[q] = down[q]
    /\ UNCHANGED <<value, link, step, retained>>

LEMMA ReadIs ==
    ASSUME PanelsInv, NEW p \in Panels, Receive(p)
    PROVE  \E m : Read(p, m)
<1>1. PICK m, entry : m = Head(down[p]) /\ entry = OnMessage(p, m)
  OBVIOUS
<1>2. /\ down[p] # <<>> /\ down' = [down EXCEPT ![p] = Tail(down[p])]
      /\ inq' = IF Room(p) THEN [inq EXCEPT ![p] = inq[p] \o entry] ELSE inq
      /\ day' = IF Room(p) THEN day
                ELSE day \ {t \in Gates : GateCommand(t) = m.topic /\ value[t]}
      /\ UNCHANGED <<value, link, step, retained>>
  BY <1>1 DEF Receive, core0
<1>3. m \in Sent /\ inq[p] \in Seq(Entries(p)) /\ DOMAIN inq = Panels /\ DOMAIN down = Panels
  BY <1>1, <1>2, InvOf, HeadTailProperties DEF PanelsTypeOK
<1>4. \/ /\ \E e \in Entries(p) : OnMessage(p, m) = <<e>> /\ inq'[p] = Append(inq[p], e)
         /\ day' = day
      \/ inq'[p] = inq[p] /\ OnMessage(p, m) = <<>> /\ day' \subseteq day
      \/ inq'[p] = inq[p] /\ day' = day \ {t \in Gates : GateCommand(t) = m.topic /\ value[t]}
  <2>1. CASE ~Room(p)
    BY <1>2, <2>1
  <2>2. CASE Room(p) /\ entry = <<>>
    <3>1. inq[p] \o entry = inq[p]
      BY <1>3, <2>2, ConcatEmptySeq
    <3>2. QED
      BY <1>1, <1>2, <1>3, <2>2, <3>1
  <2>3. ASSUME Room(p), NEW e \in Entries(p), entry = <<e>>
        PROVE  inq'[p] = Append(inq[p], e) /\ day' = day
    <3>1. inq[p] \o entry = Append(inq[p], e)
      BY <1>3, <2>3, AppendIsConcat
    <3>2. QED
      BY <1>2, <1>3, <2>3, <3>1
  <2>4. entry = <<>> \/ \E e \in Entries(p) : entry = <<e>>
    BY <1>1, <1>3, OnMessageIs
  <2>5. QED
    BY <1>1, <2>1, <2>2, <2>3, <2>4
<1>5. /\ down'[p] = Tail(down[p])
      /\ \A q \in Panels : q # p => inq'[q] = inq[q] /\ down'[q] = down[q]
  BY <1>2, <1>3
<1>6. Read(p, m)
  BY <1>1, <1>2, <1>3, <1>4, <1>5 DEF Read
<1>7. QED
  BY <1>6

LEMMA ReceiveLeavesShut ==
    ASSUME PanelsInv, DayInv, NEW p \in Panels, Receive(p)
    PROVE  DayInv'
<1>1. PICK m : Read(p, m)
  BY ReadIs
<1>2. /\ inq[p] \in Seq(Entries(p)) /\ down[p] \in Seq(Sent) /\ day' \subseteq day
      /\ m \in Sent /\ m = Head(down[p]) /\ down[p] # <<>> /\ down'[p] = Tail(down[p])
      /\ UNCHANGED <<value, link, step, retained>>
  BY <1>1, DayOf DEF Read
<1>3. ASSUME NEW t \in day' \cap RetainedBy(p) PROVE GateShut(p, t)'
  <2>1. t \in Gates /\ GateShut(p, t)
    BY <1>2, DayOf
  <2>2. PICK g, q, d, v, a :
          /\ g = GateCommand(t) /\ q = inq[p] /\ d = down[p] /\ v = value[t]
          /\ a = Listens(p, GateCommand(t))
    OBVIOUS
  <2>3. Shut(p, t, v, q, d, a, retained[g]) /\ HeardAs(p, t, m)
    BY <1>2, <2>1, <2>2, HeardIs DEF GateShut
  <2>4. Shut(p, t, v, inq'[p], Tail(d), a, retained[g])
    <3>1. ASSUME NEW e \in Entries(p), OnMessage(p, m) = <<e>>, inq'[p] = Append(inq[p], e)
          PROVE  Shut(p, t, v, inq'[p], Tail(d), a, retained[g])
      <4>1. Shut(p, t, v, Append(q, e), Tail(d), a, retained[g])
        BY <1>2, <2>1, <2>2, <2>3, <3>1, ShutReceived
      <4>2. QED
        BY <2>2, <3>1, <4>1
    <3>2. ASSUME inq'[p] = inq[p], v = FALSE \/ m \notin Closings(t)
          PROVE  Shut(p, t, v, inq'[p], Tail(d), a, retained[g])
      <4>1. Shut(p, t, v, q, Tail(d), a, retained[g])
        BY <1>2, <2>1, <2>2, <2>3, <3>2, ShutDropped
      <4>2. QED
        BY <2>2, <3>2, <4>1
    <3>3. CASE inq'[p] = inq[p] /\ OnMessage(p, m) = <<>>
      <4>1. m \notin Closings(t)
        BY <2>3, <3>3 DEF HeardAs
      <4>2. QED
        BY <3>2, <3>3, <4>1
    <3>4. CASE inq'[p] = inq[p] /\ day' = day \ {x \in Gates : GateCommand(x) = m.topic /\ value[x]}
      <4>1. ~(GateCommand(t) = m.topic /\ value[t])
        BY <2>1, <3>4
      <4>2. v \in BOOLEAN
        BY <2>1, <2>2, DayOf, GatesAreReported
      <4>3. v = FALSE \/ m \notin Closings(t)
        BY <2>2, <4>1, <4>2 DEF Closings
      <4>4. QED
        BY <3>2, <3>4, <4>3
    <3>5. QED
      BY <1>1, <3>1, <3>3, <3>4 DEF Read
  <2>5. Listens(p, GateCommand(t))' <=> a
    BY <1>2, <2>2 DEF Listens
  <2>6. QED
    BY <1>2, <2>2, <2>4, <2>5 DEF GateShut, Shut, ClosingComes
<1>4. ASSUME NEW q \in Panels, q # p, NEW t \in day' \cap RetainedBy(q) PROVE GateShut(q, t)'
  <2>1. t \in day /\ GateShut(q, t)
    BY <1>2, DayOf
  <2>2. SameGate(q, t)
    BY <1>1, <1>2, <1>4 DEF SameGate, Read
  <2>3. QED
    BY <2>1, <2>2, SameGateIsShut
<1>5. ASSUME NEW q \in Panels PROVE ~Carries(inq'[q], Strays(q))
  <2>1. ~Carries(inq[q], Strays(q))
    BY DayOf
  <2>2. ASSUME NEW e \in Entries(p), OnMessage(p, m) = <<e>> PROVE e \notin Strays(p)
    <3>1. PICK c, z : /\ c = [kind |-> "command", topic |-> m.topic, payload |-> m.payload]
                      /\ z = [kind |-> "remote", row |-> Smallest(Find(p, m.topic, m.payload))]
      OBVIOUS
    <3>2. \/ OnMessage(p, m) = <<z>>
          \/ OnMessage(p, m) = <<c>> /\ m.topic[1] = p
          \/ OnMessage(p, m) = <<>>
      BY <3>1 DEF OnMessage
    <3>3. e = z \/ (e = c /\ m.topic[1] = p)
      BY <2>2, <3>2
    <3>4. c.topic = m.topic /\ z.kind = "remote"
      BY <3>1
    <3>5. QED
      BY <3>3, <3>4 DEF Strays
  <2>3. ASSUME NEW e \in Entries(p), OnMessage(p, m) = <<e>>, inq'[p] = Append(inq[p], e)
        PROVE  ~Carries(inq'[p], Strays(p))
    <3>1. Carries(Append(inq[p], e), Strays(p)) <=> Carries(inq[p], Strays(p)) \/ e \in Strays(p)
      BY <1>2, CarriesAppend
    <3>2. QED
      BY <2>2, <2>3, <3>1, DayOf
  <2>4. QED
    BY <1>1, <2>1, <2>3 DEF Read
<1>6. day' \subseteq Gates
  BY <1>2 DEF DayInv
<1>7. \A q \in Panels : \A t \in day' \cap RetainedBy(q) : GateShut(q, t)'
  BY <1>3, <1>4
<1>8. QED
  BY <1>5, <1>6, <1>7 DEF DayInv

(* A subscription repeats all that is kept under it. *)
LEMMA AllAreRepeated ==
    ASSUME NEW p \in Panels, NEW k \in 1..Len(Filters[p]), NEW kept,
           kept \in SUBSET Filters[p][k], NEW order \in SetToSeqs(kept), NEW x \in kept
    PROVE  \E i \in 1..Cardinality(kept) : order[i] = x
<1>1. IsFiniteSet(kept) /\ Cardinality(kept) \in Nat
  <2>1. IsFiniteSet(Filters[p][k])
    BY FiltersAre
  <2>2. QED
    BY <2>1, FS_Subset, FS_CardinalityType
<1>2. PICK n, ranks : n = Cardinality(kept) /\ ranks = 1..n
  OBVIOUS
<1>3. order \in [ranks -> kept] /\ \A i, j \in ranks : order[i] = order[j] => i = j
  BY <1>2 DEF SetToSeqs, IsInjective
<1>4. order \in Injection(ranks, kept)
  BY <1>3 DEF Injection, IsInjective
<1>5. IsFiniteSet(ranks) /\ Cardinality(ranks) = Cardinality(kept)
  BY <1>1, <1>2, FS_Interval
<1>6. order \in Surjection(ranks, kept)
  BY <1>1, <1>4, <1>5, FS_Injection
<1>7. QED
  BY <1>2, <1>6 DEF Surjection

LEMMA SubscribeLeavesShut ==
    ASSUME PanelsInv, DayInv, NEW p \in Panels, Subscribe(p)
    PROVE  DayInv'
<1>1. UNCHANGED <<value, inq, retained, day>>
  BY DEF Subscribe, Core1Only, core0
<1>2. CASE ~link[p]
  <2>1. Leave(p)
    BY <1>2 DEF Subscribe
  <2>2. QED
    BY <1>1, <2>1, LeavingLeavesShut
<1>3. CASE link[p]
  <2>1. PICK k, kept, order :
          /\ k \in 1..Len(Filters[p]) /\ k = step[p] + 1
          /\ kept = {t \in Filters[p][k] : retained[t] # None}
          /\ order \in SetToSeqs(kept)
          /\ down' = [down EXCEPT ![p] = down[p] \o Repeats(order)]
          /\ step' = [step EXCEPT ![p] = k]
          /\ UNCHANGED <<core0, inq, outq, phase, link, retained, missed>>
    BY <1>3, SubscribeIs
  <2>2. PICK new : new = Repeats(order)
    OBVIOUS
  <2>3. /\ new \in Seq(Sent) /\ Len(new) = Cardinality(kept)
        /\ \A i \in 1..Len(new) :
              order[i] \in kept /\ new[i] = Message(order[i], retained[order[i]], TRUE)
    <3>1. EachRepeated(kept, order)
      BY <2>1, RepeatsAre
    <3>2. QED
      BY <2>2, <3>1 DEF EachRepeated
  <2>4. /\ down'[p] = down[p] \o new /\ step'[p] = k /\ step[p] \in Nat /\ Len(Filters[p]) \in Nat
        /\ \A q \in Panels : q # p => down'[q] = down[q] /\ step'[q] = step[q]
        /\ link' = link
    BY <2>1, <2>2, FiltersAre DEF PanelsInv, PanelsTypeOK
  <2>5. ASSUME NEW t \in day \cap RetainedBy(p) PROVE GateShut(p, t)'
    <3>1. t \in Gates /\ GateShut(p, t)
      BY DayOf
    <3>2. PICK g, d, a : g = GateCommand(t) /\ d = down[p] /\ a = Listens(p, GateCommand(t))
      OBVIOUS
    <3>3. Shut(p, t, value[t], inq[p], d, a, retained[g]) /\ retained[g] = "0" /\ d \in Seq(Sent)
      BY <3>1, <3>2, DayOf DEF GateShut, Shut
    <3>4. ~Carries(new, Openings(t))
      <4>1. ASSUME NEW i \in 1..Len(new), new[i] \in Openings(t) PROVE FALSE
        <5>1. new[i].topic = order[i] /\ new[i].payload = retained[order[i]]
          BY <2>3 DEF Message
        <5>2. new[i].topic = g /\ new[i].payload # "0"
          BY <3>2, <4>1 DEF Openings
        <5>3. QED
          BY <3>3, <5>1, <5>2
      <4>2. QED
        BY <4>1 DEF Carries
    <3>5. ASSUME Carries(new, EdgesFor(p)) PROVE a
      <4>1. PICK i \in 1..Len(new) : new[i] \in EdgesFor(p)
        BY <3>5 DEF Carries
      <4>2. PICK x : x = order[i]
        OBVIOUS
      <4>3. new[i].topic = x /\ x \in Filters[p][k]
        BY <2>1, <2>3, <4>2 DEF Message
      <4>4. x \in Sensors(p)
        BY <4>1, <4>3 DEF EdgesFor
      <4>5. PICK j \in 1..k - 1 : g \in Filters[p][j]
        BY <2>1, <3>1, <3>2, <4>3, <4>4, GateIsAskedFirst
      <4>6. j \in 1..step[p]
        BY <2>1, <2>4
      <4>7. QED
        BY <1>3, <3>2, <4>5, <4>6 DEF Listens
    <3>6. PICK soon \in BOOLEAN : soon <=> Listens(p, GateCommand(t))'
      <4>1. Listens(p, GateCommand(t))' \in BOOLEAN
        BY DEF Listens
      <4>2. QED
        BY <4>1
    <3>7. ASSUME soon PROVE a \/ Carries(new, Closings(t))
      <4>1. PICK i \in 1..k : g \in Filters[p][i]
        BY <2>4, <3>2, <3>6, <3>7 DEF Listens
      <4>2. CASE i = k
        <5>1. g \in kept
          BY <2>1, <3>3, <4>1, <4>2 DEF None
        <5>2. kept \in SUBSET Filters[p][k]
          BY <2>1
        <5>3. PICK j \in 1..Cardinality(kept) : order[j] = g
          <6>1. k \in 1..Len(Filters[p]) /\ order \in SetToSeqs(kept)
            BY <2>1, <2>4
          <6>2. \E j \in 1..Cardinality(kept) : order[j] = g
            BY <5>1, <5>2, <6>1, AllAreRepeated
          <6>3. QED
            BY <6>2
        <5>4. j \in 1..Len(new)
          BY <2>3
        <5>5. new[j] \in Sent /\ new[j].topic = g /\ new[j].payload = "0"
          <6>1. new[j] \in Sent
            BY <2>3, <5>4, ElementOfSeq
          <6>2. QED
            BY <2>3, <3>3, <5>3, <5>4, <6>1 DEF Message
        <5>6. new[j] \in Closings(t)
          BY <3>2, <5>5 DEF Closings
        <5>7. QED
          BY <5>4, <5>6 DEF Carries
      <4>3. CASE i # k
        <5>1. i \in 1..step[p]
          BY <2>1, <2>4, <4>3
        <5>2. QED
          BY <1>3, <3>2, <4>1, <5>1 DEF Listens
      <4>4. QED
        BY <4>2, <4>3
    <3>8. Shut(p, t, value[t], inq[p], d \o new, soon, retained[g])
      BY <2>3, <3>3, <3>4, <3>5, <3>7, ShutRepeated
    <3>9. QED
      BY <1>1, <2>4, <3>2, <3>6, <3>8 DEF GateShut, Shut, ClosingComes
  <2>6. ASSUME NEW q \in Panels, q # p, NEW t \in day \cap RetainedBy(q) PROVE GateShut(q, t)'
    <3>1. SameGate(q, t)
      BY <1>1, <2>4, <2>6 DEF SameGate
    <3>2. QED
      BY <3>1, DayOf, SameGateIsShut
  <2>7. \A q \in Panels : \A t \in day' \cap RetainedBy(q) : GateShut(q, t)'
    BY <1>1, <2>5, <2>6
  <2>8. \A q \in Panels : ~Carries(inq'[q], Strays(q))
    BY <1>1, DayOf
  <2>9. day' \subseteq Gates
    BY <1>1 DEF DayInv
  <2>10. QED
    BY <2>7, <2>8, <2>9 DEF DayInv
<1>4. QED
  BY <1>2, <1>3

-----------------------------------------------------------------------------
(* Together. *)

LEMMA DayInitInv == PanelsInit => DayInv
<1> SUFFICES ASSUME PanelsInit PROVE DayInv
  OBVIOUS
<1>1. day = {} /\ \A p \in Panels : inq[p] = <<>>
  BY DEF PanelsInit
<1>2. QED
  BY <1>1, EmptyCarries DEF DayInv

LEMMA DayStep == PanelsInv /\ DayInv /\ [Next]_vars => DayInv'
<1> SUFFICES ASSUME PanelsInv, DayInv, [Next]_vars PROVE DayInv'
  OBVIOUS
<1>1. CASE UNCHANGED vars
  <2>1. UNCHANGED <<inq, core1, retained, day, value>>
    BY <1>1 DEF vars, history, core0
  <2>2. GatesKeepTheirValue
    BY <2>1 DEF GatesKeepTheirValue
  <2>3. QED
    BY <2>1, <2>2, OutsideLeavesShut
<1>2. ASSUME NEW p \in Panels, Core0(p) PROVE DayInv'
  BY <1>2, HandleRefreshLeavesShut, HandleCommandLeavesShut, HandlePressLeavesShut,
     HandleEdgeLeavesShut, RuleEndsLeavesShut DEF Core0
<1>3. ASSUME NEW p \in Panels, Core1(p) PROVE DayInv'
  BY <1>3, ConnectLeavesShut, SubscribeLeavesShut, EndSettleLeavesShut, ReceiveLeavesShut,
     PublishLeavesShut, NoticeDeathLeavesShut DEF Core1
<1>4. ASSUME NEW p \in Panels, Inputs(p) PROVE DayInv'
  <2>1. ASSUME NEW t \in Buttons[p], NEW g \in Gestures, Press(p, t, g) PROVE DayInv'
    BY <2>1, PressLeavesShut
  <2>2. ASSUME NEW t \in RetainedBy(p), SensorMoves(p, t) PROVE DayInv'
    BY <2>2, SensorMovesLeavesShut
  <2>3. CASE LinkBreaks(p)
    BY <2>3, LinkBreaksLeavesShut
  <2>4. CASE PowerCut(p)
    BY <2>4, PowerCutLeavesShut
  <2>5. QED
    BY <1>4, <2>1, <2>2, <2>3, <2>4 DEF Inputs
<1>5. ASSUME NEW m \in Commands, HaCommand(m) PROVE DayInv'
  BY <1>5, HaCommandLeavesShut
<1>6. QED
  BY <1>1, <1>2, <1>3, <1>4, <1>5 DEF Next

(* An edge does not light the lamp of a gate that the broker keeps closed. *)
LEMMA EdgeLightsNothing ==
    ASSUME PanelsInv, DayInv, NEW t \in day, NEW p \in Panels,
           Topic(t, "state") \in RetainedBy(p), HandleEdge(p), value'[Topic(t, "state")]
    PROVE  value[Topic(t, "state")]
<1>1. PICK lamp : lamp = Topic(t, "state")
  OBVIOUS
<1>2. PICK r : EdgeHandled(p, r)
  BY HandleEdgeIs
<1>3. PICK q \in Panels : t \in RetainedBy(q)
  BY DEF DayInv, Gates, Reported
<1>4. t \in Gates /\ t \in [1..5 -> STRING] /\ t[5] = "night_mode"
  BY <1>3, GateIs DEF DayInv
<1>5. lamp = [t EXCEPT ![5] = "state"] /\ 1 \in 1..5 /\ 5 \in 1..5
  BY <1>1 DEF Topic
<1>6. q = p
  <2>1. lamp[1] = t[1]
    BY <1>4, <1>5
  <2>2. lamp[1] = p /\ t[1] = q
    BY <1>1, <1>3, GatesAssumption
  <2>3. QED
    BY <2>1, <2>2
<1>7. value[t] = FALSE
  <2>1. Shut(p, t, value[t], inq[p], down[p], Listens(p, GateCommand(t)), retained[GateCommand(t)])
    BY <1>3, <1>6, DayOf DEF GateShut
  <2>2. inq[p] \in Seq(Entries(p)) /\ inq[p] # <<>> /\ Head(inq[p]) \in EdgeEntries(p)
    BY <1>2, DayOf DEF EdgeHandled, Next0
  <2>3. QED
    BY <2>1, <2>2, ShutAtAnEdge
<1>8. Topic(lamp, "night_mode") = t
  <2>1. PICK s : s = [lamp EXCEPT ![5] = "night_mode"]
    OBVIOUS
  <2>2. DOMAIN t = 1..5 /\ DOMAIN lamp = 1..5 /\ DOMAIN s = 1..5
    BY <1>4, <1>5, <2>1
  <2>3. ASSUME NEW i \in 1..5 PROVE s[i] = t[i]
    BY <1>4, <1>5, <2>1, <2>2
  <2>4. t = [i \in 1..5 |-> t[i]] /\ s = [i \in 1..5 |-> s[i]]
    BY <1>4, <1>5, <2>1, <2>2
  <2>5. s = t
    BY <2>3, <2>4
  <2>6. QED
    BY <2>1, <2>5 DEF Topic
<1>9. CASE UNCHANGED <<value, outq, lost>>
  BY <1>9
<1>10. CASE /\ SetValue(p, Rows[p][r].lamp, TRUE)
            /\ value[Topic(Rows[p][r].lamp, "night_mode")]
  <2>1. PICK u : u = Rows[p][r].lamp
    OBVIOUS
  <2>2. u \in Reported /\ lamp \in Reported /\ value \in [Reported -> BOOLEAN]
    BY <1>1, <1>2, <2>1, RowIs, OwnIsReported, DayOf DEF EdgeHandled
  <2>3. u # lamp
    BY <1>7, <1>8, <1>10, <2>1
  <2>4. value'[lamp] = value[lamp]
    <3>1. SetValue(p, u, TRUE)
      BY <1>10, <2>1
    <3>2. \A x \in Reported : value'[x] = IF x = u THEN TRUE ELSE value[x]
      BY <2>2, <3>1, ValueIs
    <3>3. QED
      BY <2>2, <2>3, <3>2
  <2>5. QED
    BY <1>1, <2>4
<1>11. QED
  BY <1>2, <1>9, <1>10 DEF EdgeHandled

(* For any panels, gates, rules and queues: motion never switches on a light whose *)
(* gate the broker has kept closed since before the panel booted, because          *)
(* buildSubscriptions asks for set_night_mode before any sensor and gInbound keeps *)
(* the order (MotionRule::handle).                                                 *)
THEOREM DayIsAlwaysKnownFirst == Spec => DayIsKnownFirst
<1>1. PanelsInit => DayInv
  BY DayInitInv
<1>2. PanelsInv /\ DayInv /\ [Next]_vars => DayInv'
  BY DayStep
<1>3. PanelsInv /\ DayInv /\ [Next]_vars =>
        [\A t \in day : LET lamp == Topic(t, "state") IN
             \A p \in Panels : lamp \in RetainedBy(p) /\ HandleEdge(p)
                 => (value'[lamp] => value[lamp])]_vars
  BY EdgeLightsNothing
<1>4. QED
  BY <1>1, <1>2, <1>3, PanelsInvariantHolds, PTL DEF Spec, DayIsKnownFirst
=============================================================================
