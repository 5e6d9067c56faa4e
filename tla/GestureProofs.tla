----------------------------- MODULE GestureProofs -----------------------------
(* Proofs about Gesture, for every debounce time, every multi-press gap, every  *)
(* pair of hold thresholds and every pace of the control loop.                  *)
EXTENDS Gesture, SequenceTheorems, TLAPS

(* A hold is timed only on a momentary switch that reports everything, and while *)
(* it is timed the switch is down and no press is being counted.                 *)
HoldIsAlone ==
  /\ holding => kind = "Momentary" /\ mode = "Full" /\ stable /\ presses = 0
  /\ holdLongSent => holding

(* An instant switch counts nothing. *)
InstantCountsNothing == mode = "Instant" => presses = 0

(* Until the pin first moves, the debounced position is the pin's and no press *)
(* is being counted.                                                           *)
UntouchedIsSettled == ~touched => stable = rawLast /\ presses = 0

GestureInv ==
  /\ GestureTypeOK
  /\ HoldIsAlone
  /\ InstantCountsNothing
  /\ UntouchedIsSettled
  /\ NoPressOverdue
  /\ BootReportsNoPress

-----------------------------------------------------------------------------
(* The helpers the updates are built from. *)

(* An age stays below its threshold, and reaches it only when it has passed. *)
LEMMA UpToFacts ==
  ASSUME NEW ms \in Nat, NEW threshold \in Nat
  PROVE  /\ UpTo(ms, threshold) \in 0..threshold
         /\ UpTo(ms, threshold) <= ms
         /\ ms < threshold => UpTo(ms, threshold) < threshold
BY DEF UpTo

(* Mode Full reports presses, and a momentary switch holds too. *)
LEMMA WhatIsProducible ==
  ASSUME kind \in Kinds, mode \in Modes
  PROVE  /\ "Press1" \in Producible
         /\ mode = "Full" => Presses \subseteq Producible
         /\ mode = "Full" /\ kind = "Momentary" => Holds \subseteq Producible
         /\ Producible \subseteq Presses \cup Holds
BY DEF Producible, Presses, Holds, Kinds, Modes

(* What one update may say: nothing, one thing, or a hold and its promotion. *)
LEMMA Utterances ==
  ASSUME NEW S, NEW g \in S, NEW h \in S
  PROVE  /\ <<>> \in Seq(S) /\ Len(<<>>) = 0
         /\ <<g>> \in Seq(S) /\ Len(<<g>>) = 1
         /\ <<g, h>> \in Seq(S) /\ Len(<<g, h>>) = 2
         /\ Append(<<>>, g) = <<g>>
         /\ <<g>> \o <<h>> = <<g, h>> /\ <<>> \o <<h>> = <<h>> /\ <<g>> \o <<>> = <<g>>
         /\ <<>> \o <<>> = <<>>
<1>1. <<>> \in Seq(S) /\ <<g>> \in Seq(S) /\ <<h>> \in Seq(S) /\ <<g, h>> \in Seq(S)
  OBVIOUS
<1>2. Len(<<>>) = 0 /\ Len(<<g>>) = 1 /\ Len(<<g, h>>) = 2
  OBVIOUS
<1>3. Append(<<>>, g) = <<g>>
  OBVIOUS
<1>4. <<g>> \o <<h>> = <<g, h>>
  <2>1. <<g>> \o <<h>> \in Seq(S) /\ Len(<<g>> \o <<h>>) = 2
    BY <1>1, <1>2, ConcatProperties
  <2>2. (<<g>> \o <<h>>)[1] = g /\ (<<g>> \o <<h>>)[2] = h
    BY <1>1, <1>2, ConcatProperties
  <2>3. <<g, h>>[1] = g /\ <<g, h>>[2] = h
    OBVIOUS
  <2>4. \A i \in 1..Len(<<g>> \o <<h>>) : (<<g>> \o <<h>>)[i] = <<g, h>>[i]
    BY <2>1, <2>2, <2>3, 1..2 = {1, 2}
  <2>5. \A s \in Seq(S), t \in Seq(S) :
           Len(s) = Len(t) /\ (\A i \in 1..Len(s) : s[i] = t[i]) => s = t
    BY SeqEqual
  <2>6. QED
    BY <2>1, <2>4, <2>5, <1>1, <1>2, Zenon
<1>5. <<>> \o <<h>> = <<h>> /\ <<g>> \o <<>> = <<g>>
  BY <1>1, ConcatEmptySeq
<1>6. <<>> \o <<>> = <<>>
  BY <1>1, ConcatEmptySeq
<1>7. QED
  BY <1>1, <1>2, <1>3, <1>4, <1>5, <1>6

LEMMA UpToTwo ==
  ASSUME NEW n, n = 0 \/ n = 1 \/ n = 2
  PROVE  n <= 2
OBVIOUS

(* The sampling of the pin keeps the debouncer's types; an edge needs the pin to *)
(* have moved since power-up, or the position not to be the pin's.               *)
LEMMA SampleStep ==
  ASSUME GestureAssumption, GestureTypeOK, UntouchedIsSettled,
         NEW pressed \in BOOLEAN, NEW e \in Elapsed, Sample(pressed, e), Settle
  PROVE  /\ rawLast' \in BOOLEAN /\ rawSince' \in 0..Debounce /\ stable' \in BOOLEAN
         /\ touched' \in BOOLEAN
         /\ kind' = kind /\ mode' = mode /\ Producible' = Producible
         /\ Edge => stable' = ~stable
         /\ ~Edge => stable' = stable
         /\ ~touched' => ~touched /\ ~Edge /\ stable' = rawLast' /\ presses = 0
<1>1. e \in Nat /\ Debounce \in Nat
  BY DEF GestureAssumption
<1>2. rawLast' = pressed /\ kind' = kind /\ mode' = mode
  BY DEF Sample, switch
<1>3. rawLast' \in BOOLEAN
  BY <1>2, Zenon
<1>4. rawSince' \in 0..Debounce
  <2>1. rawSince + e \in Nat
    BY <1>1 DEF GestureTypeOK
  <2>2. QED
    BY <1>1, <2>1, UpToFacts DEF Sample
<1>5. Edge => stable' = ~stable
  BY <1>3 DEF Settle, Edge, GestureTypeOK
<1>6. ~Edge => stable' = stable
  BY DEF Settle
<1>7. stable' \in BOOLEAN
  BY <1>3, Zenon DEF Settle, GestureTypeOK
<1>8. touched' \in BOOLEAN
  BY Zenon DEF Sample, GestureTypeOK
<1>9. Producible' = Producible
  BY <1>2 DEF Producible, Presses, Holds
<1>10. ASSUME ~touched' PROVE ~touched /\ ~Edge /\ stable' = rawLast' /\ presses = 0
  <2>1. ~touched /\ rawLast' = rawLast
    BY <1>10 DEF Sample
  <2>2. rawLast' = stable /\ presses = 0
    BY <2>1 DEF UntouchedIsSettled
  <2>3. QED
    BY <1>6, <2>1, <2>2 DEF Edge
<1>11. QED
  BY <1>2, <1>3, <1>4, <1>5, <1>6, <1>7, <1>8, <1>9, <1>10

(* The window of the presses: what is left counted is not overdue, and at most *)
(* one more gesture is said.                                                   *)
LEMMA CountStep ==
  ASSUME GestureAssumption, NEW n \in 0..3, NEW ms \in Nat, NEW said, CountPresses(n, ms, said)
  PROVE  /\ presses' \in 0..2 /\ sinceRelease' \in 0..Gap
         /\ presses' > 0 => sinceRelease' < Gap
         /\ n = 0 => presses' = 0 /\ emitted' = said
         /\ \/ emitted' = said
            \/ \E g \in Presses : emitted' = Append(said, g)
<1>1. Gap \in Nat
  BY DEF GestureAssumption
<1>2. UpTo(ms, Gap) \in 0..Gap /\ (ms < Gap => UpTo(ms, Gap) < Gap)
  BY <1>1, UpToFacts
<1>3. presses' \in 0..2 /\ sinceRelease' \in 0..Gap /\ (presses' > 0 => sinceRelease' < Gap)
  BY <1>1, <1>2 DEF CountPresses, CountedOut
<1>4. n = 0 => presses' = 0 /\ emitted' = said
  BY DEF CountPresses, CountedOut
<1>5. \/ emitted' = said
      \/ \E g \in Presses : emitted' = Append(said, g)
  BY DEF CountPresses, PressGesture, Presses
<1>6. QED
  BY <1>3, <1>4, <1>5

-----------------------------------------------------------------------------
(* A step of the abstract grammar, told from what one update did: who held what  *)
(* before and after, and what was said.                                          *)
GrammarStep == [Grammar!Next]_(Grammar!vars)

(* Said nothing, held on. *)
LEMMA SilenceFollows ==
  ASSUME Producible' = Producible, holding' = holding, holdLongSent' = holdLongSent,
         emitted' = <<>>
  PROVE  GrammarStep
<1>1. HoldPhase' = HoldPhase
  BY DEF HoldPhase
<1>2. Grammar!Silence
  BY <1>1 DEF Grammar!Silence
<1>3. QED
  BY <1>2 DEF GrammarStep, Grammar!Next

(* Reported a press, and no hold is on. *)
LEMMA PressFollows ==
  ASSUME Producible' = Producible, ~holding, holding' = holding,
         NEW g \in Presses \cap Producible, emitted' = <<g>>
  PROVE  GrammarStep
<1>1. HoldPhase = "Idle" /\ HoldPhase' = "Idle"
  BY DEF HoldPhase
<1>2. Grammar!Press
  BY <1>1 DEF Grammar!Press, Grammar!Presses, Presses
<1>3. QED
  BY <1>2 DEF GrammarStep, Grammar!Next

(* Let go of a held switch. *)
LEMMA HoldEndFollows ==
  ASSUME Producible' = Producible, holding, ~holding', emitted' = <<"HoldEnd">>
  PROVE  GrammarStep
<1>1. HoldPhase # "Idle" /\ HoldPhase' = "Idle"
  BY DEF HoldPhase
<1>2. Grammar!HoldEnds
  BY <1>1 DEF Grammar!HoldEnds
<1>3. QED
  BY <1>2 DEF GrammarStep, Grammar!Next

(* A hold begins, gets long, or does both at once. *)
LEMMA HoldFollows ==
  ASSUME Producible' = Producible, Holds \subseteq Producible,
         holdLongSent => holding, holding',
         \/ ~holding /\ ~holdLongSent' /\ emitted' = <<"HoldStart">>
         \/ ~holding /\ holdLongSent' /\ emitted' = <<"HoldStart", "HoldLong">>
         \/ holding /\ ~holdLongSent /\ holdLongSent' /\ emitted' = <<"HoldLong">>
  PROVE  GrammarStep
<1>1. CASE ~holding
  <2>1. HoldPhase = "Idle" /\ HoldPhase' = IF holdLongSent' THEN "Long" ELSE "Held"
    BY <1>1 DEF HoldPhase
  <2>2. Grammar!HoldBegins
    BY <1>1, <2>1 DEF Grammar!HoldBegins, Grammar!Holds, Holds
  <2>3. QED
    BY <2>2 DEF GrammarStep, Grammar!Next
<1>2. CASE holding
  <2>1. HoldPhase = "Held" /\ HoldPhase' = "Long"
    BY <1>2 DEF HoldPhase
  <2>2. Grammar!HoldGetsLong
    BY <1>2, <2>1 DEF Grammar!HoldGetsLong
  <2>3. QED
    BY <2>2 DEF GrammarStep, Grammar!Next
<1>3. QED
  BY <1>1, <1>2

-----------------------------------------------------------------------------
(* The updates. *)

(* What the invariant says of the variables no helper speaks of. *)
LEMMA InvParts ==
  ASSUME GestureInv
  PROVE  /\ GestureTypeOK /\ HoldIsAlone /\ InstantCountsNothing /\ UntouchedIsSettled
         /\ NoPressOverdue /\ BootReportsNoPress
         /\ kind \in Kinds /\ mode \in Modes /\ stable \in BOOLEAN
         /\ holding \in BOOLEAN /\ holdLongSent \in BOOLEAN
         /\ presses \in 0..2 /\ sinceRelease \in 0..Gap /\ heldFor \in 0..HoldLong
BY DEF GestureInv, GestureTypeOK

(* On an edge of an instant switch. *)
LEMMA InstantStep ==
  ASSUME GestureAssumption, GestureInv,
         NEW pressed \in BOOLEAN, NEW e \in Elapsed, InstantUpdate(pressed, e)
  PROVE  GestureInv' /\ GrammarStep
<1> USE InvParts
<1>1. mode = "Instant" /\ Sample(pressed, e) /\ Settle
      /\ holding' = holding /\ holdLongSent' = holdLongSent /\ presses' = presses
      /\ heldFor' = heldFor /\ sinceRelease' = sinceRelease
  BY DEF InstantUpdate
<1>2. /\ rawLast' \in BOOLEAN /\ rawSince' \in 0..Debounce /\ stable' \in BOOLEAN
      /\ touched' \in BOOLEAN
      /\ kind' = kind /\ mode' = mode /\ Producible' = Producible
      /\ ~touched' => ~touched /\ ~Edge /\ stable' = rawLast' /\ presses = 0
  BY <1>1, SampleStep
<1>3. presses = 0 /\ ~holding /\ ~holdLongSent
  BY <1>1 DEF InstantCountsNothing, HoldIsAlone
<1>4. "Press1" \in Presses \cap Producible
  BY WhatIsProducible DEF Presses
<1>5. \/ emitted' = <<>>
      \/ Edge /\ emitted' = <<"Press1">>
  BY DEF InstantUpdate
<1>6. emitted' \in Seq(Producible') /\ Len(emitted') <= 2
  <2>1. emitted' \in Seq(Producible) /\ (Len(emitted') = 0 \/ Len(emitted') = 1)
    BY <1>4, <1>5, Utterances, Zenon
  <2>2. emitted' \in Seq(Producible')
    BY <1>2, <2>1, Zenon
  <2>3. Len(emitted') <= 2
    BY <2>1, UpToTwo, Zenon
  <2>4. QED
    BY <2>2, <2>3
<1>7. GestureTypeOK'
  BY <1>1, <1>2, <1>6 DEF GestureTypeOK
<1>8. ~touched' => \A i \in DOMAIN emitted' : emitted'[i] \in Holds
  BY <1>2, <1>5
<1>9. GestureInv'
  BY <1>1, <1>2, <1>3, <1>7, <1>8 DEF GestureInv, HoldIsAlone, InstantCountsNothing,
     UntouchedIsSettled, NoPressOverdue, BootReportsNoPress, Holds
<1>10. GrammarStep
  BY <1>1, <1>2, <1>3, <1>4, <1>5, SilenceFollows, PressFollows
<1>11. QED
  BY <1>9, <1>10

(* A momentary switch that is down. *)
LEMMA HeldStep ==
  ASSUME GestureAssumption, GestureInv,
         NEW pressed \in BOOLEAN, NEW e \in Elapsed, HeldUpdate(pressed, e)
  PROVE  GestureInv' /\ GrammarStep
<1> DEFINE starts == ~holding /\ presses = 0 /\ heldFor' >= Hold
           lengthens == (holding \/ starts) /\ ~holdLongSent /\ heldFor' >= HoldLong
<1> USE InvParts
<1>1. mode = "Full" /\ kind = "Momentary" /\ Sample(pressed, e) /\ Settle /\ stable'
      /\ presses' = presses
  BY DEF HeldUpdate
<1>2. /\ rawLast' \in BOOLEAN /\ rawSince' \in 0..Debounce /\ stable' \in BOOLEAN
      /\ touched' \in BOOLEAN
      /\ kind' = kind /\ mode' = mode /\ Producible' = Producible
      /\ ~touched' => ~touched /\ ~Edge /\ stable' = rawLast' /\ presses = 0
  BY <1>1, SampleStep
<1>3. e \in Nat /\ HoldLong \in Nat /\ Gap \in Nat
  BY DEF GestureAssumption
<1>4. heldFor' \in 0..HoldLong
  <2>1. heldFor + e \in Nat
    BY <1>3
  <2>2. UpTo(heldFor + e, HoldLong) \in 0..HoldLong
    BY <2>1, <1>3, UpToFacts
  <2>3. heldFor' = IF Edge THEN 0 ELSE UpTo(heldFor + e, HoldLong)
    BY DEF HeldUpdate
  <2>4. QED
    BY <1>3, <2>2, <2>3
<1>5. sinceRelease' \in 0..Gap
  <2>1. sinceRelease + e \in Nat
    BY <1>3
  <2>2. UpTo(sinceRelease + e, Gap) \in 0..Gap
    BY <2>1, <1>3, UpToFacts
  <2>3. sinceRelease' = IF presses = 0 THEN 0 ELSE UpTo(sinceRelease + e, Gap)
    BY DEF HeldUpdate
  <2>4. QED
    BY <1>3, <2>2, <2>3
<1>6. /\ holding' = (holding \/ starts)
      /\ holdLongSent' = (holdLongSent \/ lengthens)
      /\ emitted' = (IF starts THEN <<"HoldStart">> ELSE <<>>)
                       \o (IF lengthens THEN <<"HoldLong">> ELSE <<>>)
  BY DEF HeldUpdate
<1>7. Holds \subseteq Producible /\ "HoldStart" \in Holds /\ "HoldLong" \in Holds
  BY <1>1, WhatIsProducible DEF Holds
<1>8. /\ starts /\ ~lengthens => emitted' = <<"HoldStart">>
      /\ starts /\ lengthens => emitted' = <<"HoldStart", "HoldLong">>
      /\ ~starts /\ lengthens => emitted' = <<"HoldLong">>
      /\ ~starts /\ ~lengthens => emitted' = <<>>
  <2> HIDE DEF starts, lengthens
  <2>1. QED
    BY <1>6, <1>7, Utterances
<1>9. emitted' \in Seq(Producible') /\ Len(emitted') <= 2
  <2> HIDE DEF starts, lengthens
  <2>1. "HoldStart" \in Producible /\ "HoldLong" \in Producible
    BY <1>7
  <2>2. /\ emitted' \in Seq(Producible)
        /\ Len(emitted') = 0 \/ Len(emitted') = 1 \/ Len(emitted') = 2
    BY <1>8, <2>1, Utterances, Zenon
  <2>3. emitted' \in Seq(Producible')
    BY <1>2, <2>2, Zenon
  <2>4. Len(emitted') <= 2
    BY <2>2, UpToTwo, Zenon
  <2>5. QED
    BY <2>3, <2>4
<1>10. \A i \in DOMAIN emitted' : emitted'[i] \in Holds
  <2> HIDE DEF starts, lengthens
  <2>1. emitted' \in Seq(Holds)
    BY <1>7, <1>8, Utterances
  <2>2. QED
    BY <2>1, LenProperties, ElementOfSeq
<1>11. holding' \in BOOLEAN /\ holdLongSent' \in BOOLEAN
  BY <1>6, Zenon
<1>12. GestureTypeOK'
  BY <1>1, <1>2, <1>4, <1>5, <1>9, <1>11 DEF GestureTypeOK
<1>13. HoldIsAlone'
  BY <1>1, <1>2, <1>6 DEF HoldIsAlone
<1>14. InstantCountsNothing' /\ UntouchedIsSettled' /\ NoPressOverdue' /\ BootReportsNoPress'
  BY <1>1, <1>2, <1>10 DEF InstantCountsNothing, UntouchedIsSettled, NoPressOverdue,
     BootReportsNoPress, Holds
<1>15. GestureInv'
  BY <1>12, <1>13, <1>14 DEF GestureInv
<1>16. GrammarStep
  <2>1. CASE ~starts /\ ~lengthens
    BY <1>2, <1>6, <1>8, <2>1, SilenceFollows
  <2>2. CASE starts \/ lengthens
    <3>1. holding' /\ (holdLongSent => holding)
      BY <1>6, <2>2 DEF HoldIsAlone
    <3>2. \/ ~holding /\ ~holdLongSent' /\ emitted' = <<"HoldStart">>
          \/ ~holding /\ holdLongSent' /\ emitted' = <<"HoldStart", "HoldLong">>
          \/ holding /\ ~holdLongSent /\ holdLongSent' /\ emitted' = <<"HoldLong">>
      BY <1>6, <1>8, <2>2, <3>1
    <3>3. QED
      BY <1>2, <1>7, <3>1, <3>2, HoldFollows
  <2>3. QED
    BY <2>1, <2>2
<1>17. QED
  BY <1>15, <1>16

(* A press that is counted, or a window that runs on, with no hold on: presses   *)
(* alone are reported, by a switch in Full mode.                                 *)
LEMMA CountingStep ==
  ASSUME GestureAssumption, GestureInv,
         NEW pressed \in BOOLEAN, NEW e \in Elapsed, Sample(pressed, e), Settle,
         mode = "Full", ~holding, holding' = holding, holdLongSent' = holdLongSent,
         heldFor' \in 0..HoldLong,
         IF Edge THEN CountPresses(presses + 1, 0, <<>>)
                 ELSE CountPresses(presses, sinceRelease + e, <<>>)
  PROVE  GestureInv' /\ GrammarStep
<1> USE InvParts
<1>1. /\ rawLast' \in BOOLEAN /\ rawSince' \in 0..Debounce /\ stable' \in BOOLEAN
      /\ touched' \in BOOLEAN
      /\ kind' = kind /\ mode' = mode /\ Producible' = Producible
      /\ ~touched' => ~touched /\ ~Edge /\ stable' = rawLast' /\ presses = 0
  BY SampleStep
<1>2. PICK n \in 0..3, ms \in Nat :
         CountPresses(n, ms, <<>>) /\ (~Edge => n = presses)
  <2>1. CASE Edge
    <3>1. presses + 1 \in 0..3 /\ 0 \in Nat
      OBVIOUS
    <3>2. QED
      BY <2>1, <3>1
  <2>2. CASE ~Edge
    <3>1. presses \in 0..3 /\ sinceRelease + e \in Nat
      BY DEF GestureAssumption
    <3>2. QED
      BY <2>2, <3>1
  <2>3. QED
    BY <2>1, <2>2
<1>3. /\ presses' \in 0..2 /\ sinceRelease' \in 0..Gap
      /\ presses' > 0 => sinceRelease' < Gap
      /\ n = 0 => presses' = 0 /\ emitted' = <<>>
      /\ \/ emitted' = <<>>
         \/ \E g \in Presses : emitted' = Append(<<>>, g)
  BY <1>2, CountStep
<1>4. Presses \subseteq Producible
  BY WhatIsProducible
<1>5. emitted' = <<>> \/ \E g \in Presses \cap Producible : emitted' = <<g>>
  <2>1. ASSUME NEW g \in Presses, emitted' = Append(<<>>, g)
        PROVE  \E h \in Presses \cap Producible : emitted' = <<h>>
    BY <1>4, <2>1, Utterances
  <2>2. QED
    BY <1>3, <2>1
<1>6. emitted' \in Seq(Producible') /\ Len(emitted') <= 2
  <2>1. emitted' \in Seq(Producible) /\ (Len(emitted') = 0 \/ Len(emitted') = 1)
    BY <1>4, <1>5, Utterances, EmptySeq, Zenon
  <2>2. emitted' \in Seq(Producible')
    BY <1>1, <2>1, Zenon
  <2>3. Len(emitted') <= 2
    BY <2>1, UpToTwo, Zenon
  <2>4. QED
    BY <2>2, <2>3
<1>7. GestureTypeOK'
  BY <1>1, <1>3, <1>6 DEF GestureTypeOK
<1>8. HoldIsAlone' /\ InstantCountsNothing' /\ NoPressOverdue'
  BY <1>1, <1>3 DEF HoldIsAlone, InstantCountsNothing, NoPressOverdue, Modes
<1>9. ASSUME ~touched' PROVE stable' = rawLast' /\ presses' = 0 /\ emitted' = <<>>
  BY <1>1, <1>2, <1>3, <1>9
<1>10. GestureInv'
  BY <1>7, <1>8, <1>9 DEF GestureInv, UntouchedIsSettled, BootReportsNoPress
<1>11. GrammarStep
  BY <1>1, <1>5, SilenceFollows, PressFollows
<1>12. QED
  BY <1>10, <1>11

(* A momentary switch that is, or comes, up. *)
LEMMA UpStep ==
  ASSUME GestureAssumption, GestureInv,
         NEW pressed \in BOOLEAN, NEW e \in Elapsed, UpUpdate(pressed, e)
  PROVE  GestureInv' /\ GrammarStep
<1> USE InvParts
<1>1. /\ mode = "Full" /\ kind = "Momentary" /\ Sample(pressed, e) /\ Settle
      /\ ~stable' /\ heldFor' = 0
  BY DEF UpUpdate
<1>2. 0 \in 0..HoldLong
  BY DEF GestureAssumption
<1>3. CASE Edge /\ holding
  <2>1. /\ rawLast' \in BOOLEAN /\ rawSince' \in 0..Debounce /\ stable' \in BOOLEAN
        /\ touched' \in BOOLEAN
        /\ kind' = kind /\ mode' = mode /\ Producible' = Producible
        /\ ~touched' => ~Edge
    BY <1>1, SampleStep
  <2>2. /\ ~holding' /\ ~holdLongSent' /\ holding' \in BOOLEAN /\ holdLongSent' \in BOOLEAN
        /\ CountPresses(presses, sinceRelease + e, <<"HoldEnd">>)
    BY <1>3, Zenon DEF UpUpdate
  <2>3. presses = 0
    BY <1>3 DEF HoldIsAlone
  <2>4. sinceRelease + e \in Nat /\ 0 \in 0..3
    BY DEF GestureAssumption
  <2>5. presses' = 0 /\ sinceRelease' \in 0..Gap /\ emitted' = <<"HoldEnd">>
    BY <2>2, <2>3, <2>4, CountStep
  <2>6. "HoldEnd" \in Producible
    BY <1>1, WhatIsProducible DEF Holds
  <2>7. emitted' \in Seq(Producible') /\ Len(emitted') <= 2
    <3>1. emitted' \in Seq(Producible) /\ Len(emitted') = 1
      BY <2>5, <2>6, Utterances
    <3>2. emitted' \in Seq(Producible')
      BY <2>1, <3>1, Zenon
    <3>3. QED
      BY <3>1, <3>2, UpToTwo, Zenon
  <2>8. GestureTypeOK'
    BY <1>1, <1>2, <2>1, <2>2, <2>5, <2>7 DEF GestureTypeOK
  <2>9. touched'
    BY <1>3, <2>1
  <2>10. GestureInv'
    BY <2>2, <2>5, <2>8, <2>9 DEF GestureInv, HoldIsAlone, InstantCountsNothing,
       UntouchedIsSettled, NoPressOverdue, BootReportsNoPress
  <2>11. GrammarStep
    BY <1>3, <2>1, <2>2, <2>5, HoldEndFollows
  <2>12. QED
    BY <2>10, <2>11
<1>4. CASE ~(Edge /\ holding)
  <2>1. ~holding
    BY <1>1, <1>4, SampleStep DEF HoldIsAlone
  <2>2. /\ holding' = holding /\ holdLongSent' = holdLongSent
        /\ IF Edge THEN CountPresses(presses + 1, 0, <<>>)
                   ELSE CountPresses(presses, sinceRelease + e, <<>>)
    BY <1>4 DEF UpUpdate
  <2>3. QED
    BY <1>1, <1>2, <2>1, <2>2, CountingStep
<1>5. QED
  BY <1>3, <1>4

(* A toggle switch. *)
LEMMA ToggleStep ==
  ASSUME GestureAssumption, GestureInv,
         NEW pressed \in BOOLEAN, NEW e \in Elapsed, ToggleUpdate(pressed, e)
  PROVE  GestureInv' /\ GrammarStep
<1> USE InvParts
<1>1. /\ mode = "Full" /\ kind = "Toggle" /\ Sample(pressed, e) /\ Settle
      /\ holding' = holding /\ holdLongSent' = holdLongSent /\ heldFor' = heldFor
      /\ IF Edge THEN CountPresses(presses + 1, 0, <<>>)
                 ELSE CountPresses(presses, sinceRelease + e, <<>>)
  BY DEF ToggleUpdate
<1>2. ~holding
  BY <1>1 DEF HoldIsAlone
<1>3. heldFor' \in 0..HoldLong
  BY <1>1
<1>4. QED
  BY <1>1, <1>2, <1>3, CountingStep

-----------------------------------------------------------------------------
(* Every step, and the specification. *)

LEMMA GestureStep ==
  ASSUME GestureAssumption, GestureInv,
         NEW pressed \in BOOLEAN, NEW e \in Elapsed, GestureUpdate(pressed, e)
  PROVE  GestureInv' /\ GrammarStep
BY InstantStep, HeldStep, UpStep, ToggleStep DEF GestureUpdate

LEMMA GestureStays ==
  ASSUME GestureInv, UNCHANGED gestureVars
  PROVE  GestureInv' /\ GrammarStep
<1>1. GestureInv'
  BY DEF gestureVars, switch, debouncer, GestureInv, GestureTypeOK, HoldIsAlone,
     InstantCountsNothing, UntouchedIsSettled, NoPressOverdue, BootReportsNoPress,
     Producible, Presses, Holds
<1>2. UNCHANGED Grammar!vars
  BY DEF gestureVars, switch, Grammar!vars, Producible, Presses, Holds, HoldPhase
<1>3. QED
  BY <1>1, <1>2 DEF GrammarStep

LEMMA GestureInitInv ==
  ASSUME GestureAssumption, GestureInit
  PROVE  GestureInv /\ Grammar!Init
<1>1. /\ kind \in Kinds /\ mode \in Modes
      /\ rawLast \in BOOLEAN /\ rawSince = Debounce /\ stable = rawLast
      /\ ~holding /\ ~holdLongSent /\ presses = 0 /\ sinceRelease = 0
      /\ heldFor \in {0, HoldLong} /\ emitted = <<>> /\ ~touched
  BY DEF GestureInit
<1>2. rawSince \in 0..Debounce /\ heldFor \in 0..HoldLong /\ sinceRelease \in 0..Gap
      /\ presses \in 0..2
  BY <1>1 DEF GestureAssumption
<1>3. stable \in BOOLEAN /\ holding \in BOOLEAN /\ holdLongSent \in BOOLEAN
      /\ touched \in BOOLEAN
  BY <1>1, Zenon DEF GestureInit
<1>4. emitted \in Seq(Producible) /\ Len(emitted) <= 2
  <2>1. emitted \in Seq(Producible) /\ Len(emitted) = 0
    BY <1>1, EmptySeq
  <2>2. QED
    BY <2>1, UpToTwo, Zenon
<1>5. GestureTypeOK
  BY <1>1, <1>2, <1>3, <1>4 DEF GestureTypeOK
<1>6. GestureInv
  BY <1>1, <1>5 DEF GestureInv, HoldIsAlone, InstantCountsNothing, UntouchedIsSettled,
     NoPressOverdue, BootReportsNoPress
<1>7. Producible \in SUBSET (Grammar!Presses \cup Grammar!Holds)
  BY <1>1, WhatIsProducible DEF Grammar!Presses, Grammar!Holds, Presses, Holds
<1>8. Grammar!Init
  BY <1>1, <1>7 DEF Grammar!Init, HoldPhase
<1>9. QED
  BY <1>6, <1>8

LEMMA GestureInvHolds == GestureSpec => []GestureInv
<1>1. GestureInit => GestureInv
  BY GestureInitInv, GestureAssumption
<1>2. GestureInv /\ [GestureNext]_gestureVars => GestureInv'
  BY GestureStep, GestureStays, GestureAssumption DEF GestureNext
<1>3. QED
  BY <1>1, <1>2, PTL DEF GestureSpec

(* The detector's fields keep their types, the press counter stays below the      *)
(* three that empty it and an update says two things at most (gesture_detector.cpp *)
(* 28-110): for every timing.                                                      *)
THEOREM GestureTypesHold == GestureSpec => []GestureTypeOK
<1>1. GestureInv => GestureTypeOK
  BY DEF GestureInv
<1>2. QED
  BY <1>1, GestureInvHolds, PTL

(* No press waits past its window (gesture_detector.cpp 101), however the switch  *)
(* bounces and however unevenly the control loop samples it.                      *)
THEOREM NoPressIsOverdue == GestureSpec => []NoPressOverdue
<1>1. GestureInv => NoPressOverdue
  BY DEF GestureInv
<1>2. QED
  BY <1>1, GestureInvHolds, PTL

(* A switch nobody has touched since power-up reports no press, in whichever      *)
(* position prime() found it (button.cpp 21-24).                                  *)
THEOREM BootNeverReportsAPress == GestureSpec => []BootReportsNoPress
<1>1. GestureInv => BootReportsNoPress
  BY DEF GestureInv
<1>2. QED
  BY <1>1, GestureInvHolds, PTL

(* The detector implements the grammar its listeners rely on: every update says    *)
(* nothing, one press outside a hold, or the next words of a hold, and only what   *)
(* producesGesture admits for the switch (gesture.h 68-72).                        *)
THEOREM GestureImplementsGrammar == GestureSpec => FollowsGrammar
<1>1. GestureInit => Grammar!Init
  BY GestureInitInv, GestureAssumption
<1>2. GestureInv /\ [GestureNext]_gestureVars => [Grammar!Next]_(Grammar!vars)
  BY GestureStep, GestureStays, GestureAssumption DEF GestureNext, GrammarStep
<1>3. QED
  BY <1>1, <1>2, GestureInvHolds, PTL DEF GestureSpec, FollowsGrammar, Grammar!Spec
==============================================================================
