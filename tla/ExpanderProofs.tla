--------------------------- MODULE ExpanderProofs ---------------------------
(* Proofs about Expander, for any number of expanders, pins and interlocked    *)
(* outputs, every safety period and every pace of the loop.                    *)
EXTENDS Expander, TLAPS

(* A loop over the expanders goes on with the next one, or is through. *)
LEMMA AdvanceTurns ==
    ASSUME NEW this, NEW after, turn \in Chips, Advance(this, after)
    PROVE  /\ turn' \in Chips
           /\ \/ step' = this /\ turn' = turn + 1
              \/ step' = after /\ turn' = 1 /\ turn = Last
BY ChipAssumption DEF Advance, Chips

(* One more read that failed costs one more period. *)
LEMMA OneMorePeriod ==
    ASSUME NEW n \in Nat, NEW d \in Nat
    PROVE  (n + 1) * d = n * d + d /\ n * d \in Nat
OBVIOUS

(* The same with the period of this module, for any count of failures. *)
LEMMA FailuresCost ==
    ASSUME NEW n \in 0..MaxFailures
    PROVE  /\ n * (Safety + Slowest) \in Nat
           /\ (n + 1) * (Safety + Slowest) = n * (Safety + Slowest) + Safety + Slowest
<1>1. Safety + Slowest \in Nat /\ n \in Nat
  BY PaceAssumption
<1>2. n * (Safety + Slowest) \in Nat /\ (n + 1) * (Safety + Slowest) = n * (Safety + Slowest) + (Safety + Slowest)
  BY <1>1, OneMorePeriod
<1>3. QED
  BY <1>1, <1>2, PaceAssumption

-----------------------------------------------------------------------------
(* Boot starts with nothing read, nothing asked for. *)
LEMMA InitInv == ExpanderInit => ExpanderInv
<1> SUFFICES ASSUME ExpanderInit PROVE ExpanderInv
  OBVIOUS
<1> USE ChipAssumption, PaceAssumption
<1>1. turn = 1 /\ 1 \in Chips /\ step = "direct" /\ \A c \in Chips : ~(c < 1)
  BY DEF ExpanderInit, Chips
<1>2. ExpanderTypeOK
  <2>1. latch \in [Out -> BOOLEAN]
    BY DEF ExpanderInit
  <2>2. QED
    BY <1>1, <2>1 DEF ExpanderInit, ExpanderTypeOK, Steps
<1>3. \A c \in Chips : ~Up(c)
  BY <1>1 DEF Up, Running
<1>4. IntTellsOfChanges
  BY <1>3 DEF IntTellsOfChanges
<1>5. CleanIsWritten
  BY <1>1, <1>3, ChipAssumption DEF CleanIsWritten, Latched
<1>6. ReadInTime
  BY <1>1 DEF ExpanderInit, ReadInTime
<1>7. BehindIsCounted
  <2>1. \A c \in Chips : sinceRead[c] = 0 /\ behind[c] = 0 /\ failures[c] = 0
    BY DEF ExpanderInit
  <2>2. 0 * (Safety + Slowest) = 0
    OBVIOUS
  <2>3. QED
    BY <1>1, <2>1, <2>2 DEF BehindIsCounted
<1>8. NeverAskedTogether
  BY DEF ExpanderInit, NeverAskedTogether, Asked
<1>9. QED
  BY <1>2, <1>4, <1>5, <1>6, <1>7, <1>8 DEF ExpanderInv

(* What is asked of the outputs only changes when a device writes. *)
LEMMA AskedKept ==
    ASSUME NeverAskedTogether, UNCHANGED outputShadow
    PROVE  NeverAskedTogether'
BY DEF NeverAskedTogether, Asked

(* Mcp23017::initialize: the first seven writes. *)
LEMMA DirectStep ==
    ASSUME ExpanderInv, Direct
    PROVE  ExpanderInv'
<1> USE DEF ExpanderInv
<1>1. /\ UNCHANGED <<level, intLow, interrupted, sinceRead, inputShadow, missed, failures, behind>>
      /\ UNCHANGED <<outputShadow, dirty, latch, turn>>
      /\ step = "direct" /\ step' = "latch"
      /\ driven' \in [Chips -> BOOLEAN] /\ allOk' \in BOOLEAN
  BY DEF Direct, inputs, ExpanderTypeOK
<1>2. \A c \in Chips : (Up(c)' <=> Up(c)) /\ (Stale(c)' <=> Stale(c)) /\ (Passed(c)' <=> Passed(c))
  BY <1>1 DEF Up, Running, BootSteps, Stale, Inputs, Passed
<1>3. ExpanderTypeOK'
  BY <1>1 DEF ExpanderTypeOK, Steps
<1>4. IntTellsOfChanges'
  BY <1>1, <1>2 DEF IntTellsOfChanges
<1>5. ReadInTime'
  BY <1>1, <1>2 DEF ReadInTime
<1>6. BehindIsCounted'
  BY <1>1 DEF BehindIsCounted, BootSteps
<1>7. CleanIsWritten'
  BY <1>1, <1>2, ChipAssumption DEF CleanIsWritten, Latched
<1>8. QED
  BY <1>1, <1>3, <1>4, <1>5, <1>6, <1>7, AskedKept

(* Its last write, and the flags it resets. *)
LEMMA LatchStep ==
    ASSUME ExpanderInv, Latch
    PROVE  ExpanderInv'
<1> USE DEF ExpanderInv
<1> USE PaceAssumption
<1>1. /\ UNCHANGED <<level, intLow, inputShadow, missed, failures, behind>>
      /\ UNCHANGED <<outputShadow, driven, turn, allOk>>
      /\ step = "latch" /\ step' \in {"first read", "halted"} /\ turn \in Chips
  BY DEF Latch, ExpanderTypeOK
<1>2. \A p \in Out : ChipOf[p] # turn => latch'[p] = latch[p]
  BY DEF Latch, ExpanderTypeOK
<1>3. \A c \in Chips : c # turn =>
         dirty'[c] = dirty[c] /\ interrupted'[c] = interrupted[c] /\ sinceRead'[c] = sinceRead[c]
  BY DEF Latch, ExpanderTypeOK
<1>4. sinceRead'[turn] \in {0, sinceRead[turn]}
  BY <1>1 DEF Latch, ExpanderTypeOK
<1>5. ExpanderTypeOK'
  <2>1. latch' \in [Out -> BOOLEAN]
    BY DEF Latch, ExpanderTypeOK
  <2>2. dirty' \in [Chips -> BOOLEAN] /\ interrupted' \in [Chips -> BOOLEAN]
    BY DEF Latch, ExpanderTypeOK
  <2>3. sinceRead' \in [Chips -> 0..Safety + Slowest]
    <3>1. 0 \in 0..Safety + Slowest
      OBVIOUS
    <3>2. CASE sinceRead' = [sinceRead EXCEPT ![turn] = 0]
      BY <3>1, <3>2 DEF ExpanderTypeOK
    <3>3. CASE sinceRead' = sinceRead
      BY <3>3 DEF ExpanderTypeOK
    <3>4. QED
      BY <3>2, <3>3 DEF Latch
  <2>4. QED
    BY <1>1, <2>1, <2>2, <2>3 DEF ExpanderTypeOK, Steps
<1>6. \A c \in Chips : (Up(c)' => Up(c) /\ c # turn) /\ (Stale(c)' <=> Stale(c))
  <2>1. SUFFICES ASSUME NEW c \in Chips
                 PROVE  (Up(c)' => Up(c) /\ c # turn) /\ (Stale(c)' <=> Stale(c))
    OBVIOUS
  <2>2. Stale(c)' <=> Stale(c)
    BY <1>1 DEF Stale, Inputs
  <2>3. Up(c)' => c < turn
    BY <1>1 DEF Up, Running, BootSteps
  <2>4. c < turn => Up(c)
    BY <1>1 DEF Up, BootSteps
  <2>5. c < turn => c # turn
    <3>1. turn \in Nat
      <4>1. turn \in Chips
        BY <1>1
      <4>2. QED
        BY <4>1, ChipAssumption DEF Chips
    <3>2. QED
      BY <3>1
  <2>6. QED
    BY <2>2, <2>3, <2>4, <2>5
<1>7. IntTellsOfChanges'
  BY <1>1, <1>3, <1>6 DEF IntTellsOfChanges
<1>8. \A c \in Chips : Passed(c)
  BY <1>1 DEF Passed
<1>9. ReadInTime'
  <2>1. \A c \in Chips : sinceRead'[c] < Safety
    BY <1>3, <1>4, <1>8 DEF ReadInTime
  <2>2. \A c \in Chips : sinceRead'[c] < Safety + Slowest
    BY <1>3, <1>4 DEF ReadInTime
  <2>3. QED
    BY <1>1, <2>1, <2>2 DEF ReadInTime
<1>10. BehindIsCounted'
  <2>1. SUFFICES ASSUME NEW c \in Chips
                 PROVE  /\ step' \in BootSteps => behind'[c] = 0
                        /\ behind'[c] <= sinceRead'[c] + failures'[c] * (Safety + Slowest)
                             + (IF step' = "read" /\ turn' = c THEN Safety + Slowest ELSE 0)
    BY DEF BehindIsCounted
  <2>2. behind'[c] = 0
    BY <1>1 DEF BehindIsCounted, BootSteps
  <2>3. failures'[c] \in Nat /\ sinceRead'[c] \in Nat
    BY <1>5 DEF ExpanderTypeOK
  <2>4. failures'[c] * (Safety + Slowest) \in Nat
    BY <2>3, OneMorePeriod
  <2>5. step' # "read"
    BY <1>1
  <2>6. QED
    BY <2>2, <2>3, <2>4, <2>5
<1>11. CleanIsWritten'
  <2>1. SUFFICES ASSUME NEW p \in Out, Latched(ChipOf[p])', ~dirty'[ChipOf[p]]
                 PROVE  latch'[p] = outputShadow[p]
    BY <1>1 DEF CleanIsWritten
  <2>2. ChipOf[p] \in Chips
    BY ChipAssumption
  <2>3. CASE ChipOf[p] = turn
    <3>1. step' = "first read"
      BY <1>1, <1>6, <2>1, <2>2, <2>3 DEF Latched
    <3>2. QED
      BY <2>3, <3>1 DEF Latch
  <2>4. CASE ChipOf[p] # turn
    <3>1. Up(ChipOf[p])
      BY <1>1, <1>6, <2>1, <2>2, <2>4 DEF Latched
    <3>2. QED
      BY <1>2, <1>3, <2>1, <2>2, <2>4, <3>1 DEF CleanIsWritten, Latched
  <2>5. QED
    BY <2>3, <2>4
<1>12. QED
  BY <1>1, <1>5, <1>7, <1>9, <1>10, <1>11, AskedKept

(* A transfer brings one shadow up to date and leaves the others alone. *)
LEMMA TransferReads ==
    ASSUME ExpanderTypeOK, Transfer, UNCHANGED level
    PROVE  /\ ~intLow'[turn] /\ behind'[turn] = 0 /\ failures'[turn] = 0
           /\ \A c \in Chips : Stale(c)' <=> c # turn /\ Stale(c)
           /\ \A c \in Chips : c # turn =>
                /\ intLow'[c] = intLow[c] /\ missed'[c] = missed[c]
                /\ behind'[c] = behind[c] /\ failures'[c] = failures[c]
           /\ interrupted' = interrupted
           /\ inputShadow' \in [In -> BOOLEAN] /\ intLow' \in [Chips -> BOOLEAN]
           /\ missed' \in [Chips -> BOOLEAN] /\ failures' \in [Chips -> 0..MaxFailures]
           /\ behind' \in [Chips -> Nat]
<1> USE DEF ExpanderTypeOK
<1>1. \A c \in Chips : Stale(c)' <=> c # turn /\ Stale(c)
  BY DEF Transfer, Stale, Inputs
<1>2. ~intLow'[turn] /\ behind'[turn] = 0 /\ failures'[turn] = 0
  BY DEF Transfer
<1>3. \A c \in Chips : c # turn =>
         /\ intLow'[c] = intLow[c] /\ missed'[c] = missed[c]
         /\ behind'[c] = behind[c] /\ failures'[c] = failures[c]
  BY DEF Transfer
<1>4. interrupted' = interrupted /\ inputShadow' \in [In -> BOOLEAN] /\ intLow' \in [Chips -> BOOLEAN]
  BY DEF Transfer
<1>5. missed' \in [Chips -> BOOLEAN] /\ behind' \in [Chips -> Nat]
  BY DEF Transfer
<1>6. failures' \in [Chips -> 0..MaxFailures]
  BY PaceAssumption DEF Transfer
<1>7. QED
  BY <1>1, <1>2, <1>3, <1>4, <1>5, <1>6

(* Advancing passes the expander at hand, and no later one. *)
LEMMA AdvancePasses ==
    ASSUME NEW this, NEW after, turn \in Chips, Advance(this, after), NEW c \in Chips
    PROVE  \/ c < turn /\ ~(c >= turn) /\ ~(c > turn)
           \/ c = turn /\ ~(c > turn)
           \/ c > turn /\ step' = this /\ c >= turn' /\ ~(c < turn')
BY ChipAssumption DEF Advance, Chips

(* The first read; a failed one halts the panel. *)
LEMMA FirstReadStep ==
    ASSUME ExpanderInv, FirstRead
    PROVE  ExpanderInv'
<1> USE DEF ExpanderInv
<1>1. /\ UNCHANGED <<level, sinceRead, outputShadow, dirty, driven, latch, allOk>>
      /\ step = "first read" /\ turn \in Chips /\ ~Running
  BY DEF FirstRead, outputs, ExpanderTypeOK, Running
<1>2. \A c \in Chips : Passed(c)
  BY <1>1 DEF Passed
<1>3. CASE step' = "halted" /\ UNCHANGED <<intLow, inputShadow, interrupted, missed, failures, behind, turn>>
  <2>1. ExpanderTypeOK'
    BY <1>1, <1>3 DEF ExpanderTypeOK, Steps
  <2>2. \A c \in Chips : ~Latched(c)' /\ ~Up(c)'
    BY <1>1, <1>3 DEF Latched, Up, Running, BootSteps
  <2>3. IntTellsOfChanges' /\ CleanIsWritten'
    BY <2>2, ChipAssumption DEF IntTellsOfChanges, CleanIsWritten
  <2>4. ReadInTime'
    BY <1>1, <1>2, <1>3 DEF ReadInTime
  <2>5. BehindIsCounted'
    BY <1>1, <1>3 DEF BehindIsCounted, BootSteps
  <2>6. QED
    BY <1>1, <2>1, <2>3, <2>4, <2>5, AskedKept
<1>4. CASE Transfer /\ Advance("direct", "idle")
  <2>1. turn' \in Chips /\ step' \in {"direct", "idle"}
    BY <1>1, <1>4, AdvanceTurns
  <2>2. /\ ~intLow'[turn] /\ behind'[turn] = 0 /\ failures'[turn] = 0
        /\ \A c \in Chips : Stale(c)' <=> c # turn /\ Stale(c)
        /\ \A c \in Chips : c # turn =>
             /\ intLow'[c] = intLow[c] /\ missed'[c] = missed[c]
             /\ behind'[c] = behind[c] /\ failures'[c] = failures[c]
        /\ interrupted' = interrupted
        /\ inputShadow' \in [In -> BOOLEAN] /\ intLow' \in [Chips -> BOOLEAN]
        /\ missed' \in [Chips -> BOOLEAN] /\ failures' \in [Chips -> 0..MaxFailures]
        /\ behind' \in [Chips -> Nat]
    <3>1. ExpanderTypeOK /\ turn \in Chips
      BY <1>1
    <3>2. QED
      BY <1>1, <1>4, <3>1, TransferReads
  <2>3. ExpanderTypeOK'
    BY <1>1, <2>1, <2>2 DEF ExpanderTypeOK, Steps
  <2>4. \A c \in Chips : Up(c)' => Up(c) \/ c = turn
    <3>1. SUFFICES ASSUME NEW c \in Chips, Up(c)' PROVE c < turn \/ c = turn
      BY <1>1 DEF Up, BootSteps
    <3>2. step' = "direct" => c < turn'
      BY <3>1 DEF Up, Running, BootSteps
    <3>3. QED
      BY <1>1, <1>4, <3>2, AdvancePasses
  <2>5. \A c \in Chips : Latched(c)' => Latched(c)
    BY <1>1, <2>1, <2>4 DEF Latched
  <2>6. IntTellsOfChanges'
    <3>1. SUFFICES ASSUME NEW c \in Chips, Up(c)'
                   PROVE  /\ Stale(c)' => intLow'[c]
                          /\ intLow'[c] => interrupted'[c] \/ missed'[c] \/ (step' = "read" /\ turn' = c)
      BY DEF IntTellsOfChanges
    <3>2. CASE c = turn
      BY <2>2, <3>2
    <3>3. CASE c # turn
      <4>1. (Stale(c) => intLow[c]) /\ (intLow[c] => interrupted[c] \/ missed[c])
        BY <1>1, <2>4, <3>1, <3>3 DEF IntTellsOfChanges
      <4>2. QED
        BY <2>2, <3>3, <4>1
    <3>4. QED
      BY <3>2, <3>3
  <2>7. CleanIsWritten'
    BY <1>1, <2>5, ChipAssumption DEF CleanIsWritten
  <2>8. ReadInTime'
    <3>1. step' = "idle" => turn' = 1
      BY <1>4 DEF Advance
    <3>2. QED
      BY <1>1, <1>2, <3>1 DEF ReadInTime
  <2>9. BehindIsCounted'
    <3>1. \A c \in Chips : behind'[c] = 0
      BY <1>1, <2>2 DEF BehindIsCounted, BootSteps
    <3>2. \A c \in Chips : failures'[c] \in 0..MaxFailures /\ sinceRead'[c] \in Nat
      BY <2>3, PaceAssumption DEF ExpanderTypeOK
    <3>3. \A c \in Chips : failures'[c] * (Safety + Slowest) \in Nat
      BY <3>2, FailuresCost
    <3>4. step' # "read"
      BY <2>1
    <3>5. QED
      BY <3>1, <3>2, <3>3, <3>4 DEF BehindIsCounted
  <2>10. QED
    BY <1>1, <2>3, <2>6, <2>7, <2>8, <2>9, AskedKept
<1>5. QED
  BY <1>3, <1>4 DEF FirstRead

-----------------------------------------------------------------------------
(* The loop.  What a step leaves alone keeps what was known about it. *)
LEMMA InputsKept ==
    ASSUME IntTellsOfChanges, ReadInTime, BehindIsCounted, Running,
           UNCHANGED <<level, intLow, interrupted, sinceRead, inputShadow, missed, failures, behind>>,
           step \notin {"refresh", "read"}, step' \in {"work", "flush", "idle"},
           step' = "idle" => turn' = 1
    PROVE  IntTellsOfChanges' /\ ReadInTime' /\ BehindIsCounted'
<1>1. \A c \in Chips : Up(c) /\ Passed(c) /\ (Stale(c)' <=> Stale(c))
  BY DEF Up, Passed, Stale, Inputs
<1>2. IntTellsOfChanges'
  BY <1>1 DEF IntTellsOfChanges
<1>3. ReadInTime'
  BY <1>1 DEF ReadInTime
<1>4. BehindIsCounted'
  BY DEF BehindIsCounted, BootSteps
<1>5. QED
  BY <1>2, <1>3, <1>4

LEMMA OutputsKept ==
    ASSUME CleanIsWritten, NeverAskedTogether, Running, Running', UNCHANGED outputs
    PROVE  CleanIsWritten' /\ NeverAskedTogether'
<1>1. CleanIsWritten'
  BY DEF CleanIsWritten, Latched, Up, outputs
<1>2. QED
  BY <1>1, AskedKept DEF outputs

(* Time passes. *)
LEMMA BeginStep ==
    ASSUME ExpanderInv, NEW e \in Elapsed, Begin(e)
    PROVE  ExpanderInv'
<1> USE DEF ExpanderInv
<1>1. /\ UNCHANGED <<level, intLow, inputShadow, interrupted, missed, failures, turn>>
      /\ UNCHANGED <<outputs, allOk>>
      /\ step = "idle" /\ step' = "refresh"
      /\ Running /\ Running'
  BY DEF Begin, Running
<1>2. e \in Nat /\ e <= Slowest
  BY PaceAssumption
<1>3. turn = 1 /\ \A c \in Chips : sinceRead[c] \in Nat /\ sinceRead[c] < Safety /\ behind[c] \in Nat
  BY <1>1, PaceAssumption DEF ReadInTime, Passed, ExpanderTypeOK
<1>4. \A c \in Chips : sinceRead'[c] = sinceRead[c] + e /\ behind'[c] \in {behind[c] + e, 0}
  BY DEF Begin
<1>5. \A c \in Chips : sinceRead'[c] \in Nat /\ sinceRead'[c] < Safety + Slowest
  BY <1>2, <1>3, <1>4, PaceAssumption
<1>6. ExpanderTypeOK'
  <2>1. sinceRead' = [c \in Chips |-> sinceRead'[c]] /\ behind' = [c \in Chips |-> behind'[c]]
    BY DEF Begin
  <2>2. sinceRead' \in [Chips -> 0..Safety + Slowest]
    BY <1>5, <2>1, PaceAssumption
  <2>3. \A c \in Chips : behind'[c] \in Nat
    BY <1>2, <1>3, <1>4
  <2>4. behind' \in [Chips -> Nat]
    BY <2>1, <2>3
  <2>5. QED
    BY <1>1, <2>2, <2>4 DEF ExpanderTypeOK, Steps, outputs
<1>7. IntTellsOfChanges'
  BY <1>1 DEF IntTellsOfChanges, Up, Stale, Inputs
<1>8. ReadInTime'
  <2>1. \A c \in Chips : ~Passed(c)'
    BY <1>1, <1>3 DEF Passed, Chips
  <2>2. QED
    BY <1>1, <1>5, <2>1 DEF ReadInTime
<1>9. BehindIsCounted'
  <2>1. SUFFICES ASSUME NEW c \in Chips
                 PROVE  behind'[c] <= sinceRead'[c] + failures'[c] * (Safety + Slowest) + 0
    BY <1>1 DEF BehindIsCounted, BootSteps
  <2>2. failures[c] \in 0..MaxFailures /\ failures'[c] = failures[c]
    BY <1>1 DEF ExpanderTypeOK
  <2>3. failures[c] * (Safety + Slowest) \in Nat
    BY <2>2, FailuresCost
  <2>4. behind[c] <= sinceRead[c] + failures[c] * (Safety + Slowest) + 0
    BY <1>1 DEF BehindIsCounted
  <2>5. QED
    BY <1>2, <1>3, <1>4, <2>2, <2>3, <2>4
<1>10. QED
  BY <1>1, <1>6, <1>7, <1>8, <1>9, OutputsKept

(* Mcp23017::refreshInputs: due, the flag falls and the read is next. *)
LEMMA RefreshStep ==
    ASSUME ExpanderInv, Refresh
    PROVE  ExpanderInv'
<1> USE DEF ExpanderInv
<1>1. /\ UNCHANGED <<level, intLow, inputShadow, missed, failures, behind>>
      /\ UNCHANGED <<outputs, allOk>>
      /\ step = "refresh" /\ turn \in Chips /\ Running
  BY DEF Refresh, ExpanderTypeOK, Running
<1>2. \A c \in Chips : Stale(c)' <=> Stale(c)
  BY <1>1 DEF Stale, Inputs
<1>3. CASE Due(turn)
  <2>1. /\ interrupted' = [interrupted EXCEPT ![turn] = FALSE]
        /\ sinceRead' = [sinceRead EXCEPT ![turn] = 0]
        /\ step' = "read" /\ turn' = turn
    BY <1>3 DEF Refresh
  <2>2. Running' /\ \A c \in Chips : Up(c)
    BY <1>1, <2>1 DEF Running, Up
  <2>3. /\ sinceRead'[turn] = 0
        /\ \A c \in Chips : c # turn => sinceRead'[c] = sinceRead[c] /\ interrupted'[c] = interrupted[c]
    BY <1>1, <2>1 DEF ExpanderTypeOK
  <2>4. ExpanderTypeOK'
    <3>1. 0 \in 0..Safety + Slowest
      BY PaceAssumption
    <3>2. interrupted' \in [Chips -> BOOLEAN] /\ sinceRead' \in [Chips -> 0..Safety + Slowest]
      BY <2>1, <3>1 DEF ExpanderTypeOK
    <3>3. QED
      BY <1>1, <2>1, <3>2 DEF ExpanderTypeOK, Steps, outputs
  <2>5. IntTellsOfChanges'
    BY <1>1, <1>2, <2>1, <2>2, <2>3 DEF IntTellsOfChanges
  <2>6. ReadInTime'
    <3>1. \A c \in Chips : c # turn => sinceRead'[c] < Safety + Slowest
      BY <2>3 DEF ReadInTime
    <3>2. \A c \in Chips : c # turn /\ Passed(c)' => sinceRead'[c] < Safety
      <4>1. \A c \in Chips : c # turn /\ ~(c > turn) => ~(c >= turn)
        BY <1>1, ChipAssumption DEF Chips
      <4>2. \A c \in Chips : c # turn /\ Passed(c)' => Passed(c)
        BY <1>1, <2>1, <4>1 DEF Passed
      <4>3. QED
        BY <2>3, <4>2 DEF ReadInTime
    <3>3. sinceRead'[turn] < Safety /\ sinceRead'[turn] < Safety + Slowest
      BY <2>3, PaceAssumption
    <3>4. QED
      BY <2>1, <3>1, <3>2, <3>3 DEF ReadInTime
  <2>7. BehindIsCounted'
    <3>1. SUFFICES ASSUME NEW c \in Chips
                   PROVE  behind[c] <= sinceRead'[c] + failures[c] * (Safety + Slowest)
                                         + (IF turn = c THEN Safety + Slowest ELSE 0)
      BY <1>1, <2>1 DEF BehindIsCounted, BootSteps
    <3>2. behind[c] <= sinceRead[c] + failures[c] * (Safety + Slowest) + 0
      BY <1>1 DEF BehindIsCounted
    <3>3. failures[c] * (Safety + Slowest) \in Nat
      BY FailuresCost DEF ExpanderTypeOK
    <3>4. behind[c] \in Nat /\ sinceRead[c] \in Nat /\ sinceRead[c] < Safety + Slowest
      BY PaceAssumption DEF ExpanderTypeOK, ReadInTime
    <3>5. CASE c = turn
      BY <2>3, <3>2, <3>3, <3>4, <3>5, PaceAssumption
    <3>6. CASE c # turn
      BY <2>3, <3>2, <3>6
    <3>7. QED
      BY <3>5, <3>6
  <2>8. QED
    BY <1>1, <2>2, <2>4, <2>5, <2>6, <2>7, OutputsKept
<1>4. CASE ~Due(turn)
  <2>1. Advance("refresh", "work") /\ UNCHANGED <<interrupted, sinceRead>>
    BY <1>4 DEF Refresh
  <2>2. turn' \in Chips /\ step' \in {"refresh", "work"}
    BY <1>1, <2>1, AdvanceTurns
  <2>3. Running' /\ \A c \in Chips : Up(c)
    BY <1>1, <2>2 DEF Running, Up
  <2>4. ExpanderTypeOK'
    BY <1>1, <2>1, <2>2 DEF ExpanderTypeOK, Steps, outputs
  <2>5. IntTellsOfChanges'
    BY <1>1, <1>2, <2>1, <2>2, <2>3 DEF IntTellsOfChanges
  <2>6. ReadInTime'
    <3>1. sinceRead[turn] < Safety
      BY <1>1, <1>4, PaceAssumption DEF Due, ExpanderTypeOK
    <3>2. \A c \in Chips : Passed(c)' => c = turn \/ Passed(c)
      BY <1>1, <2>1, AdvancePasses DEF Passed
    <3>3. \A c \in Chips : Passed(c)' => sinceRead[c] < Safety
      BY <3>1, <3>2 DEF ReadInTime
    <3>4. QED
      BY <2>1, <2>2, <3>3 DEF ReadInTime
  <2>7. BehindIsCounted'
    BY <1>1, <2>1, <2>2 DEF BehindIsCounted, BootSteps
  <2>8. QED
    BY <1>1, <2>3, <2>4, <2>5, <2>6, <2>7, OutputsKept
<1>5. QED
  BY <1>3, <1>4

(* The read it decided on; one that fails is counted. *)
LEMMA ReadStep ==
    ASSUME ExpanderInv, Read
    PROVE  ExpanderInv'
<1> USE DEF ExpanderInv
<1>1. /\ UNCHANGED <<level, sinceRead, interrupted>>
      /\ UNCHANGED <<outputs, allOk>>
      /\ step = "read" /\ turn \in Chips /\ Running /\ Advance("refresh", "work")
  BY DEF Read, Transfer, ExpanderTypeOK, Running
<1>2. turn' \in Chips /\ step' \in {"refresh", "work"}
  BY <1>1, AdvanceTurns
<1>3. Running' /\ \A c \in Chips : Up(c)
  BY <1>1, <1>2 DEF Running, Up
<1>4. ReadInTime'
  <2>1. \A c \in Chips : Passed(c)' => Passed(c)
    BY <1>1, AdvancePasses DEF Passed
  <2>2. QED
    BY <1>1, <1>2, <2>1 DEF ReadInTime
<1>5. \A c \in Chips : /\ failures[c] \in 0..MaxFailures /\ failures[c] * (Safety + Slowest) \in Nat
                       /\ sinceRead[c] \in Nat /\ behind[c] \in Nat
  BY PaceAssumption, FailuresCost DEF ExpanderTypeOK
<1>6. CASE Transfer
  <2>1. /\ ~intLow'[turn] /\ behind'[turn] = 0 /\ failures'[turn] = 0
        /\ \A c \in Chips : Stale(c)' <=> c # turn /\ Stale(c)
        /\ \A c \in Chips : c # turn =>
             /\ intLow'[c] = intLow[c] /\ missed'[c] = missed[c]
             /\ behind'[c] = behind[c] /\ failures'[c] = failures[c]
        /\ inputShadow' \in [In -> BOOLEAN] /\ intLow' \in [Chips -> BOOLEAN]
        /\ missed' \in [Chips -> BOOLEAN] /\ failures' \in [Chips -> 0..MaxFailures]
        /\ behind' \in [Chips -> Nat]
    BY <1>1, <1>6, TransferReads
  <2>2. ExpanderTypeOK'
    BY <1>1, <1>2, <2>1 DEF ExpanderTypeOK, Steps, outputs
  <2>3. IntTellsOfChanges'
    <3>1. SUFFICES ASSUME NEW c \in Chips
                   PROVE  /\ Stale(c)' => intLow'[c]
                          /\ intLow'[c] => interrupted'[c] \/ missed'[c]
      BY DEF IntTellsOfChanges
    <3>2. CASE c = turn
      BY <2>1, <3>2
    <3>3. CASE c # turn
      <4>1. (Stale(c) => intLow[c]) /\ (intLow[c] => interrupted[c] \/ missed[c])
        BY <1>3, <3>3 DEF IntTellsOfChanges
      <4>2. QED
        BY <1>1, <2>1, <3>3, <4>1
    <3>4. QED
      BY <3>2, <3>3
  <2>4. BehindIsCounted'
    <3>1. SUFFICES ASSUME NEW c \in Chips
                   PROVE  behind'[c] <= sinceRead[c] + failures'[c] * (Safety + Slowest) + 0
      BY <1>1, <1>2 DEF BehindIsCounted, BootSteps
    <3>2. failures'[c] * (Safety + Slowest) \in Nat
      BY <2>2, FailuresCost DEF ExpanderTypeOK
    <3>3. CASE c = turn
      BY <1>5, <2>1, <3>2, <3>3
    <3>4. CASE c # turn
      BY <2>1, <3>4 DEF BehindIsCounted
    <3>5. QED
      BY <3>3, <3>4
  <2>5. QED
    BY <1>1, <1>3, <1>4, <2>2, <2>3, <2>4, OutputsKept
<1>7. CASE /\ failures[turn] < MaxFailures
           /\ failures' = [failures EXCEPT ![turn] = @ + 1]
           /\ missed' = [missed EXCEPT ![turn] = TRUE]
           /\ UNCHANGED <<intLow, inputShadow, interrupted, behind>>
  <2>1. /\ missed'[turn] /\ failures'[turn] = failures[turn] + 1
        /\ \A c \in Chips : c # turn => missed'[c] = missed[c] /\ failures'[c] = failures[c]
    BY <1>1, <1>7 DEF ExpanderTypeOK
  <2>2. ExpanderTypeOK'
    <3>1. failures[turn] + 1 \in 0..MaxFailures
      BY <1>1, <1>5, <1>7, PaceAssumption
    <3>2. failures' \in [Chips -> 0..MaxFailures] /\ missed' \in [Chips -> BOOLEAN]
      BY <1>7, <3>1 DEF ExpanderTypeOK
    <3>3. QED
      BY <1>1, <1>2, <1>7, <3>2 DEF ExpanderTypeOK, Steps, outputs
  <2>3. \A c \in Chips : Stale(c)' <=> Stale(c)
    BY <1>1, <1>7 DEF Stale, Inputs
  <2>4. IntTellsOfChanges'
    BY <1>1, <1>3, <1>7, <2>1, <2>3 DEF IntTellsOfChanges
  <2>5. BehindIsCounted'
    <3>1. SUFFICES ASSUME NEW c \in Chips
                   PROVE  behind[c] <= sinceRead[c] + failures'[c] * (Safety + Slowest) + 0
      BY <1>1, <1>2, <1>7 DEF BehindIsCounted, BootSteps
    <3>2. behind[c] <= sinceRead[c] + failures[c] * (Safety + Slowest)
                         + (IF turn = c THEN Safety + Slowest ELSE 0)
      BY <1>1 DEF BehindIsCounted
    <3>3. CASE c = turn
      <4>1. failures'[c] * (Safety + Slowest) = failures[c] * (Safety + Slowest) + Safety + Slowest
        BY <1>5, <2>1, <3>3, FailuresCost
      <4>2. QED
        BY <1>5, <3>2, <3>3, <4>1, PaceAssumption
    <3>4. CASE c # turn
      BY <2>1, <3>2, <3>4
    <3>5. QED
      BY <3>3, <3>4
  <2>6. QED
    BY <1>1, <1>3, <1>4, <2>2, <2>4, <2>5, OutputsKept
<1>8. QED
  BY <1>6, <1>7 DEF Read

(* A device writes an output. *)
LEMMA WriteStep ==
    ASSUME ExpanderInv, NEW p \in Out, NEW active \in BOOLEAN, Write(p, active)
    PROVE  ExpanderInv'
<1> USE DEF ExpanderInv
<1>1. /\ UNCHANGED <<level, intLow, interrupted, sinceRead, inputShadow, missed, failures, behind>>
      /\ UNCHANGED <<driven, latch, step, turn, allOk>>
      /\ step = "work" /\ Running /\ Running' /\ ChipOf[p] \in Chips
  BY ChipAssumption DEF Write, inputs, Running
<1>2. /\ outputShadow' = [outputShadow EXCEPT ![p] = (active = (p \in ActiveHigh))]
      /\ dirty' = [dirty EXCEPT ![ChipOf[p]] = @ \/ outputShadow' # outputShadow]
  BY DEF Write
<1>3. ExpanderTypeOK'
  <2>1. outputShadow' \in [Out -> BOOLEAN]
    BY <1>2 DEF ExpanderTypeOK
  <2>2. dirty' \in [Chips -> BOOLEAN]
    BY <1>1, <1>2 DEF ExpanderTypeOK
  <2>3. QED
    BY <1>1, <2>1, <2>2 DEF ExpanderTypeOK
<1>4. IntTellsOfChanges' /\ ReadInTime' /\ BehindIsCounted'
  BY <1>1, InputsKept
<1>5. CleanIsWritten'
  <2>1. SUFFICES ASSUME NEW q \in Out, ~dirty'[ChipOf[q]] PROVE latch[q] = outputShadow'[q]
    BY <1>1 DEF CleanIsWritten
  <2>2. outputShadow'[q] = outputShadow[q] /\ ~dirty[ChipOf[q]]
    <3>1. CASE ChipOf[q] = ChipOf[p]
      BY <1>1, <1>2, <2>1, <3>1 DEF ExpanderTypeOK
    <3>2. CASE ChipOf[q] # ChipOf[p]
      BY <1>1, <1>2, <2>1, <3>2, ChipAssumption DEF ExpanderTypeOK
    <3>3. QED
      BY <3>1, <3>2
  <2>3. QED
    BY <1>1, <2>2 DEF CleanIsWritten, Latched, Up
<1>6. NeverAskedTogether'
  <2>1. SUFFICES ASSUME NEW pair \in Interlocks, NEW a \in pair, NEW b \in pair, a # b,
                        Asked(a)', Asked(b)'
                 PROVE  FALSE
    BY DEF NeverAskedTogether
  <2>2. a \in Out /\ b \in Out
    BY <2>1, ChipAssumption
  <2>3. \A q \in Out : q # p => (Asked(q)' <=> Asked(q))
    BY <1>2 DEF Asked, ExpanderTypeOK
  <2>4. Asked(p)' => active
    BY <1>2 DEF Asked, ExpanderTypeOK
  <2>5. active => \A both \in Interlocks : p \in both => \A q \in both \ {p} : ~Asked(q)
    BY DEF Write
  <2>6. CASE a = p
    BY <2>1, <2>2, <2>3, <2>4, <2>5, <2>6
  <2>7. CASE b = p
    BY <2>1, <2>2, <2>3, <2>4, <2>5, <2>7
  <2>8. CASE a # p /\ b # p
    BY <2>1, <2>2, <2>3, <2>8 DEF NeverAskedTogether
  <2>9. QED
    BY <2>6, <2>7, <2>8
<1>7. QED
  BY <1>3, <1>4, <1>5, <1>6

(* The devices are done. *)
LEMMA EndWorkStep ==
    ASSUME ExpanderInv, EndWork
    PROVE  ExpanderInv'
<1> USE DEF ExpanderInv
<1>1. /\ UNCHANGED <<level, intLow, interrupted, sinceRead, inputShadow, missed, failures, behind>>
      /\ UNCHANGED <<outputs, turn, allOk>>
      /\ step = "work" /\ step' = "flush" /\ Running /\ Running'
  BY DEF EndWork, inputs, Running
<1>2. ExpanderTypeOK'
  BY <1>1 DEF ExpanderTypeOK, Steps, outputs
<1>3. IntTellsOfChanges' /\ ReadInTime' /\ BehindIsCounted'
  BY <1>1, InputsKept
<1>4. QED
  BY <1>1, <1>2, <1>3, OutputsKept

(* Mcp23017::flushOutputs, of a dirty port or a clean one. *)
LEMMA FlushStep ==
    ASSUME ExpanderInv, Flush
    PROVE  ExpanderInv'
<1> USE DEF ExpanderInv
<1>1. /\ UNCHANGED <<level, intLow, interrupted, sinceRead, inputShadow, missed, failures, behind>>
      /\ UNCHANGED <<outputShadow, driven, allOk>>
      /\ step = "flush" /\ turn \in Chips /\ Running /\ Advance("flush", "idle")
  BY DEF Flush, inputs, ExpanderTypeOK, Running
<1>2. /\ latch' = [p \in Out |-> IF dirty[turn] /\ ChipOf[p] = turn THEN outputShadow[p] ELSE latch[p]]
      /\ dirty' = [dirty EXCEPT ![turn] = FALSE]
  BY DEF Flush
<1>3. turn' \in Chips /\ step' \in {"flush", "idle"} /\ (step' = "idle" => turn' = 1)
  BY <1>1, ChipAssumption DEF Advance, Chips
<1>4. Running'
  BY <1>3 DEF Running
<1>5. ExpanderTypeOK'
  <2>1. latch' \in [Out -> BOOLEAN]
    BY <1>2 DEF ExpanderTypeOK
  <2>2. dirty' \in [Chips -> BOOLEAN]
    BY <1>2 DEF ExpanderTypeOK
  <2>3. QED
    BY <1>1, <1>3, <2>1, <2>2 DEF ExpanderTypeOK, Steps
<1>6. IntTellsOfChanges' /\ ReadInTime' /\ BehindIsCounted'
  BY <1>1, <1>3, InputsKept
<1>7. CleanIsWritten'
  <2>1. SUFFICES ASSUME NEW p \in Out, ~dirty'[ChipOf[p]] PROVE latch'[p] = outputShadow[p]
    BY <1>1 DEF CleanIsWritten
  <2>2. ChipOf[p] \in Chips /\ (~dirty[ChipOf[p]] => latch[p] = outputShadow[p])
    BY <1>1, ChipAssumption DEF CleanIsWritten, Latched, Up
  <2>3. CASE ChipOf[p] = turn
    BY <1>2, <2>2, <2>3
  <2>4. CASE ChipOf[p] # turn
    BY <1>1, <1>2, <2>1, <2>2, <2>4 DEF ExpanderTypeOK
  <2>5. QED
    BY <2>3, <2>4
<1>8. QED
  BY <1>1, <1>5, <1>6, <1>7, AskedKept

(* A flush that fails changes nothing it could have promised. *)
LEMMA FlushFailsStep ==
    ASSUME ExpanderInv, FlushFails
    PROVE  ExpanderInv'
<1> USE DEF ExpanderInv
<1>1. /\ UNCHANGED <<level, intLow, interrupted, sinceRead, inputShadow, missed, failures, behind>>
      /\ UNCHANGED <<outputs, allOk>>
      /\ step = "flush" /\ turn \in Chips /\ Running /\ Advance("flush", "idle")
  BY DEF FlushFails, inputs, ExpanderTypeOK, Running
<1>2. turn' \in Chips /\ step' \in {"flush", "idle"} /\ (step' = "idle" => turn' = 1)
  BY <1>1, ChipAssumption DEF Advance, Chips
<1>3. Running'
  BY <1>2 DEF Running
<1>4. ExpanderTypeOK'
  BY <1>1, <1>2 DEF ExpanderTypeOK, Steps, outputs
<1>5. IntTellsOfChanges' /\ ReadInTime' /\ BehindIsCounted'
  BY <1>1, <1>2, InputsKept
<1>6. QED
  BY <1>1, <1>3, <1>4, <1>5, OutputsKept

(* A pin moves, at any time. *)
LEMMA PinMovesStep ==
    ASSUME ExpanderInv, NEW p \in In, PinMoves(p)
    PROVE  ExpanderInv'
<1> USE DEF ExpanderInv
<1> DEFINE moved == ChipOf[p]
<1>1. /\ UNCHANGED <<sinceRead, inputShadow, failures, behind, step, turn, allOk>>
      /\ UNCHANGED <<outputShadow, dirty, driven, latch>>
      /\ moved \in Chips
  BY ChipAssumption DEF PinMoves, outputs
<1>2. level' = [level EXCEPT ![p] = ~@] /\ intLow' = [intLow EXCEPT ![moved] = TRUE]
  BY DEF PinMoves
<1>3. \/ interrupted' = [interrupted EXCEPT ![moved] = TRUE] /\ missed' = missed
      \/ missed' = [missed EXCEPT ![moved] = TRUE] /\ interrupted' = interrupted
      \/ intLow[moved] /\ interrupted' = interrupted /\ missed' = missed
  BY DEF PinMoves
<1>4. ExpanderTypeOK'
  <2>1. level' \in [In -> BOOLEAN]
    BY <1>2 DEF ExpanderTypeOK
  <2>2. intLow' \in [Chips -> BOOLEAN]
    BY <1>2 DEF ExpanderTypeOK
  <2>3. interrupted' \in [Chips -> BOOLEAN] /\ missed' \in [Chips -> BOOLEAN]
    BY <1>3 DEF ExpanderTypeOK
  <2>4. QED
    BY <1>1, <2>1, <2>2, <2>3 DEF ExpanderTypeOK
<1>5. \A c \in Chips : (Up(c)' <=> Up(c)) /\ (Passed(c)' <=> Passed(c)) /\ (Latched(c)' <=> Latched(c))
  BY <1>1 DEF Up, Running, BootSteps, Passed, Latched
<1>6. IntTellsOfChanges'
  <2>1. SUFFICES ASSUME NEW c \in Chips, Up(c)
                 PROVE  /\ Stale(c)' => intLow'[c]
                        /\ intLow'[c] => interrupted'[c] \/ missed'[c] \/ (step = "read" /\ turn = c)
    BY <1>1, <1>5 DEF IntTellsOfChanges
  <2>2. /\ Stale(c) => intLow[c]
        /\ intLow[c] => interrupted[c] \/ missed[c] \/ (step = "read" /\ turn = c)
    BY <2>1 DEF IntTellsOfChanges
  <2>3. CASE c = moved
    <3>1. intLow'[c]
      BY <1>1, <1>2, <2>3 DEF ExpanderTypeOK
    <3>2. interrupted'[c] \/ missed'[c] \/ (intLow[c] /\ interrupted' = interrupted /\ missed' = missed)
      BY <1>1, <1>3, <2>3 DEF ExpanderTypeOK
    <3>3. QED
      BY <2>2, <3>1, <3>2
  <2>4. CASE c # moved
    <3>1. intLow'[c] = intLow[c] /\ interrupted'[c] = interrupted[c] /\ missed'[c] = missed[c]
      BY <1>1, <1>2, <1>3, <2>4 DEF ExpanderTypeOK
    <3>2. \A q \in Inputs(c) : q # p /\ level'[q] = level[q]
      BY <1>2, <2>4 DEF Inputs, ExpanderTypeOK
    <3>3. Stale(c)' <=> Stale(c)
      BY <1>1, <3>2 DEF Stale, Inputs
    <3>4. QED
      BY <2>2, <3>1, <3>3
  <2>5. QED
    BY <2>3, <2>4
<1>7. ReadInTime'
  BY <1>1, <1>5 DEF ReadInTime
<1>8. BehindIsCounted'
  BY <1>1 DEF BehindIsCounted, BootSteps
<1>9. CleanIsWritten'
  BY <1>1, <1>5, ChipAssumption DEF CleanIsWritten
<1>10. QED
  BY <1>1, <1>4, <1>6, <1>7, <1>8, <1>9, AskedKept

-----------------------------------------------------------------------------
(* Every step keeps the invariant. *)
LEMMA NextInv ==
    ASSUME ExpanderInv, [Next]_vars
    PROVE  ExpanderInv'
<1>1. CASE Boot
  BY <1>1, DirectStep, LatchStep, FirstReadStep DEF Boot
<1>2. CASE Loop
  BY <1>2, BeginStep, RefreshStep, ReadStep, EndWorkStep, FlushStep, FlushFailsStep DEF Loop
<1>3. CASE Work
  BY <1>3, WriteStep DEF Work
<1>4. CASE \E p \in In : PinMoves(p)
  BY <1>4, PinMovesStep
<1>5. CASE UNCHANGED vars
  <2> USE DEF vars, inputs, outputs
  <2>1. ExpanderTypeOK'
    BY <1>5 DEF ExpanderInv, ExpanderTypeOK
  <2>2. IntTellsOfChanges'
    BY <1>5 DEF ExpanderInv, IntTellsOfChanges, Up, Running, Stale, Inputs
  <2>3. ReadInTime' /\ BehindIsCounted'
    BY <1>5 DEF ExpanderInv, ReadInTime, Passed, BehindIsCounted
  <2>4. CleanIsWritten' /\ NeverAskedTogether'
    BY <1>5 DEF ExpanderInv, CleanIsWritten, Latched, Up, Running, NeverAskedTogether, Asked
  <2>5. QED
    BY <2>1, <2>2, <2>3, <2>4 DEF ExpanderInv
<1>6. QED
  BY <1>1, <1>2, <1>3, <1>4, <1>5 DEF Next

(* The inductive invariant of the expanders and of the loop that serves them. *)
THEOREM InvariantHolds == Spec => []ExpanderInv
<1>1. QED
  BY InitInv, NextInv, PTL DEF Spec

(* No expander is left unread for longer than kSafetyRefreshMs and the iteration *)
(* in which that ends, and every shadow has its type (mcp23017.cpp:62-68).       *)
THEOREM TypesHold == Spec => []ExpanderTypeOK
<1>1. ExpanderInv => ExpanderTypeOK
  BY DEF ExpanderInv
<1>2. QED
  BY <1>1, InvariantHolds, PTL

(* The flag is cleared before the ports are read, so a change that falls between *)
(* the two is read at once or flagged again: none is forgotten.                  *)
THEOREM NoChangeForgotten == Spec => []NothingForgotten
<1>1. ExpanderInv => NothingForgotten
  BY DEF ExpanderInv, IntTellsOfChanges, NothingForgotten, Up
<1>2. QED
  BY <1>1, InvariantHolds, PTL

(* "A missed edge cannot strand the shadow" (mcp23017.h:14): what devices act on *)
(* is no older than the safety period, and one more for each read that failed.   *)
THEOREM MissedEdgesHeal == Spec => []ShadowCatchesUp
<1>1. ExpanderInv => ShadowCatchesUp
  <2>1. SUFFICES ASSUME ExpanderInv, step = "work", NEW c \in Chips
                 PROVE  behind[c] < Safety + failures[c] * (Safety + Slowest)
    BY DEF ShadowCatchesUp
  <2>2. sinceRead[c] < Safety
    BY <2>1 DEF ExpanderInv, ReadInTime, Passed
  <2>3. behind[c] <= sinceRead[c] + failures[c] * (Safety + Slowest) + 0
    BY <2>1 DEF ExpanderInv, BehindIsCounted
  <2>4. /\ failures[c] * (Safety + Slowest) \in Nat /\ sinceRead[c] \in Nat /\ behind[c] \in Nat
    BY <2>1, FailuresCost, PaceAssumption DEF ExpanderInv, ExpanderTypeOK
  <2>5. QED
    BY <2>2, <2>3, <2>4, PaceAssumption
<1>2. QED
  BY <1>1, InvariantHolds, PTL

(* Interlocked outputs are only energised together while the transfer that drops *)
(* one of them is still to be made, however often it failed.                    *)
THEOREM InterlockKept == Spec => []InterlockHolds
<1>1. ExpanderInv => InterlockHolds
  <2>1. SUFFICES ASSUME ExpanderInv, Running, NEW pair \in Interlocks, NEW p \in pair, NEW q \in pair,
                        p # q, Energised(p), Energised(q)
                 PROVE  \E r \in {p, q} : dirty[ChipOf[r]] /\ ~Asked(r)
    BY DEF InterlockHolds
  <2>2. p \in Out /\ q \in Out
    BY <2>1, ChipAssumption
  <2>3. ~Asked(p) \/ ~Asked(q)
    BY <2>1 DEF ExpanderInv, NeverAskedTogether
  <2>4. \A r \in {p, q} : ~Asked(r) => latch[r] # outputShadow[r]
    BY <2>1 DEF Asked, Energised
  <2>5. \A r \in {p, q} : ~dirty[ChipOf[r]] => latch[r] = outputShadow[r]
    BY <2>1, <2>2 DEF ExpanderInv, CleanIsWritten, Latched, Up
  <2>6. QED
    BY <2>3, <2>4, <2>5
<1>2. QED
  BY <1>1, InvariantHolds, PTL
=============================================================================
