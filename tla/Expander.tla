------------------------------ MODULE Expander ------------------------------
(* The MCP23017 port expanders of a panel and the loop that serves them.       *)
(*                                                                             *)
(* Devices never touch the bus: they read and write shadows of the ports.      *)
(* Mcp23017::refreshInputs brings the input shadow up to date when the chip's  *)
(* INT line has fallen since, or after kSafetyRefreshMs; flushOutputs writes   *)
(* the output shadow once per iteration (main.cpp:260-288).  Pins move, and    *)
(* the interrupt handler runs, between any two steps of the loop; any transfer *)
(* may fail.  A chip holds INT low from a change until its ports are read, and *)
(* only a falling edge interrupts.                                             *)
EXTENDS Naturals

CONSTANTS
    Last,               \* expanders are numbered 1..Last, as the loop visits them
    In, Out, ChipOf,    \* pins claimed by devices, and the expander each is on
    ActiveHigh,         \* outputs energised by a high level
    Interlocks,         \* outputs a device never asks for together: a cover's two
    Safety,             \* kSafetyRefreshMs
    Elapsed, Slowest,   \* ms between two iterations, and the longest of them
    MaxFailures         \* bound: failed reads of one expander in a row

Chips == 1..Last

ASSUME ChipAssumption ==
    /\ Last \in Nat \ {0} /\ In \cap Out = {}
    /\ ChipOf \in [In \cup Out -> Chips]
    /\ ActiveHigh \subseteq Out /\ Interlocks \subseteq SUBSET Out
ASSUME PaceAssumption ==
    /\ Safety \in Nat \ {0} /\ Slowest \in Nat /\ MaxFailures \in Nat
    /\ Elapsed \subseteq 0..Slowest

VARIABLES
    level,              \* the input pins themselves
    intLow,             \* the INT line of each chip
    interrupted, sinceRead,   \* interrupted_; ms since lastReadMs_
    inputShadow, outputShadow, dirty,
    driven, latch,      \* chip: its outputs are outputs (IODIR), and OLAT
    step, turn,         \* where core 0 is, and at which expander
    allOk,              \* `ok` of the initialize() that runs
    \* History, read by no action:
    missed,             \* since the last read that worked, an edge was lost or a
                        \* read failed
    failures,           \* failed reads since then
    behind              \* ms the input shadow has been wrong for

inputs == <<intLow, interrupted, sinceRead, inputShadow, missed, failures, behind>>
outputs == <<outputShadow, dirty, driven, latch>>
vars == <<level, inputs, outputs, step, turn, allOk>>

Inputs(c) == {p \in In : ChipOf[p] = c}
Outputs(c) == {p \in Out : ChipOf[p] = c}
Stale(c) == \E p \in Inputs(c) : inputShadow[p] # level[p]

(* A loop over the expanders: go on with the next, or with what follows it. *)
Advance(this, after) ==
    IF turn < Last THEN step' = this /\ turn' = turn + 1 ELSE step' = after /\ turn' = 1

-----------------------------------------------------------------------------
(* Boot: buildDevices has built every pin object and initialises each chip.     *)
(* After a power cut its outputs are inputs and its latch is clear; after a     *)
(* reset of the controller alone it still is as it was left.                    *)
ExpanderInit ==
    /\ level \in [In -> BOOLEAN] /\ inputShadow = [p \in In |-> FALSE]
    /\ interrupted = [c \in Chips |-> TRUE] /\ sinceRead = [c \in Chips |-> 0]
    /\ outputShadow = [p \in Out |-> p \notin ActiveHigh]
    /\ dirty = [c \in Chips |-> \E p \in Outputs(c) : p \notin ActiveHigh]
    /\ driven \in [Chips -> BOOLEAN] /\ intLow \in [Chips -> BOOLEAN]
    /\ latch \in {f \in [Out -> BOOLEAN] : \A p \in Out : f[p] => driven[ChipOf[p]]}
    /\ step = "direct" /\ turn = 1 /\ allOk = TRUE
    /\ missed = [c \in Chips |-> TRUE] /\ failures = [c \in Chips |-> 0]
    /\ behind = [c \in Chips |-> 0]

(* Directions, pull-ups and interrupts: each write is tried, whatever failed.   *)
Direct ==
    /\ step = "direct" /\ step' = "latch"
    /\ \E ok \in BOOLEAN, all \in BOOLEAN :
          /\ driven' = [driven EXCEPT ![turn] = @ \/ ok]
          /\ allOk' = (ok /\ all)
    /\ UNCHANGED <<level, inputs, outputShadow, dirty, latch, turn>>

(* The last write is the latch; then the boot goes on, or the panel halts.      *)
Latch ==
    /\ step = "latch"
    /\ \E ok \in BOOLEAN :
          /\ latch' = [p \in Out |-> IF ok /\ ChipOf[p] = turn THEN outputShadow[p] ELSE latch[p]]
          /\ IF ok /\ allOk
             THEN /\ dirty' = [dirty EXCEPT ![turn] = FALSE]
                  /\ interrupted' = [interrupted EXCEPT ![turn] = FALSE]
                  /\ sinceRead' = [sinceRead EXCEPT ![turn] = 0]
                  /\ step' = "first read"
             ELSE step' = "halted" /\ UNCHANGED <<dirty, interrupted, sinceRead>>
    /\ UNCHANGED <<level, intLow, inputShadow, missed, failures, behind, outputShadow, driven,
                   turn, allOk>>

(* readInputs: the transfer samples the ports and releases INT. *)
Transfer ==
    /\ inputShadow' = [p \in In |-> IF ChipOf[p] = turn THEN level[p] ELSE inputShadow[p]]
    /\ intLow' = [intLow EXCEPT ![turn] = FALSE]
    /\ missed' = [missed EXCEPT ![turn] = FALSE]
    /\ failures' = [failures EXCEPT ![turn] = 0]
    /\ behind' = [behind EXCEPT ![turn] = 0]
    /\ UNCHANGED interrupted

FirstRead ==
    /\ step = "first read"
    /\ \/ Transfer /\ Advance("direct", "idle")
       \/ step' = "halted" /\ UNCHANGED <<intLow, inputShadow, interrupted, missed, failures, behind, turn>>
    /\ UNCHANGED <<level, sinceRead, outputs, allOk>>

-----------------------------------------------------------------------------
(* The control loop. *)

Begin(e) ==
    /\ step = "idle" /\ step' = "refresh"
    /\ sinceRead' = [c \in Chips |-> sinceRead[c] + e]
    /\ behind' = [c \in Chips |-> IF Stale(c) THEN behind[c] + e ELSE 0]
    /\ UNCHANGED <<level, intLow, interrupted, inputShadow, missed, failures, outputs, turn, allOk>>

Due(c) == interrupted[c] \/ sinceRead[c] >= Safety

(* Mutant: a check that restarts the safety period. *)
RefreshRestarts ==
    /\ step = "refresh"
    /\ sinceRead' = [sinceRead EXCEPT ![turn] = 0]
    /\ IF Due(turn)
       THEN /\ interrupted' = [interrupted EXCEPT ![turn] = FALSE]
            /\ step' = "read" /\ UNCHANGED turn
       ELSE Advance("refresh", "work") /\ UNCHANGED interrupted
    /\ UNCHANGED <<level, intLow, inputShadow, missed, failures, behind, outputs, allOk>>

(* refreshInputs: the flag is cleared before the ports are read. *)
Refresh ==
    /\ step = "refresh"
    /\ IF Due(turn)
       THEN /\ interrupted' = [interrupted EXCEPT ![turn] = FALSE]
            /\ sinceRead' = [sinceRead EXCEPT ![turn] = 0]
            /\ step' = "read" /\ UNCHANGED turn
       ELSE Advance("refresh", "work") /\ UNCHANGED <<interrupted, sinceRead>>
    /\ UNCHANGED <<level, intLow, inputShadow, missed, failures, behind, outputs, allOk>>

Read ==
    /\ step = "read"
    /\ \/ Transfer
       \/ /\ failures[turn] < MaxFailures
          /\ failures' = [failures EXCEPT ![turn] = @ + 1]
          /\ missed' = [missed EXCEPT ![turn] = TRUE]
          /\ UNCHANGED <<intLow, inputShadow, interrupted, behind>>
    /\ Advance("refresh", "work")
    /\ UNCHANGED <<level, sinceRead, outputs, allOk>>

(* What devices ask of an output, in terms of energised. *)
Asked(p) == outputShadow[p] = (p \in ActiveHigh)

(* Mutant: only a level that rises is worth a transfer. *)
WriteRising(p, active) ==
    /\ step = "work"
    /\ active => \A pair \in Interlocks : p \in pair => \A q \in pair \ {p} : ~Asked(q)
    /\ outputShadow' = [outputShadow EXCEPT ![p] = (active = (p \in ActiveHigh))]
    /\ dirty' = [dirty EXCEPT ![ChipOf[p]] = @ \/ (outputShadow'[p] /\ ~outputShadow[p])]
    /\ UNCHANGED <<level, inputs, driven, latch, step, turn, allOk>>

(* McpDigitalOutput::write, as often as the devices like; a cover drops one     *)
(* winding before it raises the other (Cover's RelaysMatchMotion).              *)
Write(p, active) ==
    /\ step = "work"
    /\ active => \A pair \in Interlocks : p \in pair => \A q \in pair \ {p} : ~Asked(q)
    /\ outputShadow' = [outputShadow EXCEPT ![p] = (active = (p \in ActiveHigh))]
    /\ dirty' = [dirty EXCEPT ![ChipOf[p]] = @ \/ outputShadow' # outputShadow]
    /\ UNCHANGED <<level, inputs, driven, latch, step, turn, allOk>>

(* Mutant: the flags are cleared once the devices have seen the inputs. *)
EndWorkClears ==
    /\ step = "work" /\ step' = "flush"
    /\ interrupted' = [c \in Chips |-> FALSE]
    /\ UNCHANGED <<level, intLow, sinceRead, inputShadow, missed, failures, behind, outputs, turn, allOk>>

EndWork ==
    /\ step = "work" /\ step' = "flush"
    /\ UNCHANGED <<level, inputs, outputs, turn, allOk>>

(* flushOutputs, and its failure, which leaves the port dirty. *)
Flush ==
    /\ step = "flush"
    /\ latch' = [p \in Out |-> IF dirty[turn] /\ ChipOf[p] = turn THEN outputShadow[p] ELSE latch[p]]
    /\ dirty' = [dirty EXCEPT ![turn] = FALSE]
    /\ Advance("flush", "idle")
    /\ UNCHANGED <<level, inputs, outputShadow, driven, allOk>>

(* Mutant: the flag is cleared whatever became of the transfer. *)
FlushFailsClean ==
    /\ step = "flush" /\ dirty[turn]
    /\ dirty' = [dirty EXCEPT ![turn] = FALSE]
    /\ Advance("flush", "idle")
    /\ UNCHANGED <<level, inputs, outputShadow, driven, latch, allOk>>

FlushFails ==
    /\ step = "flush" /\ dirty[turn]
    /\ Advance("flush", "idle")
    /\ UNCHANGED <<level, inputs, outputs, allOk>>

(* A pin moves: the chip pulls INT low, and that edge, if it is one, interrupts *)
(* or gets lost.                                                                *)
PinMoves(p) ==
    LET c == ChipOf[p] IN
    /\ level' = [level EXCEPT ![p] = ~@]
    /\ intLow' = [intLow EXCEPT ![c] = TRUE]
    /\ \/ ~intLow[c] /\ interrupted' = [interrupted EXCEPT ![c] = TRUE] /\ UNCHANGED missed
       \/ ~intLow[c] /\ missed' = [missed EXCEPT ![c] = TRUE] /\ UNCHANGED interrupted
       \/ intLow[c] /\ UNCHANGED <<interrupted, missed>>
    /\ UNCHANGED <<sinceRead, inputShadow, failures, behind, outputs, step, turn, allOk>>

Boot == Direct \/ Latch \/ FirstRead
Work == \E p \in Out, active \in BOOLEAN : Write(p, active)
Loop == (\E e \in Elapsed : Begin(e)) \/ Refresh \/ Read \/ EndWork \/ Flush \/ FlushFails

Next == Boot \/ Loop \/ Work \/ \E p \in In : PinMoves(p)

Spec == ExpanderInit /\ [][Next]_vars

(* Boot goes on, and the loop never blocks, on the bus least of all. *)
FairSpec == Spec /\ WF_vars(Boot) /\ WF_vars(Loop)

-----------------------------------------------------------------------------
Steps == {"direct", "latch", "first read", "idle", "refresh", "read", "work", "flush", "halted"}

(* Types; no expander is left unread for longer than the safety period and the  *)
(* iteration in which it ends.                                                  *)
ExpanderTypeOK ==
    /\ level \in [In -> BOOLEAN] /\ inputShadow \in [In -> BOOLEAN]
    /\ intLow \in [Chips -> BOOLEAN] /\ interrupted \in [Chips -> BOOLEAN]
    /\ sinceRead \in [Chips -> 0..Safety + Slowest]
    /\ outputShadow \in [Out -> BOOLEAN] /\ latch \in [Out -> BOOLEAN]
    /\ dirty \in [Chips -> BOOLEAN] /\ driven \in [Chips -> BOOLEAN]
    /\ step \in Steps /\ turn \in Chips /\ allOk \in BOOLEAN
    /\ missed \in [Chips -> BOOLEAN] /\ failures \in [Chips -> 0..MaxFailures]
    /\ behind \in [Chips -> Nat]

Running == step \in {"idle", "refresh", "read", "work", "flush"}

(* However a change races with the clearing of the flag and the reading of the  *)
(* ports, it is not forgotten: a shadow that is wrong is due to be read, unless *)
(* an edge got lost or a read failed (mcp23017.cpp:62-68).                      *)
NothingForgotten ==
    Running => \A c \in Chips : Stale(c) =>
        interrupted[c] \/ missed[c] \/ (step = "read" /\ turn = c)

(* mcp23017.h:14: "a missed edge cannot strand the shadow".  When devices run,  *)
(* no shadow has been wrong for the safety period, or one more of them for each *)
(* read that failed.                                                            *)
ShadowCatchesUp ==
    step = "work" => \A c \in Chips :
        behind[c] < Safety + failures[c] * (Safety + Slowest)

Energised(p) == driven[ChipOf[p]] /\ latch[p] = (p \in ActiveHigh)

(* Outputs that are never asked for together are never energised together,      *)
(* except while the transfer that drops one of them is still to be made: the    *)
(* shadow of a cover split over two chips is no promise about its windings.     *)
InterlockHolds ==
    Running => \A pair \in Interlocks : \A p, q \in pair :
        p # q /\ Energised(p) /\ Energised(q) =>
            \E r \in {p, q} : dirty[ChipOf[r]] /\ ~Asked(r)

(* An expander that is initialised: boot has passed it. *)
BootSteps == {"direct", "latch", "first read"}
Up(c) == Running \/ (step \in BootSteps /\ c < turn)

(* A wrong shadow holds INT low, and a low INT is on record. *)
IntTellsOfChanges ==
    \A c \in Chips : Up(c) =>
        /\ Stale(c) => intLow[c]
        /\ intLow[c] => interrupted[c] \/ missed[c] \/ (step = "read" /\ turn = c)

(* An expander this iteration has passed was read within the safety period.     *)
Passed(c) == ~(step = "refresh" /\ c >= turn) /\ ~(step = "read" /\ c > turn)
ReadInTime ==
    /\ step = "idle" => turn = 1
    /\ \A c \in Chips : /\ sinceRead[c] < Safety + Slowest
                        /\ Passed(c) => sinceRead[c] < Safety

(* How long a shadow has been wrong is bounded by the reads that were tried.    *)
BehindIsCounted ==
    \A c \in Chips :
        /\ step \in BootSteps => behind[c] = 0
        /\ behind[c] <= sinceRead[c] + failures[c] * (Safety + Slowest)
                          + (IF step = "read" /\ turn = c THEN Safety + Slowest ELSE 0)

(* A port that was initialised and is not dirty holds the shadow. *)
Latched(c) == Up(c) \/ (step = "first read" /\ c = turn)
CleanIsWritten ==
    \A p \in Out : Latched(ChipOf[p]) /\ ~dirty[ChipOf[p]] => latch[p] = outputShadow[p]

NeverAskedTogether ==
    \A pair \in Interlocks : \A p, q \in pair : p # q => ~(Asked(p) /\ Asked(q))

(* The inductive invariant the proofs of ExpanderProofs rest on. *)
ExpanderInv ==
    /\ ExpanderTypeOK /\ IntTellsOfChanges /\ ReadInTime /\ BehindIsCounted
    /\ CleanIsWritten /\ NeverAskedTogether

(* Once transfers work again and devices ask nothing new, every output comes to *)
(* be what was asked of it, unless the panel halted at boot.                    *)
OutputsFollow ==
    <>[][~FlushFails /\ ~Work]_vars =>
        <>[](step = "halted" \/ \A p \in Out : latch[p] = outputShadow[p])
=============================================================================
