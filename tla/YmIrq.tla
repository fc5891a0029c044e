------------------------------- MODULE YmIrq -------------------------------
(***************************************************************************)
(* The two timers of the YM2151 and the IRQ pin of the sound 6502          *)
(* (m6502/sound-chip.ts).  The chips are ticked after each instruction,    *)
(* with the register writes of the instruction made either before the tick *)
(* or, with the deferral diagnostics, at their cycle inside it; the pin    *)
(* follows the timers with two optional diagnostics delays.                *)
(***************************************************************************)
EXTENDS YmTimer

CONSTANTS Prescale,     \* [A, B]: chip cycles per tick
          MaxLoad,      \* [A, B]: largest load value
          Cycles,       \* bound: lengths of an instruction, in 6502 cycles
          Diags         \* settings of the replay diagnostics, see diag

Timers == {"A", "B"}

ASSUME IrqAssumption ==
    /\ Prescale \in [Timers -> Nat \ {0}] /\ MaxLoad \in [Timers -> Nat \ {0}]
    /\ Cycles \subseteq Nat \ {0}
    /\ Diags \subseteq [deferred : BOOLEAN, assert : Nat, instr : Nat]

VARIABLES diag,      \* the setting of this chip: it never changes
          ym,        \* [timers, loads]
          line,      \* [irq, synced, assertIn, instrIn]: the 6502's pin and its delays
          inReset,
          up         \* history: instructions the pin has been high, see Uptime

vars == <<diag, ym, line, inReset, up>>

Deferred == diag.deferred    \* deferYmTimerControlWriteTiming, off by default
AssertDelay == diag.assert   \* ymIrqAssertionDelayCycles, 0 by default
InstrDelay == diag.instr     \* ymIrqNewAssertionInstructionDelay, 0 by default

None == -1

LineType == [irq : BOOLEAN, synced : BOOLEAN,
             assertIn : Nat \cup {None}, instrIn : Nat \cup {None}]
YmType == [timers : [Timers -> TimerType], loads : [Timers -> Nat]]

LowLine == [irq |-> FALSE, synced |-> FALSE, assertIn |-> None, instrIn |-> None]
ResetYm == [timers |-> [t \in Timers |-> StoppedTimer], loads |-> MaxLoad]

Init ==
    /\ diag \in Diags
    /\ ym = ResetYm /\ line = LowLine
    /\ inReset = TRUE /\ up = 0

-----------------------------------------------------------------------------
(* The pin.                                                                *)

ymIrqPinActive(y) ==
    \E t \in Timers : y.timers[t].overflow /\ y.timers[t].gate

NewlySynced(l) ==
    [l EXCEPT !.synced = TRUE,
              !.instrIn = IF ~l.synced /\ InstrDelay > 0 THEN InstrDelay + 1 ELSE @]

Raise(l) ==
    IF l.instrIn > 0 THEN [l EXCEPT !.irq = FALSE]
    ELSE IF AssertDelay = 0 THEN [l EXCEPT !.irq = TRUE, !.assertIn = None]
    ELSE IF l.irq \/ l.assertIn # None THEN l
    ELSE [l EXCEPT !.assertIn = AssertDelay]

syncIrqPinSticky(l, y) ==              \* mutant: a lowered pin leaves the line up
    IF ymIrqPinActive(y) THEN Raise(NewlySynced(l)) ELSE [LowLine EXCEPT !.irq = l.irq]
syncIrqPinEdge(l, y) ==                \* mutant: only an edge of the pin counts
    IF ~ymIrqPinActive(y) THEN LowLine
    ELSE IF l.synced THEN l ELSE Raise(NewlySynced(l))
syncIrqPin(l, y) ==
    IF ymIrqPinActive(y) THEN Raise(NewlySynced(l)) ELSE LowLine

AssertionAdvanced(l, y, c) ==
    IF l.assertIn = None THEN l
    ELSE IF ~ymIrqPinActive(y) THEN [l EXCEPT !.assertIn = None]
    ELSE IF l.assertIn > c THEN [l EXCEPT !.assertIn = @ - c]
    ELSE [l EXCEPT !.assertIn = None, !.irq = TRUE]

InstructionAdvanced(l, y) ==
    IF l.instrIn = None THEN l
    ELSE IF ~ymIrqPinActive(y) THEN [l EXCEPT !.instrIn = None]
    ELSE IF l.instrIn > 0 THEN [l EXCEPT !.instrIn = @ - 1]
    ELSE l

-----------------------------------------------------------------------------
(* Chips and line together: s = [ym, line].                                *)

Elapsed(y, c) ==
    [y EXCEPT !.timers = [t \in Timers |->
        tickCycles(y.timers[t], y.loads[t], Prescale[t], 2 * c)]]

tickSoundDevices(s, c) ==
    IF c = 0 THEN s
    ELSE LET y == Elapsed(s.ym, c) IN
      [ym |-> y, line |-> syncIrqPin(AssertionAdvanced(s.line, y, c), y)]

(* The writes of an instruction: none, a load register, register $14, or   *)
(* the latch output that resets the chip.                                  *)
Writes == [kind : {"none", "reset"}]
          \cup (UNION {[kind : {"load"}, timer : {t}, load : 1 .. MaxLoad[t]] : t \in Timers})
          \cup [kind : {"control"}, bits : [Timers -> Controls]]

Written(y, w) ==
    CASE w.kind = "none" -> y
      [] w.kind = "reset" -> ResetYm
      [] w.kind = "load" -> [y EXCEPT !.loads[w.timer] = w.load]
      [] w.kind = "control" ->
           [y EXCEPT !.timers = [t \in Timers |->
               writeControl(y.timers[t], y.loads[t], w.bits[t])]]

(* Data writes may be deferred; the reset latch is never.                  *)
Defers(w) == Deferred /\ w.kind \in {"load", "control"}

WriteDone(s, w) ==
    LET y == Written(s.ym, w) IN [ym |-> y, line |-> syncIrqPin(s.line, y)]

WrittenAt(s, w, c, offset) ==
    tickSoundDevices(WriteDone(tickSoundDevices(s, offset), w), c - offset)

WrittenFirst(s, w, c) == tickSoundDevices([s EXCEPT !.ym = Written(@, w)], c)

StepEnd(s) ==
    [s EXCEPT !.line = syncIrqPin(InstructionAdvanced(@, s.ym), s.ym)]

Now == [ym |-> ym, line |-> line]
Become(s) == ym' = s.ym /\ line' = s.line

(* How many instructions have ended with the pin high, and high whenever   *)
(* it was looked at between, since it rose or the 6502 was released.       *)
UpCap == InstrDelay + AssertDelay + 1
Uptime(dipped) ==
    IF ~ymIrqPinActive(ym') THEN 0
    ELSE IF dipped \/ ~ymIrqPinActive(ym) THEN 1
    ELSE IF up < UpCap THEN up + 1 ELSE UpCap

(* One iteration of tickCycles: an instruction or an interrupt service.    *)
immediateInstruction(w, c) ==
    /\ ~inReset /\ ~Defers(w)
    /\ Become(StepEnd(WrittenFirst(Now, w, c)))
    /\ up' = Uptime(FALSE)
    /\ UNCHANGED inReset

deferredInstruction(w, c, offset) ==
    /\ ~inReset /\ Defers(w)
    /\ Become(StepEnd(WrittenAt(Now, w, c, offset)))
    /\ up' = LET early == tickSoundDevices(Now, offset) IN
                Uptime(~ymIrqPinActive(early.ym) \/ ~ymIrqPinActive(WriteDone(early, w).ym))
    /\ UNCHANGED inReset

(* Time in which only the chips advance, before a delayed interrupt.       *)
tickDevicesWithoutCpu(c) ==
    /\ ~inReset
    /\ Become(tickSoundDevices(Now, c))
    /\ up' = IF ymIrqPinActive(ym') THEN up ELSE 0
    /\ UNCHANGED inReset

releaseSoundReset ==
    /\ inReset' = FALSE /\ up' = 0
    /\ line' = [line EXCEPT !.irq = FALSE, !.assertIn = None]
    /\ UNCHANGED ym

holdSoundReset ==
    /\ inReset' = TRUE /\ up' = 0
    /\ line' = LowLine
    /\ UNCHANGED ym

(* The hard reset clears the registers, and the overflow flags of timers   *)
(* that it leaves running.                                                 *)
RegistersCleared(y) ==
    [timers |-> [t \in Timers |-> [y.timers[t] EXCEPT !.overflow = FALSE]],
     loads  |-> MaxLoad]

resetSoundChip ==
    /\ inReset' = TRUE /\ up' = 0
    /\ line' = [line EXCEPT !.irq = FALSE, !.assertIn = None]
    /\ ym' = RegistersCleared(ym)

Step ==
    \/ \E w \in Writes, c \in Cycles :
          \/ immediateInstruction(w, c)
          \/ \E offset \in 0 .. c : deferredInstruction(w, c, offset)
    \/ \E c \in Cycles : tickDevicesWithoutCpu(c)
    \/ releaseSoundReset \/ holdSoundReset \/ resetSoundChip

Next == Step /\ UNCHANGED diag

Spec == Init /\ [][Next]_vars

-----------------------------------------------------------------------------
(* Type invariant.                                                         *)
TypeOK ==
    /\ diag \in Diags
    /\ ym \in YmType /\ line \in LineType
    /\ inReset \in BOOLEAN /\ up \in 0 .. UpCap

(* The 6502 never sees an IRQ behind which no timer stands: an assertion   *)
(* under way when the handler clears the flag, closes the gate or resets   *)
(* the chip is dropped with it.                                            *)
IrqMeansPin == line.irq => ymIrqPinActive(ym)

(* A timer interrupt is never lost and at most delayed by what the         *)
(* diagnostics ask for: without them the 6502 sees the pin at the first    *)
(* instruction boundary, even a flag raised in the tail of the instruction *)
(* that cleared it, or one left over a hold of the 6502.                   *)
IrqArrivesInTime == up > InstrDelay + AssertDelay => line.irq

(* "Hard reset: clear all state and return to reset hold."                 *)
HardResetStopsTimers ==
    [][resetSoundChip => \A t \in Timers : ~ym'.timers[t].active]_vars

=============================================================================
