------------------------------ MODULE YmTimer ------------------------------
(***************************************************************************)
(* A timer of the YM2151 (audio/ym2151.ts): a prescaler that accumulates   *)
(* chip cycles, a down counter reloaded from registers, an IRQ gate and an *)
(* overflow flag.  Timers A and B differ in the prescaler and the range of *)
(* the load value only, which are parameters here.  The start delay and    *)
(* hold-while-overflow knobs, which the engine leaves at 0 and false, are  *)
(* left out.                                                               *)
(***************************************************************************)
EXTENDS Integers

TimerType == [active : BOOLEAN, counter : Nat, acc : Nat,
              gate : BOOLEAN, overflow : BOOLEAN]

StoppedTimer == [active |-> FALSE, counter |-> 0, acc |-> 0,
                 gate |-> FALSE, overflow |-> FALSE]

(* The timer's bits of a write to register $14.                            *)
Controls == [load : BOOLEAN, enable : BOOLEAN, reset : BOOLEAN]

Arm(t, load) ==
    IF t.active THEN t
    ELSE [t EXCEPT !.counter = load, !.acc = 0, !.active = TRUE]

Disarm(t) == [t EXCEPT !.active = FALSE, !.acc = 0]

writeControl(t, load, c) ==
    LET flagged == [t EXCEPT !.overflow = @ /\ ~c.reset, !.gate = c.enable] IN
      IF c.load THEN Arm(flagged, load) ELSE Disarm(flagged)

(* One tick of the prescaler.                                              *)
CountDownNoReload(t, load) ==          \* mutant: runs below zero
    [t EXCEPT !.counter = @ - 1, !.overflow = @ \/ (t.counter - 1 <= 0 /\ t.gate)]
CountDown(t, load) ==
    IF t.counter - 1 > 0 THEN [t EXCEPT !.counter = @ - 1]
    ELSE [t EXCEPT !.counter = load, !.overflow = @ \/ t.gate]

(* n ticks, as the loop of the source makes them.                          *)
Ticks(t, load, n) ==
    LET after[i \in 0 .. n] == IF i = 0 THEN t ELSE CountDown(after[i - 1], load)
    IN  after[n]

tickCyclesDropsRest(t, load, prescale, ym) ==  \* mutant: the prescaler restarts at 0
    IF ~t.active THEN t
    ELSE [Ticks(t, load, (t.acc + ym) \div prescale)
            EXCEPT !.acc = IF t.acc + ym >= prescale THEN 0 ELSE t.acc + ym]
tickCycles(t, load, prescale, ym) ==
    IF ~t.active THEN t
    ELSE [Ticks(t, load, (t.acc + ym) \div prescale)
            EXCEPT !.acc = (t.acc + ym) % prescale]

=============================================================================
