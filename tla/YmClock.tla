------------------------------ MODULE YmClock ------------------------------
(***************************************************************************)
(* One timer and its load register, driven by any register writes and any  *)
(* pieces of time, against the abstract alarm clock.                       *)
(***************************************************************************)
EXTENDS YmTimer

CONSTANTS Prescale,  \* chip cycles per tick: 64 for Timer A, 1024 for Timer B
          MaxLoad,   \* largest load value: 1024 for Timer A, 256 for Timer B
          Slices     \* bound: the pieces of time, in chip cycles

VARIABLES timer, load

vars == <<timer, load>>

Loads == 1 .. MaxLoad

Init == timer = StoppedTimer /\ load = MaxLoad

WriteLoad(n) == load' = n /\ UNCHANGED timer

WriteControl(c) == timer' = writeControl(timer, load, c) /\ UNCHANGED load

Elapse(ym) == timer' = tickCycles(timer, load, Prescale, ym) /\ UNCHANGED load

Next ==
    \/ \E n \in Loads : WriteLoad(n)
    \/ \E c \in Controls : WriteControl(c)
    \/ \E ym \in Slices : Elapse(ym)

Spec == Init /\ [][Next]_vars

-----------------------------------------------------------------------------
(* Time to the next overflow.                                              *)
Left == IF timer.active THEN timer.counter * Prescale - timer.acc ELSE 0

Alarm == INSTANCE AlarmClock
           WITH Periods <- {n * Prescale : n \in Loads},
                left <- Left, period <- load * Prescale,
                gate <- timer.gate, flag <- timer.overflow

(* The steps of the alarm clock, with the time of a step among the slices  *)
(* rather than among all numbers.                                          *)
AlarmNext ==
    \/ \E p \in {n * Prescale : n \in Loads} : Alarm!SetPeriod(p)
    \/ \E run, enable, clear \in BOOLEAN : Alarm!Control(run, enable, clear)
    \/ \E d \in Slices : Alarm!Sleep(d) \/ Alarm!Ring(d)

(* The timer implements the alarm clock: it neither gains nor loses a      *)
(* cycle however the instructions cut the time, rewriting the control      *)
(* register leaves the count running, a new load value counts from the     *)
(* next overflow, and a closed gate latches nothing.                       *)
TimerIsAlarm == Alarm!Init /\ [][AlarmNext]_vars

=============================================================================
