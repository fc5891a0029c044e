------------------------------ MODULE YmParts ------------------------------
(* The timers with the pin, and one timer alone against its alarm clock, in *)
(* one scope: two specifications that share no variable.                    *)
EXTENDS YmIrq

CONSTANTS ClockPrescale, ClockMaxLoad, Slices

ASSUME ClockAssumption ==
    ClockPrescale \in Nat \ {0} /\ ClockMaxLoad \in Nat \ {0} /\ Slices \subseteq Nat

VARIABLES timer, load

Clock == INSTANCE YmClock WITH Prescale <- ClockPrescale, MaxLoad <- ClockMaxLoad

(* The timer implements the alarm clock, see YmClock.                       *)
TimerIsAlarm == Clock!TimerIsAlarm
=============================================================================
