----------------------------- MODULE AlarmClock -----------------------------
(***************************************************************************)
(* What a timer promises, with no prescaler and no counter: an alarm that  *)
(* goes off when "left" has passed and again after every period, to the    *)
(* cycle, however the time is cut into pieces.  A new period counts from   *)
(* the next alarm.  The flag is raised behind an open gate only.           *)
(***************************************************************************)
EXTENDS Integers

CONSTANT Periods

VARIABLES left,      \* time to the next alarm, 0 when stopped
          period, gate, flag

Init == left = 0 /\ period \in Periods /\ gate = FALSE /\ flag = FALSE

SetPeriod(p) == period' = p /\ UNCHANGED <<left, gate, flag>>

Control(run, enable, clear) ==
    /\ left' = IF ~run THEN 0 ELSE IF left = 0 THEN period ELSE left
    /\ gate' = enable
    /\ flag' = (flag /\ ~clear)
    /\ UNCHANGED period

Sleep(d) ==
    /\ left = 0 \/ d < left
    /\ left' = IF left = 0 THEN 0 ELSE left - d
    /\ UNCHANGED <<period, gate, flag>>

Ring(d) ==
    /\ left # 0 /\ d >= left
    /\ left' = period - ((d - left) % period)
    /\ flag' = (flag \/ gate)
    /\ UNCHANGED <<period, gate>>

Next ==
    \/ \E p \in Periods : SetPeriod(p)
    \/ \E run, enable, clear \in BOOLEAN : Control(run, enable, clear)
    \/ \E d \in Nat : Sleep(d) \/ Ring(d)

Spec == Init /\ [][Next]_<<left, period, gate, flag>>

=============================================================================
