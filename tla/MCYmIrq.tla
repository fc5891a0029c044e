------------------------------ MODULE MCYmIrq ------------------------------
(* The pin of the 6502 with small timers, and one timer with the prescaler *)
(* of the chip.  The two share no variable: each moves while the other     *)
(* rests in its initial state, so that TLC explores their sum and not      *)
(* their product.                                                          *)
EXTENDS YmParts

SmallPrescale == [A |-> 4, B |-> 6]
SmallMaxLoad == [A |-> 2, B |-> 1]

(* The game's setting, and both delays with deferred register writes.      *)
SmallDiags == {[deferred |-> FALSE, assert |-> 0, instr |-> 0],
               [deferred |-> TRUE, assert |-> 3, instr |-> 1]}

MCInit == Init /\ Clock!Init
MCNext ==
    \/ Clock!Init /\ Next /\ UNCHANGED <<timer, load>>
    \/ Init /\ Clock!Next /\ UNCHANGED vars
MCSpec == MCInit /\ [][MCNext]_<<vars, timer, load>>
=============================================================================
