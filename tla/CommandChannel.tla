--------------------------- MODULE CommandChannel ---------------------------
(***************************************************************************)
(* What the command path from the main program to the sound program        *)
(* promises: a place for one byte.  A later byte replaces an earlier one   *)
(* that was not taken; a byte that is taken is gone, so no byte is heard   *)
(* twice; a hard reset, and nothing else, drops one: a hold or a release   *)
(* of the reset line leaves it for the program that starts next.  "turn"   *)
(* flips at each taking, so that hearing the same byte again is a step and *)
(* not a stutter, and "era" at each hard reset.                            *)
(***************************************************************************)
CONSTANTS Bytes, NoByte

VARIABLES slot, heard, era

chVars == <<slot, heard, era>>

ChannelType ==
    /\ slot \in Bytes \cup {NoByte}
    /\ heard \in [byte : Bytes \cup {NoByte}, turn : BOOLEAN]
    /\ era \in BOOLEAN

Init == slot = NoByte /\ heard = [byte |-> NoByte, turn |-> FALSE] /\ era = FALSE

Post(b) == slot' = b /\ UNCHANGED <<heard, era>>

Take ==
    /\ slot # NoByte
    /\ heard' = [byte |-> slot, turn |-> ~heard.turn]
    /\ slot' = NoByte
    /\ UNCHANGED era

HardReset ==
    /\ era' = ~era
    /\ slot' = NoByte
    /\ UNCHANGED heard

Next == (\E b \in Bytes : Post(b)) \/ Take \/ HardReset

Spec == Init /\ [][Next]_chVars

=============================================================================
