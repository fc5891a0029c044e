----------------------------- MODULE MCSlapstic -----------------------------
(* The comparators on every address first, before the chip is touched; then *)
(* the chip alone on every sequence of the classes they give, or the        *)
(* engine's users of a chip in every order: the two never move together.    *)
EXTENDS SlapsticParts, SlapsticDecode

MCInit == FirstWord /\ Init /\ Chip!Init

Walked == word > LastWord /\ UNCHANGED word
MCNext ==
    \/ Walk /\ UNCHANGED <<vars, chipVars>>
    \/ Walked /\ Init /\ Chip!Next /\ UNCHANGED vars
    \/ Walked /\ Chip!Init /\ Next /\ UNCHANGED chipVars
MCSpec == MCInit /\ [][MCNext]_<<vars, chipVars, word>>
=============================================================================
