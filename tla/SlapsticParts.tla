---------------------------- MODULE SlapsticParts ----------------------------
(* The engine's users of a chip, and a chip alone, in one scope: two        *)
(* specifications that share no variable.                                   *)
EXTENDS SlapsticBus

CONSTANT MaxSince
ASSUME MaxSinceAssumption == MaxSince \in Nat

VARIABLES fsm, since, switched
Chip == INSTANCE SlapsticFsm
chipVars == <<fsm, since, switched>>

(* SlapsticFsm's property of slapsticTick: only a complete sequence of      *)
(* accesses switches the bank.                                              *)
SwitchIsUnlocked == Chip!SwitchIsUnlocked
=============================================================================
