---------------------------- MODULE Slapstic103 ----------------------------
(***************************************************************************)
(* The Atari Slapstic 137412-103 protection chip (m68k/slapstic-103.ts):   *)
(* a state machine that watches bus accesses and selects one of four ROM   *)
(* banks.  An access is abstracted to the class the chip's comparators     *)
(* put it in; SlapsticDecode checks that classification on every word of   *)
(* the protected window.                                                   *)
(***************************************************************************)
EXTENDS Naturals

Banks == 0..3
States == {"IDLE", "ACTIVE", "ALT_VALID", "ALT_SELECT", "ALT_COMMIT",
           "BIT_LOAD", "BIT_SET_ODD", "BIT_SET_EVEN"}

(* The classes of addresses.  "bank" n is 0x0040/50/60/70, which is also   *)
(* what alt4 and bit2 match; "bit" n is 0x34c0..c3, which bit1 and one of  *)
(* the four bit3 patterns match.                                           *)
Plain    == {"reset", "alt1", "alt2", "bit4", "other"}
Numbered == {"bank", "alt3", "bit"}
Accesses == [class : Plain, n : {0}] \cup [class : Numbered, n : Banks]
A(c, n)  == [class |-> c, n |-> n]

ClearBit0(b) == 2 * (b \div 2)
SetBit0(b)   == 2 * (b \div 2) + 1
ClearBit1(b) == b % 2
SetBit1(b)   == 2 + (b % 2)

(* The edit one bit3 pattern makes: in the even phase the four patterns    *)
(* 34c0..34c3 mean what 34c3..34c0 with the bits exchanged mean.           *)
OddEdit(b, n) ==
    CASE n = 0 -> ClearBit0(b) [] n = 1 -> SetBit0(b)
      [] n = 2 -> ClearBit1(b) [] n = 3 -> SetBit1(b)
EvenEdit(b, n) ==
    CASE n = 3 -> ClearBit0(b) [] n = 2 -> SetBit0(b)
      [] n = 1 -> ClearBit1(b) [] n = 0 -> SetBit1(b)

Commit(f, b) == [f EXCEPT !.bank = b, !.state = "IDLE"]
Goto(f, s)   == [f EXCEPT !.state = s]

FromActive(f, a) ==
    CASE a.class = "bank" -> Commit(f, a.n)
      [] a.class = "alt1" -> Goto(f, "ALT_VALID")
      [] a.class = "bit"  -> Goto(f, "BIT_LOAD")
      [] OTHER            -> f

FromAltValid(f, a) ==
    Goto(f, IF a.class = "alt2" THEN "ALT_SELECT" ELSE "ACTIVE")

FromAltSelectUnlatched(f, a) ==        \* mutant: alt3 does not load its bank
    Goto(f, IF a.class = "alt3" THEN "ALT_COMMIT" ELSE "ACTIVE")
FromAltSelect(f, a) ==
    IF a.class = "alt3" THEN [f EXCEPT !.loadedBank = a.n, !.state = "ALT_COMMIT"]
                        ELSE Goto(f, "ACTIVE")

FromAltCommit(f, a) == IF a.class = "bank" THEN Commit(f, f.loadedBank) ELSE f

FromBitLoad(f, a) ==
    IF a.class = "bank" THEN [f EXCEPT !.loadedBank = f.bank, !.state = "BIT_SET_ODD"]
                        ELSE f

FromBitSet(f, a, edited, other) ==
    CASE a.class = "bit"  -> [f EXCEPT !.loadedBank = edited, !.state = other]
      [] a.class = "bit4" -> Commit(f, f.loadedBank)
      [] OTHER            -> f

(* slapsticTick: a reset access re-arms the chip from every state.         *)
Tick(f, a) ==
    IF a.class = "reset" THEN Goto(f, "ACTIVE") ELSE
    CASE f.state = "IDLE"         -> f
      [] f.state = "ACTIVE"       -> FromActive(f, a)
      [] f.state = "ALT_VALID"    -> FromAltValid(f, a)
      [] f.state = "ALT_SELECT"   -> FromAltSelect(f, a)
      [] f.state = "ALT_COMMIT"   -> FromAltCommit(f, a)
      [] f.state = "BIT_LOAD"     -> FromBitLoad(f, a)
      [] f.state = "BIT_SET_ODD"  ->
             FromBitSet(f, a, OddEdit(f.loadedBank, a.n), "BIT_SET_EVEN")
      [] f.state = "BIT_SET_EVEN" ->
             FromBitSet(f, a, EvenEdit(f.loadedBank, a.n), "BIT_SET_ODD")

FsmType == [bank : Banks, state : States, loadedBank : Banks]

createSlapsticFsm == [bank |-> 3, state |-> "IDLE", loadedBank |-> 0]

=============================================================================
