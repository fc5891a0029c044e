--------------------------- MODULE SlapsticDecode --------------------------
(***************************************************************************)
(* The comparators of slapstic-103.ts on real addresses, and the address   *)
(* class SlapsticFsm gives them.  TLC walks word by word over the window   *)
(* 0x080000..0x087FFF, and over an equally long stretch of program ROM     *)
(* below it, where only alt1 may match.                                    *)
(***************************************************************************)
EXTENDS Naturals

CONSTANT LastWord        \* the walk ends after this word of the window

VARIABLE word            \* (address - start of its 32 KiB) / 2

START       == 8 * 65536          \* 0x080000, RANGE_VALUE too
InWindow    == 32768              \* bytes in the protected window
RANGE_MASK  == 255 * 65536 + 32768 \* 0xFF8000: the address lines of a 68010
INPUT_MASK  == 32766              \* 0x7FFE

ASSUME LastWordAssumption == LastWord \in 0..(InWindow \div 2 - 1)

(* a & b of the code on 24 address lines, byte by byte.  A mask is joined  *)
(* to RANGE_MASK with +, which is | where no line is in both.              *)
Up(a, v) == (a \div v) % 2 = 1
Line(a, b, v) == IF Up(a, v) /\ Up(b, v) THEN v ELSE 0
Byte(a, b) ==
    Line(a, b, 1) + Line(a, b, 2) + Line(a, b, 4) + Line(a, b, 8)
    + Line(a, b, 16) + Line(a, b, 32) + Line(a, b, 64) + Line(a, b, 128)
BitAnd(a, b) == Byte(a, b) + 256 * Byte(a \div 256, b \div 256)
                    + 65536 * Byte(a \div 65536, b \div 65536)

(* Word w of the window (inside = TRUE) or of the 32 KiB of ROM below it.  *)
Address(w, inside) == (IF inside THEN START ELSE START - InWindow) + 2 * w

testIn(w, inside, mask, val) ==
    BitAnd(Address(w, inside), RANGE_MASK + 2 * mask) = START + 2 * val
testAny(w, inside, mask, val) == BitAnd(Address(w, inside), 2 * mask) = 2 * val
testReset(w, inside)   == BitAnd(Address(w, inside), RANGE_MASK + INPUT_MASK) = START
testBank(w, inside, b) == BitAnd(Address(w, inside), RANGE_MASK + INPUT_MASK) = START + 2 * b

BANK_VALUE(n) == 64 + 16 * n                          \* 0x40, 0x50, 0x60, 0x70
isAlt1(w, inside) == testAny(w, inside, 127, 45)      \* 007f 002d
isAlt2(w, inside) == testIn(w, inside, 16383, 15636)  \* 3fff 3d14
isAlt3(w, inside) == testIn(w, inside, 16380, 15652)  \* 3ffc 3d24
isAlt4(w, inside) == testIn(w, inside, 16335, 64)     \* 3fcf 0040, also bit2
isBit1(w, inside) == testIn(w, inside, 16368, 13504)  \* 3ff0 34c0
isBit3(w, inside, k) == testIn(w, inside, 16371, 13504 + k)  \* 3ff3 34c0..34c3
isBit4Wide(w, inside) == testIn(w, inside, 16368, 13520)  \* mutant: mask 3ff0
isBit4(w, inside) == testIn(w, inside, 16376, 13520)  \* 3ff8 34d0

(* The class SlapsticFsm works with.                                       *)
Class(w, inside) ==
    CASE inside /\ w = 0                          -> <<"reset", 0>>
      [] inside /\ w \in {64, 80, 96, 112}        -> <<"bank", (w - 64) \div 16>>
      [] w % 128 = 45                             -> <<"alt1", 0>>
      [] inside /\ w = 15636                      -> <<"alt2", 0>>
      [] inside /\ w \in 15652..15655             -> <<"alt3", w % 4>>
      [] inside /\ w \in 13504..13519             -> <<"bit", w % 4>>
      [] inside /\ w \in 13520..13527             -> <<"bit4", 0>>
      [] OTHER                                    -> <<"other", 0>>

FirstWord == word = 0
Walk == word <= LastWord /\ word' = word + 1

(* Every comparator of the chip answers as the class says, in the window   *)
(* and outside it: the patterns never overlap in a way the order of the    *)
(* tests in slapsticTick would have to resolve, and alt1 is the only one   *)
(* a code prefetch can trip.                                               *)
ClassIsFaithful ==
    word <= LastWord => \A inside \in BOOLEAN :
      LET c == Class(word, inside) IN
        /\ testReset(word, inside) <=> c[1] = "reset"
        /\ \A n \in 0..3 : testBank(word, inside, BANK_VALUE(n)) <=> c = <<"bank", n>>
        /\ isAlt4(word, inside) <=> c[1] = "bank"
        /\ isAlt1(word, inside) <=> c[1] = "alt1"
        /\ isAlt2(word, inside) <=> c[1] = "alt2"
        /\ isAlt3(word, inside) <=> c[1] = "alt3"
        /\ c[1] = "alt3" => c[2] = word % 4
        /\ isBit1(word, inside) <=> c[1] = "bit"
        /\ \A k \in 0..3 : isBit3(word, inside, k) <=> c = <<"bit", k>>
        /\ isBit4(word, inside) <=> c[1] = "bit4"

=============================================================================
