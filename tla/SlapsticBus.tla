---------------------------- MODULE SlapsticBus ----------------------------
(***************************************************************************)
(* The engine's users of the Slapstic chip.  The program ROM array keeps a *)
(* copy of the active bank in 0x080000..0x087FFF (apply-slapstic-bank.ts); *)
(* it is refreshed only by the callers, after they notice that the chip    *)
(* switched: the IRQ-safe lookup (slapstic-lookup.ts), the tile-line       *)
(* renderer and its table-store event (render-tile-line-1ad54.ts), the ROM *)
(* loader and the warm start (boot-init.ts).                               *)
(***************************************************************************)
EXTENDS Slapstic103

VARIABLES rom,           \* [fsm, mirror]: the chip and the bank copied into rom.program
          loaded,        \* are there pristine banks in rom.slapsticBanks?
          served         \* the last word handed to a caller: [want, got] banks

vars == <<rom, loaded, served>>

Nothing == [want |-> 0, got |-> 0]

(* touchSlapstic: one access, and the mirror follows a switch.             *)
touchSlapstic(r, a) ==
    LET f == Tick(r.fsm, a) IN
      [fsm    |-> f,
       mirror |-> IF f.bank # r.fsm.bank THEN f.bank ELSE r.mirror]

(* The flag word of a table-store event, by the fields slapsticEvent2BC5C  *)
(* tests: bits 0, 1, 4 and 7, the index in bits 2-3, the bank in bits 5-6. *)
Events == [bit0 : BOOLEAN, bit1 : BOOLEAN, bit4 : BOOLEAN, bit7 : BOOLEAN,
           index : Banks, sel : Banks]

TouchIf(c, r, a) == IF c THEN touchSlapstic(r, a) ELSE r

StorePairNoPrefetch(r, index) ==       \* mutant: the code prefetch is not fed
    touchSlapstic(touchSlapstic(r, A("alt2", 0)), A("alt3", index))
StorePair(r, index) ==
    touchSlapstic(touchSlapstic(touchSlapstic(r,
        A("alt1", 0)), A("alt2", 0)), A("alt3", index))

slapsticEvent2BC5C(r, e) ==
    LET begun  == touchSlapstic(r, A("reset", 0))
        bitted == TouchIf(e.bit0, begun, A("bit", 2))
        again  == TouchIf(e.bit1, bitted, A("reset", 0))
        stored == IF e.bit4 THEN StorePair(again, e.index) ELSE again
        last   == TouchIf(e.bit7, stored, A("reset", 0))
    IN  touchSlapstic(last, A("bank", e.sel))

(* slapsticLookup: trigger and select, then one refresh for both accesses; *)
(* the word is read from the program array afterwards.                     *)
LookupTarget == {A("bank", n) : n \in Banks} \cup
                {A("reset", 0), A("bit", 0), A("bit4", 0), A("other", 0)}

LookedUpStale(r, a) ==                 \* mutant: the refresh is forgotten
    [r EXCEPT !.fsm = Tick(Tick(r.fsm, A("reset", 0)), a)]
LookedUpUntriggered(r, a) ==           \* mutant: no trigger access first
    touchSlapstic(r, a)
LookedUp(r, a) ==
    LET f == Tick(Tick(r.fsm, A("reset", 0)), a) IN
      [fsm    |-> f,
       mirror |-> IF f.bank # r.fsm.bank THEN f.bank ELSE r.mirror]

-----------------------------------------------------------------------------

Init ==
    /\ rom = [fsm |-> createSlapsticFsm, mirror |-> 3]
    /\ loaded = FALSE
    /\ served = Nothing

(* loadRomBlob: the banks arrive and the active one is copied in.          *)
loadRomBlob ==
    /\ loaded' = TRUE
    /\ rom' = [rom EXCEPT !.mirror = rom.fsm.bank]
    /\ UNCHANGED served

(* bootInit from a warm snapshot that names a bank.                        *)
warmState(b) ==
    /\ rom' = [fsm |-> [bank |-> b, state |-> "IDLE", loadedBank |-> 0], mirror |-> b]
    /\ UNCHANGED <<loaded, served>>

slapsticLookup(a) ==
    /\ rom' = IF loaded THEN LookedUp(rom, a) ELSE rom
    /\ served' = IF a.class = "bank" /\ loaded
                 THEN [want |-> a.n, got |-> rom'.mirror] ELSE Nothing
    /\ UNCHANGED loaded

tileEvent(e) ==
    /\ rom' = slapsticEvent2BC5C(rom, e)
    /\ UNCHANGED <<loaded, served>>

(* rd8 of the tile-line renderer: touch, then read the byte.               *)
rd8(a) ==
    /\ rom' = touchSlapstic(rom, a)
    /\ served' = [want |-> rom'.fsm.bank, got |-> rom'.mirror]
    /\ UNCHANGED loaded

Next ==
    \/ loadRomBlob
    \/ \E b \in Banks : warmState(b)
    \/ \E a \in LookupTarget : slapsticLookup(a)
    \/ \E e \in Events : tileEvent(e)
    \/ \E a \in Accesses : rd8(a)

Spec == Init /\ [][Next]_vars

-----------------------------------------------------------------------------

(* Type invariant.                                                         *)
TypeOK ==
    /\ rom \in [fsm : FsmType, mirror : Banks]
    /\ loaded \in BOOLEAN
    /\ served \in [want : Banks, got : Banks]

(* The bank copied into rom.program is the one the chip exposes, whichever *)
(* caller moved the chip and in whatever state it found it: no reader of   *)
(* the plain array sees a stale bank.                                      *)
MirrorCoherent == rom.mirror = rom.fsm.bank

(* A lookup that names a bank returns a word of that bank even when an     *)
(* earlier event left the chip halfway through an alternate or bitwise     *)
(* sequence, and a protected byte read by the renderer comes from the bank *)
(* exposed after its own access.                                           *)
ServedFromWantedBank == served.got = served.want

(* What a table-store event selects, as a function of its flags alone:     *)
(* bit 7 cancels the store, bit 4 selects the index through the alternate  *)
(* path, otherwise bits 5-6 select directly.  An event whose bit 0 starts  *)
(* the bitwise path, with no reset access after it, selects nothing.       *)
Cancelled(e) == e.bit0 /\ ~e.bit1 /\ ~e.bit7
EventBank(e, before) ==
    IF Cancelled(e) THEN before
    ELSE IF e.bit4 /\ ~e.bit7 THEN e.index ELSE e.sel

(* Once a ROM is loaded (there is nothing to render before), wherever      *)
(* earlier accesses left the chip, an event moves the bank to the one its  *)
(* flags name and leaves the mirror in step with it.                       *)
EventIsStateless ==
  loaded =>
    \A e \in Events :
      LET r == slapsticEvent2BC5C(rom, e) IN
        r.fsm.bank = EventBank(e, rom.fsm.bank) /\ r.mirror = r.fsm.bank

=============================================================================
