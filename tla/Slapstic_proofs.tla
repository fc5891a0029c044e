--------------------------- MODULE Slapstic_proofs ---------------------------
(***************************************************************************)
(* The mirror of the active Slapstic bank is coherent after every          *)
(* operation, and what a table-store event selects depends on its flags    *)
(* only: proved for every state of the chip, not just the reachable ones.  *)
(* The chip alone, after any sequence of accesses, switches at the end of  *)
(* a complete selection only.  The class of every address of the walk is   *)
(* the one its comparators answer to, bit by bit.                          *)
(***************************************************************************)
EXTENDS SlapsticParts, SlapsticDecode, Sequences, TLAPS

RomType == [fsm : FsmType, mirror : Banks]

(* The mirror shows the bank the chip exposes.                             *)
InStep(r) == r \in RomType /\ r.mirror = r.fsm.bank

(* The four bit edits stay within the two bits of loadedBank.              *)
LEMMA EditsAreBanks ==
    ASSUME NEW b \in Banks, NEW n \in Banks
    PROVE  OddEdit(b, n) \in Banks /\ EvenEdit(b, n) \in Banks
<1>1. b \in {0, 1, 2, 3} /\ n \in {0, 1, 2, 3}
  BY DEF Banks
<1>2. \A x \in {0, 1, 2, 3} : /\ ClearBit0(x) \in Banks /\ SetBit0(x) \in Banks
                              /\ ClearBit1(x) \in Banks /\ SetBit1(x) \in Banks
  BY DEF ClearBit0, SetBit0, ClearBit1, SetBit1, Banks
<1>3. QED
  BY <1>1, <1>2 DEF OddEdit, EvenEdit

(* slapsticTick keeps the chip object well typed on every access.          *)
LEMMA TickType ==
    ASSUME NEW f \in FsmType, NEW a \in Accesses
    PROVE  Tick(f, a) \in FsmType
<1>1. a.n \in Banks /\ f.loadedBank \in Banks /\ f.bank \in Banks /\ f.state \in States
  BY DEF Accesses, FsmType, Banks
<1>2. OddEdit(f.loadedBank, a.n) \in Banks /\ EvenEdit(f.loadedBank, a.n) \in Banks
  BY <1>1, EditsAreBanks
<1>3. CASE a.class = "reset"
  BY <1>3 DEF Tick, Goto, FsmType, States
<1>4. CASE a.class # "reset"
  <2>1. CASE f.state \in {"IDLE", "ACTIVE", "ALT_VALID", "ALT_SELECT"}
    BY <1>1, <1>4, <2>1 DEF Tick, FromActive, FromAltValid, FromAltSelect,
                            Commit, Goto, FsmType, States
  <2>2. CASE f.state \in {"ALT_COMMIT", "BIT_LOAD"}
    BY <1>1, <1>4, <2>2 DEF Tick, FromAltCommit, FromBitLoad, Commit, FsmType, States
  <2>3. CASE f.state \in {"BIT_SET_ODD", "BIT_SET_EVEN"}
    BY <1>1, <1>2, <1>4, <2>3 DEF Tick, FromBitSet, Commit, FsmType, States
  <2>4. QED
    BY <1>1, <2>1, <2>2, <2>3 DEF States
<1>5. QED
  BY <1>3, <1>4

(* One access through touchSlapstic keeps chip and mirror in step.         *)
LEMMA TouchInStep ==
    ASSUME NEW r, InStep(r), NEW a \in Accesses
    PROVE  InStep(touchSlapstic(r, a))
<1>1. r.fsm \in FsmType /\ r.mirror \in Banks
  BY DEF InStep, RomType
<1>2. Tick(r.fsm, a) \in FsmType
  BY <1>1, TickType
<1>3. Tick(r.fsm, a).bank \in Banks
  BY <1>2 DEF FsmType
<1>4. QED
  BY <1>1, <1>2, <1>3 DEF InStep, RomType, touchSlapstic

(* The accesses the event and the lookup make are classified ones.         *)
LEMMA KnownAccesses ==
    /\ A("reset", 0) \in Accesses /\ A("alt1", 0) \in Accesses
    /\ A("alt2", 0) \in Accesses  /\ A("bit4", 0) \in Accesses
    /\ A("other", 0) \in Accesses
    /\ \A n \in Banks : /\ A("bank", n) \in Accesses /\ A("bit", n) \in Accesses
                        /\ A("alt3", n) \in Accesses
    /\ 0 \in Banks /\ 2 \in Banks
BY DEF A, Accesses, Plain, Numbered, Banks

(* A whole table-store event keeps chip and mirror in step.                *)
LEMMA EventInStep ==
    ASSUME NEW r, InStep(r), NEW e \in Events
    PROVE  InStep(slapsticEvent2BC5C(r, e))
<1>0. e.index \in Banks /\ e.sel \in Banks
  BY DEF Events
<1> DEFINE begun  == touchSlapstic(r, A("reset", 0))
           bitted == TouchIf(e.bit0, begun, A("bit", 2))
           again  == TouchIf(e.bit1, bitted, A("reset", 0))
           s1 == touchSlapstic(again, A("alt1", 0))
           s2 == touchSlapstic(s1, A("alt2", 0))
           s3 == touchSlapstic(s2, A("alt3", e.index))
           stored == IF e.bit4 THEN s3 ELSE again
           last   == TouchIf(e.bit7, stored, A("reset", 0))
<1>1. InStep(begun)
  BY TouchInStep, KnownAccesses
<1>2. InStep(bitted)
  BY <1>1, TouchInStep, KnownAccesses DEF TouchIf
<1>3. InStep(again)
  BY <1>2, TouchInStep, KnownAccesses DEF TouchIf
<1>4. InStep(s1)
  BY <1>3, TouchInStep, KnownAccesses
<1>5. InStep(s2)
  BY <1>4, TouchInStep, KnownAccesses
<1>6. InStep(s3)
  BY <1>0, <1>5, TouchInStep, KnownAccesses
<1>7. InStep(stored)
  BY <1>3, <1>6
<1>8. InStep(last)
  BY <1>7, TouchInStep, KnownAccesses DEF TouchIf
<1>9. InStep(touchSlapstic(last, A("bank", e.sel)))
  BY <1>0, <1>8, TouchInStep, KnownAccesses
<1>10. slapsticEvent2BC5C(r, e) = touchSlapstic(last, A("bank", e.sel))
  BY DEF slapsticEvent2BC5C, StorePair
<1>11. QED
  BY <1>9, <1>10

(* A lookup keeps chip and mirror in step although it refreshes the mirror *)
(* once for two accesses: the trigger access alone never switches.         *)
LEMMA LookupInStep ==
    ASSUME NEW r, InStep(r), NEW a \in LookupTarget
    PROVE  InStep(LookedUp(r, a))
<1>1. r.fsm \in FsmType /\ r.mirror \in Banks
  BY DEF InStep, RomType
<1>2. a \in Accesses
  BY KnownAccesses DEF LookupTarget
<1>3. Tick(r.fsm, A("reset", 0)) \in FsmType
  BY <1>1, TickType, KnownAccesses
<1>4. Tick(Tick(r.fsm, A("reset", 0)), a) \in FsmType
  BY <1>2, <1>3, TickType
<1>5. Tick(Tick(r.fsm, A("reset", 0)), a).bank \in Banks
  BY <1>4 DEF FsmType
<1>6. QED
  BY <1>1, <1>4, <1>5 DEF InStep, RomType, LookedUp

Inv == TypeOK /\ MirrorCoherent

LEMMA InitInv == Init => Inv
<1> SUFFICES ASSUME Init PROVE Inv
  OBVIOUS
<1>1. createSlapsticFsm \in FsmType /\ createSlapsticFsm.bank = 3 /\ 3 \in Banks
  BY DEF createSlapsticFsm, FsmType, States, Banks
<1>2. rom \in [fsm : FsmType, mirror : Banks] /\ rom.mirror = rom.fsm.bank
  BY <1>1 DEF Init
<1>3. served \in [want : Banks, got : Banks]
  BY DEF Init, Nothing, Banks
<1>4. QED
  BY <1>2, <1>3 DEF Init, Inv, TypeOK, MirrorCoherent

(* Types and coherence are inductive together.                             *)
LEMMA InvInductive == Inv /\ [Next]_vars => Inv'
<1> SUFFICES ASSUME Inv, [Next]_vars PROVE Inv'
  OBVIOUS
<1>0. InStep(rom) /\ rom.fsm \in FsmType /\ rom.fsm.bank \in Banks
  BY DEF Inv, TypeOK, MirrorCoherent, InStep, RomType, FsmType
<1>s. /\ loaded \in BOOLEAN /\ served \in [want : Banks, got : Banks]
      /\ Nothing \in [want : Banks, got : Banks]
  BY DEF Inv, TypeOK, Nothing, Banks
<1>q. ASSUME InStep(rom'), loaded' \in BOOLEAN, served' \in [want : Banks, got : Banks]
      PROVE  Inv'
  BY <1>q DEF Inv, TypeOK, MirrorCoherent, InStep, RomType
<1>1. CASE loadRomBlob
  <2>1. InStep(rom')
    BY <1>0, <1>1 DEF loadRomBlob, InStep, RomType
  <2>2. QED
    BY <1>1, <1>s, <1>q, <2>1 DEF loadRomBlob
<1>2. ASSUME NEW b \in Banks, warmState(b) PROVE Inv'
  <2>1. InStep(rom')
    BY <1>2 DEF warmState, InStep, RomType, FsmType, States, Banks
  <2>2. QED
    BY <1>2, <1>s, <1>q, <2>1 DEF warmState
<1>3. ASSUME NEW a \in LookupTarget, slapsticLookup(a) PROVE Inv'
  <2>1. InStep(rom')
    BY <1>0, <1>3, LookupInStep DEF slapsticLookup
  <2>2. a.class = "bank" => a.n \in Banks
    BY DEF LookupTarget, A, Banks
  <2>3. served' \in [want : Banks, got : Banks]
    BY <1>3, <1>s, <2>1, <2>2 DEF slapsticLookup, InStep, RomType
  <2>4. QED
    BY <1>3, <1>s, <1>q, <2>1, <2>3 DEF slapsticLookup
<1>4. ASSUME NEW e \in Events, tileEvent(e) PROVE Inv'
  <2>1. InStep(rom')
    BY <1>0, <1>4, EventInStep DEF tileEvent
  <2>2. QED
    BY <1>4, <1>s, <1>q, <2>1 DEF tileEvent
<1>5. ASSUME NEW a \in Accesses, rd8(a) PROVE Inv'
  <2>1. InStep(rom')
    BY <1>0, <1>5, TouchInStep DEF rd8
  <2>2. served' \in [want : Banks, got : Banks]
    BY <1>5, <2>1 DEF rd8, InStep, RomType, FsmType
  <2>3. QED
    BY <1>5, <1>s, <1>q, <2>1, <2>2 DEF rd8
<1>6. CASE UNCHANGED vars
  BY <1>6, <1>0, <1>s, <1>q DEF vars
<1>7. QED
  BY <1>1, <1>2, <1>3, <1>4, <1>5, <1>6 DEF Next

(* Type correctness of the mirror and its users.                           *)
THEOREM TypeCorrect == Spec => []TypeOK
<1>1. Init => Inv
  BY InitInv
<1>2. Inv => TypeOK
  BY DEF Inv
<1>3. QED
  BY <1>1, <1>2, InvInductive, PTL DEF Spec

(* No reader of rom.program ever finds a stale bank in the window.         *)
THEOREM MirrorAlwaysCoherent == Spec => []MirrorCoherent
<1>1. Init => Inv
  BY InitInv
<1>2. Inv => MirrorCoherent
  BY DEF Inv
<1>3. QED
  BY <1>1, <1>2, InvInductive, PTL DEF Spec

-----------------------------------------------------------------------------

(* The steps of an event, by what they do to the chip alone.               *)
LEMMA ResetStep ==
    ASSUME NEW f \in FsmType
    PROVE  /\ Tick(f, A("reset", 0)).state = "ACTIVE"
           /\ Tick(f, A("reset", 0)).bank = f.bank
BY DEF Tick, A, Goto, FsmType

LEMMA ActiveStep ==
    ASSUME NEW f \in FsmType, f.state = "ACTIVE", NEW n \in Banks
    PROVE  /\ Tick(f, A("bank", n)).bank = n
           /\ Tick(f, A("bit", n)).state = "BIT_LOAD"
           /\ Tick(f, A("bit", n)).bank = f.bank
           /\ Tick(f, A("alt1", 0)).state = "ALT_VALID"
BY DEF Tick, A, FromActive, Commit, Goto, FsmType

LEMMA AlternateSteps ==
    ASSUME NEW f \in FsmType, NEW n \in Banks
    PROVE  /\ f.state = "ALT_VALID" => Tick(f, A("alt2", 0)).state = "ALT_SELECT"
           /\ f.state = "ALT_SELECT" => /\ Tick(f, A("alt3", n)).state = "ALT_COMMIT"
                                       /\ Tick(f, A("alt3", n)).loadedBank = n
           /\ f.state = "ALT_COMMIT" => Tick(f, A("bank", n)).bank = f.loadedBank
BY DEF Tick, A, FromAltValid, FromAltSelect, FromAltCommit, Commit, Goto, FsmType

LEMMA BitLoadSteps ==
    ASSUME NEW f \in FsmType, f.state = "BIT_LOAD", NEW n \in Banks
    PROVE  /\ Tick(f, A("alt1", 0)) = f /\ Tick(f, A("alt2", 0)) = f
           /\ Tick(f, A("alt3", n)) = f
           /\ Tick(f, A("bank", n)).bank = f.bank
BY DEF Tick, A, FromBitLoad, FsmType

LEMMA TouchTicks == \A r, a : touchSlapstic(r, a).fsm = Tick(r.fsm, a)
BY DEF touchSlapstic

(* slapsticEvent2BC5C moves the bank to the one its flags name, from every *)
(* state an earlier access may have left the chip in.                      *)
THEOREM EventSelects ==
    ASSUME NEW r, InStep(r), NEW e \in Events
    PROVE  LET s == slapsticEvent2BC5C(r, e) IN
             s.fsm.bank = EventBank(e, r.fsm.bank) /\ s.mirror = s.fsm.bank
<1>0. /\ e.index \in Banks /\ e.sel \in Banks
      /\ e.bit0 \in BOOLEAN /\ e.bit1 \in BOOLEAN /\ e.bit4 \in BOOLEAN /\ e.bit7 \in BOOLEAN
  BY DEF Events
<1> DEFINE Reset  == A("reset", 0)
           begun  == Tick(r.fsm, Reset)
           bitted == IF e.bit0 THEN Tick(begun, A("bit", 2)) ELSE begun
           again  == IF e.bit1 THEN Tick(bitted, Reset) ELSE bitted
           s1 == Tick(again, A("alt1", 0))
           s2 == Tick(s1, A("alt2", 0))
           s3 == Tick(s2, A("alt3", e.index))
           stored == IF e.bit4 THEN s3 ELSE again
           last   == IF e.bit7 THEN Tick(stored, Reset) ELSE stored
           end    == Tick(last, A("bank", e.sel))
<1>t. /\ r.fsm \in FsmType /\ begun \in FsmType /\ bitted \in FsmType
      /\ again \in FsmType /\ s1 \in FsmType /\ s2 \in FsmType /\ s3 \in FsmType
      /\ stored \in FsmType /\ last \in FsmType
  <2>1. r.fsm \in FsmType
    BY DEF InStep, RomType
  <2>2. begun \in FsmType
    BY <2>1, TickType, KnownAccesses
  <2>3. bitted \in FsmType
    BY <2>2, TickType, KnownAccesses
  <2>4. again \in FsmType
    BY <2>3, TickType, KnownAccesses
  <2>5. s1 \in FsmType
    BY <2>4, TickType, KnownAccesses
  <2>6. s2 \in FsmType
    BY <2>5, TickType, KnownAccesses
  <2>7. s3 \in FsmType
    BY <1>0, <2>6, TickType, KnownAccesses
  <2>8. stored \in FsmType
    BY <2>4, <2>7
  <2>9. last \in FsmType
    BY <2>8, TickType, KnownAccesses
  <2>10. QED
    BY <2>1, <2>2, <2>3, <2>4, <2>5, <2>6, <2>7, <2>8, <2>9
<1>e. slapsticEvent2BC5C(r, e).fsm = end
  BY TouchTicks DEF slapsticEvent2BC5C, TouchIf, StorePair
<1>m. slapsticEvent2BC5C(r, e).mirror = slapsticEvent2BC5C(r, e).fsm.bank
  BY EventInStep DEF InStep
<1>1. begun.state = "ACTIVE" /\ begun.bank = r.fsm.bank
  BY <1>t, ResetStep
<1>2. /\ e.bit0 => bitted.state = "BIT_LOAD"
      /\ ~e.bit0 => bitted.state = "ACTIVE"
      /\ bitted.bank = r.fsm.bank
  BY <1>1, <1>t, ActiveStep, KnownAccesses
<1>3. /\ e.bit0 /\ ~e.bit1 => again.state = "BIT_LOAD"
      /\ ~e.bit0 \/ e.bit1 => again.state = "ACTIVE"
      /\ again.bank = r.fsm.bank
  BY <1>2, <1>t, ResetStep
<1>4. CASE Cancelled(e)
  <2>1. again.state = "BIT_LOAD" /\ ~e.bit7
    <3>1. e.bit0 /\ ~e.bit1 /\ ~e.bit7
      BY <1>4 DEF Cancelled
    <3>2. QED
      BY <3>1, <1>3
  <2>2. s1 = again
    BY <2>1, <1>t, <1>0, BitLoadSteps
  <2>3. s2 = again
    BY <2>1, <2>2, <1>t, <1>0, BitLoadSteps
  <2>4. s3 = again
    BY <2>1, <2>3, <1>t, <1>0, BitLoadSteps
  <2>5. last = again
    BY <2>1, <2>4
  <2>6. end.bank = r.fsm.bank
    BY <2>1, <2>5, <1>t, <1>0, <1>3, BitLoadSteps
  <2>7. QED
    BY <2>6, <1>4, <1>e, <1>m DEF EventBank
<1>5. CASE e.bit7
  <2>1. last.state = "ACTIVE"
    BY <1>5, <1>t, ResetStep
  <2>2. end.bank = e.sel
    BY <2>1, <1>t, <1>0, ActiveStep
  <2>3. QED
    BY <2>2, <1>5, <1>e, <1>m DEF EventBank, Cancelled
<1>6. CASE ~Cancelled(e) /\ ~e.bit7
  <2>1. again.state = "ACTIVE"
    <3>1. ~e.bit0 \/ e.bit1
      BY <1>6 DEF Cancelled
    <3>2. QED
      BY <3>1, <1>3
  <2>2. CASE e.bit4
    <3>1. s1.state = "ALT_VALID"
      BY <2>1, <1>t, <1>0, ActiveStep
    <3>2. s2.state = "ALT_SELECT"
      BY <3>1, <1>t, <1>0, AlternateSteps
    <3>3. s3.state = "ALT_COMMIT" /\ s3.loadedBank = e.index
      BY <3>2, <1>t, <1>0, AlternateSteps
    <3>4. last = s3
      BY <2>2, <1>6
    <3>5. end.bank = e.index
      BY <3>3, <3>4, <1>t, <1>0, AlternateSteps
    <3>6. QED
      BY <3>5, <2>2, <1>6, <1>e, <1>m DEF EventBank
  <2>3. CASE ~e.bit4
    <3>1. last = again
      BY <2>3, <1>6
    <3>2. end.bank = e.sel
      BY <2>1, <3>1, <1>t, <1>0, ActiveStep
    <3>3. QED
      BY <3>2, <2>3, <1>6, <1>e, <1>m DEF EventBank
  <2>4. QED
    BY <2>2, <2>3
<1>7. QED
  BY <1>4, <1>5, <1>6

(* In every reachable state with a ROM each possible event is stateless.   *)
THEOREM EventAlwaysStateless == Spec => []EventIsStateless
<1>1. Inv => EventIsStateless
  <2> SUFFICES ASSUME Inv, NEW e \in Events
               PROVE  LET r == slapsticEvent2BC5C(rom, e) IN
                        r.fsm.bank = EventBank(e, rom.fsm.bank) /\ r.mirror = r.fsm.bank
    BY DEF EventIsStateless
  <2>1. InStep(rom)
    BY DEF Inv, TypeOK, MirrorCoherent, InStep, RomType
  <2>2. QED
    BY <2>1, EventSelects
<1>2. QED
  BY <1>1, InitInv, InvInductive, PTL DEF Spec

(* The trigger access of a lookup arms the chip from whatever state it was *)
(* left in, so that the access that follows selects the bank it names.     *)
LEMMA LookupSelects ==
    ASSUME NEW r, InStep(r), NEW n \in Banks
    PROVE  LookedUp(r, A("bank", n)).mirror = n
<1> DEFINE begun == Tick(r.fsm, A("reset", 0))
           f     == Tick(begun, A("bank", n))
<1>1. r.fsm \in FsmType
  BY DEF InStep, RomType
<1>2. begun \in FsmType /\ begun.state = "ACTIVE"
  BY <1>1, TickType, ResetStep, KnownAccesses
<1>3. f.bank = n
  BY <1>2, ActiveStep
<1> HIDE DEF f
<1>4. QED
  BY <1>3 DEF LookedUp, InStep, f

ServedInv == Inv /\ ServedFromWantedBank

LEMMA ServedInductive == ServedInv /\ [Next]_vars => ServedInv'
<1> SUFFICES ASSUME ServedInv, [Next]_vars PROVE ServedFromWantedBank'
  BY InvInductive DEF ServedInv
<1>0. InStep(rom) /\ served.got = served.want
  BY DEF ServedInv, Inv, TypeOK, MirrorCoherent, InStep, RomType, ServedFromWantedBank
<1>n. Nothing.got = Nothing.want
  BY DEF Nothing
<1>1. ASSUME NEW a \in LookupTarget, slapsticLookup(a) PROVE ServedFromWantedBank'
  <2>1. CASE a.class = "bank" /\ loaded
    <3>1. a.n \in Banks /\ a = A("bank", a.n)
      BY <2>1 DEF LookupTarget, A, Banks
    <3>2. rom'.mirror = a.n
      BY <1>0, <1>1, <2>1, <3>1, LookupSelects DEF slapsticLookup
    <3>3. served' = [want |-> a.n, got |-> rom'.mirror]
      BY <1>1, <2>1 DEF slapsticLookup
    <3>4. QED
      BY <3>2, <3>3 DEF ServedFromWantedBank
  <2>2. CASE ~(a.class = "bank" /\ loaded)
    BY <1>1, <1>n, <2>2 DEF slapsticLookup, ServedFromWantedBank
  <2>3. QED
    BY <2>1, <2>2
<1>2. ASSUME NEW a \in Accesses, rd8(a) PROVE ServedFromWantedBank'
  <2>1. InStep(rom')
    BY <1>0, <1>2, TouchInStep DEF rd8
  <2>2. QED
    BY <1>2, <2>1 DEF rd8, InStep, ServedFromWantedBank
<1>3. CASE UNCHANGED served
  BY <1>0, <1>3 DEF ServedFromWantedBank
<1>4. QED
  BY <1>1, <1>2, <1>3 DEF Next, loadRomBlob, warmState, tileEvent, vars

(* A lookup that names a bank is answered from it, and the renderer's byte *)
(* comes from the bank exposed after its own access, wherever the accesses *)
(* of the others left the chip.                                            *)
THEOREM AlwaysServedFromWantedBank == Spec => []ServedFromWantedBank
<1>1. Init => ServedInv
  BY InitInv DEF Init, Nothing, ServedInv, ServedFromWantedBank
<1>2. ServedInv => ServedFromWantedBank
  BY DEF ServedInv
<1>3. QED
  BY <1>1, <1>2, ServedInductive, PTL DEF Spec


-----------------------------------------------------------------------------
(* The chip alone: what was read since the reset access tells its state.   *)

AltRead(t, b) ==
    \E i \in 1..Len(t) - 2 :
        /\ t[i].class = "alt1" /\ t[i+1].class = "alt2" /\ t[i+2] = A("alt3", b)
        /\ \A j \in i+3..Len(t) : t[j].class # "bank"
BitsRead(t) ==
    \E i, j \in 1..Len(t) : i < j /\ t[i].class = "bit" /\ t[j].class = "bank"

Explained(f, t) ==
    /\ f.state = "ALT_VALID" => Len(t) >= 1 /\ t[Len(t)].class = "alt1"
    /\ f.state = "ALT_SELECT" =>
          Len(t) >= 2 /\ t[Len(t) - 1].class = "alt1" /\ t[Len(t)].class = "alt2"
    /\ f.state = "ALT_COMMIT" => AltRead(t, f.loadedBank)
    /\ f.state = "BIT_LOAD" => \E i \in 1..Len(t) : t[i].class = "bit"
    /\ f.state \in {"BIT_SET_ODD", "BIT_SET_EVEN"} => BitsRead(t)

ChipInv ==
    /\ fsm \in FsmType /\ since \in Seq(Accesses) /\ switched \in BOOLEAN
    /\ Explained(fsm, since)
    /\ switched => fsm.state = "IDLE"

LEMMA ReadMore ==
    ASSUME NEW t \in Seq(Accesses), NEW a \in Accesses
    PROVE  LET u == Append(t, a)
           IN  /\ u \in Seq(Accesses) /\ Len(u) = Len(t) + 1 /\ Len(t) \in Nat
               /\ u[Len(u)] = a /\ \A i \in 1..Len(t) : u[i] = t[i]
  OBVIOUS

\* an access that belongs to no selection leaves what was read
LEMMA StillRead ==
    ASSUME NEW t \in Seq(Accesses), NEW a \in Accesses, NEW b \in Banks
    PROVE  LET u == Append(t, a)
           IN  /\ AltRead(t, b) /\ a.class # "bank" => AltRead(u, b)
               /\ BitsRead(t) => BitsRead(u)
               /\ (\E i \in 1..Len(t) : t[i].class = "bit")
                     => \E i \in 1..Len(u) : u[i].class = "bit"
<1> DEFINE u == Append(t, a)
<1>1. /\ Len(u) = Len(t) + 1 /\ Len(t) \in Nat
      /\ u[Len(u)] = a /\ \A i \in 1..Len(t) : u[i] = t[i]
  BY ReadMore
<1> HIDE DEF u
<1>2. ASSUME AltRead(t, b), a.class # "bank" PROVE AltRead(u, b)
  <2>1. PICK i \in 1..Len(t) - 2 :
               /\ t[i].class = "alt1" /\ t[i+1].class = "alt2" /\ t[i+2] = A("alt3", b)
               /\ \A j \in i+3..Len(t) : t[j].class # "bank"
    BY <1>2 DEF AltRead
  <2>2. i \in 1..Len(u) - 2 /\ i + 1 \in 1..Len(t) /\ i + 2 \in 1..Len(t) /\ i \in 1..Len(t)
    BY <1>1
  <2>3. u[i].class = "alt1" /\ u[i+1].class = "alt2" /\ u[i+2] = A("alt3", b)
    BY <1>1, <2>1, <2>2
  <2>4. ASSUME NEW j \in i+3..Len(u) PROVE u[j].class # "bank"
    <3>1. CASE j = Len(u)
      BY <1>1, <1>2, <3>1
    <3>2. CASE j # Len(u)
      <4>1. j \in i+3..Len(t) /\ j \in 1..Len(t)
        BY <1>1, <2>2, <3>2
      <4> QED
        BY <1>1, <2>1, <4>1
    <3> QED
      BY <3>1, <3>2
  <2> QED
    BY <2>2, <2>3, <2>4 DEF AltRead
<1>3. ASSUME BitsRead(t) PROVE BitsRead(u)
  <2>1. PICK i, j \in 1..Len(t) : i < j /\ t[i].class = "bit" /\ t[j].class = "bank"
    BY <1>3 DEF BitsRead
  <2>2. i \in 1..Len(u) /\ j \in 1..Len(u)
    BY <1>1
  <2>3. u[i].class = "bit" /\ u[j].class = "bank"
    BY <1>1, <2>1
  <2> QED
    BY <2>1, <2>2, <2>3 DEF BitsRead
<1>4. ASSUME NEW i \in 1..Len(t), t[i].class = "bit"
      PROVE  \E k \in 1..Len(u) : u[k].class = "bit"
  <2>1. i \in 1..Len(u) /\ u[i].class = "bit"
    BY <1>1, <1>4
  <2> QED
    BY <2>1
<1> QED
  BY <1>2, <1>3, <1>4 DEF u

(* Each state the chip goes to is explained by what was read.              *)
LEMMA TickExplained ==
    ASSUME NEW f \in FsmType, NEW t \in Seq(Accesses), Explained(f, t),
           NEW a \in Accesses, a.class # "reset"
    PROVE  Explained(Tick(f, a), Append(t, a))
<1> DEFINE g == Tick(f, a)
           u == Append(t, a)
<1> SUFFICES Explained(g, u)
  OBVIOUS
<1>1. /\ Len(u) = Len(t) + 1 /\ Len(t) \in Nat /\ u[Len(u)] = a
      /\ \A i \in 1..Len(t) : u[i] = t[i]
  BY ReadMore
<1>2. /\ f.bank \in Banks /\ f.loadedBank \in Banks /\ f.state \in States /\ a.n \in Banks
      /\ a = A(a.class, a.n)
  BY DEF FsmType, Accesses, Banks, A
<1>3. /\ \A b \in Banks : AltRead(t, b) /\ a.class # "bank" => AltRead(u, b)
      /\ BitsRead(t) => BitsRead(u)
      /\ (\E i \in 1..Len(t) : t[i].class = "bit")
            => \E i \in 1..Len(u) : u[i].class = "bit"
  BY StillRead, KnownAccesses
<1> HIDE DEF u
<1>4. CASE g.state \in {"IDLE", "ACTIVE"}
  BY <1>4 DEF Explained
<1>5. CASE f.state = "ACTIVE" /\ g.state \notin {"IDLE", "ACTIVE"}
  <2>1. \/ a.class = "alt1" /\ g.state = "ALT_VALID"
        \/ a.class = "bit" /\ g.state = "BIT_LOAD"
    BY <1>2, <1>5 DEF Tick, FromActive, Commit, Goto, FsmType
  <2> HIDE DEF g
  <2>2. 1 <= Len(u) /\ Len(u) \in 1..Len(u)
    BY <1>1
  <2> QED
    BY <1>1, <2>1, <2>2 DEF Explained
<1>6. CASE f.state = "ALT_VALID" /\ g.state \notin {"IDLE", "ACTIVE"}
  <2>1. a.class = "alt2" /\ g.state = "ALT_SELECT"
    BY <1>2, <1>6 DEF Tick, FromAltValid, Goto, FsmType
  <2>2. Len(t) >= 1 /\ t[Len(t)].class = "alt1"
    BY <1>6 DEF Explained
  <2>3. Len(u) >= 2 /\ u[Len(u) - 1].class = "alt1"
    BY <1>1, <2>2
  <2> HIDE DEF g
  <2> QED
    BY <1>1, <2>1, <2>3 DEF Explained
<1>7. CASE f.state = "ALT_SELECT" /\ g.state \notin {"IDLE", "ACTIVE"}
  <2>1. a.class = "alt3" /\ g.state = "ALT_COMMIT" /\ g.loadedBank = a.n
    BY <1>2, <1>7 DEF Tick, FromAltSelect, Goto, FsmType
  <2>2. Len(t) >= 2 /\ t[Len(t) - 1].class = "alt1" /\ t[Len(t)].class = "alt2"
    BY <1>7 DEF Explained
  <2>3. Len(t) - 1 \in 1..Len(u) - 2 /\ Len(t) - 1 \in 1..Len(t) /\ Len(t) \in 1..Len(t)
    BY <1>1, <2>2
  <2>4. /\ u[Len(t) - 1].class = "alt1" /\ u[Len(t) - 1 + 1].class = "alt2"
        /\ u[Len(t) - 1 + 2] = A("alt3", a.n)
        /\ \A j \in Len(t) - 1 + 3..Len(u) : u[j].class # "bank"
    BY <1>1, <1>2, <2>1, <2>2, <2>3
  <2>5. AltRead(u, a.n)
    BY <2>3, <2>4 DEF AltRead
  <2> HIDE DEF g
  <2> QED
    BY <2>1, <2>5 DEF Explained
<1>8. CASE f.state = "ALT_COMMIT" /\ g.state \notin {"IDLE", "ACTIVE"}
  <2>1. a.class # "bank" /\ g = f
    BY <1>2, <1>8 DEF Tick, FromAltCommit, Commit, FsmType
  <2>2. AltRead(u, f.loadedBank)
    BY <1>2, <1>3, <1>8, <2>1 DEF Explained
  <2> HIDE DEF g
  <2> QED
    BY <1>8, <2>1, <2>2 DEF Explained
<1>9. CASE f.state = "BIT_LOAD" /\ g.state \notin {"IDLE", "ACTIVE"}
  <2>1. \/ a.class = "bank" /\ g.state = "BIT_SET_ODD"
        \/ g = f
    BY <1>2, <1>9 DEF Tick, FromBitLoad, FsmType
  <2>2. PICK i \in 1..Len(t) : t[i].class = "bit"
    BY <1>9 DEF Explained
  <2>3. a.class = "bank" => BitsRead(u)
    <3>1. i \in 1..Len(u) /\ Len(u) \in 1..Len(u) /\ i < Len(u)
      BY <1>1
    <3>2. u[i].class = "bit"
      BY <1>1, <2>2
    <3> QED
      BY <1>1, <3>1, <3>2 DEF BitsRead
  <2> HIDE DEF g
  <2> QED
    BY <1>3, <1>9, <2>1, <2>2, <2>3 DEF Explained
<1>10. CASE f.state \in {"BIT_SET_ODD", "BIT_SET_EVEN"} /\ g.state \notin {"IDLE", "ACTIVE"}
  <2>1. g.state \in {"BIT_SET_ODD", "BIT_SET_EVEN"}
    BY <1>2, <1>10 DEF Tick, FromBitSet, Commit, FsmType
  <2>2. BitsRead(u)
    BY <1>3, <1>10 DEF Explained
  <2> HIDE DEF g
  <2> QED
    BY <2>1, <2>2 DEF Explained
<1>11. f.state # "IDLE" \/ g.state = "IDLE"
  BY DEF Tick, FsmType
<1> QED
  BY <1>2, <1>4, <1>5, <1>6, <1>7, <1>8, <1>9, <1>10, <1>11 DEF States

(* The chip of SlapsticFsm is the chip of the bus.                         *)
LEMMA SameChip ==
    /\ Chip!Accesses = Accesses /\ Chip!createSlapsticFsm = createSlapsticFsm
    /\ \A c, n : Chip!A(c, n) = A(c, n)
    /\ \A f \in FsmType : \A a : Chip!Tick(f, a) = Tick(f, a)
<1>1. /\ Chip!Banks = Banks /\ Chip!Plain = Plain /\ Chip!Numbered = Numbered
      /\ Chip!createSlapsticFsm = createSlapsticFsm /\ \A c, n : Chip!A(c, n) = A(c, n)
  BY DEF Chip!Banks, Banks, Chip!Plain, Plain, Chip!Numbered, Numbered,
         Chip!createSlapsticFsm, createSlapsticFsm, Chip!A, A
<1>2. Chip!Accesses = Accesses
  BY <1>1 DEF Chip!Accesses, Accesses
<1>3. /\ \A b : /\ Chip!ClearBit0(b) = ClearBit0(b) /\ Chip!SetBit0(b) = SetBit0(b)
                /\ Chip!ClearBit1(b) = ClearBit1(b) /\ Chip!SetBit1(b) = SetBit1(b)
      /\ \A f, b : Chip!Commit(f, b) = Commit(f, b) /\ Chip!Goto(f, b) = Goto(f, b)
  BY DEF Chip!ClearBit0, ClearBit0, Chip!SetBit0, SetBit0, Chip!ClearBit1, ClearBit1,
         Chip!SetBit1, SetBit1, Chip!Commit, Commit, Chip!Goto, Goto
<1>4. \A b, n : Chip!OddEdit(b, n) = OddEdit(b, n) /\ Chip!EvenEdit(b, n) = EvenEdit(b, n)
  BY <1>3 DEF Chip!OddEdit, OddEdit, Chip!EvenEdit, EvenEdit
<1>5. \A f, a : /\ Chip!FromActive(f, a) = FromActive(f, a)
               /\ Chip!FromAltValid(f, a) = FromAltValid(f, a)
               /\ Chip!FromAltSelect(f, a) = FromAltSelect(f, a)
               /\ Chip!FromAltCommit(f, a) = FromAltCommit(f, a)
               /\ Chip!FromBitLoad(f, a) = FromBitLoad(f, a)
  BY <1>3 DEF Chip!FromActive, FromActive, Chip!FromAltValid, FromAltValid,
              Chip!FromAltSelect, FromAltSelect, Chip!FromAltCommit, FromAltCommit,
              Chip!FromBitLoad, FromBitLoad
<1>6. \A f, a, b, o : Chip!FromBitSet(f, a, b, o) = FromBitSet(f, a, b, o)
  BY <1>3 DEF Chip!FromBitSet, FromBitSet
<1>7. ASSUME NEW f \in FsmType, NEW a PROVE Chip!Tick(f, a) = Tick(f, a)
  <2>1. f.state \in States
    BY DEF FsmType
  <2>2. CASE a.class = "reset"
    BY <1>3, <2>2 DEF Chip!Tick, Tick
  <2>3. CASE a.class # "reset" /\ f.state \in {"IDLE", "ACTIVE", "ALT_VALID", "ALT_SELECT"}
    BY <1>5, <2>3 DEF Chip!Tick, Tick
  <2>4. CASE a.class # "reset" /\ f.state \in {"ALT_COMMIT", "BIT_LOAD"}
    BY <1>5, <2>4 DEF Chip!Tick, Tick
  <2>5. CASE a.class # "reset" /\ f.state \in {"BIT_SET_ODD", "BIT_SET_EVEN"}
    BY <1>4, <1>6, <2>5 DEF Chip!Tick, Tick
  <2> QED
    BY <2>1, <2>2, <2>3, <2>4, <2>5 DEF States
<1> QED
  BY <1>1, <1>2, <1>7

(* Only the last access of a complete selection switches, and leaves the   *)
(* chip idle.                                                              *)
LEMMA TickSwitches ==
    ASSUME NEW f \in FsmType, NEW t \in Seq(Accesses), Explained(f, t),
           NEW a \in Accesses, Tick(f, a).bank # f.bank
    PROVE  LET b == Tick(f, a).bank
           IN  /\ f.state # "IDLE" /\ Tick(f, a).state = "IDLE"
               /\ Chip!Direct(a, b) \/ Chip!Alternate(t, a, b) \/ Chip!Bitwise(t, a)
<1>1. a = A(a.class, a.n) /\ f.state \in States
  BY DEF A, Accesses, FsmType
<1>2. a.class # "reset"
  BY DEF Tick, Goto, FsmType
<1>3. CASE f.state = "ACTIVE"
  BY <1>1, <1>2, <1>3, SameChip DEF Tick, FromActive, Commit, Goto, FsmType, Chip!Direct
<1>4. CASE f.state = "ALT_COMMIT"
  <2>1. a.class = "bank" /\ Tick(f, a).bank = f.loadedBank /\ Tick(f, a).state = "IDLE"
    BY <1>2, <1>4 DEF Tick, FromAltCommit, Commit, FsmType
  <2>2. AltRead(t, f.loadedBank)
    BY <1>4 DEF Explained
  <2>3. Chip!Alternate(t, a, f.loadedBank)
    BY <2>1, <2>2, SameChip DEF AltRead, Chip!Alternate
  <2> QED
    BY <1>4, <2>1, <2>3
<1>5. CASE f.state \in {"BIT_SET_ODD", "BIT_SET_EVEN"}
  <2>1. a.class = "bit4" /\ Tick(f, a).state = "IDLE"
    BY <1>2, <1>5 DEF Tick, FromBitSet, Commit, FsmType
  <2>2. Chip!Bitwise(t, a)
    BY <1>5, <2>1 DEF Explained, BitsRead, Chip!Bitwise
  <2> QED
    BY <1>5, <2>1, <2>2
<1>6. CASE f.state \in {"IDLE", "ALT_VALID", "ALT_SELECT", "BIT_LOAD"}
  BY <1>2, <1>6 DEF Tick, FromAltValid, FromAltSelect, FromBitLoad, Goto, FsmType
<1> QED
  BY <1>1, <1>3, <1>4, <1>5, <1>6 DEF States

LEMMA Unstarted ==
    ASSUME NEW f, f.state \in {"IDLE", "ACTIVE"}, NEW t
    PROVE  Explained(f, t)
  BY DEF Explained

LEMMA ChipInitially == Chip!Init => ChipInv
<1> SUFFICES ASSUME Chip!Init PROVE ChipInv
  OBVIOUS
<1>1. createSlapsticFsm \in FsmType /\ createSlapsticFsm.state = "IDLE"
  BY DEF createSlapsticFsm, FsmType, States, Banks
<1>2. fsm = createSlapsticFsm /\ since = <<>> /\ switched = FALSE
  BY SameChip DEF Chip!Init
<1>3. <<>> \in Seq(Accesses)
  OBVIOUS
<1>4. Explained(fsm, since)
  BY <1>1, <1>2, Unstarted
<1> QED
  BY <1>1, <1>2, <1>3, <1>4 DEF ChipInv

LEMMA ChipInductive == ChipInv /\ [Chip!Next]_(Chip!vars) => ChipInv'
<1> SUFFICES ASSUME ChipInv, [Chip!Next]_(Chip!vars) PROVE ChipInv'
  OBVIOUS
<1>1. CASE Chip!ResetAccess
  <2>1. fsm' \in FsmType /\ fsm'.state = "ACTIVE"
    BY <1>1, TickType, ResetStep, KnownAccesses, SameChip DEF Chip!ResetAccess, ChipInv
  <2>2. since' = <<>> /\ switched' = FALSE /\ <<>> \in Seq(Accesses)
    BY <1>1 DEF Chip!ResetAccess
  <2>3. Explained(fsm', since')
    BY <2>1, Unstarted
  <2> QED
    BY <2>1, <2>2, <2>3 DEF ChipInv
<1>2. ASSUME NEW a \in Accesses \ {A("reset", 0)}, Chip!OtherAccess(a) PROVE ChipInv'
  <2>1. a \in Accesses /\ a.class # "reset"
    BY DEF Accesses, Plain, Numbered, A
  <2>2. /\ fsm' = Tick(fsm, a) /\ since' = Append(since, a)
        /\ switched' = (switched \/ fsm'.bank # fsm.bank)
    BY <1>2, SameChip DEF Chip!OtherAccess, ChipInv
  <2>3. fsm' \in FsmType /\ since' \in Seq(Accesses) /\ Explained(fsm', since')
    BY <2>1, <2>2, TickType, ReadMore, TickExplained DEF ChipInv
  <2>4. switched' => fsm'.state = "IDLE"
    <3>1. CASE fsm'.bank # fsm.bank
      BY <2>1, <2>2, <3>1, TickSwitches DEF ChipInv
    <3>2. CASE switched
      BY <2>1, <2>2, <3>2 DEF ChipInv, Tick
    <3> QED
      BY <2>2, <3>1, <3>2
  <2>5. switched' \in BOOLEAN
    BY <2>2 DEF ChipInv
  <2> QED
    BY <2>3, <2>4, <2>5 DEF ChipInv
<1>3. CASE UNCHANGED Chip!vars
  BY <1>3 DEF Chip!vars, ChipInv
<1> QED
  BY <1>1, <1>2, <1>3, SameChip DEF Chip!Next

(* slapsticTick changes the exposed bank only as the last access of a      *)
(* complete selection begun by a reset access, and at most once until the  *)
(* next reset access: after any number of accesses.                        *)
THEOREM OnlyUnlockedSwitch == Chip!Spec => SwitchIsUnlocked
<1> DEFINE Unlocked ==
        fsm'.bank # fsm.bank =>
          LET a == since'[Len(since')] IN
            /\ ~switched
            /\ \/ Chip!Direct(a, fsm'.bank)
               \/ Chip!Alternate(since, a, fsm'.bank)
               \/ Chip!Bitwise(since, a)
<1>1. ChipInv /\ [Chip!Next]_(Chip!vars) => [Unlocked]_(Chip!vars)
  <2> SUFFICES ASSUME ChipInv, Chip!Next, fsm'.bank # fsm.bank PROVE Unlocked
    OBVIOUS
  <2>1. CASE Chip!ResetAccess
    BY <2>1, ResetStep, SameChip DEF Chip!ResetAccess, ChipInv
  <2>2. ASSUME NEW a \in Accesses \ {A("reset", 0)}, Chip!OtherAccess(a) PROVE Unlocked
    <3>1. fsm' = Tick(fsm, a) /\ since' = Append(since, a) /\ since'[Len(since')] = a
      BY <2>2, ReadMore, SameChip DEF Chip!OtherAccess, ChipInv
    <3>2. /\ fsm.state # "IDLE"
          /\ \/ Chip!Direct(a, fsm'.bank)
             \/ Chip!Alternate(since, a, fsm'.bank)
             \/ Chip!Bitwise(since, a)
      BY <3>1, TickSwitches DEF ChipInv
    <3>3. ~switched
      BY <3>2 DEF ChipInv
    <3> QED
      BY <3>1, <3>2, <3>3
  <2> QED
    BY <2>1, <2>2, SameChip DEF Chip!Next
<1> HIDE DEF Unlocked
<1>2. Chip!Spec => [][Unlocked]_(Chip!vars)
  BY <1>1, ChipInitially, ChipInductive, PTL DEF Chip!Spec
<1> QED
  BY <1>2 DEF SwitchIsUnlocked, Chip!SwitchIsUnlocked, Unlocked

(* The weights of the lines of a byte.                                      *)
Weights == {1, 2, 4, 8, 16, 32, 64, 128}

(* What a line adds to a byte, as the difference of the byte without the    *)
(* lines below it and the byte without that line as well.                   *)
LEMMA LineIsDifference ==
    ASSUME NEW x \in 0..255
    PROVE  /\ (IF Up(x, 1) THEN 1 ELSE 0) = x - 2 * (x \div 2)
           /\ (IF Up(x, 2) THEN 2 ELSE 0) = 2 * (x \div 2) - 4 * (x \div 4)
           /\ (IF Up(x, 4) THEN 4 ELSE 0) = 4 * (x \div 4) - 8 * (x \div 8)
           /\ (IF Up(x, 8) THEN 8 ELSE 0) = 8 * (x \div 8) - 16 * (x \div 16)
           /\ (IF Up(x, 16) THEN 16 ELSE 0) = 16 * (x \div 16) - 32 * (x \div 32)
           /\ (IF Up(x, 32) THEN 32 ELSE 0) = 32 * (x \div 32) - 64 * (x \div 64)
           /\ (IF Up(x, 64) THEN 64 ELSE 0) = 64 * (x \div 64) - 128 * (x \div 128)
           /\ (IF Up(x, 128) THEN 128 ELSE 0) = 128 * (x \div 128)
           /\ \A v \in Weights : x \div v \in Nat
<1>1. \A y \in Nat : y % 2 \in {0, 1} /\ y = 2 * (y \div 2) + (y % 2)
  OBVIOUS
<1>2. \A v \in Weights : x \div v \in Nat
  BY DEF Weights
<1>3. /\ x \div 4 = (x \div 2) \div 2 /\ x \div 8 = (x \div 4) \div 2
      /\ x \div 16 = (x \div 8) \div 2 /\ x \div 32 = (x \div 16) \div 2
      /\ x \div 64 = (x \div 32) \div 2 /\ x \div 128 = (x \div 64) \div 2
      /\ x \div 1 = x /\ (x \div 128) \div 2 = 0
  OBVIOUS
<1>4. (IF Up(x, 1) THEN 1 ELSE 0) = x - 2 * (x \div 2)
  BY <1>1, <1>3 DEF Up
<1>5. (IF Up(x, 2) THEN 2 ELSE 0) = 2 * (x \div 2) - 4 * (x \div 4)
  BY <1>1, <1>2, <1>3 DEF Up, Weights
<1>6. (IF Up(x, 4) THEN 4 ELSE 0) = 4 * (x \div 4) - 8 * (x \div 8)
  BY <1>1, <1>2, <1>3 DEF Up, Weights
<1>7. (IF Up(x, 8) THEN 8 ELSE 0) = 8 * (x \div 8) - 16 * (x \div 16)
  BY <1>1, <1>2, <1>3 DEF Up, Weights
<1>8. (IF Up(x, 16) THEN 16 ELSE 0) = 16 * (x \div 16) - 32 * (x \div 32)
  BY <1>1, <1>2, <1>3 DEF Up, Weights
<1>9. (IF Up(x, 32) THEN 32 ELSE 0) = 32 * (x \div 32) - 64 * (x \div 64)
  BY <1>1, <1>2, <1>3 DEF Up, Weights
<1>10. (IF Up(x, 64) THEN 64 ELSE 0) = 64 * (x \div 64) - 128 * (x \div 128)
  BY <1>1, <1>2, <1>3 DEF Up, Weights
<1>11. (IF Up(x, 128) THEN 128 ELSE 0) = 128 * (x \div 128)
  BY <1>1, <1>2, <1>3 DEF Up, Weights
<1>12. QED
  BY <1>2, <1>4, <1>5, <1>6, <1>7, <1>8, <1>9, <1>10, <1>11

(* What the masks of the chip leave of a low byte.                          *)
LEMMA LowMasks ==
    ASSUME NEW x \in 0..255
    PROVE  /\ Byte(x, 255) = x /\ Byte(x, 0) = 0
           /\ Byte(x, 254) = 2 * (x \div 2)
           /\ Byte(x, 248) = 8 * (x \div 8)
           /\ Byte(x, 240) = 16 * (x \div 16)
           /\ Byte(x, 224) = 32 * (x \div 32)
           /\ Byte(x, 158) = 2 * (x \div 2) - 32 * (x \div 32) + 128 * (x \div 128)
           /\ Byte(x, 230) = 2 * (x \div 2) - 8 * (x \div 8) + 32 * (x \div 32)
<1> DEFINE u(v) == x \div v
           s(v) == IF Up(x, v) THEN v ELSE 0
<1>1. /\ s(1) = x - 2 * u(2)
      /\ s(2) = 2 * u(2) - 4 * u(4)
      /\ s(4) = 4 * u(4) - 8 * u(8)
      /\ s(8) = 8 * u(8) - 16 * u(16)
      /\ s(16) = 16 * u(16) - 32 * u(32)
      /\ s(32) = 32 * u(32) - 64 * u(64)
      /\ s(64) = 64 * u(64) - 128 * u(128)
      /\ s(128) = 128 * u(128)
      /\ \A v \in Weights : u(v) \in Nat
  BY LineIsDifference
<1>2. \A m : Byte(x, m) = (IF Up(m, 1) THEN s(1) ELSE 0) + (IF Up(m, 2) THEN s(2) ELSE 0)
             + (IF Up(m, 4) THEN s(4) ELSE 0) + (IF Up(m, 8) THEN s(8) ELSE 0)
             + (IF Up(m, 16) THEN s(16) ELSE 0) + (IF Up(m, 32) THEN s(32) ELSE 0)
             + (IF Up(m, 64) THEN s(64) ELSE 0) + (IF Up(m, 128) THEN s(128) ELSE 0)
  BY DEF Byte, Line
<1>3. /\ u(2) \in Nat /\ u(4) \in Nat /\ u(8) \in Nat /\ u(16) \in Nat
      /\ u(32) \in Nat /\ u(64) \in Nat /\ u(128) \in Nat
  BY <1>1 DEF Weights
<1> HIDE DEF u, s
<1>4. Byte(x, 255) = x
  <2>1. /\ Up(255, 1) /\ Up(255, 2) /\ Up(255, 4) /\ Up(255, 8)
        /\ Up(255, 16) /\ Up(255, 32) /\ Up(255, 64) /\ Up(255, 128)
    BY DEF Up
  <2>2. QED
    BY <1>1, <1>2, <1>3, <2>1
<1>5. Byte(x, 0) = 0
  <2>1. /\ ~Up(0, 1) /\ ~Up(0, 2) /\ ~Up(0, 4) /\ ~Up(0, 8)
        /\ ~Up(0, 16) /\ ~Up(0, 32) /\ ~Up(0, 64) /\ ~Up(0, 128)
    BY DEF Up
  <2>2. QED
    BY <1>1, <1>2, <1>3, <2>1
<1>6. Byte(x, 254) = 2 * u(2)
  <2>1. /\ ~Up(254, 1) /\ Up(254, 2) /\ Up(254, 4) /\ Up(254, 8)
        /\ Up(254, 16) /\ Up(254, 32) /\ Up(254, 64) /\ Up(254, 128)
    BY DEF Up
  <2>2. QED
    BY <1>1, <1>2, <1>3, <2>1
<1>7. Byte(x, 248) = 8 * u(8)
  <2>1. /\ ~Up(248, 1) /\ ~Up(248, 2) /\ ~Up(248, 4) /\ Up(248, 8)
        /\ Up(248, 16) /\ Up(248, 32) /\ Up(248, 64) /\ Up(248, 128)
    BY DEF Up
  <2>2. QED
    BY <1>1, <1>2, <1>3, <2>1
<1>8. Byte(x, 240) = 16 * u(16)
  <2>1. /\ ~Up(240, 1) /\ ~Up(240, 2) /\ ~Up(240, 4) /\ ~Up(240, 8)
        /\ Up(240, 16) /\ Up(240, 32) /\ Up(240, 64) /\ Up(240, 128)
    BY DEF Up
  <2>2. QED
    BY <1>1, <1>2, <1>3, <2>1
<1>9. Byte(x, 224) = 32 * u(32)
  <2>1. /\ ~Up(224, 1) /\ ~Up(224, 2) /\ ~Up(224, 4) /\ ~Up(224, 8)
        /\ ~Up(224, 16) /\ Up(224, 32) /\ Up(224, 64) /\ Up(224, 128)
    BY DEF Up
  <2>2. QED
    BY <1>1, <1>2, <1>3, <2>1
<1>10. Byte(x, 158) = 2 * u(2) - 32 * u(32) + 128 * u(128)
  <2>1. /\ ~Up(158, 1) /\ Up(158, 2) /\ Up(158, 4) /\ Up(158, 8)
        /\ Up(158, 16) /\ ~Up(158, 32) /\ ~Up(158, 64) /\ Up(158, 128)
    BY DEF Up
  <2>2. QED
    BY <1>1, <1>2, <1>3, <2>1
<1>11. Byte(x, 230) = 2 * u(2) - 8 * u(8) + 32 * u(32)
  <2>1. /\ ~Up(230, 1) /\ Up(230, 2) /\ Up(230, 4) /\ ~Up(230, 8)
        /\ ~Up(230, 16) /\ Up(230, 32) /\ Up(230, 64) /\ Up(230, 128)
    BY DEF Up
  <2>2. QED
    BY <1>1, <1>2, <1>3, <2>1
<1>12. QED
  BY <1>4, <1>5, <1>6, <1>7, <1>8, <1>9, <1>10, <1>11 DEF u

(* The number of the page of an address.                                    *)
LEMMA Pages256 ==
    ASSUME NEW n \in Nat, NEW q \in Nat, 256 * q <= n, n < 256 * q + 256
    PROVE  n \div 256 = q
OBVIOUS

(* ... and of its 64 KiB.                                                   *)
LEMMA Pages65536 ==
    ASSUME NEW n \in Nat, NEW q \in Nat, 65536 * q <= n, n < 65536 * q + 65536
    PROVE  n \div 65536 = q
OBVIOUS

(* The low byte of n is x.                                                  *)
Ends(n, q, x) == n \in Nat /\ q \in Nat /\ x \in 0..255 /\ n = 256 * q + x

(* The lines of the low byte of a number are those of the number.           *)
LEMMA LowByteLines ==
    ASSUME NEW n, NEW q, NEW x, Ends(n, q, x)
    PROVE  \A v \in Weights : Up(n, v) <=> Up(x, v)
<1>0. n \in Nat /\ q \in Nat /\ x \in Nat
  BY DEF Ends
<1>1. n \div 1 = 256 * q + (x \div 1)
  BY DEF Ends
<1>2. n \div 2 = 128 * q + (x \div 2)
  BY DEF Ends
<1>3. n \div 4 = 64 * q + (x \div 4)
  BY DEF Ends
<1>4. n \div 8 = 32 * q + (x \div 8)
  BY DEF Ends
<1>5. n \div 16 = 16 * q + (x \div 16)
  BY DEF Ends
<1>6. n \div 32 = 8 * q + (x \div 32)
  BY DEF Ends
<1>7. n \div 64 = 4 * q + (x \div 64)
  BY DEF Ends
<1>8. n \div 128 = 2 * q + (x \div 128)
  BY DEF Ends
<1>9. Up(n, 1) <=> Up(x, 1)
  BY <1>0, <1>1 DEF Up
<1>10. Up(n, 2) <=> Up(x, 2)
  BY <1>0, <1>2 DEF Up
<1>11. Up(n, 4) <=> Up(x, 4)
  BY <1>0, <1>3 DEF Up
<1>12. Up(n, 8) <=> Up(x, 8)
  BY <1>0, <1>4 DEF Up
<1>13. Up(n, 16) <=> Up(x, 16)
  BY <1>0, <1>5 DEF Up
<1>14. Up(n, 32) <=> Up(x, 32)
  BY <1>0, <1>6 DEF Up
<1>15. Up(n, 64) <=> Up(x, 64)
  BY <1>0, <1>7 DEF Up
<1>16. Up(n, 128) <=> Up(x, 128)
  BY <1>0, <1>8 DEF Up
<1>17. QED
  BY <1>9, <1>10, <1>11, <1>12, <1>13, <1>14, <1>15, <1>16 DEF Weights

(* The low byte of an AND is the AND of the low bytes.                      *)
LEMMA LowByte ==
    ASSUME NEW a, NEW m, NEW q, NEW p, NEW x, NEW y, Ends(a, q, x), Ends(m, p, y)
    PROVE  Byte(a, m) = Byte(x, y) /\ a \div 256 = q /\ m \div 256 = p
<1>1. \A v \in Weights : Up(a, v) <=> Up(x, v)
  BY LowByteLines
<1>2. \A v \in Weights : Up(m, v) <=> Up(y, v)
  BY LowByteLines
<1>3. \A v \in Weights : Line(a, m, v) = Line(x, y, v)
  BY <1>1, <1>2, Zenon DEF Line
<1>4. /\ Line(a, m, 1) = Line(x, y, 1) /\ Line(a, m, 2) = Line(x, y, 2)
      /\ Line(a, m, 4) = Line(x, y, 4) /\ Line(a, m, 8) = Line(x, y, 8)
      /\ Line(a, m, 16) = Line(x, y, 16) /\ Line(a, m, 32) = Line(x, y, 32)
      /\ Line(a, m, 64) = Line(x, y, 64) /\ Line(a, m, 128) = Line(x, y, 128)
  BY <1>3 DEF Weights
<1>5. \A n, r, z : Ends(n, r, z) => n \div 256 = r
  <2> SUFFICES ASSUME NEW n, NEW r, NEW z, Ends(n, r, z) PROVE n \div 256 = r
    OBVIOUS
  <2>1. n \in Nat /\ r \in Nat /\ 256 * r <= n /\ n < 256 * r + 256
    BY DEF Ends
  <2>2. QED
    BY <2>1, Pages256
<1>6. QED
  BY <1>4, <1>5 DEF Byte

(* The bytes of BitAnd(a, b) are those of a and b, masked.                         *)
LEMMA AndBytes ==
    ASSUME NEW a, NEW m, NEW q, NEW p, NEW x0, NEW x1, NEW x2, NEW y0, NEW y1, NEW y2,
           Ends(a, q, x0), Ends(q, x2, x1), Ends(m, p, y0), Ends(p, y2, y1)
    PROVE  BitAnd(a, m) = Byte(x0, y0) + 256 * Byte(x1, y1) + 65536 * Byte(x2, y2)
<1>1. Byte(a, m) = Byte(x0, y0) /\ a \div 256 = q /\ m \div 256 = p
  BY LowByte
<1>2. Byte(q, p) = Byte(x1, y1)
  BY LowByte
<1>3. \A n, r, z, k, w : Ends(n, r, z) /\ Ends(r, w, k) => n \div 65536 = w
  <2> SUFFICES ASSUME NEW n, NEW r, NEW z, NEW k, NEW w, Ends(n, r, z), Ends(r, w, k)
               PROVE  n \div 65536 = w
    OBVIOUS
  <2>1. n \in Nat /\ w \in Nat /\ 65536 * w <= n /\ n < 65536 * w + 65536
    BY DEF Ends
  <2>2. QED
    BY <2>1, Pages65536
<1>4. a \div 65536 = x2 /\ m \div 65536 = y2
  BY <1>3
<1>5. QED
  BY <1>1, <1>2, <1>4 DEF BitAnd

(* An address of the walk: its word is 128 * h + l of its 32 KiB.           *)
Walked(w, inside, h, l) ==
    /\ inside \in BOOLEAN /\ h \in 0..127 /\ l \in 0..127 /\ w = 128 * h + l

(* What a mask with the range in it, and one without, leave of an address.  *)
LEMMA RangeAnd ==
    ASSUME NEW w, NEW inside, NEW h, NEW l, Walked(w, inside, h, l), NEW y \in 0..255
    PROVE  BitAnd(Address(w, inside), 256 * 65535 + y) =
               (IF inside THEN 16 * 32768 ELSE 15 * 32768) + 256 * h + Byte(2 * l, y)
<1> DEFINE a == Address(w, inside)
           q == (IF inside THEN 2048 ELSE 1920) + h
           x2 == IF inside THEN 8 ELSE 7
           x1 == (IF inside THEN 0 ELSE 128) + h
<1>1. Ends(a, q, 2 * l)
  BY DEF Ends, Walked, Address, START, InWindow
<1>2. Ends(q, x2, x1)
  BY DEF Ends, Walked
<1>3. Ends(256 * 65535 + y, 65535, y) /\ Ends(65535, 255, 255)
  BY DEF Ends
<1>4. x1 \in 0..255 /\ x2 \in 0..255 /\ 65536 * x2 + 256 * x1 = (IF inside THEN 16 * 32768 ELSE 15 * 32768) + 256 * h
  BY DEF Walked
<1> HIDE DEF a, q, x1, x2
<1>5. BitAnd(a, 256 * 65535 + y) = Byte(2 * l, y) + 256 * Byte(x1, 255) + 65536 * Byte(x2, 255)
  BY <1>1, <1>2, <1>3, AndBytes
<1>6. Byte(x1, 255) = x1 /\ Byte(x2, 255) = x2
  BY <1>4, LowMasks
<1>7. 2 * l \in 0..255
  BY DEF Walked
<1>8. Byte(2 * l, y) \in Nat
  BY DEF Byte, Line
<1>9. h \in Nat /\ x1 \in Nat /\ x2 \in Nat
  BY <1>4 DEF Walked
<1>10. QED
  BY <1>4, <1>5, <1>6, <1>8, <1>9 DEF a

(* alt1: no range in the mask, so only the low seven lines of the word count. *)
LEMMA LowAnd ==
    ASSUME NEW w, NEW inside, NEW h, NEW l, Walked(w, inside, h, l)
    PROVE  BitAnd(Address(w, inside), 254) = 2 * l
<1> DEFINE a == Address(w, inside)
           q == (IF inside THEN 2048 ELSE 1920) + h
           x2 == IF inside THEN 8 ELSE 7
           x1 == (IF inside THEN 0 ELSE 128) + h
<1>1. Ends(a, q, 2 * l)
  BY DEF Ends, Walked, Address, START, InWindow
<1>2. Ends(q, x2, x1) /\ x1 \in 0..255 /\ x2 \in 0..255
  BY DEF Ends, Walked
<1>3. Ends(254, 0, 254) /\ Ends(0, 0, 0)
  BY DEF Ends
<1> HIDE DEF a, q, x1, x2
<1>4. BitAnd(a, 254) = Byte(2 * l, 254) + 256 * Byte(x1, 0) + 65536 * Byte(x2, 0)
  BY <1>1, <1>2, <1>3, AndBytes
<1>5. Byte(x1, 0) = 0 /\ Byte(x2, 0) = 0
  BY <1>2, LowMasks
<1>6. 2 * l \in 0..255 /\ (2 * l) \div 2 = l /\ l \in Nat
  BY DEF Walked
<1>7. Byte(2 * l, 254) = 2 * l
  BY <1>6, LowMasks
<1>8. QED
  BY <1>4, <1>5, <1>6, <1>7 DEF a

(* A comparator with the range in its mask: inside, and the word's rest.    *)
LEMMA InWindowOnly ==
    ASSUME NEW w, NEW inside, NEW h, NEW l, Walked(w, inside, h, l),
           NEW y \in 0..255, NEW val \in Nat
    PROVE  BitAnd(Address(w, inside), 256 * 65535 + y) = START + 2 * val
               <=> inside /\ 256 * h + Byte(2 * l, y) = 2 * val
<1>1. BitAnd(Address(w, inside), 256 * 65535 + y) =
        (IF inside THEN 16 * 32768 ELSE 15 * 32768) + 256 * h + Byte(2 * l, y)
  BY RangeAnd
<1>2. Byte(2 * l, y) \in 0..255
  BY DEF Byte, Line
<1>3. h \in 0..127 /\ inside \in BOOLEAN
  BY DEF Walked
<1> DEFINE a == BitAnd(Address(w, inside), 256 * 65535 + y)
           z == Byte(2 * l, y)
<1>4. z \in 0..255 /\ a = (IF inside THEN 16 * 32768 ELSE 15 * 32768) + 256 * h + z
  BY <1>1, <1>2
<1> HIDE DEF a, z
<1>5. a = START + 2 * val <=> inside /\ 256 * h + z = 2 * val
  BY <1>3, <1>4 DEF START
<1>6. QED
  BY <1>5 DEF a, z

(* The words each comparator answers to.                                    *)
LEMMA Comparators ==
    ASSUME NEW w, NEW inside, NEW h, NEW l, Walked(w, inside, h, l)
    PROVE  /\ testReset(w, inside) <=> inside /\ w = 0
           /\ \A n \in 0..3 : testBank(w, inside, BANK_VALUE(n)) <=> inside /\ w = 64 + 16 * n
           /\ isAlt4(w, inside) <=> inside /\ w \in {64, 80, 96, 112}
           /\ isAlt1(w, inside) <=> l = 45
           /\ isAlt2(w, inside) <=> inside /\ w = 15636
           /\ isAlt3(w, inside) <=> inside /\ w \in 15652..15655
           /\ isBit1(w, inside) <=> inside /\ w \in 13504..13519
           /\ \A k \in 0..3 : isBit3(w, inside, k)
                                <=> inside /\ w \in 13504..13519 /\ l % 4 = k
           /\ isBit4(w, inside) <=> inside /\ w \in 13520..13527
<1> DEFINE x == 2 * l
<1>0. x \in 0..255
  BY DEF Walked
<1>1. /\ x \div 2 = l /\ x \div 8 = l \div 4 /\ x \div 16 = l \div 8
      /\ x \div 32 = l \div 16 /\ x \div 128 = l \div 64
  BY DEF Walked
<1> HIDE DEF x
<1>2. /\ Byte(x, 254) = 2 * l
      /\ Byte(x, 248) = 8 * (l \div 4)
      /\ Byte(x, 240) = 16 * (l \div 8)
      /\ Byte(x, 224) = 32 * (l \div 16)
      /\ Byte(x, 158) = 2 * l - 32 * (l \div 16) + 128 * (l \div 64)
      /\ Byte(x, 230) = 2 * l - 8 * (l \div 4) + 32 * (l \div 16)
  <2>1. Byte(x, 254) = 2 * (x \div 2)
    BY <1>0, LowMasks
  <2>2. Byte(x, 248) = 8 * (x \div 8)
    BY <1>0, LowMasks
  <2>3. Byte(x, 240) = 16 * (x \div 16)
    BY <1>0, LowMasks
  <2>4. Byte(x, 224) = 32 * (x \div 32)
    BY <1>0, LowMasks
  <2>5. Byte(x, 158) = 2 * (x \div 2) - 32 * (x \div 32) + 128 * (x \div 128)
    BY <1>0, LowMasks
  <2>6. Byte(x, 230) = 2 * (x \div 2) - 8 * (x \div 8) + 32 * (x \div 32)
    BY <1>0, LowMasks
  <2>7. Byte(x, 254) = 2 * l /\ Byte(x, 248) = 8 * (l \div 4)
    BY <1>1, <2>1, <2>2
  <2>8. Byte(x, 240) = 16 * (l \div 8) /\ Byte(x, 224) = 32 * (l \div 16)
    BY <1>1, <2>3, <2>4
  <2>9. Byte(x, 158) = 2 * l - 32 * (l \div 16) + 128 * (l \div 64)
    BY <1>1, <2>5
  <2>10. Byte(x, 230) = 2 * l - 8 * (l \div 4) + 32 * (l \div 16)
    BY <1>1, <2>6
  <2>11. QED
    BY <2>7, <2>8, <2>9, <2>10
<1>3. \A y \in 0..255, val \in Nat :
          BitAnd(Address(w, inside), 256 * 65535 + y) = START + 2 * val
          <=> inside /\ 256 * h + Byte(x, y) = 2 * val
  BY InWindowOnly DEF x
<1>4. l \in 0..127 /\ h \in 0..127 /\ w = 128 * h + l /\ inside \in BOOLEAN
  BY DEF Walked
<1>5. \A b \in Nat : BitAnd(Address(w, inside), RANGE_MASK + INPUT_MASK) = START + 2 * b
                         <=> inside /\ w = b
  <2>1. RANGE_MASK + INPUT_MASK = 256 * 65535 + 254 /\ 254 \in 0..255
    BY DEF RANGE_MASK, INPUT_MASK
  <2>2. \A b \in Nat : BitAnd(Address(w, inside), RANGE_MASK + INPUT_MASK) = START + 2 * b
                         <=> inside /\ 256 * h + Byte(x, 254) = 2 * b
    BY <1>3, <2>1
  <2>3. \A b \in Nat : 256 * h + 2 * l = 2 * b <=> w = b
    BY <1>4
  <2>4. QED
    BY <1>2, <2>2, <2>3
<1>6. testReset(w, inside) <=> inside /\ w = 0
  <2>1. START + 2 * 0 = START /\ 0 \in Nat
    BY DEF START
  <2>2. QED
    BY <1>5, <2>1 DEF testReset
<1>7. \A n \in 0..3 : testBank(w, inside, BANK_VALUE(n)) <=> inside /\ w = 64 + 16 * n
  <2>1. \A n \in 0..3 : BANK_VALUE(n) \in Nat /\ BANK_VALUE(n) = 64 + 16 * n
    BY DEF BANK_VALUE
  <2>2. QED
    BY <1>5, <2>1 DEF testBank
<1>8. isAlt1(w, inside) <=> l = 45
  BY <1>4, LowAnd DEF isAlt1, testAny
<1>9. isAlt2(w, inside) <=> inside /\ w = 15636
  <2>1. isAlt2(w, inside) <=> inside /\ 256 * h + Byte(x, 254) = 2 * 15636
    <3>1. RANGE_MASK + 2 * 16383 = 256 * 65535 + 254 /\ 254 \in 0..255 /\ 15636 \in Nat
      BY DEF RANGE_MASK
    <3>2. BitAnd(Address(w, inside), 256 * 65535 + 254) = START + 2 * 15636
          <=> inside /\ 256 * h + Byte(x, 254) = 2 * 15636
      BY <3>1, <1>3
    <3>3. QED
      BY <3>1, <3>2 DEF isAlt2, testIn
  <2>2. QED
    BY <1>2, <1>4, <2>1
<1>10. isAlt3(w, inside) <=> inside /\ w \in 15652..15655
  <2>1. isAlt3(w, inside) <=> inside /\ 256 * h + Byte(x, 248) = 2 * 15652
    <3>1. RANGE_MASK + 2 * 16380 = 256 * 65535 + 248 /\ 248 \in 0..255 /\ 15652 \in Nat
      BY DEF RANGE_MASK
    <3>2. BitAnd(Address(w, inside), 256 * 65535 + 248) = START + 2 * 15652
          <=> inside /\ 256 * h + Byte(x, 248) = 2 * 15652
      BY <3>1, <1>3
    <3>3. QED
      BY <3>1, <3>2 DEF isAlt3, testIn
  <2>2. QED
    BY <1>2, <1>4, <2>1
<1>11. isAlt4(w, inside) <=> inside /\ w \in {64, 80, 96, 112}
  <2>1. isAlt4(w, inside) <=> inside /\ 256 * h + Byte(x, 158) = 2 * 64
    <3>1. RANGE_MASK + 2 * 16335 = 256 * 65535 + 158 /\ 158 \in 0..255 /\ 64 \in Nat
      BY DEF RANGE_MASK
    <3>2. \A val \in Nat : BitAnd(Address(w, inside), 256 * 65535 + 158) = START + 2 * val
                           <=> inside /\ 256 * h + Byte(x, 158) = 2 * val
      BY <3>1, <1>3
    <3>3. \A val \in Nat : testIn(w, inside, 16335, val)
                           <=> inside /\ 256 * h + Byte(x, 158) = 2 * val
      BY <3>1, <3>2 DEF testIn
    <3>4. QED
      BY <3>1, <3>3 DEF isAlt4
  <2>2. QED
    BY <1>2, <1>4, <2>1
<1>12. isBit1(w, inside) <=> inside /\ w \in 13504..13519
  <2>1. isBit1(w, inside) <=> inside /\ 256 * h + Byte(x, 224) = 2 * 13504
    <3>1. RANGE_MASK + 2 * 16368 = 256 * 65535 + 224 /\ 224 \in 0..255 /\ 13504 \in Nat
      BY DEF RANGE_MASK
    <3>2. BitAnd(Address(w, inside), 256 * 65535 + 224) = START + 2 * 13504
          <=> inside /\ 256 * h + Byte(x, 224) = 2 * 13504
      BY <3>1, <1>3
    <3>3. QED
      BY <3>1, <3>2 DEF isBit1, testIn
  <2>2. QED
    BY <1>2, <1>4, <2>1
<1>13. \A k \in 0..3 : isBit3(w, inside, k) <=> inside /\ w \in 13504..13519 /\ l % 4 = k
  <2>1. \A k \in 0..3 : isBit3(w, inside, k)
                       <=> inside /\ 256 * h + Byte(x, 230) = 2 * (13504 + k)
    <3>1. /\ RANGE_MASK + 2 * 16371 = 256 * 65535 + 230 /\ 230 \in 0..255
          /\ \A k \in 0..3 : 13504 + k \in Nat
      BY DEF RANGE_MASK
    <3>2. \A val \in Nat : BitAnd(Address(w, inside), 256 * 65535 + 230) = START + 2 * val
                           <=> inside /\ 256 * h + Byte(x, 230) = 2 * val
      BY <3>1, <1>3
    <3>3. \A val \in Nat : testIn(w, inside, 16371, val)
                           <=> inside /\ 256 * h + Byte(x, 230) = 2 * val
      BY <3>1, <3>2 DEF testIn
    <3>4. QED
      BY <3>1, <3>3 DEF isBit3
  <2>2. QED
    BY <1>2, <1>4, <2>1
<1>14. isBit4(w, inside) <=> inside /\ w \in 13520..13527
  <2>1. isBit4(w, inside) <=> inside /\ 256 * h + Byte(x, 240) = 2 * 13520
    <3>1. RANGE_MASK + 2 * 16376 = 256 * 65535 + 240 /\ 240 \in 0..255 /\ 13520 \in Nat
      BY DEF RANGE_MASK
    <3>2. BitAnd(Address(w, inside), 256 * 65535 + 240) = START + 2 * 13520
          <=> inside /\ 256 * h + Byte(x, 240) = 2 * 13520
      BY <3>1, <1>3
    <3>3. QED
      BY <3>1, <3>2 DEF isBit4, testIn
  <2>2. QED
    BY <1>2, <1>4, <2>1
<1>15. QED
  BY <1>6, <1>7, <1>8, <1>9, <1>10, <1>11, <1>12, <1>13, <1>14

(* The parts of a pair.                                                     *)
LEMMA PairParts ==
    ASSUME NEW s, NEW n, NEW c, c = <<s, n>>
    PROVE  c[1] = s /\ c[2] = n /\ (\A r, k : c = <<r, k>> <=> s = r /\ n = k)
OBVIOUS

(* A word of the walk is 128 * h + l of its 32 KiB.                         *)
LEMMA HighLow ==
    ASSUME NEW w \in Nat, w <= LastWord
    PROVE  \E h \in 0..127, l \in 0..127 : w = 128 * h + l
<1>1. InWindow \div 2 = 16384
  BY DEF InWindow
<1>2. LastWord \in Nat /\ LastWord <= 16383
  BY <1>1, LastWordAssumption
<1>3. w <= 16383
  BY <1>2
<1>4. w % 128 \in 0..127
  OBVIOUS
<1>5. w = 128 * (w \div 128) + (w % 128)
  OBVIOUS
<1>6. w \div 128 \in 0..127
  BY <1>3
<1>7. QED
  BY <1>4, <1>5, <1>6

(* The class of a word names the one pattern it is in.                      *)
LEMMA ClassOf ==
    ASSUME NEW w, NEW inside, NEW h, NEW l, Walked(w, inside, h, l), NEW c, c = Class(w, inside)
    PROVE  /\ c[1] = "reset" <=> inside /\ w = 0
           /\ \A n \in 0..3 : c = <<"bank", n>> <=> inside /\ w = 64 + 16 * n
           /\ c[1] = "bank" <=> inside /\ w \in {64, 80, 96, 112}
           /\ c[1] = "alt1" <=> l = 45
           /\ c[1] = "alt2" <=> inside /\ w = 15636
           /\ c[1] = "alt3" <=> inside /\ w \in 15652..15655
           /\ c[1] = "alt3" => c[2] = w % 4
           /\ c[1] = "bit" <=> inside /\ w \in 13504..13519
           /\ \A k \in 0..3 : c = <<"bit", k>> <=> inside /\ w \in 13504..13519 /\ l % 4 = k
           /\ c[1] = "bit4" <=> inside /\ w \in 13520..13527
<1>1. /\ w \in Nat /\ w % 128 = l /\ w % 4 = l % 4 /\ l \in 0..127 /\ inside \in BOOLEAN
  BY DEF Walked
<1> DEFINE zero == w = 0
           bank == w \in {64, 80, 96, 112}
           alt2 == w = 15636
           alt3 == w \in 15652..15655
           bit  == w \in 13504..13519
           bit4 == w \in 13520..13527
           alt1 == l = 45
           d == (w - 64) \div 16
           m == w % 4
<1>2. /\ zero => ~(bank \/ alt2 \/ alt3 \/ bit \/ bit4 \/ alt1)
      /\ bank => ~(alt2 \/ alt3 \/ bit \/ bit4 \/ alt1)
      /\ alt2 => ~(alt3 \/ bit \/ bit4 \/ alt1)
      /\ alt3 => ~(bit \/ bit4 \/ alt1)
      /\ bit  => ~(bit4 \/ alt1)
      /\ bit4 => ~alt1
  BY DEF Walked
<1>3. \A n \in 0..3 : w = 64 + 16 * n <=> bank /\ d = n
  BY <1>1
<1>4. \A k \in 0..3 : l % 4 = k <=> m = k
  BY <1>1
<1>5. c = CASE inside /\ zero -> <<"reset", 0>>
            [] inside /\ bank -> <<"bank", d>>
            [] alt1           -> <<"alt1", 0>>
            [] inside /\ alt2 -> <<"alt2", 0>>
            [] inside /\ alt3 -> <<"alt3", m>>
            [] inside /\ bit  -> <<"bit", m>>
            [] inside /\ bit4 -> <<"bit4", 0>>
            [] OTHER          -> <<"other", 0>>
  BY <1>1 DEF Class
<1> DEFINE Answers ==
             /\ c[1] = "reset" <=> inside /\ zero
             /\ \A n \in 0..3 : c = <<"bank", n>> <=> inside /\ bank /\ d = n
             /\ c[1] = "bank" <=> inside /\ bank
             /\ c[1] = "alt1" <=> alt1
             /\ c[1] = "alt2" <=> inside /\ alt2
             /\ c[1] = "alt3" <=> inside /\ alt3
             /\ c[1] = "alt3" => c[2] = m
             /\ c[1] = "bit" <=> inside /\ bit
             /\ \A k \in 0..3 : c = <<"bit", k>> <=> inside /\ bit /\ m = k
             /\ c[1] = "bit4" <=> inside /\ bit4
<1>6. zero \in BOOLEAN /\ bank \in BOOLEAN /\ alt2 \in BOOLEAN /\ alt3 \in BOOLEAN
      /\ bit \in BOOLEAN /\ bit4 \in BOOLEAN /\ alt1 \in BOOLEAN
  OBVIOUS
<1> HIDE DEF zero, bank, alt2, alt3, bit, bit4, alt1, d, m
<1>7. ASSUME inside /\ zero PROVE Answers
  <2>1. c = <<"reset", 0>>
    BY <1>2, <1>5, <1>7
  <2>2. /\ c[1] = "reset" /\ c[2] = 0
        /\ \A r, k : c = <<r, k>> <=> "reset" = r /\ 0 = k
    BY <2>1, PairParts
  <2>3. \A n : c # <<"bank", n>>
    BY <2>2
  <2>4. \A n : c # <<"bit", n>>
    BY <2>2
  <2>5. \A n \in 0..3 : c = <<"bank", n>> <=> inside /\ bank /\ d = n
    BY <1>2, <1>6, <1>7, <2>3
  <2>6. \A k \in 0..3 : c = <<"bit", k>> <=> inside /\ bit /\ m = k
    BY <1>2, <1>6, <1>7, <2>4
  <2>7. /\ c[1] = "reset" <=> inside /\ zero
        /\ c[1] = "bank" <=> inside /\ bank
        /\ c[1] = "alt1" <=> alt1
        /\ c[1] = "alt2" <=> inside /\ alt2
        /\ c[1] = "alt3" <=> inside /\ alt3
        /\ c[1] = "alt3" => c[2] = m
        /\ c[1] = "bit" <=> inside /\ bit
        /\ c[1] = "bit4" <=> inside /\ bit4
    BY <1>1, <1>2, <1>6, <1>7, <2>2
  <2>8. QED
    BY <2>5, <2>6, <2>7
<1>8. ASSUME inside /\ bank PROVE Answers
  <2>1. c = <<"bank", d>>
    BY <1>2, <1>5, <1>8
  <2>2. /\ c[1] = "bank" /\ c[2] = d
        /\ \A r, k : c = <<r, k>> <=> "bank" = r /\ d = k
    BY <2>1, PairParts
  <2>3. \A n : c = <<"bank", n>> <=> d = n
    BY <2>2
  <2>4. \A n : c # <<"bit", n>>
    BY <2>2
  <2>5. \A n \in 0..3 : c = <<"bank", n>> <=> inside /\ bank /\ d = n
    BY <1>2, <1>6, <1>8, <2>3
  <2>6. \A k \in 0..3 : c = <<"bit", k>> <=> inside /\ bit /\ m = k
    BY <1>2, <1>6, <1>8, <2>4
  <2>7. /\ c[1] = "reset" <=> inside /\ zero
        /\ c[1] = "bank" <=> inside /\ bank
        /\ c[1] = "alt1" <=> alt1
        /\ c[1] = "alt2" <=> inside /\ alt2
        /\ c[1] = "alt3" <=> inside /\ alt3
        /\ c[1] = "alt3" => c[2] = m
        /\ c[1] = "bit" <=> inside /\ bit
        /\ c[1] = "bit4" <=> inside /\ bit4
    BY <1>1, <1>2, <1>6, <1>8, <2>2
  <2>8. QED
    BY <2>5, <2>6, <2>7
<1>9. ASSUME inside /\ alt2 PROVE Answers
  <2>1. c = <<"alt2", 0>>
    BY <1>2, <1>5, <1>9
  <2>2. /\ c[1] = "alt2" /\ c[2] = 0
        /\ \A r, k : c = <<r, k>> <=> "alt2" = r /\ 0 = k
    BY <2>1, PairParts
  <2>3. \A n : c # <<"bank", n>>
    BY <2>2
  <2>4. \A n : c # <<"bit", n>>
    BY <2>2
  <2>5. \A n \in 0..3 : c = <<"bank", n>> <=> inside /\ bank /\ d = n
    BY <1>2, <1>6, <1>9, <2>3
  <2>6. \A k \in 0..3 : c = <<"bit", k>> <=> inside /\ bit /\ m = k
    BY <1>2, <1>6, <1>9, <2>4
  <2>7. /\ c[1] = "reset" <=> inside /\ zero
        /\ c[1] = "bank" <=> inside /\ bank
        /\ c[1] = "alt1" <=> alt1
        /\ c[1] = "alt2" <=> inside /\ alt2
        /\ c[1] = "alt3" <=> inside /\ alt3
        /\ c[1] = "alt3" => c[2] = m
        /\ c[1] = "bit" <=> inside /\ bit
        /\ c[1] = "bit4" <=> inside /\ bit4
    BY <1>1, <1>2, <1>6, <1>9, <2>2
  <2>8. QED
    BY <2>5, <2>6, <2>7
<1>10. ASSUME inside /\ alt3 PROVE Answers
  <2>1. c = <<"alt3", m>>
    BY <1>2, <1>5, <1>10
  <2>2. /\ c[1] = "alt3" /\ c[2] = m
        /\ \A r, k : c = <<r, k>> <=> "alt3" = r /\ m = k
    BY <2>1, PairParts
  <2>3. \A n : c # <<"bank", n>>
    BY <2>2
  <2>4. \A n : c # <<"bit", n>>
    BY <2>2
  <2>5. \A n \in 0..3 : c = <<"bank", n>> <=> inside /\ bank /\ d = n
    BY <1>2, <1>6, <1>10, <2>3
  <2>6. \A k \in 0..3 : c = <<"bit", k>> <=> inside /\ bit /\ m = k
    BY <1>2, <1>6, <1>10, <2>4
  <2>7. /\ c[1] = "reset" <=> inside /\ zero
        /\ c[1] = "bank" <=> inside /\ bank
        /\ c[1] = "alt1" <=> alt1
        /\ c[1] = "alt2" <=> inside /\ alt2
        /\ c[1] = "alt3" <=> inside /\ alt3
        /\ c[1] = "alt3" => c[2] = m
        /\ c[1] = "bit" <=> inside /\ bit
        /\ c[1] = "bit4" <=> inside /\ bit4
    BY <1>1, <1>2, <1>6, <1>10, <2>2
  <2>8. QED
    BY <2>5, <2>6, <2>7
<1>11. ASSUME inside /\ bit PROVE Answers
  <2>1. c = <<"bit", m>>
    BY <1>2, <1>5, <1>11
  <2>2. /\ c[1] = "bit" /\ c[2] = m
        /\ \A r, k : c = <<r, k>> <=> "bit" = r /\ m = k
    BY <2>1, PairParts
  <2>3. \A n : c # <<"bank", n>>
    BY <2>2
  <2>4. \A n : c = <<"bit", n>> <=> m = n
    BY <2>2
  <2>5. \A n \in 0..3 : c = <<"bank", n>> <=> inside /\ bank /\ d = n
    BY <1>2, <1>6, <1>11, <2>3
  <2>6. \A k \in 0..3 : c = <<"bit", k>> <=> inside /\ bit /\ m = k
    BY <1>2, <1>6, <1>11, <2>4
  <2>7. /\ c[1] = "reset" <=> inside /\ zero
        /\ c[1] = "bank" <=> inside /\ bank
        /\ c[1] = "alt1" <=> alt1
        /\ c[1] = "alt2" <=> inside /\ alt2
        /\ c[1] = "alt3" <=> inside /\ alt3
        /\ c[1] = "alt3" => c[2] = m
        /\ c[1] = "bit" <=> inside /\ bit
        /\ c[1] = "bit4" <=> inside /\ bit4
    BY <1>1, <1>2, <1>6, <1>11, <2>2
  <2>8. QED
    BY <2>5, <2>6, <2>7
<1>12. ASSUME inside /\ bit4 PROVE Answers
  <2>1. c = <<"bit4", 0>>
    BY <1>2, <1>5, <1>12
  <2>2. /\ c[1] = "bit4" /\ c[2] = 0
        /\ \A r, k : c = <<r, k>> <=> "bit4" = r /\ 0 = k
    BY <2>1, PairParts
  <2>3. \A n : c # <<"bank", n>>
    BY <2>2
  <2>4. \A n : c # <<"bit", n>>
    BY <2>2
  <2>5. \A n \in 0..3 : c = <<"bank", n>> <=> inside /\ bank /\ d = n
    BY <1>2, <1>6, <1>12, <2>3
  <2>6. \A k \in 0..3 : c = <<"bit", k>> <=> inside /\ bit /\ m = k
    BY <1>2, <1>6, <1>12, <2>4
  <2>7. /\ c[1] = "reset" <=> inside /\ zero
        /\ c[1] = "bank" <=> inside /\ bank
        /\ c[1] = "alt1" <=> alt1
        /\ c[1] = "alt2" <=> inside /\ alt2
        /\ c[1] = "alt3" <=> inside /\ alt3
        /\ c[1] = "alt3" => c[2] = m
        /\ c[1] = "bit" <=> inside /\ bit
        /\ c[1] = "bit4" <=> inside /\ bit4
    BY <1>1, <1>2, <1>6, <1>12, <2>2
  <2>8. QED
    BY <2>5, <2>6, <2>7
<1>13. ASSUME alt1 PROVE Answers
  <2>1. c = <<"alt1", 0>>
    BY <1>2, <1>5, <1>13
  <2>2. QED
    BY <1>2, <1>13, <2>1
<1>14. ASSUME ~alt1 /\ (inside => ~(zero \/ bank \/ alt2 \/ alt3 \/ bit \/ bit4)) PROVE Answers
  <2>1. c = <<"other", 0>>
    BY <1>5, <1>14
  <2>2. QED
    BY <1>14, <2>1
<1>15. Answers
  BY <1>7, <1>8, <1>9, <1>10, <1>11, <1>12, <1>13, <1>14
<1>16. QED
  BY <1>3, <1>4, <1>15 DEF zero, bank, alt2, alt3, bit, bit4, alt1, m

(* Every word of the walk, in the window and in the ROM below it, is in the *)
(* class that its comparators answer to.                                    *)
THEOREM ClassAlwaysFaithful == FirstWord /\ [][Walk]_word => []ClassIsFaithful
<1> DEFINE IInv == word \in Nat
<1>1. FirstWord => IInv
  BY DEF FirstWord
<1>2. IInv /\ [Walk]_word => IInv'
  BY DEF Walk
<1>3. IInv => ClassIsFaithful
  <2>1. ASSUME word \in Nat, word <= LastWord, NEW inside \in BOOLEAN, NEW c, c = Class(word, inside)
        PROVE  /\ testReset(word, inside) <=> c[1] = "reset"
               /\ \A n \in 0..3 : testBank(word, inside, BANK_VALUE(n)) <=> c = <<"bank", n>>
               /\ isAlt4(word, inside) <=> c[1] = "bank"
               /\ isAlt1(word, inside) <=> c[1] = "alt1"
               /\ isAlt2(word, inside) <=> c[1] = "alt2"
               /\ isAlt3(word, inside) <=> c[1] = "alt3"
               /\ c[1] = "alt3" => c[2] = word % 4
               /\ isBit1(word, inside) <=> c[1] = "bit"
               /\ \A k \in 0..3 : isBit3(word, inside, k) <=> c = <<"bit", k>>
               /\ isBit4(word, inside) <=> c[1] = "bit4"
    <3>1. PICK h \in 0..127, l \in 0..127 : word = 128 * h + l
      BY <2>1, HighLow
    <3>2. Walked(word, inside, h, l)
      BY <2>1, <3>1 DEF Walked
    <3>3. /\ testReset(word, inside) <=> inside /\ word = 0
          /\ \A n \in 0..3 : testBank(word, inside, BANK_VALUE(n)) <=> inside /\ word = 64 + 16 * n
          /\ isAlt4(word, inside) <=> inside /\ word \in {64, 80, 96, 112}
          /\ isAlt1(word, inside) <=> l = 45
          /\ isAlt2(word, inside) <=> inside /\ word = 15636
          /\ isAlt3(word, inside) <=> inside /\ word \in 15652..15655
          /\ isBit1(word, inside) <=> inside /\ word \in 13504..13519
          /\ \A k \in 0..3 : isBit3(word, inside, k)
                               <=> inside /\ word \in 13504..13519 /\ l % 4 = k
          /\ isBit4(word, inside) <=> inside /\ word \in 13520..13527
      BY <3>2, Comparators
    <3>4. /\ c[1] = "reset" <=> inside /\ word = 0
          /\ \A n \in 0..3 : c = <<"bank", n>> <=> inside /\ word = 64 + 16 * n
          /\ c[1] = "bank" <=> inside /\ word \in {64, 80, 96, 112}
          /\ c[1] = "alt1" <=> l = 45
          /\ c[1] = "alt2" <=> inside /\ word = 15636
          /\ c[1] = "alt3" <=> inside /\ word \in 15652..15655
          /\ c[1] = "alt3" => c[2] = word % 4
          /\ c[1] = "bit" <=> inside /\ word \in 13504..13519
          /\ \A k \in 0..3 : c = <<"bit", k>> <=> inside /\ word \in 13504..13519 /\ l % 4 = k
          /\ c[1] = "bit4" <=> inside /\ word \in 13520..13527
      BY <2>1, <3>2, ClassOf
    <3>5. QED
      BY <3>3, <3>4
  <2>2. QED
    BY <2>1 DEF ClassIsFaithful
<1>4. QED
  BY <1>1, <1>2, <1>3, PTL

=============================================================================
