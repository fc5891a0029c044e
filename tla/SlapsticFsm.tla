---------------------------- MODULE SlapsticFsm ----------------------------
(***************************************************************************)
(* The chip of Slapstic103 under an arbitrary sequence of bus accesses,    *)
(* with the history needed to say when it may switch banks.                *)
(***************************************************************************)
EXTENDS Slapstic103, Sequences

CONSTANT MaxSince        \* bound on the history of accesses kept by the model

VARIABLES fsm,           \* [bank, state, loadedBank]: the SlapsticFsm object
          since,         \* history: the accesses since the last reset access
          switched       \* history: has the bank changed since that access?

vars == <<fsm, since, switched>>

Init == fsm = createSlapsticFsm /\ since = <<>> /\ switched = FALSE

ResetAccess ==
    /\ fsm' = Tick(fsm, A("reset", 0))
    /\ since' = <<>>
    /\ switched' = FALSE

OtherAccess(a) ==
    /\ Len(since) < MaxSince
    /\ fsm' = Tick(fsm, a)
    /\ since' = Append(since, a)
    /\ switched' = (switched \/ fsm'.bank # fsm.bank)

Next == ResetAccess \/ \E a \in Accesses \ {A("reset", 0)} : OtherAccess(a)
Spec == Init /\ [][Next]_vars

-----------------------------------------------------------------------------

(* The three ways the access a, after the history s, may select bank b:    *)
(* a direct select; alt1 alt2 alt3 back to back and then an alt4 before    *)
(* any other bank access; bit1, bit2 and at last bit4.                     *)
Direct(a, b) == a = A("bank", b)

Alternate(s, a, b) ==
    /\ a.class = "bank"
    /\ \E i \in 1..Len(s) - 2 :
         /\ s[i].class = "alt1" /\ s[i+1].class = "alt2" /\ s[i+2] = A("alt3", b)
         /\ \A j \in i+3..Len(s) : s[j].class # "bank"

Bitwise(s, a) ==
    /\ a.class = "bit4"
    /\ \E i, j \in 1..Len(s) : i < j /\ s[i].class = "bit" /\ s[j].class = "bank"

(* slapsticTick changes the exposed bank only as the last access of a      *)
(* complete direct, alternate or bitwise sequence begun by a reset access, *)
(* the first two select the very bank the sequence names, and once a       *)
(* sequence has switched the bank nothing read afterwards switches it      *)
(* again until the next reset access.                                      *)
SwitchIsUnlocked ==
    [][ fsm'.bank # fsm.bank =>
          LET a == since'[Len(since')] IN
            /\ ~switched
            /\ \/ Direct(a, fsm'.bank)
               \/ Alternate(since, a, fsm'.bank)
               \/ Bitwise(since, a) ]_vars

=============================================================================
