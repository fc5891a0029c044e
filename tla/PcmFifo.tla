------------------------------ MODULE PcmFifo ------------------------------
(***************************************************************************)
(* What a PCM queue promises, whatever it is built from: the samples come  *)
(* out in the order they went in, each at most once, and when more arrive  *)
(* than it holds the oldest give way.  An empty queue gives silence.  It   *)
(* is a promise about what arrives: any batch may be put at any time, and  *)
(* a reset may empty the queue at any time.                                *)
(***************************************************************************)
EXTENDS Naturals, Sequences

CONSTANTS Cap,           \* samples it holds
          Batches        \* the sequences of samples that may arrive at once

VARIABLES kept,          \* the samples waiting, oldest first
          heard          \* the last thing taken out: a sample, or silence

Silence == 0
Newest(s) == IF Len(s) <= Cap THEN s ELSE SubSeq(s, Len(s) - Cap + 1, Len(s))

Init == kept = <<>> /\ heard = Silence

Put(b) == kept' = Newest(kept \o b) /\ UNCHANGED heard
Clear  == kept' = <<>> /\ heard' = Silence
Take   ==
    IF kept = <<>>
    THEN heard' = Silence /\ UNCHANGED kept
    ELSE heard' = Head(kept) /\ kept' = Tail(kept)

Next == Take \/ Clear \/ \E b \in Batches : Put(b)
Spec == Init /\ [][Next]_<<kept, heard>>
=============================================================================
