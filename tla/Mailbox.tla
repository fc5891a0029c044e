------------------------------ MODULE Mailbox ------------------------------
(***************************************************************************)
(* The 8-bit latch with a pending bit that joins the two processors        *)
(* (m6502/mailbox.ts).  A write overwrites the byte and raises pending; a  *)
(* read returns the byte and drops pending.  Both report an edge, which    *)
(* the callers turn into an interrupt line.                                *)
(***************************************************************************)
CONSTANTS Bytes,   \* the bytes that travel
          Zero     \* the value of a latch after reset

ASSUME ZeroIsByte == Zero \in Bytes

LatchType == [value : Bytes, pending : BOOLEAN]

createMailbox == [value |-> Zero, pending |-> FALSE]

mailboxWrite(mb, b) == [value |-> b, pending |-> TRUE]

(* The write callback runs on the rising edge only.                        *)
RisesOn(mb) == ~mb.pending

mailboxRead(mb) == [mb EXCEPT !.pending = FALSE]

=============================================================================
