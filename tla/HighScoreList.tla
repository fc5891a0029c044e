--------------------------- MODULE HighScoreList ---------------------------
(***************************************************************************)
(* What a table of high scores promises: it holds the best records ever    *)
(* entered, in order, the older of two equal scores first.  A score good   *)
(* enough is on offer until its player has signed it.                      *)
(***************************************************************************)
EXTENDS Naturals, Sequences

CONSTANTS Rows,          \* records it holds
          Limit,         \* scores it can hold are below this
          NoOffer,       \* no score
          Scores, Names,
          Loads          \* the tables of other machines

VARIABLES list,          \* [score, name], the best first
          offer          \* the score that waits for its name, or NoOffer

Init ==
    /\ offer = NoOffer
    /\ Len(list) = Rows
    /\ \A i, j \in 1..Rows : i < j => list[i].score >= list[j].score

AsGood(i, score) == list[i].score >= score
Entered(score, name) ==
    [i \in 1..Rows |->
        IF AsGood(i, score) THEN list[i]
        ELSE IF i = 1 \/ AsGood(i - 1, score) THEN [score |-> score, name |-> name]
        ELSE list[i-1]]

Ranks(score) == \E i \in 1..Rows : ~AsGood(i, score)

(* A score the table cannot hold is offered, and never entered.            *)
Offer(score) ==
    /\ offer = NoOffer /\ Ranks(score)
    /\ offer' = score /\ UNCHANGED list
Sign(name) ==
    /\ offer # NoOffer
    /\ list' = IF offer < Limit THEN Entered(offer, name) ELSE list
    /\ offer' = NoOffer

(* The table of another machine is loaded.                                 *)
Load == offer = NoOffer /\ list' \in Loads /\ UNCHANGED offer

Next == Load \/ (\E s \in Scores : Offer(s)) \/ (\E n \in Names : Sign(n))
=============================================================================
