---------------------------- MODULE MCHighScores ----------------------------
(* Three rows of keys of three bits: scores that tie, that differ in one     *)
(* column only, that never rank, and one the key cannot hold.              *)
EXTENDS HighScores

Space == [n \in Positions |-> 0]
MCTable(scores) == [i \in 0..2 |-> Row(scores[i + 1], Space)]
MCTables == {MCTable(<<6, 3, 2>>)}
MCSeeds == {[table |-> MCTable(<<6, 6, 1>>), score |-> 0, name |-> Space]}
=============================================================================
