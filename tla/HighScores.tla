----------------------------- MODULE HighScores -----------------------------
(***************************************************************************)
(* The high scores of a page: a game ends and its score is ranked          *)
(* (key-rank-lookup-4686, object-slot-lookup-11b18, case3), the player     *)
(* turns the trackball and presses START frame by frame                    *)
(* (high-score-initials-entry), and the record is packed and inserted at   *)
(* the rank found when the game ended (high-score-register-428e).  A coin  *)
(* start loads the memory of a recorded game over all of it but the entry. *)
(* The pages start games of one player only: the second's score is zero    *)
(* and never ranks.  A letter is its place in " ABC...".                   *)
(***************************************************************************)
EXTENDS Integers, Sequences, FiniteSetsExt

CONSTANTS Rows,          \* 10
          Base,          \* 256: a key is three digits of this base
          Letters,       \* 27
          NameLen,       \* 3
          Radix, Word,   \* 40 and 2^16, of the packed initials
          Ring,          \* 256 places of a trackball axis
          Threshold,     \* 8: the movement that counts
          Cooldown,      \* 6 frames without a movement after one that counted
          Places,        \* where the trackball may stand in a frame
          Scores,        \* scores that a game may end with
          Tables,        \* tables in the ROM
          Seeds          \* [table, score, name] of the recorded games of the coin flow

VARIABLES table,         \* rows 0..Rows-1 at *0x401ffc + 0x1e
          slot,          \* the record in the player's slot: score and initials
          entry,         \* state.clock.highScoreInitialsEntry
          cut,           \* history: has a game been loaded over an entry?
          up             \* history: was START up in a frame since the entry began?
vars == <<table, slot, entry, cut, up>>

Limit == Base * Base * Base            \* 2^24
NoOffer == Limit * Base               \* 2^32, no long
Positions == 1..NameLen
Name == [Positions -> 0..Letters-1]
Other == Letters                       \* a byte that is no letter
Byte(n) == n % 256

-----------------------------------------------------------------------------
(* Rows: a key of three bytes and a word of packed initials.               *)
KeyOf(score) == <<(score \div (Base * Base)) % Base, (score \div Base) % Base, score % Base>>

Packed(name) ==
    LET upTo[n \in 0..NameLen] == IF n = 0 THEN 0 ELSE (upTo[n-1] * Radix + name[n]) % Word
    IN  upTo[NameLen]

\* hiScoreDecode41c8, which takes the initials from the last to the first
Value(key) == (key[1] * Base + key[2]) * Base + key[3]
Unpacked(word) ==
    LET shifted[k \in 0..NameLen-1] == IF k = 0 THEN word ELSE shifted[k-1] \div Radix
    IN  [n \in Positions |-> shifted[NameLen - n] % Radix]
Decoded(row) == [score |-> Value(row.key), name |-> Unpacked(row.word)]

Row(score, name) == [key |-> KeyOf(score), word |-> Packed(name)]

\* the first column that differs decides
Below(k, key) == \E n \in 1..3 : k[n] < key[n] /\ \A m \in 1..n-1 : k[m] = key[m]

\* mutant: equal keys do not advance to the next row
RowsUpTo(score)  == {i \in 0..Rows-1 : ~Below(KeyOf(score), table[i].key)}
RowsBelow(score) == {i \in 0..Rows-1 : Below(table[i].key, KeyOf(score))}
keyRankLookup(score) ==
    IF score >= Limit THEN -1
    ELSE IF RowsBelow(score) = {} THEN Rows ELSE Min(RowsBelow(score))

Columns == 0..Base-1
Key == Columns \X Columns \X Columns
Sorted(t) == \A i, j \in 0..Rows-1 : i < j => ~Below(t[i].key, t[j].key)

(* The tables of the ROM and of the recorded games are in order; a rank     *)
(* fits a byte, a score a long; the initials fit their word (40^3 < 2^16).  *)
IsTable(t) ==
    t = [i \in 0..Rows-1 |-> t[i]] /\ \A i \in 0..Rows-1 : t[i].key \in Key
Weight[n \in 0..NameLen] == IF n = 0 THEN 1 ELSE Radix * Weight[n-1]
ASSUME ScoresAssumption ==
    /\ Rows \in 1..255 /\ Base \in Nat \ {0} /\ Scores \subseteq 0..NoOffer-1
    /\ NameLen \in Nat \ {0} /\ Letters \in Nat \ {0, 1}
    /\ Radix \in Nat /\ Letters <= Radix /\ Word \in Nat
    /\ \A n \in 0..NameLen : Weight[n] <= Word
    /\ \A t \in Tables : IsTable(t) /\ Sorted(t)
    /\ \A seed \in Seeds :
         /\ IsTable(seed.table) /\ Sorted(seed.table)
         /\ seed.score \in Nat /\ seed.name \in [Positions -> 0..Letters]

\* the score is clamped to 0x01ffffff, of which three bytes are stored
highScoreRegister(t, rank, record) ==
    IF rank >= Rows THEN t
    ELSE LET stored == IF record.score >= Limit THEN 2 * Limit - 1 ELSE record.score
         IN  [i \in 0..Rows-1 |->
                IF i < rank THEN t[i]
                ELSE IF i = rank THEN Row(stored, record.name) ELSE t[i-1]]

-----------------------------------------------------------------------------
(* The entry.  A frame's input: the trackball's place and START.           *)
Inputs == [x : Places, y : Places, start : BOOLEAN]

NoEntry == [rank |-> -1]
NoPlace == [x |-> -1, y |-> -1]
EntryForgetful(rank, start) ==         \* mutant: a START that is down is not noted
    [rank |-> rank, cursor |-> 1, last |-> NoPlace, previous |-> FALSE, cool |-> 0]
Entry(rank, start) ==
    [rank |-> rank, cursor |-> 1, last |-> NoPlace, previous |-> start, cool |-> 0]

normalizeInitial(c) == IF c = Other THEN 1 ELSE c
Normalized(name) == [n \in Positions |-> normalizeInitial(name[n])]

signedByteDelta(now, before) ==
    LET d == (now - before) % Ring IN IF d >= Ring \div 2 THEN d - Ring ELSE d
Size(d) == IF d < 0 THEN -d ELSE d

changeInitial(name, cursor, direction) ==
    [name EXCEPT ![cursor] = (normalizeInitial(@) + direction) % Letters]
moveCursor(cursor, direction) == 1 + ((cursor - 1 + direction) % NameLen)

(* What the trackball does: an up or down movement turns the letter, a     *)
(* movement to the side moves the cursor.                                  *)
Moved(e, name, in) ==
    LET dx == signedByteDelta(in.x, e.last.x)
        dy == signedByteDelta(in.y, e.last.y)
        seen == [e EXCEPT !.last = [x |-> in.x, y |-> in.y]]
    IN  IF e.last = NoPlace THEN [entry |-> seen, name |-> name]
        ELSE IF e.cool > 0 THEN [entry |-> [seen EXCEPT !.cool = @ - 1], name |-> name]
        ELSE IF Size(dx) < Threshold /\ Size(dy) < Threshold THEN [entry |-> seen, name |-> name]
        ELSE LET moved == [seen EXCEPT !.cool = Cooldown]
             IN  IF Size(dy) >= Size(dx)
                 THEN [entry |-> moved,
                       name  |-> changeInitial(name, e.cursor, IF dy > 0 THEN 1 ELSE -1)]
                 ELSE [entry |-> [moved EXCEPT !.cursor = moveCursor(@, IF dx < 0 THEN 1 ELSE -1)],
                       name  |-> name]

(* A frame of the entry e over the table t and the record r.               *)
advanceHighScoreInitialsEntry(e, t, r, in) ==
    LET m      == Moved(e, r.name, in)
        record == [r EXCEPT !.name = m.name]
        pressed == in.start /\ ~e.previous
    IN  /\ slot'  = record
        /\ table' = IF pressed THEN highScoreRegister(t, e.rank, record) ELSE t
        /\ entry' = IF pressed THEN NoEntry ELSE [m.entry EXCEPT !.previous = in.start]
        /\ up'    = (~pressed /\ (up \/ ~in.start))

-----------------------------------------------------------------------------

Init ==
    /\ table \in Tables
    /\ slot = [score |-> 0, name |-> [n \in Positions |-> Other]]
    /\ entry = NoEntry
    /\ cut = FALSE /\ up = FALSE

(* A game ends: case3 ranks its score.  The entry has its first frame in   *)
(* the frame in which it begins.                                           *)
GameOver ==
    /\ entry = NoEntry
    /\ \E score \in Scores, in \in Inputs :
         LET record == [slot EXCEPT !.score = score]
             rank   == Byte(keyRankLookup(score))
         IN  IF rank = Rows
             THEN slot' = record /\ UNCHANGED <<table, entry, up>>
             ELSE advanceHighScoreInitialsEntry(Entry(rank, in.start), table,
                    [record EXCEPT !.name = Normalized(@)], in)
    /\ UNCHANGED cut

EntryFrame ==
    /\ entry # NoEntry
    /\ \E in \in Inputs : advanceHighScoreInitialsEntry(entry, table, slot, in)
    /\ UNCHANGED cut

(* The START of the coin flow, in a frame whose input has it or no longer. *)
CoinStart ==
    \E seed \in Seeds :
        /\ IF entry = NoEntry
           THEN /\ table' = seed.table /\ slot' = [score |-> seed.score, name |-> seed.name]
                /\ UNCHANGED <<entry, up>>
           ELSE \E in \in Inputs : 
                  advanceHighScoreInitialsEntry(entry, seed.table,
                      [score |-> seed.score, name |-> seed.name], in)
        /\ cut' = (cut \/ entry # NoEntry)

Next == GameOver \/ EntryFrame \/ CoinStart
Spec == Init /\ [][Next]_vars

-----------------------------------------------------------------------------

(* The table shows the best records entered, each with the score of its    *)
(* game and the initials of its player, in order, the older of two equal   *)
(* scores first: the rank found at the end of the game still fits when the *)
(* player presses START.  (A game loaded over an entry breaks it: the      *)
(* record of the loaded game goes into the loaded table at the old rank.)  *)
Shown(t) == [i \in 1..Rows |-> Decoded(t[i-1])]
Offered == IF entry = NoEntry THEN NoOffer ELSE slot.score
List == INSTANCE HighScoreList WITH
            list <- Shown(table), offer <- Offered, Names <- Name,
            Loads <- {Shown(seed.table) : seed \in Seeds}
TableIsTopList == List!Init /\ [][cut' \/ List!Next]_<<Shown(table), Offered>>

(* Nothing done before the entry counts in it: the START that is down when *)
(* the game ends does not sign, nor does the way the trackball has come    *)
(* turn a letter.                                                          *)
EntryStartsFresh ==
    [][ ~cut' =>
          /\ entry # NoEntry /\ entry' = NoEntry => up
          /\ entry = NoEntry /\ table' # table => table' \in {seed.table : seed \in Seeds}
          /\ entry = NoEntry /\ entry' # NoEntry =>
               slot'.name = Normalized(slot.name) /\ entry'.cursor = 1 ]_vars
=============================================================================
