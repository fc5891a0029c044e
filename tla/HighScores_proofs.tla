------------------------- MODULE HighScores_proofs -------------------------
(***************************************************************************)
(* Theorems about the high scores, for any number of rows, any trackball   *)
(* and any scores: the place found when the game ends is the right one and *)
(* stays it, so the table stays in order; a record read back is the one    *)
(* packed, for any alphabet that fits its word; and the table a player     *)
(* sees is the abstract list of the best, HighScoreList.                   *)
(***************************************************************************)
EXTENDS HighScores, WellFoundedInduction, TLAPS

LEMMA Sizes == Rows \in 1..255 /\ Base \in Nat \ {0}
  BY ScoresAssumption
USE Sizes

-----------------------------------------------------------------------------
(* Keys: the first column that differs decides, an order of the keys.      *)

LEMMA BelowIs ==
    ASSUME NEW k, NEW l
    PROVE  Below(k, l) <=> \/ k[1] < l[1]
                           \/ k[1] = l[1] /\ k[2] < l[2]
                           \/ k[1] = l[1] /\ k[2] = l[2] /\ k[3] < l[3]
<1>1. 1..3 = {1, 2, 3} /\ 1..1-1 = {} /\ 1..2-1 = {1} /\ 1..3-1 = {1, 2}
  OBVIOUS
<1> QED BY <1>1 DEF Below

LEMMA BelowIsAnOrder ==
    ASSUME NEW k \in Key, NEW l \in Key, NEW m \in Key
    PROVE  /\ ~Below(k, k)
           /\ Below(k, l) /\ Below(l, m) => Below(k, m)
  BY BelowIs DEF Key, Columns

LEMMA KeyOfIsKey ==
    ASSUME NEW score \in Nat
    PROVE  KeyOf(score) \in Key
<1> DEFINE high == score \div (Base * Base)
           mid  == score \div Base
<1>1. Base * Base \in Nat \ {0}
  OBVIOUS
<1>2. high \in Nat /\ mid \in Nat
  BY <1>1
<1>3. \A n \in Nat : n % Base \in Columns
  BY DEF Columns
<1> HIDE DEF high, mid
<1>4. KeyOf(score) = <<high % Base, mid % Base, score % Base>>
  BY DEF KeyOf, high, mid
<1> QED BY <1>2, <1>3, <1>4 DEF Key

-----------------------------------------------------------------------------
(* keyRankLookup.                                                          *)

LEMMA NatLessIsWellFounded == IsWellFoundedOn({p \in Nat \X Nat : p[1] < p[2]}, Nat)
  BY NatLessThanWellFounded DEF OpToRel

LEMMA MinIsLeast ==
    ASSUME NEW S \in SUBSET Nat, S # {}
    PROVE  Min(S) \in S /\ \A n \in S : Min(S) <= n
<1> DEFINE Less == {p \in Nat \X Nat : p[1] < p[2]}
<1>1. \A n, m \in Nat : n < m => <<n, m>> \in Less
  OBVIOUS
<1>2. IsWellFoundedOn(Less, Nat)
  BY NatLessIsWellFounded
<1> HIDE DEF Less
<1>3. PICK least \in S : \A n \in S : <<n, least>> \notin Less
  BY <1>2, WFMin
<1>4. \A n \in S : n \in Nat /\ least \in Nat /\ ~(n < least)
  BY <1>1, <1>3
<1>5. \A n \in S : least <= n
  BY <1>4
<1> QED BY <1>5 DEF Min

(* keyRankLookup finds the first row below a score: no row before it is,   *)
(* none at all if it says Rows, and -1 is for the scores no key can hold.  *)
THEOREM RankIsPlace ==
    ASSUME NEW score \in Nat
    PROVE  /\ score >= Limit => keyRankLookup(score) = -1
           /\ score < Limit =>
                /\ keyRankLookup(score) \in 0..Rows
                /\ \A i \in 0..keyRankLookup(score)-1 : ~Below(table[i].key, KeyOf(score))
                /\ keyRankLookup(score) < Rows =>
                     Below(table[keyRankLookup(score)].key, KeyOf(score))
<1> DEFINE rows == RowsBelow(score)
           rank == keyRankLookup(score)
<1>1. Limit \in Nat
  BY DEF Limit
<1>2. CASE score >= Limit
  BY <1>1, <1>2 DEF keyRankLookup
<1>3. CASE score < Limit /\ rows = {}
  <2>1. rank = Rows
    BY <1>1, <1>3 DEF keyRankLookup
  <2> QED BY <1>1, <1>3, <2>1 DEF RowsBelow
<1>4. CASE score < Limit /\ rows # {}
  <2>1. rank = Min(rows)
    BY <1>1, <1>4 DEF keyRankLookup
  <2>2. rows \subseteq 0..Rows-1
    BY DEF RowsBelow
  <2>3. rank \in rows /\ \A n \in rows : rank <= n
    <3>1. rows \in SUBSET Nat
      BY <2>2
    <3> QED BY <1>4, <2>1, <3>1, MinIsLeast
  <2>4. \A i \in 0..rank-1 : i \notin rows /\ i \in 0..Rows-1
    BY <2>2, <2>3
  <2> HIDE DEF rank
  <2>5. \A i \in 0..rank-1 : ~Below(table[i].key, KeyOf(score))
    BY <2>4 DEF RowsBelow
  <2>6. Below(table[rank].key, KeyOf(score))
    BY <2>3 DEF RowsBelow
  <2> QED BY <1>1, <1>4, <2>2, <2>3, <2>5, <2>6 DEF rank
<1> QED BY <1>1, <1>2, <1>3, <1>4

-----------------------------------------------------------------------------
(* highScoreRegister.                                                      *)

LEMMA Inserted ==
    ASSUME NEW t, IsTable(t), NEW rank \in 0..Rows-1, NEW row, row.key \in Key
    PROVE  LET u == [i \in 0..Rows-1 |-> IF i < rank THEN t[i] ELSE IF i = rank THEN row ELSE t[i-1]]
           IN  /\ IsTable(u)
               /\ /\ Sorted(t) /\ Below(t[rank].key, row.key)
                  /\ \A i \in 0..rank-1 : ~Below(t[i].key, row.key)
                  => Sorted(u)
<1> DEFINE u == [i \in 0..Rows-1 |-> IF i < rank THEN t[i] ELSE IF i = rank THEN row ELSE t[i-1]]
<1>k. \A i \in 0..Rows-1 : t[i].key \in Key
  BY DEF IsTable
<1>1. /\ \A i \in 0..Rows-1 : i < rank => u[i] = t[i]
      /\ u[rank] = row
      /\ \A i \in 0..Rows-1 : i > rank => u[i] = t[i-1] /\ i-1 \in 0..Rows-1
  OBVIOUS
<1>2. u = [i \in 0..Rows-1 |-> u[i]]
  OBVIOUS
<1> HIDE DEF u
<1>3. \A i \in 0..Rows-1 : u[i].key \in Key
  <2> TAKE i \in 0..Rows-1
  <2>1. i < rank \/ i = rank \/ i > rank
    OBVIOUS
  <2> QED BY <2>1, <1>k, <1>1
<1>4. ASSUME Sorted(t), Below(t[rank].key, row.key),
             \A i \in 0..rank-1 : ~Below(t[i].key, row.key),
             NEW i \in 0..Rows-1, NEW j \in 0..Rows-1, i < j
      PROVE  ~Below(u[i].key, u[j].key)
  <2>1. CASE j < rank
    BY <1>1, <1>4, <2>1 DEF Sorted
  <2>2. CASE j = rank
    BY <1>1, <1>4, <2>2
  <2>3. CASE j > rank /\ i = rank
    <3>1. j-1 \in 0..Rows-1 /\ u[i] = row /\ u[j] = t[j-1]
      BY <1>1, <2>3
    <3>2. ~Below(t[rank].key, t[j-1].key)
      <4>1. CASE j-1 = rank
        BY <1>k, <4>1, BelowIsAnOrder
      <4>2. CASE j-1 > rank
        BY <1>4, <3>1, <4>2 DEF Sorted
      <4> QED BY <2>3, <3>1, <4>1, <4>2
    <3> QED BY <1>k, <1>4, <3>1, <3>2, BelowIsAnOrder
  <2>4. CASE j > rank /\ i < rank
    <3>1. u[i] = t[i] /\ u[j] = t[j-1] /\ j-1 \in 0..Rows-1 /\ i < j-1
      BY <1>1, <2>4
    <3> QED BY <1>4, <3>1 DEF Sorted
  <2>5. CASE j > rank /\ i > rank
    <3>1. u[i] = t[i-1] /\ u[j] = t[j-1] /\ i-1 \in 0..Rows-1 /\ j-1 \in 0..Rows-1 /\ i-1 < j-1
      BY <1>1, <1>4, <2>5
    <3> QED BY <1>4, <3>1 DEF Sorted
  <2> QED BY <2>1, <2>2, <2>3, <2>4, <2>5
<1>5. IsTable(u)
  BY <1>2, <1>3 DEF IsTable
<1> QED BY <1>4, <1>5 DEF Sorted, u

LEMMA Registered ==
    ASSUME NEW t, IsTable(t), NEW rank \in 0..255, NEW record, record.score \in Nat
    PROVE  LET u == highScoreRegister(t, rank, record)
           IN  /\ IsTable(u)
               /\ rank >= Rows => u = t
               /\ /\ record.score < Limit /\ rank < Rows
                  /\ Sorted(t) /\ Below(t[rank].key, KeyOf(record.score))
                  /\ \A i \in 0..rank-1 : ~Below(t[i].key, KeyOf(record.score))
                  => Sorted(u)
<1> DEFINE u == highScoreRegister(t, rank, record)
           stored == IF record.score >= Limit THEN 2 * Limit - 1 ELSE record.score
           row == Row(stored, record.name)
           inserted == [i \in 0..Rows-1 |->
                          IF i < rank THEN t[i] ELSE IF i = rank THEN row ELSE t[i-1]]
<1>1. Limit \in Nat \ {0}
  BY DEF Limit
<1>2. stored \in Nat /\ (record.score < Limit => stored = record.score)
  BY <1>1
<1>3. row.key = KeyOf(stored)
  BY DEF Row
<1>4. row.key \in Key
  BY <1>2, <1>3, KeyOfIsKey
<1>5. CASE rank >= Rows
  BY <1>5 DEF highScoreRegister
<1>6. CASE rank < Rows
  <2>0. ~(rank >= Rows)
    BY <1>6
  <2>1. u = inserted
    BY <2>0, Zenon DEF highScoreRegister
  <2>2. rank \in 0..Rows-1
    BY <1>6
  <2> HIDE DEF row, stored, u
  <2>3. /\ IsTable(inserted)
        /\ /\ Sorted(t) /\ Below(t[rank].key, row.key)
           /\ \A i \in 0..rank-1 : ~Below(t[i].key, row.key)
           => Sorted(inserted)
    BY <1>4, <2>2, Inserted
  <2> HIDE DEF inserted
  <2>4. rank >= Rows => u = t
    BY <1>6
  <2> QED BY <1>2, <1>3, <2>1, <2>3, <2>4 DEF u
<1> QED BY <1>5, <1>6

-----------------------------------------------------------------------------
(* The invariant.  The table stays a table; an entry that waits has the    *)
(* place its score has in the table as it stands, unless a game was loaded *)
(* over an entry; and a START that may sign it came up before.             *)

Fields == {"rank", "cursor", "last", "previous", "cool"}
Waits(e) == e = [x \in Fields |-> e[x]] /\ e.rank \in 0..255 /\ e.previous \in BOOLEAN
IsRecord(r) == r = [x \in {"score", "name"} |-> r[x]] /\ r.score \in Nat

TableInOrder == cut \/ Sorted(table)
RankIsRight ==
    ~cut /\ entry # NoEntry =>
        entry.rank = Byte(keyRankLookup(slot.score)) /\ entry.rank # Rows

IInv ==
    /\ cut \in BOOLEAN /\ up \in BOOLEAN
    /\ IsTable(table) /\ IsRecord(slot)
    /\ entry = NoEntry \/ Waits(entry)
    /\ entry # NoEntry => entry.previous \/ up
    /\ TableInOrder
    /\ RankIsRight

LEMMA WaitsIsEntry == \A e : Waits(e) => e # NoEntry
<1> SUFFICES ASSUME NEW e, Waits(e), e = NoEntry PROVE FALSE
  OBVIOUS
<1>1. e.rank = -1
  BY DEF NoEntry
<1> QED BY <1>1 DEF Waits

LEMMA ByteIsByte == \A n \in Int : Byte(n) \in 0..255
  BY DEF Byte

LEMMA KeptByte == Byte(-1) = 255 /\ \A n \in 0..Rows : Byte(n) = n
<1>1. \A n \in 0..255 : n % 256 = n
  OBVIOUS
<1> DEFINE minus == -1
<1>2. minus \in Int /\ minus + 1 = 0
  OBVIOUS
<1> HIDE DEF minus
<1>3. minus % 256 = 255
  BY <1>2
<1> QED BY <1>1, <1>3 DEF Byte, minus

(* What the trackball does leaves rank and START alone, and the first      *)
(* frame of an entry turns no letter.                                      *)
LEMMA MovedKeeps ==
    ASSUME NEW e, Waits(e), NEW name, NEW in
    PROVE  LET m == Moved(e, name, in)
           IN  /\ Waits(m.entry) /\ m.entry.rank = e.rank /\ m.entry.previous = e.previous
               /\ e.last = NoPlace => m.name = name /\ m.entry.cursor = e.cursor
<1> DEFINE seen == [e EXCEPT !.last = [x |-> in.x, y |-> in.y]]
           Alike(f) == Waits(f) /\ f.rank = e.rank /\ f.previous = e.previous
<1>1. Alike(seen) /\ seen.cursor = e.cursor
  BY DEF Waits, Fields
<1>2. \A c : Alike([seen EXCEPT !.cool = c])
  BY DEF Waits, Fields
<1>3. \A c, d : Alike([[seen EXCEPT !.cool = c] EXCEPT !.cursor = d])
  BY DEF Waits, Fields
<1> DEFINE m == Moved(e, name, in)
<1> DEFINE dx == signedByteDelta(in.x, e.last.x)
           dy == signedByteDelta(in.y, e.last.y)
           small == Size(dx) < Threshold /\ Size(dy) < Threshold
           moved == [seen EXCEPT !.cool = Cooldown]
           turned == moveCursor(moved.cursor, IF dx < 0 THEN 1 ELSE -1)
<1>4. /\ e.last = NoPlace => m.entry = seen /\ m.name = name
      /\ e.last # NoPlace /\ e.cool > 0 => m.entry = [seen EXCEPT !.cool = seen.cool - 1]
      /\ e.last # NoPlace /\ ~(e.cool > 0) /\ small => m.entry = seen
      /\ e.last # NoPlace /\ ~(e.cool > 0) /\ ~small =>
           m.entry = IF Size(dy) >= Size(dx) THEN moved ELSE [moved EXCEPT !.cursor = turned]
  BY Zenon DEF Moved
<1> HIDE DEF m
<1>5. Alike(m.entry)
  <2> HIDE DEF seen, dx, dy, small, turned
  <2>1. CASE e.last = NoPlace \/ (~(e.cool > 0) /\ small)
    BY <1>1, <1>4, <2>1
  <2>2. CASE e.last # NoPlace /\ e.cool > 0
    BY <1>2, <1>4, <2>2
  <2>3. CASE e.last # NoPlace /\ ~(e.cool > 0) /\ ~small
    <3>1. m.entry = moved \/ m.entry = [moved EXCEPT !.cursor = turned]
      BY <1>4, <2>3
    <3>2. Alike(moved) /\ Alike([moved EXCEPT !.cursor = turned])
      BY <1>2, <1>3
    <3> HIDE DEF moved
    <3> QED BY <3>1, <3>2
  <2> QED BY <2>1, <2>2, <2>3
<1> QED BY <1>1, <1>4, <1>5 DEF m

(* A frame of an entry: START signs it only if it was up in the frame      *)
(* before, and only the signature writes the table.                        *)
LEMMA Advanced ==
    ASSUME NEW e, Waits(e), NEW t, NEW r, IsRecord(r), NEW in \in Inputs, up \in BOOLEAN,
           advanceHighScoreInitialsEntry(e, t, r, in)
    PROVE  /\ up' \in BOOLEAN /\ IsRecord(slot') /\ slot'.score = r.score
           /\ in.start /\ ~e.previous =>
                entry' = NoEntry /\ table' = highScoreRegister(t, e.rank, slot')
           /\ ~(in.start /\ ~e.previous) =>
                /\ Waits(entry') /\ entry'.rank = e.rank /\ entry'.previous = in.start
                /\ table' = t
                /\ up' = (up \/ ~in.start)
                /\ e.last = NoPlace => slot'.name = r.name /\ entry'.cursor = e.cursor
<1> DEFINE m == Moved(e, r.name, in)
           pressed == in.start /\ ~e.previous
<1>1. Waits(m.entry) /\ m.entry.rank = e.rank
      /\ (e.last = NoPlace => m.name = r.name /\ m.entry.cursor = e.cursor)
  BY MovedKeeps
<1>2. in.start \in BOOLEAN
  BY DEF Inputs
<1>3. /\ slot' = [r EXCEPT !.name = m.name]
      /\ table' = IF pressed THEN highScoreRegister(t, e.rank, slot') ELSE t
      /\ entry' = IF pressed THEN NoEntry ELSE [m.entry EXCEPT !.previous = in.start]
      /\ up' = (~pressed /\ (up \/ ~in.start))
  BY DEF advanceHighScoreInitialsEntry
<1> HIDE DEF m
<1>4. IsRecord(slot') /\ slot'.score = r.score /\ slot'.name = m.name
  BY <1>3 DEF IsRecord
<1>5. LET f == [m.entry EXCEPT !.previous = in.start]
      IN  Waits(f) /\ f.rank = m.entry.rank /\ f.previous = in.start /\ f.cursor = m.entry.cursor
  BY <1>1, <1>2 DEF Waits, Fields
<1>6. up' \in BOOLEAN
  BY <1>3
<1>7. CASE pressed
  BY <1>3, <1>4, <1>6, <1>7
<1>8. CASE ~pressed
  BY <1>1, <1>3, <1>4, <1>5, <1>6, <1>8
<1> QED BY <1>7, <1>8

-----------------------------------------------------------------------------

LEMMA IInvInit == Init => IInv
<1> SUFFICES ASSUME Init PROVE IInv
  OBVIOUS
<1>1. IsTable(table) /\ Sorted(table)
  BY ScoresAssumption DEF Init
<1>2. IsRecord(slot)
  BY DEF Init, IsRecord
<1> QED BY <1>1, <1>2 DEF Init, IInv, TableInOrder, RankIsRight

(* The place found is the one that keeps the table in order, whoever signs *)
(* it: the table did not change since, nor did the score.                  *)
LEMMA SignedKeepsOrder ==
    ASSUME IsTable(table), Sorted(table), NEW rank \in 0..255, NEW record,
           record.score \in Nat, rank = Byte(keyRankLookup(record.score)), rank # Rows
    PROVE  Sorted(highScoreRegister(table, rank, record))
<1>1. CASE record.score >= Limit
  <2>1. rank = 255
    BY <1>1, RankIsPlace, KeptByte
  <2>2. rank >= Rows
    BY <2>1
  <2>3. highScoreRegister(table, rank, record) = table
    BY <2>2, Registered
  <2> QED BY <2>3
<1>2. CASE record.score < Limit
  <2>1. /\ keyRankLookup(record.score) \in 0..Rows
        /\ \A i \in 0..keyRankLookup(record.score)-1 :
             ~Below(table[i].key, KeyOf(record.score))
        /\ keyRankLookup(record.score) < Rows =>
             Below(table[keyRankLookup(record.score)].key, KeyOf(record.score))
    BY <1>2, RankIsPlace
  <2>2. rank = keyRankLookup(record.score) /\ rank < Rows
    BY <2>1, KeptByte
  <2> QED BY <1>2, <2>1, <2>2, Registered
<1>3. Limit \in Nat
  BY DEF Limit
<1> QED BY <1>1, <1>2, <1>3

RankIn(t, score) ==
    LET rows == {i \in 0..Rows-1 : Below(t[i].key, KeyOf(score))}
    IN  IF score >= Limit THEN -1 ELSE IF rows = {} THEN Rows ELSE Min(rows)

LEMMA RankNow == \A score : keyRankLookup(score) = RankIn(table, score)
  BY Zenon DEF keyRankLookup, RowsBelow, RankIn

LEMMA RankNext ==
    RankIsRight' <=>
      (~cut' /\ entry' # NoEntry =>
         entry'.rank = Byte(RankIn(table', slot'.score)) /\ entry'.rank # Rows)
  BY Zenon DEF RankIsRight, keyRankLookup, RowsBelow, RankIn, NoEntry

(* A frame of an entry keeps the invariant, be it of the game that ended   *)
(* or of one loaded over it.                                               *)
LEMMA AdvanceKeeps ==
    ASSUME NEW e, Waits(e), NEW t, IsTable(t), NEW r, IsRecord(r), NEW in \in Inputs,
           up \in BOOLEAN, cut' \in BOOLEAN,
           advanceHighScoreInitialsEntry(e, t, r, in),
           e.previous \/ up \/ e.previous = in.start,
           ~cut' => /\ t = table /\ Sorted(table)
                    /\ e.rank = Byte(keyRankLookup(r.score)) /\ e.rank # Rows
    PROVE  IInv'
<1> DEFINE pressed == in.start /\ ~e.previous
<1>r. e.rank \in 0..255 /\ e.previous \in BOOLEAN /\ in.start \in BOOLEAN
  BY DEF Waits, Inputs
<1>1. up' \in BOOLEAN /\ IsRecord(slot') /\ slot'.score = r.score /\ slot'.score \in Nat
  BY Advanced DEF IsRecord
<1>2. CASE pressed
  <2>1. entry' = NoEntry /\ table' = highScoreRegister(t, e.rank, slot')
    BY <1>2, Advanced
  <2>2. IsTable(table')
    BY <1>1, <1>r, <2>1, Registered
  <2>3. ~cut' => Sorted(table')
    BY <1>1, <1>r, <2>1, SignedKeepsOrder
  <2> QED BY <1>1, <2>1, <2>2, <2>3 DEF IInv, TableInOrder, RankIsRight
<1>3. CASE ~pressed
  <2>1. /\ Waits(entry') /\ entry'.rank = e.rank /\ entry'.previous = in.start
        /\ table' = t /\ up' = (up \/ ~in.start)
    BY <1>3, Advanced
  <2>2. entry'.previous \/ up'
    BY <1>r, <2>1
  <2>3. ~cut' => /\ Sorted(table')
                 /\ entry'.rank = Byte(RankIn(table', slot'.score)) /\ entry'.rank # Rows
    BY <1>1, <2>1, RankNow
  <2>4. RankIsRight'
    BY <2>3, RankNext
  <2> QED BY <1>1, <2>1, <2>2, <2>3, <2>4 DEF IInv, TableInOrder
<1> QED BY <1>2, <1>3

(* A game that ends: the record ranked, and what its entry begins with.    *)
RankOf(score) == Byte(keyRankLookup(score))
Ranked(score) == [slot EXCEPT !.score = score]
Named(score) == [Ranked(score) EXCEPT !.name = Normalized(@)]
Begun(score, start) == Entry(RankOf(score), start)

LEMMA GameEnds ==
    ASSUME GameOver
    PROVE  /\ entry = NoEntry /\ cut' = cut
           /\ \E score \in Scores, in \in Inputs :
                \/ /\ RankOf(score) = Rows
                   /\ slot' = Ranked(score) /\ UNCHANGED <<table, entry, up>>
                \/ /\ RankOf(score) # Rows
                   /\ advanceHighScoreInitialsEntry(Begun(score, in.start), table, Named(score), in)
  BY Zenon DEF GameOver, RankOf, Ranked, Named, Begun

LEMMA EntryBegins ==
    ASSUME IsRecord(slot), NEW score \in Scores, NEW start \in BOOLEAN
    PROVE  /\ IsRecord(Ranked(score)) /\ Ranked(score).score = score
           /\ Ranked(score).name = slot.name
           /\ RankOf(score) \in 0..255
           /\ Waits(Begun(score, start)) /\ Begun(score, start).rank = RankOf(score)
           /\ Begun(score, start).previous = start
           /\ Begun(score, start).last = NoPlace /\ Begun(score, start).cursor = 1
           /\ IsRecord(Named(score)) /\ Named(score).score = score
           /\ Named(score).name = Normalized(slot.name)
<1>1. score \in Nat
  BY ScoresAssumption
<1>2. /\ IsRecord(Ranked(score)) /\ Ranked(score).score = score
      /\ Ranked(score).name = slot.name
  BY <1>1 DEF IsRecord, Ranked
<1>3. /\ IsRecord(Named(score)) /\ Named(score).score = score
      /\ Named(score).name = Normalized(slot.name)
  BY <1>1, <1>2 DEF IsRecord, Named
<1>4. keyRankLookup(score) \in Int
  <2>1. Limit \in Nat
    BY DEF Limit
  <2> QED BY <1>1, <2>1, RankIsPlace
<1>5. RankOf(score) \in 0..255
  BY <1>4, ByteIsByte DEF RankOf
<1>6. \A rank \in 0..255 :
        LET e == Entry(rank, start)
        IN  Waits(e) /\ e.rank = rank /\ e.previous = start /\ e.last = NoPlace /\ e.cursor = 1
  BY DEF Entry, Waits, Fields
<1> QED BY <1>2, <1>3, <1>5, <1>6 DEF Begun

LEMMA IInvInductive == IInv /\ [Next]_vars => IInv'
<1> SUFFICES ASSUME IInv, [Next]_vars PROVE IInv'
  OBVIOUS
<1>t. /\ cut \in BOOLEAN /\ up \in BOOLEAN /\ IsTable(table) /\ IsRecord(slot)
      /\ entry = NoEntry \/ Waits(entry)
      /\ entry # NoEntry => entry.previous \/ up
      /\ ~cut => Sorted(table)
  BY DEF IInv, TableInOrder
<1>1. CASE UNCHANGED vars
  <2>1. RankIsRight'
    BY <1>1, RankNow, RankNext DEF IInv, vars, RankIsRight
  <2> QED BY <1>1, <2>1 DEF IInv, vars, TableInOrder
<1>2. CASE GameOver
  <2>1. PICK score \in Scores, in \in Inputs :
          \/ /\ RankOf(score) = Rows
             /\ slot' = Ranked(score) /\ UNCHANGED <<table, entry, up>>
          \/ /\ RankOf(score) # Rows
             /\ advanceHighScoreInitialsEntry(Begun(score, in.start), table, Named(score), in)
    BY <1>2, GameEnds
  <2>2. entry = NoEntry /\ cut' = cut /\ in.start \in BOOLEAN
    BY <1>2, GameEnds DEF Inputs
  <2> DEFINE e == Begun(score, in.start)
             r == Named(score)
  <2>3. /\ IsRecord(Ranked(score)) /\ RankOf(score) \in 0..255
        /\ Waits(e) /\ e.rank = RankOf(score) /\ e.previous = in.start
        /\ IsRecord(r) /\ r.score = score
    BY <1>t, <2>2, EntryBegins
  <2>4. CASE RankOf(score) = Rows
    <3>1. slot' = Ranked(score) /\ UNCHANGED <<table, entry, up, cut>>
      BY <2>1, <2>2, <2>4
    <3> QED BY <1>t, <2>2, <2>3, <3>1 DEF IInv, TableInOrder, RankIsRight
  <2>5. CASE RankOf(score) # Rows
    <3>1. advanceHighScoreInitialsEntry(e, table, r, in)
      BY <2>1, <2>5
    <3>2. e.rank = Byte(keyRankLookup(r.score)) /\ e.rank # Rows
      BY <2>3, <2>5 DEF RankOf
    <3> HIDE DEF e, r
    <3> QED BY <1>t, <2>2, <2>3, <3>1, <3>2, AdvanceKeeps
  <2> QED BY <2>4, <2>5
<1>3. CASE EntryFrame
  <2>1. PICK in \in Inputs : advanceHighScoreInitialsEntry(entry, table, slot, in)
    BY <1>3 DEF EntryFrame
  <2>2. entry # NoEntry /\ cut' = cut
    BY <1>3 DEF EntryFrame
  <2>3. ~cut' => entry.rank = Byte(keyRankLookup(slot.score)) /\ entry.rank # Rows
    BY <2>2 DEF IInv, RankIsRight
  <2> QED BY <1>t, <2>1, <2>2, <2>3, AdvanceKeeps
<1>4. CASE CoinStart
  <2>1. PICK seed \in Seeds :
          /\ IF entry = NoEntry
             THEN /\ table' = seed.table /\ slot' = [score |-> seed.score, name |-> seed.name]
                  /\ UNCHANGED <<entry, up>>
             ELSE \E in \in Inputs :
                    advanceHighScoreInitialsEntry(entry, seed.table,
                        [score |-> seed.score, name |-> seed.name], in)
          /\ cut' = (cut \/ entry # NoEntry)
    BY <1>4 DEF CoinStart
  <2>2. /\ IsTable(seed.table) /\ Sorted(seed.table)
        /\ IsRecord([score |-> seed.score, name |-> seed.name])
    BY ScoresAssumption DEF IsRecord
  <2>3. CASE entry = NoEntry
    <3>1. /\ table' = seed.table /\ slot' = [score |-> seed.score, name |-> seed.name]
          /\ entry' = entry /\ up' = up /\ cut' = cut
      BY <1>t, <2>1, <2>3
    <3> QED BY <1>t, <2>2, <2>3, <3>1 DEF IInv, TableInOrder, RankIsRight
  <2>4. CASE entry # NoEntry
    <3>1. PICK in \in Inputs :
            advanceHighScoreInitialsEntry(entry, seed.table,
                [score |-> seed.score, name |-> seed.name], in)
      BY <2>1, <2>4
    <3>2. cut' = TRUE
      BY <2>1, <2>4
    <3> QED BY <1>t, <2>2, <2>4, <3>1, <3>2, AdvanceKeeps
  <2> QED BY <2>3, <2>4
<1> QED BY <1>1, <1>2, <1>3, <1>4 DEF Next

LEMMA IInvAlways == Spec => []IInv
  BY IInvInit, IInvInductive, PTL DEF Spec

(* The scores are shown in order, the older of two equal ones first,       *)
(* however many games end and coin starts come, until a game is loaded     *)
(* over an entry (highScoreRegister428E, keyRankLookup4686).               *)
THEOREM TableAlwaysInOrder == Spec => []TableInOrder
<1>1. IInv => TableInOrder
  BY DEF IInv
<1> QED BY <1>1, IInvAlways, PTL

(* The rank found when the game ended is that of the score for as long as  *)
(* the entry waits (objectSlotLookup11B18 keeps it, frames go by).         *)
THEOREM RankAlwaysRight == Spec => []RankIsRight
<1>1. IInv => RankIsRight
  BY DEF IInv
<1> QED BY <1>1, IInvAlways, PTL

(* EntryStartsFresh for any trackball, threshold and number of letters.    *)
THEOREM EntryAlwaysStartsFresh == Spec => EntryStartsFresh
<1> DEFINE Fresh == ~cut' =>
      /\ entry # NoEntry /\ entry' = NoEntry => up
      /\ entry = NoEntry /\ table' # table => table' \in {seed.table : seed \in Seeds}
      /\ entry = NoEntry /\ entry' # NoEntry =>
           slot'.name = Normalized(slot.name) /\ entry'.cursor = 1
<1>1. ASSUME IInv, Next PROVE Fresh
  <2>t. /\ up \in BOOLEAN /\ IsTable(table) /\ IsRecord(slot)
        /\ entry = NoEntry \/ Waits(entry)
        /\ entry # NoEntry => entry.previous \/ up
    BY <1>1 DEF IInv
  <2>1. CASE GameOver
    <3>1. PICK score \in Scores, in \in Inputs :
            \/ /\ RankOf(score) = Rows
               /\ slot' = Ranked(score) /\ UNCHANGED <<table, entry, up>>
            \/ /\ RankOf(score) # Rows
               /\ advanceHighScoreInitialsEntry(Begun(score, in.start), table, Named(score), in)
      BY <2>1, GameEnds
    <3>2. entry = NoEntry /\ in.start \in BOOLEAN
      BY <2>1, GameEnds DEF Inputs
    <3> DEFINE e == Begun(score, in.start)
               r == Named(score)
    <3>3. /\ Waits(e) /\ e.previous = in.start /\ e.last = NoPlace /\ e.cursor = 1
          /\ IsRecord(r) /\ r.name = Normalized(slot.name)
      BY <2>t, <3>2, EntryBegins
    <3>4. CASE RankOf(score) = Rows
      <4>1. UNCHANGED <<table, entry>>
        BY <3>1, <3>4
      <4> QED BY <3>2, <4>1
    <3>5. CASE RankOf(score) # Rows
      <4>1. advanceHighScoreInitialsEntry(e, table, r, in)
        BY <3>1, <3>5
      <4> HIDE DEF e, r
      <4>2. table' = table /\ slot'.name = r.name /\ entry'.cursor = e.cursor
        BY <2>t, <3>2, <3>3, <4>1, Advanced
      <4> QED BY <3>2, <3>3, <4>2
    <3> QED BY <3>4, <3>5
  <2>2. CASE EntryFrame
    <3>1. PICK in \in Inputs : advanceHighScoreInitialsEntry(entry, table, slot, in)
      BY <2>2 DEF EntryFrame
    <3>2. entry # NoEntry
      BY <2>2 DEF EntryFrame
    <3>3. entry' = NoEntry => in.start /\ ~entry.previous
      BY <2>t, <3>1, <3>2, Advanced, WaitsIsEntry
    <3> QED BY <2>t, <3>2, <3>3
  <2>3. CASE CoinStart
    BY <2>3 DEF CoinStart
  <2> QED BY <1>1, <2>1, <2>2, <2>3 DEF Next
<1>2. IInv /\ [Next]_vars => [Fresh]_vars
  BY <1>1
<1>3. EntryStartsFresh <=> [][Fresh]_vars
  BY DEF EntryStartsFresh
<1> QED BY <1>2, <1>3, IInvAlways, PTL DEF Spec

-----------------------------------------------------------------------------
(* Induction over the numbers, from the least counterexample, and with it  *)
(* that a function defined from one number to the next is defined.         *)

LEMMA NoCounterexample ==
    ASSUME NEW S \in SUBSET Nat, 0 \notin S, \A n \in Nat : n + 1 \in S => n \in S
    PROVE  S = {}
<1> SUFFICES ASSUME S # {} PROVE FALSE
  OBVIOUS
<1> DEFINE m == Min(S)
<1>1. m \in S /\ \A n \in S : m <= n
  BY MinIsLeast
<1> HIDE DEF m
<1>2. m \in Nat /\ m # 0
  BY <1>1
<1>3. m - 1 \in Nat /\ (m - 1) + 1 = m
  BY <1>2
<1> QED BY <1>1, <1>3

IsRun(f, a, step, n) == f = [i \in 0..n |-> IF i = 0 THEN a ELSE step[<<f[i-1], i>>]]

LEMMA RunExists ==
    ASSUME NEW T, NEW a \in T, NEW n \in Nat, NEW step \in [T \X (1..n) -> T]
    PROVE  \E f \in [0..n -> T] : IsRun(f, a, step, n)
<1> DEFINE Run(k) == \E f \in [0..k -> T] : IsRun(f, a, step, k)
           S == {k \in 0..n : ~Run(k)}
<1>1. 0 \notin S
  <2>1. IsRun([i \in 0..0 |-> a], a, step, 0)
    BY DEF IsRun
  <2>2. [i \in 0..0 |-> a] \in [0..0 -> T]
    OBVIOUS
  <2> QED BY <2>1, <2>2
<1>2. ASSUME NEW k \in Nat, k + 1 \in S PROVE k \in S
  <2>1. k \in 0..n-1 /\ k \in 0..n /\ k + 1 \in 1..n
    BY <1>2
  <2> SUFFICES ASSUME Run(k) PROVE Run(k + 1)
    BY <1>2, <2>1
  <2>2. PICK f \in [0..k -> T] : IsRun(f, a, step, k)
    OBVIOUS
  <2> DEFINE g == [i \in 0..k+1 |-> IF i <= k THEN f[i] ELSE step[<<f[k], k + 1>>]]
  <2>3. \A i \in 0..k : f[i] = IF i = 0 THEN a ELSE step[<<f[i-1], i>>]
    BY <2>2 DEF IsRun
  <2>4. f[k] \in T /\ step[<<f[k], k + 1>>] \in T
    BY <2>1
  <2>5. g \in [0..k+1 -> T]
    BY <2>4
  <2>6. ASSUME NEW i \in 0..k+1 PROVE g[i] = IF i = 0 THEN a ELSE step[<<g[i-1], i>>]
    <3>1. CASE i \in 0..k
      <4>1. g[i] = f[i] /\ (i # 0 => g[i-1] = f[i-1])
        BY <3>1
      <4> QED BY <2>3, <3>1, <4>1
    <3>2. CASE i = k + 1
      <4>1. g[i] = step[<<f[k], k + 1>>] /\ g[k] = f[k] /\ i - 1 = k /\ i # 0
        BY <3>2
      <4> HIDE DEF g
      <4> QED BY <3>2, <4>1
    <3> QED BY <3>1, <3>2
  <2> HIDE DEF g
  <2>7. IsRun(g, a, step, k + 1)
    BY <2>5, <2>6 DEF IsRun
  <2> QED BY <2>5, <2>7
<1>3. S \in SUBSET Nat /\ n \in 0..n
  OBVIOUS
<1> HIDE DEF S
<1>4. S = {}
  BY <1>1, <1>2, <1>3, NoCounterexample
<1> QED BY <1>3, <1>4 DEF S

-----------------------------------------------------------------------------
(* Division.                                                               *)

LEMMA Quotient ==
    ASSUME NEW m \in Nat \ {0}, NEW q \in Nat, NEW r \in 0..m-1
    PROVE  (q * m + r) \div m = q /\ (q * m + r) % m = r
<1> DEFINE a == q * m + r
           s == a % m
           e == a \div m
<1>1. a = m * e + s /\ s \in 0..m-1 /\ e \in Int
  OBVIOUS
<1>2. m * (e - q) = r - s
  BY <1>1
<1>3. e = q
  <2>1. ASSUME e >= q + 1 PROVE FALSE
    <3>1. m * (e - q) >= m
      BY <1>1, <2>1
    <3> QED BY <1>1, <1>2, <3>1
  <2>2. ASSUME e <= q - 1 PROVE FALSE
    <3>1. m * (e - q) <= -m
      BY <1>1, <2>2
    <3> QED BY <1>1, <1>2, <3>1
  <2> QED BY <1>1, <2>1, <2>2
<1> QED BY <1>2, <1>3

LEMMA Times ==
    ASSUME NEW a \in Nat, NEW b \in Nat, NEW c \in Nat, a <= b
    PROVE  a * c <= b * c /\ a * c \in Nat /\ b * c \in Nat
<1>1. b * c = a * c + (b - a) * c
  OBVIOUS
<1>2. (b - a) * c \in Nat /\ a * c \in Nat /\ b * c \in Nat
  OBVIOUS
<1> QED BY <1>1, <1>2

LEMMA Divided ==
    ASSUME NEW m \in Nat \ {0}, NEW n \in Nat
    PROVE  /\ n \div m \in Nat /\ n % m \in 0..m-1
           /\ n = (n \div m) * m + (n % m)
<1>1. n \div m \in Nat /\ n % m \in 0..m-1
  OBVIOUS
<1>2. n = m * (n \div m) + (n % m)
  OBVIOUS
<1> DEFINE q == n \div m
           r == n % m
<1>3. m * q = q * m
  BY <1>1
<1> QED BY <1>1, <1>2, <1>3

-----------------------------------------------------------------------------
(* The three bytes of a score.                                             *)

LEMMA Digits ==
    ASSUME NEW a \in Nat, NEW b \in Nat, NEW c \in Columns, NEW d \in Columns
    PROVE  a * Base + c < b * Base + d <=> a < b \/ (a = b /\ c < d)
<1>1. c \in 0..Base-1 /\ d \in 0..Base-1
  BY DEF Columns
<1>2. ASSUME a < b PROVE a * Base + c < b * Base + d
  <2>1. b * Base = a * Base + (b - a) * Base
    OBVIOUS
  <2>2. (b - a) * Base >= Base
    BY <1>2
  <2> QED BY <1>1, <2>1, <2>2
<1>3. ASSUME b < a PROVE ~(a * Base + c < b * Base + d)
  <2>1. a * Base = b * Base + (a - b) * Base
    OBVIOUS
  <2>2. (a - b) * Base >= Base
    BY <1>3
  <2> QED BY <1>1, <2>1, <2>2
<1>4. ASSUME a = b PROVE a * Base + c < b * Base + d <=> c < d
  BY <1>1, <1>4
<1> QED BY <1>2, <1>3, <1>4

LEMMA Columned ==
    ASSUME NEW a \in Nat, NEW b \in Nat, NEW c \in Columns, a < b
    PROVE  a * Base + c \in Nat /\ a * Base + c < b * Base /\ b * Base \in Nat
<1>1. a + 1 \in Nat /\ c \in 0..Base-1
  BY DEF Columns
<1>2. (a + 1) * Base <= b * Base /\ (a + 1) * Base \in Nat /\ b * Base \in Nat
  BY <1>1, Times
<1>3. (a + 1) * Base = a * Base + Base /\ a * Base \in Nat
  OBVIOUS
<1> QED BY <1>1, <1>2, <1>3

LEMMA BelowIsLess ==
    ASSUME NEW k \in Key, NEW l \in Key
    PROVE  /\ Value(k) \in 0..Limit-1
           /\ Below(k, l) <=> Value(k) < Value(l)
<1> DEFINE a == k[1] * Base + k[2]
           b == l[1] * Base + l[2]
<1>1. /\ k[1] \in Columns /\ k[2] \in Columns /\ k[3] \in Columns
      /\ l[1] \in Columns /\ l[2] \in Columns /\ l[3] \in Columns
      /\ k[1] \in Nat /\ l[1] \in Nat /\ k[1] < Base /\ l[1] < Base
  BY DEF Key, Columns
<1>2. /\ a \in Nat /\ a < Base * Base
      /\ b \in Nat /\ b < Base * Base /\ Base * Base \in Nat
  BY <1>1, Columned
<1>3. a < b <=> k[1] < l[1] \/ (k[1] = l[1] /\ k[2] < l[2])
  <2> DEFINE k1 == k[1]
             k2 == k[2]
             l1 == l[1]
             l2 == l[2]
  <2>1. k1 \in Nat /\ l1 \in Nat /\ k2 \in Columns /\ l2 \in Columns
    BY <1>1
  <2> HIDE DEF k1, k2, l1, l2
  <2>2. k1 * Base + k2 < l1 * Base + l2 <=> k1 < l1 \/ (k1 = l1 /\ k2 < l2)
    BY <2>1, Digits
  <2> QED BY <2>2 DEF k1, k2, l1, l2
<1>4. b < a <=> l[1] < k[1] \/ (k[1] = l[1] /\ l[2] < k[2])
  <2> DEFINE k1 == k[1]
             k2 == k[2]
             l1 == l[1]
             l2 == l[2]
  <2>1. k1 \in Nat /\ l1 \in Nat /\ k2 \in Columns /\ l2 \in Columns
    BY <1>1
  <2> HIDE DEF k1, k2, l1, l2
  <2>2. l1 * Base + l2 < k1 * Base + k2 <=> l1 < k1 \/ (l1 = k1 /\ l2 < k2)
    BY <2>1, Digits
  <2> QED BY <2>2 DEF k1, k2, l1, l2
<1> HIDE DEF a, b
<1>5. Value(k) < Value(l) <=> a < b \/ (a = b /\ k[3] < l[3])
  <2>1. a * Base + k[3] < b * Base + l[3] <=> a < b \/ (a = b /\ k[3] < l[3])
    BY <1>1, <1>2, Digits
  <2> QED BY <2>1 DEF Value, a, b
<1>6. a = b <=> k[1] = l[1] /\ k[2] = l[2]
  <2>1. k[2] \in 0..Base-1 /\ l[2] \in 0..Base-1
    BY <1>1 DEF Columns
  <2> QED BY <1>1, <1>2, <1>3, <1>4, <2>1
<1>7. Value(k) \in 0..Limit-1
  <2>1. a * Base + k[3] \in Nat /\ a * Base + k[3] < (Base * Base) * Base /\ Limit \in Nat
    BY <1>1, <1>2, Columned DEF Limit
  <2>2. Value(k) = a * Base + k[3] /\ Limit = (Base * Base) * Base
    BY DEF Value, a, Limit
  <2> HIDE DEF Value
  <2> DEFINE v == a * Base + k[3]
             m == (Base * Base) * Base
  <2> HIDE DEF v, m
  <2>3. v \in Nat /\ v < m /\ m \in Nat /\ Value(k) = v /\ Limit = m
    BY <2>1, <2>2 DEF v, m
  <2> QED BY <2>3
<1> QED BY <1>1, <1>3, <1>5, <1>6, <1>7, BelowIs

(* A score that fits is read back from its key.                            *)
LEMMA KeyHoldsScore ==
    ASSUME NEW score \in Nat, score < Limit
    PROVE  Value(KeyOf(score)) = score
<1> DEFINE q == score \div Base
           r == score % Base
           s == q \div Base
           u == q % Base
<1>1. q \in Nat /\ r \in 0..Base-1 /\ score = q * Base + r
  BY Divided
<1>2. s \in Nat /\ u \in 0..Base-1 /\ q = s * Base + u
  BY <1>1, Divided
<1> HIDE DEF q, r, s, u
<1>3. score \div (Base * Base) = s
  <2> DEFINE m == Base * Base
             v == u * Base + r
  <2>1. score = s * m + v
    BY <1>1, <1>2
  <2>2. v \in 0..m-1
    <3>1. u * Base + r \in Nat
      BY <1>1, <1>2
    <3>2. u * Base + r < Base * Base + 0
      BY <1>1, <1>2, Digits DEF Columns
    <3>3. Base * Base \in Nat
      OBVIOUS
    <3> QED BY <3>1, <3>2, <3>3
  <2>3. m \in Nat \ {0}
    OBVIOUS
  <2> HIDE DEF m, v
  <2>4. score \div m = s
    BY <1>2, <2>1, <2>2, <2>3, Quotient
  <2> QED BY <2>4 DEF m
<1>4. s < Base
  <2>1. ASSUME s >= Base PROVE FALSE
    <3>1. Base * Base <= s * Base /\ Base * Base \in Nat /\ s * Base \in Nat
      BY <1>2, <2>1, Times
    <3>2. Base * Base <= q
      BY <1>2, <3>1
    <3>3. (Base * Base) * Base <= q * Base /\ q * Base \in Nat /\ Limit \in Nat
      BY <1>1, <3>1, <3>2, Times DEF Limit
    <3> QED BY <1>1, <3>3 DEF Limit
  <2> QED BY <1>2, <2>1
<1>5. s % Base = s
  BY <1>2, <1>4
<1>6. KeyOf(score) = <<s, u, r>>
  BY <1>3, <1>5 DEF KeyOf, q, r, u
<1> QED BY <1>1, <1>2, <1>6 DEF Value

-----------------------------------------------------------------------------
(* The initials.                                                           *)

LEMMA NameSizes ==
    /\ NameLen \in Nat \ {0} /\ Letters \in Nat \ {0, 1}
    /\ Radix \in Nat \ {0} /\ Letters <= Radix /\ Word \in Nat
  BY ScoresAssumption

LEMMA Weights ==
    /\ Weight[0] = 1
    /\ \A n \in 0..NameLen : Weight[n] \in Nat /\ Weight[n] <= Word
    /\ \A n \in 1..NameLen : Weight[n] = Radix * Weight[n-1]
<1> DEFINE times == [p \in Nat \X (1..NameLen) |-> Radix * p[1]]
           IsWeight(f) == f = [n \in 0..NameLen |-> IF n = 0 THEN 1 ELSE Radix * f[n-1]]
<1>1. times \in [Nat \X (1..NameLen) -> Nat]
  BY NameSizes
<1>2. \A x \in Nat, n \in 1..NameLen : times[<<x, n>>] = Radix * x
  OBVIOUS
<1> HIDE DEF times
<1>3. PICK f \in [0..NameLen -> Nat] : IsRun(f, 1, times, NameLen)
  BY <1>1, NameSizes, RunExists
<1>4. ASSUME NEW n \in 0..NameLen PROVE f[n] = IF n = 0 THEN 1 ELSE Radix * f[n-1]
  <2>1. f[n] = IF n = 0 THEN 1 ELSE times[<<f[n-1], n>>]
    BY <1>3 DEF IsRun
  <2>2. n # 0 => n - 1 \in 0..NameLen /\ n \in 1..NameLen
    BY NameSizes
  <2> QED BY <1>2, <2>1, <2>2
<1>5. IsWeight(f)
  <2>1. f = [n \in 0..NameLen |-> f[n]]
    OBVIOUS
  <2> QED BY <1>4, <2>1
<1>6. IsWeight(CHOOSE g : IsWeight(g))
  BY <1>5
<1>7. IsWeight(Weight)
  <2>1. Weight = CHOOSE g : IsWeight(g)
    BY DEF Weight
  <2> HIDE DEF IsWeight
  <2> QED BY <1>6, <2>1
<1> DEFINE S == {n \in 0..NameLen : Weight[n] \notin Nat}
<1>8. \A n \in 0..NameLen : Weight[n] = IF n = 0 THEN 1 ELSE Radix * Weight[n-1]
  BY <1>7
<1>9. Weight[0] = 1 /\ \A n \in 1..NameLen : Weight[n] = Radix * Weight[n-1]
  BY <1>8, NameSizes
<1> HIDE DEF IsWeight
<1>10. S = {}
  <2>1. S \in SUBSET Nat /\ 0 \notin S
    BY <1>9
  <2>2. ASSUME NEW n \in Nat, n + 1 \in S PROVE n \in S
    <3>0. n + 1 \in 0..NameLen
      BY <2>2
    <3>1. n \in 0..NameLen /\ n + 1 \in 1..NameLen /\ (n + 1) - 1 = n
      BY <3>0, NameSizes
    <3>2. Weight[n + 1] = Radix * Weight[n]
      BY <1>9, <3>1
    <3>3. Weight[n] \in Nat => Weight[n + 1] \in Nat
      BY <3>2, NameSizes
    <3> QED BY <2>2, <3>1, <3>3
  <2> HIDE DEF S
  <2> QED BY <2>1, <2>2, NoCounterexample
<1>11. \A n \in 0..NameLen : Weight[n] <= Word
  BY ScoresAssumption
<1> QED BY <1>9, <1>10, <1>11

(* The loop that packs: a word that holds the letters so far.              *)
LEMMA PackedBy ==
    ASSUME NEW name \in Name
    PROVE  \E f :
             /\ f[0] = 0 /\ Packed(name) = f[NameLen]
             /\ \A n \in 1..NameLen : f[n] = (f[n-1] * Radix + name[n]) % Word
<1> DEFINE turn == [p \in Nat \X (1..NameLen) |-> (p[1] * Radix + name[p[2]]) % Word]
           IsPacked(f) == f = [n \in 0..NameLen |->
                                 IF n = 0 THEN 0 ELSE (f[n-1] * Radix + name[n]) % Word]
<1>0. Word \in Nat \ {0}
  BY Weights, NameSizes
<1>1. turn \in [Nat \X (1..NameLen) -> Nat]
  <2>1. \A x \in Nat, n \in 1..NameLen : (x * Radix + name[n]) % Word \in Nat
    <3> TAKE x \in Nat, n \in 1..NameLen
    <3>1. name[n] \in Nat
      BY NameSizes DEF Name, Positions
    <3>2. x * Radix + name[n] \in Nat
      BY <3>1, NameSizes
    <3> QED BY <1>0, <3>2
  <2> QED BY <2>1
<1>2. \A x \in Nat, n \in 1..NameLen : turn[<<x, n>>] = (x * Radix + name[n]) % Word
  OBVIOUS
<1> HIDE DEF turn
<1>3. PICK f \in [0..NameLen -> Nat] : IsRun(f, 0, turn, NameLen)
  BY <1>1, NameSizes, RunExists
<1>4. ASSUME NEW n \in 0..NameLen
      PROVE  f[n] = IF n = 0 THEN 0 ELSE (f[n-1] * Radix + name[n]) % Word
  <2>1. f[n] = IF n = 0 THEN 0 ELSE turn[<<f[n-1], n>>]
    BY <1>3 DEF IsRun
  <2>2. n # 0 => n - 1 \in 0..NameLen /\ n \in 1..NameLen
    BY NameSizes
  <2> QED BY <1>2, <2>1, <2>2
<1>5. IsPacked(f)
  <2>1. f = [n \in 0..NameLen |-> f[n]]
    OBVIOUS
  <2> QED BY <1>4, <2>1
<1> DEFINE g == CHOOSE h : IsPacked(h)
<1>6. IsPacked(g)
  <2> HIDE DEF IsPacked
  <2> QED BY <1>5
<1>7. Packed(name) = g[NameLen]
  BY DEF Packed
<1> HIDE DEF g
<1>8. \A n \in 0..NameLen : g[n] = IF n = 0 THEN 0 ELSE (g[n-1] * Radix + name[n]) % Word
  BY <1>6
<1>9. g[0] = 0 /\ \A n \in 1..NameLen : g[n] = (g[n-1] * Radix + name[n]) % Word
  BY <1>8, NameSizes
<1> QED BY <1>7, <1>9

(* No letter is lost to the width of the word.                             *)
LEMMA PackedFits ==
    ASSUME NEW name \in Name
    PROVE  \E f :
             /\ f[0] = 0 /\ Packed(name) = f[NameLen]
             /\ \A n \in 0..NameLen : f[n] \in Nat
             /\ \A n \in 1..NameLen : f[n] = f[n-1] * Radix + name[n]
<1>1. PICK f : /\ f[0] = 0 /\ Packed(name) = f[NameLen]
               /\ \A n \in 1..NameLen : f[n] = (f[n-1] * Radix + name[n]) % Word
  BY PackedBy
<1> DEFINE Fits(n) == f[n] \in Nat /\ f[n] < Weight[n]
           S == {n \in 0..NameLen : ~Fits(n)}
<1>2. ASSUME NEW n \in 1..NameLen, Fits(n - 1)
      PROVE  Fits(n) /\ f[n] = f[n-1] * Radix + name[n]
  <2> DEFINE x == f[n-1]
             w == Weight[n-1]
             c == name[n]
  <2>1. c \in 0..Letters-1
    BY DEF Name, Positions
  <2>2. x \in Nat /\ w \in Nat /\ x + 1 <= w
    <3>1. n - 1 \in 0..NameLen
      BY NameSizes
    <3>2. x \in Nat /\ x < w /\ w \in Nat
      BY <1>2, <3>1, Weights
    <3> QED BY <3>2
  <2>3. Weight[n] = Radix * w /\ Weight[n] <= Word
    BY Weights
  <2>4. f[n] = (x * Radix + c) % Word
    BY <1>1
  <2> HIDE DEF x, w, c
  <2>5. (x + 1) * Radix <= w * Radix /\ (x + 1) * Radix = x * Radix + Radix /\ x * Radix \in Nat
        /\ w * Radix = Radix * w
    BY <2>2, NameSizes, Times
  <2> DEFINE xr == x * Radix
             wr == w * Radix
  <2>6. xr \in Nat /\ xr + Radix <= wr /\ Weight[n] = wr /\ wr \in Int
    BY <2>2, <2>3, <2>5, NameSizes
  <2>7. f[n] = (xr + c) % Word
    BY <2>4
  <2> HIDE DEF xr, wr
  <2>8. xr + c \in Nat /\ xr + c < Weight[n] /\ xr + c < Word
    BY <2>1, <2>3, <2>6, NameSizes
  <2>9. (xr + c) % Word = xr + c
    BY <2>8, NameSizes
  <2>10. f[n] = xr + c
    BY <2>7, <2>9
  <2> QED BY <2>8, <2>10 DEF xr, x, c
<1>3. S = {}
  <2>1. S \in SUBSET Nat /\ 0 \notin S
    BY <1>1, Weights
  <2>2. ASSUME NEW n \in Nat, n + 1 \in S PROVE n \in S
    <3>0. n + 1 \in 0..NameLen /\ ~Fits(n + 1)
      BY <2>2
    <3>1. n \in 0..NameLen /\ n + 1 \in 1..NameLen /\ (n + 1) - 1 = n
      BY <3>0, NameSizes
    <3> HIDE DEF Fits
    <3>2. Fits(n) => Fits(n + 1)
      BY <1>2, <3>1
    <3> QED BY <3>0, <3>1, <3>2
  <2> HIDE DEF S
  <2> QED BY <2>1, <2>2, NoCounterexample
<1>4. \A n \in 0..NameLen : Fits(n)
  BY <1>3
<1>5. \A n \in 1..NameLen : n - 1 \in 0..NameLen
  BY NameSizes
<1>6. \A n \in 1..NameLen : f[n] = f[n-1] * Radix + name[n]
  <2> HIDE DEF Fits
  <2> QED BY <1>2, <1>4, <1>5
<1> QED BY <1>1, <1>4, <1>6

(* The loop that unpacks: the word shifted by one letter after the other.  *)
LEMMA UnpackedBy ==
    ASSUME NEW word \in Nat
    PROVE  \E f :
             /\ f[0] = word
             /\ \A k \in 1..NameLen-1 : f[k] = f[k-1] \div Radix
             /\ Unpacked(word) = [n \in Positions |-> f[NameLen - n] % Radix]
<1> DEFINE turn == [p \in Nat \X (1..NameLen-1) |-> p[1] \div Radix]
           IsShift(f) == f = [k \in 0..NameLen-1 |->
                                 IF k = 0 THEN word ELSE f[k-1] \div Radix]
<1>1. turn \in [Nat \X (1..NameLen-1) -> Nat]
  <2>1. \A x \in Nat : x \div Radix \in Nat
    BY NameSizes
  <2> QED BY <2>1
<1>2. \A x \in Nat, k \in 1..NameLen-1 : turn[<<x, k>>] = x \div Radix
  OBVIOUS
<1> HIDE DEF turn
<1>3. PICK f \in [0..NameLen-1 -> Nat] : IsRun(f, word, turn, NameLen - 1)
  <2>1. NameLen - 1 \in Nat
    BY NameSizes
  <2> QED BY <1>1, <2>1, RunExists
<1>4. ASSUME NEW k \in 0..NameLen-1
      PROVE  f[k] = IF k = 0 THEN word ELSE f[k-1] \div Radix
  <2>1. f[k] = IF k = 0 THEN word ELSE turn[<<f[k-1], k>>]
    BY <1>3 DEF IsRun
  <2>2. k # 0 => k - 1 \in 0..NameLen-1 /\ k \in 1..NameLen-1
    BY NameSizes
  <2> QED BY <1>2, <2>1, <2>2
<1>5. IsShift(f)
  <2>1. f = [k \in 0..NameLen-1 |-> f[k]]
    OBVIOUS
  <2> QED BY <1>4, <2>1
<1> DEFINE g == CHOOSE h : IsShift(h)
<1>6. IsShift(g)
  <2> HIDE DEF IsShift
  <2> QED BY <1>5
<1>7. Unpacked(word) = [n \in Positions |-> g[NameLen - n] % Radix]
  BY DEF Unpacked
<1> HIDE DEF g
<1>8. \A k \in 0..NameLen-1 : g[k] = IF k = 0 THEN word ELSE g[k-1] \div Radix
  BY <1>6
<1>9. g[0] = word /\ \A k \in 1..NameLen-1 : g[k] = g[k-1] \div Radix
  BY <1>8, NameSizes
<1> QED BY <1>7, <1>9

(* The initials are read back from their word.                             *)
LEMMA WordHoldsName ==
    ASSUME NEW name \in Name
    PROVE  Unpacked(Packed(name)) = name
<1>1. PICK f : /\ f[0] = 0 /\ Packed(name) = f[NameLen]
               /\ \A n \in 0..NameLen : f[n] \in Nat
               /\ \A n \in 1..NameLen : f[n] = f[n-1] * Radix + name[n]
  BY PackedFits
<1>2. Packed(name) \in Nat
  BY <1>1, NameSizes
<1>3. PICK g : /\ g[0] = Packed(name)
               /\ \A k \in 1..NameLen-1 : g[k] = g[k-1] \div Radix
               /\ Unpacked(Packed(name)) = [n \in Positions |-> g[NameLen - n] % Radix]
  BY <1>2, UnpackedBy
<1>4. ASSUME NEW n \in 1..NameLen
      PROVE  f[n] \div Radix = f[n-1] /\ f[n] % Radix = name[n]
  <2>1. f[n] = f[n-1] * Radix + name[n] /\ f[n-1] \in Nat
    BY <1>1, NameSizes
  <2>2. name[n] \in 0..Radix-1
    BY NameSizes DEF Name, Positions
  <2> DEFINE x == f[n-1]
             c == name[n]
  <2>3. x \in Nat /\ c \in 0..Radix-1 /\ f[n] = x * Radix + c
    BY <2>1, <2>2
  <2> HIDE DEF x, c
  <2>4. (x * Radix + c) \div Radix = x /\ (x * Radix + c) % Radix = c
    BY <2>3, NameSizes, Quotient
  <2>5. f[n] \div Radix = x /\ f[n] % Radix = c
    BY <2>3, <2>4
  <2> QED BY <2>5 DEF x, c
<1> DEFINE S == {k \in 0..NameLen-1 : g[k] # f[NameLen - k]}
<1>5. S = {}
  <2>1. S \in SUBSET Nat /\ 0 \notin S
    BY <1>1, <1>3, NameSizes
  <2>2. ASSUME NEW k \in Nat, k + 1 \in S PROVE k \in S
    <3>0. k + 1 \in 0..NameLen-1 /\ g[k + 1] # f[NameLen - (k + 1)]
      BY <2>2
    <3>1. /\ k \in 0..NameLen-1 /\ k + 1 \in 1..NameLen-1 /\ (k + 1) - 1 = k
          /\ NameLen - k \in 1..NameLen /\ NameLen - (k + 1) = (NameLen - k) - 1
      BY <3>0, NameSizes
    <3>2. g[k + 1] = g[k] \div Radix
      BY <1>3, <3>1
    <3>3. f[NameLen - k] \div Radix = f[(NameLen - k) - 1]
      BY <1>4, <3>1
    <3> QED BY <3>0, <3>1, <3>2, <3>3
  <2> HIDE DEF S
  <2> QED BY <2>1, <2>2, NoCounterexample
<1>6. ASSUME NEW n \in Positions PROVE g[NameLen - n] % Radix = name[n]
  <2>1. n \in 1..NameLen /\ NameLen - n \in 0..NameLen-1 /\ NameLen - (NameLen - n) = n
    BY NameSizes DEF Positions
  <2>2. g[NameLen - n] = f[n]
    BY <1>5, <2>1
  <2> QED BY <1>4, <2>1, <2>2
<1>7. name = [n \in Positions |-> name[n]]
  BY DEF Name
<1> QED BY <1>3, <1>6, <1>7

-----------------------------------------------------------------------------
(* The table as a list.                                                    *)

LEMMA ShownIs ==
    ASSUME NEW t, IsTable(t)
    PROVE  \A i \in 1..Rows :
             /\ i - 1 \in 0..Rows-1 /\ t[i-1].key \in Key
             /\ Shown(t)[i] = Decoded(t[i-1])
             /\ Shown(t)[i].score = Value(t[i-1].key)
<1> TAKE i \in 1..Rows
<1>1. i - 1 \in 0..Rows-1
  OBVIOUS
<1>2. t[i-1].key \in Key
  BY <1>1 DEF IsTable
<1>3. Shown(t)[i] = Decoded(t[i-1])
  BY DEF Shown
<1>4. Decoded(t[i-1]).score = Value(t[i-1].key)
  BY DEF Decoded
<1> QED BY <1>1, <1>2, <1>3, <1>4

LEMMA ShownInOrder ==
    ASSUME NEW t, IsTable(t), Sorted(t), NEW i \in 1..Rows, NEW j \in 1..Rows, i < j
    PROVE  Shown(t)[i].score >= Shown(t)[j].score
<1>1. ~Below(t[i-1].key, t[j-1].key)
  <2>1. i - 1 \in 0..Rows-1 /\ j - 1 \in 0..Rows-1 /\ i - 1 < j - 1
    OBVIOUS
  <2> QED BY <2>1 DEF Sorted
<1>2. t[i-1].key \in Key /\ t[j-1].key \in Key
  BY ShownIs
<1> DEFINE a == Value(t[i-1].key)
           b == Value(t[j-1].key)
<1>3. a \in 0..Limit-1 /\ b \in 0..Limit-1 /\ ~(a < b)
  BY <1>1, <1>2, BelowIsLess
<1>4. Shown(t)[i].score = a /\ Shown(t)[j].score = b
  BY ShownIs
<1> HIDE DEF a, b
<1>5. Limit \in Nat
  BY DEF Limit
<1> QED BY <1>3, <1>4, <1>5

LEMMA AsGoodIs ==
    ASSUME IsTable(table), NEW score \in Nat, NEW i \in 1..Rows
    PROVE  /\ score < Limit => (List!AsGood(i, score) <=> ~Below(table[i-1].key, KeyOf(score)))
           /\ score >= Limit => ~List!AsGood(i, score)
<1> DEFINE v == Value(table[i-1].key)
<1>1. table[i-1].key \in Key
  BY ShownIs
<1>2. List!AsGood(i, score) <=> (v >= score)
  BY ShownIs DEF List!AsGood
<1>3. v \in 0..Limit-1 /\ Limit \in Nat
  BY <1>1, BelowIsLess DEF Limit
<1>4. score < Limit => (Below(table[i-1].key, KeyOf(score)) <=> (v < score))
  BY <1>1, KeyOfIsKey, KeyHoldsScore, BelowIsLess
<1> HIDE DEF v
<1>5. score < Limit => (List!AsGood(i, score) <=> ~Below(table[i-1].key, KeyOf(score)))
  BY <1>2, <1>3, <1>4
<1>6. score >= Limit => ~List!AsGood(i, score)
  BY <1>2, <1>3
<1> QED BY <1>5, <1>6

(* A score that ranks goes before the first record it beats.               *)
LEMMA RegisterEnters ==
    ASSUME IsTable(table), Sorted(table), NEW record, record.score \in Nat, record.name \in Name,
           record.score < Limit, NEW rank \in 0..Rows-1, rank = keyRankLookup(record.score)
    PROVE  Shown(highScoreRegister(table, rank, record)) = List!Entered(record.score, record.name)
<1> DEFINE score == record.score
           key == KeyOf(score)
           u == highScoreRegister(table, rank, record)
           new == [score |-> score, name |-> record.name]
<1>1. /\ \A i \in 0..rank-1 : ~Below(table[i].key, key)
      /\ Below(table[rank].key, key)
  BY RankIsPlace
<1>2. \A i \in 0..Rows-1 : i >= rank => Below(table[i].key, key)
  <2> TAKE i \in 0..Rows-1
  <2>1. CASE i = rank
    BY <1>1, <2>1
  <2>2. CASE i > rank
    <3>1. ~Below(table[rank].key, table[i].key)
      BY <2>2 DEF Sorted
    <3>2. table[rank].key \in Key /\ table[i].key \in Key /\ key \in Key
      BY KeyOfIsKey DEF IsTable
    <3>3. Value(table[rank].key) < Value(key)
      BY <1>1, <3>2, BelowIsLess
    <3>4. ~(Value(table[rank].key) < Value(table[i].key))
      BY <3>1, <3>2, BelowIsLess
    <3> DEFINE a == Value(table[rank].key)
               b == Value(table[i].key)
               c == Value(key)
    <3>5. a \in 0..Limit-1 /\ b \in 0..Limit-1 /\ c \in 0..Limit-1
      BY <3>2, BelowIsLess
    <3>6. Limit \in Nat
      BY DEF Limit
    <3>7. b < c
      <4>1. a < c /\ ~(a < b)
        BY <3>3, <3>4
      <4> HIDE DEF a, b, c
      <4> QED BY <3>5, <3>6, <4>1
    <3> QED BY <3>2, <3>7, BelowIsLess
  <2> QED BY <2>1, <2>2
<1>3. Decoded(Row(score, record.name)) = new
  BY KeyHoldsScore, WordHoldsName DEF Decoded, Row
<1>4. u = [i \in 0..Rows-1 |-> IF i < rank THEN table[i]
                              ELSE IF i = rank THEN Row(score, record.name) ELSE table[i-1]]
  <2>1. ~(rank >= Rows) /\ ~(score >= Limit)
    <3> Limit \in Nat
      BY DEF Limit
    <3> QED OBVIOUS
  <2> QED BY <2>1, Zenon DEF highScoreRegister
<1>5. \A i \in 1..Rows : List!AsGood(i, score) <=> i <= rank
  <2> TAKE i \in 1..Rows
  <2>1. i - 1 \in 0..Rows-1
    OBVIOUS
  <2>2. List!AsGood(i, score) <=> ~Below(table[i-1].key, key)
    BY AsGoodIs
  <2>3. CASE i <= rank
    BY <1>1, <2>2, <2>3
  <2>4. CASE ~(i <= rank)
    BY <1>2, <2>1, <2>2, <2>4
  <2> QED BY <2>3, <2>4
<1> HIDE DEF u, key, new
<1>6. ASSUME NEW i \in 1..Rows
      PROVE  Decoded(u[i-1]) = IF List!AsGood(i, score) THEN Shown(table)[i]
                               ELSE IF i = 1 \/ List!AsGood(i - 1, score) THEN new
                               ELSE Shown(table)[i-1]
  <2>0. i - 1 \in 0..Rows-1
    OBVIOUS
  <2>1. CASE i <= rank
    <3>1. u[i-1] = table[i-1]
      BY <1>4, <2>0, <2>1
    <3> QED BY <1>5, <2>1, <3>1, ShownIs
  <2>2. CASE i = rank + 1
    <3>1. u[i-1] = Row(score, record.name)
      BY <1>4, <2>0, <2>2
    <3>2. ~List!AsGood(i, score) /\ (i = 1 \/ List!AsGood(i - 1, score))
      BY <1>5, <2>2
    <3> QED BY <1>3, <3>1, <3>2
  <2>3. CASE i > rank + 1
    <3>1. u[i-1] = table[(i-1)-1]
      BY <1>4, <2>0, <2>3
    <3>2. ~List!AsGood(i, score) /\ i # 1 /\ ~List!AsGood(i - 1, score) /\ i - 1 \in 1..Rows
      BY <1>5, <2>3
    <3> QED BY <3>1, <3>2, ShownIs
  <2> QED BY <2>1, <2>2, <2>3
<1> QED BY <1>6 DEF Shown, List!Entered, u, new

-----------------------------------------------------------------------------
(* The initials of an entry are letters, its cursor is on one of them.     *)

NameInv ==
    ~cut =>
      /\ slot.name \in [Positions -> 0..Letters]
      /\ entry # NoEntry =>
           entry.cursor \in Positions /\ slot.name \in Name /\ slot.score \in Scores

LEMMA NameIsWide == Name \subseteq [Positions -> 0..Letters]
  BY ScoresAssumption DEF Name

LEMMA NormalizedIsName == \A name \in [Positions -> 0..Letters] : Normalized(name) \in Name
<1> SUFFICES ASSUME NEW name \in [Positions -> 0..Letters] PROVE Normalized(name) \in Name
  OBVIOUS
<1>1. \A c \in 0..Letters : normalizeInitial(c) \in 0..Letters-1
  BY ScoresAssumption DEF normalizeInitial, Other
<1> QED BY <1>1 DEF Normalized, Name

LEMMA MovedNames ==
    ASSUME NEW e, Waits(e), e.cursor \in Positions, NEW name \in Name, NEW in
    PROVE  Moved(e, name, in).name \in Name /\ Moved(e, name, in).entry.cursor \in Positions
<1> DEFINE seen == [e EXCEPT !.last = [x |-> in.x, y |-> in.y]]
           m == Moved(e, name, in)
           dx == signedByteDelta(in.x, e.last.x)
           dy == signedByteDelta(in.y, e.last.y)
           small == Size(dx) < Threshold /\ Size(dy) < Threshold
           moved == [seen EXCEPT !.cool = Cooldown]
           turned == moveCursor(moved.cursor, IF dx < 0 THEN 1 ELSE -1)
           lettered == changeInitial(name, e.cursor, IF dy > 0 THEN 1 ELSE -1)
<1>1. /\ seen.cursor = e.cursor /\ moved.cursor = e.cursor
      /\ \A c : [seen EXCEPT !.cool = c].cursor = e.cursor
      /\ \A d : [moved EXCEPT !.cursor = d].cursor = d
  BY DEF Waits, Fields
<1>2. \A p \in Positions, d \in {1, -1} : moveCursor(p, d) \in Positions
  BY NameSizes DEF moveCursor, Positions
<1>3. \A d \in {1, -1} : changeInitial(name, e.cursor, d) \in Name
  <2> TAKE d \in {1, -1}
  <2>1. name[e.cursor] \in 0..Letters-1 /\ Letters \in Nat \ {0, 1}
    BY ScoresAssumption DEF Name
  <2>2. (normalizeInitial(name[e.cursor]) + d) % Letters \in 0..Letters-1
    BY <2>1 DEF normalizeInitial, Other
  <2> QED BY <2>2 DEF changeInitial, Name
<1>4. turned \in Positions /\ lettered \in Name
  <2>1. (IF dx < 0 THEN 1 ELSE -1) \in {1, -1} /\ (IF dy > 0 THEN 1 ELSE -1) \in {1, -1}
    BY Zenon
  <2>2. moved.cursor = e.cursor
    BY <1>1
  <2> HIDE DEF dx, dy, moved
  <2> QED BY <1>2, <1>3, <2>1, <2>2
<1>5. \/ m = [entry |-> seen, name |-> name]
      \/ m = [entry |-> [seen EXCEPT !.cool = seen.cool - 1], name |-> name]
      \/ m = [entry |-> moved, name |-> lettered]
      \/ m = [entry |-> [moved EXCEPT !.cursor = turned], name |-> name]
  BY Zenon DEF Moved
<1>6. m.name \in Name /\ m.entry.cursor \in Positions
  <2> HIDE DEF m, seen, turned, lettered, moved
  <2>1. /\ [seen EXCEPT !.cool = seen.cool - 1].cursor = e.cursor
        /\ [moved EXCEPT !.cursor = turned].cursor = turned
    BY <1>1
  <2>2. seen.cursor \in Positions /\ moved.cursor \in Positions
    BY <1>1
  <2> HIDE DEF dx, dy
  <2>3. CASE m = [entry |-> seen, name |-> name]
    BY <2>2, <2>3
  <2>4. CASE m = [entry |-> [seen EXCEPT !.cool = seen.cool - 1], name |-> name]
    BY <2>1, <2>4
  <2>5. CASE m = [entry |-> moved, name |-> lettered]
    BY <1>4, <2>2, <2>5
  <2>6. CASE m = [entry |-> [moved EXCEPT !.cursor = turned], name |-> name]
    BY <1>4, <2>1, <2>6
  <2> QED BY <1>5, <2>3, <2>4, <2>5, <2>6
<1> HIDE DEF m
<1> QED BY <1>6 DEF m

LEMMA AdvancedNames ==
    ASSUME NEW e, Waits(e), e.cursor \in Positions, NEW t, NEW r, IsRecord(r), r.name \in Name,
           NEW in, advanceHighScoreInitialsEntry(e, t, r, in)
    PROVE  slot'.name \in Name /\ (entry' # NoEntry => entry'.cursor \in Positions)
<1> DEFINE m == Moved(e, r.name, in)
<1>1. m.name \in Name /\ m.entry.cursor \in Positions /\ Waits(m.entry)
  BY MovedNames, MovedKeeps
<1>2. /\ slot' = [r EXCEPT !.name = m.name]
      /\ entry' = NoEntry \/ entry' = [m.entry EXCEPT !.previous = in.start]
  BY DEF advanceHighScoreInitialsEntry
<1> HIDE DEF m
<1>3. slot'.name = m.name
  BY <1>2 DEF IsRecord
<1>4. [m.entry EXCEPT !.previous = in.start].cursor = m.entry.cursor
  BY <1>1 DEF Waits, Fields
<1> QED BY <1>1, <1>2, <1>3, <1>4

LEMMA NameInvInit == Init => NameInv
  BY ScoresAssumption DEF Init, NameInv, Other

LEMMA NameInvInductive == IInv /\ NameInv /\ [Next]_vars => NameInv'
<1> SUFFICES ASSUME IInv, NameInv, [Next]_vars, ~cut' PROVE NameInv'
  BY DEF NameInv
<1>t. IsRecord(slot) /\ (entry = NoEntry \/ Waits(entry))
  BY DEF IInv
<1>u. up \in BOOLEAN
  BY DEF IInv
<1>1. CASE UNCHANGED vars
  BY <1>1 DEF NameInv, vars
<1>2. CASE GameOver
  <2>0. ~cut /\ entry = NoEntry /\ slot.name \in [Positions -> 0..Letters]
    BY <1>2 DEF GameOver, NameInv
  <2>1. PICK score \in Scores, in \in Inputs :
          \/ /\ RankOf(score) = Rows
             /\ slot' = Ranked(score) /\ UNCHANGED <<table, entry, up>>
          \/ /\ RankOf(score) # Rows
             /\ advanceHighScoreInitialsEntry(Begun(score, in.start), table, Named(score), in)
    BY <1>2, GameEnds
  <2> DEFINE e == Begun(score, in.start)
             r == Named(score)
  <2>2. in.start \in BOOLEAN
    BY DEF Inputs
  <2>3. /\ Ranked(score).name = slot.name
        /\ Waits(e) /\ e.cursor = 1
        /\ IsRecord(r) /\ r.score = score /\ r.name = Normalized(slot.name)
    BY <1>t, <2>2, EntryBegins
  <2>4. e.cursor \in Positions /\ r.name \in Name
    BY <2>0, <2>3, NormalizedIsName, NameSizes DEF Positions
  <2>5. CASE RankOf(score) = Rows
    <3>1. slot' = Ranked(score) /\ entry' = NoEntry
      BY <2>0, <2>1, <2>5
    <3> QED BY <2>0, <2>3, <3>1 DEF NameInv
  <2>6. CASE RankOf(score) # Rows
    <3>1. advanceHighScoreInitialsEntry(e, table, r, in)
      BY <2>1, <2>6
    <3> HIDE DEF e, r
    <3>2. slot'.name \in Name /\ (entry' # NoEntry => entry'.cursor \in Positions)
      BY <2>3, <2>4, <3>1, AdvancedNames
    <3>3. slot'.score = score
      BY <1>u, <2>3, <3>1, Advanced
    <3> QED BY <3>2, <3>3, NameIsWide DEF NameInv
  <2> QED BY <2>5, <2>6
<1>3. CASE EntryFrame
  <2>0. ~cut /\ entry # NoEntry
    BY <1>3 DEF EntryFrame
  <2>1. PICK in \in Inputs : advanceHighScoreInitialsEntry(entry, table, slot, in)
    BY <1>3 DEF EntryFrame
  <2>2. /\ Waits(entry) /\ entry.cursor \in Positions
        /\ slot.name \in Name /\ slot.score \in Scores
    BY <1>t, <2>0 DEF NameInv
  <2>3. slot'.name \in Name /\ (entry' # NoEntry => entry'.cursor \in Positions)
    BY <1>t, <2>1, <2>2, AdvancedNames
  <2>4. slot'.score = slot.score
    BY <1>t, <1>u, <2>1, <2>2, Advanced
  <2> QED BY <2>2, <2>3, <2>4, NameIsWide DEF NameInv
<1>4. CASE CoinStart
  <2>1. PICK seed \in Seeds : entry = NoEntry => slot' = [score |-> seed.score, name |-> seed.name]
                                               /\ entry' = entry
    BY <1>4 DEF CoinStart
  <2>2. entry = NoEntry
    BY <1>4 DEF CoinStart
  <2>3. slot'.name = seed.name /\ entry' = NoEntry
    BY <2>1, <2>2
  <2>4. seed.name \in [Positions -> 0..Letters]
    BY ScoresAssumption
  <2> QED BY <2>3, <2>4 DEF NameInv
<1> QED BY <1>1, <1>2, <1>3, <1>4 DEF Next

-----------------------------------------------------------------------------
(* The table is a list of the best: every step is one of the list's.       *)

LEMMA ListInit == Init => List!Init
<1> SUFFICES ASSUME Init PROVE List!Init
  OBVIOUS
<1>1. IsTable(table) /\ Sorted(table) /\ Offered = NoOffer
  BY ScoresAssumption DEF Init, Offered
<1>2. \A i, j \in 1..Rows : i < j => Shown(table)[i].score >= Shown(table)[j].score
  BY <1>1, ShownInOrder
<1>3. Len(Shown(table)) = Rows
  <2>1. Rows \in Nat
    OBVIOUS
  <2> QED BY <2>1 DEF Shown
<1> QED BY <1>1, <1>2, <1>3 DEF List!Init

LEMMA ScoresFit == \A score \in Scores : score \in Nat /\ score # NoOffer
  BY ScoresAssumption DEF Limit, NoOffer

(* A score that finds a place is one the list offers to take.              *)
LEMMA PlaceIsOffered ==
    ASSUME IsTable(table), Sorted(table), NEW score \in Scores,
           Byte(keyRankLookup(score)) # Rows
    PROVE  List!Ranks(score) /\ score # NoOffer
<1>1. score \in Nat /\ score # NoOffer /\ Limit \in Nat
  BY ScoresFit DEF Limit
<1>2. CASE score >= Limit
  <2>1. 1 \in 1..Rows
    OBVIOUS
  <2> QED BY <1>1, <1>2, <2>1, AsGoodIs DEF List!Ranks
<1>3. CASE score < Limit
  <2>1. /\ keyRankLookup(score) \in 0..Rows
        /\ keyRankLookup(score) < Rows => Below(table[keyRankLookup(score)].key, KeyOf(score))
    BY <1>1, <1>3, RankIsPlace
  <2> DEFINE rank == keyRankLookup(score)
  <2>2. rank \in 0..Rows-1
    BY <2>1, KeptByte
  <2>3. Below(table[rank].key, KeyOf(score))
    BY <2>1, <2>2
  <2> HIDE DEF rank
  <2>4. rank + 1 \in 1..Rows /\ (rank + 1) - 1 = rank
    BY <2>2
  <2>5. ~List!AsGood(rank + 1, score)
    BY <1>1, <1>3, <2>3, <2>4, AsGoodIs
  <2> QED BY <1>1, <2>4, <2>5 DEF List!Ranks
<1> QED BY <1>1, <1>2, <1>3

(* START signs what is on offer, with the initials of the frame.           *)
LEMMA SignedIsEntered ==
    ASSUME IsTable(table), Sorted(table), NEW rank, rank # Rows, NEW record,
           record.score \in Nat, record.name \in Name, rank = Byte(keyRankLookup(record.score))
    PROVE  Shown(highScoreRegister(table, rank, record)) =
             IF record.score < Limit THEN List!Entered(record.score, record.name)
             ELSE Shown(table)
<1>0. Limit \in Nat
  BY DEF Limit
<1>1. CASE record.score < Limit
  <2>1. keyRankLookup(record.score) \in 0..Rows
    BY <1>1, RankIsPlace
  <2>2. rank = keyRankLookup(record.score) /\ rank \in 0..Rows-1
    BY <2>1, KeptByte
  <2> QED BY <1>1, <2>2, RegisterEnters
<1>2. CASE ~(record.score < Limit)
  <2>1. rank = 255
    BY <1>0, <1>2, RankIsPlace, KeptByte
  <2>2. rank \in 0..255 /\ rank >= Rows
    BY <2>1
  <2>3. highScoreRegister(table, rank, record) = table
    BY <2>2, Registered
  <2> QED BY <1>2, <2>3
<1> QED BY <1>1, <1>2

LEMMA ListStep == IInv /\ NameInv /\ [Next]_vars => [cut' \/ List!Next]_<<Shown(table), Offered>>
<1> SUFFICES ASSUME IInv, NameInv, [Next]_vars, ~cut'
             PROVE  List!Next \/ UNCHANGED <<Shown(table), Offered>>
  OBVIOUS
<1>t. IsRecord(slot) /\ (entry = NoEntry \/ Waits(entry)) /\ up \in BOOLEAN /\ IsTable(table)
  BY DEF IInv
<1>1. CASE UNCHANGED vars
  BY <1>1 DEF vars, Shown, Offered
<1>2. CASE GameOver
  <2>0. ~cut /\ entry = NoEntry /\ Offered = NoOffer /\ Sorted(table)
        /\ slot.name \in [Positions -> 0..Letters]
    BY <1>2 DEF GameOver, NameInv, Offered, IInv, TableInOrder
  <2>1. PICK score \in Scores, in \in Inputs :
          \/ /\ RankOf(score) = Rows
             /\ slot' = Ranked(score) /\ UNCHANGED <<table, entry, up>>
          \/ /\ RankOf(score) # Rows
             /\ advanceHighScoreInitialsEntry(Begun(score, in.start), table, Named(score), in)
    BY <1>2, GameEnds
  <2> DEFINE e == Begun(score, in.start)
             r == Named(score)
  <2>2. in.start \in BOOLEAN
    BY DEF Inputs
  <2>3. /\ Waits(e) /\ e.previous = in.start
        /\ IsRecord(r) /\ r.score = score
    BY <1>t, <2>2, EntryBegins
  <2>4. CASE RankOf(score) = Rows
    <3>1. UNCHANGED <<table, entry>>
      BY <2>1, <2>4
    <3> QED BY <2>0, <3>1 DEF Offered, Shown
  <2>5. CASE RankOf(score) # Rows
    <3>1. advanceHighScoreInitialsEntry(e, table, r, in)
      BY <2>1, <2>5
    <3>2. List!Ranks(score)
      BY <1>t, <2>0, <2>5, PlaceIsOffered DEF RankOf
    <3> HIDE DEF e, r
    <3>3. Waits(entry') /\ table' = table /\ slot'.score = score
      BY <1>t, <2>2, <2>3, <3>1, Advanced
    <3>4. Offered' = score
      BY <3>3, WaitsIsEntry DEF Offered
    <3>5. Shown(table)' = Shown(table)
      BY <3>3 DEF Shown
    <3>6. List!Offer(score)
      BY <2>0, <3>2, <3>4, <3>5 DEF List!Offer
    <3> QED BY <3>6 DEF List!Next
  <2> QED BY <2>4, <2>5
<1>3. CASE EntryFrame
  <2>0. ~cut /\ entry # NoEntry /\ Sorted(table) /\ Offered = slot.score
    BY <1>3 DEF EntryFrame, IInv, TableInOrder, Offered
  <2>1. PICK in \in Inputs : advanceHighScoreInitialsEntry(entry, table, slot, in)
    BY <1>3 DEF EntryFrame
  <2>2. /\ Waits(entry) /\ entry.cursor \in Positions
        /\ slot.name \in Name /\ slot.score \in Scores
    BY <1>t, <2>0 DEF NameInv
  <2>3. slot'.name \in Name /\ slot'.score = slot.score
    BY <1>t, <2>1, <2>2, AdvancedNames, Advanced
  <2>4. CASE in.start /\ ~entry.previous
    <3>1. entry' = NoEntry /\ table' = highScoreRegister(table, entry.rank, slot')
      BY <1>t, <2>1, <2>2, <2>4, Advanced
    <3>2. entry.rank = Byte(keyRankLookup(slot'.score)) /\ entry.rank # Rows
      BY <2>0, <2>3 DEF IInv, RankIsRight
    <3>3. slot'.score \in Nat /\ slot.score # NoOffer
      BY <2>2, <2>3, ScoresFit
    <3>4. Shown(table') = IF slot.score < Limit THEN List!Entered(slot.score, slot'.name)
                          ELSE Shown(table)
      BY <1>t, <2>0, <2>3, <3>1, <3>2, <3>3, SignedIsEntered
    <3>5. Shown(table)' = Shown(table') /\ Offered' = NoOffer
      BY <3>1 DEF Shown, Offered
    <3>6. List!Sign(slot'.name)
      BY <2>0, <3>3, <3>4, <3>5 DEF List!Sign
    <3> QED BY <2>3, <3>6 DEF List!Next
  <2>5. CASE ~(in.start /\ ~entry.previous)
    <3>1. Waits(entry') /\ table' = table
      BY <1>t, <2>1, <2>2, <2>5, Advanced
    <3>2. Offered' = Offered
      BY <2>0, <2>3, <3>1, WaitsIsEntry DEF Offered
    <3> QED BY <3>1, <3>2 DEF Shown
  <2> QED BY <2>4, <2>5
<1>4. CASE CoinStart
  <2>1. entry = NoEntry
    BY <1>4 DEF CoinStart
  <2>2. PICK seed \in Seeds : table' = seed.table /\ entry' = entry
    BY <1>4, <2>1 DEF CoinStart
  <2>3. Offered = NoOffer /\ Offered' = Offered
    BY <2>1, <2>2 DEF Offered
  <2>4. Shown(table)' = Shown(seed.table)
    BY <2>2 DEF Shown
  <2>5. List!Load
    BY <2>3, <2>4 DEF List!Load
  <2> QED BY <2>5 DEF List!Next
<1> QED BY <1>1, <1>2, <1>3, <1>4 DEF Next

(* The scores shown are the best ever entered, each with its player's      *)
(* initials, in order, the older of two equal scores first: what is ranked *)
(* when a game ends and packed and inserted frames later by the START that *)
(* signs it is one entry of HighScoreList (keyRankLookup4686,              *)
(* highScoreRegister428E, hiScoreDecode41c8).                              *)
THEOREM TableRefines == Spec => TableIsTopList
<1>1. Init => IInv /\ NameInv
  BY IInvInit, NameInvInit
<1>2. IInv /\ NameInv /\ [Next]_vars => (IInv /\ NameInv)'
  BY IInvInductive, NameInvInductive
<1> QED BY <1>1, <1>2, ListInit, ListStep, PTL DEF Spec, TableIsTopList
=============================================================================
