----------------------------- MODULE PcmQueues -----------------------------
(***************************************************************************)
(* The two PCM queues of the page, as operators on their values: the ring  *)
(* of the AudioWorklet (sound-worklet.js) and the queue of chunks of the   *)
(* ScriptProcessor fallback (sound-renderer.ts).  A sample is its number   *)
(* in the stream; left and right always move together.                     *)
(***************************************************************************)
EXTENDS Integers, Sequences

CONSTANT Cap             \* 48000 in both
ASSUME CapAssumption == Cap \in Nat \ {0}

-----------------------------------------------------------------------------
(* The ring of the worklet.                                                *)
createPcmQueue ==
    [cells |-> [i \in 0..Cap-1 |-> 0], readIdx |-> 0, writeIdx |-> 0, available |-> 0]

Step(i) == (i + 1) % Cap

(* One turn of the loop of enqueuePcm.                                     *)
enqueueKeepsRead(q, x) ==              \* mutant: overflow forgets readIdx
    [cells     |-> [q.cells EXCEPT ![q.writeIdx] = x],
     writeIdx  |-> Step(q.writeIdx),
     available |-> IF q.available < Cap THEN q.available + 1 ELSE q.available,
     readIdx   |-> q.readIdx]
enqueuePcm(q, x) ==
    [cells     |-> [q.cells EXCEPT ![q.writeIdx] = x],
     writeIdx  |-> Step(q.writeIdx),
     available |-> IF q.available < Cap THEN q.available + 1 ELSE q.available,
     readIdx   |-> IF q.available < Cap THEN q.readIdx ELSE Step(q.readIdx)]

firstPcm(q) == IF q.available = 0 THEN 0 ELSE q.cells[q.readIdx]
dequeuePcm(q) ==
    IF q.available = 0 THEN q
    ELSE [q EXCEPT !.readIdx = Step(q.readIdx), !.available = q.available - 1]

resetPcm(q) == [cells |-> q.cells, readIdx |-> 0, writeIdx |-> 0, available |-> 0]

(* What the ring holds, oldest first.                                      *)
Stored(q) == [k \in 1..q.available |-> q.cells[(q.readIdx + k - 1) % Cap]]

-----------------------------------------------------------------------------
(* The queue of chunks: each chunk is an array and the samples used of it. *)
createPcmChunkQueue == [chunks |-> <<>>, frames |-> 0]

Left(c) == Len(c.pcm) - c.offset

(* The loop of trimPcmChunkQueue: every turn but the last drops the whole  *)
(* of the first chunk, so there are at most as many turns as chunks.       *)
Smaller(a, b) == IF a < b THEN a ELSE b
trimOnce(q) ==
    IF q.frames <= Cap \/ q.chunks = <<>> THEN q
    ELSE LET c    == Head(q.chunks)
             drop == Smaller(Left(c), q.frames - Cap)
             used == [c EXCEPT !.offset = @ + drop]
         IN  [chunks |-> IF Left(used) = 0 THEN Tail(q.chunks) ELSE <<used>> \o Tail(q.chunks),
              frames |-> q.frames - drop]
trimPcmChunkQueue(q) ==
    LET turn[n \in 0..Len(q.chunks)] == IF n = 0 THEN q ELSE trimOnce(turn[n - 1])
    IN  turn[Len(q.chunks)]

enqueuePcmChunk(q, pcm) ==
    trimPcmChunkQueue([chunks |-> Append(q.chunks, [pcm |-> pcm, offset |-> 0]),
                       frames |-> q.frames + Len(pcm)])

firstPcmChunkSample(q) ==
    IF q.chunks = <<>> THEN 0
    ELSE LET c == Head(q.chunks) IN c.pcm[c.offset + 1]
dequeuePcmChunkSample(q) ==
    IF q.chunks = <<>> THEN q
    ELSE LET used == [Head(q.chunks) EXCEPT !.offset = @ + 1]
         IN  [chunks |-> IF Left(used) = 0 THEN Tail(q.chunks) ELSE <<used>> \o Tail(q.chunks),
              frames |-> q.frames - 1]

Waiting(q) ==
    LET upTo[n \in 0..Len(q.chunks)] ==
          IF n = 0 THEN <<>>
          ELSE upTo[n - 1] \o SubSeq(q.chunks[n].pcm, q.chunks[n].offset + 1, Len(q.chunks[n].pcm))
    IN  upTo[Len(q.chunks)]
=============================================================================
