------------------------- MODULE AudioOutput_proofs -------------------------
(***************************************************************************)
(* Proofs about AudioOutput.  The start protocol: the flag and the sound   *)
(* that stays on.  The two queues: the ring of the worklet and the chunks  *)
(* of the fallback both hold the newest samples, for every capacity, and   *)
(* so each chip's stream is a queue that drops its oldest.  The two rings: *)
(* how far one is ahead of the other, on which rests that the chips play   *)
(* together.                                                               *)
(***************************************************************************)
EXTENDS AudioOutput, WellFoundedInduction, TLAPS

-----------------------------------------------------------------------------
(* The ring.                                                               *)

Place(i) == i % Cap

LEMMA PlaceLow == ASSUME NEW i \in 0..Cap-1 PROVE Place(i) = i
  BY CapAssumption DEF Place
LEMMA PlaceHigh == ASSUME NEW i \in Cap..(2*Cap-1) PROVE Place(i) = i - Cap
  BY CapAssumption DEF Place

RingType(Sample) ==
    [cells : [0..Cap-1 -> Sample], readIdx : 0..Cap-1, writeIdx : 0..Cap-1, available : 0..Cap]
RingOK(q, Sample) ==
    q \in RingType(Sample) /\ q.writeIdx = Place(q.readIdx + q.available)

LEMMA EmptyRing ==
  ASSUME NEW Sample, 0 \in Sample
  PROVE  RingOK(createPcmQueue, Sample) /\ Stored(createPcmQueue) = <<>>
<1>1. createPcmQueue \in RingType(Sample)
  BY CapAssumption DEF createPcmQueue, RingType
<1>2. Place(0) = 0
  BY CapAssumption, PlaceLow
<1>3. Stored(createPcmQueue) = <<>>
  BY CapAssumption DEF Stored, createPcmQueue
<1> QED BY <1>1, <1>2, <1>3 DEF RingOK, createPcmQueue

LEMMA RingParts ==
  ASSUME NEW Sample, NEW q, RingOK(q, Sample)
  PROVE  \E cs \in [0..Cap-1 -> Sample], rd \in 0..Cap-1, wr \in 0..Cap-1, av \in 0..Cap :
           /\ q = [cells |-> cs, readIdx |-> rd, writeIdx |-> wr, available |-> av]
           /\ wr = Place(rd + av)
<1>1. /\ q.cells \in [0..Cap-1 -> Sample] /\ q.readIdx \in 0..Cap-1
      /\ q.writeIdx \in 0..Cap-1 /\ q.available \in 0..Cap
      /\ q = [cells |-> q.cells, readIdx |-> q.readIdx, writeIdx |-> q.writeIdx,
              available |-> q.available]
      /\ q.writeIdx = Place(q.readIdx + q.available)
  BY DEF RingOK, RingType
<1> QED BY <1>1

LEMMA ResetRing ==
  ASSUME NEW Sample, NEW q, RingOK(q, Sample)
  PROVE  RingOK(resetPcm(q), Sample) /\ Stored(resetPcm(q)) = <<>>
<1> PICK cs \in [0..Cap-1 -> Sample], rd \in 0..Cap-1, wr \in 0..Cap-1, av \in 0..Cap :
          q = [cells |-> cs, readIdx |-> rd, writeIdx |-> wr, available |-> av]
  BY RingParts
<1> DEFINE r == resetPcm(q)
<1>1. r = [cells |-> cs, readIdx |-> 0, writeIdx |-> 0, available |-> 0]
  BY DEF resetPcm
<1> HIDE DEF r
<1>2. r.readIdx = 0 /\ r.writeIdx = 0 /\ r.available = 0 /\ r \in RingType(Sample)
  <2>1. 0 \in 0..Cap-1 /\ 0 \in 0..Cap
    BY CapAssumption
  <2> QED BY <1>1, <2>1 DEF RingType
<1>3. Place(0) = 0
  BY CapAssumption, PlaceLow
<1>4. Stored(r) = <<>>
  BY <1>2 DEF Stored
<1> QED BY <1>2, <1>3, <1>4 DEF RingOK, r

LEMMA StoredShape ==
  ASSUME NEW Sample, NEW q, RingOK(q, Sample)
  PROVE  /\ Stored(q) \in Seq(Sample) /\ Len(Stored(q)) = q.available
         /\ \A k \in 1..q.available :
              /\ Place(q.readIdx + k - 1) \in 0..Cap-1
              /\ Stored(q)[k] = q.cells[Place(q.readIdx + k - 1)]
<1>1. q.available \in Nat /\ q.readIdx \in Nat /\ q.cells \in [0..Cap-1 -> Sample]
  BY CapAssumption DEF RingOK, RingType
<1>2. \A k \in 1..q.available : q.readIdx + k - 1 \in Nat
  BY <1>1
<1>3. \A i \in Nat : Place(i) \in 0..Cap-1
  BY CapAssumption DEF Place
<1>4. \A k \in 1..q.available : Place(q.readIdx + k - 1) \in 0..Cap-1
  BY <1>2, <1>3
<1>5. Stored(q) = [k \in 1..q.available |-> q.cells[Place(q.readIdx + k - 1)]]
  BY DEF Stored, Place
<1> HIDE DEF Place, Stored
<1>6. Stored(q) \in [1..q.available -> Sample]
  BY <1>1, <1>4, <1>5
<1>7. Stored(q) \in Seq(Sample) /\ Len(Stored(q)) = q.available
  BY <1>1, <1>6
<1>8. \A k \in 1..q.available : Stored(q)[k] = q.cells[Place(q.readIdx + k - 1)]
  BY <1>5
<1> QED BY <1>4, <1>7, <1>8

(* Taking a sample out of the ring takes the oldest.                       *)
LEMMA RingTakes ==
  ASSUME NEW Sample, NEW q, RingOK(q, Sample)
  PROVE  /\ RingOK(dequeuePcm(q), Sample)
         /\ q.available = 0 => Stored(q) = <<>> /\ firstPcm(q) = 0 /\ dequeuePcm(q) = q
         /\ q.available # 0 => /\ Stored(q) # <<>>
                               /\ firstPcm(q) = Head(Stored(q))
                               /\ Stored(dequeuePcm(q)) = Tail(Stored(q))
<1> DEFINE r == dequeuePcm(q)
<1>1. CASE q.available = 0
  BY <1>1, StoredShape DEF firstPcm, dequeuePcm
<1>2. CASE q.available # 0
  <2>0. /\ q.available \in 1..Cap /\ q.readIdx \in 0..Cap-1 /\ q.writeIdx \in 0..Cap-1
        /\ q.cells \in [0..Cap-1 -> Sample] /\ Cap \in Nat \ {0}
    BY <1>2, CapAssumption DEF RingOK, RingType
  <2>1. r = [q EXCEPT !.readIdx = Step(q.readIdx), !.available = q.available - 1]
    BY <1>2 DEF dequeuePcm
  <2>2. Step(q.readIdx) = IF q.readIdx + 1 = Cap THEN 0 ELSE q.readIdx + 1
    BY <2>0 DEF Step
  <2> HIDE DEF r
  <2>31. Step(q.readIdx) \in 0..Cap-1 /\ q.available - 1 \in 0..Cap
    BY <2>0, <2>2
  <2>3. /\ r \in RingType(Sample) /\ r.readIdx = Step(q.readIdx) /\ r.available = q.available - 1
        /\ r.cells = q.cells /\ r.writeIdx = q.writeIdx
    BY <2>1, <2>31 DEF RingOK, RingType
  <2>4. \A k \in 0..r.available : Place(r.readIdx + k) = Place(q.readIdx + k + 1)
    <3> TAKE k \in 0..r.available
    <3>1. CASE q.readIdx + 1 # Cap
      BY <3>1, <2>0, <2>2, <2>3
    <3>2. CASE q.readIdx + 1 = Cap
      <4>1. r.readIdx + k = k /\ q.readIdx + k + 1 = Cap + k /\ k \in 0..Cap-1
        BY <3>2, <2>0, <2>2, <2>3
      <4>2. Place(k) = k
        BY <4>1, PlaceLow
      <4>3. Place(Cap + k) = k
        BY <4>1, <2>0, PlaceHigh
      <4> QED BY <4>1, <4>2, <4>3
    <3> QED BY <3>1, <3>2
  <2>5. RingOK(r, Sample)
    <3>1. q.readIdx + r.available + 1 = q.readIdx + q.available /\ r.available \in 0..r.available
      BY <2>0, <2>3
    <3>2. Place(r.readIdx + r.available) = Place(q.readIdx + r.available + 1)
      BY <2>4, <3>1
    <3> QED BY <2>3, <3>1, <3>2 DEF RingOK
  <2>6. firstPcm(q) = Head(Stored(q)) /\ Stored(q) # <<>>
    <3>1. Stored(q)[1] = q.cells[Place(q.readIdx + 1 - 1)]
      BY <2>0, StoredShape
    <3>2. q.readIdx + 1 - 1 = q.readIdx /\ Place(q.readIdx) = q.readIdx
      BY <2>0, PlaceLow
    <3>3. Stored(q) \in Seq(Sample) /\ Len(Stored(q)) # 0
      BY <2>0, StoredShape
    <3> QED BY <3>1, <3>2, <3>3, <1>2 DEF firstPcm
  <2>7. Stored(r) = Tail(Stored(q))
    <3>1. Stored(q) \in Seq(Sample) /\ Len(Stored(q)) = q.available
      BY StoredShape
    <3>2. Stored(r) \in Seq(Sample) /\ Len(Stored(r)) = r.available
      BY <2>5, StoredShape
    <3>3. \A k \in 1..r.available : Stored(r)[k] = Stored(q)[k + 1]
      <4> TAKE k \in 1..r.available
      <4>1. Stored(r)[k] = r.cells[Place(r.readIdx + k - 1)]
        BY <2>5, StoredShape
      <4>2. k + 1 \in 1..q.available /\ k - 1 \in 0..r.available
        BY <2>0, <2>3
      <4>3. Stored(q)[k + 1] = q.cells[Place(q.readIdx + (k + 1) - 1)]
        BY <4>2, StoredShape
      <4>4. Place(r.readIdx + (k - 1)) = Place(q.readIdx + (k - 1) + 1)
        BY <4>2, <2>4
      <4>5. r.readIdx + (k - 1) = r.readIdx + k - 1 /\ q.readIdx + (k - 1) + 1 = q.readIdx + (k + 1) - 1
        BY <2>0, <2>3
      <4> QED BY <4>1, <4>3, <4>4, <4>5, <2>3
    <3> QED BY <3>1, <3>2, <3>3, <2>0, <2>3
  <2> QED BY <1>2, <2>5, <2>6, <2>7 DEF r
<1> QED BY <1>1, <1>2

(* Putting a sample in keeps the newest Cap, oldest first.                 *)
LEMMA RingPuts ==
  ASSUME NEW Sample, NEW q, RingOK(q, Sample), NEW x \in Sample
  PROVE  /\ RingOK(enqueuePcm(q, x), Sample)
         /\ Stored(enqueuePcm(q, x)) = YmFifo!Newest(Stored(q) \o <<x>>)
<1> PICK cs \in [0..Cap-1 -> Sample], rd \in 0..Cap-1, wr \in 0..Cap-1, av \in 0..Cap :
          /\ q = [cells |-> cs, readIdx |-> rd, writeIdx |-> wr, available |-> av]
          /\ wr = Place(rd + av)
  BY RingParts
<1> DEFINE Wrap(i)  == IF i < Cap THEN i ELSE i - Cap
           nextCell == [cs EXCEPT ![wr] = x]
           nextRead == IF av < Cap THEN rd ELSE Wrap(rd + 1)
           nextHeld == IF av < Cap THEN av + 1 ELSE av
           r == [cells |-> nextCell, readIdx |-> nextRead, writeIdx |-> Wrap(wr + 1),
                 available |-> nextHeld]
           s == Stored(q) \o <<x>>
<1> USE CapAssumption
<1>1. \A i \in 0..2*Cap-1 : Place(i) = Wrap(i)
  BY PlaceLow, PlaceHigh
<1>2. \A i \in 0..Cap-1 : Step(i) = Wrap(i + 1)
  BY DEF Step
<1>3. wr = Wrap(rd + av)
  BY <1>1
<1>4. enqueuePcm(q, x) = r
  BY <1>2 DEF enqueuePcm
<1>5. RingOK(r, Sample)
  <2>1. /\ nextCell \in [0..Cap-1 -> Sample] /\ nextRead \in 0..Cap-1
        /\ Wrap(wr + 1) \in 0..Cap-1 /\ nextHeld \in 0..Cap
    OBVIOUS
  <2>2. nextRead + nextHeld \in 0..2*Cap-1
    OBVIOUS
  <2>3. Wrap(wr + 1) = Wrap(nextRead + nextHeld)
    BY <1>3
  <2>4. Wrap(wr + 1) = Place(nextRead + nextHeld)
    BY <1>1, <2>2, <2>3
  <2> HIDE DEF nextCell, nextRead, nextHeld, Wrap
  <2> QED BY <2>1, <2>4 DEF RingOK, RingType
<1>6. /\ s \in Seq(Sample) /\ Len(s) = av + 1 /\ s[av + 1] = x
      /\ \A k \in 1..av : s[k] = cs[Wrap(rd + k - 1)]
  <2>1. /\ Stored(q) \in Seq(Sample) /\ Len(Stored(q)) = av
        /\ \A k \in 1..av : Stored(q)[k] = cs[Place(rd + k - 1)]
    BY StoredShape
  <2>2. \A k \in 1..av : Place(rd + k - 1) = Wrap(rd + k - 1)
    <3> TAKE k \in 1..av
    <3> rd + k - 1 \in 0..2*Cap-1
      OBVIOUS
    <3> QED BY <1>1
  <2> HIDE DEF Wrap
  <2> QED BY <2>1, <2>2
<1>7. /\ Stored(r) \in Seq(Sample) /\ Len(Stored(r)) = nextHeld
      /\ \A k \in 1..nextHeld : Stored(r)[k] = nextCell[Wrap(nextRead + k - 1)]
  <2>1. /\ Stored(r) \in Seq(Sample) /\ Len(Stored(r)) = nextHeld
        /\ \A k \in 1..nextHeld : Stored(r)[k] = nextCell[Place(nextRead + k - 1)]
    <3> HIDE DEF nextCell, nextRead, nextHeld, Wrap
    <3> QED BY <1>5, StoredShape
  <2>2. \A k \in 1..nextHeld : Place(nextRead + k - 1) = Wrap(nextRead + k - 1)
    <3> TAKE k \in 1..nextHeld
    <3> nextRead + k - 1 \in 0..2*Cap-1
      OBVIOUS
    <3> QED BY <1>1
  <2> HIDE DEF nextCell, nextRead, nextHeld, Wrap
  <2> QED BY <2>1, <2>2
<1> HIDE DEF r, s
<1>8. Stored(r) = YmFifo!Newest(s)
  <2>1. CASE av < Cap
    <3>1. \A k \in 1..av : Stored(r)[k] = s[k]
      <4> TAKE k \in 1..av
      <4>1. Wrap(nextRead + k - 1) # wr /\ Wrap(nextRead + k - 1) \in 0..Cap-1 /\ k \in 1..nextHeld
        BY <1>3, <2>1
      <4>2. nextRead = rd
        BY <2>1
      <4>3. Stored(r)[k] = cs[Wrap(nextRead + k - 1)]
        <5> HIDE DEF nextRead, nextHeld, Wrap
        <5> QED BY <4>1, <1>7
      <4> HIDE DEF nextCell, nextRead, nextHeld, Wrap
      <4> QED BY <4>2, <4>3, <1>6
    <3>2. Stored(r)[av + 1] = s[av + 1]
      <4>1. Wrap(nextRead + (av + 1) - 1) = wr /\ av + 1 \in 1..nextHeld
        BY <1>3, <2>1
      <4>2. Stored(r)[av + 1] = nextCell[wr]
        <5> HIDE DEF nextCell, nextRead, nextHeld, Wrap
        <5> QED BY <4>1, <1>7
      <4> QED BY <4>2, <1>6
    <3>3. Len(s) <= Cap /\ Len(Stored(r)) = Len(s)
      BY <1>6, <1>7, <2>1
    <3>4. \A k \in 1..Len(s) : Stored(r)[k] = s[k]
      BY <3>1, <3>2, <1>6
    <3>5. Stored(r) = s
      BY <3>3, <3>4, <1>6, <1>7
    <3> QED BY <3>3, <3>5 DEF YmFifo!Newest
  <2>2. CASE av = Cap
    <3>1. Len(s) = Cap + 1 /\ nextHeld = Cap /\ wr = rd
      BY <2>2, <1>3, <1>6
    <3>2. YmFifo!Newest(s) = SubSeq(s, 2, Cap + 1)
      <4>1. ~(Len(s) <= Cap) /\ Len(s) - Cap + 1 = 2
        BY <3>1
      <4> QED BY <4>1, <3>1 DEF YmFifo!Newest
    <3>3. \A k \in 1..Cap-1 : Stored(r)[k] = s[k + 1]
      <4> TAKE k \in 1..Cap-1
      <4>1. /\ Wrap(nextRead + k - 1) = Wrap(rd + (k + 1) - 1)
            /\ Wrap(nextRead + k - 1) # wr /\ Wrap(nextRead + k - 1) \in 0..Cap-1
            /\ k \in 1..nextHeld /\ k + 1 \in 1..av
        BY <2>2, <3>1
      <4>2. Stored(r)[k] = cs[Wrap(nextRead + k - 1)]
        <5> HIDE DEF nextRead, nextHeld, Wrap
        <5> QED BY <4>1, <1>7
      <4> HIDE DEF nextCell, nextRead, nextHeld, Wrap
      <4> QED BY <4>1, <4>2, <1>6
    <3>4. Stored(r)[Cap] = s[Cap + 1]
      <4>1. Wrap(nextRead + Cap - 1) = wr /\ Cap \in 1..nextHeld
        BY <2>2, <3>1
      <4>2. Stored(r)[Cap] = nextCell[wr]
        <5> HIDE DEF nextCell, nextRead, nextHeld, Wrap
        <5> QED BY <4>1, <1>7
      <4> QED BY <4>2, <1>6, <2>2
    <3>5. /\ SubSeq(s, 2, Cap + 1) \in Seq(Sample) /\ Len(SubSeq(s, 2, Cap + 1)) = Cap
          /\ \A k \in 1..Cap : SubSeq(s, 2, Cap + 1)[k] = s[k + 1]
      BY <3>1, <1>6
    <3>6. \A k \in 1..Cap : Stored(r)[k] = s[k + 1]
      BY <3>3, <3>4
    <3>7. Stored(r) = SubSeq(s, 2, Cap + 1)
      BY <3>1, <3>5, <3>6, <1>7
    <3> QED BY <3>2, <3>7
  <2> QED BY <2>1, <2>2
<1> QED BY <1>4, <1>5, <1>8 DEF s

-----------------------------------------------------------------------------
(* The start protocol.                                                     *)

RendererType == [ctx : {"none", "suspended", "running"},
                 sink : {"none", "worklet", "script", "silent", "cues"},
                 at : {"module", "resume", "done", "failed"}]
StartType ==
    /\ soundStarted \in BOOLEAN /\ soundStartInFlight \in BOOLEAN /\ refused \in BOOLEAN
    /\ renderers \in Seq(RendererType)

NoneFailed == \A i \in 1..Last : renderers[i].at # "failed"
LoadingHasNoSink == \A i \in 1..Last : renderers[i].at = "module" => renderers[i].sink = "none"
StartIsKnown == ~refused /\ NoneFailed /\ Last > 0 => soundStarted \/ soundStartInFlight
StartInv == StartType /\ LoadingHasNoSink /\ StartIsKnown /\ FlagTellsTruth

(* What a step of the page does to the start protocol.                     *)
StartStep ==
    \/ GestureStarts
    \/ GestureRefused
    \/ \E i \in 1..Last : ModuleSettles(i) \/ ContextRuns(i) \/ Resumed(i) \/ ResumeRejected(i)
    \/ UNCHANGED startVars

LEMMA NextStarts == [Next]_allVars => StartStep
<1> SUFFICES ASSUME [Next]_allVars PROVE StartStep
  OBVIOUS
<1>1. CASE Starts
  BY <1>1 DEF Starts, StartStep
<1>2. CASE Refuses
  BY <1>2 DEF Refuses, StartStep
<1>3. ASSUME NEW i \in 1..Last, Loads(i) \/ Settles(i) PROVE StartStep
  BY <1>3 DEF Loads, Settles, StartStep
<1>4. CASE pushSoundPcm \/ resetPcmStreams \/ HandleReset \/ HandlePcm \/ CopySample
  BY <1>4 DEF pushSoundPcm, resetPcmStreams, HandleReset, HandlePcm, CopySample, StartStep
<1>5. CASE BeginQuantum \/ RenderSample \/ RenderScriptSample
  BY <1>5 DEF BeginQuantum, RenderSample, RenderScriptSample, StartStep
<1>6. CASE UNCHANGED allVars
  BY <1>6 DEF allVars, StartStep
<1> QED BY <1>1, <1>2, <1>3, <1>4, <1>5, <1>6 DEF Next

LEMMA FallbackSink == startScriptProcessorFallback \in {"script", "silent"}
  BY DEF startScriptProcessorFallback
LEMMA AfterSinkState == ASSUME NEW ctx PROVE AfterSink(ctx) \in {"resume", "done"}
  BY DEF AfterSink

LEMMA BegunType ==
  ASSUME NEW r \in Begun
  PROVE  r \in RendererType /\ (r.at = "module" => r.sink = "none")
<1>1. CASE ~api.context
  BY <1>1 DEF Begun, Renderer, RendererType
<1>2. CASE api.context
  <2>1. CASE r = Renderer("none", "none", "failed")
    BY <2>1 DEF Renderer, RendererType
  <2>2. CASE r # Renderer("none", "none", "failed")
    <3>1. PICK ctx \in {"suspended", "running"} :
             r = IF api.worklet THEN Renderer(ctx, "none", "module")
                 ELSE Renderer(ctx, startScriptProcessorFallback, AfterSink(ctx))
      BY <1>2, <2>2 DEF Begun
    <3>2. r = Renderer(ctx, "none", "module") \/ r = Renderer(ctx, startScriptProcessorFallback, AfterSink(ctx))
      BY <3>1
    <3> QED BY <3>2, FallbackSink, AfterSinkState DEF Renderer, RendererType
  <2> QED BY <2>1, <2>2
<1> QED BY <1>1, <1>2

(* A pending start() goes on to resume(), or settles.                      *)
LEMMA PendingGoes ==
  ASSUME StartInv, NEW i \in 1..Last, Pending(renderers[i]),
         NEW r \in RendererType, r.at # "module", Goes(i, r)
  PROVE  StartInv'
<1>1. /\ renderers' = [renderers EXCEPT ![i] = r] /\ refused' = refused
      /\ soundStarted' = (soundStarted \/ r.at = "done")
      /\ soundStartInFlight' = (soundStartInFlight /\ r.at \notin {"done", "failed"})
  BY DEF Goes, Settle
<1>2. /\ renderers' \in Seq(RendererType) /\ Last' = Last
      /\ \A j \in 1..Last : renderers'[j] = IF j = i THEN r ELSE renderers[j]
  BY <1>1 DEF StartInv, StartType, Last
<1>3. StartType'
  BY <1>1, <1>2 DEF StartInv, StartType
<1>4. LoadingHasNoSink'
  BY <1>2 DEF StartInv, LoadingHasNoSink
<1>5. r.at \in {"resume", "done", "failed"} /\ renderers[i].at \in {"module", "resume"}
  BY DEF RendererType, Pending
<1>6. StartIsKnown'
  <2> SUFFICES ASSUME ~refused, NoneFailed', Last > 0 PROVE (soundStarted \/ soundStartInFlight)'
    BY <1>1, <1>2 DEF StartIsKnown
  <2>1. \A j \in 1..Last : renderers'[j].at # "failed"
    BY <1>2 DEF NoneFailed
  <2>2. NoneFailed
    BY <2>1, <1>2, <1>5 DEF NoneFailed
  <2>3. r.at # "failed"
    BY <2>1, <1>2
  <2> QED BY <2>2, <2>3, <1>1, <1>5 DEF StartInv, StartIsKnown
<1>7. FlagTellsTruth'
  <2> SUFFICES ASSUME ~refused
               PROVE  /\ soundStartInFlight' <=> \E j \in 1..Last : Pending(renderers'[j])
                      /\ \A j, k \in 1..Last : Pending(renderers'[j]) /\ Pending(renderers'[k]) => j = k
                      /\ soundStarted' => ~soundStartInFlight'
    BY <1>1, <1>2 DEF FlagTellsTruth
  <2>1. soundStartInFlight /\ ~soundStarted
    BY DEF StartInv, FlagTellsTruth
  <2>2. \A j \in 1..Last : Pending(renderers[j]) => j = i
    BY DEF StartInv, FlagTellsTruth
  <2>3. \A j \in 1..Last : Pending(renderers'[j]) => j = i
    BY <2>2, <1>2
  <2>4. Pending(renderers'[i]) <=> r.at = "resume"
    BY <1>2, <1>5 DEF Pending
  <2>5. soundStartInFlight' <=> r.at = "resume"
    BY <2>1, <1>1, <1>5
  <2> QED BY <2>1, <2>3, <2>4, <2>5, <1>1, <1>5
<1> QED BY <1>3, <1>4, <1>6, <1>7 DEF StartInv

LEMMA StartInvInit == Init => StartInv
<1> SUFFICES ASSUME Init PROVE StartInv
  OBVIOUS
<1>1. /\ renderers = <<>> /\ soundStarted = FALSE /\ soundStartInFlight = FALSE /\ refused = FALSE
  BY DEF Init, StartInit
<1>2. Last = 0 /\ renderers \in Seq(RendererType)
  BY <1>1 DEF Last
<1>3. \A i \in 1..Last : FALSE
  BY <1>2
<1>4. StartType
  BY <1>1, <1>2 DEF StartType
<1>5. LoadingHasNoSink /\ StartIsKnown
  BY <1>2, <1>3 DEF LoadingHasNoSink, StartIsKnown
<1>6. FlagTellsTruth
  BY <1>1, <1>3 DEF FlagTellsTruth
<1> QED BY <1>4, <1>5, <1>6 DEF StartInv

LEMMA StartInvNext == StartInv /\ StartStep => StartInv'
<1> SUFFICES ASSUME StartInv, StartStep PROVE StartInv'
  OBVIOUS
<1>1. CASE GestureStarts
  <2>1. PICK r \in Begun : /\ renderers' = Append(renderers, r)
                           /\ soundStarted' = (r.at = "done") /\ soundStartInFlight' = Pending(r)
    BY <1>1 DEF GestureStarts
  <2>2. r \in RendererType /\ (r.at = "module" => r.sink = "none")
    BY BegunType
  <2>3. refused' = refused /\ ~soundStarted /\ ~soundStartInFlight
    BY <1>1 DEF GestureStarts
  <2>4. /\ renderers' \in Seq(RendererType) /\ Last' = Last + 1 /\ Last \in Nat
        /\ renderers'[Last + 1] = r /\ \A j \in 1..Last : renderers'[j] = renderers[j]
    BY <2>1, <2>2 DEF StartInv, StartType, Last
  <2>5. StartType'
    BY <2>1, <2>3, <2>4 DEF StartInv, StartType, Pending
  <2>6. LoadingHasNoSink'
    BY <2>2, <2>4 DEF StartInv, LoadingHasNoSink
  <2>7. StartIsKnown'
    <3>1. NoneFailed' => r.at # "failed"
      BY <2>4 DEF NoneFailed
    <3> QED BY <3>1, <2>1, <2>2 DEF StartIsKnown, RendererType, Pending
  <2>8. FlagTellsTruth'
    <3> SUFFICES ASSUME ~refused
                 PROVE  /\ soundStartInFlight' <=> \E j \in 1..Last' : Pending(renderers'[j])
                        /\ \A j, k \in 1..Last' : Pending(renderers'[j]) /\ Pending(renderers'[k]) => j = k
                        /\ soundStarted' => ~soundStartInFlight'
      BY <2>3 DEF FlagTellsTruth
    <3>1. \A j \in 1..Last : ~Pending(renderers'[j])
      BY <2>3, <2>4 DEF StartInv, FlagTellsTruth
    <3>2. \A j \in 1..Last' : Pending(renderers'[j]) => j = Last'
      BY <3>1, <2>4
    <3>3. Pending(renderers'[Last']) <=> Pending(r)
      BY <2>4
    <3>4. Last' \in 1..Last'
      BY <2>4
    <3>5. r.at = "done" => ~Pending(r)
      BY DEF Pending
    <3> QED BY <3>2, <3>3, <3>4, <3>5, <2>1
  <2> QED BY <2>5, <2>6, <2>7, <2>8 DEF StartInv
<1>2. CASE GestureRefused
  <2>1. /\ soundStarted' = soundStarted /\ renderers' = renderers /\ soundStartInFlight' = FALSE
        /\ refused' = (refused \/ ~soundStarted) /\ (soundStarted \/ soundStartInFlight)
    BY <1>2 DEF GestureRefused
  <2> QED BY <2>1 DEF StartInv, StartType, LoadingHasNoSink, StartIsKnown, FlagTellsTruth, Last, NoneFailed
<1>3. ASSUME NEW i \in 1..Last, ModuleSettles(i) PROVE StartInv'
  <2>1. PICK sink \in {"worklet", startScriptProcessorFallback} :
           Goes(i, Renderer(renderers[i].ctx, sink, AfterSink(renderers[i].ctx)))
    BY <1>3 DEF ModuleSettles
  <2>2. renderers[i] \in RendererType
    BY DEF StartInv, StartType, Last
  <2> DEFINE r == Renderer(renderers[i].ctx, sink, AfterSink(renderers[i].ctx))
  <2>3. r \in RendererType /\ r.at # "module"
    BY <2>2, FallbackSink, AfterSinkState DEF Renderer, RendererType
  <2>4. Pending(renderers[i])
    BY <1>3 DEF ModuleSettles, Pending
  <2> HIDE DEF r
  <2>5. Goes(i, r)
    BY <2>1 DEF r
  <2> QED BY <2>3, <2>4, <2>5, PendingGoes
<1>4. ASSUME NEW i \in 1..Last, ContextRuns(i) PROVE StartInv'
  <2>1. /\ renderers' = [renderers EXCEPT ![i].ctx = "running"]
        /\ soundStarted' = soundStarted /\ soundStartInFlight' = soundStartInFlight /\ refused' = refused
    BY <1>4 DEF ContextRuns
  <2> DEFINE r == [renderers[i] EXCEPT !.ctx = "running"]
  <2>6. renderers[i] \in RendererType
    BY DEF StartInv, StartType, Last
  <2>7. r \in RendererType /\ r.at = renderers[i].at /\ r.sink = renderers[i].sink
    BY <2>6 DEF RendererType
  <2>8. renderers' = [renderers EXCEPT ![i] = r]
    BY <2>1
  <2> HIDE DEF r
  <2>2. /\ renderers' \in Seq(RendererType) /\ Last' = Last
        /\ \A j \in 1..Last : renderers'[j].at = renderers[j].at /\ renderers'[j].sink = renderers[j].sink
    BY <2>7, <2>8 DEF StartInv, StartType, Last
  <2>3. \A j \in 1..Last : Pending(renderers'[j]) <=> Pending(renderers[j])
    BY <2>2 DEF Pending
  <2>4. FlagTellsTruth'
    BY <2>1, <2>2, <2>3 DEF StartInv, FlagTellsTruth
  <2>5. StartType' /\ LoadingHasNoSink' /\ StartIsKnown'
    BY <2>1, <2>2 DEF StartInv, StartType, LoadingHasNoSink, StartIsKnown, NoneFailed
  <2> QED BY <2>4, <2>5 DEF StartInv
<1>5. ASSUME NEW i \in 1..Last, Resumed(i) \/ ResumeRejected(i) PROVE StartInv'
  <2>1. PICK at \in {"done", "failed"} : Goes(i, [renderers[i] EXCEPT !.at = at])
    BY <1>5 DEF Resumed, ResumeRejected
  <2>2. renderers[i] \in RendererType
    BY DEF StartInv, StartType, Last
  <2> DEFINE r == [renderers[i] EXCEPT !.at = at]
  <2>3. r \in RendererType /\ r.at # "module"
    BY <2>2 DEF RendererType
  <2>4. Pending(renderers[i])
    BY <1>5 DEF Resumed, ResumeRejected, Pending
  <2> HIDE DEF r
  <2>5. Goes(i, r)
    BY <2>1 DEF r
  <2> QED BY <2>3, <2>4, <2>5, PendingGoes
<1>6. CASE UNCHANGED startVars
  BY <1>6 DEF startVars, StartInv, StartType, LoadingHasNoSink, StartIsKnown, FlagTellsTruth, Last, NoneFailed
<1> QED BY <1>1, <1>2, <1>3, <1>4, <1>5, <1>6 DEF StartStep

LEMMA StartInvAlways == Spec => []StartInv
<1>1. StartInv /\ [Next]_allVars => StartInv'
  BY StartInvNext, NextStarts
<1> QED BY <1>1, StartInvInit, PTL DEF Spec

(* FlagTellsTruth holds whatever the browser offers and however many       *)
(* renderers the page makes.                                               *)
THEOREM FlagAlwaysTellsTruth == Spec => []FlagTellsTruth
<1>1. StartInv => FlagTellsTruth
  BY DEF StartInv
<1> QED BY <1>1, StartInvAlways, PTL

(* SoundStaysOn likewise: with a true flag no gesture replaces a renderer  *)
(* that runs.                                                              *)
THEOREM SoundAlwaysStaysOn == Spec => SoundStaysOn
<1>1. ASSUME StartInv, StartStep, SoundOn, ~refused, NoneFailed PROVE SoundOn'
  <2>1. Last \in 1..Last /\ renderers \in Seq(RendererType) /\ Last \in Nat
    BY <1>1 DEF SoundOn, StartInv, StartType, Last
  <2>2. (isRunning(renderers[Last]) /\ soundStarted) \/ soundStartInFlight
    BY <1>1, <2>1 DEF SoundOn, StartInv, StartIsKnown
  <2>3. CASE GestureStarts
    BY <1>1, <2>1, <2>3 DEF GestureStarts, StartInv, StartIsKnown
  <2>4. CASE GestureRefused \/ UNCHANGED startVars
    <3>1. renderers' = renderers
      BY <2>4 DEF GestureRefused, startVars
    <3> QED BY <3>1, <1>1 DEF SoundOn, Last
  <2>5. ASSUME NEW i \in 1..Last, NEW r, renderers' = [renderers EXCEPT ![i] = r],
               i = Last => isRunning(r)
        PROVE  SoundOn'
    BY <1>1, <2>1, <2>5 DEF SoundOn, Last
  <2>6. ASSUME NEW i \in 1..Last, ModuleSettles(i) PROVE SoundOn'
    <3>1. PICK sink : renderers' = [renderers EXCEPT ![i] = Renderer(renderers[i].ctx, sink, AfterSink(renderers[i].ctx))]
      BY <2>6 DEF ModuleSettles, Goes
    <3>2. i # Last
      BY <1>1, <2>6 DEF ModuleSettles, StartInv, LoadingHasNoSink, SoundOn, isRunning
    <3> QED BY <3>1, <3>2, <2>5
  <2>7. ASSUME NEW i \in 1..Last, ContextRuns(i) PROVE SoundOn'
    <3>1. renderers[i] \in RendererType
      BY <2>1 DEF Last
    <3>2. renderers' = [renderers EXCEPT ![i] = [renderers[i] EXCEPT !.ctx = "running"]]
      BY <2>7 DEF ContextRuns
    <3>3. i = Last => isRunning([renderers[i] EXCEPT !.ctx = "running"])
      BY <1>1, <3>1 DEF SoundOn, isRunning, RendererType
    <3> QED BY <3>2, <3>3, <2>5
  <2>8. ASSUME NEW i \in 1..Last, Resumed(i) \/ ResumeRejected(i) PROVE SoundOn'
    <3>1. renderers[i] \in RendererType
      BY <2>1 DEF Last
    <3>2. PICK at : renderers' = [renderers EXCEPT ![i] = [renderers[i] EXCEPT !.at = at]]
      BY <2>8 DEF Resumed, ResumeRejected, Goes
    <3>3. i = Last => isRunning([renderers[i] EXCEPT !.at = at])
      BY <1>1, <3>1 DEF SoundOn, isRunning, RendererType
    <3> QED BY <3>2, <3>3, <2>5
  <2> QED BY <1>1, <2>3, <2>4, <2>6, <2>7, <2>8 DEF StartStep
<1>2. StartInv /\ [Next]_allVars
        => [SoundOn /\ ~refused /\ (\A i \in 1..Last : renderers[i].at # "failed") => SoundOn']_startVars
  BY <1>1, NextStarts DEF NoneFailed
<1> QED BY <1>2, StartInvAlways, PTL DEF Spec, SoundStaysOn

-----------------------------------------------------------------------------
(* The streams in the worklet.                                             *)

(* The sink of the renderer in use changes only as its module settles or a *)
(* new one takes its place.                                                *)
LEMMA SinkKept ==
  ASSUME StartInv, NEW i \in 1..Last,
         \/ i < Last /\ ModuleSettles(i)
         \/ ContextRuns(i) \/ Resumed(i) \/ ResumeRejected(i)
  PROVE  Sink' = Sink
<1>1. renderers \in Seq(RendererType) /\ Last \in Nat
  BY DEF StartInv, StartType, Last
<1>2. renderers[i] \in RendererType
  BY <1>1 DEF Last
<1>3. ASSUME NEW r \in RendererType, renderers' = [renderers EXCEPT ![i] = r],
             i # Last \/ r.sink = renderers[i].sink
      PROVE  Sink' = Sink
  <2>1. Last' = Last /\ Last > 0 /\ renderers'[Last] = IF i = Last THEN r ELSE renderers[Last]
    BY <1>1, <1>3 DEF Last
  <2> QED BY <2>1, <1>3 DEF Sink
<1>4. CASE i < Last /\ ModuleSettles(i)
  <2>1. PICK sink \in {"worklet", startScriptProcessorFallback} :
           Goes(i, Renderer(renderers[i].ctx, sink, AfterSink(renderers[i].ctx)))
    BY <1>4 DEF ModuleSettles
  <2> DEFINE r == Renderer(renderers[i].ctx, sink, AfterSink(renderers[i].ctx))
  <2>2. r \in RendererType
    BY <1>2, FallbackSink, AfterSinkState DEF Renderer, RendererType
  <2>3. renderers' = [renderers EXCEPT ![i] = r]
    BY <2>1 DEF Goes
  <2>4. i # Last
    BY <1>1, <1>4
  <2> HIDE DEF r
  <2> QED BY <1>3, <2>2, <2>3, <2>4
<1>5. CASE ContextRuns(i)
  <2> DEFINE r == [renderers[i] EXCEPT !.ctx = "running"]
  <2>1. renderers' = [renderers EXCEPT ![i] = r]
    BY <1>5 DEF ContextRuns
  <2>2. r \in RendererType /\ r.sink = renderers[i].sink
    BY <1>2 DEF RendererType
  <2> HIDE DEF r
  <2> QED BY <1>3, <2>1, <2>2
<1>6. CASE Resumed(i) \/ ResumeRejected(i)
  <2>1. PICK at \in {"done", "failed"} : Goes(i, [renderers[i] EXCEPT !.at = at])
    BY <1>6 DEF Resumed, ResumeRejected
  <2> DEFINE r == [renderers[i] EXCEPT !.at = at]
  <2>2. r \in RendererType /\ r.sink = renderers[i].sink
    BY <1>2 DEF RendererType
  <2>3. renderers' = [renderers EXCEPT ![i] = r]
    BY <2>1 DEF Goes
  <2> HIDE DEF r
  <2> QED BY <1>3, <2>2, <2>3
<1> QED BY <1>4, <1>5, <1>6

MessageType == [type : {"reset", "reset_pcm", "ym_pcm", "pokey_pcm"}, pcm : Seq(Pcm)]
JobType == [kind : {"idle", "copy", "render"}, chip : Chips, todo : Seq(Pcm), left : Int]

RingsOK == /\ ring \in [Chips -> RingType(Nat)] /\ \A chip \in Chips : RingOK(ring[chip], Nat)
           /\ Sink # "worklet" => ring = EmptyRings
PortOK == /\ port \in Seq(MessageType)
          /\ \A k \in 1..Len(port) : port[k].type \in {"ym_pcm", "pokey_pcm"} => port[k].pcm # <<>>
JobOK == job \in JobType /\ (job.kind = "copy" => job.todo # <<>>)
StreamInv == frame \in Nat /\ RingsOK /\ PortOK /\ JobOK

LEMMA PcmIsNat == Pcm \subseteq Nat
  BY SizesAssumption DEF Pcm, Samples

LEMMA FrameIsPcm ==
  ASSUME NEW f \in 1..MaxFrames
  PROVE  Samples(f) \in Seq(Pcm) /\ Samples(f) # <<>>
<1>1. \A k \in 1..FrameSamples : Samples(f)[k] \in Pcm
  BY DEF Pcm
<1>2. Samples(f) \in [1..FrameSamples -> Pcm]
  BY <1>1 DEF Samples
<1>3. Samples(f) \in Seq(Pcm) /\ Len(Samples(f)) = FrameSamples
  BY <1>2, SizesAssumption
<1> QED BY <1>3, SizesAssumption

LEMMA EmptyRingsOK ==
  /\ EmptyRings \in [Chips -> RingType(Nat)]
  /\ \A chip \in Chips : RingOK(EmptyRings[chip], Nat) /\ Stored(EmptyRings[chip]) = <<>>
  BY EmptyRing DEF EmptyRings, RingOK

LEMMA IdleType == Idle \in JobType /\ Idle.kind = "idle"
  BY DEF Idle, JobType, Chips
LEMMA RenderingType == ASSUME NEW n \in Int PROVE Rendering(n) \in JobType /\ Rendering(n).kind # "copy"
<1>1. CASE n = 0
  BY <1>1, IdleType DEF Rendering
<1>2. CASE n # 0
  <2>1. Rendering(n) = [Idle EXCEPT !.kind = "render", !.left = n]
    BY <1>2 DEF Rendering
  <2> QED BY <2>1, IdleType DEF JobType
<1> QED BY <1>1, <1>2

LEMMA CopyingType ==
  ASSUME NEW chip \in Chips, NEW pcm \in Seq(Pcm)
  PROVE  Copying(chip, pcm) \in JobType /\ Copying(chip, pcm).todo = pcm
  BY IdleType DEF Copying, JobType

-----------------------------------------------------------------------------
(* What a step does to the stream of a chip in the worklet.                *)

Untouched(chip) == Stored(ring[chip])' = Stored(ring[chip]) /\ heard[chip]' = heard[chip]
Cleared(chip)   == Stored(ring[chip])' = <<>> /\ heard[chip]' = 0
Taken(chip) ==
    IF Stored(ring[chip]) = <<>> THEN heard[chip]' = 0 /\ Stored(ring[chip])' = Stored(ring[chip])
    ELSE heard[chip]' = Head(Stored(ring[chip])) /\ Stored(ring[chip])' = Tail(Stored(ring[chip]))
PutOne(chip) ==
    \E n \in Pcm : /\ Stored(ring[chip])' = YmFifo!Newest(Stored(ring[chip]) \o <<n>>)
                   /\ heard[chip]' = heard[chip]
FifoStep(chip) == Untouched(chip) \/ Cleared(chip) \/ Taken(chip) \/ PutOne(chip)
Good == StreamInv' /\ \A chip \in Chips : FifoStep(chip)

LEMMA StreamInit == Init => StreamInv /\ \A chip \in Chips : Stored(ring[chip]) = <<>> /\ heard[chip] = 0
<1> SUFFICES ASSUME Init PROVE StreamInv /\ \A chip \in Chips : Stored(ring[chip]) = <<>> /\ heard[chip] = 0
  OBVIOUS
<1>1. frame = 0 /\ port = <<>> /\ ring = EmptyRings /\ job = Idle /\ heard = Silent
  BY DEF Init
<1>2. RingsOK
  BY <1>1, EmptyRingsOK DEF RingsOK
<1>3. PortOK
  BY <1>1 DEF PortOK
<1>4. JobOK
  BY <1>1, IdleType DEF JobOK
<1> QED BY <1>1, <1>2, <1>3, <1>4, EmptyRingsOK DEF StreamInv, Silent

LEMMA NewStreamGood ==
  ASSUME StreamInv, NEW messages, NewStream(messages),
         messages \in {<<>>, <<Reset("reset")>>}
  PROVE  Good
<1>1. frame' = frame /\ port' = messages /\ ring' = EmptyRings /\ job' = Idle /\ heard' = Silent
  BY DEF NewStream
<1>2. RingsOK'
  BY <1>1, EmptyRingsOK DEF RingsOK
<1>3. messages \in Seq(MessageType) /\ \A k \in 1..Len(messages) : messages[k].type = "reset"
  <2>1. Reset("reset") \in MessageType /\ Reset("reset").type = "reset"
    BY DEF Reset, Message, MessageType
  <2>2. CASE messages = <<>>
    BY <2>2
  <2>3. CASE messages = <<Reset("reset")>>
    <3> DEFINE m == Reset("reset")
    <3> HIDE DEF m
    <3> m \in MessageType /\ m.type = "reset" /\ messages = <<m>>
      BY <2>1, <2>3 DEF m
    <3> QED OBVIOUS
  <2> QED BY <2>2, <2>3
<1>4. PortOK'
  BY <1>1, <1>3 DEF PortOK
<1>5. JobOK'
  BY <1>1, IdleType DEF JobOK
<1>6. ASSUME NEW chip \in Chips PROVE Cleared(chip)
  BY <1>1, EmptyRingsOK DEF Cleared, Silent
<1> QED BY <1>1, <1>2, <1>4, <1>5, <1>6 DEF Good, StreamInv, FifoStep

(* The port and the job change, the rings do not.                          *)
LEMMA StreamWaits ==
  ASSUME StreamInv, ring' = ring, heard' = heard, Sink' = Sink,
         frame' \in Nat, PortOK', JobOK'
  PROVE  Good
<1>1. RingsOK'
  BY DEF StreamInv, RingsOK
<1>2. ASSUME NEW chip \in Chips PROVE Untouched(chip)
  BY DEF Untouched
<1> QED BY <1>1, <1>2 DEF Good, StreamInv, FifoStep

LEMMA PortTail ==
  ASSUME StreamInv, port # <<>>, port' = Tail(port)
  PROVE  PortOK' /\ Head(port) \in MessageType
         /\ (Head(port).type \in {"ym_pcm", "pokey_pcm"} => Head(port).pcm # <<>>)
<1>1. port \in Seq(MessageType) /\ port # <<>>
  BY DEF StreamInv, PortOK
<1>2. /\ Tail(port) \in Seq(MessageType) /\ Head(port) = port[1] /\ 1 \in 1..Len(port)
      /\ port[1] \in MessageType
      /\ \A k \in 1..Len(Tail(port)) : Tail(port)[k] = port[k + 1] /\ k + 1 \in 1..Len(port)
  BY <1>1
<1> QED BY <1>2 DEF StreamInv, PortOK

LEMMA PushGood ==
  ASSUME StreamInv, pushSoundPcm
  PROVE  Good
<1>1. /\ frame < MaxFrames /\ frame' = frame + 1 /\ frame \in Nat
      /\ ring' = ring /\ heard' = heard /\ job' = job /\ UNCHANGED startVars
  BY DEF pushSoundPcm, StreamInv
<1>2. Sink' = Sink
  BY <1>1 DEF startVars, Sink, Last
<1>4. PushMessages(frame + 1) \/ port' = port
  BY DEF pushSoundPcm, PushNothing, PushChunks
<1>5. PortOK'
  <2>1. CASE port' = port
    BY <2>1 DEF StreamInv, PortOK
  <2>2. CASE PushMessages(frame + 1)
    <3> DEFINE y == Message("ym_pcm", Samples(frame + 1))
               p == Message("pokey_pcm", Samples(frame + 1))
    <3>1. y \in MessageType /\ p \in MessageType /\ y.pcm # <<>> /\ p.pcm # <<>>
      <4>1. frame + 1 \in 1..MaxFrames
        BY <1>1, SizesAssumption
      <4> QED BY <4>1, FrameIsPcm DEF Message, MessageType
    <3>2. port' = port \o <<y, p>>
      BY <2>2 DEF PushMessages
    <3> HIDE DEF y, p
    <3>3. port \in Seq(MessageType)
      BY DEF StreamInv, PortOK
    <3>4. /\ port' \in Seq(MessageType) /\ Len(port') = Len(port) + 2 /\ Len(port) \in Nat
          /\ \A k \in 1..Len(port) : port'[k] = port[k]
          /\ port'[Len(port) + 1] = y /\ port'[Len(port) + 2] = p
      BY <3>1, <3>2, <3>3
    <3>5. \A k \in 1..Len(port') : k \in 1..Len(port) \/ k = Len(port) + 1 \/ k = Len(port) + 2
      BY <3>4
    <3>6. \A k \in 1..Len(port') : port'[k].type \in {"ym_pcm", "pokey_pcm"} => port'[k].pcm # <<>>
      BY <3>1, <3>4, <3>5 DEF StreamInv, PortOK
    <3> QED BY <3>4, <3>6 DEF PortOK
  <2> QED BY <1>4, <2>1, <2>2
<1>6. JobOK'
  BY <1>1 DEF StreamInv, JobOK
<1> QED BY <1>1, <1>2, <1>5, <1>6, StreamWaits

LEMMA ResetStreamsGood ==
  ASSUME StreamInv, resetPcmStreams
  PROVE  Good
<1>1. frame' = frame /\ ring' = ring /\ job' = job /\ UNCHANGED startVars
  BY DEF resetPcmStreams
<1>2. Sink' = Sink
  BY <1>1 DEF startVars, Sink, Last
<1>3. JobOK' /\ frame' \in Nat
  BY <1>1 DEF StreamInv, JobOK
<1>4. CASE Sink = "worklet"
  <2> DEFINE m == Reset("reset_pcm")
  <2>1. port' = Append(port, m) /\ heard' = heard
    BY <1>4 DEF resetPcmStreams
  <2>2. m \in MessageType /\ m.type = "reset_pcm"
    BY DEF Reset, Message, MessageType
  <2> HIDE DEF m
  <2>3. port \in Seq(MessageType)
    BY DEF StreamInv, PortOK
  <2>4. /\ port' \in Seq(MessageType) /\ Len(port') = Len(port) + 1 /\ Len(port) \in Nat
        /\ \A k \in 1..Len(port) : port'[k] = port[k]
        /\ port'[Len(port) + 1] = m
    BY <2>1, <2>2, <2>3
  <2>5. \A k \in 1..Len(port') : k \in 1..Len(port) \/ k = Len(port) + 1
    BY <2>4
  <2>6. PortOK'
    BY <2>2, <2>4, <2>5 DEF StreamInv, PortOK
  <2> QED BY <1>1, <1>2, <1>3, <2>1, <2>6, StreamWaits
<1>5. CASE Sink # "worklet"
  <2>1. port' = port /\ heard' = Silent
    BY <1>5 DEF resetPcmStreams
  <2>2. ring = EmptyRings
    BY <1>5 DEF StreamInv, RingsOK
  <2>3. ASSUME NEW chip \in Chips PROVE Cleared(chip)
    BY <1>1, <2>1, <2>2, EmptyRingsOK DEF Cleared, Silent
  <2>4. RingsOK' /\ PortOK'
    BY <1>1, <1>2, <2>1 DEF StreamInv, RingsOK, PortOK
  <2> QED BY <1>3, <2>3, <2>4 DEF Good, StreamInv, FifoStep
<1> QED BY <1>4, <1>5

LEMMA HandleGood ==
  ASSUME StreamInv, HandleReset \/ HandlePcm
  PROVE  Good
<1>1. frame' = frame /\ port # <<>> /\ port' = Tail(port) /\ UNCHANGED startVars /\ Sink = "worklet"
  BY DEF HandleReset, HandlePcm, Worklet
<1>2. Sink' = Sink
  BY <1>1 DEF startVars, Sink, Last
<1>3. /\ PortOK' /\ frame' \in Nat /\ Head(port) \in MessageType
      /\ (Head(port).type \in {"ym_pcm", "pokey_pcm"} => Head(port).pcm # <<>>)
  BY <1>1, PortTail DEF StreamInv
<1>4. CASE HandleReset
  <2>1. ring' = [chip \in Chips |-> resetPcm(ring[chip])] /\ heard' = Silent /\ job' = job
    BY <1>4 DEF HandleReset
  <2>2. ASSUME NEW chip \in Chips PROVE RingOK(ring'[chip], Nat) /\ Stored(ring'[chip]) = <<>>
    BY <2>1, ResetRing DEF StreamInv, RingsOK
  <2>3. RingsOK'
    BY <1>1, <1>2, <2>1, <2>2 DEF RingsOK, RingOK
  <2>4. ASSUME NEW chip \in Chips PROVE Cleared(chip)
    BY <2>1, <2>2 DEF Cleared, Silent
  <2>5. JobOK'
    BY <2>1 DEF StreamInv, JobOK
  <2> QED BY <1>3, <2>3, <2>4, <2>5 DEF Good, StreamInv, FifoStep
<1>5. CASE HandlePcm
  <2> DEFINE chip == ChipOf(Head(port).type)
             pcm == Head(port).pcm
  <2>1. ring' = ring /\ heard' = heard /\ job' = Copying(chip, pcm)
    BY <1>5 DEF HandlePcm
  <2>2. chip \in Chips
    BY DEF ChipOf, Chips
  <2>3. pcm \in Seq(Pcm) /\ pcm # <<>>
    BY <1>3, <1>5 DEF HandlePcm, MessageType
  <2> HIDE DEF chip, pcm
  <2>4. JobOK'
    BY <2>1, <2>2, <2>3, CopyingType DEF JobOK
  <2> QED BY <1>2, <1>3, <2>1, <2>4, StreamWaits
<1> QED BY <1>4, <1>5

LEMMA CopyPuts ==
  ASSUME StreamInv, CopySample
  PROVE  /\ job.chip \in Chips /\ Head(job.todo) \in Pcm
         /\ ring' \in [Chips -> RingType(Nat)]
         /\ \A chip \in Chips :
              /\ RingOK(ring'[chip], Nat)
              /\ Stored(ring'[chip]) =
                   IF chip = job.chip THEN YmFifo!Newest(Stored(ring[chip]) \o <<Head(job.todo)>>)
                   ELSE Stored(ring[chip])
<1> DEFINE n == Head(job.todo)
           c == job.chip
<1>1. ring' = [ring EXCEPT ![c] = enqueuePcm(ring[c], n)]
  BY DEF CopySample
<1>2. job.todo \in Seq(Pcm) /\ job.todo # <<>> /\ c \in Chips
  BY DEF CopySample, StreamInv, JobOK, JobType
<1>3. n \in Pcm /\ n \in Nat
  <2> DEFINE t == job.todo
  <2> HIDE DEF t
  <2>1. t \in Seq(Pcm) /\ t # <<>>
    BY <1>2 DEF t
  <2>2. Head(t) \in Pcm
    BY <2>1
  <2> QED BY <2>2, PcmIsNat DEF t
<1> HIDE DEF n, c
<1>4. ring \in [Chips -> RingType(Nat)] /\ \A chip \in Chips : RingOK(ring[chip], Nat)
  BY DEF StreamInv, RingsOK
<1>5. /\ RingOK(enqueuePcm(ring[c], n), Nat)
      /\ Stored(enqueuePcm(ring[c], n)) = YmFifo!Newest(Stored(ring[c]) \o <<n>>)
  BY <1>2, <1>3, <1>4, RingPuts
<1>6. \A chip \in Chips : ring'[chip] = IF chip = c THEN enqueuePcm(ring[c], n) ELSE ring[chip]
  BY <1>1, <1>4
<1>7. ring' \in [Chips -> RingType(Nat)]
  BY <1>1, <1>4, <1>5 DEF RingOK
<1>8. \A chip \in Chips :
        /\ RingOK(ring'[chip], Nat)
        /\ Stored(ring'[chip]) = IF chip = c THEN YmFifo!Newest(Stored(ring[chip]) \o <<n>>)
                                ELSE Stored(ring[chip])
  BY <1>4, <1>5, <1>6
<1> QED BY <1>2, <1>3, <1>7, <1>8 DEF n, c

LEMMA CopyGood ==
  ASSUME StreamInv, CopySample
  PROVE  Good
<1> DEFINE n == Head(job.todo)
           c == job.chip
<1>1. /\ frame' = frame /\ port' = port /\ heard' = heard /\ UNCHANGED startVars
      /\ Sink = "worklet" /\ job.kind = "copy"
      /\ ring' = [ring EXCEPT ![c] = enqueuePcm(ring[c], n)]
      /\ job' = IF Tail(job.todo) = <<>> THEN Idle ELSE [job EXCEPT !.todo = Tail(job.todo)]
  BY DEF CopySample
<1>2. Sink' = Sink
  BY <1>1 DEF startVars, Sink, Last
<1>3. job \in JobType /\ job.todo \in Seq(Pcm) /\ job.todo # <<>> /\ c \in Chips
  BY <1>1 DEF StreamInv, JobOK, JobType
<1>4. n \in Pcm /\ n \in Nat /\ Tail(job.todo) \in Seq(Pcm)
  <2> DEFINE t == job.todo
  <2> HIDE DEF t
  <2>1. t \in Seq(Pcm) /\ t # <<>>
    BY <1>3 DEF t
  <2>2. Head(t) \in Pcm /\ Tail(t) \in Seq(Pcm)
    BY <2>1
  <2> QED BY <2>2, PcmIsNat DEF t
<1>5. JobOK'
  <2>1. CASE Tail(job.todo) = <<>>
    BY <1>1, <2>1, IdleType DEF JobOK
  <2>2. CASE Tail(job.todo) # <<>>
    <3> DEFINE rest == Tail(job.todo)
    <3>1. job' = [job EXCEPT !.todo = rest] /\ rest \in Seq(Pcm) /\ rest # <<>>
      BY <1>1, <1>4, <2>2
    <3> HIDE DEF rest
    <3>2. job' \in JobType /\ job'.todo = rest
      BY <1>3, <3>1 DEF JobType
    <3> QED BY <3>1, <3>2 DEF JobOK
  <2> QED BY <2>1, <2>2
<1> HIDE DEF n, c
<1>6. RingsOK'
  BY <1>1, <1>2, CopyPuts DEF RingsOK
<1>7. ASSUME NEW chip \in Chips PROVE FifoStep(chip)
  <2>1. CASE chip = c
    BY <1>1, <1>4, <2>1, CopyPuts DEF FifoStep, PutOne, n, c
  <2>2. CASE chip # c
    BY <1>1, <2>2, CopyPuts DEF FifoStep, Untouched, n, c
  <2> QED BY <2>1, <2>2
<1>8. frame' \in Nat /\ PortOK'
  BY <1>1 DEF StreamInv, PortOK
<1> QED BY <1>5, <1>6, <1>7, <1>8 DEF Good, StreamInv

LEMMA RenderTakes ==
  ASSUME StreamInv, RenderSample, NEW chip \in Chips
  PROVE  Taken(chip)
<1>1. heard'[chip] = firstPcm(ring[chip]) /\ ring'[chip] = dequeuePcm(ring[chip])
  BY DEF RenderSample
<1>2. RingOK(ring[chip], Nat)
  BY DEF StreamInv, RingsOK
<1>3. CASE ring[chip].available = 0
  <2>1. Stored(ring[chip]) = <<>> /\ firstPcm(ring[chip]) = 0 /\ dequeuePcm(ring[chip]) = ring[chip]
    BY <1>2, <1>3, RingTakes
  <2> QED BY <1>1, <2>1 DEF Taken
<1>4. CASE ring[chip].available # 0
  <2>1. /\ Stored(ring[chip]) # <<>> /\ firstPcm(ring[chip]) = Head(Stored(ring[chip]))
        /\ Stored(dequeuePcm(ring[chip])) = Tail(Stored(ring[chip]))
    BY <1>2, <1>4, RingTakes
  <2> QED BY <1>1, <2>1 DEF Taken
<1> QED BY <1>3, <1>4

LEMMA RenderGood ==
  ASSUME StreamInv, RenderSample
  PROVE  Good
<1>1. /\ frame' = frame /\ port' = port /\ UNCHANGED startVars /\ Sink = "worklet"
      /\ heard' = [chip \in Chips |-> firstPcm(ring[chip])]
      /\ ring' = [chip \in Chips |-> dequeuePcm(ring[chip])]
      /\ job' = Rendering(job.left - 1)
  BY DEF RenderSample
<1>2. Sink' = Sink
  BY <1>1 DEF startVars, Sink, Last
<1>3. \A chip \in Chips : RingOK(ring[chip], Nat)
  BY DEF StreamInv, RingsOK
<1>4. \A chip \in Chips : RingOK(ring'[chip], Nat)
  BY <1>1, <1>3, RingTakes
<1>5. RingsOK'
  BY <1>1, <1>2, <1>4 DEF RingsOK, RingOK
<1>6. \A chip \in Chips : Taken(chip)
  BY RenderTakes
<1>7. JobOK'
  <2>1. job.left - 1 \in Int
    BY DEF StreamInv, JobOK, JobType
  <2> QED BY <1>1, <2>1, RenderingType DEF JobOK
<1>8. frame' \in Nat /\ PortOK'
  BY <1>1 DEF StreamInv, PortOK
<1> QED BY <1>5, <1>6, <1>7, <1>8 DEF Good, StreamInv, FifoStep

LEMMA StreamStep ==
  ASSUME StreamInv, StartInv, [Next]_allVars, ~RenderScriptSample
  PROVE  Good
<1>1. CASE Starts
  BY <1>1, NewStreamGood DEF Starts
<1>2. ASSUME NEW i \in 1..Last, Loads(i) PROVE Good
  <2>1. CASE i < Last
    <3>1. Sink' = Sink
      BY <1>2, <2>1, SinkKept DEF Loads
    <3>2. UNCHANGED streamVars
      BY <1>2, <2>1 DEF Loads
    <3> QED BY <3>1, <3>2, StreamWaits DEF streamVars, StreamInv, PortOK, JobOK
  <2>2. CASE ~(i < Last)
    <3>1. NewStream(IF Sink' = "worklet" THEN <<Reset("reset")>> ELSE <<>>)
      BY <1>2, <2>2 DEF Loads
    <3> QED BY <3>1, NewStreamGood
  <2> QED BY <2>1, <2>2
<1>3. ASSUME NEW i \in 1..Last, Settles(i) PROVE Good
  <2>1. Sink' = Sink
    BY <1>3, SinkKept DEF Settles
  <2>2. UNCHANGED streamVars
    BY <1>3 DEF Settles
  <2> QED BY <2>1, <2>2, StreamWaits DEF streamVars, StreamInv, PortOK, JobOK
<1>4. CASE Refuses \/ UNCHANGED allVars
  <2>1. renderers' = renderers /\ UNCHANGED streamVars
    BY <1>4 DEF Refuses, GestureRefused, allVars, startVars
  <2>2. Sink' = Sink
    BY <2>1 DEF Sink, Last
  <2> QED BY <2>1, <2>2, StreamWaits DEF streamVars, StreamInv, PortOK, JobOK
<1>5. CASE BeginQuantum
  <2>1. /\ UNCHANGED startVars /\ ring' = ring /\ heard' = heard /\ port' = port /\ frame' = frame
        /\ job' = Rendering(Quantum)
    BY <1>5 DEF BeginQuantum
  <2>2. Sink' = Sink
    BY <2>1 DEF startVars, Sink, Last
  <2>3. JobOK'
    BY <2>1, RenderingType, SizesAssumption DEF JobOK
  <2> QED BY <2>1, <2>2, <2>3, StreamWaits DEF StreamInv, PortOK
<1> QED BY <1>1, <1>2, <1>3, <1>4, <1>5, PushGood, ResetStreamsGood, HandleGood, CopyGood, RenderGood
        DEF Next

(* A callback of the fallback leaves the worklet alone.                    *)
LEMMA ScriptSampleKeeps ==
  ASSUME StreamInv, RenderScriptSample
  PROVE  StreamInv'
<1>1. /\ frame' = frame /\ port' = port /\ ring' = ring /\ UNCHANGED startVars
      /\ job' = Rendering(job.left - 1)
  BY DEF RenderScriptSample
<1>2. Sink' = Sink
  BY <1>1 DEF startVars, Sink, Last
<1>3. job.left - 1 \in Int
  BY DEF StreamInv, JobOK, JobType
<1>4. JobOK'
  BY <1>1, <1>3, RenderingType DEF JobOK
<1> QED BY <1>1, <1>2, <1>4 DEF StreamInv, RingsOK, PortOK

LEMMA StreamInvNext == StreamInv /\ StartInv /\ [Next]_allVars => StreamInv'
  BY StreamStep, ScriptSampleKeeps DEF Good

-----------------------------------------------------------------------------
(* Keeping the newest samples.                                             *)

Newest(s) == YmFifo!Newest(s)

LEMMA NewestShape ==
  ASSUME NEW S, NEW s \in Seq(S)
  PROVE  /\ Newest(s) \in Seq(S)
         /\ Len(Newest(s)) = IF Len(s) <= Cap THEN Len(s) ELSE Cap
         /\ \A k \in 1..Len(Newest(s)) : Newest(s)[k] = s[Len(s) - Len(Newest(s)) + k]
<1> USE CapAssumption
<1>1. CASE Len(s) <= Cap
  BY <1>1 DEF Newest, YmFifo!Newest
<1>2. CASE ~(Len(s) <= Cap)
  <2>1. Newest(s) = SubSeq(s, Len(s) - Cap + 1, Len(s))
    BY <1>2 DEF Newest, YmFifo!Newest
  <2> DEFINE m == Len(s) - Cap + 1
  <2>2. m \in 1..Len(s) /\ Len(s) \in Nat /\ Len(s) - m + 1 = Cap
    BY <1>2
  <2>3. /\ SubSeq(s, m, Len(s)) \in Seq(S) /\ Len(SubSeq(s, m, Len(s))) = Len(s) - m + 1
        /\ \A k \in 1..(Len(s) - m + 1) : SubSeq(s, m, Len(s))[k] = s[m + k - 1]
    <3> HIDE DEF m
    <3> QED BY <2>2
  <2> QED BY <1>2, <2>1, <2>2, <2>3
<1> QED BY <1>1, <1>2

LEMMA NewestFits == ASSUME NEW S, NEW s \in Seq(S), Len(s) <= Cap PROVE Newest(s) = s
  BY DEF Newest, YmFifo!Newest

(* Dropping early drops nothing that would have stayed.                    *)
LEMMA NewestNewest ==
  ASSUME NEW S, NEW a \in Seq(S), NEW b \in Seq(S)
  PROVE  Newest(Newest(a) \o b) = Newest(a \o b)
<1> USE CapAssumption
<1> DEFINE na == Newest(a)
           x == na \o b
           y == a \o b
<1>1. /\ na \in Seq(S) /\ Len(na) = (IF Len(a) <= Cap THEN Len(a) ELSE Cap)
      /\ \A k \in 1..Len(na) : na[k] = a[Len(a) - Len(na) + k]
  BY NewestShape
<1> HIDE DEF na
<1>2. /\ x \in Seq(S) /\ Len(x) = Len(na) + Len(b)
      /\ \A k \in 1..Len(x) : x[k] = IF k <= Len(na) THEN na[k] ELSE b[k - Len(na)]
  BY <1>1
<1>3. /\ y \in Seq(S) /\ Len(y) = Len(a) + Len(b)
      /\ \A k \in 1..Len(y) : y[k] = IF k <= Len(a) THEN a[k] ELSE b[k - Len(a)]
  OBVIOUS
<1> HIDE DEF x, y
<1>4. /\ Newest(x) \in Seq(S) /\ Len(Newest(x)) = (IF Len(x) <= Cap THEN Len(x) ELSE Cap)
      /\ \A k \in 1..Len(Newest(x)) : Newest(x)[k] = x[Len(x) - Len(Newest(x)) + k]
  BY <1>2, NewestShape
<1>5. /\ Newest(y) \in Seq(S) /\ Len(Newest(y)) = (IF Len(y) <= Cap THEN Len(y) ELSE Cap)
      /\ \A k \in 1..Len(Newest(y)) : Newest(y)[k] = y[Len(y) - Len(Newest(y)) + k]
  BY <1>3, NewestShape
<1>6. Len(a) \in Nat /\ Len(b) \in Nat
  OBVIOUS
<1>7. Len(Newest(x)) = Len(Newest(y))
  BY <1>1, <1>2, <1>3, <1>4, <1>5, <1>6
<1>8. \A k \in 1..Len(Newest(x)) : Newest(x)[k] = Newest(y)[k]
  <2> TAKE k \in 1..Len(Newest(x))
  <2> DEFINE i == Len(x) - Len(Newest(x)) + k
             j == Len(y) - Len(Newest(y)) + k
  <2>1. Newest(x)[k] = x[i] /\ Newest(y)[k] = y[j]
    BY <1>4, <1>5, <1>7
  <2>0. /\ Len(Newest(x)) \in Nat /\ Len(Newest(x)) <= Len(x) /\ Len(Newest(x)) <= Len(y)
        /\ Len(na) \in Nat
    BY <1>1, <1>2, <1>3, <1>4, <1>5, <1>6, <1>7
  <2>2. i \in 1..Len(x) /\ j \in 1..Len(y) /\ j - i = Len(a) - Len(na)
    BY <2>0, <1>2, <1>3, <1>6, <1>7
  <2> HIDE DEF i, j
  <2>3. i <= Len(na) <=> j <= Len(a)
    BY <2>0, <2>2, <1>2, <1>3, <1>6
  <2>4. CASE i <= Len(na)
    <3>1. x[i] = na[i] /\ y[j] = a[j] /\ i \in 1..Len(na)
      BY <2>0, <2>2, <2>3, <2>4, <1>2, <1>3
    <3>2. na[i] = a[Len(a) - Len(na) + i]
      BY <3>1, <1>1
    <3>3. Len(a) - Len(na) + i = j
      BY <2>0, <2>2, <1>2, <1>3, <1>6
    <3> QED BY <2>1, <3>1, <3>2, <3>3
  <2>5. CASE ~(i <= Len(na))
    <3>1. x[i] = b[i - Len(na)] /\ y[j] = b[j - Len(a)]
      BY <2>2, <2>3, <2>5, <1>2, <1>3
    <3>2. i - Len(na) = j - Len(a)
      BY <2>0, <2>2, <3>1, <1>1, <1>2, <1>3, <1>6
    <3> QED BY <2>1, <3>1, <3>2
  <2> QED BY <2>4, <2>5
<1> QED BY <1>4, <1>5, <1>7, <1>8 DEF x, y, na

LEMMA AppendOne ==
  ASSUME NEW S, NEW s \in Seq(S), NEW n \in 1..Len(s)
  PROVE  SubSeq(s, 1, n) = SubSeq(s, 1, n - 1) \o <<s[n]>>
<1>1. /\ SubSeq(s, 1, n) \in Seq(S) /\ Len(SubSeq(s, 1, n)) = n
      /\ \A k \in 1..n : SubSeq(s, 1, n)[k] = s[k]
  OBVIOUS
<1>2. /\ SubSeq(s, 1, n - 1) \in Seq(S) /\ Len(SubSeq(s, 1, n - 1)) = n - 1
      /\ \A k \in 1..n-1 : SubSeq(s, 1, n - 1)[k] = s[k]
  OBVIOUS
<1> DEFINE t == SubSeq(s, 1, n - 1)
           u == SubSeq(s, 1, n)
<1> HIDE DEF t, u
<1>3. u \in Seq(S) /\ Len(u) = n /\ t \in Seq(S) /\ Len(t) = n - 1 /\ s[n] \in S
      /\ (\A k \in 1..n : u[k] = s[k]) /\ (\A k \in 1..n-1 : t[k] = s[k])
  BY <1>1, <1>2 DEF t, u
<1>4. /\ t \o <<s[n]>> \in Seq(S) /\ Len(t \o <<s[n]>>) = n
      /\ (t \o <<s[n]>>)[n] = s[n]
      /\ \A k \in 1..n-1 : (t \o <<s[n]>>)[k] = s[k]
  BY <1>3
<1>5. \A k \in 1..n : u[k] = (t \o <<s[n]>>)[k]
  BY <1>3, <1>4
<1>6. u = t \o <<s[n]>>
  BY <1>3, <1>4, <1>5
<1> QED BY <1>6 DEF t, u

LEMMA Associative ==
  ASSUME NEW S, NEW a \in Seq(S), NEW b \in Seq(S), NEW c \in Seq(S)
  PROVE  (a \o b) \o c = a \o (b \o c)
<1> DEFINE l == (a \o b) \o c
           r == a \o (b \o c)
<1>1. /\ l \in Seq(S) /\ r \in Seq(S)
      /\ Len(l) = Len(a) + Len(b) + Len(c) /\ Len(r) = Len(a) + Len(b) + Len(c)
  OBVIOUS
<1>2. \A k \in 1..Len(l) : l[k] = r[k]
  OBVIOUS
<1> HIDE DEF l, r
<1>3. l = r
  BY <1>1, <1>2
<1> QED BY <1>3 DEF l, r

LEMMA HeadAndTail ==
  ASSUME NEW S, NEW s \in Seq(S), s # <<>>
  PROVE  /\ Head(s) \in S /\ Tail(s) \in Seq(S) /\ s = <<Head(s)>> \o Tail(s)
         /\ Len(Tail(s)) = Len(s) - 1 /\ Len(Tail(s)) \in Nat
         /\ Tail(s) = <<>> <=> Len(s) = 1
<1>1. /\ Head(s) \in S /\ Head(s) = s[1] /\ Tail(s) \in Seq(S) /\ Len(s) \in Nat \ {0}
      /\ Len(Tail(s)) = Len(s) - 1 /\ \A k \in 1..Len(s)-1 : Tail(s)[k] = s[k + 1]
  OBVIOUS
<1> DEFINE h == Head(s)
           t == Tail(s)
<1> HIDE DEF h, t
<1>2. /\ h \in S /\ h = s[1] /\ t \in Seq(S) /\ Len(s) \in Nat \ {0}
      /\ Len(t) = Len(s) - 1 /\ \A k \in 1..Len(s)-1 : t[k] = s[k + 1]
  BY <1>1 DEF h, t
<1>3. t = <<>> <=> Len(t) = 0
  BY <1>2
<1>4. /\ <<h>> \o t \in Seq(S) /\ Len(<<h>> \o t) = Len(s)
      /\ \A k \in 1..Len(s) : (<<h>> \o t)[k] = s[k]
  BY <1>2
<1>5. <<h>> \o t = s
  BY <1>4
<1> QED BY <1>2, <1>3, <1>5 DEF h, t

LEMMA Advance ==
  ASSUME NEW S, NEW s \in Seq(S), NEW c \in 0..Len(s)-1, NEW t, t = SubSeq(s, c + 1, Len(s))
  PROVE  Head(t) = s[c + 1] /\ Tail(t) = SubSeq(s, (c + 1) + 1, Len(s)) /\ Len(t) = Len(s) - c
<1> DEFINE l == Len(s)
<1>1. l \in Nat /\ c \in 0..l-1 /\ c + 1 \in 1..l
  OBVIOUS
<1>2. /\ t \in Seq(S) /\ Len(t) = l - c
      /\ \A k \in 1..l-c : t[k] = s[c + k]
  <2> DEFINE m == c + 1
  <2>1. m \in 1..l /\ l - m + 1 = l - c
    BY <1>1
  <2>2. /\ SubSeq(s, m, l) \in Seq(S) /\ Len(SubSeq(s, m, l)) = l - m + 1
        /\ \A k \in 1..(l - m + 1) : SubSeq(s, m, l)[k] = s[m + k - 1]
    <3> HIDE DEF m
    <3> QED BY <2>1
  <2>3. t \in Seq(S) /\ Len(t) = l - c
    BY <2>1, <2>2
  <2>4. \A k \in 1..l-c : t[k] = s[c + k]
    BY <2>1, <2>2
  <2> QED BY <2>3, <2>4
<1> DEFINE v == Tail(t)
           u == SubSeq(s, (c + 1) + 1, l)
<1>3. /\ u \in Seq(S) /\ Len(u) = l - c - 1
      /\ \A k \in 1..l-c-1 : u[k] = s[c + 1 + k]
  OBVIOUS
<1> HIDE DEF l, u
<1>4. t # <<>> /\ Head(t) = t[1] /\ t[1] = s[c + 1]
  <2>1. l - c # 0 /\ 1 \in 1..l-c
    BY ONLY <1>1
  <2>2. t # <<>> /\ Head(t) = t[1]
    BY ONLY <1>2, <2>1
  <2> QED BY <1>2, <2>1, <2>2
<1>5. /\ v \in Seq(S) /\ Len(v) = l - c - 1
      /\ \A k \in 1..l-c-1 : v[k] = t[k + 1]
  BY ONLY <1>1, <1>2, <1>4
<1>6. \A k \in 1..l-c-1 : v[k] = u[k]
  <2> TAKE k \in 1..l-c-1
  <2>1. k + 1 \in 1..l-c /\ c + (k + 1) = c + 1 + k
    BY ONLY <1>1
  <2>2. t[k + 1] = s[c + 1 + k]
    BY <1>2, <2>1
  <2> QED BY <1>3, <1>5, <2>2
<1> HIDE DEF v
<1>7. u = v
  BY ONLY <1>3, <1>5, <1>6
<1> QED BY <1>2, <1>4, <1>7 DEF l, u, v

-----------------------------------------------------------------------------
(* The chunks of the fallback.  Induction over 0..n by the least           *)
(* counterexample, and with it the runs that LET functions define.         *)

LEMMA NatLessIsWellFounded == IsWellFoundedOn({p \in Nat \X Nat : p[1] < p[2]}, Nat)
  BY NatLessThanWellFounded DEF OpToRel

LEMMA LeastExists ==
  ASSUME NEW S \in SUBSET Nat, S # {}
  PROVE  \E m \in S : \A n \in S : m <= n
<1> DEFINE Less == {p \in Nat \X Nat : p[1] < p[2]}
<1>1. IsWellFoundedOn(Less, Nat)
  BY NatLessIsWellFounded
<1>2. IsWellFoundedOn(Less, S)
  BY <1>1, IsWellFoundedOnSubset
<1>3. \A x, y \in Nat : x < y => <<x, y>> \in Less
  OBVIOUS
<1> HIDE DEF Less
<1>4. PICK m \in S : \A n \in S : <<n, m>> \notin Less
  BY <1>2, WFMin
<1>5. \A n \in S : n \in Nat /\ m \in Nat /\ ~(n < m)
  BY <1>3, <1>4
<1> QED BY <1>5

LEMMA NoCounterexample ==
  ASSUME NEW S \in SUBSET Nat, 0 \notin S, \A n \in Nat : n + 1 \in S => n \in S
  PROVE  S = {}
<1> SUFFICES ASSUME S # {} PROVE FALSE
  OBVIOUS
<1>1. PICK m \in S : \A n \in S : m <= n
  BY LeastExists
<1>2. m \in Nat /\ m # 0 /\ m - 1 \in Nat /\ (m - 1) + 1 = m
  BY <1>1
<1> QED BY <1>1, <1>2

(* The run of n steps from a, step i being step[<<x, i>>].                 *)
IsRun(f, S, step, a, n) ==
    /\ f \in [0..n -> S]
    /\ f[0] = a
    /\ \A i \in 1..n : f[i] = step[<<f[i-1], i>>]

LEMMA RunExists ==
  ASSUME NEW S, NEW a \in S, NEW n \in Nat, NEW step \in [S \X (1..n) -> S]
  PROVE  \E f : IsRun(f, S, step, a, n)
<1> DEFINE T == {k \in 0..n : ~\E f : IsRun(f, S, step, a, k)}
<1>1. 0 \notin T
  <2> DEFINE f == [i \in 0..0 |-> a]
  <2>1. f \in [0..0 -> S] /\ f[0] = a /\ 1..0 = {}
    OBVIOUS
  <2>2. IsRun(f, S, step, a, 0)
    BY <2>1 DEF IsRun
  <2> QED BY <2>2
<1>2. ASSUME NEW k \in Nat, k + 1 \in T PROVE k \in T
  <2>1. k \in 0..n /\ k + 1 \in 1..n
    BY <1>2
  <2> SUFFICES ASSUME \E f : IsRun(f, S, step, a, k) PROVE \E f : IsRun(f, S, step, a, k + 1)
    BY <1>2, <2>1
  <2>2. PICK f : IsRun(f, S, step, a, k)
    OBVIOUS
  <2> DEFINE last == step[<<f[k], k + 1>>]
             g == [i \in 0..k+1 |-> IF i <= k THEN f[i] ELSE last]
  <2>3. f \in [0..k -> S] /\ f[0] = a /\ \A i \in 1..k : f[i] = step[<<f[i-1], i>>]
    BY <2>2 DEF IsRun
  <2>4. f[k] \in S /\ last \in S
    BY <2>1, <2>3
  <2> HIDE DEF last
  <2>5. g \in [0..k+1 -> S] /\ g[0] = a
    BY <2>3, <2>4
  <2>6. ASSUME NEW i \in 1..k+1 PROVE g[i] = step[<<g[i-1], i>>]
    <3>1. CASE i \in 1..k
      <4>1. g[i] = f[i] /\ g[i-1] = f[i-1]
        BY <3>1
      <4> QED BY <2>3, <3>1, <4>1
    <3>2. CASE i = k + 1
      <4>1. g[i] = last /\ g[i-1] = f[k]
        BY <3>2
      <4> QED BY <3>2, <4>1 DEF last
    <3> QED BY <3>1, <3>2
  <2> HIDE DEF g
  <2>7. IsRun(g, S, step, a, k + 1)
    BY <2>5, <2>6 DEF IsRun
  <2> QED BY <2>7
<1>3. T \in SUBSET Nat /\ n \in 0..n
  OBVIOUS
<1> HIDE DEF T
<1>4. T = {}
  BY <1>1, <1>2, <1>3, NoCounterexample
<1> QED BY <1>3, <1>4 DEF T

-----------------------------------------------------------------------------
(* What a queue of chunks holds: the rest of each chunk, one after the     *)
(* other.                                                                  *)

Chunk == [pcm : Seq(Pcm), offset : Nat]
Rest(c) == SubSeq(c.pcm, c.offset + 1, Len(c.pcm))
Unused(c) == c.offset < Len(c.pcm)
ChunksOK(cs) == cs \in Seq(Chunk) /\ \A i \in 1..Len(cs) : Unused(cs[i])

Joins(f, cs) ==
    f = [n \in 0..Len(cs) |->
           IF n = 0 THEN <<>>
           ELSE f[n - 1] \o SubSeq(cs[n].pcm, cs[n].offset + 1, Len(cs[n].pcm))]
Joined(cs) == CHOOSE f : Joins(f, cs)
All(cs) == Joined(cs)[Len(cs)]

LEMMA WaitingIsAll == ASSUME NEW q PROVE Waiting(q) = All(q.chunks)
  BY DEF Waiting, All, Joined, Joins

LEMMA RestType ==
  ASSUME NEW c \in Chunk, Unused(c)
  PROVE  /\ Rest(c) \in Seq(Pcm) /\ Len(Rest(c)) = Left(c) /\ Left(c) \in Nat \ {0}
         /\ \A k \in 1..Left(c) : Rest(c)[k] = c.pcm[c.offset + k]
<1> DEFINE s == c.pcm
           l == Len(c.pcm)
           m == c.offset + 1
<1>1. s \in Seq(Pcm) /\ l \in Nat /\ m \in 1..l /\ l = Len(s) /\ Left(c) = l - m + 1
  BY DEF Chunk, Unused, Left
<1> HIDE DEF s, l, m
<1>2. /\ SubSeq(s, m, l) \in Seq(Pcm) /\ Len(SubSeq(s, m, l)) = l - m + 1
      /\ \A k \in 1..(l - m + 1) : SubSeq(s, m, l)[k] = s[m + k - 1]
  BY <1>1
<1>3. Rest(c) = SubSeq(s, m, l)
  BY DEF Rest, s, m, l
<1>4. \A k \in 1..Left(c) : Rest(c)[k] = s[m + k - 1]
  BY <1>1, <1>2, <1>3
<1>5. \A k \in 1..Left(c) : m + k - 1 = c.offset + k
  BY <1>1 DEF m, Chunk
<1> QED BY <1>1, <1>2, <1>3, <1>4, <1>5 DEF s

LEMMA JoinedSteps ==
  ASSUME NEW cs, ChunksOK(cs)
  PROVE  /\ Joined(cs)[0] = <<>>
         /\ \A n \in 1..Len(cs) : Joined(cs)[n] = Joined(cs)[n-1] \o Rest(cs[n])
         /\ \A n \in 0..Len(cs) : Joined(cs)[n] \in Seq(Pcm)
<1> DEFINE N == Len(cs)
           S == Seq(Pcm)
           step == [p \in S \X (1..N) |-> p[1] \o Rest(cs[p[2]])]
<1>1. N \in Nat /\ \A n \in 1..N : Rest(cs[n]) \in S
  BY RestType DEF ChunksOK
<1>2. step \in [S \X (1..N) -> S]
  <2>1. ASSUME NEW p \in S \X (1..N) PROVE p[1] \o Rest(cs[p[2]]) \in S
    <3>1. p[1] \in S /\ Rest(cs[p[2]]) \in S
      BY <1>1
    <3> QED BY <3>1
  <2> QED BY <2>1
<1>3. \A x \in S, i \in 1..N : step[<<x, i>>] = x \o Rest(cs[i])
  OBVIOUS
<1>4. <<>> \in S
  OBVIOUS
<1> HIDE DEF step, S, N
<1>5. PICK f : IsRun(f, S, step, <<>>, N)
  BY <1>1, <1>2, <1>4, RunExists
<1>6. f \in [0..N -> S] /\ f[0] = <<>> /\ \A i \in 1..N : f[i] = step[<<f[i-1], i>>]
  BY <1>5 DEF IsRun
<1>7. \A i \in 1..N : f[i] = f[i-1] \o Rest(cs[i])
  <2> TAKE i \in 1..N
  <2>1. i - 1 \in 0..N
    BY <1>1
  <2>2. f[i-1] \in S
    BY <1>6, <2>1
  <2> QED BY <1>3, <1>6, <2>2
<1>8. Joins(f, cs)
  <2>1. \A n \in 0..N : f[n] = IF n = 0 THEN <<>> ELSE f[n - 1] \o Rest(cs[n])
    <3> TAKE n \in 0..N
    <3>1. n = 0 \/ n \in 1..N
      BY <1>1
    <3> QED BY <1>6, <1>7, <3>1
  <2>2. f = [n \in 0..N |-> f[n]]
    BY <1>6
  <2> QED BY <2>1, <2>2 DEF Joins, Rest, N
<1> DEFINE g == Joined(cs)
<1>9. Joins(g, cs)
  BY <1>8 DEF Joined
<1> HIDE DEF g
<1>10. \A n \in 0..N : g[n] = IF n = 0 THEN <<>> ELSE g[n - 1] \o Rest(cs[n])
  <2>1. g = [n \in 0..N |-> IF n = 0 THEN <<>> ELSE g[n - 1] \o Rest(cs[n])]
    BY <1>9 DEF Joins, Rest, N
  <2> DEFINE h == [n \in 0..N |-> IF n = 0 THEN <<>> ELSE g[n - 1] \o Rest(cs[n])]
  <2>2. \A n \in 0..N : h[n] = IF n = 0 THEN <<>> ELSE g[n - 1] \o Rest(cs[n])
    OBVIOUS
  <2>3. g = h
    BY <2>1
  <2> HIDE DEF h
  <2> QED BY <2>2, <2>3
<1>11. g[0] = <<>>
  BY <1>1, <1>10
<1>12. \A n \in 1..N : g[n] = g[n-1] \o Rest(cs[n])
  <2> TAKE n \in 1..N
  <2>1. n \in 0..N /\ n # 0
    BY <1>1
  <2> QED BY <1>10, <2>1
<1>13. \A n \in 0..N : g[n] \in S
  <2> DEFINE T == {n \in 0..N : g[n] \notin S}
  <2>1. T \in SUBSET Nat /\ 0 \notin T
    BY <1>4, <1>11
  <2>2. \A n \in Nat : n + 1 \in T => n \in T
    <3> SUFFICES ASSUME NEW n \in Nat, n + 1 \in 0..N, g[n] \in S PROVE g[n + 1] \in S
      BY <1>1
    <3>1. n + 1 \in 1..N /\ (n + 1) - 1 = n
      BY <1>1
    <3>2. g[n + 1] = g[n] \o Rest(cs[n + 1]) /\ Rest(cs[n + 1]) \in S
      BY <1>1, <1>12, <3>1
    <3> QED BY <3>2 DEF S
  <2> HIDE DEF T
  <2>3. T = {}
    BY <2>1, <2>2, NoCounterexample
  <2> QED BY <2>3 DEF T
<1> QED BY <1>11, <1>12, <1>13 DEF g, S, N

LEMMA NothingJoined == All(<<>>) = <<>>
<1>1. ChunksOK(<<>>) /\ Len(<<>>) = 0
  BY DEF ChunksOK
<1> QED BY <1>1, JoinedSteps DEF All

LEMMA AllType == ASSUME NEW cs, ChunksOK(cs) PROVE All(cs) \in Seq(Pcm)
<1>1. Len(cs) \in 0..Len(cs)
  BY DEF ChunksOK
<1> QED BY <1>1, JoinedSteps DEF All

(* A chunk more at the end.                                                *)
LEMMA JoinLast ==
  ASSUME NEW cs, ChunksOK(cs), NEW c \in Chunk, Unused(c)
  PROVE  ChunksOK(Append(cs, c)) /\ All(Append(cs, c)) = All(cs) \o Rest(c)
<1> DEFINE ds == Append(cs, c)
           N == Len(cs)
<1>1. /\ N \in Nat /\ ds \in Seq(Chunk) /\ Len(ds) = N + 1 /\ ds[N + 1] = c
      /\ \A i \in 1..N : ds[i] = cs[i]
  BY DEF ChunksOK
<1> HIDE DEF ds
<1>2. ChunksOK(ds)
  <2>1. \A i \in 1..Len(ds) : i \in 1..N \/ i = N + 1
    BY <1>1
  <2> QED BY <1>1, <2>1 DEF ChunksOK
<1> DEFINE T == {n \in 0..N : Joined(ds)[n] # Joined(cs)[n]}
<1>3. 0 \notin T
  BY <1>2, JoinedSteps
<1>4. ASSUME NEW n \in Nat, n + 1 \in T PROVE n \in T
  <2> HIDE DEF N
  <2>1. n \in 0..N /\ n + 1 \in 1..N /\ (n + 1) - 1 = n /\ n + 1 \in 1..Len(ds)
    BY <1>1, <1>4
  <2>2. /\ Joined(ds)[n + 1] = Joined(ds)[n] \o Rest(ds[n + 1])
        /\ Joined(cs)[n + 1] = Joined(cs)[n] \o Rest(cs[n + 1])
        /\ ds[n + 1] = cs[n + 1]
    BY <1>1, <1>2, <2>1, JoinedSteps DEF N
  <2> QED BY <1>4, <2>1, <2>2
<1>5. T \in SUBSET Nat
  OBVIOUS
<1> HIDE DEF T
<1>6. T = {}
  BY <1>3, <1>4, <1>5, NoCounterexample
<1>7. Joined(ds)[N] = Joined(cs)[N]
  BY <1>1, <1>6 DEF T
<1>8. Joined(ds)[N + 1] = Joined(ds)[N] \o Rest(c)
  <2>1. N + 1 \in 1..Len(ds) /\ (N + 1) - 1 = N
    BY <1>1
  <2> HIDE DEF N
  <2> QED BY <1>1, <1>2, <2>1, JoinedSteps
<1> QED BY <1>1, <1>2, <1>7, <1>8 DEF All, ds

(* The first chunk.                                                        *)
LEMMA JoinFirst ==
  ASSUME NEW cs, ChunksOK(cs), cs # <<>>
  PROVE  /\ Head(cs) \in Chunk /\ Unused(Head(cs)) /\ ChunksOK(Tail(cs))
         /\ Len(Tail(cs)) = Len(cs) - 1
         /\ All(cs) = Rest(Head(cs)) \o All(Tail(cs))
<1> DEFINE t == Tail(cs)
           c == Head(cs)
           N == Len(cs)
<1>1. /\ N \in Nat /\ N >= 1 /\ c = cs[1] /\ c \in Chunk /\ Unused(c)
      /\ t \in Seq(Chunk) /\ Len(t) = N - 1
      /\ \A i \in 1..N-1 : t[i] = cs[i + 1]
  BY DEF ChunksOK
<1> HIDE DEF t, c
<1>2. ChunksOK(t)
  <2>1. \A i \in 1..Len(t) : i + 1 \in 1..N /\ t[i] = cs[i + 1]
    BY <1>1
  <2> QED BY <1>1, <2>1 DEF ChunksOK
<1>3. Rest(c) \in Seq(Pcm)
  BY <1>1, RestType
<1> HIDE DEF N
<1> DEFINE T == {n \in 0..N-1 : Joined(cs)[n + 1] # Rest(c) \o Joined(t)[n]}
<1>4. 0 \notin T
  <2>1. Joined(t)[0] = <<>> /\ Joined(cs)[0] = <<>>
    BY <1>2, JoinedSteps
  <2>2. 1 \in 1..Len(cs) /\ 1 - 1 = 0
    BY <1>1 DEF N
  <2>3. Joined(cs)[1] = Joined(cs)[0] \o Rest(cs[1])
    BY <2>2, JoinedSteps
  <2>4. <<>> \o Rest(c) = Rest(c) \o <<>>
    BY <1>3
  <2>5. Joined(cs)[0 + 1] = Rest(c) \o Joined(t)[0]
    BY <1>1, <1>3, <2>1, <2>3, <2>4
  <2> QED BY <2>5
<1>5. ASSUME NEW n \in Nat, n + 1 \in T PROVE n \in T
  <2>1. /\ n \in 0..N-1 /\ n + 1 \in 1..Len(t) /\ (n + 1) - 1 = n
        /\ n + 2 \in 1..Len(cs) /\ (n + 2) - 1 = n + 1 /\ (n + 1) + 1 = n + 2
        /\ n \in 0..Len(t)
    BY <1>1, <1>5 DEF N
  <2> SUFFICES ASSUME Joined(cs)[n + 1] = Rest(c) \o Joined(t)[n]
               PROVE  Joined(cs)[n + 2] = Rest(c) \o Joined(t)[n + 1]
    BY <1>5, <2>1
  <2>2. Joined(t)[n + 1] = Joined(t)[n] \o Rest(t[n + 1])
    BY <1>2, <2>1, JoinedSteps
  <2>3. Joined(cs)[n + 2] = Joined(cs)[n + 1] \o Rest(cs[n + 2])
    BY <2>1, JoinedSteps
  <2>4. t[n + 1] = cs[n + 2]
    BY <1>1, <2>1
  <2>5. Joined(t)[n] \in Seq(Pcm)
    BY <1>2, <2>1, JoinedSteps
  <2>6. Rest(t[n + 1]) \in Seq(Pcm)
    BY <1>2, <2>1, RestType DEF ChunksOK
  <2> DEFINE x == Rest(c)
             y == Joined(t)[n]
             z == Rest(t[n + 1])
  <2>7. x \in Seq(Pcm) /\ y \in Seq(Pcm) /\ z \in Seq(Pcm)
    BY <1>3, <2>5, <2>6
  <2> HIDE DEF x, y, z
  <2>8. (x \o y) \o z = x \o (y \o z)
    BY <2>7, Associative
  <2> QED BY <2>2, <2>3, <2>4, <2>8 DEF x, y, z
<1>6. T \in SUBSET Nat
  <2>1. 0..N-1 \subseteq Nat
    BY <1>1
  <2> QED BY <2>1
<1> HIDE DEF T
<1>7. T = {}
  BY <1>4, <1>5, <1>6, NoCounterexample
<1>8. N - 1 \in 0..N-1 /\ (N - 1) + 1 = N
  BY <1>1
<1>9. Joined(cs)[N] = Rest(c) \o Joined(t)[N - 1]
  BY <1>7, <1>8 DEF T
<1> QED BY <1>1, <1>2, <1>9 DEF All, N, t, c

-----------------------------------------------------------------------------
(* A queue of chunks counts the samples it holds.                          *)

QueueOK(q) ==
    /\ q = [chunks |-> q.chunks, frames |-> q.frames]
    /\ ChunksOK(q.chunks)
    /\ q.frames = Len(All(q.chunks))

(* The first chunk gives up d samples, and goes when it has no more: both  *)
(* dequeuePcmChunkSample and a turn of trimPcmChunkQueue do this.          *)
Used(c, d) == [c EXCEPT !.offset = @ + d]
Without(cs, d) ==
    IF Left(Used(Head(cs), d)) = 0 THEN Tail(cs) ELSE <<Used(Head(cs), d)>> \o Tail(cs)

LEMMA RestOfUsed ==
  ASSUME NEW c \in Chunk, Unused(c), NEW d \in 1..Left(c)
  PROVE  /\ Used(c, d) \in Chunk /\ Left(Used(c, d)) = Left(c) - d
         /\ Rest(Used(c, d)) \in Seq(Pcm) /\ Len(Rest(Used(c, d))) = Left(c) - d
         /\ \A k \in 1..(Left(c) - d) : Rest(Used(c, d))[k] = Rest(c)[d + k]
<1> DEFINE u == Used(c, d)
           s == c.pcm
           l == Len(c.pcm)
           o == c.offset
<1>1. /\ s \in Seq(Pcm) /\ l = Len(s) /\ l \in Nat /\ o \in Nat /\ o < l /\ Left(c) = l - o
      /\ d \in Nat /\ d >= 1 /\ d <= l - o
  BY DEF Chunk, Unused, Left
<1>2. u \in Chunk /\ u.pcm = s /\ u.offset = o + d
  <2> DEFINE v == o + d
  <2>1. v \in Nat
    BY <1>1
  <2>2. u = [c EXCEPT !.offset = v]
    BY DEF Used
  <2> HIDE DEF v, u, s
  <2>3. u \in Chunk /\ u.pcm = c.pcm /\ u.offset = v
    BY <2>1, <2>2 DEF Chunk
  <2> QED BY <2>3 DEF v, s
<1> HIDE DEF u, s, l, o
<1>3. Left(u) = l - (o + d) /\ Left(u) = Left(c) - d
  BY <1>1, <1>2 DEF Left
<1> DEFINE m == o + d + 1
           r == SubSeq(s, m, l)
<1>4. Rest(u) = r
  BY <1>1, <1>2 DEF Rest
<1>5. /\ r \in Seq(Pcm) /\ Len(r) = l - (o + d)
      /\ \A k \in 1..(l - (o + d)) : r[k] = s[o + d + k]
  <2>1. m \in 1..l+1 /\ l - m + 1 = l - (o + d)
    BY <1>1
  <2>2. /\ SubSeq(s, m, l) \in Seq(Pcm) /\ Len(SubSeq(s, m, l)) = l - m + 1
        /\ \A k \in 1..(l - m + 1) : SubSeq(s, m, l)[k] = s[m + k - 1]
    <3> HIDE DEF m
    <3> QED BY <1>1, <2>1
  <2>3. \A k \in 1..(l - (o + d)) : m + k - 1 = o + d + k
    BY <1>1
  <2> QED BY <2>1, <2>2, <2>3
<1> HIDE DEF r, m
<1>6. \A k \in 1..Left(c) : Rest(c)[k] = s[o + k]
  BY RestType DEF s, o
<1>7. ASSUME NEW k \in 1..(Left(c) - d) PROVE r[k] = Rest(c)[d + k]
  <2>1. d + k \in 1..Left(c) /\ o + (d + k) = o + d + k
    BY <1>1
  <2>2. k \in 1..(l - (o + d))
    BY <1>1
  <2> QED BY <1>5, <1>6, <2>1, <2>2
<1> QED BY <1>2, <1>3, <1>4, <1>5, <1>7, <1>1 DEF u

LEMMA WithoutSome ==
  ASSUME NEW cs, ChunksOK(cs), cs # <<>>, NEW d \in 1..Left(Head(cs))
  PROVE  /\ ChunksOK(Without(cs, d))
         /\ d <= Len(All(cs))
         /\ Len(All(Without(cs, d))) = Len(All(cs)) - d
         /\ \A k \in 1..(Len(All(cs)) - d) : All(Without(cs, d))[k] = All(cs)[d + k]
         /\ d = Left(Head(cs)) => Len(Without(cs, d)) = Len(cs) - 1
<1> DEFINE c == Head(cs)
           t == Tail(cs)
           w == Without(cs, d)
           u == Used(c, d)
<1>1. /\ c \in Chunk /\ Unused(c) /\ ChunksOK(t) /\ Len(t) = Len(cs) - 1
      /\ All(cs) = Rest(c) \o All(t)
  BY JoinFirst
<1>2. w = IF Left(u) = 0 THEN t ELSE <<u>> \o t
  BY DEF Without
<1>3. d \in 1..Left(c)
  OBVIOUS
<1> HIDE DEF c, t, w, u
<1>4. Rest(c) \in Seq(Pcm) /\ Len(Rest(c)) = Left(c) /\ Left(c) \in Nat \ {0}
  BY <1>1, RestType
<1>5. /\ u \in Chunk /\ Left(u) = Left(c) - d
      /\ Rest(u) \in Seq(Pcm) /\ Len(Rest(u)) = Left(c) - d
      /\ \A k \in 1..(Left(c) - d) : Rest(u)[k] = Rest(c)[d + k]
  BY <1>1, <1>3, RestOfUsed DEF u
<1>6. All(t) \in Seq(Pcm)
  BY <1>1, AllType
<1>7. ChunksOK(w) /\ All(w) = Rest(u) \o All(t) /\ (d = Left(c) => Len(w) = Len(cs) - 1)
  <2>1. CASE Left(u) = 0
    <3>1. w = t
      BY <1>2, <2>1
    <3>2. Rest(u) = <<>>
      BY <1>5, <2>1
    <3>3. <<>> \o All(t) = All(t)
      BY <1>6
    <3> QED BY <1>1, <3>1, <3>2, <3>3
  <2>2. CASE Left(u) # 0
    <3>1. w = <<u>> \o t
      BY <1>2, <2>2
    <3>2. Unused(u)
      BY <1>3, <1>4, <1>5, <2>2 DEF Unused, Left, Chunk
    <3>3. t \in Seq(Chunk) /\ \A i \in 1..Len(t) : Unused(t[i])
      BY <1>1 DEF ChunksOK
    <3>4. /\ w \in Seq(Chunk) /\ Len(w) = Len(t) + 1 /\ w[1] = u /\ w # <<>>
          /\ \A i \in 1..Len(t) : w[i + 1] = t[i]
      BY <1>5, <3>1, <3>3
    <3>5. \A i \in 1..Len(w) : Unused(w[i])
      <4> TAKE i \in 1..Len(w)
      <4>1. i = 1 \/ (i - 1 \in 1..Len(t) /\ (i - 1) + 1 = i)
        BY <3>3, <3>4
      <4>2. CASE i = 1
        BY <3>2, <3>4, <4>2
      <4>3. CASE i - 1 \in 1..Len(t) /\ (i - 1) + 1 = i
        BY <3>3, <3>4, <4>3
      <4> QED BY <4>1, <4>2, <4>3
    <3>6. ChunksOK(w)
      BY <3>4, <3>5 DEF ChunksOK
    <3>7. Head(w) = u /\ Tail(w) = t
      <4>1. Head(w) = u
        BY <3>4
      <4>2. Tail(w) \in Seq(Chunk) /\ Len(Tail(w)) = Len(t)
            /\ \A i \in 1..Len(t) : Tail(w)[i] = t[i]
        BY <3>3, <3>4
      <4> QED BY <3>3, <4>1, <4>2
    <3>8. All(w) = Rest(u) \o All(t)
      BY <3>4, <3>6, <3>7, JoinFirst
    <3>9. d # Left(c)
      BY <1>5, <2>2
    <3> QED BY <3>6, <3>8, <3>9
  <2> QED BY <2>1, <2>2
<1> DEFINE x == Rest(c)
           y == Rest(u)
           z == All(t)
           n == Left(c)
<1>8. /\ x \in Seq(Pcm) /\ Len(x) = n /\ n \in Nat /\ d \in 1..n
      /\ y \in Seq(Pcm) /\ Len(y) = n - d /\ \A k \in 1..(n - d) : y[k] = x[d + k]
      /\ z \in Seq(Pcm)
  BY <1>3, <1>4, <1>5, <1>6
<1> HIDE DEF x, y, z, n
<1>9. /\ d <= Len(x \o z) /\ Len(y \o z) = Len(x \o z) - d
      /\ \A k \in 1..(Len(x \o z) - d) : (y \o z)[k] = (x \o z)[d + k]
  <2>1. /\ Len(x \o z) = n + Len(z) /\ Len(y \o z) = n - d + Len(z) /\ Len(z) \in Nat
        /\ \A k \in 1..(n + Len(z)) : (x \o z)[k] = IF k <= n THEN x[k] ELSE z[k - n]
        /\ \A k \in 1..(n - d + Len(z)) : (y \o z)[k] = IF k <= n - d THEN y[k] ELSE z[k - (n - d)]
    <3>1. Len(x \o z) = n + Len(z) /\ Len(z) \in Nat
      BY <1>8
    <3>2. Len(y \o z) = n - d + Len(z)
      <4>1. y \in Seq(Pcm) /\ z \in Seq(Pcm) /\ Len(y) = n - d
        BY <1>8
      <4>2. Len(y \o z) = Len(y) + Len(z)
        BY ONLY <4>1
      <4> QED BY ONLY <4>1, <4>2
    <3>3. \A k \in 1..(n + Len(z)) : (x \o z)[k] = IF k <= n THEN x[k] ELSE z[k - n]
      BY <1>8
    <3>4. \A k \in 1..(n - d + Len(z)) : (y \o z)[k] = IF k <= n - d THEN y[k] ELSE z[k - (n - d)]
      <4> DEFINE m == n - d
      <4>1. Len(y) = m
        BY <1>8
      <4> HIDE DEF m
      <4>2. \A k \in 1..(m + Len(z)) : (y \o z)[k] = IF k <= m THEN y[k] ELSE z[k - m]
        BY <1>8, <4>1
      <4> QED BY <4>2 DEF m
    <3> QED BY <3>1, <3>2, <3>3, <3>4
  <2>2. ASSUME NEW k \in 1..(n + Len(z) - d) PROVE (y \o z)[k] = (x \o z)[d + k]
    <3>1. d + k \in 1..(n + Len(z)) /\ k \in 1..(n - d + Len(z)) /\ (d + k <= n <=> k <= n - d)
          /\ (d + k) - n = k - (n - d)
      BY <1>8, <2>1
    <3>2. (y \o z)[k] = IF k <= n - d THEN y[k] ELSE z[k - (n - d)]
      BY <2>1, <3>1
    <3>3. (x \o z)[d + k] = IF d + k <= n THEN x[d + k] ELSE z[(d + k) - n]
      BY <2>1, <3>1
    <3>4. k <= n - d => k \in 1..(n - d)
      BY <1>8
    <3> QED BY <1>8, <3>1, <3>2, <3>3, <3>4
  <2>3. d <= Len(x \o z) /\ Len(y \o z) = Len(x \o z) - d /\ Len(x \o z) - d = n + Len(z) - d
    BY <1>8, <2>1
  <2> QED BY <2>2, <2>3
<1>10. All(cs) = x \o z /\ All(w) = y \o z
  BY <1>1, <1>7 DEF x, y, z
<1> QED BY <1>7, <1>9, <1>10 DEF w, c

(* What is left of a sequence that gave up its first samples.              *)
LEMMA FrontGone ==
  ASSUME NEW s \in Seq(Pcm), NEW t \in Seq(Pcm), NEW d \in 1..Len(s),
         Len(t) = Len(s) - d, \A k \in 1..(Len(s) - d) : t[k] = s[d + k]
  PROVE  /\ d = 1 => t = Tail(s)
         /\ Cap <= Len(t) => Newest(t) = Newest(s)
<1>1. ASSUME d = 1 PROVE t = Tail(s)
  <2> DEFINE v == Tail(s)
  <2>1. s # <<>>
    OBVIOUS
  <2>2. v \in Seq(Pcm) /\ Len(v) = Len(s) - 1 /\ \A k \in 1..(Len(s) - 1) : v[k] = s[k + 1]
    BY <2>1
  <2> HIDE DEF v
  <2>3. \A k \in 1..(Len(s) - 1) : t[k] = s[k + 1]
    BY <1>1
  <2>4. v = t
    BY <1>1, <2>2, <2>3
  <2> QED BY <2>4 DEF v
<1>2. ASSUME Cap <= Len(t) PROVE Newest(t) = Newest(s)
  <2> DEFINE x == Newest(s)
             y == Newest(t)
  <2>1. /\ x \in Seq(Pcm) /\ Len(x) = (IF Len(s) <= Cap THEN Len(s) ELSE Cap)
        /\ \A k \in 1..Len(x) : x[k] = s[Len(s) - Len(x) + k]
    BY NewestShape
  <2>2. /\ y \in Seq(Pcm) /\ Len(y) = (IF Len(t) <= Cap THEN Len(t) ELSE Cap)
        /\ \A k \in 1..Len(y) : y[k] = t[Len(t) - Len(y) + k]
    BY NewestShape
  <2> HIDE DEF x, y
  <2>3. Len(x) = Cap /\ Len(y) = Cap /\ Cap \in Nat /\ Len(s) \in Nat /\ Len(t) \in Nat
    <3>1. Len(s) \in Nat /\ Len(t) \in Nat /\ Cap \in Nat /\ d \in Nat /\ d >= 1
      BY CapAssumption
    <3>2. Len(s) > Cap /\ (Len(t) <= Cap => Len(t) = Cap)
      BY ONLY <1>2, <3>1, Len(t) = Len(s) - d
    <3> QED BY <2>1, <2>2, <3>1, <3>2
  <2>4. ASSUME NEW k \in 1..Cap PROVE x[k] = y[k]
    <3>1. x[k] = s[Len(s) - Cap + k] /\ y[k] = t[Len(t) - Cap + k]
      BY <2>1, <2>2, <2>3
    <3>2. Len(t) - Cap + k \in 1..(Len(s) - d) /\ d + (Len(t) - Cap + k) = Len(s) - Cap + k
      BY <1>2, <2>3
    <3> QED BY <3>1, <3>2
  <2>5. x = y
    BY <2>1, <2>2, <2>3, <2>4
  <2> QED BY <2>5 DEF x, y
<1> QED BY <1>1, <1>2

LEMMA EmptyChunks ==
  QueueOK(createPcmChunkQueue) /\ All(createPcmChunkQueue.chunks) = <<>>
<1>1. ChunksOK(<<>>)
  BY DEF ChunksOK
<1> QED BY <1>1, NothingJoined DEF QueueOK, createPcmChunkQueue

LEMMA ChunksEmpty ==
  ASSUME NEW cs, ChunksOK(cs)
  PROVE  /\ All(cs) \in Seq(Pcm) /\ (All(cs) = <<>> <=> cs = <<>>)
         /\ cs # <<>> => Head(cs) \in Chunk /\ Unused(Head(cs))
                         /\ Head(All(cs)) = Head(cs).pcm[Head(cs).offset + 1]
<1>1. All(cs) \in Seq(Pcm)
  BY AllType
<1>2. ASSUME cs # <<>>
      PROVE  /\ All(cs) # <<>> /\ Head(cs) \in Chunk /\ Unused(Head(cs))
             /\ Head(All(cs)) = Head(cs).pcm[Head(cs).offset + 1]
  <2> DEFINE c == Head(cs)
             x == Rest(Head(cs))
             z == All(Tail(cs))
  <2>1. c \in Chunk /\ Unused(c) /\ ChunksOK(Tail(cs)) /\ All(cs) = x \o z
    BY <1>2, JoinFirst
  <2>2. z \in Seq(Pcm)
    BY <2>1, AllType
  <2>3. /\ x \in Seq(Pcm) /\ Len(x) = Left(c) /\ Left(c) \in Nat \ {0}
        /\ \A k \in 1..Left(c) : x[k] = c.pcm[c.offset + k]
    BY <2>1, RestType
  <2> HIDE DEF c, x, z
  <2>4. 1 \in 1..Left(c) /\ x[1] = c.pcm[c.offset + 1]
    BY <2>3
  <2>5. x \o z # <<>> /\ Head(x \o z) = x[1]
    <3>1. Len(x \o z) = Len(x) + Len(z) /\ Len(x) >= 1 /\ Len(z) \in Nat /\ (x \o z)[1] = x[1]
      BY <2>2, <2>3
    <3> QED BY <2>2, <2>3, <3>1
  <2> QED BY <2>1, <2>4, <2>5 DEF c
<1> QED BY <1>1, <1>2, NothingJoined

LEMMA ChunksTake ==
  ASSUME NEW q, QueueOK(q)
  PROVE  /\ QueueOK(dequeuePcmChunkSample(q))
         /\ q.chunks = <<>> => All(q.chunks) = <<>> /\ firstPcmChunkSample(q) = 0
                               /\ dequeuePcmChunkSample(q) = q
         /\ q.chunks # <<>> =>
              /\ All(q.chunks) # <<>> /\ firstPcmChunkSample(q) = Head(All(q.chunks))
              /\ All(dequeuePcmChunkSample(q).chunks) = Tail(All(q.chunks))
<1> DEFINE cs == q.chunks
           k == dequeuePcmChunkSample(q)
<1>1. ChunksOK(cs) /\ q.frames = Len(All(cs))
  BY DEF QueueOK
<1>2. CASE cs = <<>>
  BY <1>1, <1>2, ChunksEmpty DEF dequeuePcmChunkSample, firstPcmChunkSample
<1>3. CASE cs # <<>>
  <2>1. /\ Head(cs) \in Chunk /\ Unused(Head(cs)) /\ All(cs) \in Seq(Pcm) /\ All(cs) # <<>>
        /\ Head(All(cs)) = Head(cs).pcm[Head(cs).offset + 1]
    BY <1>1, <1>3, ChunksEmpty
  <2>2. firstPcmChunkSample(q) = Head(All(cs))
    BY <1>3, <2>1 DEF firstPcmChunkSample
  <2>3. k = [chunks |-> Without(cs, 1), frames |-> q.frames - 1]
    BY <1>3 DEF dequeuePcmChunkSample, Without, Used
  <2>4. 1 \in 1..Left(Head(cs))
    BY <2>1, RestType
  <2> HIDE DEF k, cs
  <2> DEFINE a == All(cs)
             b == All(Without(cs, 1))
  <2>5. /\ ChunksOK(Without(cs, 1)) /\ Len(b) = Len(a) - 1
        /\ \A i \in 1..(Len(a) - 1) : b[i] = a[1 + i]
    BY <1>1, <1>3, <2>4, WithoutSome
  <2>6. b \in Seq(Pcm)
    BY <2>5, AllType
  <2>7. b = Tail(a)
    <3> HIDE DEF a, b
    <3>1. a \in Seq(Pcm) /\ 1 \in 1..Len(a)
      BY <2>1 DEF a
    <3> QED BY <2>5, <2>6, <3>1, FrontGone
  <2>8. QueueOK(k)
    BY <1>1, <2>3, <2>5 DEF QueueOK, cs
  <2> QED BY <1>3, <2>1, <2>2, <2>3, <2>7, <2>8 DEF k, cs
<1> QED BY <1>2, <1>3

-----------------------------------------------------------------------------
(* trimPcmChunkQueue keeps the newest samples.                             *)

Queues == {q \in [chunks : Seq(Chunk), frames : Nat] : QueueOK(q)}

LEMMA OneOfQueues == ASSUME NEW q PROVE q \in Queues <=> QueueOK(q)
<1> SUFFICES ASSUME QueueOK(q) PROVE q \in [chunks : Seq(Chunk), frames : Nat]
  BY DEF Queues
<1>1. q = [chunks |-> q.chunks, frames |-> q.frames] /\ q.chunks \in Seq(Chunk)
  BY DEF QueueOK, ChunksOK
<1>2. q.frames \in Nat
  <2>1. All(q.chunks) \in Seq(Pcm)
    BY AllType DEF QueueOK
  <2> QED BY <2>1 DEF QueueOK
<1> DEFINE c == q.chunks
           f == q.frames
<1> HIDE DEF c, f
<1>3. q = [chunks |-> c, frames |-> f] /\ c \in Seq(Chunk) /\ f \in Nat
  BY <1>1, <1>2 DEF c, f
<1> QED BY <1>3

LEMMA TurnKeeps ==
  ASSUME NEW q, QueueOK(q)
  PROVE  /\ QueueOK(trimOnce(q))
         /\ Newest(All(trimOnce(q).chunks)) = Newest(All(q.chunks))
         /\ trimOnce(q).frames <= Cap \/ Len(trimOnce(q).chunks) < Len(q.chunks)
<1> DEFINE cs == q.chunks
           t == trimOnce(q)
<1>1. ChunksOK(cs) /\ q.frames = Len(All(cs)) /\ All(cs) \in Seq(Pcm)
  BY AllType DEF QueueOK
<1>2. CASE q.frames <= Cap \/ cs = <<>>
  <2>1. t = q
    BY <1>2 DEF trimOnce
  <2>2. cs = <<>> => q.frames = 0
    BY <1>1, ChunksEmpty
  <2> QED BY <1>2, <2>1, <2>2, CapAssumption
<1>3. CASE ~(q.frames <= Cap \/ cs = <<>>)
  <2> DEFINE c == Head(cs)
             over == q.frames - Cap
             d == Smaller(Left(c), over)
             w == Without(cs, d)
  <2>1. t = [chunks |-> w, frames |-> q.frames - d]
    BY <1>3 DEF trimOnce, Without, Used
  <2>2. Left(c) \in Nat \ {0}
    BY <1>1, <1>3, ChunksEmpty, RestType
  <2>3. over \in Nat \ {0} /\ over = Len(All(cs)) - Cap
    BY <1>1, <1>3, CapAssumption
  <2>4. d \in 1..Left(c) /\ d <= over /\ (d = Left(c) \/ d = over)
    <3> HIDE DEF c, over
    <3> QED BY <2>2, <2>3 DEF Smaller
  <2> HIDE DEF t, cs, d
  <2>5. /\ ChunksOK(w) /\ d <= Len(All(cs)) /\ Len(All(w)) = Len(All(cs)) - d
        /\ \A k \in 1..(Len(All(cs)) - d) : All(w)[k] = All(cs)[d + k]
        /\ d = Left(c) => Len(w) = Len(cs) - 1
    BY <1>1, <1>3, <2>4, WithoutSome
  <2>6. QueueOK(t)
    BY <1>1, <2>1, <2>5 DEF QueueOK, cs
  <2>7. Newest(All(w)) = Newest(All(cs))
    <3> DEFINE a == All(cs)
               b == All(w)
    <3>1. a \in Seq(Pcm) /\ b \in Seq(Pcm) /\ Len(b) = Len(a) - d
          /\ \A k \in 1..(Len(a) - d) : b[k] = a[d + k]
      BY <1>1, <2>5, AllType
    <3>2. d \in Nat /\ d >= 1 /\ d <= Len(a) - Cap
      BY <2>2, <2>3, <2>4
    <3> HIDE DEF a, b, c, over
    <3>3. d \in 1..Len(a) /\ Cap <= Len(b)
      BY <3>1, <3>2, CapAssumption
    <3>4. Newest(b) = Newest(a)
      BY <3>1, <3>3, FrontGone
    <3> QED BY <3>4 DEF a, b
  <2>8. t.frames <= Cap \/ Len(t.chunks) < Len(cs)
    <3>1. CASE d = over
      BY <1>1, <2>1, <2>3, <3>1, CapAssumption
    <3>2. CASE d = Left(c)
      <4>1. Len(cs) \in Nat
        BY <1>1 DEF ChunksOK
      <4> QED BY <2>1, <2>5, <3>2, <4>1
    <3> QED BY <2>4, <3>1, <3>2
  <2> QED BY <2>1, <2>6, <2>7, <2>8 DEF t, cs
<1> QED BY <1>2, <1>3

LEMMA TrimKeepsNewest ==
  ASSUME NEW q, QueueOK(q)
  PROVE  /\ QueueOK(trimPcmChunkQueue(q))
         /\ All(trimPcmChunkQueue(q).chunks) = Newest(All(q.chunks))
<1> DEFINE N == Len(q.chunks)
           step == [p \in Queues \X (1..N) |-> trimOnce(p[1])]
           Turns(f) == f = [n \in 0..N |-> IF n = 0 THEN q ELSE trimOnce(f[n - 1])]
           turn == CHOOSE f : Turns(f)
<1>1. trimPcmChunkQueue(q) = turn[N]
  BY DEF trimPcmChunkQueue
<1>2. N \in Nat
  BY DEF QueueOK, ChunksOK
<1>3. step \in [Queues \X (1..N) -> Queues]
  BY OneOfQueues, TurnKeeps
<1>4. \A x \in Queues, i \in 1..N : step[<<x, i>>] = trimOnce(x)
  OBVIOUS
<1>5. q \in Queues
  BY OneOfQueues
<1>6. \E f : Turns(f)
  <2> HIDE DEF step, N
  <2>1. PICK f : IsRun(f, Queues, step, q, N)
    BY <1>2, <1>3, <1>5, RunExists
  <2>2. f \in [0..N -> Queues] /\ f[0] = q /\ \A i \in 1..N : f[i] = step[<<f[i-1], i>>]
    BY <2>1 DEF IsRun
  <2>3. ASSUME NEW n \in 0..N PROVE f[n] = IF n = 0 THEN q ELSE trimOnce(f[n - 1])
    <3>1. CASE n = 0
      BY <2>2, <3>1
    <3>2. CASE n \in 1..N
      <4>1. n - 1 \in 0..N /\ n # 0
        BY <1>2, <3>2
      <4>2. f[n - 1] \in Queues
        BY <2>2, <4>1
      <4> QED BY <1>4, <2>2, <3>2, <4>1, <4>2
    <3> QED BY <1>2, <3>1, <3>2
  <2>4. f = [n \in 0..N |-> f[n]]
    BY <2>2
  <2>5. Turns(f)
    BY <2>3, <2>4
  <2> QED BY <2>5
<1>7. Turns(turn)
  BY <1>6
<1> HIDE DEF turn, step
<1>8. \A n \in 0..N : turn[n] = IF n = 0 THEN q ELSE trimOnce(turn[n - 1])
  <2> DEFINE h == [n \in 0..N |-> IF n = 0 THEN q ELSE trimOnce(turn[n - 1])]
  <2>1. turn = h
    BY <1>7
  <2>2. \A n \in 0..N : h[n] = IF n = 0 THEN q ELSE trimOnce(turn[n - 1])
    OBVIOUS
  <2> HIDE DEF h
  <2> QED BY <2>1, <2>2
<1> DEFINE Fine(n) ==
      /\ QueueOK(turn[n]) /\ Newest(All(turn[n].chunks)) = Newest(All(q.chunks))
      /\ turn[n].frames <= Cap \/ Len(turn[n].chunks) + n <= N
      T == {n \in 0..N : ~Fine(n)}
<1>9. 0 \notin T
  BY <1>2, <1>8
<1>10. ASSUME NEW n \in Nat, n + 1 \in T PROVE n \in T
  <2>1. n \in 0..N /\ n + 1 \in 0..N /\ n + 1 # 0 /\ (n + 1) - 1 = n
    BY <1>2, <1>10
  <2> SUFFICES ASSUME Fine(n) PROVE Fine(n + 1)
    BY <1>10, <2>1
  <2>2. turn[n + 1] = trimOnce(turn[n])
    BY <1>8, <2>1
  <2> DEFINE a == turn[n]
             b == turn[n + 1]
  <2>3. /\ QueueOK(b) /\ Newest(All(b.chunks)) = Newest(All(a.chunks))
        /\ b.frames <= Cap \/ Len(b.chunks) < Len(a.chunks)
    BY <2>2, TurnKeeps
  <2>4. a.frames <= Cap => b = a
    BY <2>2 DEF trimOnce
  <2>5. Len(a.chunks) \in Nat /\ Len(b.chunks) \in Nat
    BY <2>3 DEF QueueOK, ChunksOK
  <2>6. b.frames <= Cap \/ Len(b.chunks) + (n + 1) <= N
    <3>1. CASE a.frames <= Cap
      BY <2>4, <3>1
    <3>2. CASE ~(a.frames <= Cap) /\ Len(a.chunks) + n <= N
      <4> DEFINE x == Len(a.chunks)
                 y == Len(b.chunks)
      <4>1. CASE b.frames <= Cap
        BY <4>1
      <4>2. CASE y < x
        <5>1. x \in Nat /\ y \in Nat /\ x + n <= N
          BY <2>5, <3>2
        <5> HIDE DEF x, y, N
        <5>2. y + (n + 1) <= N
          BY ONLY <1>2, <4>2, <5>1, n \in Nat
        <5> QED BY <5>2 DEF y
      <4> QED BY <2>3, <4>1, <4>2
    <3> QED BY <3>1, <3>2
  <2> QED BY <2>3, <2>6
<1>11. T \in SUBSET Nat
  BY <1>2
<1> HIDE DEF T
<1>12. T = {}
  BY <1>9, <1>10, <1>11, NoCounterexample
<1>13. Fine(N)
  <2>1. N \in 0..N
    BY <1>2
  <2> QED BY <1>12, <2>1 DEF T
<1> DEFINE e == turn[N]
<1>14. ChunksOK(e.chunks) /\ e.frames = Len(All(e.chunks)) /\ All(e.chunks) \in Seq(Pcm)
  BY <1>13, AllType DEF QueueOK
<1>15. e.frames <= Cap
  <2>1. ASSUME Len(e.chunks) + N <= N PROVE e.frames <= Cap
    <3>1. e.chunks \in Seq(Chunk)
      BY <1>14 DEF ChunksOK
    <3>2. e.chunks = <<>>
      <4> HIDE DEF e, N
      <4>1. Len(e.chunks) = 0
        BY <1>2, <2>1, <3>1
      <4> QED BY <3>1, <4>1
    <3>3. e.frames = 0
      BY <1>14, <3>2, NothingJoined
    <3> QED BY <3>3, CapAssumption
  <2> QED BY <1>13, <2>1
<1>16. Newest(All(e.chunks)) = All(e.chunks)
  BY <1>14, <1>15, NewestFits
<1> QED BY <1>1, <1>13, <1>16

LEMMA ChunksPut ==
  ASSUME NEW q, QueueOK(q), NEW pcm \in Seq(Pcm), pcm # <<>>
  PROVE  /\ QueueOK(enqueuePcmChunk(q, pcm))
         /\ All(enqueuePcmChunk(q, pcm).chunks) = Newest(All(q.chunks) \o pcm)
<1> DEFINE c == [pcm |-> pcm, offset |-> 0]
           r == [chunks |-> Append(q.chunks, c), frames |-> q.frames + Len(pcm)]
<1>1. enqueuePcmChunk(q, pcm) = trimPcmChunkQueue(r)
  BY DEF enqueuePcmChunk
<1>2. c \in Chunk /\ Unused(c) /\ c.pcm = pcm /\ c.offset = 0
  BY DEF Chunk, Unused
<1>3. ChunksOK(q.chunks) /\ q.frames = Len(All(q.chunks)) /\ All(q.chunks) \in Seq(Pcm)
  BY AllType DEF QueueOK
<1>4. Rest(c) = pcm
  <2> HIDE DEF c
  <2>1. SubSeq(pcm, 1, Len(pcm)) = pcm
    OBVIOUS
  <2> QED BY <1>2, <2>1 DEF Rest
<1>5. ChunksOK(Append(q.chunks, c)) /\ All(Append(q.chunks, c)) = All(q.chunks) \o pcm
  <2> HIDE DEF c
  <2> QED BY <1>2, <1>3, <1>4, JoinLast
<1>6. QueueOK(r)
  <2>1. Len(All(q.chunks) \o pcm) = q.frames + Len(pcm)
    BY <1>3
  <2> QED BY <1>5, <2>1 DEF QueueOK
<1> HIDE DEF r
<1>7. QueueOK(trimPcmChunkQueue(r)) /\ All(trimPcmChunkQueue(r).chunks) = Newest(All(r.chunks))
  BY <1>6, TrimKeepsNewest
<1>8. r.chunks = Append(q.chunks, c)
  BY DEF r
<1> QED BY <1>1, <1>5, <1>7, <1>8

-----------------------------------------------------------------------------
(* The streams of both kinds of page.                                      *)

QueuesOK == \A chip \in Chips : QueueOK(queue[chip])

KeptCleared(chip) == Kept(chip)' = <<>> /\ heard[chip]' = 0
KeptTaken(chip) ==
    IF Kept(chip) = <<>> THEN heard[chip]' = 0 /\ Kept(chip)' = Kept(chip)
    ELSE heard[chip]' = Head(Kept(chip)) /\ Kept(chip)' = Tail(Kept(chip))
KeptPut(chip) ==
    \E pcm \in Sendable : Kept(chip)' = Newest(Kept(chip) \o pcm) /\ heard[chip]' = heard[chip]
KeptStep(chip) ==
    \/ Kept(chip)' = Kept(chip) /\ heard[chip]' = heard[chip]
    \/ KeptCleared(chip) \/ KeptTaken(chip) \/ KeptPut(chip)
AllKept == QueuesOK' /\ \A chip \in Chips : KeptStep(chip)

LEMMA EmptyQueuesOK ==
  ASSUME NEW chip \in Chips
  PROVE  QueueOK(EmptyQueues[chip]) /\ Waiting(EmptyQueues[chip]) = <<>>
  BY EmptyChunks, WaitingIsAll DEF EmptyQueues

(* A new renderer begins with empty queues, whatever feeds it.             *)
LEMMA NewStreamClears == ASSUME NEW messages, NewStream(messages) PROVE AllKept
<1>1. ring' = EmptyRings /\ queue' = EmptyQueues /\ heard' = Silent
  BY DEF NewStream
<1>2. ASSUME NEW chip \in Chips PROVE KeptCleared(chip)
  BY <1>1, EmptyRingsOK, EmptyQueuesOK DEF KeptCleared, Kept, Silent
<1>3. QueuesOK'
  BY <1>1, EmptyQueuesOK DEF QueuesOK
<1> QED BY <1>2, <1>3 DEF AllKept, KeptStep

(* Otherwise the sink stays, and so does what the chips are fed from.      *)
LEMMA SinkStays ==
  ASSUME StartInv, [Next]_allVars
  PROVE  Sink' = Sink \/ \E messages : NewStream(messages)
<1>1. CASE Starts
  BY <1>1 DEF Starts
<1>2. ASSUME NEW i \in 1..Last, Loads(i)
      PROVE  Sink' = Sink \/ \E messages : NewStream(messages)
  BY <1>2, SinkKept DEF Loads
<1>3. ASSUME NEW i \in 1..Last, Settles(i) PROVE Sink' = Sink
  BY <1>3, SinkKept DEF Settles
<1>4. CASE Refuses \/ UNCHANGED allVars
  <2>1. renderers' = renderers
    BY <1>4 DEF Refuses, GestureRefused, allVars, startVars
  <2> QED BY <2>1 DEF Sink, Last
<1>5. CASE \/ pushSoundPcm \/ resetPcmStreams \/ HandleReset \/ HandlePcm \/ CopySample
           \/ BeginQuantum \/ RenderSample \/ RenderScriptSample
  <2>1. UNCHANGED startVars
    BY <1>5 DEF pushSoundPcm, resetPcmStreams, HandleReset, HandlePcm, CopySample,
                BeginQuantum, RenderSample, RenderScriptSample
  <2> QED BY <2>1 DEF startVars, Sink, Last
<1> QED BY <1>1, <1>2, <1>3, <1>4, <1>5 DEF Next

LEMMA PushKept ==
  ASSUME StreamInv, QueuesOK, PushChunks(frame + 1), frame < MaxFrames, heard' = heard,
         Sink = "script", Sink' = Sink
  PROVE  AllKept
<1> DEFINE pcm == Samples(frame + 1)
<1>1. frame + 1 \in 1..MaxFrames
  BY SizesAssumption DEF StreamInv
<1>2. pcm \in Seq(Pcm) /\ pcm # <<>> /\ pcm \in Sendable
  BY <1>1, FrameIsPcm DEF Sendable
<1>3. queue' = [chip \in Chips |-> enqueuePcmChunk(queue[chip], pcm)]
  BY DEF PushChunks
<1> HIDE DEF pcm
<1>4. ASSUME NEW chip \in Chips PROVE QueueOK(queue'[chip]) /\ KeptPut(chip)
  <2>1. queue'[chip] = enqueuePcmChunk(queue[chip], pcm) /\ QueueOK(queue[chip])
    BY <1>3 DEF QueuesOK
  <2>2. /\ QueueOK(queue'[chip])
        /\ All(queue'[chip].chunks) = Newest(All(queue[chip].chunks) \o pcm)
    BY <1>2, <2>1, ChunksPut
  <2>3. Kept(chip) = All(queue[chip].chunks) /\ Kept(chip)' = All(queue'[chip].chunks)
    BY WaitingIsAll DEF Kept
  <2> QED BY <1>2, <2>2, <2>3 DEF KeptPut
<1> QED BY <1>4 DEF AllKept, KeptStep, QueuesOK

LEMMA ScriptTakes ==
  ASSUME QueuesOK, RenderScriptSample, Sink' = Sink
  PROVE  AllKept
<1>1. /\ Sink = "script"
      /\ heard' = [chip \in Chips |-> firstPcmChunkSample(queue[chip])]
      /\ queue' = [chip \in Chips |-> dequeuePcmChunkSample(queue[chip])]
  BY DEF RenderScriptSample
<1>2. ASSUME NEW chip \in Chips PROVE QueueOK(queue'[chip]) /\ KeptTaken(chip)
  <2> DEFINE q == queue[chip]
             a == All(q.chunks)
             b == All(dequeuePcmChunkSample(q).chunks)
  <2>1. /\ heard'[chip] = firstPcmChunkSample(q)
        /\ queue'[chip] = dequeuePcmChunkSample(q) /\ QueueOK(q)
    BY <1>1 DEF QueuesOK
  <2>2. Kept(chip) = a /\ Kept(chip)' = b
    BY <1>1, <2>1, WaitingIsAll DEF Kept
  <2>3. /\ QueueOK(dequeuePcmChunkSample(q))
        /\ q.chunks = <<>> => a = <<>> /\ firstPcmChunkSample(q) = 0 /\ b = a
        /\ q.chunks # <<>> => a # <<>> /\ firstPcmChunkSample(q) = Head(a) /\ b = Tail(a)
    BY <2>1, ChunksTake
  <2> HIDE DEF q, a, b
  <2> QED BY <2>1, <2>2, <2>3 DEF KeptTaken
<1> QED BY <1>2 DEF AllKept, KeptStep, QueuesOK

LEMMA QueuesStep ==
  ASSUME StartInv, StreamInv, QueuesOK, [Next]_allVars
  PROVE  AllKept
<1> SUFFICES ASSUME Sink' = Sink, ~\E messages : NewStream(messages) PROVE AllKept
  BY SinkStays, NewStreamClears
<1>1. CASE PushChunks(frame + 1) /\ pushSoundPcm /\ Sink = "script"
  BY <1>1, PushKept DEF pushSoundPcm
<1>2. CASE RenderScriptSample
  BY <1>2, ScriptTakes
<1>3. CASE resetPcmStreams
  <2>1. queue' = EmptyQueues /\ QueuesOK'
    BY <1>3, EmptyQueuesOK DEF resetPcmStreams, QueuesOK
  <2>2. CASE Sink = "script"
    <3>1. heard' = Silent
      BY <1>3, <2>2 DEF resetPcmStreams
    <3>2. ASSUME NEW chip \in Chips PROVE KeptCleared(chip)
      BY <2>1, <2>2, <3>1, EmptyQueuesOK DEF KeptCleared, Kept, Silent
    <3> QED BY <2>1, <3>2 DEF AllKept, KeptStep
  <2>3. CASE Sink = "worklet"
    <3>1. ring' = ring /\ heard' = heard
      BY <1>3, <2>3 DEF resetPcmStreams
    <3> QED BY <2>1, <2>3, <3>1 DEF AllKept, KeptStep, Kept
  <2>4. CASE Sink \notin {"script", "worklet"}
    <3>1. ring' = ring /\ heard' = Silent /\ ring = EmptyRings
      BY <1>3, <2>4 DEF resetPcmStreams, StreamInv, RingsOK
    <3>2. ASSUME NEW chip \in Chips PROVE KeptCleared(chip)
      BY <2>4, <3>1, EmptyRingsOK DEF KeptCleared, Kept, Silent
    <3> QED BY <2>1, <3>2 DEF AllKept, KeptStep
  <2> QED BY <2>2, <2>3, <2>4
<1>4. CASE ~RenderScriptSample /\ ~resetPcmStreams
           /\ ~(PushChunks(frame + 1) /\ pushSoundPcm /\ Sink = "script")
  <2>1. queue' = queue
    <3>1. CASE pushSoundPcm
      BY <1>4, <3>1 DEF pushSoundPcm, PushMessages, PushNothing
    <3>2. CASE Starts
      BY <3>2 DEF Starts
    <3>3. ASSUME NEW i \in 1..Last, Loads(i) \/ Settles(i) PROVE queue' = queue
      BY <3>3 DEF Loads, Settles, streamVars
    <3>4. CASE \/ Refuses \/ UNCHANGED allVars \/ HandleReset \/ HandlePcm \/ CopySample
               \/ BeginQuantum \/ RenderSample
      BY <3>4 DEF Refuses, allVars, streamVars, HandleReset, HandlePcm, CopySample,
                  BeginQuantum, RenderSample
    <3> QED BY <1>4, <3>1, <3>2, <3>3, <3>4 DEF Next
  <2>2. QueuesOK'
    BY <2>1 DEF QueuesOK
  <2>3. CASE Sink # "script"
    <3>1. \A chip \in Chips : FifoStep(chip)
      BY <1>4, StreamStep DEF Good
    <3>2. ASSUME NEW chip \in Chips PROVE KeptStep(chip)
      <4>1. Kept(chip) = Stored(ring[chip]) /\ Kept(chip)' = Stored(ring[chip])'
        BY <2>3 DEF Kept
      <4>2. FifoStep(chip)
        BY <3>1
      <4>3. PutOne(chip) => KeptPut(chip)
        BY <4>1 DEF PutOne, KeptPut, Sendable, Newest
      <4> QED BY <4>1, <4>2, <4>3
              DEF FifoStep, Untouched, Cleared, Taken, KeptStep, KeptCleared, KeptTaken
    <3> QED BY <2>2, <3>2 DEF AllKept
  <2>4. CASE Sink = "script"
    <3>1. heard' = heard
      <4>1. CASE pushSoundPcm
        BY <4>1 DEF pushSoundPcm
      <4>2. CASE Starts
        BY <4>2 DEF Starts
      <4>3. ASSUME NEW i \in 1..Last, Loads(i) \/ Settles(i) PROVE heard' = heard
        BY <4>3 DEF Loads, Settles, streamVars
      <4>4. CASE \/ Refuses \/ UNCHANGED allVars \/ HandlePcm \/ CopySample \/ BeginQuantum
        BY <4>4 DEF Refuses, allVars, streamVars, HandlePcm, CopySample, BeginQuantum
      <4>5. ~HandleReset /\ ~RenderSample
        BY <2>4 DEF HandleReset, RenderSample, Worklet
      <4> QED BY <1>4, <4>1, <4>2, <4>3, <4>4, <4>5 DEF Next
    <3> QED BY <2>1, <2>2, <2>4, <3>1 DEF AllKept, KeptStep, Kept
  <2> QED BY <2>3, <2>4
<1> QED BY <1>1, <1>2, <1>3, <1>4

(* Whatever plays them, both streams are queues that drop their oldest     *)
(* samples, for every capacity, frame, quantum and number of renderers:    *)
(* the ring of the worklet and the chunks of the fallback lose, repeat and *)
(* reorder nothing else, and a new renderer begins with silence.           *)
THEOREM StreamsAlwaysFifos == Spec => StreamsAreFifos
<1> DEFINE Inv == StartInv /\ StreamInv /\ QueuesOK
<1>1. Init => Inv
  BY StartInvInit, StreamInit, EmptyQueuesOK DEF Init, QueuesOK
<1>2. Inv /\ [Next]_allVars => Inv'
  BY NextStarts, StartInvNext, StreamInvNext, QueuesStep DEF AllKept
<1>3. Init => YmFifo!Init /\ PokeyFifo!Init
  <2> SUFFICES ASSUME Init PROVE \A chip \in Chips : Kept(chip) = <<>> /\ heard[chip] = 0
    BY DEF YmFifo!Init, PokeyFifo!Init, Chips, YmFifo!Silence, PokeyFifo!Silence
  <2> QED BY StreamInit, EmptyQueuesOK DEF Init, Kept
<1>4. Inv /\ [Next]_allVars
        => /\ [YmFifo!Next]_<<Kept("ym"), heard["ym"]>>
           /\ [PokeyFifo!Next]_<<Kept("pokey"), heard["pokey"]>>
  <2> SUFFICES ASSUME Inv, [Next]_allVars
               PROVE  /\ [YmFifo!Next]_<<Kept("ym"), heard["ym"]>>
                      /\ [PokeyFifo!Next]_<<Kept("pokey"), heard["pokey"]>>
    OBVIOUS
  <2>1. KeptStep("ym") /\ KeptStep("pokey")
    BY QueuesStep DEF AllKept, Chips
  <2>2. \A s : Newest(s) = YmFifo!Newest(s) /\ Newest(s) = PokeyFifo!Newest(s)
    BY DEF Newest, YmFifo!Newest, PokeyFifo!Newest
  <2>3. [YmFifo!Next]_<<Kept("ym"), heard["ym"]>>
    BY <2>1, <2>2 DEF KeptStep, KeptCleared, KeptTaken, KeptPut, YmFifo!Next,
       YmFifo!Put, YmFifo!Clear, YmFifo!Take, YmFifo!Silence
  <2>4. [PokeyFifo!Next]_<<Kept("pokey"), heard["pokey"]>>
    BY <2>1, <2>2 DEF KeptStep, KeptCleared, KeptTaken, KeptPut, PokeyFifo!Next,
       PokeyFifo!Put, PokeyFifo!Clear, PokeyFifo!Take, PokeyFifo!Silence
  <2> QED BY <2>3, <2>4
<1> QED BY <1>1, <1>2, <1>3, <1>4, PTL DEF Spec, StreamsAreFifos, YmFifo!Spec, PokeyFifo!Spec

-----------------------------------------------------------------------------
(* How far the YM2151 ring is ahead of POKEY's: by what is copied of the   *)
(* batch whose POKEY message comes next, or is still being copied.         *)

Pairs ==
    \A k \in 1..Len(port) :
      /\ port[k].type \in {"ym_pcm", "pokey_pcm"} => Len(port[k].pcm) = FrameSamples
      /\ port[k].type = "ym_pcm" => k < Len(port) /\ port[k + 1] = Message("pokey_pcm", port[k].pcm)
      /\ port[k].type = "pokey_pcm" => k = 1 \/ port[k - 1].type = "ym_pcm"

CopyingTo(chip) == job.kind = "copy" /\ job.chip = chip
Copied == FrameSamples - Len(job.todo)
JobFits ==
    /\ CopyingTo("ym") => /\ Halfway /\ Copied \in 0..FrameSamples - 1
                          /\ job.todo = SubSeq(Head(port).pcm, Copied + 1, FrameSamples)
    /\ CopyingTo("pokey") => ~Halfway

Ahead ==
    IF CopyingTo("ym") THEN SubSeq(Head(port).pcm, 1, Copied)
    ELSE IF CopyingTo("pokey") THEN job.todo
    ELSE IF Halfway THEN Head(port).pcm ELSE <<>>

Together == ~torn => Stored(ring["ym"]) = Newest(Stored(ring["pokey"]) \o Ahead)
SameChunks == queue["ym"] = queue["pokey"]
AlignInv ==
    /\ StartInv /\ StreamInv
    /\ Pairs /\ JobFits /\ Together /\ SameChunks /\ AlignedUnlessTorn
AlignKept == Pairs' /\ JobFits' /\ Together' /\ SameChunks' /\ AlignedUnlessTorn'

LEMMA NewestEmpty == Newest(<<>>) = <<>>
  BY CapAssumption DEF Newest, YmFifo!Newest

LEMMA EmptyRingsTogether == Stored(EmptyRings["ym"]) = <<>> /\ Stored(EmptyRings["pokey"]) = <<>>
  BY EmptyRingsOK DEF Chips

LEMMA AlignInit == Init => AlignInv
<1> SUFFICES ASSUME Init PROVE AlignInv
  OBVIOUS
<1>1. port = <<>> /\ ring = EmptyRings /\ job = Idle /\ heard = Silent /\ queue = EmptyQueues
  BY DEF Init
<1>2. Pairs
  BY <1>1 DEF Pairs
<1>3. ~CopyingTo("ym") /\ ~CopyingTo("pokey") /\ ~Halfway
  BY <1>1, IdleType DEF CopyingTo, Halfway
<1>4. Ahead = <<>>
  BY <1>3 DEF Ahead
<1>5. Together
  BY <1>1, <1>4, EmptyRingsTogether, NewestEmpty DEF Together
<1>6. SameChunks /\ AlignedUnlessTorn
  BY <1>1 DEF SameChunks, AlignedUnlessTorn, EmptyQueues, Silent, Chips
<1> QED BY <1>2, <1>3, <1>5, <1>6, StartInvInit, StreamInit DEF AlignInv, JobFits

LEMMA NewStreamAligned ==
  ASSUME NEW messages, NewStream(messages), messages \in {<<>>, <<Reset("reset")>>}
  PROVE  AlignKept
<1>1. /\ port' = messages /\ ring' = EmptyRings /\ job' = Idle /\ heard' = Silent
      /\ queue' = EmptyQueues
  BY DEF NewStream
<1>2. \A k \in 1..Len(messages) : messages[k].type = "reset"
  BY DEF Reset, Message
<1>3. messages = <<>> \/ Head(messages).type = "reset"
  BY DEF Reset, Message
<1>4. Pairs'
  BY <1>1, <1>2 DEF Pairs
<1>5. ~CopyingTo("ym")' /\ ~CopyingTo("pokey")' /\ ~Halfway'
  BY <1>1, <1>3, IdleType DEF CopyingTo, Halfway
<1>6. Ahead' = <<>>
  BY <1>5 DEF Ahead
<1>7. Together'
  BY <1>1, <1>6, EmptyRingsTogether, NewestEmpty DEF Together
<1>8. SameChunks' /\ AlignedUnlessTorn'
  BY <1>1 DEF SameChunks, AlignedUnlessTorn, EmptyQueues, Silent, Chips
<1> QED BY <1>4, <1>5, <1>7, <1>8 DEF AlignKept, JobFits

LEMMA StandsStill ==
  ASSUME AlignInv, UNCHANGED streamVars
  PROVE  AlignKept
<1>1. /\ port' = port /\ ring' = ring /\ job' = job /\ heard' = heard /\ queue' = queue
      /\ torn' = torn
  BY DEF streamVars
<1>2. CopyingTo("ym")' = CopyingTo("ym") /\ CopyingTo("pokey")' = CopyingTo("pokey")
  BY <1>1 DEF CopyingTo
<1>3. Halfway' = Halfway /\ Copied' = Copied
  BY <1>1 DEF Halfway, Copied
<1>4. Ahead' = Ahead
  BY <1>1, <1>2, <1>3 DEF Ahead
<1>5. Pairs' /\ SameChunks' /\ AlignedUnlessTorn'
  BY <1>1 DEF AlignInv, Pairs, SameChunks, AlignedUnlessTorn
<1>6. JobFits'
  BY <1>1, <1>2, <1>3 DEF AlignInv, JobFits
<1>7. Together'
  BY <1>1, <1>4 DEF AlignInv, Together
<1> QED BY <1>5, <1>6, <1>7 DEF AlignKept

(* Messages posted behind the others leave the worklet where it is.        *)
LEMMA PortGrows ==
  ASSUME AlignInv, NEW more \in Seq(MessageType), more # <<>>, more[1].type # "pokey_pcm",
         port' = port \o more, UNCHANGED <<ring, job, heard, torn>>, queue' = queue \/ SameChunks', Pairs'
  PROVE  AlignKept
<1>1. port \in Seq(MessageType)
  BY DEF AlignInv, StreamInv, PortOK
<1>2. CASE port = <<>>
  <2>1. port' = more
    BY <1>1, <1>2
  <2>2. port' # <<>> /\ Head(port').type # "pokey_pcm"
    BY <2>1
  <2>3. ~Halfway /\ ~Halfway'
    BY <1>2, <2>2 DEF Halfway
  <2>4. ~CopyingTo("ym") /\ ~CopyingTo("ym")' /\ CopyingTo("pokey")' = CopyingTo("pokey")
    BY <2>3 DEF AlignInv, JobFits, CopyingTo
  <2>5. Ahead' = Ahead
    BY <2>3, <2>4 DEF Ahead
  <2>6. JobFits'
    BY <2>3, <2>4 DEF JobFits
  <2>7. Together' /\ SameChunks' /\ AlignedUnlessTorn'
    BY <2>5 DEF AlignInv, Together, SameChunks, AlignedUnlessTorn
  <2> QED BY <2>6, <2>7 DEF AlignKept
<1>3. CASE port # <<>>
  <2>1. port' # <<>> /\ Head(port') = Head(port)
    BY <1>1, <1>3
  <2>2. Halfway' = Halfway
    BY <1>3, <2>1 DEF Halfway
  <2>3. /\ CopyingTo("ym")' = CopyingTo("ym") /\ CopyingTo("pokey")' = CopyingTo("pokey")
        /\ Copied' = Copied
    BY DEF CopyingTo, Copied
  <2>4. Ahead' = Ahead
    BY <2>1, <2>2, <2>3 DEF Ahead
  <2>5. JobFits'
    BY <2>1, <2>2, <2>3 DEF AlignInv, JobFits
  <2>6. Together' /\ SameChunks' /\ AlignedUnlessTorn'
    BY <2>4 DEF AlignInv, Together, SameChunks, AlignedUnlessTorn
  <2> QED BY <2>5, <2>6 DEF AlignKept
<1> QED BY <1>2, <1>3

LEMMA PushAligned ==
  ASSUME AlignInv, pushSoundPcm
  PROVE  AlignKept
<1>1. UNCHANGED <<ring, job, heard, torn>> /\ frame \in Nat /\ frame < MaxFrames
  BY DEF pushSoundPcm, AlignInv, StreamInv
<1>2. PushMessages(frame + 1) \/ PushChunks(frame + 1) \/ PushNothing(frame + 1)
  BY DEF pushSoundPcm
<1>3. CASE PushMessages(frame + 1)
  <2> DEFINE y == Message("ym_pcm", Samples(frame + 1))
             p == Message("pokey_pcm", Samples(frame + 1))
  <2>1. Samples(frame + 1) \in Seq(Pcm) /\ Len(Samples(frame + 1)) = FrameSamples
    <3>1. Samples(frame + 1) \in Seq(Pcm)
      BY <1>1, FrameIsPcm, SizesAssumption
    <3>2. Len(Samples(frame + 1)) = FrameSamples
      BY SizesAssumption DEF Samples
    <3> QED BY <3>1, <3>2
  <2>2. /\ y \in MessageType /\ y.type = "ym_pcm" /\ Len(y.pcm) = FrameSamples
        /\ p \in MessageType /\ p.type = "pokey_pcm" /\ Len(p.pcm) = FrameSamples
        /\ p = Message("pokey_pcm", y.pcm)
    BY <2>1 DEF Message, MessageType
  <2>3. port' = port \o <<y, p>> /\ queue' = queue
    BY <1>3 DEF PushMessages
  <2> HIDE DEF y, p
  <2>4. port \in Seq(MessageType)
    BY DEF AlignInv, StreamInv, PortOK
  <2>5. /\ Len(port') = Len(port) + 2 /\ Len(port) \in Nat
        /\ \A k \in 1..Len(port) : port'[k] = port[k]
        /\ port'[Len(port) + 1] = y /\ port'[Len(port) + 2] = p
    BY <2>2, <2>3, <2>4
  <2>6. Pairs'
    <3> SUFFICES ASSUME NEW k \in 1..Len(port')
                 PROVE  /\ port'[k].type \in {"ym_pcm", "pokey_pcm"} => Len(port'[k].pcm) = FrameSamples
                        /\ port'[k].type = "ym_pcm" =>
                             k < Len(port') /\ port'[k + 1] = Message("pokey_pcm", port'[k].pcm)
                        /\ port'[k].type = "pokey_pcm" => k = 1 \/ port'[k - 1].type = "ym_pcm"
      BY DEF Pairs
    <3>1. CASE k \in 1..Len(port)
      <4>1. port'[k] = port[k] /\ k < Len(port')
        BY <2>5, <3>1
      <4>2. k < Len(port) => port'[k + 1] = port[k + 1]
        BY <2>5, <3>1
      <4>3. k # 1 => port'[k - 1] = port[k - 1]
        BY <2>5, <3>1
      <4> QED BY <3>1, <4>1, <4>2, <4>3 DEF AlignInv, Pairs
    <3>2. CASE k = Len(port) + 1
      BY <2>2, <2>5, <3>2
    <3>3. CASE k = Len(port) + 2
      BY <2>2, <2>5, <3>3
    <3> QED BY <2>5, <3>1, <3>2, <3>3
  <2>7. <<y, p>> \in Seq(MessageType) /\ <<y, p>> # <<>> /\ <<y, p>>[1].type # "pokey_pcm"
    BY <2>2
  <2> QED BY <1>1, <2>3, <2>6, <2>7, PortGrows
<1>4. CASE PushChunks(frame + 1) \/ PushNothing(frame + 1)
  <2>1. port' = port /\ SameChunks'
    BY <1>4 DEF PushChunks, PushNothing, SameChunks, AlignInv, Chips
  <2>2. CopyingTo("ym")' = CopyingTo("ym") /\ CopyingTo("pokey")' = CopyingTo("pokey")
    BY <1>1 DEF CopyingTo
  <2>3. Halfway' = Halfway /\ Copied' = Copied
    BY <1>1, <2>1 DEF Halfway, Copied
  <2>4. Ahead' = Ahead
    BY <1>1, <2>1, <2>2, <2>3 DEF Ahead
  <2>5. Pairs' /\ AlignedUnlessTorn' /\ JobFits'
    BY <1>1, <2>1, <2>2, <2>3 DEF AlignInv, Pairs, AlignedUnlessTorn, JobFits
  <2>6. Together'
    BY <1>1, <2>4 DEF AlignInv, Together
  <2> QED BY <2>1, <2>5, <2>6 DEF AlignKept
<1> QED BY <1>2, <1>3, <1>4

LEMMA ResetStreamsAligned ==
  ASSUME AlignInv, resetPcmStreams
  PROVE  AlignKept
<1>1. UNCHANGED <<ring, job, torn>> /\ queue' = EmptyQueues
  BY DEF resetPcmStreams
<1>2. SameChunks'
  BY <1>1 DEF SameChunks, EmptyQueues, Chips
<1>3. CASE Sink = "worklet"
  <2> DEFINE m == Reset("reset_pcm")
  <2>1. port' = Append(port, m) /\ heard' = heard
    BY <1>3 DEF resetPcmStreams
  <2>2. m \in MessageType /\ m.type = "reset_pcm"
    BY DEF Reset, Message, MessageType
  <2> HIDE DEF m
  <2>3. port \in Seq(MessageType)
    BY DEF AlignInv, StreamInv, PortOK
  <2>4. /\ port' = port \o <<m>> /\ Len(port') = Len(port) + 1 /\ Len(port) \in Nat
        /\ \A k \in 1..Len(port) : port'[k] = port[k]
        /\ port'[Len(port) + 1] = m
    BY <2>1, <2>2, <2>3
  <2>5. Pairs'
    <3> SUFFICES ASSUME NEW k \in 1..Len(port')
                 PROVE  /\ port'[k].type \in {"ym_pcm", "pokey_pcm"} => Len(port'[k].pcm) = FrameSamples
                        /\ port'[k].type = "ym_pcm" =>
                             k < Len(port') /\ port'[k + 1] = Message("pokey_pcm", port'[k].pcm)
                        /\ port'[k].type = "pokey_pcm" => k = 1 \/ port'[k - 1].type = "ym_pcm"
      BY DEF Pairs
    <3>1. CASE k \in 1..Len(port)
      <4>1. port'[k] = port[k] /\ k < Len(port')
        BY <2>4, <3>1
      <4>2. k < Len(port) => port'[k + 1] = port[k + 1]
        BY <2>4, <3>1
      <4>3. k # 1 => port'[k - 1] = port[k - 1]
        BY <2>4, <3>1
      <4> QED BY <3>1, <4>1, <4>2, <4>3 DEF AlignInv, Pairs
    <3>2. CASE k = Len(port) + 1
      BY <2>2, <2>4, <3>2
    <3> QED BY <2>4, <3>1, <3>2
  <2>6. <<m>> \in Seq(MessageType) /\ <<m>> # <<>> /\ <<m>>[1].type # "pokey_pcm"
    BY <2>2
  <2> QED BY <1>1, <1>2, <2>1, <2>4, <2>5, <2>6, PortGrows
<1>4. CASE Sink # "worklet"
  <2>1. port' = port /\ heard' = Silent
    BY <1>4 DEF resetPcmStreams
  <2>2. CopyingTo("ym")' = CopyingTo("ym") /\ CopyingTo("pokey")' = CopyingTo("pokey")
    BY <1>1 DEF CopyingTo
  <2>3. Halfway' = Halfway /\ Copied' = Copied
    BY <1>1, <2>1 DEF Halfway, Copied
  <2>4. Ahead' = Ahead
    BY <1>1, <2>1, <2>2, <2>3 DEF Ahead
  <2>5. Pairs' /\ JobFits'
    BY <1>1, <2>1, <2>2, <2>3 DEF AlignInv, Pairs, JobFits
  <2>6. AlignedUnlessTorn'
    BY <2>1 DEF AlignedUnlessTorn, Silent, Chips
  <2>7. Together'
    BY <1>1, <2>4 DEF AlignInv, Together
  <2> QED BY <1>2, <2>5, <2>6, <2>7 DEF AlignKept
<1> QED BY <1>3, <1>4

(* What the worklet handles first, and what it leaves in the port.         *)
LEMMA TailOfPort ==
  ASSUME AlignInv, port # <<>>, port' = Tail(port)
  PROVE  /\ Head(port) = port[1] /\ Head(port) \in MessageType /\ Pairs'
         /\ Head(port).type \in {"ym_pcm", "pokey_pcm"} => Len(Head(port).pcm) = FrameSamples
         /\ Head(port).type = "ym_pcm" =>
              port' # <<>> /\ Head(port') = Message("pokey_pcm", Head(port).pcm)
         /\ Head(port).type # "ym_pcm" => ~Halfway'
<1>1. port \in Seq(MessageType) /\ Pairs
  BY DEF AlignInv, StreamInv, PortOK
<1>2. /\ Head(port) = port[1] /\ 1 \in 1..Len(port) /\ port[1] \in MessageType
      /\ Len(port') = Len(port) - 1 /\ Len(port) \in Nat
      /\ \A k \in 1..Len(port') : port'[k] = port[k + 1] /\ k + 1 \in 1..Len(port)
      /\ port' # <<>> => Head(port') = port[2] /\ 2 \in 1..Len(port)
      /\ port' = <<>> => Len(port) = 1
  <2>1. /\ Head(port) = port[1] /\ 1 \in 1..Len(port) /\ port[1] \in MessageType
        /\ Tail(port) \in Seq(MessageType) /\ Len(Tail(port)) = Len(port) - 1 /\ Len(port) \in Nat
        /\ \A k \in 1..Len(Tail(port)) : Tail(port)[k] = port[k + 1] /\ k + 1 \in 1..Len(port)
    BY <1>1
  <2>2. port' # <<>> => 1 \in 1..Len(port') /\ Head(port') = port'[1]
    BY <2>1
  <2>3. port' = <<>> => Len(port) = 1
    <3> DEFINE t == Tail(port)
    <3> HIDE DEF t
    <3>1. t = <<>> => Len(t) = 0
      OBVIOUS
    <3> QED BY <2>1, <3>1 DEF t
  <2> QED BY <2>1, <2>2, <2>3
<1>3. Pairs'
  <2> SUFFICES ASSUME NEW k \in 1..Len(port')
               PROVE  /\ port'[k].type \in {"ym_pcm", "pokey_pcm"} => Len(port'[k].pcm) = FrameSamples
                      /\ port'[k].type = "ym_pcm" =>
                           k < Len(port') /\ port'[k + 1] = Message("pokey_pcm", port'[k].pcm)
                      /\ port'[k].type = "pokey_pcm" => k = 1 \/ port'[k - 1].type = "ym_pcm"
    BY DEF Pairs
  <2>1. port'[k] = port[k + 1] /\ k + 1 \in 1..Len(port)
    BY <1>2
  <2>2. k < Len(port') => port'[k + 1] = port[(k + 1) + 1]
    BY <1>2
  <2>3. k # 1 => port'[k - 1] = port[(k + 1) - 1]
    BY <1>2
  <2>4. k < Len(port') <=> k + 1 < Len(port)
    BY <1>2
  <2> QED BY <1>1, <2>1, <2>2, <2>3, <2>4 DEF Pairs
<1>4. Head(port).type \in {"ym_pcm", "pokey_pcm"} => Len(Head(port).pcm) = FrameSamples
  BY <1>1, <1>2 DEF Pairs
<1>5. Head(port).type = "ym_pcm" => port' # <<>> /\ Head(port') = Message("pokey_pcm", Head(port).pcm)
  BY <1>1, <1>2 DEF Pairs
<1>6. ASSUME Head(port).type # "ym_pcm", Halfway' PROVE FALSE
  <2>1. port' # <<>> /\ port[2].type = "pokey_pcm" /\ 2 \in 1..Len(port)
    BY <1>2, <1>6 DEF Halfway
  <2> QED BY <1>1, <1>2, <1>6, <2>1 DEF Pairs
<1> QED BY <1>2, <1>3, <1>4, <1>5, <1>6

LEMMA HandleResetAligned ==
  ASSUME AlignInv, HandleReset
  PROVE  AlignKept
<1>1. /\ port # <<>> /\ port' = Tail(port) /\ Head(port).type # "ym_pcm" /\ job = Idle
      /\ ring' = [chip \in Chips |-> resetPcm(ring[chip])] /\ heard' = Silent
      /\ job' = job /\ queue' = queue
  BY DEF HandleReset, Worklet
<1>2. Pairs' /\ ~Halfway'
  BY <1>1, TailOfPort
<1>3. ~CopyingTo("ym")' /\ ~CopyingTo("pokey")'
  BY <1>1, IdleType DEF CopyingTo
<1>4. Ahead' = <<>>
  BY <1>2, <1>3 DEF Ahead
<1>5. Stored(ring'["ym"]) = <<>> /\ Stored(ring'["pokey"]) = <<>>
  BY <1>1, ResetRing DEF AlignInv, StreamInv, RingsOK, Chips
<1>6. Together'
  BY <1>4, <1>5, NewestEmpty DEF Together
<1>7. SameChunks' /\ AlignedUnlessTorn'
  BY <1>1 DEF AlignInv, SameChunks, AlignedUnlessTorn, Silent, Chips
<1> QED BY <1>2, <1>3, <1>6, <1>7 DEF AlignKept, JobFits

LEMMA HandlePcmAligned ==
  ASSUME AlignInv, HandlePcm
  PROVE  AlignKept
<1> DEFINE pcm == Head(port).pcm
<1>1. /\ port # <<>> /\ port' = Tail(port) /\ job = Idle
      /\ Head(port).type \in {"ym_pcm", "pokey_pcm"}
      /\ job' = Copying(ChipOf(Head(port).type), pcm)
      /\ UNCHANGED <<ring, queue, heard, torn>>
  BY DEF HandlePcm, Worklet
<1>2. Pairs' /\ Head(port) \in MessageType /\ Len(pcm) = FrameSamples
  BY <1>1, TailOfPort
<1>3. pcm \in Seq(Pcm) /\ FrameSamples \in Nat
  BY <1>2, SizesAssumption DEF MessageType
<1>4. job'.kind = "copy" /\ job'.chip = ChipOf(Head(port).type) /\ job'.todo = pcm
  BY <1>1 DEF Copying, Idle
<1>5. Copied' = 0
  BY <1>2, <1>3, <1>4 DEF Copied
<1>6. ~CopyingTo("ym") /\ ~CopyingTo("pokey")
  BY <1>1, IdleType DEF CopyingTo
<1>7. SameChunks' /\ AlignedUnlessTorn'
  BY <1>1 DEF AlignInv, SameChunks, AlignedUnlessTorn
<1>8. CASE Head(port).type = "ym_pcm"
  <2>1. CopyingTo("ym")' /\ ~CopyingTo("pokey")'
    BY <1>4, <1>8 DEF CopyingTo, ChipOf
  <2>2. port' # <<>> /\ Head(port') = Message("pokey_pcm", pcm)
    BY <1>1, <1>8, TailOfPort
  <2>3. Halfway' /\ Head(port').pcm = pcm /\ ~Halfway
    BY <1>8, <2>2 DEF Halfway, Message
  <2> HIDE DEF pcm
  <2>4. SubSeq(pcm, 1, 0) = <<>> /\ pcm = SubSeq(pcm, 0 + 1, FrameSamples)
    BY <1>2, <1>3
  <2>5. Ahead = <<>> /\ Ahead' = <<>>
    BY <1>5, <1>6, <2>1, <2>3, <2>4 DEF Ahead
  <2>6. JobFits'
    BY <1>4, <1>5, <2>1, <2>3, <2>4, SizesAssumption DEF JobFits
  <2>7. Together'
    BY <1>1, <2>5 DEF AlignInv, Together
  <2> QED BY <1>2, <1>7, <2>6, <2>7 DEF AlignKept
<1>9. CASE Head(port).type = "pokey_pcm"
  <2>1. ~CopyingTo("ym")' /\ CopyingTo("pokey")'
    BY <1>4, <1>9 DEF CopyingTo, ChipOf
  <2>2. Halfway /\ ~Halfway'
    BY <1>1, <1>9, TailOfPort DEF Halfway
  <2>3. Ahead = pcm /\ Ahead' = pcm
    BY <1>4, <1>6, <2>1, <2>2 DEF Ahead
  <2>4. JobFits'
    BY <2>1, <2>2 DEF JobFits
  <2>5. Together'
    BY <1>1, <2>3 DEF AlignInv, Together
  <2> QED BY <1>2, <1>7, <2>4, <2>5 DEF AlignKept
<1> QED BY <1>1, <1>8, <1>9

LEMMA BeginQuantumAligned ==
  ASSUME AlignInv, BeginQuantum
  PROVE  AlignKept
<1>1. /\ UNCHANGED <<port, ring, queue, heard, torn>> /\ job = Idle /\ job' = Rendering(Quantum)
  BY DEF BeginQuantum
<1>2. /\ ~CopyingTo("ym") /\ ~CopyingTo("pokey") /\ ~CopyingTo("ym")' /\ ~CopyingTo("pokey")'
  BY <1>1, IdleType, RenderingType, SizesAssumption DEF CopyingTo
<1>3. Halfway' = Halfway
  BY <1>1 DEF Halfway
<1>4. Ahead' = Ahead
  BY <1>1, <1>2, <1>3 DEF Ahead
<1>5. Pairs' /\ SameChunks' /\ AlignedUnlessTorn' /\ Together'
  BY <1>1, <1>4 DEF AlignInv, Pairs, SameChunks, AlignedUnlessTorn, Together
<1> QED BY <1>2, <1>5 DEF AlignKept, JobFits

LEMMA ScriptSampleAligned ==
  ASSUME AlignInv, RenderScriptSample
  PROVE  AlignKept
<1>1. /\ UNCHANGED <<port, ring, torn>> /\ job.kind = "render" /\ job' = Rendering(job.left - 1)
      /\ heard' = [chip \in Chips |-> firstPcmChunkSample(queue[chip])]
      /\ queue' = [chip \in Chips |-> dequeuePcmChunkSample(queue[chip])]
  BY DEF RenderScriptSample
<1>2. job.left - 1 \in Int
  BY DEF AlignInv, StreamInv, JobOK, JobType
<1>3. /\ ~CopyingTo("ym") /\ ~CopyingTo("pokey") /\ ~CopyingTo("ym")' /\ ~CopyingTo("pokey")'
  BY <1>1, <1>2, RenderingType DEF CopyingTo
<1>4. Halfway' = Halfway
  BY <1>1 DEF Halfway
<1>5. Ahead' = Ahead
  BY <1>1, <1>3, <1>4 DEF Ahead
<1>6. SameChunks' /\ AlignedUnlessTorn'
  BY <1>1 DEF AlignInv, SameChunks, AlignedUnlessTorn, Chips
<1>7. Pairs' /\ Together'
  BY <1>1, <1>5 DEF AlignInv, Pairs, Together
<1> QED BY <1>3, <1>6, <1>7 DEF AlignKept, JobFits

LEMMA PcmSeq == ASSUME NEW s \in Seq(Pcm) PROVE s \in Seq(Nat)
<1>1. \A k \in 1..Len(s) : s[k] \in Pcm
  OBVIOUS
<1>2. \A k \in 1..Len(s) : s[k] \in Nat
  BY <1>1, PcmIsNat
<1> QED BY <1>2

LEMMA CopyAligned ==
  ASSUME AlignInv, CopySample
  PROVE  AlignKept
<1> DEFINE n == Head(job.todo)
           rest == Tail(job.todo)
           pcm == Head(port).pcm
           y == Stored(ring["ym"])
           p == Stored(ring["pokey"])
<1>1. /\ job.kind = "copy" /\ UNCHANGED <<port, queue, heard, torn>>
      /\ job' = IF rest = <<>> THEN Idle ELSE [job EXCEPT !.todo = rest]
  BY DEF CopySample
<1>2. job.chip \in Chips /\ job.todo \in Seq(Pcm) /\ job.todo # <<>> /\ job \in JobType
  BY <1>1 DEF AlignInv, StreamInv, JobOK, JobType
<1>3. /\ n \in Pcm /\ rest \in Seq(Pcm) /\ job.todo = <<n>> \o rest
      /\ Len(rest) = Len(job.todo) - 1 /\ Len(rest) \in Nat
      /\ rest = <<>> <=> Len(job.todo) = 1
  BY <1>2, HeadAndTail
<1> HIDE DEF n, rest
<1>4. /\ y \in Seq(Nat) /\ p \in Seq(Nat) /\ n \in Nat /\ <<n>> \in Seq(Nat)
      /\ rest \in Seq(Nat)
  <2>1. y \in Seq(Nat) /\ p \in Seq(Nat)
    BY StoredShape DEF AlignInv, StreamInv, RingsOK, Chips
  <2>2. n \in Nat /\ rest \in Seq(Nat)
    BY <1>3, PcmIsNat, PcmSeq
  <2>3. <<n>> \in Seq(Nat)
    BY <2>2
  <2> QED BY <2>1, <2>2, <2>3
<1>5. /\ Stored(ring'["ym"]) = IF job.chip = "ym" THEN Newest(y \o <<n>>) ELSE y
      /\ Stored(ring'["pokey"]) = IF job.chip = "pokey" THEN Newest(p \o <<n>>) ELSE p
  BY CopyPuts DEF AlignInv, Chips, Newest, n
<1> HIDE DEF y, p
<1>6. Halfway' = Halfway /\ Pairs' /\ SameChunks' /\ AlignedUnlessTorn'
  BY <1>1 DEF AlignInv, Halfway, Pairs, SameChunks, AlignedUnlessTorn
<1>7. rest = <<>> => ~CopyingTo("ym")' /\ ~CopyingTo("pokey")'
  BY <1>1, IdleType DEF CopyingTo
<1>8. rest # <<>> => /\ job'.kind = "copy" /\ job'.chip = job.chip /\ job'.todo = rest
  BY <1>1, <1>2 DEF JobType
<1>9. CASE job.chip = "ym"
  <2> DEFINE c == Copied
  <2>1. CopyingTo("ym") /\ ~CopyingTo("pokey")
    BY <1>1, <1>9 DEF CopyingTo
  <2>2. Halfway /\ c \in 0..FrameSamples-1 /\ job.todo = SubSeq(pcm, c + 1, FrameSamples)
    BY <2>1 DEF AlignInv, JobFits
  <2>3. pcm \in Seq(Pcm) /\ Len(pcm) = FrameSamples
    <3>1. port \in Seq(MessageType) /\ port # <<>> /\ Head(port).type = "pokey_pcm" /\ Pairs
      BY <2>2 DEF AlignInv, StreamInv, PortOK, Halfway
    <3>2. Head(port) = port[1] /\ 1 \in 1..Len(port) /\ port[1] \in MessageType
      BY <3>1
    <3> QED BY <3>1, <3>2 DEF Pairs, MessageType
  <2>4. Ahead = SubSeq(pcm, 1, c)
    BY <2>1 DEF Ahead
  <2> HIDE DEF c, pcm
  <2>5. n = pcm[c + 1] /\ rest = SubSeq(pcm, (c + 1) + 1, FrameSamples)
        /\ Len(job.todo) = FrameSamples - c
    <3>1. c \in 0..Len(pcm)-1 /\ job.todo = SubSeq(pcm, c + 1, Len(pcm))
      BY <2>2, <2>3
    <3> QED BY <3>1, <2>3, Advance DEF n, rest
  <2>6. SubSeq(pcm, 1, c) \in Seq(Nat) /\ SubSeq(pcm, 1, c) \o <<n>> = SubSeq(pcm, 1, c + 1)
    <3>0. pcm \in Seq(Nat)
      BY <2>3, PcmSeq
    <3>1. c + 1 \in 1..Len(pcm) /\ (c + 1) - 1 = c
      BY <2>2, <2>3, SizesAssumption
    <3>2. SubSeq(pcm, 1, c + 1) = SubSeq(pcm, 1, (c + 1) - 1) \o <<pcm[c + 1]>>
      BY <3>0, <3>1, AppendOne
    <3>3. SubSeq(pcm, 1, c) \in Seq(Nat)
      BY <3>0, <3>1, <2>2
    <3> QED BY <3>1, <3>2, <3>3, <2>5
  <2>7. Ahead' = SubSeq(pcm, 1, c + 1) /\ JobFits'
    <3>1. CASE rest = <<>>
      <4>1. c + 1 = FrameSamples
        BY <1>3, <2>2, <2>5, <3>1, SizesAssumption
      <4>2. SubSeq(pcm, 1, c + 1) = pcm
        BY <4>1, <2>3
      <4>3. Ahead' = pcm
        BY <1>1, <1>6, <1>7, <2>2, <3>1 DEF Ahead, pcm
      <4> QED BY <1>7, <3>1, <4>2, <4>3 DEF JobFits
    <3>2. CASE rest # <<>>
      <4>1. CopyingTo("ym")' /\ ~CopyingTo("pokey")'
        BY <1>8, <1>9, <3>2 DEF CopyingTo
      <4>2. Copied' = c + 1 /\ c + 1 \in 0..FrameSamples-1
        <5>1. Len(job.todo) # 1 /\ Len(rest) = Len(job.todo) - 1
          BY <1>3, <3>2
        <5>2. Copied' = FrameSamples - Len(rest)
          BY <1>8, <3>2 DEF Copied
        <5> QED BY <5>1, <5>2, <2>2, <2>5, SizesAssumption
      <4>3. Ahead' = SubSeq(pcm, 1, c + 1)
        BY <1>1, <4>1, <4>2 DEF Ahead, pcm
      <4>4. JobFits'
        BY <1>1, <1>6, <1>8, <2>2, <2>5, <3>2, <4>1, <4>2 DEF JobFits, pcm
      <4> QED BY <4>3, <4>4
    <3> QED BY <3>1, <3>2
  <2>8. Together'
    <3> SUFFICES ASSUME ~torn
                 PROVE  Newest(y \o <<n>>) = Newest(p \o SubSeq(pcm, 1, c + 1))
      BY <1>1, <1>5, <1>9, <2>7 DEF Together, p
    <3> DEFINE a == SubSeq(pcm, 1, c)
    <3>1. y = Newest(p \o a)
      BY <2>4 DEF AlignInv, Together, y, p
    <3> HIDE DEF a
    <3>2. a \in Seq(Nat) /\ a \o <<n>> = SubSeq(pcm, 1, c + 1)
      BY <2>6 DEF a
    <3>3. p \o a \in Seq(Nat)
      BY <1>4, <3>2
    <3>4. Newest(Newest(p \o a) \o <<n>>) = Newest((p \o a) \o <<n>>)
      BY <1>4, <3>3, NewestNewest
    <3>5. (p \o a) \o <<n>> = p \o (a \o <<n>>)
      BY <1>4, <3>2, Associative
    <3> QED BY <3>1, <3>2, <3>4, <3>5
  <2> QED BY <1>6, <2>7, <2>8 DEF AlignKept
<1>10. CASE job.chip = "pokey"
  <2>1. ~CopyingTo("ym") /\ CopyingTo("pokey")
    BY <1>1, <1>10 DEF CopyingTo
  <2>2. ~Halfway /\ Ahead = <<n>> \o rest
    BY <1>3, <2>1 DEF AlignInv, JobFits, Ahead
  <2>3. ~CopyingTo("ym")'
    BY <1>7, <1>8, <1>10 DEF CopyingTo
  <2>4. JobFits'
    BY <1>6, <2>2, <2>3 DEF JobFits
  <2>5. Ahead' = rest
    <3>1. CASE rest = <<>>
      BY <1>6, <1>7, <2>2, <3>1 DEF Ahead
    <3>2. CASE rest # <<>>
      BY <1>8, <1>10, <2>3, <3>2 DEF Ahead, CopyingTo
    <3> QED BY <3>1, <3>2
  <2>6. Together'
    <3> SUFFICES ASSUME ~torn
                 PROVE  y = Newest(Newest(p \o <<n>>) \o rest)
      BY <1>1, <1>5, <1>10, <2>5 DEF Together, y
    <3>1. y = Newest(p \o (<<n>> \o rest))
      BY <2>2 DEF AlignInv, Together, y, p
    <3>2. p \o <<n>> \in Seq(Nat)
      BY <1>4
    <3>3. Newest(Newest(p \o <<n>>) \o rest) = Newest((p \o <<n>>) \o rest)
      BY <1>4, <3>2, NewestNewest
    <3>4. (p \o <<n>>) \o rest = p \o (<<n>> \o rest)
      BY <1>4, Associative
    <3> QED BY <3>1, <3>3, <3>4
  <2> QED BY <1>6, <2>4, <2>6 DEF AlignKept
<1> QED BY <1>2, <1>9, <1>10 DEF Chips

(* A sample rendered keeps the rings together unless it tears them.        *)
LEMMA RenderTogether ==
  ASSUME AlignInv, RenderSample, ~torn'
  PROVE  /\ heard'["ym"] = heard'["pokey"]
         /\ Stored(ring'["ym"]) = Newest(Stored(ring'["pokey"]) \o Ahead)
<1> DEFINE y == Stored(ring["ym"])
           p == Stored(ring["pokey"])
           av == ring["pokey"].available
<1>1. ~torn /\ ~Tears /\ ~CopyingTo("ym") /\ ~CopyingTo("pokey")
  BY DEF RenderSample, CopyingTo, AlignInv, StreamInv, JobOK, JobType
<1>2. y \in Seq(Nat) /\ p \in Seq(Nat) /\ Len(p) = av /\ av \in 0..Cap
  BY StoredShape DEF AlignInv, StreamInv, RingsOK, RingOK, RingType, Chips
<1>3. Taken("ym") /\ Taken("pokey")
  BY RenderTakes DEF AlignInv, Chips
<1>4. y = Newest(p \o Ahead)
  BY <1>1 DEF AlignInv, Together
<1>5. /\ heard'["ym"] = IF y = <<>> THEN 0 ELSE Head(y)
      /\ Stored(ring'["ym"]) = IF y = <<>> THEN y ELSE Tail(y)
      /\ heard'["pokey"] = IF p = <<>> THEN 0 ELSE Head(p)
      /\ Stored(ring'["pokey"]) = IF p = <<>> THEN p ELSE Tail(p)
  BY <1>3 DEF Taken
<1> HIDE DEF y, p, av
<1>6. CASE ~Halfway
  <2>1. Ahead = <<>>
    BY <1>1, <1>6 DEF Ahead
  <2>2. p \o <<>> = p /\ Len(p) <= Cap
    BY <1>2, CapAssumption
  <2>3. y = p
    BY <1>2, <1>4, <2>1, <2>2, NewestFits
  <2> DEFINE q == IF p = <<>> THEN p ELSE Tail(p)
  <2>4. q \in Seq(Nat) /\ Len(q) <= Cap
    BY <1>2, CapAssumption
  <2> HIDE DEF q
  <2>5. q \o <<>> = q
    BY <2>4
  <2>6. Newest(q \o <<>>) = q
    BY <2>4, <2>5, NewestFits
  <2>7. Stored(ring'["ym"]) = q /\ Stored(ring'["pokey"]) = q /\ heard'["ym"] = heard'["pokey"]
    BY <1>5, <2>3 DEF q
  <2> QED BY <2>1, <2>6, <2>7
<1>7. CASE Halfway
  <2> DEFINE pcm == Head(port).pcm
  <2>1. Ahead = pcm
    BY <1>1, <1>7 DEF Ahead
  <2>2. pcm \in Seq(Nat) /\ Len(pcm) = FrameSamples
    <3>1. port \in Seq(MessageType) /\ port # <<>> /\ Head(port).type = "pokey_pcm" /\ Pairs
      BY <1>7 DEF AlignInv, StreamInv, PortOK, Halfway
    <3>2. Head(port) = port[1] /\ 1 \in 1..Len(port) /\ port[1] \in MessageType
      BY <3>1
    <3>3. pcm \in Seq(Pcm) /\ Len(pcm) = FrameSamples
      BY <3>1, <3>2 DEF Pairs, MessageType
    <3> QED BY <3>3, PcmSeq
  <2> HIDE DEF pcm
  <2>3. av # 0 /\ av + FrameSamples <= Cap
    BY <1>1, <1>2, <1>7, SizesAssumption, CapAssumption DEF Tears, av
  <2>4. p # <<>>
    BY <1>2, <2>3
  <2>5. p \o pcm \in Seq(Nat) /\ Len(p \o pcm) <= Cap
    BY <1>2, <2>2, <2>3
  <2>6. y = p \o pcm
    BY <1>4, <2>1, <2>5, NewestFits
  <2>7. p \o pcm # <<>> /\ Head(p \o pcm) = Head(p)
    BY <1>2, <2>2, <2>4
  <2>8. /\ Tail(p) \in Seq(Nat) /\ Tail(p \o pcm) = Tail(p) \o pcm
        /\ Tail(p) \o pcm \in Seq(Nat) /\ Len(Tail(p) \o pcm) <= Cap
    BY <1>2, <2>2, <2>3, <2>4, SizesAssumption, CapAssumption
  <2>9. Newest(Tail(p) \o pcm) = Tail(p) \o pcm
    BY <2>8, NewestFits
  <2> QED BY <1>5, <2>1, <2>4, <2>6, <2>7, <2>8, <2>9
<1> QED BY <1>6, <1>7

LEMMA RenderAligned ==
  ASSUME AlignInv, RenderSample
  PROVE  AlignKept
<1>1. /\ UNCHANGED <<port, queue>> /\ job.kind = "render" /\ job' = Rendering(job.left - 1)
  BY DEF RenderSample
<1>2. job.left - 1 \in Int
  BY DEF AlignInv, StreamInv, JobOK, JobType
<1>3. /\ ~CopyingTo("ym") /\ ~CopyingTo("pokey") /\ ~CopyingTo("ym")' /\ ~CopyingTo("pokey")'
  BY <1>1, <1>2, RenderingType DEF CopyingTo
<1>4. Halfway' = Halfway
  BY <1>1 DEF Halfway
<1>5. Ahead' = Ahead
  BY <1>1, <1>3, <1>4 DEF Ahead
<1>6. Pairs' /\ SameChunks'
  BY <1>1 DEF AlignInv, Pairs, SameChunks
<1>7. Together' /\ AlignedUnlessTorn'
  BY <1>5, RenderTogether DEF Together, AlignedUnlessTorn
<1> QED BY <1>3, <1>6, <1>7 DEF AlignKept, JobFits

LEMMA AlignNext == AlignInv /\ [Next]_allVars => AlignInv'
<1> SUFFICES ASSUME AlignInv, [Next]_allVars PROVE AlignKept
  BY NextStarts, StartInvNext, StreamInvNext DEF AlignInv, AlignKept
<1>1. CASE Starts
  BY <1>1, NewStreamAligned DEF Starts
<1>2. ASSUME NEW i \in 1..Last, Loads(i) PROVE AlignKept
  <2>1. CASE i < Last
    BY <1>2, <2>1, StandsStill DEF Loads
  <2>2. CASE ~(i < Last)
    <3>1. NewStream(IF Sink' = "worklet" THEN <<Reset("reset")>> ELSE <<>>)
      BY <1>2, <2>2 DEF Loads
    <3> QED BY <3>1, NewStreamAligned
  <2> QED BY <2>1, <2>2
<1>3. ASSUME NEW i \in 1..Last, Settles(i) PROVE AlignKept
  BY <1>3, StandsStill DEF Settles
<1>4. CASE Refuses \/ UNCHANGED allVars
  BY <1>4, StandsStill DEF Refuses, allVars
<1>5. CASE pushSoundPcm \/ resetPcmStreams
  BY <1>5, PushAligned, ResetStreamsAligned
<1>6. CASE HandleReset \/ HandlePcm \/ CopySample
  BY <1>6, HandleResetAligned, HandlePcmAligned, CopyAligned
<1>7. CASE BeginQuantum \/ RenderSample \/ RenderScriptSample
  BY <1>7, BeginQuantumAligned, RenderAligned, ScriptSampleAligned
<1> QED BY <1>1, <1>2, <1>3, <1>4, <1>5, <1>6, <1>7 DEF Next

(* The two chips play sample for sample together, for every size of ring,  *)
(* frame and quantum and however messages and quanta interleave, unless a  *)
(* quantum ran between the two messages of a frame with POKEY's ring dry   *)
(* or the YM2151's overrun: in the worklet because its rings differ only   *)
(* by what is copied of the batch that has one message to go, in the       *)
(* fallback because its queues never differ.                               *)
THEOREM Alignment == Spec => []AlignedUnlessTorn
<1>1. AlignInv => AlignedUnlessTorn
  BY DEF AlignInv
<1> QED BY <1>1, AlignInit, AlignNext, PTL DEF Spec
=============================================================================
