-------------------------- MODULE SoundHost_proofs --------------------------
(***************************************************************************)
(* Theorems about the sound side of the page, for any parameters, levels   *)
(* and limits.  A frame is a composition of functions on the record h, so  *)
(* the invariant is carried through each of them by a lemma of its own,    *)
(* together with what the frame has done to the queue so far.              *)
(***************************************************************************)
EXTENDS SoundHost, SequenceTheorems, TLAPS

USE HostAssumption

Tracked(s) ==
    /\ \A p \in s.preps : p.current => p.kind = s.kind
    /\ s.kind # "none" => [kind |-> s.kind, current |-> TRUE] \in s.preps
    /\ s.mode # "idle" => s.kind = "none"
NoStale(s) == \A p \in s.preps : p.kind = "gameplay" => p.current
HasChip(s) == GameplayActive(s) => s.mode = "gameplay" \/ s.kind = "gameplay"
ForGame(s) == s.mode # "gameplay" => s.queue = <<>>
Quiet(s) == s.manual => ~s.coinChip /\ s.coinLeft = 0
Remembered(s) == s.mode = "gameplay" /\ s.last \in MusicLevels => s.music = s.last

\* everything but HasChip, which START breaks until a chip is asked for
Base(s) ==
    s \in HostType /\ Tracked(s) /\ NoStale(s) /\ ForGame(s) /\ Quiet(s) /\ Remembered(s)
Core(s) == Base(s) /\ HasChip(s)

\* in a frame that began with the queue q the live chip was sent nothing yet
Queued(s, q) == s.mode = "gameplay" => q \o s.queued = s.queue /\ s.sent = <<>>

\* two states that differ in credits and coin fields only
SameChip(s, k) ==
    /\ k.mode = s.mode /\ k.kind = s.kind /\ k.preps = s.preps /\ k.queue = s.queue
    /\ k.last = s.last /\ k.music = s.music /\ k.queued = s.queued /\ k.sent = s.sent

LEMMA SameKeeps ==
    ASSUME NEW s, NEW k \in HostType, NEW q, SameChip(s, k), Quiet(k), Base(s)
    PROVE  /\ Base(k)
           /\ Queued(s, q) => Queued(k, q)
           /\ Core(s) /\ k.manual = s.manual => Core(k)
  BY DEF SameChip, Base, Core, Tracked, NoStale, HasChip, ForGame, Remembered, Queued,
         GameplayActive

LEMMA CoinRange ==
    /\ 0 \in 0..CoinFrames /\ CoinFrames \in 0..CoinFrames
    /\ \A n \in 0..CoinFrames : n > 1 => n - 1 \in 0..CoinFrames
  OBVIOUS

-----------------------------------------------------------------------------
(* The coin functions touch no chip but their own.                         *)

LEMMA PrepareCoin ==
    ASSUME NEW s \in HostType
    PROVE  /\ prepareSoundCoinChip(s) \in HostType /\ SameChip(s, prepareSoundCoinChip(s))
           /\ prepareSoundCoinChip(s).manual = s.manual
           /\ Quiet(s) => Quiet(prepareSoundCoinChip(s))
<1> DEFINE k == [s EXCEPT !.coinPreparing = TRUE]
<1>1. k \in HostType /\ SameChip(s, k) /\ k.manual = s.manual /\ (Quiet(s) => Quiet(k))
  BY DEF HostType, SameChip, Quiet
<1>2. SameChip(s, s)
  BY DEF SameChip
<1> HIDE DEF k
<1>3. prepareSoundCoinChip(s) \in {s, k}
  BY DEF prepareSoundCoinChip, k
<1> QED
  BY <1>1, <1>2, <1>3

LEMMA TriggerCoin ==
    ASSUME NEW s \in HostType, Quiet(s)
    PROVE  /\ triggerSoundCoin(s) \in HostType /\ SameChip(s, triggerSoundCoin(s))
           /\ triggerSoundCoin(s).manual = s.manual /\ Quiet(triggerSoundCoin(s))
<1> DEFINE a == [s EXCEPT !.coinRequested = TRUE, !.owed = @ \/ ~s.manual]
           k == [a EXCEPT !.coinRequested = FALSE, !.coinLeft = CoinFrames, !.owed = FALSE]
<1>1. a \in HostType /\ SameChip(s, a) /\ a.manual = s.manual /\ Quiet(a)
      /\ a.coinChip = s.coinChip
  BY DEF HostType, SameChip, Quiet
<1> HIDE DEF a
<1>2. k \in HostType /\ SameChip(a, k) /\ k.manual = a.manual
  <2>1. k \in HostType
    BY <1>1, CoinRange DEF HostType
  <2>2. SameChip(a, k) /\ k.manual = a.manual
    BY <1>1 DEF HostType, SameChip
  <2> QED
    BY <2>1, <2>2
<1>3. s.coinChip => Quiet(k)
  BY <1>1 DEF HostType, Quiet
<1>4. triggerSoundCoin(s) = IF ~s.coinChip \/ s.coinLeft > 0 THEN prepareSoundCoinChip(a) ELSE k
  BY DEF triggerSoundCoin, a, k
<1> HIDE DEF k
<1> QED
  BY <1>1, <1>2, <1>3, <1>4, PrepareCoin DEF SameChip

LEMMA StopCoin ==
    ASSUME NEW s \in HostType
    PROVE  /\ stopSoundCoinPlayback(s) \in HostType /\ SameChip(s, stopSoundCoinPlayback(s))
           /\ stopSoundCoinPlayback(s).manual = s.manual /\ Quiet(stopSoundCoinPlayback(s))
<1> DEFINE k == [s EXCEPT !.coinRequested = FALSE, !.coinLeft = 0, !.coinChip = FALSE,
                          !.owed = FALSE]
<1>1. k \in HostType
  BY CoinRange DEF HostType
<1>2. SameChip(s, k) /\ k.manual = s.manual /\ Quiet(k)
  BY DEF HostType, SameChip, Quiet
<1> QED
  BY <1>1, <1>2 DEF stopSoundCoinPlayback

LEMMA CoinEnds ==
    ASSUME NEW s \in HostType, Quiet(s)
    PROVE  /\ CoinPrepared(s) \in HostType /\ SameChip(s, CoinPrepared(s))
           /\ CoinPrepared(s).manual = s.manual /\ Quiet(CoinPrepared(s))
           /\ CoinPrepared(s).level = s.level
<1> DEFINE a == [s EXCEPT !.coinTape = TRUE, !.coinPreparing = FALSE]
           left == IF s.coinRequested THEN CoinFrames ELSE a.coinLeft
           k == [a EXCEPT !.coinChip = TRUE, !.coinRequested = FALSE, !.owed = FALSE,
                          !.coinLeft = left]
<1>1. a \in HostType /\ SameChip(s, a) /\ a.manual = s.manual /\ Quiet(a) /\ a.level = s.level
  BY DEF HostType, SameChip, Quiet
<1> HIDE DEF a
<1>2. k \in HostType /\ SameChip(a, k) /\ k.manual = a.manual /\ k.level = a.level
  <2>0. left \in 0..CoinFrames
    BY <1>1, CoinRange DEF HostType
  <2> HIDE DEF left
  <2>1. k \in HostType
    BY <1>1, <2>0 DEF HostType
  <2>2. SameChip(a, k) /\ k.manual = a.manual /\ k.level = a.level
    BY <1>1 DEF HostType, SameChip
  <2> QED
    BY <2>1, <2>2
<1>3. ~s.manual => Quiet(k)
  BY <1>1, <1>2 DEF Quiet
<1>4. CoinPrepared(s) = IF s.manual THEN a ELSE k
  BY DEF CoinPrepared, a, k
<1> HIDE DEF k
<1> QED
  BY <1>1, <1>2, <1>3, <1>4 DEF SameChip

LEMMA CoinFrame ==
    ASSUME NEW s \in HostType, Quiet(s)
    PROVE  /\ processSoundCoinFrame(s) \in HostType /\ SameChip(s, processSoundCoinFrame(s))
           /\ processSoundCoinFrame(s).manual = s.manual /\ Quiet(processSoundCoinFrame(s))
<1> DEFINE a == [s EXCEPT !.coinLeft = @ - 1]
           b == [s EXCEPT !.coinLeft = 0, !.coinChip = FALSE]
<1>1. s.coinLeft > 1 => a \in HostType
  <2>1. s.coinLeft > 1 => s.coinLeft - 1 \in 0..CoinFrames
    BY CoinRange DEF HostType
  <2> QED
    BY <2>1 DEF HostType
<1>2. s \in HostType /\ SameChip(s, s) /\ SameChip(s, a) /\ a.manual = s.manual
  BY DEF HostType, SameChip
<1>3. ~s.manual => Quiet(a)
  BY <1>2 DEF Quiet
<1>4. b \in HostType /\ SameChip(s, b) /\ b.manual = s.manual /\ Quiet(b)
  <2>1. b \in HostType
    BY CoinRange DEF HostType
  <2>2. SameChip(s, b) /\ b.manual = s.manual /\ Quiet(b)
    BY DEF HostType, SameChip, Quiet
  <2> QED
    BY <2>1, <2>2
<1> HIDE DEF a, b
<1>5. processSoundCoinFrame(s) =
        IF ~s.coinChip \/ ~s.coinTape \/ s.coinLeft = 0 \/ ~renderer THEN s
        ELSE IF s.manual THEN stopSoundCoinPlayback(s)
        ELSE IF s.coinLeft > 1 THEN a ELSE prepareSoundCoinChip(b)
  BY DEF processSoundCoinFrame, a, b
<1>6. SameChip(b, prepareSoundCoinChip(b)) => SameChip(s, prepareSoundCoinChip(b))
  BY <1>4 DEF SameChip
<1> QED
  BY <1>1, <1>2, <1>3, <1>4, <1>5, <1>6, PrepareCoin, StopCoin

LEMMA CoinPulse ==
    ASSUME NEW s \in HostType, Quiet(s)
    PROVE  /\ coinPulse(s) \in HostType /\ SameChip(s, coinPulse(s))
           /\ coinPulse(s).manual = s.manual /\ Quiet(coinPulse(s))
<1> DEFINE c == IF s.credits < MaxCredits THEN s.credits + 1 ELSE s.credits
           paid == [s EXCEPT !.credits = c]
<1>1. c \in 0..MaxCredits
  BY DEF HostType
<1> HIDE DEF c
<1>2. paid \in HostType /\ SameChip(s, paid) /\ paid.manual = s.manual /\ Quiet(paid)
  BY <1>1 DEF HostType, SameChip, Quiet
<1>3. coinPulse(s) = IF page.coinSound THEN triggerSoundCoin(paid) ELSE paid
  BY DEF coinPulse, c
<1> HIDE DEF paid
<1> QED
  BY <1>2, <1>3, TriggerCoin DEF SameChip

-----------------------------------------------------------------------------
(* The steps that prepare a chip or start a game.                          *)

LEMMA PrepareGameplay ==
    ASSUME NEW s, Base(s), s.kind # "gameplay", NEW q
    PROVE  LET k == prepareSoundChip(s, "gameplay")
           IN  Core(k) /\ Queued(k, q) /\ k.mode = "idle" /\ k.manual = s.manual
<1> DEFINE stale == {[p EXCEPT !.current = FALSE] : p \in s.preps}
           new == [kind |-> "gameplay", current |-> TRUE]
           k == [s EXCEPT !.preps = stale \cup {new}, !.kind = "gameplay", !.queue = <<>>,
                          !.mode = "idle", !.last = None, !.music = None, !.queued = <<>>]
<1>1. s.preps \subseteq PrepType /\ new \in PrepType
  BY DEF Base, HostType, PrepType
<1>2. \A p \in stale : p \in PrepType /\ p.current = FALSE /\ p.kind # "gameplay"
  <2>1. \A p \in s.preps : p.kind # "gameplay"
    BY DEF Base, NoStale, Tracked
  <2> QED
    BY <1>1, <2>1 DEF PrepType
<1> HIDE DEF stale
<1>3. k \in HostType
  <2>1. <<>> \in Seq(Commands)
    OBVIOUS
  <2> QED
    BY <1>1, <1>2, <2>1 DEF Base, HostType, None
<1>4. k.preps = stale \cup {new} /\ k.kind = "gameplay" /\ k.queue = <<>> /\ k.mode = "idle"
      /\ k.manual = s.manual /\ k.coinChip = s.coinChip /\ k.coinLeft = s.coinLeft
  BY DEF Base, HostType
<1>5. prepareSoundChip(s, "gameplay") = k
  BY DEF prepareSoundChip, stale
<1> HIDE DEF k
<1>6. Tracked(k) /\ NoStale(k)
  BY <1>2, <1>4 DEF Tracked, NoStale
<1>7. ForGame(k) /\ Quiet(k) /\ Remembered(k) /\ HasChip(k) /\ Queued(k, q)
  BY <1>4 DEF Base, ForGame, Quiet, Remembered, HasChip, Queued
<1> QED
  BY <1>3, <1>4, <1>5, <1>6, <1>7 DEF Base, Core

LEMMA Ensure ==
    ASSUME NEW s, Base(s), NEW q, Queued(s, q)
    PROVE  /\ Core(ensureSoundChip(s)) /\ Queued(ensureSoundChip(s), q)
           /\ Core(transitionSoundChip(s)) /\ Queued(transitionSoundChip(s), q)
<1>1. Core(ensureSoundChip(s)) /\ Queued(ensureSoundChip(s), q)
  <2>1. s.mode = "gameplay" \/ s.kind = "gameplay" => Core(s)
    BY DEF Core, HasChip
  <2> QED
    BY <2>1, PrepareGameplay DEF ensureSoundChip
<1>2. s.mode = "attract" => s.kind # "gameplay"
  BY DEF Base, Tracked
<1> QED
  BY <1>1, <1>2, PrepareGameplay DEF transitionSoundChip

LEMMA GameStarts ==
    ASSUME NEW s, Base(s), s.credits > 0, NEW q, Queued(s, q)
    PROVE  Base(StartGame(s)) /\ Queued(StartGame(s), q)
<1> DEFINE c == s.credits - 1
           k == [s EXCEPT !.credits = c, !.manual = TRUE]
<1>1. c \in 0..MaxCredits
  BY DEF Base, HostType
<1> HIDE DEF c
<1>2. k \in HostType /\ SameChip(s, k)
  BY <1>1 DEF Base, HostType, SameChip
<1>3. StartGame(s) = stopSoundCoinPlayback(k)
  BY DEF StartGame, c
<1> HIDE DEF k
<1>4. SameChip(s, StartGame(s)) /\ StartGame(s) \in HostType /\ Quiet(StartGame(s))
  BY <1>2, <1>3, StopCoin DEF SameChip
<1> QED
  BY <1>4, SameKeeps

LEMMA CoinStart ==
    ASSUME NEW s, Core(s), NEW q, Queued(s, q)
    PROVE  /\ Core(coinStart(s)) /\ Queued(coinStart(s), q)
           /\ \A n : Core(gateCheck(s, n)) /\ Queued(gateCheck(s, n), q)
  BY GameStarts, Ensure DEF coinStart, gateCheck, Core

LEMMA AttractReturns ==
    ASSUME NEW s, Core(s), NEW q, Queued(s, q)
    PROVE  Core(attractReturn(s)) /\ Queued(attractReturn(s), q)
<1> DEFINE k == [s EXCEPT !.manual = FALSE]
<1>1. k \in HostType /\ SameChip(s, k) /\ k.manual = FALSE
  BY DEF Core, Base, HostType, SameChip
<1> HIDE DEF k
<1>2. Base(k) /\ Queued(k, q)
  BY <1>1, SameKeeps DEF Core, Quiet
<1>3. page.flow = "coinStart" => HasChip(k)
  BY <1>1 DEF HasChip, GameplayActive, Flows
<1> QED
  BY <1>2, <1>3 DEF attractReturn, Core, k

-----------------------------------------------------------------------------
(* The steps that use the queue.                                           *)

LEMMA AppendConcat ==
    ASSUME NEW S, NEW q \in Seq(S), NEW r \in Seq(S), NEW c \in S
    PROVE  q \o Append(r, c) = Append(q \o r, c)
  OBVIOUS

LEMMA Split ==
    ASSUME NEW S, NEW q \in Seq(S), NEW n \in 0..Len(q)
    PROVE  /\ SubSeq(q, 1, n) \in Seq(S) /\ SubSeq(q, n + 1, Len(q)) \in Seq(S)
           /\ SubSeq(q, 1, n) \o SubSeq(q, n + 1, Len(q)) = q
<1>1. SubSeq(q, 1, n) \in Seq(S) /\ SubSeq(q, n + 1, Len(q)) \in Seq(S)
  BY SubSeqProperties
<1>2. Len(q) \in Nat /\ 1 \in 1..Len(q) + 1 /\ n \in (1 - 1)..Len(q) /\ Len(q) \in n..Len(q)
  OBVIOUS
<1>3. SubSeq(q, 1, n) \o SubSeq(q, n + 1, Len(q)) = SubSeq(q, 1, Len(q))
  BY <1>2, ConcatAdjacentSubSeq
<1> QED
  BY <1>1, <1>3, SubSeqFull

LEMMA Enqueue ==
    ASSUME NEW s, Core(s), s.mode # "idle", GameplayActive(s), NEW cmd \in Commands,
           NEW q \in Seq(Commands), Queued(s, q)
    PROVE  LET k == enqueueSoundCommand(s, cmd)
           IN  /\ Core(k) /\ Queued(k, q) /\ k.mode = "gameplay" /\ k.kind = s.kind
               /\ k.manual = s.manual /\ k.last = s.last
<1> DEFINE newQueue == Append(s.queue, cmd)
           newQueued == Append(s.queued, cmd)
           k == [s EXCEPT !.queue = newQueue, !.queued = newQueued]
<1>0. s.mode = "gameplay"
  BY DEF Core, Base, HasChip, Tracked
<1>1. newQueue \in Seq(Commands) /\ newQueued \in Seq(Commands)
  BY DEF Core, Base, HostType
<1>2. q \o newQueued = newQueue
  <2>1. s.queued \in Seq(Commands) /\ q \o s.queued = s.queue
    BY <1>0 DEF Core, Base, HostType, Queued
  <2>2. \A r \in Seq(Commands) : q \o Append(r, cmd) = Append(q \o r, cmd)
    BY AppendConcat
  <2> QED
    BY <2>1, <2>2
<1> HIDE DEF newQueue, newQueued
<1>3. k \in HostType
  BY <1>1 DEF Core, Base, HostType
<1>4. /\ k.mode = s.mode /\ k.kind = s.kind /\ k.preps = s.preps /\ k.last = s.last
      /\ k.music = s.music /\ k.manual = s.manual /\ k.coinChip = s.coinChip
      /\ k.coinLeft = s.coinLeft /\ k.sent = s.sent
      /\ k.queue = newQueue /\ k.queued = newQueued
  BY DEF Core, Base, HostType
<1>5. enqueueSoundCommand(s, cmd) = k
  BY DEF enqueueSoundCommand, newQueue, newQueued
<1> HIDE DEF k
<1>6. Base(k) /\ HasChip(k) /\ Queued(k, q)
  BY <1>0, <1>2, <1>3, <1>4
     DEF Core, Base, Tracked, NoStale, HasChip, ForGame, Quiet, Remembered, Queued,
         GameplayActive
<1> QED
  BY <1>0, <1>4, <1>5, <1>6 DEF Core

LEMMA Services ==
    ASSUME NEW s, Core(s), NEW q \in Seq(Commands), Queued(s, q), NEW beat
    PROVE  /\ Core(enqueueSoundMusicService(s, beat))
           /\ Queued(enqueueSoundMusicService(s, beat), q)
           /\ Core(onCmd(s)) /\ Queued(onCmd(s), q)
<1>1. "service" \in Commands /\ "beat" \in Commands /\ "live" \in Commands
  BY DEF Commands
<1>2. Core(onCmd(s)) /\ Queued(onCmd(s), q)
  BY <1>1, Enqueue DEF onCmd
<1> DEFINE t == enqueueSoundCommand(s, "service")
<1>3. ASSUME s.mode # "idle", GameplayActive(s)
      PROVE  /\ Core(t) /\ Queued(t, q)
             /\ Core(enqueueSoundCommand(t, "beat")) /\ Queued(enqueueSoundCommand(t, "beat"), q)
  <2>1. Core(t) /\ Queued(t, q) /\ t.mode = "gameplay" /\ t.manual = s.manual
    BY <1>1, <1>3, Enqueue
  <2>2. GameplayActive(t)
    BY <2>1, <1>3 DEF GameplayActive
  <2> HIDE DEF t
  <2> QED
    BY <2>1, <2>2, <1>1, Enqueue
<1>4. enqueueSoundMusicService(s, beat)
        = IF ~page.musicService \/ s.mode = "idle" \/ ~GameplayActive(s) THEN s
          ELSE IF beat THEN enqueueSoundCommand(t, "beat") ELSE t
  BY DEF enqueueSoundMusicService
<1> HIDE DEF t
<1> QED
  BY <1>2, <1>3, <1>4

\* after it a live game with level music has the music of the level
Follows(s, l) ==
    page.levelMusic /\ GameplayActive(s) /\ s.mode = "gameplay" => s.last = l

LEMMA LevelMusic ==
    ASSUME NEW s, Core(s), NEW q \in Seq(Commands), Queued(s, q),
           NEW l, page.levelMusic => l \in Levels
    PROVE  LET k == enqueueSoundLevelMusic(s, l)
           IN  Core(k) /\ Queued(k, q) /\ Follows(k, l)
<1>1. CASE ~page.levelMusic \/ s.mode = "idle" \/ ~GameplayActive(s) \/ l = s.last
  BY <1>1 DEF enqueueSoundLevelMusic, Follows
<1>2. CASE /\ page.levelMusic /\ s.mode # "idle" /\ GameplayActive(s) /\ l # s.last
           /\ shouldHandoff(s, l)
  <2>1. s.kind # "gameplay"
    BY <1>2 DEF Core, Base, Tracked
  <2>2. enqueueSoundLevelMusic(s, l) = prepareSoundChip(s, "gameplay")
    BY <1>2 DEF enqueueSoundLevelMusic
  <2> QED
    BY <2>1, <2>2, PrepareGameplay DEF Core, Follows
<1>3. CASE /\ page.levelMusic /\ s.mode # "idle" /\ GameplayActive(s) /\ l # s.last
           /\ ~shouldHandoff(s, l)
  <2> DEFINE e == IF l \in MusicLevels THEN enqueueSoundCommand(s, "music") ELSE s
             m == IF l \in MusicLevels THEN l ELSE e.music
             k == [e EXCEPT !.last = l, !.music = m]
  <2>0. "music" \in Commands
    BY DEF Commands
  <2>1. Core(e) /\ Queued(e, q)
    BY <1>3, <2>0, Enqueue
  <2> HIDE DEF e
  <2>2. l \in Levels /\ m \in Levels \cup {None} /\ (l \in MusicLevels => m = l)
    BY <1>3, <2>1 DEF Core, Base, HostType
  <2> HIDE DEF m
  <2>3. k \in HostType
    BY <2>1, <2>2 DEF Core, Base, HostType
  <2>4. /\ k.mode = e.mode /\ k.kind = e.kind /\ k.preps = e.preps /\ k.last = l
        /\ k.music = m /\ k.manual = e.manual /\ k.coinChip = e.coinChip
        /\ k.coinLeft = e.coinLeft /\ k.sent = e.sent
        /\ k.queue = e.queue /\ k.queued = e.queued
    BY <2>1 DEF Core, Base, HostType
  <2>5. enqueueSoundLevelMusic(s, l) = k
    <3>1. e \in HostType
      BY <2>1 DEF Core, Base
    <3>2. l \notin MusicLevels => [e EXCEPT !.last = l] = k
      BY <3>1 DEF HostType, m
    <3>3. l \in MusicLevels => [e EXCEPT !.last = l, !.music = l] = k
      BY <2>2
    <3>4. enqueueSoundLevelMusic(s, l)
            = IF l \in MusicLevels THEN [e EXCEPT !.last = l, !.music = l]
              ELSE [e EXCEPT !.last = l]
      BY <1>3 DEF enqueueSoundLevelMusic, e
    <3> QED
      BY <3>2, <3>3, <3>4
  <2> HIDE DEF k
  <2>6. Base(k) /\ HasChip(k) /\ Queued(k, q) /\ Follows(k, l)
    BY <2>1, <2>2, <2>3, <2>4
       DEF Core, Base, Tracked, NoStale, HasChip, ForGame, Quiet, Remembered, Queued,
           GameplayActive, Follows
  <2> QED
    BY <2>5, <2>6 DEF Core
<1> QED
  BY <1>1, <1>2, <1>3

LEMMA Submits ==
    ASSUME NEW s, Core(s), NEW n \in 0..Batch(s), NEW q, Queued(s, q), NEW l
    PROVE  LET k == submitQueuedSoundCommands(s, n)
           IN  /\ Core(k) /\ (Follows(s, l) => Follows(k, l))
               /\ k.mode = "gameplay" => q \o k.queued = k.sent \o k.queue
<1> DEFINE rest == SubSeq(s.queue, n + 1, Len(s.queue))
           sent == SubSeq(s.queue, 1, n)
           k == [s EXCEPT !.queue = rest, !.sent = sent]
<1>0. s \in HostType /\ s.queue \in Seq(Commands) /\ n \in 0..Len(s.queue)
  BY DEF Core, Base, HostType, Batch
<1>1. rest \in Seq(Commands) /\ sent \in Seq(Commands) /\ sent \o rest = s.queue
  BY <1>0, Split
<1>2. s.mode # "gameplay" => rest = <<>>
  <2>1. s.mode # "gameplay" => s.queue = <<>>
    BY DEF Core, Base, ForGame
  <2>2. s.queue = <<>> => Len(rest) = 0
    BY <1>0, SubSeqProperties
  <2> QED
    BY <1>1, <2>1, <2>2, EmptySeq
<1> HIDE DEF rest, sent
<1>3. k \in HostType
  BY <1>0, <1>1 DEF HostType
<1>4. /\ k.mode = s.mode /\ k.kind = s.kind /\ k.preps = s.preps /\ k.last = s.last
      /\ k.music = s.music /\ k.manual = s.manual /\ k.coinChip = s.coinChip
      /\ k.coinLeft = s.coinLeft /\ k.queued = s.queued /\ k.queue = rest /\ k.sent = sent
  BY <1>0 DEF HostType
<1>5. submitQueuedSoundCommands(s, n) = IF ChipRuns(s) THEN k ELSE s
  BY DEF submitQueuedSoundCommands, Submitted, rest, sent
<1> HIDE DEF k
<1>6. Core(k) /\ (Follows(s, l) => Follows(k, l))
  BY <1>2, <1>3, <1>4
     DEF Core, Base, Tracked, NoStale, HasChip, ForGame, Quiet, Remembered, GameplayActive,
         Follows
<1>7. k.mode = "gameplay" => q \o k.queued = k.sent \o k.queue
  BY <1>1, <1>4 DEF Queued
<1>8. s.mode = "gameplay" => q \o s.queued = s.sent \o s.queue
  <2>1. <<>> \o s.queue = s.queue
    BY <1>0, ConcatEmptySeq
  <2> QED
    BY <2>1 DEF Queued
<1> QED
  BY <1>5, <1>6, <1>7, <1>8

-----------------------------------------------------------------------------
(* A frame, and what happens between the frames.                           *)

LEMMA FrameOps ==
    ASSUME TypeOK, Core(h), NEW in \in Inputs, NEW n \in 0..Batch(Led(h, in)),
           h' = [processSoundCoinFrame(submitQueuedSoundCommands(Led(h, in), n))
                    EXCEPT !.level = in.level]
    PROVE  /\ Core(h')
           /\ h'.mode = "gameplay" => h.queue \o h'.queued = h'.sent \o h'.queue
           /\ Follows(h', in.level) /\ h'.level = in.level
<1> DEFINE s0 == [h EXCEPT !.queued = <<>>, !.sent = <<>>]
           q == h.queue
<1>0. q \in Seq(Commands) /\ h \in HostType /\ <<>> \in Seq(Commands)
  BY DEF TypeOK, HostType
<1>1. Core(s0) /\ Queued(s0, q)
  <2>1. s0 \in HostType
    BY <1>0 DEF HostType
  <2>2. /\ s0.mode = h.mode /\ s0.kind = h.kind /\ s0.preps = h.preps /\ s0.last = h.last
        /\ s0.music = h.music /\ s0.manual = h.manual /\ s0.coinChip = h.coinChip
        /\ s0.coinLeft = h.coinLeft /\ s0.queued = <<>> /\ s0.queue = q /\ s0.sent = <<>>
    BY <1>0 DEF HostType
  <2> HIDE DEF s0
  <2>3. Core(s0)
    BY <2>1, <2>2
       DEF Core, Base, Tracked, NoStale, HasChip, ForGame, Quiet, Remembered, GameplayActive
  <2>4. q \o <<>> = q
    BY <1>0, ConcatEmptySeq
  <2> QED
    BY <2>2, <2>3, <2>4 DEF Queued
<1> DEFINE Ok(s) == Core(s) /\ Queued(s, q)
<1> HIDE DEF s0, q
<1>2. \A s : Ok(s) => Ok(coinPulse(s))
  BY CoinPulse, SameKeeps DEF Core, Base
<1>3. \A s : Ok(s) => Ok(attractReturn(s)) /\ Ok(coinStart(s)) /\ \A p : Ok(gateCheck(s, p))
  BY AttractReturns, CoinStart
<1>4. \A s, b : Ok(s) => Ok(enqueueSoundMusicService(s, b)) /\ Ok(onCmd(s))
  BY <1>0, Services
<1> HIDE DEF Ok
<1>5. Ok(BeforeTick(s0, in))
  BY <1>1, <1>2, <1>3, <1>4 DEF BeforeTick, When, Ok
<1>6. Ok(Ticked(BeforeTick(s0, in), in))
  BY <1>3, <1>4, <1>5 DEF Ticked, When
<1>7. page.levelMusic => in.level \in Levels
  BY DEF Inputs
<1> DEFINE led == Led(h, in)
           sub == submitQueuedSoundCommands(led, n)
           end == processSoundCoinFrame(sub)
<1>8. Ok(led) /\ Follows(led, in.level)
  BY <1>0, <1>6, <1>7, LevelMusic DEF Led, s0, Ok
<1> HIDE DEF led
<1>9. /\ Core(sub) /\ Follows(sub, in.level)
      /\ sub.mode = "gameplay" => q \o sub.queued = sub.sent \o sub.queue
  <2>1. n \in 0..Batch(led)
    BY DEF led
  <2> QED
    BY <1>8, <2>1, Submits DEF Ok
<1> HIDE DEF sub
<1>10. /\ Core(end) /\ Follows(end, in.level)
       /\ end.mode = "gameplay" => q \o end.queued = end.sent \o end.queue
  <2>1. end \in HostType /\ SameChip(sub, end) /\ end.manual = sub.manual /\ Quiet(end)
    BY <1>9, CoinFrame DEF Core, Base
  <2> HIDE DEF end
  <2> QED
    BY <1>9, <2>1, SameKeeps DEF Core, Follows, GameplayActive, SameChip
<1>11. h' = [end EXCEPT !.level = in.level]
  BY DEF end, sub, led
<1> HIDE DEF end
<1>12. end \in HostType /\ in.level \in Levels \cup {None}
  BY <1>10 DEF Core, Base, Inputs
<1>13. h' \in HostType
  BY <1>11, <1>12 DEF HostType
<1>14. /\ SameChip(end, h') /\ h'.level = in.level /\ h'.manual = end.manual
       /\ h'.coinChip = end.coinChip /\ h'.coinLeft = end.coinLeft
  BY <1>11, <1>12 DEF HostType, SameChip
<1>15. Core(h')
  BY <1>10, <1>13, <1>14, SameKeeps DEF Core, Base, Quiet
<1> QED
  BY <1>10, <1>14, <1>15 DEF Follows, GameplayActive, SameChip, q

LEMMA Installs ==
    ASSUME NEW s, Core(s), NEW p \in s.preps
    PROVE  /\ Core(Installed(s, p)) /\ Installed(s, p).manual = s.manual
           /\ p.current => Installed(s, p).level = None
           /\ ~p.current => /\ Installed(s, p).level = s.level
                            /\ Installed(s, p).music = s.music
                            /\ Installed(s, p).mode = s.mode
           /\ Installed(s, p).queue = s.queue /\ Installed(s, p).queued = s.queued
           /\ Installed(s, p).sent = s.sent
<1>0. p \in PrepType /\ s \in HostType /\ s.preps \ {p} \subseteq PrepType
  BY DEF Core, Base, HostType
<1> DEFINE a == [s EXCEPT !.preps = s.preps \ {p}]
           l == IF p.kind = "gameplay" THEN None ELSE s.last
           b == [s EXCEPT !.preps = s.preps \ {p}, !.mode = p.kind, !.kind = "none",
                          !.last = l, !.music = None, !.level = None]
<1>1. a \in HostType /\ a.preps = s.preps \ {p}
      /\ a.mode = s.mode /\ a.kind = s.kind /\ a.queue = s.queue /\ a.last = s.last
      /\ a.music = s.music /\ a.manual = s.manual /\ a.coinChip = s.coinChip
      /\ a.coinLeft = s.coinLeft /\ a.level = s.level /\ a.queued = s.queued /\ a.sent = s.sent
  BY <1>0 DEF HostType
<1>2. l \in Levels \cup {None} /\ p.kind \in {"attract", "gameplay"}
  BY <1>0 DEF HostType, PrepType
<1>3. b \in HostType
  BY <1>0, <1>2 DEF HostType
<1>4. b.preps = s.preps \ {p} /\ b.mode = p.kind /\ b.kind = "none" /\ b.queue = s.queue
      /\ b.last = l /\ b.music = None /\ b.manual = s.manual /\ b.coinChip = s.coinChip
      /\ b.coinLeft = s.coinLeft /\ b.level = None /\ b.queued = s.queued /\ b.sent = s.sent
  BY <1>0 DEF HostType
<1>5. Installed(s, p) = IF ~p.current THEN a ELSE b
  BY DEF Installed
<1> HIDE DEF a, b
<1>6. ~p.current => Core(a)
  BY <1>1 DEF Core, Base, Tracked, NoStale, HasChip, ForGame, Quiet, Remembered, GameplayActive
<1>7. ASSUME p.current PROVE Core(b)
  <2>1. p.kind = s.kind /\ p.kind # "none" /\ s.mode = "idle" /\ s.queue = <<>>
    BY <1>2, <1>7 DEF Core, Base, Tracked, ForGame, HostType
  <2>2. \A r \in b.preps : ~r.current
    <3> SUFFICES ASSUME NEW r \in s.preps, r # p, r.current PROVE FALSE
      BY <1>4
    <3>1. r \in PrepType /\ r.kind = p.kind
      BY <2>1 DEF Core, Base, Tracked, HostType
    <3> QED
      BY <1>0, <1>7, <3>1 DEF PrepType
  <2>3. Tracked(b) /\ NoStale(b)
    BY <1>4, <2>2 DEF Core, Base, Tracked, NoStale
  <2>4. HasChip(b) /\ ForGame(b) /\ Quiet(b)
    BY <1>4, <2>1 DEF Core, Base, HasChip, ForGame, Quiet, GameplayActive
  <2>5. Remembered(b)
    BY <1>2, <1>4 DEF Remembered, MusicLevels, None
  <2> QED
    BY <1>3, <2>3, <2>4, <2>5 DEF Core, Base
<1> QED
  BY <1>1, <1>4, <1>5, <1>6, <1>7

-----------------------------------------------------------------------------
(* The theorems.                                                           *)

IInv == TypeOK /\ Core(h) /\ MusicFollowsLevel

LEMMA Initially == Init => IInv
<1> SUFFICES ASSUME Init PROVE IInv
  OBVIOUS
<1>1. Loaded \in HostType /\ Base(Loaded) /\ Queued(Loaded, <<>>) /\ Loaded.kind = "none"
  BY CoinRange DEF Loaded, HostType, Base, Tracked, NoStale, ForGame, Quiet, Remembered, Queued
<1>2. Loaded.preps = {} /\ Loaded.mode = "idle" /\ ~Loaded.manual /\ Loaded.level = None
      /\ ~Loaded.coinChip /\ Loaded.coinLeft = 0
  BY DEF Loaded
<1> HIDE DEF Loaded
<1>3. CASE ~Flows
  <2>1. Core(FirstPrepared) /\ FirstPrepared.mode = "idle"
    BY <1>1, <1>3, PrepareGameplay DEF FirstPrepared
  <2> QED
    BY <2>1 DEF Init, IInv, TypeOK, MusicFollowsLevel, Core, Base
<1>4. CASE Flows
  <2> DEFINE a == prepareSoundChip(Loaded, "attract")
             new == [kind |-> "attract", current |-> TRUE]
  <2>1. a = [Loaded EXCEPT !.preps = {new}, !.kind = "attract", !.queue = <<>>,
                           !.mode = "idle", !.last = None, !.music = None, !.queued = <<>>]
    BY <1>2 DEF prepareSoundChip
  <2>2. {new} \subseteq PrepType /\ <<>> \in Seq(Commands)
    <3>1. new \in PrepType
      BY DEF PrepType
    <3>2. <<>> \in Seq(Commands)
      OBVIOUS
    <3> QED
      BY <3>1, <3>2
  <2>3. a \in HostType
    <3> DEFINE news == {new}
    <3>1. news \subseteq PrepType /\ a = [Loaded EXCEPT !.preps = news, !.kind = "attract",
              !.queue = <<>>, !.mode = "idle", !.last = None, !.music = None, !.queued = <<>>]
      BY <2>1, <2>2
    <3> HIDE DEF news, a
    <3> QED
      BY <1>1, <2>2, <3>1 DEF HostType
  <2>4. a.preps = {new} /\ a.kind = "attract" /\ a.queue = <<>> /\ a.mode = "idle"
        /\ ~a.manual /\ ~a.coinChip
    BY <1>1, <1>2, <2>1 DEF HostType
  <2> HIDE DEF a
  <2>5. Core(a)
    BY <1>4, <2>3, <2>4
       DEF Core, Base, Tracked, NoStale, HasChip, ForGame, Quiet, Remembered, GameplayActive
  <2>6. Core(Loaded)
    BY <1>1, <1>2, <1>4 DEF Core, HasChip, GameplayActive
  <2> DEFINE s == IF page.attractSound THEN a ELSE Loaded
  <2>7. Core(s) /\ s.mode = "idle" /\ s \in HostType /\ FirstPrepared = prepareSoundCoinChip(s)
    BY <1>1, <1>2, <1>4, <2>3, <2>4, <2>5, <2>6 DEF FirstPrepared, a
  <2> HIDE DEF s
  <2>8. /\ FirstPrepared \in HostType /\ SameChip(s, FirstPrepared)
        /\ FirstPrepared.manual = s.manual /\ Quiet(FirstPrepared)
    BY <2>7, PrepareCoin DEF Core, Base
  <2>9. Core(FirstPrepared)
    BY <2>7, <2>8, SameKeeps DEF Core
  <2>10. FirstPrepared.mode = "idle"
    BY <2>7, <2>8 DEF SameChip
  <2> QED
    BY <2>8, <2>9, <2>10 DEF Init, IInv, TypeOK, MusicFollowsLevel
<1> QED
  BY <1>3, <1>4

LEMMA CoreOfNext == Core(h') /\ page' = page => Core(h)'
  BY DEF Core, Base, Tracked, NoStale, HasChip, ForGame, Quiet, Remembered, GameplayActive,
         Flows

LEMMA Inductive == IInv /\ [Next]_vars => IInv'
<1> SUFFICES ASSUME IInv, [Next]_vars PROVE IInv'
  OBVIOUS
<1>0. TypeOK /\ Core(h) /\ h \in HostType /\ page \in Pages /\ renderer \in BOOLEAN /\ Quiet(h)
  BY DEF IInv, TypeOK, Core, Base
<1>1. CASE Frame
  <2> PICK in \in Inputs : \E n \in 0..Batch(Led(h, in)) :
        /\ h' = [processSoundCoinFrame(submitQueuedSoundCommands(Led(h, in), n))
                    EXCEPT !.level = in.level]
        /\ UNCHANGED <<page, renderer>>
    BY <1>1 DEF Frame
  <2>1. Core(h') /\ Follows(h', in.level) /\ h'.level = in.level /\ page' = page
        /\ renderer' = renderer
    BY <1>0, FrameOps
  <2>2. MusicFollowsLevel'
    BY <2>1 DEF MusicFollowsLevel, Follows, GameplayActive, Flows, Core, Base, Remembered
  <2> QED
    BY <1>0, <2>1, <2>2, CoreOfNext DEF IInv, TypeOK, Core, Base
<1>2. CASE prepareEnds
  <2> PICK p \in h.preps : h' = Installed(h, p)
    BY <1>2 DEF prepareEnds
  <2>1. page' = page /\ renderer' = renderer
    BY <1>2 DEF prepareEnds
  <2>2. Core(h') /\ h'.manual = h.manual /\ (p.current => h'.level = None)
        /\ (~p.current => h'.level = h.level /\ h'.music = h.music /\ h'.mode = h.mode)
    BY <1>0, Installs
  <2>3. None \notin MusicLevels
    BY DEF MusicLevels, None
  <2>4. MusicFollowsLevel'
    BY <2>1, <2>2, <2>3 DEF IInv, MusicFollowsLevel, GameplayActive, Flows
  <2> QED
    BY <1>0, <2>1, <2>2, <2>4, CoreOfNext DEF IInv, TypeOK, Core, Base
<1>3. CASE coinPrepareEnds
  <2>1. page' = page /\ renderer' = renderer /\ h' = CoinPrepared(h)
    BY <1>3 DEF coinPrepareEnds
  <2>2. h' \in HostType /\ SameChip(h, h') /\ h'.manual = h.manual /\ Quiet(h')
        /\ h'.level = h.level
    BY <1>0, <2>1, CoinEnds
  <2>3. Core(h')
    BY <1>0, <2>2, SameKeeps DEF Core
  <2>4. MusicFollowsLevel'
    BY <2>1, <2>2 DEF IInv, MusicFollowsLevel, GameplayActive, Flows, SameChip
  <2> QED
    BY <1>0, <2>1, <2>2, <2>3, <2>4, CoreOfNext DEF IInv, TypeOK
<1>4. CASE coinPrepareFails
  <2>1. page' = page /\ renderer' = renderer
        /\ h' = [h EXCEPT !.coinPreparing = FALSE, !.owed = FALSE]
    BY <1>4 DEF coinPrepareFails
  <2>2. h' \in HostType /\ SameChip(h, h') /\ h'.manual = h.manual /\ Quiet(h')
        /\ h'.level = h.level
    BY <1>0, <2>1 DEF HostType, SameChip, Quiet
  <2>3. Core(h')
    BY <1>0, <2>2, SameKeeps DEF Core
  <2>4. MusicFollowsLevel'
    BY <2>1, <2>2 DEF IInv, MusicFollowsLevel, GameplayActive, Flows, SameChip
  <2> QED
    BY <1>0, <2>1, <2>2, <2>3, <2>4, CoreOfNext DEF IInv, TypeOK
<1>5. CASE startSoundRenderer \/ UNCHANGED vars
  <2>1. page' = page /\ h' = h /\ renderer' \in BOOLEAN
    BY <1>0, <1>5 DEF startSoundRenderer, vars
  <2>2. MusicFollowsLevel'
    BY <2>1 DEF IInv, MusicFollowsLevel, GameplayActive, Flows
  <2> QED
    BY <1>0, <2>1, <2>2, CoreOfNext DEF IInv, TypeOK
<1> QED
  BY <1>1, <1>2, <1>3, <1>4, <1>5 DEF Next

LEMMA Invariant == Spec => []IInv
  BY Initially, Inductive, PTL DEF Spec

(* The variables of the page keep their types: no count leaves its range   *)
(* and the queue holds commands only.                                      *)
THEOREM TypeCorrect == Spec => []TypeOK
<1>1. IInv => TypeOK
  BY DEF IInv
<1> QED
  BY <1>1, Invariant, PTL

(* The generation numbers and soundChipPrepareKind agree at all times.     *)
THEOREM PreparationsOrderly == Spec => []PreparationIsTracked
<1>1. IInv => PreparationIsTracked
  BY DEF IInv, Core, Base, Tracked, PreparationIsTracked
<1> QED
  BY <1>1, Invariant, PTL

(* No preparation of a gameplay chip is overtaken by another, so none      *)
(* moves the music clock of a game that goes on.                           *)
THEOREM PrewarmNeverStale == Spec => []NoStalePrewarm
<1>1. IInv => NoStalePrewarm
  BY DEF IInv, Core, Base, NoStale, NoStalePrewarm
<1> QED
  BY <1>1, Invariant, PTL

(* A game has its chip or has one coming.                                  *)
THEOREM GameAlwaysHasChip == Spec => []GameHasChip
<1>1. IInv => GameHasChip
  BY DEF IInv, Core, HasChip, GameHasChip
<1> QED
  BY <1>1, Invariant, PTL

(* The jingle never plays in a game.                                       *)
THEOREM GameIsClean == Spec => []CoinQuietInGame
<1>1. IInv => CoinQuietInGame
  BY DEF IInv, Core, Base, Quiet, CoinQuietInGame
<1> QED
  BY <1>1, Invariant, PTL

(* No command waits for a chip that is not a gameplay chip.                *)
THEOREM QueueAlwaysForGame == Spec => []QueueIsForGame
<1>1. IInv => QueueIsForGame
  BY DEF IInv, Core, Base, ForGame, QueueIsForGame
<1> QED
  BY <1>1, Invariant, PTL

(* After each frame of a game its chip was given the music of the level.   *)
THEOREM MusicAlwaysFollows == Spec => []MusicFollowsLevel
<1>1. IInv => MusicFollowsLevel
  BY DEF IInv
<1> QED
  BY <1>1, Invariant, PTL

(* The commands of a frame and those left from before reach the chip once  *)
(* and in order, whatever part of a batch it takes.                        *)
THEOREM CommandsAlwaysInOrder == Spec => CommandsInOrder
<1> DEFINE Ordered == h'.mode = "gameplay" => h.queue \o h'.queued = h'.sent \o h'.queue
           Step == [Ordered]_<<h.queue, h.queued, h.sent>>
<1>1. IInv /\ [Next]_vars => Step
  <2> SUFFICES ASSUME IInv, [Next]_vars PROVE Step
    OBVIOUS
  <2>0. TypeOK /\ Core(h) /\ h \in HostType /\ Quiet(h)
    BY DEF IInv, TypeOK, Core, Base
  <2>1. CASE Frame
    BY <2>0, <2>1, FrameOps DEF Frame
  <2>2. CASE prepareEnds
    BY <2>0, <2>2, Installs DEF prepareEnds
  <2>3. CASE coinPrepareEnds
    BY <2>0, <2>3, CoinEnds DEF coinPrepareEnds, SameChip
  <2>4. CASE coinPrepareFails
    BY <2>0, <2>4 DEF coinPrepareFails, HostType
  <2>5. CASE startSoundRenderer \/ UNCHANGED vars
    BY <2>5 DEF startSoundRenderer, vars
  <2> QED
    BY <2>1, <2>2, <2>3, <2>4, <2>5 DEF Next
<1> QED
  BY <1>1, Invariant, PTL DEF Spec, CommandsInOrder

-----------------------------------------------------------------------------
(* A game gets its chip.  Two preparations at most are under way while it   *)
(* waits: its own and one of the attract chip that was overtaken.           *)

(* Only gameplay chips are being prepared.                                 *)
GameOnly(s) == \A p \in s.preps : p.kind = "gameplay"

LEMMA PreparesGame ==
    ASSUME NEW s \in HostType, GameOnly(s)
    PROVE  GameOnly(prepareSoundChip(s, "gameplay"))
<1> DEFINE stale == {[p EXCEPT !.current = FALSE] : p \in s.preps}
           new == [kind |-> "gameplay", current |-> TRUE]
           k == prepareSoundChip(s, "gameplay")
<1>1. k = [s EXCEPT !.preps = stale \cup {new}, !.kind = "gameplay", !.queue = <<>>,
                    !.mode = "idle", !.last = None, !.music = None, !.queued = <<>>]
  BY DEF prepareSoundChip
<1>2. \A p \in stale : p.kind = "gameplay"
  BY DEF HostType, PrepType, GameOnly
<1> HIDE DEF stale, k
<1>3. k.preps = stale \cup {new}
  BY <1>1 DEF HostType
<1> QED
  BY <1>2, <1>3 DEF GameOnly, k

LEMMA EnqueuePreps ==
    ASSUME NEW s \in HostType, NEW cmd
    PROVE  enqueueSoundCommand(s, cmd).preps = s.preps
BY DEF enqueueSoundCommand, HostType

LEMMA FrameGameOnly ==
    ASSUME TypeOK, Core(h), GameOnly(h), NEW in \in Inputs, NEW n \in 0..Batch(Led(h, in)),
           h' = [processSoundCoinFrame(submitQueuedSoundCommands(Led(h, in), n))
                    EXCEPT !.level = in.level]
    PROVE  GameOnly(h')
<1> DEFINE s0 == [h EXCEPT !.queued = <<>>, !.sent = <<>>]
           q == h.queue
           Ok(s) == Core(s) /\ Queued(s, q) /\ GameOnly(s)
<1>0. q \in Seq(Commands) /\ h \in HostType /\ <<>> \in Seq(Commands)
  BY DEF TypeOK, HostType
<1>1. Ok(s0)
  <2>1. s0 \in HostType
    BY <1>0 DEF HostType
  <2>2. /\ s0.mode = h.mode /\ s0.kind = h.kind /\ s0.preps = h.preps /\ s0.last = h.last
        /\ s0.music = h.music /\ s0.manual = h.manual /\ s0.coinChip = h.coinChip
        /\ s0.coinLeft = h.coinLeft /\ s0.queued = <<>> /\ s0.queue = q /\ s0.sent = <<>>
    BY <1>0 DEF HostType
  <2> HIDE DEF s0
  <2>3. Core(s0)
    BY <2>1, <2>2
       DEF Core, Base, Tracked, NoStale, HasChip, ForGame, Quiet, Remembered, GameplayActive
  <2>4. q \o <<>> = q
    BY <1>0, ConcatEmptySeq
  <2> QED
    BY <2>2, <2>3, <2>4 DEF Queued, GameOnly
<1> HIDE DEF s0, q
<1>a. \A s : Core(s) => s \in HostType /\ Quiet(s)
  BY DEF Core, Base
<1>b. \A s, k : SameChip(s, k) /\ GameOnly(s) => GameOnly(k)
  BY DEF SameChip, GameOnly
<1>2. \A s : Ok(s) => Ok(coinPulse(s))
  BY <1>a, <1>b, CoinPulse, SameKeeps DEF Core, Base
<1>3. ASSUME NEW s, Ok(s)
      PROVE  Ok(attractReturn(s)) /\ Ok(coinStart(s)) /\ \A p : Ok(gateCheck(s, p))
  <2>1. GameOnly(attractReturn(s))
    <3>1. [s EXCEPT !.manual = FALSE].preps = s.preps
      BY <1>3, <1>a DEF HostType
    <3> QED
      BY <1>3, <3>1 DEF attractReturn, GameOnly
  <2>2. ASSUME s.credits > 0
        PROVE  /\ GameOnly(ensureSoundChip(StartGame(s)))
               /\ GameOnly(transitionSoundChip(StartGame(s)))
    <3>1. Base(StartGame(s))
      BY <1>3, <2>2, GameStarts DEF Core
    <3>2. GameOnly(StartGame(s))
      <4> DEFINE c == s.credits - 1
                 k == [s EXCEPT !.credits = c, !.manual = TRUE]
      <4>1. s \in HostType
        BY <1>3, <1>a DEF Ok
      <4>2. c \in 0..MaxCredits
        BY <4>1, <2>2 DEF HostType
      <4> HIDE DEF c
      <4>3. k \in HostType /\ k.preps = s.preps
        BY <4>1, <4>2 DEF HostType
      <4>4. StartGame(s) = stopSoundCoinPlayback(k)
        BY DEF StartGame, c
      <4> HIDE DEF k
      <4> QED
        BY <1>3, <4>3, <4>4, StopCoin DEF SameChip, GameOnly
    <3> DEFINE g == StartGame(s)
    <3>3. g \in HostType /\ GameOnly(g)
      BY <3>1, <3>2 DEF Base
    <3> HIDE DEF g
    <3>4. GameOnly(ensureSoundChip(g)) /\ GameOnly(transitionSoundChip(g))
      BY <3>3, PreparesGame DEF ensureSoundChip, transitionSoundChip
    <3> QED
      BY <3>4 DEF g
  <2>3. GameOnly(coinStart(s)) /\ \A p : GameOnly(gateCheck(s, p))
    BY <1>3, <2>2 DEF coinStart, gateCheck
  <2> QED
    BY <1>3, <2>1, <2>3, AttractReturns, CoinStart
<1>4. ASSUME NEW s, Ok(s), NEW b
      PROVE  Ok(enqueueSoundMusicService(s, b)) /\ Ok(onCmd(s))
  <2>1. \A c, k : k \in HostType /\ GameOnly(k) => GameOnly(enqueueSoundCommand(k, c))
    BY EnqueuePreps DEF GameOnly
  <2>2. GameOnly(onCmd(s))
    BY <1>4, <1>a, <2>1 DEF onCmd
  <2> DEFINE t == enqueueSoundCommand(s, "service")
  <2>3. ASSUME s.mode # "idle", GameplayActive(s) PROVE t \in HostType
    <3>1. "service" \in Commands
      BY DEF Commands
    <3>2. Core(t)
      BY <1>0, <1>4, <2>3, <3>1, Enqueue
    <3> QED
      BY <1>a, <3>2
  <2>4. enqueueSoundMusicService(s, b)
          = IF ~page.musicService \/ s.mode = "idle" \/ ~GameplayActive(s) THEN s
            ELSE IF b THEN enqueueSoundCommand(t, "beat") ELSE t
    BY DEF enqueueSoundMusicService
  <2>5. GameOnly(t)
    BY <1>4, <1>a, <2>1
  <2> HIDE DEF t
  <2>6. GameOnly(enqueueSoundMusicService(s, b))
    BY <1>4, <2>1, <2>3, <2>4, <2>5
  <2> QED
    BY <1>0, <1>4, <2>2, <2>6, Services
<1> HIDE DEF Ok
<1>5. Ok(BeforeTick(s0, in))
  BY <1>1, <1>2, <1>3, <1>4 DEF BeforeTick, When
<1>6. Ok(Ticked(BeforeTick(s0, in), in))
  BY <1>3, <1>4, <1>5 DEF Ticked, When
<1>7. page.levelMusic => in.level \in Levels
  BY DEF Inputs
<1> DEFINE tk == Ticked(BeforeTick(s0, in), in)
           led == Led(h, in)
           sub == submitQueuedSoundCommands(led, n)
           end == processSoundCoinFrame(sub)
<1>8. led = enqueueSoundLevelMusic(tk, in.level)
  BY DEF Led, s0
<1> HIDE DEF tk
<1>t. Core(tk) /\ Queued(tk, q) /\ GameOnly(tk) /\ tk \in HostType
  BY <1>6, <1>a DEF Ok, tk
<1>9. Core(led) /\ Queued(led, q)
  BY <1>0, <1>t, <1>7, <1>8, LevelMusic
<1>10. GameOnly(led)
  <2> DEFINE e == enqueueSoundCommand(tk, "music")
  <2>1. \A x, y : /\ [e EXCEPT !.last = x, !.music = y].preps = tk.preps
                  /\ [tk EXCEPT !.last = x].preps = tk.preps
    BY <1>t DEF enqueueSoundCommand, HostType
  <2>3. GameOnly(prepareSoundChip(tk, "gameplay"))
    BY <1>t, PreparesGame
  <2> QED
    BY <1>t, <1>8, <2>1, <2>3 DEF enqueueSoundLevelMusic, GameOnly
<1> HIDE DEF led
<1>11. Core(sub) /\ GameOnly(sub)
  <2>1. n \in 0..Batch(led)
    BY DEF led
  <2>2. Core(sub)
    BY <1>9, <2>1, Submits
  <2>3. \A x, y : [led EXCEPT !.queue = x, !.sent = y].preps = led.preps
    BY <1>9, <1>a DEF HostType
  <2>4. sub.preps = led.preps
    BY <2>3 DEF submitQueuedSoundCommands, Submitted
  <2> QED
    BY <1>10, <2>2, <2>4 DEF GameOnly
<1> HIDE DEF sub
<1>12. end \in HostType /\ GameOnly(end)
  BY <1>11, <1>a, <1>b, CoinFrame
<1>13. h' = [end EXCEPT !.level = in.level]
  BY DEF end, sub, led
<1> HIDE DEF end
<1>14. h'.preps = end.preps
  BY <1>12, <1>13 DEF HostType
<1> QED
  BY <1>12, <1>14 DEF GameOnly

LEMMA GameOnlyStays == IInv /\ [Next]_vars => (GameOnly(h) => GameOnly(h)')
<1> SUFFICES ASSUME IInv, [Next]_vars, GameOnly(h) PROVE GameOnly(h')
  BY DEF GameOnly
<1>0. TypeOK /\ Core(h) /\ h \in HostType /\ Quiet(h)
  BY DEF IInv, TypeOK, Core, Base
<1>1. CASE Frame
  BY <1>0, <1>1, FrameGameOnly DEF Frame
<1>2. CASE prepareEnds
  <2>1. PICK p \in h.preps : h' = Installed(h, p)
    BY <1>2 DEF prepareEnds
  <2>2. Installed(h, p).preps = h.preps \ {p}
    BY <1>0 DEF Installed, HostType
  <2> QED
    BY <2>1, <2>2 DEF GameOnly
<1>3. CASE coinPrepareEnds
  BY <1>0, <1>3, CoinEnds DEF coinPrepareEnds, SameChip, GameOnly
<1>4. CASE coinPrepareFails
  <2>1. h'.preps = h.preps
    BY <1>0, <1>4 DEF coinPrepareFails, HostType
  <2> QED
    BY <2>1 DEF GameOnly
<1>5. CASE startSoundRenderer \/ UNCHANGED vars
  BY <1>5 DEF startSoundRenderer, vars
<1> QED
  BY <1>1, <1>2, <1>3, <1>4, <1>5 DEF Next

Waits == GameplayActive(h) /\ h.mode # "gameplay"

(* While a game waits its own preparation is under way, and the end of one  *)
(* is the end of its own or leaves its own alone.                           *)
LEMMA WaitsFor ==
    ASSUME IInv, Waits
    PROVE  /\ h.preps # {}
           /\ prepareEnds => \/ h'.mode = "gameplay"
                             \/ ~GameOnly(h) /\ GameOnly(h')
<1>0. Core(h) /\ h \in HostType /\ h.preps \subseteq PrepType
  BY DEF IInv, TypeOK, Core, Base, HostType
<1> DEFINE g == [kind |-> "gameplay", current |-> TRUE]
           a == [kind |-> "attract", current |-> FALSE]
<1>1. h.kind = "gameplay" /\ g \in h.preps
  BY DEF Waits, IInv, Core, HasChip, Base, Tracked
<1>2. ASSUME NEW p \in h.preps PROVE p = g \/ p = a
  <2>1. p \in PrepType /\ (p.current => p.kind = "gameplay") /\ (p.kind = "gameplay" => p.current)
    BY <1>0, <1>1 DEF Core, Base, Tracked, NoStale
  <2> QED
    BY <2>1 DEF PrepType
<1>3. ASSUME prepareEnds PROVE h'.mode = "gameplay" \/ (~GameOnly(h) /\ GameOnly(h'))
  <2>1. PICK p \in h.preps : h' = Installed(h, p)
    BY <1>3 DEF prepareEnds
  <2>2. CASE p = g
    BY <1>0, <2>1, <2>2 DEF Installed, HostType
  <2>3. CASE p = a
    <3>1. h'.preps = h.preps \ {p}
      BY <1>0, <2>1 DEF Installed, HostType
    <3>2. ~GameOnly(h)
      BY <2>1, <2>3 DEF GameOnly
    <3>3. \A r \in h'.preps : r = g
      BY <1>2, <2>3, <3>1
    <3>4. GameOnly(h')
      BY <3>3 DEF GameOnly
    <3> QED
      BY <3>2, <3>4
  <2> QED
    BY <1>2, <2>2, <2>3
<1> QED
  BY <1>1, <1>3

(* A game that has no chip yet gets one, or ends first, however often START *)
(* and the returns to the attract mode fall between the preparations.       *)
THEOREM GameIsServed == Spec /\ []PreparationMayEnd => GameGetsChip
<1> DEFINE Active == GameplayActive(h)
           Live == h.mode = "gameplay"
           Only == GameOnly(h)
           Some == h.preps # {}
<1>1. IInv /\ Active /\ ~Live => Some
  BY WaitsFor DEF Waits
<1>2. IInv /\ Active /\ ~Live /\ Only /\ prepareEnds => Live'
  BY WaitsFor DEF Waits
<1>3. IInv /\ Active /\ ~Live /\ prepareEnds => Live' \/ Only'
  BY WaitsFor DEF Waits, GameOnly
<1>4. IInv /\ [Next]_vars => (Only => Only')
  BY GameOnlyStays
<1>5. <<prepareEnds>>_vars => prepareEnds
  OBVIOUS
<1> HIDE DEF Active, Live, Only, Some
<1>6. Spec /\ [](Some => ENABLED <<prepareEnds>>_vars) => (Active ~> (Live \/ ~Active))
  BY <1>1, <1>2, <1>3, <1>4, <1>5, Invariant, PTL DEF Spec, Fairness
<1> QED
  BY <1>6 DEF PreparationMayEnd, GameGetsChip, Active, Live, Some
=============================================================================
