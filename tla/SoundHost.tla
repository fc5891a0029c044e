----------------------------- MODULE SoundHost -----------------------------
(***************************************************************************)
(* The sound side of the browser program (web/src/main.ts): the live       *)
(* SoundChip, the chip that plays the coin jingle, both prepared by        *)
(* asynchronous functions, and the queue that carries the engine's sound   *)
(* commands to the live chip.  A ticker callback runs to its end before    *)
(* any promise continues, so one frame is one action, and so is the end of *)
(* a preparation.                                                          *)
(*                                                                         *)
(* The record h holds the variables of main.ts; mode is soundChipMode, and *)
(* since soundChip is undefined exactly when the mode is "idle" it stands  *)
(* for both.  A preparation keeps `current' in place of its generation     *)
(* number: a newer preparation clears it.  The fields after the comment    *)
(* "history" are not in the program.                                       *)
(***************************************************************************)
EXTENDS Integers, Sequences

CONSTANTS Pages,         \* the URL parameters considered, see PageType
          MaxPerFrame,   \* soundMaxCommandsPerFrame
          CoinFrames,    \* soundCoinPlayFrames
          MaxCredits,    \* 9
          Levels,        \* level indexes
          QueueBound     \* bound: commands left in the queue after a frame

PageType ==
    [flow : {"coinStart", "bootFlow", "seed"},  \* how the page comes to a game
     attractSound : BOOLEAN,                    \* soundAttractEnabled
     coinSound : BOOLEAN,                       \* soundCoinEnabled
     musicService : BOOLEAN,                    \* soundMusicServiceEnabled
     levelMusic : BOOLEAN,                      \* soundLevelMusicEnabled
     levelHandoff : BOOLEAN]                    \* soundLevelHandoffEnabled

MusicLevels == Levels \cap 0..5

ASSUME HostAssumption ==
    /\ Pages \subseteq PageType
    /\ MaxPerFrame \in Nat \ {0} /\ CoinFrames \in Nat \ {0} /\ MaxCredits \in Nat
    /\ Levels \subseteq Nat /\ QueueBound \in Nat

VARIABLES page,      \* the parameters of this page
          h,         \* its sound variables
          renderer   \* soundRenderer is running

vars == <<page, h, renderer>>

None == -1
Commands == {"service", "beat", "live", "music"}
PrepType == [kind : {"attract", "gameplay"}, current : BOOLEAN]
HostType ==
    [mode : {"idle", "attract", "gameplay"},      \* soundChipMode, soundChip
     kind : {"none", "attract", "gameplay"},      \* soundChipPrepareKind
     preps : SUBSET PrepType,                     \* preparations awaiting
     queue : Seq(Commands),                       \* soundCommandQueue
     last : Levels \cup {None},                   \* lastSoundLevelMusicIndex
     manual : BOOLEAN,                            \* manualPlayStarted
     credits : 0..MaxCredits,                     \* browserCoinCredits
     coinChip : BOOLEAN,                          \* soundCoinChip is defined
     coinTape : BOOLEAN,                          \* soundCoinTape is defined
     coinPreparing : BOOLEAN,
     coinRequested : BOOLEAN,
     coinLeft : 0..CoinFrames,                    \* soundCoinFramesRemaining
     \* history:
     level : Levels \cup {None},                  \* of the chip's last frame
     music : Levels \cup {None},                  \* last level command queued for the chip
     owed : BOOLEAN,                              \* a coin that was not heard yet
     queued : Seq(Commands), sent : Seq(Commands)]\* in the last frame

Flows == page.flow \in {"coinStart", "bootFlow"}
GameplayActive(s) == IF Flows THEN s.manual ELSE TRUE
AttractActive(s) == page.attractSound /\ Flows /\ ~s.manual

-----------------------------------------------------------------------------
(* Preparing the live chip.                                                *)

\* mutant: the commands for the old chip stay queued
prepareSoundChipKeepsQueue(s, k) ==
    [s EXCEPT !.preps = {[p EXCEPT !.current = FALSE] : p \in @}
                            \cup {[kind |-> k, current |-> TRUE]},
              !.kind = k, !.mode = "idle",
              !.last = None, !.music = None, !.queued = <<>>]

prepareSoundChip(s, k) ==
    [s EXCEPT !.preps = {[p EXCEPT !.current = FALSE] : p \in @}
                            \cup {[kind |-> k, current |-> TRUE]},
              !.kind = k, !.queue = <<>>, !.mode = "idle",
              !.last = None, !.music = None, !.queued = <<>>]

\* mutant: does not look at the preparation under way
ensureSoundChipTwice(s) ==
    IF s.mode = "gameplay" THEN s ELSE prepareSoundChip(s, "gameplay")

\* mutant: waits for a preparation of the other kind as well
ensureSoundChipAnyKind(s) ==
    IF s.mode = "gameplay" \/ s.kind # "none" THEN s
    ELSE prepareSoundChip(s, "gameplay")

ensureSoundChip(s) ==
    IF s.mode = "gameplay" \/ s.kind = "gameplay" THEN s
    ELSE prepareSoundChip(s, "gameplay")

\* mutant: a live chip is kept, whatever it plays
transitionSoundChipKept(s) ==
    IF s.mode = "attract" THEN s ELSE ensureSoundChip(s)

transitionSoundChip(s) ==
    IF s.mode = "attract" THEN prepareSoundChip(s, "gameplay") ELSE ensureSoundChip(s)

\* mutant: no comparison of the generations after the await
InstalledAnyway(s, p) ==
    [s EXCEPT !.preps = @ \ {p}, !.mode = p.kind, !.kind = "none",
              !.last = IF p.kind = "gameplay" THEN None ELSE @,
              !.music = None, !.level = None]

\* the end of a preparation; tape or no tape, a chip comes out of it
Installed(s, p) ==
    IF ~p.current THEN [s EXCEPT !.preps = @ \ {p}]
    ELSE [s EXCEPT !.preps = @ \ {p}, !.mode = p.kind, !.kind = "none",
                   !.last = IF p.kind = "gameplay" THEN None ELSE @,
                   !.music = None, !.level = None]

-----------------------------------------------------------------------------
(* The coin chip.                                                          *)

prepareSoundCoinChip(s) ==
    IF ~page.coinSound \/ s.coinPreparing \/ s.coinChip THEN s
    ELSE [s EXCEPT !.coinPreparing = TRUE]

triggerSoundCoin(s) ==
    LET asked == [s EXCEPT !.coinRequested = TRUE, !.owed = @ \/ ~s.manual]
    IN  IF ~s.coinChip \/ s.coinLeft > 0 THEN prepareSoundCoinChip(asked)
        ELSE [asked EXCEPT !.coinRequested = FALSE, !.coinLeft = CoinFrames, !.owed = FALSE]

stopSoundCoinPlayback(s) ==
    [s EXCEPT !.coinRequested = FALSE, !.coinLeft = 0, !.coinChip = FALSE, !.owed = FALSE]

\* mutant: does not ask whether a game has begun meanwhile
CoinPreparedAnyway(s) ==
    [s EXCEPT !.coinTape = TRUE, !.coinPreparing = FALSE, !.coinChip = TRUE,
              !.coinRequested = FALSE, !.owed = FALSE,
              !.coinLeft = IF s.coinRequested THEN CoinFrames ELSE @]

CoinPrepared(s) ==
    LET loaded == [s EXCEPT !.coinTape = TRUE, !.coinPreparing = FALSE]
    IN  IF s.manual THEN loaded
        ELSE [loaded EXCEPT !.coinChip = TRUE, !.coinRequested = FALSE, !.owed = FALSE,
                            !.coinLeft = IF s.coinRequested THEN CoinFrames ELSE @]

processSoundCoinFrame(s) ==
    IF ~s.coinChip \/ ~s.coinTape \/ s.coinLeft = 0 \/ ~renderer THEN s
    ELSE IF s.manual THEN stopSoundCoinPlayback(s)
    ELSE IF s.coinLeft > 1 THEN [s EXCEPT !.coinLeft = @ - 1]
    ELSE prepareSoundCoinChip([s EXCEPT !.coinLeft = 0, !.coinChip = FALSE])

-----------------------------------------------------------------------------
(* The command queue.                                                      *)

enqueueSoundCommand(s, cmd) ==
    [s EXCEPT !.queue = Append(@, cmd), !.queued = Append(@, cmd)]

enqueueSoundMusicService(s, beat) ==
    IF ~page.musicService \/ s.mode = "idle" \/ ~GameplayActive(s) THEN s
    ELSE LET tick == enqueueSoundCommand(s, "service")
         IN  IF beat THEN enqueueSoundCommand(tick, "beat") ELSE tick

onCmd(s) ==
    IF s.mode = "idle" \/ ~GameplayActive(s) THEN s ELSE enqueueSoundCommand(s, "live")

shouldHandoff(s, l) == page.levelHandoff /\ s.last # None /\ l > 0 /\ l # s.last

\* mutant: a level is only ever followed by a higher one
LevelMusicHigher(s, l) ==
    IF ~page.levelMusic \/ s.mode = "idle" \/ ~GameplayActive(s) \/ l <= s.last THEN s
    ELSE IF shouldHandoff(s, l) THEN prepareSoundChip(s, "gameplay")
    ELSE IF l \in MusicLevels
         THEN [enqueueSoundCommand(s, "music") EXCEPT !.last = l, !.music = l]
         ELSE [s EXCEPT !.last = l]

enqueueSoundLevelMusic(s, l) ==
    IF ~page.levelMusic \/ s.mode = "idle" \/ ~GameplayActive(s) \/ l = s.last THEN s
    ELSE IF shouldHandoff(s, l) THEN prepareSoundChip(s, "gameplay")
    ELSE IF l \in MusicLevels
         THEN [enqueueSoundCommand(s, "music") EXCEPT !.last = l, !.music = l]
         ELSE [s EXCEPT !.last = l]

Batch(s) == IF Len(s.queue) < MaxPerFrame THEN Len(s.queue) ELSE MaxPerFrame

\* mutant: the command that met a full mailbox is not put back
SubmittedLosing(s, n) ==
    [s EXCEPT !.queue = IF n = Batch(s) THEN SubSeq(@, n + 1, Len(@))
                        ELSE SubSeq(@, n + 2, Len(@)),
              !.sent = SubSeq(s.queue, 1, n)]

\* the chip takes n commands of the batch and its mailbox is full at the next
Submitted(s, n) ==
    [s EXCEPT !.queue = SubSeq(@, n + 1, Len(@)), !.sent = SubSeq(s.queue, 1, n)]

ChipRuns(s) == \/ s.mode = "attract" /\ AttractActive(s)
               \/ s.mode = "gameplay" /\ GameplayActive(s)

submitQueuedSoundCommands(s, n) ==
    IF ChipRuns(s) THEN Submitted(s, n) ELSE s
-----------------------------------------------------------------------------
(* One frame: the ticker callback.                                         *)

coinPulse(s) ==
    LET paid == [s EXCEPT !.credits = IF @ < MaxCredits THEN @ + 1 ELSE @]
    IN  IF page.coinSound THEN triggerSoundCoin(paid) ELSE paid

\* the attract mode has come back and the coin/start flow is armed again
attractReturn(s) ==
    IF page.flow = "coinStart" /\ s.manual THEN [s EXCEPT !.manual = FALSE] ELSE s

StartGame(s) == stopSoundCoinPlayback([s EXCEPT !.credits = @ - 1, !.manual = TRUE])

coinStart(s) ==
    IF page.flow = "coinStart" /\ ~s.manual /\ s.credits > 0
    THEN ensureSoundChip(StartGame(s)) ELSE s

\* tick's gateCheck, called with a count of one or two players
gateCheck(s, players) ==
    IF page.flow = "bootFlow" /\ players = 1 /\ s.credits > 0
    THEN transitionSoundChip(StartGame(s)) ELSE s

When(happens, after, s) == IF happens THEN after ELSE s

BeforeTick(s, in) ==
    LET paid    == When(in.coin /\ Flows, coinPulse(s), s)
        armed   == When(in.ready, attractReturn(paid), paid)
        started == When(in.start, coinStart(armed), armed)
    IN  enqueueSoundMusicService(started, in.beat)

\* the engine may call the command hook before and after it calls the gate
Ticked(s, in) ==
    LET early == When(in.early, onCmd(s), s)
        gated == When(in.players > 0, gateCheck(early, in.players), early)
    IN  When(in.late, onCmd(gated), gated)

\* the state in which the chip is given its commands
Led(s, in) ==
    enqueueSoundLevelMusic(
        Ticked(BeforeTick([s EXCEPT !.queued = <<>>, !.sent = <<>>], in), in), in.level)

Maybe(b) == IF b THEN BOOLEAN ELSE {FALSE}

\* what one callback finds; an input that its page never reads is left out
Inputs == [coin : Maybe(Flows), ready : Maybe(page.flow = "coinStart"),
           start : Maybe(page.flow = "coinStart"), beat : Maybe(page.musicService),
           early : BOOLEAN, players : IF page.flow = "bootFlow" THEN 0..2 ELSE {0},
           late : BOOLEAN, level : IF page.levelMusic THEN Levels ELSE {None}]

Frame ==
    \E in \in Inputs :
        LET led == Led(h, in)
        IN  \E n \in 0..Batch(led) :
                /\ h' = [processSoundCoinFrame(submitQueuedSoundCommands(led, n))
                            EXCEPT !.level = in.level]
                /\ Len(h'.queue) <= QueueBound
                /\ UNCHANGED <<page, renderer>>

-----------------------------------------------------------------------------
(* What happens between the frames.                                        *)

prepareEnds ==
    /\ \E p \in h.preps : h' = Installed(h, p)
    /\ UNCHANGED <<page, renderer>>

coinPrepareEnds ==
    /\ h.coinPreparing
    /\ h' = CoinPrepared(h)
    /\ UNCHANGED <<page, renderer>>

\* a tape that is loaded is not fetched again
coinPrepareFails ==
    /\ h.coinPreparing /\ ~h.coinTape
    /\ h' = [h EXCEPT !.coinPreparing = FALSE, !.owed = FALSE]
    /\ UNCHANGED <<page, renderer>>

startSoundRenderer ==
    /\ ~renderer /\ renderer' = TRUE
    /\ UNCHANGED <<page, h>>

\* the page before its first preparations
Loaded ==
    [mode |-> "idle", kind |-> "none", preps |-> {}, queue |-> <<>>, last |-> None,
     manual |-> FALSE, credits |-> 0, coinChip |-> FALSE, coinTape |-> FALSE,
     coinPreparing |-> FALSE, coinRequested |-> FALSE, coinLeft |-> 0,
     level |-> None, music |-> None, owed |-> FALSE, queued |-> <<>>, sent |-> <<>>]

FirstPrepared ==
    IF ~Flows THEN prepareSoundChip(Loaded, "gameplay")
    ELSE IF page.attractSound THEN prepareSoundCoinChip(prepareSoundChip(Loaded, "attract"))
    ELSE prepareSoundCoinChip(Loaded)

Init == page \in Pages /\ h = FirstPrepared /\ renderer = FALSE

Next ==
    \/ Frame
    \/ prepareEnds \/ coinPrepareEnds \/ coinPrepareFails
    \/ startSoundRenderer

(* A preparation ends, in success or failure, and frames keep coming.  Of  *)
(* frames only those that play the jingle are assumed: fairness of all     *)
(* those that change something would make the user insert coins.           *)
Fairness ==
    /\ WF_vars(prepareEnds) /\ WF_vars(coinPrepareEnds \/ coinPrepareFails)
    /\ WF_<<h.coinLeft>>(h.coinLeft > 0 /\ Frame)

Spec == Init /\ [][Next]_vars /\ Fairness
-----------------------------------------------------------------------------
(* The fields keep their types (main.ts:1645-1651, 1711-1716).             *)
TypeOK == page \in Pages /\ h \in HostType /\ renderer \in BOOLEAN

(* soundChipPrepareKind is the kind of the one preparation that may still  *)
(* install a chip, and is reset with it: a kind left behind would make     *)
(* ensureSoundChipForGameplay wait for a chip that never comes.            *)
PreparationIsTracked ==
    /\ \A p \in h.preps : p.current => p.kind = h.kind
    /\ h.kind # "none" => [kind |-> h.kind, current |-> TRUE] \in h.preps
    /\ h.mode # "idle" => h.kind = "none"

(* No preparation of a gameplay chip is ever overtaken.  It matters since  *)
(* prewarmSoundChipFromTape writes soundServiceFrame before the generation *)
(* is compared: one overtaken would reset the music clock of a live game.  *)
NoStalePrewarm == \A p \in h.preps : p.kind = "gameplay" => p.current

(* A game has its chip or has one coming; the attract chip never plays in  *)
(* it, however START falls between the preparations.                       *)
GameHasChip == GameplayActive(h) => "gameplay" \in {h.mode, h.kind}

(* Nothing waits for a chip that is not a gameplay chip: no command of an  *)
(* old chip reaches a new one.                                             *)
QueueIsForGame == h.mode # "gameplay" => h.queue = <<>>

(* The jingle does not play in a game: START stops it and drops its chip,  *)
(* also the one whose preparation ends after START.                        *)
CoinQuietInGame == h.manual => ~h.coinChip /\ h.coinLeft = 0

(* After each frame of a game the last level music given to the chip is    *)
(* that of the level being played, over handoffs, returns to the attract   *)
(* mode and further games.                                                 *)
MusicFollowsLevel ==
    page.levelMusic /\ GameplayActive(h) /\ h.mode = "gameplay" /\ h.level \in MusicLevels
        => h.music = h.level

(* Backpressure keeps the order: what was queued before and in a frame is  *)
(* what the chip took in it followed by what is queued after it, unless a  *)
(* new chip is being prepared.                                             *)
CommandsInOrder ==
    [][h'.mode = "gameplay" => h.queue \o h'.queued = h'.sent \o h'.queue
      ]_<<h.queue, h.queued, h.sent>>

(* A game gets its chip, unless it ends first; and a coin inserted outside *)
(* a game is heard, also one inserted during the jingle or its             *)
(* preparation, unless a game begins or the tape fails.  (A preparation    *)
(* under way may end, and its end is a change.)                            *)
GameGetsChip == GameplayActive(h) ~> (h.mode = "gameplay" \/ ~GameplayActive(h))
CoinIsHeard  == (renderer /\ h.owed) ~> ~h.owed
PreparationMayEnd == h.preps # {} => ENABLED <<prepareEnds>>_vars
SoundIsServed == []PreparationMayEnd /\ GameGetsChip /\ CoinIsHeard
=============================================================================
