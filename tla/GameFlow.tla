------------------------------ MODULE GameFlow ------------------------------
(***************************************************************************)
(* The flow of the game: attract mode, START, levels, game over.           *)
(*                                                                         *)
(* The 68010 program is one thread with waits in it.  The port has no      *)
(* thread: what the program does between two waits is a stage counter of   *)
(* state.clock that mainTick advances once a frame, and while a counter    *)
(* is set the dispatcher of the main loop does not run.  The state word    *)
(* 0x400390 says what the dispatcher does; six places write it.            *)
(*                                                                         *)
(* The record s holds the words of work RAM and the counters; the fields   *)
(* after the comment "history" are not in the program.  One frame is one   *)
(* action: an operator with a capital stands for the set of the states it  *)
(* can lead to, since marbles, buttons and cycle counts are not modelled.  *)
(* One player.                                                             *)
(***************************************************************************)
EXTENDS Integers

CONSTANTS Flows,       \* the page's ways into a game, see FlowNames
          FirstLevel,  \* of a new game, a byte of the ROM
          LastLevel,   \* 5
          Extra,       \* LEVEL_EXTRA_TIME: seconds that a level adds
          Intro,       \* [scroll: 60, step: 5, every: 10, clear: 61]
          Digits,      \* reset of the clock's digits, [medium: 9, inner: 5]
          Waits,       \* [level: 0x28, timeout: 0xb4, final: 0xb4]
          Dwells,      \* of the tables, [shown: 0x12c, over: 0x96, summary: 0xc8]
          StepStage,   \* 5: stage in which a demo's segment is chosen
          Mode2Last,   \* 8: last stage of a mode-2 reset
          Demo,        \* the stages of each segment's demo, see DemoType
          LongLast,    \* 1024: last stage of every demo but segment 3's
          DemoTime,    \* [all: 60, four: 45], and [second: 60] stages a second
          Seeds,       \* games the coin flow loads, see SeedType
          MaxTime      \* bound: time bonuses do not go beyond it

(* "coin": a START loads a game over the attract mode.  In the others it   *)
(* goes through the gate; "held": the tables leave the playfield blank     *)
(* enough for the page to hold the body there until START is accepted.     *)
FlowNames == {"boot", "held", "coin"}
Levels == 0..LastLevel
None == -1   \* undefined, of a counter
Off == -1    \* 0xff in the clock's inner digit: parked

(* The stages that initialise the level (TRUE: level 0), the first that    *)
(* shows the demo, the last, and the first with a clock.                   *)
DemoType == [init : [BOOLEAN -> SUBSET Nat], from : Nat, last : Nat,
             clock : Nat \cup {None}]
SeedType == [mode : 0..3, level : Levels, seg : 0..7, dwell : Nat, slot : 0..3,
             type : {0, 6, 8}, sec : Nat, medium : 0..Digits.medium,
             inner : 0..Digits.inner \cup {Off}, odd : BOOLEAN]

ASSUME FlowAssumption ==
    /\ Flows \subseteq FlowNames
    /\ LastLevel \in Nat /\ LastLevel % 2 = 1 /\ FirstLevel \in Levels
    /\ Extra \in [Levels -> Nat]
    /\ Intro \in [scroll : Nat, step : Nat \ {0}, every : Nat \ {0}, clear : Nat]
    /\ Digits \in [medium : Nat, inner : Nat]
    /\ Waits \in [level : Nat, timeout : Nat, final : Nat]
    /\ Dwells \in [shown : Nat \ {0}, over : Nat \ {0}, summary : Nat \ {0}]
    /\ StepStage \in Nat /\ Mode2Last \in Nat \ {0}
    /\ Demo \in [0..7 -> DemoType] /\ LongLast \in Nat
    /\ \A g \in 0..7 : Demo[g].last <= LongLast /\ (g # 3 => Demo[g].last = LongLast)
    /\ DemoTime \in [all : Nat, four : Nat, second : Nat \ {0}]
    /\ Seeds \subseteq SeedType /\ MaxTime \in Nat

(* The level of a demo is initialised after the step to its segment and    *)
(* before the marble moves, or (segment 5) in the frame in which it first  *)
(* does; a demo shows level 0 or 1, and these are not the last.  Segment   *)
(* 3's demo is over long before the last stages of the others.             *)
ASSUME StagesAssumption ==
    /\ LastLevel > 1
    /\ \A g \in 0..7 : Demo[g].last # LongLast => Demo[g].last < LongLast - 2
    /\ \A g \in 0..7, zero \in BOOLEAN :
          LET init == Demo[g].init[zero]
          IN  /\ init # {} /\ \A i \in init : StepStage < i /\ i <= Demo[g].from
              /\ Demo[g].from < Demo[g].last - 4

(* The clock of a demo has time for the pages after it, whose bodies come  *)
(* every second frame, and two frames are left of a clock with no second.  *)
PerSecond == (Digits.medium + 1) * (Digits.inner + 1)
DemoSeconds(g) ==
    {IF g = 4 THEN DemoTime.four ELSE DemoTime.all} \cup
    (IF Demo[g].clock = None THEN {}
     ELSE {DemoTime.all - ((LongLast - Demo[g].clock) \div DemoTime.second)})
PagesAfter(g) == 2 * (Dwells.shown + IF g = 7 THEN Dwells.summary ELSE 0)
ASSUME DemoTimeLasts ==
    /\ Digits.medium * (Digits.inner + 1) + Digits.inner >= 2
    /\ \A g \in 0..7 \ {3} : \A sec \in DemoSeconds(g) : sec * PerSecond >= PagesAfter(g)

(* A level's extra time comes in whole steps, all before its banner goes.  *)
ASSUME ExtraComesInTime ==
    \A l \in Levels : LET steps == Extra[l] \div Intro.step
                      IN  /\ Extra[l] = steps * Intro.step
                          /\ (steps - 1) * Intro.every < Intro.clear + Extra[l]

(* The games the pages load are at the start of a level or under way.      *)
ASSUME SeedsAssumption ==
    \A g \in Seeds : g.slot = 1 /\ g.type = 0 /\ (g.inner = Off \/ g.sec > 0)

VARIABLES flow,  \* the flow of this page
          s      \* the game

vars == <<flow, s>>

GameType ==
    [word : 0..6,                 \* 0x390
     mode : 0..3,                 \* 0x392, the page of the attract mode
     level : Nat,                 \* 0x394
     seg : 0..7,                  \* 0x3e4, the segment of the attract mode
     dwell : Nat,                 \* 0x75a
     slot : 0..3,                 \* obj+0x18: 0 none, 1 plays, 2 timed out, 3 left
     type : {0, 6, 8},            \* obj+0x1a: 6 carried off, 8 bonus time, 0 others
     sec : Nat,                   \* obj+0x6a, the clock and its lower digits
     medium : 0..Digits.medium, inner : 0..Digits.inner \cup {Off},
     latch : BOOLEAN,             \* bit 0 of 0x3ac: START fell
     odd : BOOLEAN,               \* mainLoopBodyTicks & 1
     m0 : Nat \cup {None},        \* mode0Init11452Stage
     m2 : 0..Mode2Last \cup {None}, \* mode2Init11452Stage
     hud : {0, 1, None}, blit : {0, 1, None},    \* mode2BottomHud-, -TilemapBlitDelay
     wait : Nat \cup {None},      \* mainThreadWaitDelay
     pending : BOOLEAN,           \* levelEndScoreResumePending
     scroll : Nat \cup {None},    \* levelIntroScrollResumeTick
     banner : Nat \cup {None},    \* levelIntroBannerResumeTick
     base : Nat \cup {None},      \* levelIntroBannerBaseTimer
     entry : BOOLEAN,             \* highScoreInitialsEntry
     manual : BOOLEAN,            \* manualPlayStarted of the page
     \* history:
     stale : BOOLEAN,             \* the latched START is from before this attract
     earned : [time : Nat \cup {None}, level : Int], \* at this game's last goal
     cut : BOOLEAN]               \* a coin start came while a counter was set

-----------------------------------------------------------------------------
(* Who holds the main thread.                                              *)

InDemo(t) == t.m0 # None /\ t.m0 >= Demo[t.seg].from /\ t.m0 < Demo[t.seg].last - 4

Counters == {"m2", "hud", "wait", "scroll", "banner"}
\* mutant: the wait does not hold the thread
HeldButWait(t) == t.entry \/ \E c \in Counters \ {"wait"} : t[c] # None
Held(t) == t.entry \/ \E c \in Counters : t[c] # None
Busy(t) == Held(t) \/ t.m0 # None

\* mutant: the whole reset of a demo lets the dispatcher run
BlockedNotByMode0(t) == Held(t)
Blocked(t) == Held(t) \/ (t.m0 # None /\ ~InDemo(t))

\* but for the count of bytes in the playfield, see FlowNames and Rearmed
isCoinStartAttractReady(t) ==
    /\ t.word = 1 /\ t.mode <= 2 /\ t.dwell > 0
    /\ t.m0 = None /\ t.blit = None /\ \A c \in Counters : t[c] = None

-----------------------------------------------------------------------------
(* The clock of the player.                                                *)

Parked(t) == [t EXCEPT !.inner = Off]
Expired(t) == [t EXCEPT !.slot = 2, !.sec = 0, !.medium = 0, !.inner = Off, !.word = 4]

tickCascadingTimer(t) ==
    IF t.inner = Off THEN t
    ELSE IF t.inner > 0 THEN [t EXCEPT !.inner = @ - 1]
    ELSE IF t.medium > 0 THEN [t EXCEPT !.inner = Digits.inner, !.medium = @ - 1]
    ELSE IF t.sec > 0
    THEN [t EXCEPT !.inner = Digits.inner, !.medium = Digits.medium, !.sec = @ - 1]
    ELSE Expired(t)

Segment3Dwell(t) == t.word = 1 /\ t.mode = 2 /\ t.seg = 3

\* mutant: ticks while a counter holds the thread
gameTickTimersAlways(t) ==
    IF t.type = 8 THEN t ELSE tickCascadingTimer(t)

gameTickTimers(t) ==
    IF Busy(t) \/ Segment3Dwell(t) \/ t.word = 5 \/ t.type = 8 THEN t
    ELSE tickCascadingTimer(t)

-----------------------------------------------------------------------------
(* START.                                                                  *)

gameMainGate(t, falls, credit) ==
    IF ~(t.latch \/ falls) THEN t
    ELSE IF t.word # 1 THEN [t EXCEPT !.latch = TRUE, !.stale = TRUE]
    ELSE IF ~credit THEN [t EXCEPT !.latch = FALSE, !.stale = FALSE]
    ELSE [t EXCEPT !.latch = FALSE, !.stale = FALSE, !.word = 5, !.manual = TRUE]

\* the coin flow counts its coins itself
Credits == IF flow = "coin" THEN {FALSE} ELSE BOOLEAN
Gated(t) == {gameMainGate(t, falls, credit) : falls \in BOOLEAN, credit \in Credits}

-----------------------------------------------------------------------------
(* A level: the marble, its start, its intro.                              *)

gameModePrep(t) == [t EXCEPT !.slot = 3, !.type = 6]

mainLoopInit10504(t) ==
    IF t.slot # 3 THEN [t EXCEPT !.slot = 0]
    ELSE [t EXCEPT !.slot = 1, !.type = 0, !.sec = IF t.level < 2 THEN 0 ELSE @,
                   !.medium = Digits.medium, !.inner = Digits.inner]

presentationInit10504(t) ==
    LET made == mainLoopInit10504(t)
    IN  IF t.word # 1 THEN made
        ELSE [made EXCEPT !.sec = IF t.seg = 4 THEN DemoTime.four ELSE DemoTime.all]

armLevelIntroScroll(t, time) ==
    [t EXCEPT !.sec = time, !.base = time, !.scroll = 0, !.banner = None,
              !.medium = Digits.medium, !.inner = Off]

NoIntro(t) == [t EXCEPT !.scroll = None, !.banner = None, !.base = None]

armLevelIntroBanner(t) ==
    IF t.level \notin Levels THEN NoIntro(t)
    ELSE [t EXCEPT !.sec = t.base, !.scroll = None, !.banner = 0,
                   !.medium = Digits.medium, !.inner = Off]

AddsStep(tick, extra) ==
    (tick - 1) % Intro.every = 0 /\ (tick - 1) \div Intro.every < extra \div Intro.step

\* mutant: the clock stays parked
HandedOverParked(t) == NoIntro([t EXCEPT !.word = 0])
HandedOver(t) == NoIntro([t EXCEPT !.word = 0, !.inner = Digits.inner])

advanceBanner(t) ==
    LET tick == t.banner + 1
        extra == Extra[t.level]
        added == [t EXCEPT !.banner = tick,
                           !.sec = IF AddsStep(tick, extra) THEN @ + Intro.step ELSE @]
    IN  IF tick >= Intro.clear + extra THEN HandedOver(added) ELSE added

WarmSeed(t) == t.word = 0 /\ t.mode = 0 /\ t.seg = 2 /\ t.slot = 1 /\ t.type = 0
               /\ t.medium = Digits.medium /\ t.inner = Off

\* fresh: in the first frame after a warm start whose banner is still there
advanceLevelIntro(t, fresh) ==
    IF t.scroll # None
    THEN IF t.scroll + 1 < Intro.scroll THEN [t EXCEPT !.scroll = @ + 1]
         ELSE armLevelIntroBanner(t)
    ELSE IF t.banner # None
    THEN IF t.level \in Levels THEN advanceBanner(t) ELSE NoIntro(t)
    ELSE IF fresh /\ WarmSeed(t) THEN [t EXCEPT !.base = t.sec, !.scroll = 0]
    ELSE t

-----------------------------------------------------------------------------
(* refreshFrame: the marble plays, in a game or in a demo.                 *)

GoalReached(t) ==
    [Parked(t) EXCEPT
        !.type = 6,
        !.earned = IF t.word = 0 THEN [time |-> t.sec, level |-> t.level] ELSE @]

Moved(t) ==
    {t} \cup
    CASE t.slot = 1 /\ t.type = 0 -> {GoalReached(t), [t EXCEPT !.type = 8]}
      [] t.slot = 1 /\ t.type = 8 ->
            {[t EXCEPT !.type = 0], [t EXCEPT !.sec = IF @ < MaxTime THEN @ + 1 ELSE @]}
      [] t.slot \in {1, 3} /\ t.type = 6 -> {[t EXCEPT !.slot = 3]}
      [] OTHER -> {}

objectScanDispatch(t) ==
    IF t.slot = 3 /\ t.word # 1 THEN [t EXCEPT !.word = 3] ELSE t

RefreshFrame(t) == {objectScanDispatch(m) : m \in Moved(t)}

-----------------------------------------------------------------------------
(* The staged resets of the attract mode.                                  *)

startMode2(t) == [t EXCEPT !.m2 = 0]
startMode0(t) == [t EXCEPT !.m0 = 0]

updateMode0Timer(t) ==
    LET first == Demo[t.seg].clock
        gone  == (t.m0 - first) \div DemoTime.second
    IN  IF first = None \/ t.m0 < first THEN t
        ELSE [t EXCEPT !.sec = IF gone < DemoTime.all THEN DemoTime.all - gone ELSE 0]

NextSegment(t) ==
    IF t.seg = 7
    THEN [t EXCEPT !.mode = 3, !.seg = 0, !.dwell = Dwells.summary, !.m0 = None]
    ELSE gameModePrep([t EXCEPT !.seg = @ + 1, !.dwell = 0, !.m0 = @ + 1,
                                !.level = IF @ % 2 = 0 THEN @ + 1 ELSE @ - 1])

Initialises(t) == t.m0 \in Demo[t.seg].init[t.level = 0]

\* most stages only draw
NextStage(t) == [t EXCEPT !.m0 = @ + 1]

\* n stages before a demo ends
BeforeEnd(t, n) == t.m0 \in {Demo[t.seg].last - n, LongLast - n}

EndDemo(t) == startMode2([t EXCEPT !.dwell = 0, !.mode = 2, !.m0 = None])

advanceMode0(t) ==
    IF t.m0 = None THEN t
    ELSE LET k == updateMode0Timer(t)
         IN  CASE BeforeEnd(t, 0) -> EndDemo(k)
               [] BeforeEnd(t, 1) \/ BeforeEnd(t, 2) -> [k EXCEPT !.mode = 1, !.m0 = @ + 1]
               [] t.seg = 3 /\ t.m0 = Demo[3].last - 4 -> [k EXCEPT !.dwell = 1, !.m0 = @ + 1]
               [] t.m0 = StepStage -> NextSegment(k)
               [] Initialises(t) -> NextStage(presentationInit10504(k))
               [] OTHER -> NextStage(k)

advanceMode2(t) ==
    IF t.m2 = None THEN t
    ELSE IF t.m2 < Mode2Last THEN [t EXCEPT !.m2 = @ + 1]
    ELSE [t EXCEPT !.m2 = None, !.dwell = Dwells.shown,
                   !.blit = IF t.seg = 4 THEN 1 ELSE @,
                   !.hud = IF t.seg = 1 THEN 1 ELSE None]

Delay(n) == IF n > 0 THEN n - 1 ELSE None

delaysAdvance(t) ==
    [t EXCEPT !.hud = Delay(@), !.blit = Delay(@), !.wait = Delay(@)]

-----------------------------------------------------------------------------
(* The dispatcher of the main loop.                                        *)

dwellEnds(t) ==
    LET next == IF t.mode + 1 > 2 THEN 0 ELSE t.mode + 1
        page == [t EXCEPT !.dwell = 0, !.mode = next]
    IN  CASE next = 2 -> startMode2(page)
          [] next = 0 -> startMode0(page)
          [] next = 1 -> [page EXCEPT !.dwell = 1]

Case1(t) ==
    LET waited == CASE t.dwell = 0 -> t
                    [] t.dwell = 1 -> dwellEnds(t)
                    [] OTHER -> [t EXCEPT !.dwell = @ - 1]
    IN  IF waited.m0 = None /\ waited.mode = 0 THEN RefreshFrame(waited) ELSE {waited}

stateSub16A20(t) ==
    CASE t.slot = 3 -> [Parked(t) EXCEPT !.word = 0]
      [] t.slot = 1 -> [t EXCEPT !.word = 0]
      [] OTHER -> Parked(t)

\* mutant: the wait begins and the word stays
case2Again(t) ==
    LET shown == stateSub16A20(t)
    IN  IF shown.word = 0 THEN shown
        ELSE [shown EXCEPT !.wait = IF t.slot = 2 /\ @ = None THEN Waits.timeout ELSE @]

\* word 4: the time is up (one player: his slot is 2)
case2(t) ==
    LET shown == stateSub16A20(t)
    IN  IF shown.word = 0 THEN shown
        ELSE [shown EXCEPT !.word = 2,
                           !.wait = IF t.slot = 2 /\ @ = None THEN Waits.timeout ELSE @]

\* mutant: a START of the game counts in the attract mode
case3Latched(t, ranks) ==
    [t EXCEPT !.level = 1, !.word = 1, !.seg = 0, !.mode = 2, !.dwell = Dwells.over,
              !.entry = ranks, !.m2 = IF ranks THEN @ ELSE 0,
              !.earned = [time |-> None, level |-> None]]

\* word 2: the game is over; ranks: the score enters the table
case3(t, ranks) ==
    [t EXCEPT !.latch = FALSE, !.stale = FALSE,
              !.level = 1, !.word = 1, !.seg = 0, !.mode = 2, !.dwell = Dwells.over,
              !.entry = ranks, !.m2 = IF ranks THEN @ ELSE 0,
              !.earned = [time |-> None, level |-> None]]

finishCase4(t) ==
    IF t.level > LastLevel THEN [t EXCEPT !.word = 6]
    ELSE [armLevelIntroScroll(mainLoopInit10504(t), t.sec) EXCEPT !.word = 0]

\* mutant: counts the level before it asks whether the score was shown
case4Twice(t) ==
    LET next == [t EXCEPT !.level = @ + 1]
    IN  IF t.pending THEN finishCase4([next EXCEPT !.pending = FALSE])
        ELSE IF t.slot = 3 THEN [next EXCEPT !.pending = TRUE, !.wait = Waits.level]
        ELSE finishCase4(next)

\* word 3: the level is done
case4(t) ==
    LET next == [t EXCEPT !.level = @ + 1]
    IN  IF t.pending THEN finishCase4([t EXCEPT !.pending = FALSE])
        ELSE IF t.slot = 3 THEN [next EXCEPT !.pending = TRUE, !.wait = Waits.level]
        ELSE finishCase4(next)

\* word 5: START was accepted
case5(t) ==
    LET prepared == gameModePrep([t EXCEPT !.mode = 0, !.seg = 2, !.level = FirstLevel])
    IN  [armLevelIntroScroll(mainLoopInit10504(prepared), 0) EXCEPT
            !.word = 0, !.earned = [time |-> 0, level |-> FirstLevel - 1]]

\* word 6: the last level is done
case6(t) ==
    [t EXCEPT !.word = 2, !.wait = IF t.slot = 3 THEN Waits.final ELSE @]

MainLoopInit1101E(t) ==
    CASE t.word = 0 -> RefreshFrame(t)
      [] t.word = 1 -> Case1(t)
      [] t.word = 2 -> {case3(t, ranks) : ranks \in BOOLEAN}
      [] t.word = 3 -> {case4(t)}
      [] t.word = 4 -> {case2(t)}
      [] t.word = 5 -> {case5(t)}
      [] t.word = 6 -> {case6(t)}

-----------------------------------------------------------------------------
(* A frame.  start: the game when it begins.                               *)

\* the page holds the body of the attract mode until START is accepted
Frozen(start) == flow = "held" /\ ~start.manual /\ isCoinStartAttractReady(start)

\* a body every second tick, or at once when the last one was late
Body(t, start) ==
    LET turned == [t EXCEPT !.odd = ~@]
    IN  IF turned.odd THEN {turned}
        ELSE {[b EXCEPT !.odd = late] :
                 b \in IF InDemo(start) THEN RefreshFrame(turned)
                       ELSE MainLoopInit1101E(turned),
                 late \in BOOLEAN}

MainThread(t, start) ==
    IF Blocked(start) \/ Frozen(start) THEN {t} ELSE Body(t, start)

Mode0Deferred(t, start) ==
    t.m0 # None /\ ~Busy(start) /\ start.seg = 2 /\ t.level = 1

Initials(t) ==
    IF ~t.entry THEN {t}
    ELSE {t, [t EXCEPT !.entry = FALSE], startMode2([t EXCEPT !.entry = FALSE])}

Staged(t, start, fresh) ==
    LET shown == IF Mode0Deferred(t, start) THEN t ELSE advanceMode0(t)
    IN  {advanceLevelIntro(delaysAdvance(advanceMode2(i)), fresh) : i \in Initials(shown)}

MainTick(start, fresh) ==
    UNION {UNION {Staged(b, start, fresh) : b \in MainThread(g, start)} :
              g \in Gated(gameTickTimers(start))}

\* the coin flow: a game is loaded over the attract mode
Seeded(t, g) ==
    [t EXCEPT !.word = 0, !.mode = g.mode, !.level = g.level, !.seg = g.seg,
              !.dwell = g.dwell, !.slot = g.slot, !.type = g.type, !.sec = g.sec,
              !.medium = g.medium, !.inner = g.inner, !.odd = g.odd,
              !.latch = FALSE, !.stale = FALSE, !.manual = TRUE,
              !.earned = [time |-> None, level |-> None],
              !.cut = Busy(t) \/ t.blit # None \/ t.pending]

Rearmed(t) ==
    {t} \cup IF flow = "coin" /\ t.manual /\ isCoinStartAttractReady(t)
             THEN {[t EXCEPT !.manual = FALSE]} ELSE {}

Frame ==
    /\ \E start \in Rearmed(s) : s' \in MainTick(start, FALSE)
    /\ UNCHANGED flow

CoinStartFrame ==
    /\ flow = "coin"
    /\ \E start \in Rearmed(s), g \in Seeds :
          ~start.manual /\ s' \in MainTick(Seeded(start, g), TRUE)
    /\ UNCHANGED flow

\* a cold boot and prepareBrowserCoinStartAttract
Init ==
    /\ flow \in Flows
    /\ s = [word |-> 1, mode |-> 2, level |-> 0, seg |-> 0, dwell |-> Dwells.shown,
            slot |-> 0, type |-> 0, sec |-> 0, medium |-> 0, inner |-> Off,
            latch |-> FALSE, odd |-> FALSE,
            m0 |-> None, m2 |-> 0, hud |-> None, blit |-> None, wait |-> None,
            pending |-> FALSE, scroll |-> None, banner |-> None, base |-> None,
            entry |-> FALSE, manual |-> FALSE,
            stale |-> FALSE, earned |-> [time |-> None, level |-> None], cut |-> FALSE]

Next == Frame \/ CoinStartFrame

(* The browser calls the ticker.                                           *)
Spec == Init /\ [][Next]_vars /\ WF_vars(Next)

-----------------------------------------------------------------------------
(* Properties.                                                             *)

(* The words, digits and counters keep their types.                        *)
TypeOK == flow \in Flows /\ s \in GameType

Owners(t) ==
    {c \in Counters \cup {"m0"} : t[c] # None} \cup (IF t.entry THEN {"entry"} ELSE {})

(* The program waits in one place: two staged activities never go on at    *)
(* once, unless a coin start came upon one.                                *)
OneOwner == ~s.cut => \A a, b \in Owners(s) : a = b

(* A staged activity goes with the state words that may start it or be     *)
(* accepted under it: an intro runs in a game, a reset or the initials     *)
(* never do, and the waits are those of a level's or a game's end.         *)
OwnerFitsWord ==
    ~s.cut => /\ (s.m0 # None \/ s.m2 # None \/ s.hud # None) => s.word \in {1, 3, 5}
              /\ s.entry => s.word \in {1, 5}
              /\ s.wait # None => s.word \in {2, 3}
              /\ (s.scroll # None \/ s.banner # None) => s.word = 0

(* A level is played against the clock: it is parked in the intro and from *)
(* the goal on only.  (The first level of a game the coin flow loaded has  *)
(* the clock it was loaded with.)                                          *)
ClockRuns ==
    (/\ ~s.cut /\ s.earned.time # None
     /\ s.word = 0 /\ Owners(s) = {} /\ s.type # 6) => s.inner # Off

(* No START pressed before the attract mode began is taken for a new game. *)
NoStaleStart == s.word = 1 => ~s.stale

(* A level begins with the time left at the goal of the one before and its *)
(* own extra time, and is the next one (a new game: the first, from zero). *)
NextLevelKeepsTime ==
    [][(~s.cut /\ s.banner # None /\ s'.banner = None /\ s.earned.time # None)
          => /\ s'.word = 0
             /\ s'.level = s.earned.level + 1
             /\ s'.sec = s.earned.time + Extra[s'.level]]_vars

(* The time runs out when no digit of the clock has anything left, and in  *)
(* a level only, before its goal: never in an intro, at a level's end or   *)
(* in the attract mode, whose demos use the clock.                         *)
ExpiryOnlyInPlay ==
    [][(~s.cut /\ s.word # 4 /\ s'.word = 4)
          => /\ s.word = 0 /\ Owners(s) = {} /\ ~(s.slot = 1 /\ s.type = 6)
             /\ s.inner = 0 /\ s.medium = 0 /\ s.sec = 0]_vars

(* An accepted START leads to a level, whatever reset or demo is on,       *)
(* unless the initials wait for their player; and the end of a game leads  *)
(* to the attract mode.  (Until then a frame is possible, and is one that  *)
(* changes something.)                                                     *)
StartLeadsToPlay == (s.word = 5 /\ ~s.entry) ~> s.word = 0
GameOverLeadsToAttract == (s.word \in {2, 4, 6} /\ ~s.cut) ~> s.word = 1
FlowMayGoOn == s.word \in 2..6 => ENABLED <<Next>>_vars
FlowGoesOn == []FlowMayGoOn /\ StartLeadsToPlay /\ GameOverLeadsToAttract

(* The comment of case5: "START enters the playable level intro; do not    *)
(* inherit the attract mode-2 selector from the high-score screen."        *)
StartEntersIntro ==
    [][s.word = 5 => \/ s'.word = 5
                     \/ s'.word = 0 /\ s'.scroll # None /\ s'.level = FirstLevel]_vars

(* The comment of the coin start: "Human live play should leave the        *)
(* attract/tutorial dispatcher after START."                               *)
StartLeavesAttract == s.word = 0 => s.m0 = None /\ s.m2 = None /\ s.hud = None
=============================================================================
