-------------------------- MODULE GameFlow_proofs --------------------------
(***************************************************************************)
(* Theorems about the flow of the game, for any stages, waits, levels and  *)
(* loaded games.  A frame is a composition of functions on the record s;   *)
(* the invariant Good is carried through each of them by a lemma.          *)
(***************************************************************************)
EXTENDS GameFlow, TLAPS

(* The type of a game, part by part: the provers build a record of so many *)
(* fields from its parts and not at once.                                  *)
Fields == {"word", "mode", "level", "seg", "dwell", "slot", "type", "sec",
           "medium", "inner", "latch", "odd", "m0", "m2", "hud", "blit",
           "wait", "pending", "scroll", "banner", "base", "entry", "manual",
           "stale", "earned", "cut"}
Rec(t) == t = [f \in Fields |-> t[f]]
Words(t) ==
    /\ t.word \in 0..6 /\ t.mode \in 0..3 /\ t.level \in Nat /\ t.seg \in 0..7
    /\ t.dwell \in Nat /\ t.earned \in [time : Nat \cup {None}, level : Int]
Marble(t) ==
    /\ t.slot \in 0..3 /\ t.type \in {0, 6, 8} /\ t.sec \in Nat
    /\ t.medium \in 0..Digits.medium /\ t.inner \in 0..Digits.inner \cup {Off}
Counts(t) ==
    /\ t.m0 \in Nat \cup {None} /\ t.m2 \in 0..Mode2Last \cup {None}
    /\ t.hud \in {0, 1, None} /\ t.blit \in {0, 1, None} /\ t.wait \in Nat \cup {None}
    /\ t.scroll \in Nat \cup {None} /\ t.banner \in Nat \cup {None}
    /\ t.base \in Nat \cup {None}
Flags(t) ==
    /\ t.latch \in BOOLEAN /\ t.odd \in BOOLEAN /\ t.pending \in BOOLEAN
    /\ t.entry \in BOOLEAN /\ t.manual \in BOOLEAN /\ t.stale \in BOOLEAN
    /\ t.cut \in BOOLEAN
Typed(t) == Rec(t) /\ Words(t) /\ Marble(t) /\ Counts(t) /\ Flags(t)

(* At most one staged activity, spelt out field by field.                  *)
Free(t) ==
    /\ t.m0 = None /\ t.m2 = None /\ t.hud = None /\ t.wait = None
    /\ t.scroll = None /\ t.banner = None /\ ~t.entry
Solo(t) ==
    /\ t.entry => t.m0 = None /\ t.m2 = None /\ t.hud = None /\ t.wait = None
                  /\ t.scroll = None /\ t.banner = None
    /\ t.m0 # None => t.m2 = None /\ t.hud = None /\ t.wait = None
                      /\ t.scroll = None /\ t.banner = None
    /\ t.m2 # None => t.hud = None /\ t.wait = None /\ t.scroll = None /\ t.banner = None
    /\ t.hud # None => t.wait = None /\ t.scroll = None /\ t.banner = None
    /\ t.wait # None => t.scroll = None /\ t.banner = None
    /\ t.scroll # None => t.banner = None

(* OwnerFitsWord of any game.                                              *)
Fits(t) ==
    /\ (t.m0 # None \/ t.m2 # None \/ t.hud # None) => t.word \in {1, 3, 5}
    /\ t.entry => t.word \in {1, 5}
    /\ t.wait # None => t.word \in {2, 3}
    /\ (t.scroll # None \/ t.banner # None) => t.word = 0

(* An intro that scrolls knows the time its banner starts from.            *)
Based(t) == t.scroll # None => t.base # None
Unspoilt(t) == t.word = 1 => ~t.stale
Orderly(t) == Based(t) /\ Unspoilt(t) /\ (~t.cut => Solo(t) /\ Fits(t))
Good(t) == Typed(t) /\ Orderly(t)

(* The same activities are on.                                             *)
SameOwners(t, k) ==
    /\ k.m0 = t.m0 /\ k.m2 = t.m2 /\ k.hud = t.hud /\ k.wait = t.wait
    /\ k.scroll = t.scroll /\ k.banner = t.banner /\ k.entry = t.entry
    /\ k.base = t.base /\ k.cut = t.cut /\ k.seg = t.seg

LEMMA TypedGame ==
    ASSUME NEW t
    PROVE  Typed(t) <=> t \in GameType
<1>1. Typed(t) => t \in GameType
  BY DEF Typed, Rec, Fields, Words, Marble, Counts, Flags, GameType
<1>2. ASSUME t \in GameType PROVE Typed(t)
  <2>1. Rec(t)
    BY <1>2 DEF Rec, Fields, GameType
  <2> QED
    BY <1>2, <2>1 DEF Typed, Words, Marble, Counts, Flags, GameType
<1> QED
  BY <1>1, <1>2

LEMMA NoneEarned == [time |-> None, level |-> None] \in [time : Nat \cup {None}, level : Int]
  BY DEF None

LEMMA SameKeeps ==
    ASSUME NEW t, NEW k, Good(t), Typed(k), SameOwners(t, k),
           k.word = t.word, k.stale = t.stale
    PROVE  Good(k)
  BY DEF SameOwners, Good, Orderly, Based, Unspoilt, Solo, Fits

LEMMA SameTwice ==
    ASSUME NEW t, NEW k, NEW l, SameOwners(t, k), SameOwners(k, l)
    PROVE  SameOwners(t, l)
  BY DEF SameOwners

LEMMA SameHolds ==
    ASSUME NEW t, NEW k, SameOwners(t, k)
    PROVE  (Held(k) <=> Held(t)) /\ (Free(t) => Free(k)) /\ (InDemo(k) <=> InDemo(t))
  BY DEF SameOwners, Held, Counters, Free, InDemo

LEMMA FreeOwners ==
    ASSUME NEW t
    PROVE  /\ Held(t) <=> \/ t.entry \/ t.m2 # None \/ t.hud # None \/ t.wait # None
                          \/ t.scroll # None \/ t.banner # None
           /\ Busy(t) <=> ~Free(t)
           /\ ~Blocked(t) => Free(t) \/ InDemo(t)
           /\ ~Blocked(t) => ~Held(t)
<1>1. Held(t) <=> \/ t.entry \/ t.m2 # None \/ t.hud # None \/ t.wait # None
                  \/ t.scroll # None \/ t.banner # None
  BY DEF Held, Counters
<1> QED
  BY <1>1 DEF Busy, Free, Blocked, InDemo

LEMMA SoloOwners ==
    ASSUME NEW t, Solo(t)
    PROVE  \A a, b \in Owners(t) : a = b
<1> SUFFICES ASSUME NEW a \in Owners(t), NEW b \in Owners(t) PROVE a = b
  OBVIOUS
<1>1. \A c \in Owners(t) : \/ c = "m0" /\ t.m0 # None
                           \/ c = "m2" /\ t.m2 # None
                           \/ c = "hud" /\ t.hud # None
                           \/ c = "wait" /\ t.wait # None
                           \/ c = "scroll" /\ t.scroll # None
                           \/ c = "banner" /\ t.banner # None
                           \/ c = "entry" /\ t.entry
  BY DEF Owners, Counters
<1> QED
  BY <1>1 DEF Solo

-----------------------------------------------------------------------------
(* The clock, the gate, the marble.                                        *)

LEMMA TickTyped ==
    ASSUME NEW t, Typed(t)
    PROVE  Typed(tickCascadingTimer(t)) /\ SameOwners(t, tickCascadingTimer(t))
<1> DEFINE k == tickCascadingTimer(t)
<1>1. Rec(k)
  BY FlowAssumption DEF Typed, Rec, tickCascadingTimer, Expired
<1>2. Words(k)
  BY FlowAssumption DEF Typed, Rec, Fields, Words, tickCascadingTimer, Expired
<1>3. Marble(k)
  BY FlowAssumption DEF Typed, Rec, Fields, Marble, Off, tickCascadingTimer, Expired
<1>4. Counts(k)
  BY FlowAssumption DEF Typed, Rec, Fields, Counts, tickCascadingTimer, Expired
<1>5. Flags(k)
  BY FlowAssumption DEF Typed, Rec, Fields, Flags, tickCascadingTimer, Expired
<1>6. SameOwners(t, k)
  BY FlowAssumption DEF Typed, Rec, Fields, SameOwners, tickCascadingTimer, Expired
<1> QED
  BY <1>1, <1>2, <1>3, <1>4, <1>5, <1>6 DEF Typed

LEMMA ClockKeeps ==
    ASSUME NEW t, Good(t)
    PROVE  Good(gameTickTimers(t)) /\ SameOwners(t, gameTickTimers(t))
<1> DEFINE k == tickCascadingTimer(t)
<1>1. CASE gameTickTimers(t) = t
  BY <1>1 DEF SameOwners
<1>2. CASE ~Busy(t) /\ gameTickTimers(t) = k
  <2>1. Typed(k) /\ SameOwners(t, k)
    BY TickTyped DEF Good
  <2>2. k.word \in {t.word, 4} /\ k.stale = t.stale
    BY DEF Good, Typed, Rec, Fields, tickCascadingTimer, Expired
  <2>3. Free(t)
    BY <1>2, FreeOwners
  <2> HIDE DEF k
  <2> QED
    BY <1>2, <2>1, <2>2, <2>3
       DEF SameOwners, Free, Good, Orderly, Based, Unspoilt, Solo, Fits
<1> QED
  BY <1>1, <1>2 DEF gameTickTimers

LEMMA GateKeeps ==
    ASSUME NEW t, Good(t), NEW k, k \in Gated(t)
    PROVE  Good(k) /\ SameOwners(t, k)
<1>0. PICK falls \in BOOLEAN, credit \in Credits : k = gameMainGate(t, falls, credit)
  BY DEF Gated
<1>1. Typed(k) /\ SameOwners(t, k)
  <2>1. Rec(k)
    BY <1>0 DEF Good, Typed, Rec, gameMainGate
  <2>2. Words(k)
    BY <1>0 DEF Good, Typed, Rec, Fields, Words, gameMainGate
  <2>3. Marble(k)
    BY <1>0 DEF Good, Typed, Rec, Fields, Marble, Off, gameMainGate
  <2>4. Counts(k)
    BY <1>0 DEF Good, Typed, Rec, Fields, Counts, gameMainGate
  <2>5. Flags(k)
    BY <1>0 DEF Good, Typed, Rec, Fields, Flags, gameMainGate
  <2>6. SameOwners(t, k)
    BY <1>0 DEF Good, Typed, Rec, Fields, SameOwners, gameMainGate
  <2> QED
    BY <2>1, <2>2, <2>3, <2>4, <2>5, <2>6 DEF Typed
<1>2. \/ k.word = t.word /\ k.stale = t.stale
      \/ k.word = t.word /\ t.word # 1
      \/ k.word = t.word /\ ~k.stale
      \/ k.word = 5 /\ t.word = 1
  BY <1>0 DEF Good, Typed, Rec, Fields, gameMainGate
<1> QED
  BY <1>1, <1>2 DEF SameOwners, Good, Orderly, Based, Unspoilt, Solo, Fits

LEMMA MovedTyped ==
    ASSUME NEW t, Typed(t), NEW k \in Moved(t)
    PROVE  Typed(k) /\ SameOwners(t, k) /\ k.word = t.word /\ k.stale = t.stale
<1> DEFINE goal == GoalReached(t)
<1>1. \/ k = t \/ k = goal
      \/ k = [t EXCEPT !.type = 8] \/ k = [t EXCEPT !.type = 0]
      \/ k = [t EXCEPT !.sec = IF @ < MaxTime THEN @ + 1 ELSE @]
      \/ k = [t EXCEPT !.slot = 3]
  BY DEF Moved
<1>2. [time |-> t.sec, level |-> t.level] \in [time : Nat \cup {None}, level : Int]
  BY DEF Typed, Words, Marble
<1>3. CASE k = goal
  <2>1. Rec(k)
    BY <1>2, <1>3 DEF Typed, Rec, GoalReached, Parked
  <2>2. Words(k)
    BY <1>2, <1>3 DEF Typed, Rec, Fields, Words, GoalReached, Parked
  <2>3. Marble(k)
    BY <1>2, <1>3 DEF Typed, Rec, Fields, Marble, Off, GoalReached, Parked
  <2>4. Counts(k)
    BY <1>2, <1>3 DEF Typed, Rec, Fields, Counts, GoalReached, Parked
  <2>5. Flags(k)
    BY <1>2, <1>3 DEF Typed, Rec, Fields, Flags, GoalReached, Parked
  <2>6. SameOwners(t, k) /\ k.word = t.word /\ k.stale = t.stale
    BY <1>2, <1>3 DEF Typed, Rec, Fields, SameOwners, GoalReached, Parked
  <2> QED
    BY <2>1, <2>2, <2>3, <2>4, <2>5, <2>6 DEF Typed
<1>4. CASE k # goal
  <2> HIDE DEF goal
  <2>1. Rec(k)
    BY FlowAssumption, <1>1, <1>4 DEF Typed, Rec
  <2>2. Words(k)
    BY FlowAssumption, <1>1, <1>4 DEF Typed, Rec, Fields, Words
  <2>3. Marble(k)
    BY FlowAssumption, <1>1, <1>4 DEF Typed, Rec, Fields, Marble, Off
  <2>4. Counts(k)
    BY FlowAssumption, <1>1, <1>4 DEF Typed, Rec, Fields, Counts
  <2>5. Flags(k)
    BY FlowAssumption, <1>1, <1>4 DEF Typed, Rec, Fields, Flags
  <2>6. SameOwners(t, k) /\ k.word = t.word /\ k.stale = t.stale
    BY FlowAssumption, <1>1, <1>4 DEF Typed, Rec, Fields, SameOwners
  <2> QED
    BY <2>1, <2>2, <2>3, <2>4, <2>5, <2>6 DEF Typed
<1> QED
  BY <1>3, <1>4

(* The marble moves beside a demo only, or alone.                          *)
LEMMA RefreshKeeps ==
    ASSUME NEW t, Good(t), ~Held(t), NEW k \in RefreshFrame(t)
    PROVE  Good(k)
<1>0. PICK l \in Moved(t) : k = objectScanDispatch(l)
  BY DEF RefreshFrame
<1>1. Good(l) /\ SameOwners(t, l)
  BY MovedTyped, SameKeeps DEF Good
<1>2. ~Held(l)
  BY <1>1, SameHolds
<1>3. Typed(k) /\ SameOwners(l, k)
  <2>1. Rec(k)
    BY <1>0, <1>1 DEF Good, Typed, Rec, objectScanDispatch
  <2>2. Words(k)
    BY <1>0, <1>1 DEF Good, Typed, Rec, Fields, Words, objectScanDispatch
  <2>3. Marble(k)
    BY <1>0, <1>1 DEF Good, Typed, Rec, Fields, Marble, Off, objectScanDispatch
  <2>4. Counts(k)
    BY <1>0, <1>1 DEF Good, Typed, Rec, Fields, Counts, objectScanDispatch
  <2>5. Flags(k)
    BY <1>0, <1>1 DEF Good, Typed, Rec, Fields, Flags, objectScanDispatch
  <2>6. SameOwners(l, k)
    BY <1>0, <1>1 DEF Good, Typed, Rec, Fields, SameOwners, objectScanDispatch
  <2> QED
    BY <2>1, <2>2, <2>3, <2>4, <2>5, <2>6 DEF Typed
<1>4. (k.word = l.word \/ k.word = 3) /\ k.stale = l.stale
  BY <1>0, <1>1 DEF Good, Typed, Rec, Fields, objectScanDispatch
<1> QED
  BY <1>1, <1>2, <1>3, <1>4, FreeOwners
     DEF SameOwners, Good, Orderly, Based, Unspoilt, Solo, Fits

-----------------------------------------------------------------------------
(* The start of a level and its intro.                                     *)

LEMMA PrepTyped ==
    ASSUME NEW t, Typed(t)
    PROVE  /\ Typed(gameModePrep(t)) /\ SameOwners(t, gameModePrep(t))
           /\ gameModePrep(t).word = t.word /\ gameModePrep(t).stale = t.stale
<1> DEFINE k == gameModePrep(t)
<1>1. Rec(k)
  BY DEF Typed, Rec, gameModePrep
<1>2. Words(k)
  BY DEF Typed, Rec, Fields, Words, gameModePrep
<1>3. Marble(k)
  BY DEF Typed, Rec, Fields, Marble, Off, gameModePrep
<1>4. Counts(k)
  BY DEF Typed, Rec, Fields, Counts, gameModePrep
<1>5. Flags(k)
  BY DEF Typed, Rec, Fields, Flags, gameModePrep
<1>6. SameOwners(t, k) /\ k.word = t.word /\ k.stale = t.stale
  BY DEF Typed, Rec, Fields, SameOwners, gameModePrep
<1> QED
  BY <1>1, <1>2, <1>3, <1>4, <1>5, <1>6 DEF Typed

LEMMA InitTyped ==
    ASSUME NEW t, Typed(t)
    PROVE  /\ Typed(mainLoopInit10504(t)) /\ SameOwners(t, mainLoopInit10504(t))
           /\ mainLoopInit10504(t).word = t.word
           /\ mainLoopInit10504(t).stale = t.stale
<1> DEFINE k == mainLoopInit10504(t)
<1>1. Rec(k)
  BY FlowAssumption DEF Typed, Rec, mainLoopInit10504
<1>2. Words(k)
  BY FlowAssumption DEF Typed, Rec, Fields, Words, mainLoopInit10504
<1>3. Marble(k)
  BY FlowAssumption DEF Typed, Rec, Fields, Marble, Off, mainLoopInit10504
<1>4. Counts(k)
  BY FlowAssumption DEF Typed, Rec, Fields, Counts, mainLoopInit10504
<1>5. Flags(k)
  BY FlowAssumption DEF Typed, Rec, Fields, Flags, mainLoopInit10504
<1>6. SameOwners(t, k) /\ k.word = t.word /\ k.stale = t.stale
  BY FlowAssumption DEF Typed, Rec, Fields, SameOwners, mainLoopInit10504
<1> QED
  BY <1>1, <1>2, <1>3, <1>4, <1>5, <1>6 DEF Typed

LEMMA PresentationTyped ==
    ASSUME NEW t, Typed(t)
    PROVE  /\ Typed(presentationInit10504(t)) /\ SameOwners(t, presentationInit10504(t))
           /\ presentationInit10504(t).word = t.word
           /\ presentationInit10504(t).stale = t.stale
<1> DEFINE made == mainLoopInit10504(t)
           k == presentationInit10504(t)
<1>0. /\ Typed(made) /\ SameOwners(t, made) /\ made.word = t.word /\ made.stale = t.stale
      /\ k = IF t.word # 1 THEN made
             ELSE [made EXCEPT !.sec = IF t.seg = 4 THEN DemoTime.four ELSE DemoTime.all]
  BY InitTyped DEF presentationInit10504
<1> HIDE DEF made, k
<1>7. Typed(k) /\ SameOwners(made, k) /\ k.word = made.word /\ k.stale = made.stale
  <2>1. Rec(k)
    BY <1>0, FlowAssumption DEF Typed, Rec
  <2>2. Words(k)
    BY <1>0, FlowAssumption DEF Typed, Rec, Fields, Words
  <2>3. Marble(k)
    BY <1>0, FlowAssumption DEF Typed, Rec, Fields, Marble, Off
  <2>4. Counts(k)
    BY <1>0, FlowAssumption DEF Typed, Rec, Fields, Counts
  <2>5. Flags(k)
    BY <1>0, FlowAssumption DEF Typed, Rec, Fields, Flags
  <2>6. SameOwners(made, k) /\ k.word = made.word /\ k.stale = made.stale
    BY <1>0, FlowAssumption DEF Typed, Rec, Fields, SameOwners
  <2> QED
    BY <2>1, <2>2, <2>3, <2>4, <2>5, <2>6 DEF Typed
<1>8. SameOwners(t, k)
  BY <1>0, <1>7, SameTwice
<1> QED
  BY <1>0, <1>7, <1>8 DEF k

LEMMA ScrollTyped ==
    ASSUME NEW t, Typed(t), NEW time \in Nat
    PROVE  LET k == armLevelIntroScroll(t, time)
           IN  /\ Typed(k)
               /\ k.scroll = 0 /\ k.banner = None /\ k.base = time
               /\ k.m0 = t.m0 /\ k.m2 = t.m2 /\ k.hud = t.hud /\ k.wait = t.wait
               /\ k.entry = t.entry /\ k.cut = t.cut /\ k.word = t.word
               /\ k.stale = t.stale
<1> DEFINE k == armLevelIntroScroll(t, time)
<1>7. /\ k.scroll = 0 /\ k.banner = None /\ k.base = time
      /\ k.m0 = t.m0 /\ k.m2 = t.m2 /\ k.hud = t.hud /\ k.wait = t.wait
      /\ k.entry = t.entry /\ k.cut = t.cut /\ k.word = t.word
      /\ k.stale = t.stale
  BY DEF Typed, Rec, Fields, armLevelIntroScroll
<1>8. Typed(k)
  <2>1. Rec(k)
    BY FlowAssumption DEF Typed, Rec, armLevelIntroScroll
  <2>2. Words(k)
    BY FlowAssumption DEF Typed, Rec, Fields, Words, armLevelIntroScroll
  <2>3. Marble(k)
    BY FlowAssumption DEF Typed, Rec, Fields, Marble, Off, armLevelIntroScroll
  <2>4. Counts(k)
    BY FlowAssumption DEF Typed, Rec, Fields, Counts, armLevelIntroScroll
  <2>5. Flags(k)
    BY FlowAssumption DEF Typed, Rec, Fields, Flags, armLevelIntroScroll
  <2> QED
    BY <2>1, <2>2, <2>3, <2>4, <2>5 DEF Typed
<1> QED
  BY <1>7, <1>8

(* An intro that ends lets go of the thread and touches no other owner.    *)
LEMMA NoIntroGood ==
    ASSUME NEW t, Good(t)
    PROVE  Good(NoIntro(t))
<1> DEFINE k == NoIntro(t)
<1>1. Typed(k)
  <2>1. Rec(k)
    BY DEF Good, Typed, Rec, NoIntro
  <2>2. Words(k)
    BY DEF Good, Typed, Rec, Fields, Words, NoIntro
  <2>3. Marble(k)
    BY DEF Good, Typed, Rec, Fields, Marble, Off, NoIntro
  <2>4. Counts(k)
    BY DEF Good, Typed, Rec, Fields, Counts, NoIntro
  <2>5. Flags(k)
    BY DEF Good, Typed, Rec, Fields, Flags, NoIntro
  <2> QED
    BY <2>1, <2>2, <2>3, <2>4, <2>5 DEF Typed
<1>2. /\ k.scroll = None /\ k.banner = None
      /\ k.m0 = t.m0 /\ k.m2 = t.m2 /\ k.hud = t.hud /\ k.wait = t.wait
      /\ k.entry = t.entry /\ k.cut = t.cut /\ k.word = t.word /\ k.stale = t.stale
  BY DEF Good, Typed, Rec, Fields, NoIntro
<1> HIDE DEF k
<1>3. Good(k)
  BY <1>1, <1>2 DEF Good, Orderly, Based, Unspoilt, Solo, Fits
<1> QED
  BY <1>3 DEF k

LEMMA BannerArmed ==
    ASSUME NEW t, Good(t), t.scroll # None
    PROVE  Good(armLevelIntroBanner(t))
<1> DEFINE k == armLevelIntroBanner(t)
<1>1. CASE t.level \notin Levels
  BY <1>1, NoIntroGood DEF armLevelIntroBanner
<1>2. CASE t.level \in Levels
  <2>0. t.base \in Nat
    BY DEF Good, Orderly, Based, Typed, Counts
  <2>1. Typed(k)
    <3>1. Rec(k)
      BY FlowAssumption, <1>2, <2>0 DEF Good, Typed, Rec, armLevelIntroBanner
    <3>2. Words(k)
      BY FlowAssumption, <1>2, <2>0
         DEF Good, Typed, Rec, Fields, Words, armLevelIntroBanner
    <3>3. Marble(k)
      BY FlowAssumption, <1>2, <2>0
         DEF Good, Typed, Rec, Fields, Marble, Off, armLevelIntroBanner
    <3>4. Counts(k)
      BY FlowAssumption, <1>2, <2>0
         DEF Good, Typed, Rec, Fields, Counts, armLevelIntroBanner
    <3>5. Flags(k)
      BY FlowAssumption, <1>2, <2>0
         DEF Good, Typed, Rec, Fields, Flags, armLevelIntroBanner
    <3> QED
      BY <3>1, <3>2, <3>3, <3>4, <3>5 DEF Typed
  <2>2. /\ k.scroll = None /\ k.banner = 0
        /\ k.m0 = t.m0 /\ k.m2 = t.m2 /\ k.hud = t.hud /\ k.wait = t.wait
        /\ k.entry = t.entry /\ k.cut = t.cut /\ k.word = t.word /\ k.stale = t.stale
    BY <1>2 DEF Good, Typed, Rec, Fields, armLevelIntroBanner
  <2> HIDE DEF k
  <2>3. Good(k)
    BY <2>1, <2>2 DEF Good, Orderly, Based, Unspoilt, Solo, Fits
  <2> QED
    BY <2>3 DEF k
<1> QED
  BY <1>1, <1>2

LEMMA HandedOverGood ==
    ASSUME NEW t, Good(t), t.banner # None
    PROVE  Good(HandedOver(t))
<1> DEFINE a == [t EXCEPT !.word = 0, !.inner = Digits.inner]
<1>1. Typed(a)
  <2>1. Rec(a)
    BY FlowAssumption DEF Good, Typed, Rec
  <2>2. Words(a)
    BY FlowAssumption DEF Good, Typed, Rec, Fields, Words
  <2>3. Marble(a)
    BY FlowAssumption DEF Good, Typed, Rec, Fields, Marble, Off
  <2>4. Counts(a)
    BY FlowAssumption DEF Good, Typed, Rec, Fields, Counts
  <2>5. Flags(a)
    BY FlowAssumption DEF Good, Typed, Rec, Fields, Flags
  <2> QED
    BY <2>1, <2>2, <2>3, <2>4, <2>5 DEF Typed
<1>2. /\ a.word = 0 /\ (~t.cut => t.word = 0)
      /\ a.m0 = t.m0 /\ a.m2 = t.m2 /\ a.hud = t.hud /\ a.wait = t.wait
      /\ a.scroll = t.scroll /\ a.banner = t.banner /\ a.base = t.base
      /\ a.entry = t.entry /\ a.cut = t.cut
  BY DEF Good, Typed, Rec, Fields, Orderly, Fits
<1> HIDE DEF a
<1>3. Good(a)
  BY <1>1, <1>2 DEF Good, Orderly, Based, Unspoilt, Solo, Fits
<1> QED
  BY <1>3, NoIntroGood DEF a, HandedOver

LEMMA BannerKeeps ==
    ASSUME NEW t, Good(t), t.banner # None, t.level \in Levels
    PROVE  Good(advanceBanner(t))
<1> DEFINE a == [t EXCEPT !.banner = t.banner + 1,
                          !.sec = IF AddsStep(t.banner + 1, Extra[t.level])
                                  THEN @ + Intro.step ELSE @]
<1>1. Typed(a)
  <2>1. Rec(a)
    BY FlowAssumption DEF Good, Typed, Rec
  <2>2. Words(a)
    BY FlowAssumption DEF Good, Typed, Rec, Fields, Words
  <2>3. Marble(a)
    BY FlowAssumption DEF Good, Typed, Rec, Fields, Marble, Off
  <2>4. Counts(a)
    BY FlowAssumption DEF Good, Typed, Rec, Fields, Counts
  <2>5. Flags(a)
    BY FlowAssumption DEF Good, Typed, Rec, Fields, Flags
  <2> QED
    BY <2>1, <2>2, <2>3, <2>4, <2>5 DEF Typed
<1>2. /\ a.banner = t.banner + 1 /\ t.banner + 1 # None
      /\ a.m0 = t.m0 /\ a.m2 = t.m2 /\ a.hud = t.hud /\ a.wait = t.wait
      /\ a.scroll = t.scroll /\ a.base = t.base /\ a.word = t.word
      /\ a.entry = t.entry /\ a.cut = t.cut /\ a.stale = t.stale
  BY DEF Good, Typed, Rec, Fields, Counts, None
<1>4. advanceBanner(t) \in {a, HandedOver(a)}
  BY DEF advanceBanner
<1> HIDE DEF a
<1>3. Good(a)
  BY <1>1, <1>2 DEF Good, Orderly, Based, Unspoilt, Solo, Fits
<1> QED
  BY <1>2, <1>3, <1>4, HandedOverGood

(* The intro seen in a warm start begins in a game without activities.     *)
LEMMA IntroKeeps ==
    ASSUME NEW t, Good(t), NEW fresh \in BOOLEAN
    PROVE  Good(advanceLevelIntro(t, fresh))
<1> DEFINE k == advanceLevelIntro(t, fresh)
           a == [t EXCEPT !.scroll = @ + 1]
           b == [t EXCEPT !.base = t.sec, !.scroll = 0]
<1>1. CASE t.scroll # None /\ k = a
  <2>1. Typed(a)
    <3>1. Rec(a)
      BY <1>1 DEF Good, Typed, Rec
    <3>2. Words(a)
      BY <1>1 DEF Good, Typed, Rec, Fields, Words
    <3>3. Marble(a)
      BY <1>1 DEF Good, Typed, Rec, Fields, Marble, Off
    <3>4. Counts(a)
      BY <1>1 DEF Good, Typed, Rec, Fields, Counts
    <3>5. Flags(a)
      BY <1>1 DEF Good, Typed, Rec, Fields, Flags
    <3> QED
      BY <3>1, <3>2, <3>3, <3>4, <3>5 DEF Typed
  <2>2. /\ a.scroll # None
        /\ a.m0 = t.m0 /\ a.m2 = t.m2 /\ a.hud = t.hud /\ a.wait = t.wait
        /\ a.banner = t.banner /\ a.base = t.base /\ a.word = t.word
        /\ a.entry = t.entry /\ a.cut = t.cut /\ a.stale = t.stale
    BY <1>1 DEF Good, Typed, Rec, Fields, Counts, None
  <2> HIDE DEF a, k
  <2>3. Good(a)
    BY <1>1, <2>1, <2>2 DEF Good, Orderly, Based, Unspoilt, Solo, Fits
  <2> QED
    BY <1>1, <2>3 DEF k
<1>2. CASE t.scroll # None /\ k = armLevelIntroBanner(t)
  BY <1>2, BannerArmed
<1>3. CASE t.banner # None /\ t.level \in Levels /\ k = advanceBanner(t)
  BY <1>3, BannerKeeps
<1>4. CASE k = NoIntro(t)
  BY <1>4, NoIntroGood
<1>5. CASE t.scroll = None /\ t.banner = None /\ WarmSeed(t) /\ k = b
  <2>0. t.sec \in Nat
    BY DEF Good, Typed, Marble
  <2>1. Typed(b)
    <3>1. Rec(b)
      BY <2>0 DEF Good, Typed, Rec
    <3>2. Words(b)
      BY <2>0 DEF Good, Typed, Rec, Fields, Words
    <3>3. Marble(b)
      BY <2>0 DEF Good, Typed, Rec, Fields, Marble, Off
    <3>4. Counts(b)
      BY <2>0 DEF Good, Typed, Rec, Fields, Counts
    <3>5. Flags(b)
      BY <2>0 DEF Good, Typed, Rec, Fields, Flags
    <3> QED
      BY <3>1, <3>2, <3>3, <3>4, <3>5 DEF Typed
  <2>2. /\ b.scroll = 0 /\ b.base # None /\ t.word = 0
        /\ b.m0 = t.m0 /\ b.m2 = t.m2 /\ b.hud = t.hud /\ b.wait = t.wait
        /\ b.banner = t.banner /\ b.word = t.word
        /\ b.entry = t.entry /\ b.cut = t.cut /\ b.stale = t.stale
    BY <1>5 DEF Good, Typed, Rec, Fields, Marble, None, WarmSeed
  <2> HIDE DEF b, k
  <2>3. Good(b)
    BY <1>5, <2>1, <2>2 DEF Good, Orderly, Based, Unspoilt, Solo, Fits
  <2> QED
    BY <1>5, <2>3 DEF k
<1>6. CASE k = t
  BY <1>6
<1> QED
  BY <1>1, <1>2, <1>3, <1>4, <1>5, <1>6 DEF advanceLevelIntro

-----------------------------------------------------------------------------
(* The staged resets of the attract mode.                                  *)

LEMMA DemoClockTyped ==
    ASSUME NEW t, Typed(t), t.m0 # None
    PROVE  LET k == updateMode0Timer(t)
           IN  /\ Typed(k) /\ SameOwners(t, k)
               /\ k.word = t.word /\ k.stale = t.stale /\ k.level = t.level
<1> DEFINE k == updateMode0Timer(t)
           gone == (t.m0 - Demo[t.seg].clock) \div DemoTime.second
           left == IF gone < DemoTime.all THEN DemoTime.all - gone ELSE 0
<1>1. CASE k = t
  <2>1. SameOwners(t, t)
    BY DEF SameOwners
  <2> QED
    BY <1>1, <2>1
<1>2. CASE /\ Demo[t.seg].clock # None /\ t.m0 >= Demo[t.seg].clock
           /\ k = [t EXCEPT !.sec = left]
  <2>1. Demo[t.seg].clock \in Nat /\ DemoTime.all \in Nat /\ DemoTime.second \in Nat \ {0}
    BY <1>2, FlowAssumption DEF Typed, Words, DemoType
  <2>2. t.m0 - Demo[t.seg].clock \in Nat
    BY <1>2, <2>1 DEF Typed, Counts, None
  <2>3. gone \in Nat
    BY <2>1, <2>2
  <2>4. left \in Nat
    BY <2>1, <2>3
  <2> HIDE DEF left
  <2>7. k.level = t.level /\ k.word = t.word /\ k.stale = t.stale /\ SameOwners(t, k)
    BY <1>2 DEF Typed, Rec, Fields, SameOwners
  <2>8. Typed(k)
    <3>1. Rec(k)
      BY <1>2, <2>4 DEF Typed, Rec
    <3>2. Words(k)
      BY <1>2, <2>4 DEF Typed, Rec, Fields, Words
    <3>3. Marble(k)
      BY <1>2, <2>4 DEF Typed, Rec, Fields, Marble, Off
    <3>4. Counts(k)
      BY <1>2, <2>4 DEF Typed, Rec, Fields, Counts
    <3>5. Flags(k)
      BY <1>2, <2>4 DEF Typed, Rec, Fields, Flags
    <3> QED
      BY <3>1, <3>2, <3>3, <3>4, <3>5 DEF Typed
  <2> QED
    BY <2>7, <2>8
<1>3. \/ k = t
      \/ /\ Demo[t.seg].clock # None /\ ~(t.m0 < Demo[t.seg].clock)
         /\ k = [t EXCEPT !.sec = left]
  BY DEF updateMode0Timer
<1>4. ~(t.m0 < Demo[t.seg].clock) /\ Demo[t.seg].clock # None => t.m0 >= Demo[t.seg].clock
  BY FlowAssumption DEF Typed, Words, Counts, DemoType, None
<1> QED
  BY <1>1, <1>2, <1>3, <1>4

LEMMA NextStageKeeps ==
    ASSUME NEW t, Good(t), t.m0 # None
    PROVE  Good(NextStage(t))
<1> DEFINE k == NextStage(t)
<1>1. Typed(k)
  <2>1. Rec(k)
    BY DEF Good, Typed, Rec, NextStage
  <2>2. Words(k)
    BY DEF Good, Typed, Rec, Fields, Words, NextStage
  <2>3. Marble(k)
    BY DEF Good, Typed, Rec, Fields, Marble, Off, NextStage
  <2>4. Counts(k)
    BY DEF Good, Typed, Rec, Fields, Counts, NextStage
  <2>5. Flags(k)
    BY DEF Good, Typed, Rec, Fields, Flags, NextStage
  <2> QED
    BY <2>1, <2>2, <2>3, <2>4, <2>5 DEF Typed
<1>2. /\ k.m2 = t.m2 /\ k.hud = t.hud /\ k.wait = t.wait
      /\ k.scroll = t.scroll /\ k.banner = t.banner /\ k.base = t.base
      /\ k.word = t.word /\ k.entry = t.entry /\ k.cut = t.cut /\ k.stale = t.stale
  BY DEF Good, Typed, Rec, Fields, NextStage
<1> HIDE DEF k
<1>3. Good(k)
  BY <1>1, <1>2 DEF Good, Orderly, Based, Unspoilt, Solo, Fits
<1> QED
  BY <1>3 DEF k

LEMMA EndDemoKeeps ==
    ASSUME NEW t, Good(t), t.m0 # None
    PROVE  Good(EndDemo(t))
<1> DEFINE k == EndDemo(t)
<1>1. Typed(k)
  <2>1. Rec(k)
    BY FlowAssumption DEF Good, Typed, Rec, EndDemo, startMode2
  <2>2. Words(k)
    BY FlowAssumption DEF Good, Typed, Rec, Fields, Words, EndDemo, startMode2
  <2>3. Marble(k)
    BY FlowAssumption DEF Good, Typed, Rec, Fields, Marble, Off, EndDemo, startMode2
  <2>4. Counts(k)
    BY FlowAssumption DEF Good, Typed, Rec, Fields, Counts, EndDemo, startMode2
  <2>5. Flags(k)
    BY FlowAssumption DEF Good, Typed, Rec, Fields, Flags, EndDemo, startMode2
  <2> QED
    BY <2>1, <2>2, <2>3, <2>4, <2>5 DEF Typed
<1>2. /\ k.m0 = None /\ k.hud = t.hud /\ k.wait = t.wait
      /\ k.scroll = t.scroll /\ k.banner = t.banner /\ k.base = t.base
      /\ k.word = t.word /\ k.entry = t.entry /\ k.cut = t.cut /\ k.stale = t.stale
  BY DEF Good, Typed, Rec, Fields, EndDemo, startMode2
<1> HIDE DEF k
<1>3. Good(k)
  BY <1>1, <1>2 DEF Good, Orderly, Based, Unspoilt, Solo, Fits
<1> QED
  BY <1>3 DEF k

LEMMA NextSegmentKeeps ==
    ASSUME NEW t, Good(t), t.m0 # None
    PROVE  Good(NextSegment(t))
<1> DEFINE a == [t EXCEPT !.mode = 3, !.seg = 0, !.dwell = Dwells.summary, !.m0 = None]
           b == [t EXCEPT !.seg = @ + 1, !.dwell = 0, !.m0 = @ + 1,
                          !.level = IF @ % 2 = 0 THEN @ + 1 ELSE @ - 1]
<1>1. CASE t.seg = 7
  <2>1. Typed(a)
    <3>1. Rec(a)
      BY FlowAssumption DEF Good, Typed, Rec
    <3>2. Words(a)
      BY FlowAssumption DEF Good, Typed, Rec, Fields, Words
    <3>3. Marble(a)
      BY FlowAssumption DEF Good, Typed, Rec, Fields, Marble, Off
    <3>4. Counts(a)
      BY FlowAssumption DEF Good, Typed, Rec, Fields, Counts
    <3>5. Flags(a)
      BY FlowAssumption DEF Good, Typed, Rec, Fields, Flags
    <3> QED
      BY <3>1, <3>2, <3>3, <3>4, <3>5 DEF Typed
  <2>2. /\ a.m2 = t.m2 /\ a.m0 = None /\ a.hud = t.hud /\ a.wait = t.wait
        /\ a.scroll = t.scroll /\ a.banner = t.banner /\ a.base = t.base
        /\ a.word = t.word /\ a.entry = t.entry /\ a.cut = t.cut /\ a.stale = t.stale
    BY DEF Good, Typed, Rec, Fields
  <2> HIDE DEF a
  <2>3. Good(a)
    BY <2>1, <2>2 DEF Good, Orderly, Based, Unspoilt, Solo, Fits
  <2> QED
    BY <1>1, <2>3 DEF NextSegment, a
<1>2. CASE t.seg # 7
  <2>1. Typed(b)
    <3>1. Rec(b)
      BY <1>2 DEF Good, Typed, Rec
    <3>2. Words(b)
      BY <1>2 DEF Good, Typed, Rec, Fields, Words
    <3>3. Marble(b)
      BY <1>2 DEF Good, Typed, Rec, Fields, Marble, Off
    <3>4. Counts(b)
      BY <1>2 DEF Good, Typed, Rec, Fields, Counts
    <3>5. Flags(b)
      BY <1>2 DEF Good, Typed, Rec, Fields, Flags
    <3> QED
      BY <3>1, <3>2, <3>3, <3>4, <3>5 DEF Typed
  <2>2. /\ b.m2 = t.m2 /\ b.hud = t.hud /\ b.wait = t.wait
        /\ b.scroll = t.scroll /\ b.banner = t.banner /\ b.base = t.base
        /\ b.word = t.word /\ b.entry = t.entry /\ b.cut = t.cut /\ b.stale = t.stale
    BY DEF Good, Typed, Rec, Fields
  <2>4. NextSegment(t) = gameModePrep(b)
    BY <1>2 DEF NextSegment
  <2> HIDE DEF b
  <2>3. Good(b)
    BY <2>1, <2>2 DEF Good, Orderly, Based, Unspoilt, Solo, Fits
  <2>5. Good(gameModePrep(b))
    BY <2>3, PrepTyped, SameKeeps DEF Good
  <2> QED
    BY <2>4, <2>5
<1> QED
  BY <1>1, <1>2

LEMMA Mode0Keeps ==
    ASSUME NEW t, Good(t)
    PROVE  Good(advanceMode0(t))
<1> SUFFICES ASSUME t.m0 # None PROVE Good(advanceMode0(t))
  BY DEF advanceMode0
<1> DEFINE k == updateMode0Timer(t)
           c == [k EXCEPT !.mode = 1, !.m0 = @ + 1]
           d == [k EXCEPT !.dwell = 1, !.m0 = @ + 1]
           p == presentationInit10504(k)
<1>1. Typed(k) /\ SameOwners(t, k) /\ k.word = t.word /\ k.stale = t.stale
  BY DemoClockTyped DEF Good
<1>2. advanceMode0(t) \in {EndDemo(k), c, d, NextSegment(k), NextStage(p), NextStage(k)}
  BY DEF advanceMode0
<1> HIDE DEF k
<1>3. Good(k) /\ k.m0 # None
  BY <1>1, SameKeeps DEF SameOwners
<1>4. Good(c) /\ Good(d)
  <2> DEFINE e == [k EXCEPT !.m0 = @ + 1]
  <2>1. Typed(c)
    <3>1. Rec(c)
      BY <1>1, <1>3 DEF Typed, Rec
    <3>2. Words(c)
      BY <1>1, <1>3 DEF Typed, Rec, Fields, Words
    <3>3. Marble(c)
      BY <1>1, <1>3 DEF Typed, Rec, Fields, Marble, Off
    <3>4. Counts(c)
      BY <1>1, <1>3 DEF Typed, Rec, Fields, Counts
    <3>5. Flags(c)
      BY <1>1, <1>3 DEF Typed, Rec, Fields, Flags
    <3> QED
      BY <3>1, <3>2, <3>3, <3>4, <3>5 DEF Typed
  <2>2. Typed(d)
    <3>1. Rec(d)
      BY <1>1, <1>3 DEF Typed, Rec
    <3>2. Words(d)
      BY <1>1, <1>3 DEF Typed, Rec, Fields, Words
    <3>3. Marble(d)
      BY <1>1, <1>3 DEF Typed, Rec, Fields, Marble, Off
    <3>4. Counts(d)
      BY <1>1, <1>3 DEF Typed, Rec, Fields, Counts
    <3>5. Flags(d)
      BY <1>1, <1>3 DEF Typed, Rec, Fields, Flags
    <3> QED
      BY <3>1, <3>2, <3>3, <3>4, <3>5 DEF Typed
  <2>3. /\ c.m2 = k.m2 /\ c.hud = k.hud /\ c.wait = k.wait
        /\ c.scroll = k.scroll /\ c.banner = k.banner /\ c.base = k.base
        /\ c.word = k.word /\ c.entry = k.entry /\ c.cut = k.cut /\ c.stale = k.stale
    BY <1>1 DEF Typed, Rec, Fields
  <2>4. /\ d.m2 = k.m2 /\ d.hud = k.hud /\ d.wait = k.wait
        /\ d.scroll = k.scroll /\ d.banner = k.banner /\ d.base = k.base
        /\ d.word = k.word /\ d.entry = k.entry /\ d.cut = k.cut /\ d.stale = k.stale
    BY <1>1 DEF Typed, Rec, Fields
  <2> HIDE DEF c, d
  <2>5. Good(c)
    BY <1>3, <2>1, <2>3 DEF Good, Orderly, Based, Unspoilt, Solo, Fits
  <2>6. Good(d)
    BY <1>3, <2>2, <2>4 DEF Good, Orderly, Based, Unspoilt, Solo, Fits
  <2> QED
    BY <2>5, <2>6
<1>5. Good(p) /\ p.m0 # None
  BY <1>1, <1>3, PresentationTyped, SameKeeps DEF SameOwners
<1> HIDE DEF c, d, p
<1> QED
  BY <1>2, <1>3, <1>4, <1>5, EndDemoKeeps, NextSegmentKeeps, NextStageKeeps

LEMMA Mode2Keeps ==
    ASSUME NEW t, Good(t)
    PROVE  Good(advanceMode2(t))
<1> DEFINE a == [t EXCEPT !.m2 = @ + 1]
           b == [t EXCEPT !.m2 = None, !.dwell = Dwells.shown,
                          !.blit = IF t.seg = 4 THEN 1 ELSE @,
                          !.hud = IF t.seg = 1 THEN 1 ELSE None]
<1>1. CASE t.m2 = None
  BY <1>1 DEF advanceMode2
<1>2. CASE t.m2 # None /\ t.m2 < Mode2Last
  <2>1. Typed(a)
    <3>1. Rec(a)
      BY FlowAssumption, <1>2 DEF Good, Typed, Rec
    <3>2. Words(a)
      BY FlowAssumption, <1>2 DEF Good, Typed, Rec, Fields, Words
    <3>3. Marble(a)
      BY FlowAssumption, <1>2 DEF Good, Typed, Rec, Fields, Marble, Off
    <3>4. Counts(a)
      BY FlowAssumption, <1>2 DEF Good, Typed, Rec, Fields, Counts
    <3>5. Flags(a)
      BY FlowAssumption, <1>2 DEF Good, Typed, Rec, Fields, Flags
    <3> QED
      BY <3>1, <3>2, <3>3, <3>4, <3>5 DEF Typed
  <2>2. /\ a.m0 = t.m0 /\ a.hud = t.hud /\ a.wait = t.wait
        /\ a.scroll = t.scroll /\ a.banner = t.banner /\ a.base = t.base
        /\ a.word = t.word /\ a.entry = t.entry /\ a.cut = t.cut /\ a.stale = t.stale
    BY DEF Good, Typed, Rec, Fields
  <2>4. advanceMode2(t) = a
    BY <1>2 DEF advanceMode2
  <2> HIDE DEF a
  <2>3. Good(a)
    BY <1>2, <2>1, <2>2 DEF Good, Orderly, Based, Unspoilt, Solo, Fits
  <2> QED
    BY <2>3, <2>4
<1>3. CASE t.m2 # None /\ ~(t.m2 < Mode2Last)
  <2>1. Typed(b)
    <3>1. Rec(b)
      BY FlowAssumption DEF Good, Typed, Rec
    <3>2. Words(b)
      BY FlowAssumption DEF Good, Typed, Rec, Fields, Words
    <3>3. Marble(b)
      BY FlowAssumption DEF Good, Typed, Rec, Fields, Marble, Off
    <3>4. Counts(b)
      BY FlowAssumption DEF Good, Typed, Rec, Fields, Counts
    <3>5. Flags(b)
      BY FlowAssumption DEF Good, Typed, Rec, Fields, Flags
    <3> QED
      BY <3>1, <3>2, <3>3, <3>4, <3>5 DEF Typed
  <2>2. /\ b.m0 = t.m0 /\ b.m2 = None /\ b.wait = t.wait
        /\ b.scroll = t.scroll /\ b.banner = t.banner /\ b.base = t.base
        /\ b.word = t.word /\ b.entry = t.entry /\ b.cut = t.cut /\ b.stale = t.stale
    BY DEF Good, Typed, Rec, Fields
  <2>4. advanceMode2(t) = b
    BY <1>3 DEF advanceMode2
  <2> HIDE DEF b
  <2>3. Good(b)
    BY <1>3, <2>1, <2>2 DEF Good, Orderly, Based, Unspoilt, Solo, Fits
  <2> QED
    BY <2>3, <2>4
<1> QED
  BY <1>1, <1>2, <1>3

LEMMA DelaysKeep ==
    ASSUME NEW t, Good(t)
    PROVE  Good(delaysAdvance(t))
<1> DEFINE k == delaysAdvance(t)
<1>0. /\ \A n \in {0, 1, None} : Delay(n) \in {0, 1, None}
      /\ \A n \in Nat \cup {None} : Delay(n) \in Nat \cup {None}
  BY DEF Delay, None
<1>1. Typed(k)
  <2>1. Rec(k)
    BY <1>0 DEF Good, Typed, Rec, delaysAdvance
  <2>2. Words(k)
    BY <1>0 DEF Good, Typed, Rec, Fields, Words, delaysAdvance
  <2>3. Marble(k)
    BY <1>0 DEF Good, Typed, Rec, Fields, Marble, Off, delaysAdvance
  <2>4. Counts(k)
    BY <1>0 DEF Good, Typed, Rec, Fields, Counts, delaysAdvance
  <2>5. Flags(k)
    BY <1>0 DEF Good, Typed, Rec, Fields, Flags, delaysAdvance
  <2> QED
    BY <2>1, <2>2, <2>3, <2>4, <2>5 DEF Typed
<1>2. /\ k.m0 = t.m0 /\ k.m2 = t.m2 /\ k.hud = Delay(t.hud) /\ k.wait = Delay(t.wait)
      /\ k.scroll = t.scroll /\ k.banner = t.banner /\ k.base = t.base
      /\ k.word = t.word /\ k.entry = t.entry /\ k.cut = t.cut /\ k.stale = t.stale
  BY DEF Good, Typed, Rec, Fields, delaysAdvance
<1>3. Delay(None) = None
  BY DEF Delay, None
<1> HIDE DEF k
<1>4. (k.hud # None => t.hud # None) /\ (k.wait # None => t.wait # None)
  BY <1>2, <1>3
<1>5. Good(k)
  BY <1>1, <1>2, <1>4 DEF Good, Orderly, Based, Unspoilt, Solo, Fits
<1> QED
  BY <1>5 DEF k

-----------------------------------------------------------------------------
(* The dispatcher, which finds no activity.                                *)

LEMMA DwellEndsKeeps ==
    ASSUME NEW t, Good(t), Free(t), t.word = 1
    PROVE  Good(dwellEnds(t)) /\ ~(dwellEnds(t).m0 = None /\ dwellEnds(t).mode = 0)
<1> DEFINE next == IF t.mode + 1 > 2 THEN 0 ELSE t.mode + 1
           page == [t EXCEPT !.dwell = 0, !.mode = next]
           a == startMode2(page)
           b == startMode0(page)
           c == [page EXCEPT !.dwell = 1]
           k == dwellEnds(t)
<1>1. next \in 0..2
  BY DEF Good, Typed, Words
<1>2. \/ next = 2 /\ k = a
      \/ next = 0 /\ k = b
      \/ next = 1 /\ k = c
  BY <1>1 DEF dwellEnds
<1> HIDE DEF next, k
<1>3. Typed(page) /\ Typed(a) /\ Typed(b) /\ Typed(c)
  <2>1. Typed(page)
    <3>1. Rec(page)
      BY <1>1 DEF Good, Typed, Rec
    <3>2. Words(page)
      BY <1>1 DEF Good, Typed, Rec, Fields, Words
    <3>3. Marble(page)
      BY <1>1 DEF Good, Typed, Rec, Fields, Marble, Off
    <3>4. Counts(page)
      BY <1>1 DEF Good, Typed, Rec, Fields, Counts
    <3>5. Flags(page)
      BY <1>1 DEF Good, Typed, Rec, Fields, Flags
    <3> QED
      BY <3>1, <3>2, <3>3, <3>4, <3>5 DEF Typed
  <2> HIDE DEF page
  <2>2. Typed(a)
    <3>1. Rec(a)
      BY <2>1, FlowAssumption DEF Typed, Rec, startMode2
    <3>2. Words(a)
      BY <2>1, FlowAssumption DEF Typed, Rec, Fields, Words, startMode2
    <3>3. Marble(a)
      BY <2>1, FlowAssumption DEF Typed, Rec, Fields, Marble, Off, startMode2
    <3>4. Counts(a)
      BY <2>1, FlowAssumption DEF Typed, Rec, Fields, Counts, startMode2
    <3>5. Flags(a)
      BY <2>1, FlowAssumption DEF Typed, Rec, Fields, Flags, startMode2
    <3> QED
      BY <3>1, <3>2, <3>3, <3>4, <3>5 DEF Typed
  <2>3. Typed(b)
    <3>1. Rec(b)
      BY <2>1 DEF Typed, Rec, startMode0
    <3>2. Words(b)
      BY <2>1 DEF Typed, Rec, Fields, Words, startMode0
    <3>3. Marble(b)
      BY <2>1 DEF Typed, Rec, Fields, Marble, Off, startMode0
    <3>4. Counts(b)
      BY <2>1 DEF Typed, Rec, Fields, Counts, startMode0
    <3>5. Flags(b)
      BY <2>1 DEF Typed, Rec, Fields, Flags, startMode0
    <3> QED
      BY <3>1, <3>2, <3>3, <3>4, <3>5 DEF Typed
  <2>4. Typed(c)
    <3>1. Rec(c)
      BY <2>1 DEF Typed, Rec
    <3>2. Words(c)
      BY <2>1 DEF Typed, Rec, Fields, Words
    <3>3. Marble(c)
      BY <2>1 DEF Typed, Rec, Fields, Marble, Off
    <3>4. Counts(c)
      BY <2>1 DEF Typed, Rec, Fields, Counts
    <3>5. Flags(c)
      BY <2>1 DEF Typed, Rec, Fields, Flags
    <3> QED
      BY <3>1, <3>2, <3>3, <3>4, <3>5 DEF Typed
  <2> QED
    BY <2>1, <2>2, <2>3, <2>4
<1>4. /\ a.mode = next /\ a.m0 = t.m0 /\ a.hud = t.hud /\ a.wait = t.wait
      /\ a.scroll = t.scroll /\ a.banner = t.banner /\ a.base = t.base
      /\ a.word = t.word /\ a.entry = t.entry /\ a.cut = t.cut /\ a.stale = t.stale
  BY DEF Good, Typed, Rec, Fields, startMode2
<1>5. /\ b.m0 = 0 /\ b.m2 = t.m2 /\ b.hud = t.hud /\ b.wait = t.wait
      /\ b.scroll = t.scroll /\ b.banner = t.banner /\ b.base = t.base
      /\ b.word = t.word /\ b.entry = t.entry /\ b.cut = t.cut /\ b.stale = t.stale
  BY DEF Good, Typed, Rec, Fields, startMode0
<1>6. /\ c.mode = next /\ c.word = t.word /\ c.stale = t.stale
      /\ c.m0 = t.m0 /\ c.m2 = t.m2 /\ c.hud = t.hud /\ c.wait = t.wait
      /\ c.scroll = t.scroll /\ c.banner = t.banner /\ c.base = t.base
      /\ c.entry = t.entry /\ c.cut = t.cut
  BY DEF Good, Typed, Rec, Fields
<1> HIDE DEF a, b, c
<1>7. Good(a)
  BY <1>3, <1>4 DEF Free, Good, Orderly, Based, Unspoilt, Solo, Fits
<1>8. Good(b)
  BY <1>3, <1>5 DEF Free, Good, Orderly, Based, Unspoilt, Solo, Fits
<1>9. Good(c)
  BY <1>3, <1>6 DEF Free, Good, Orderly, Based, Unspoilt, Solo, Fits
<1>10. Good(k) /\ ~(k.m0 = None /\ k.mode = 0)
  BY <1>2, <1>4, <1>5, <1>6, <1>7, <1>8, <1>9 DEF None
<1> QED
  BY <1>10 DEF k

\* a page of the attract mode is shown for a body more
LEMMA ShownTyped ==
    ASSUME NEW t, Good(t), t.dwell # 0
    PROVE  LET less == [t EXCEPT !.dwell = @ - 1]
           IN  /\ Typed(less) /\ SameOwners(t, less)
               /\ less.word = t.word /\ less.stale = t.stale
<1> DEFINE less == [t EXCEPT !.dwell = @ - 1]
<1>1. Rec(less)
  BY DEF Good, Typed, Rec
<1>2. Words(less)
  BY DEF Good, Typed, Rec, Fields, Words
<1>3. Marble(less)
  BY DEF Good, Typed, Rec, Fields, Marble, Off
<1>4. Counts(less)
  BY DEF Good, Typed, Rec, Fields, Counts
<1>5. Flags(less)
  BY DEF Good, Typed, Rec, Fields, Flags
<1>6. SameOwners(t, less) /\ less.word = t.word /\ less.stale = t.stale
  BY DEF Good, Typed, Rec, Fields, SameOwners
<1> QED
  BY <1>1, <1>2, <1>3, <1>4, <1>5, <1>6 DEF Typed

LEMMA Case1Keeps ==
    ASSUME NEW t, Good(t), Free(t), t.word = 1, NEW k \in Case1(t)
    PROVE  Good(k)
<1> DEFINE less == [t EXCEPT !.dwell = @ - 1]
           waited == CASE t.dwell = 0 -> t
                       [] t.dwell = 1 -> dwellEnds(t)
                       [] OTHER -> [t EXCEPT !.dwell = @ - 1]
<1>1. \/ waited = t
      \/ waited = dwellEnds(t)
      \/ waited = less /\ t.dwell # 0
  OBVIOUS
<1>2. IF waited.m0 = None /\ waited.mode = 0 THEN k \in RefreshFrame(waited)
      ELSE k = waited
  BY DEF Case1
<1>3. ~Held(t)
  BY FreeOwners DEF Free
<1>4. t.dwell # 0 => /\ Typed(less) /\ SameOwners(t, less)
                    /\ less.word = t.word /\ less.stale = t.stale
  BY ShownTyped
<1> HIDE DEF less, waited
<1>5. t.dwell # 0 => Good(less) /\ ~Held(less)
  BY <1>3, <1>4, SameKeeps, SameHolds
<1> QED
  BY <1>1, <1>2, <1>3, <1>5, DwellEndsKeeps, RefreshKeeps

LEMMA WordTyped ==
    ASSUME NEW t, Typed(t), NEW w \in 0..6
    PROVE  Typed([t EXCEPT !.word = w])
<1> DEFINE k == [t EXCEPT !.word = w]
<1>1. Rec(k)
  BY DEF Typed, Rec
<1>2. Words(k)
  BY DEF Typed, Rec, Fields, Words
<1>3. Marble(k)
  BY DEF Typed, Rec, Fields, Marble
<1>4. Counts(k)
  BY DEF Typed, Rec, Fields, Counts
<1>5. Flags(k)
  BY DEF Typed, Rec, Fields, Flags
<1> QED
  BY <1>1, <1>2, <1>3, <1>4, <1>5 DEF Typed

LEMMA Case2Keeps ==
    ASSUME NEW t, Good(t), Free(t), t.word = 4
    PROVE  Good(case2(t))
<1> DEFINE shown == stateSub16A20(t)
           a == [shown EXCEPT !.word = 2,
                              !.wait = IF t.slot = 2 /\ @ = None THEN Waits.timeout ELSE @]
           k == case2(t)
<1>0. Typed(Parked(t))
  <2>1. Rec(Parked(t))
    BY DEF Good, Typed, Rec, Parked
  <2>2. Words(Parked(t))
    BY DEF Good, Typed, Rec, Fields, Words, Parked
  <2>3. Marble(Parked(t))
    BY DEF Good, Typed, Rec, Fields, Marble, Off, Parked
  <2>4. Counts(Parked(t))
    BY DEF Good, Typed, Rec, Fields, Counts, Parked
  <2>5. Flags(Parked(t))
    BY DEF Good, Typed, Rec, Fields, Flags, Parked
  <2> QED
    BY <2>1, <2>2, <2>3, <2>4, <2>5 DEF Typed
<1>1. Typed(shown)
  <2>1. shown \in {Parked(t), [Parked(t) EXCEPT !.word = 0], [t EXCEPT !.word = 0]}
    BY DEF stateSub16A20
  <2>2. 0 \in 0..6 /\ Typed(t)
    BY DEF Good
  <2>3. Typed([Parked(t) EXCEPT !.word = 0]) /\ Typed([t EXCEPT !.word = 0])
    BY <1>0, <2>2, WordTyped
  <2> QED
    BY <1>0, <2>1, <2>3
<1>2. /\ shown.m0 = t.m0 /\ shown.m2 = t.m2 /\ shown.hud = t.hud /\ shown.wait = t.wait
      /\ shown.scroll = t.scroll /\ shown.banner = t.banner /\ shown.base = t.base
      /\ shown.entry = t.entry /\ shown.cut = t.cut
  BY DEF Good, Typed, Rec, Fields, stateSub16A20, Parked
<1>3. k = IF shown.word = 0 THEN shown ELSE a
  BY DEF case2
<1> HIDE DEF shown, k
<1>4. Typed(a)
  <2>1. Rec(a)
    BY FlowAssumption, <1>1 DEF Typed, Rec
  <2>2. Words(a)
    BY FlowAssumption, <1>1 DEF Typed, Rec, Fields, Words
  <2>3. Marble(a)
    BY FlowAssumption, <1>1 DEF Typed, Rec, Fields, Marble, Off
  <2>4. Counts(a)
    BY FlowAssumption, <1>1 DEF Typed, Rec, Fields, Counts
  <2>5. Flags(a)
    BY FlowAssumption, <1>1 DEF Typed, Rec, Fields, Flags
  <2> QED
    BY <2>1, <2>2, <2>3, <2>4, <2>5 DEF Typed
<1>5. /\ a.word = 2
      /\ a.m0 = shown.m0 /\ a.m2 = shown.m2 /\ a.hud = shown.hud
      /\ a.scroll = shown.scroll /\ a.banner = shown.banner /\ a.base = shown.base
      /\ a.entry = shown.entry /\ a.cut = shown.cut
  BY <1>1 DEF Typed, Rec, Fields
<1> HIDE DEF a
<1>6. Good(a)
  BY <1>2, <1>4, <1>5 DEF Free, Good, Orderly, Based, Unspoilt, Solo, Fits
<1>7. shown.word = 0 => Good(shown)
  BY <1>1, <1>2 DEF Free, Good, Orderly, Based, Unspoilt, Solo, Fits
<1>8. Good(k)
  BY <1>3, <1>6, <1>7
<1> QED
  BY <1>8 DEF k

LEMMA Case3Keeps ==
    ASSUME NEW t, Good(t), Free(t), NEW ranks \in BOOLEAN
    PROVE  Good(case3(t, ranks))
<1> DEFINE k == case3(t, ranks)
<1>1. Typed(k)
  <2>1. Rec(k)
    BY FlowAssumption, NoneEarned DEF Good, Typed, Rec, case3
  <2>2. Words(k)
    BY FlowAssumption, NoneEarned DEF Good, Typed, Rec, Fields, Words, case3
  <2>3. Marble(k)
    BY FlowAssumption, NoneEarned DEF Good, Typed, Rec, Fields, Marble, Off, case3
  <2>4. Counts(k)
    BY FlowAssumption, NoneEarned DEF Good, Typed, Rec, Fields, Counts, case3
  <2>5. Flags(k)
    BY FlowAssumption, NoneEarned DEF Good, Typed, Rec, Fields, Flags, case3
  <2> QED
    BY <2>1, <2>2, <2>3, <2>4, <2>5 DEF Typed
<1>2. /\ k.word = 1 /\ ~k.stale /\ k.m0 = t.m0 /\ (ranks => k.m2 = t.m2)
      /\ k.hud = t.hud /\ k.wait = t.wait
      /\ k.scroll = t.scroll /\ k.banner = t.banner /\ k.base = t.base
      /\ k.entry = ranks /\ k.cut = t.cut
  BY DEF Good, Typed, Rec, Fields, case3
<1> HIDE DEF k
<1>3. Good(k)
  BY <1>1, <1>2 DEF Free, Good, Orderly, Based, Unspoilt, Solo, Fits
<1> QED
  BY <1>3 DEF k

(* A level or a game begins with its intro and nothing beside it.          *)
LEMMA PlayBegins ==
    ASSUME NEW t, Typed(t), NEW time \in Nat, ~t.cut => Free(t),
           NEW k, Typed(k), k.word = 0,
           k.m0 = t.m0, k.m2 = t.m2, k.hud = t.hud, k.wait = t.wait,
           k.scroll = 0, k.banner = None, k.base = time,
           k.entry = t.entry, k.cut = t.cut
    PROVE  Good(k)
  BY DEF Free, Good, Orderly, Based, Unspoilt, Solo, Fits, None

LEMMA FinishKeeps ==
    ASSUME NEW t, Good(t), Free(t)
    PROVE  Good(finishCase4(t))
<1> DEFINE k == finishCase4(t)
           made == mainLoopInit10504(t)
           armed == armLevelIntroScroll(made, t.sec)
           over == [t EXCEPT !.word = 6]
           play == [armed EXCEPT !.word = 0]
<1>0. k \in {over, play}
  BY DEF finishCase4
<1>1. Typed(over)
  <2>1. Rec(over)
    BY DEF Good, Typed, Rec
  <2>2. Words(over)
    BY DEF Good, Typed, Rec, Fields, Words
  <2>3. Marble(over)
    BY DEF Good, Typed, Rec, Fields, Marble, Off
  <2>4. Counts(over)
    BY DEF Good, Typed, Rec, Fields, Counts
  <2>5. Flags(over)
    BY DEF Good, Typed, Rec, Fields, Flags
  <2> QED
    BY <2>1, <2>2, <2>3, <2>4, <2>5 DEF Typed
<1>2. over.word = 6 /\ SameOwners(t, over)
  BY DEF Good, Typed, Rec, Fields, SameOwners
<1>3. Typed(made) /\ SameOwners(t, made) /\ t.sec \in Nat
  BY InitTyped DEF Good, Typed, Marble
<1> HIDE DEF k, made, over
<1>4. /\ Typed(armed) /\ armed.scroll = 0 /\ armed.banner = None /\ armed.base = t.sec
      /\ armed.m0 = made.m0 /\ armed.m2 = made.m2 /\ armed.hud = made.hud
      /\ armed.wait = made.wait /\ armed.entry = made.entry /\ armed.cut = made.cut
  BY <1>3, ScrollTyped
<1> HIDE DEF armed
<1>5. Typed(play)
  <2>1. Rec(play)
    BY <1>4 DEF Typed, Rec
  <2>2. Words(play)
    BY <1>4 DEF Typed, Rec, Fields, Words
  <2>3. Marble(play)
    BY <1>4 DEF Typed, Rec, Fields, Marble, Off
  <2>4. Counts(play)
    BY <1>4 DEF Typed, Rec, Fields, Counts
  <2>5. Flags(play)
    BY <1>4 DEF Typed, Rec, Fields, Flags
  <2> QED
    BY <2>1, <2>2, <2>3, <2>4, <2>5 DEF Typed
<1>6. /\ play.word = 0 /\ play.scroll = 0 /\ play.banner = None /\ play.base = t.sec
      /\ play.m0 = t.m0 /\ play.m2 = t.m2 /\ play.hud = t.hud
      /\ play.wait = t.wait /\ play.entry = t.entry /\ play.cut = t.cut
  BY <1>3, <1>4 DEF Typed, Rec, Fields, SameOwners
<1> HIDE DEF play
<1>7. Good(play)
  BY <1>3, <1>5, <1>6, PlayBegins DEF Good
<1>8. Good(over)
  BY <1>1, <1>2 DEF SameOwners, Free, Good, Orderly, Based, Unspoilt, Solo, Fits
<1> QED
  BY <1>0, <1>7, <1>8 DEF k

\* the level is counted before its score is shown, which ends later
LEMMA CountedTyped ==
    ASSUME NEW t, Good(t)
    PROVE  LET next == [t EXCEPT !.level = @ + 1]
               done == [t EXCEPT !.pending = FALSE]
           IN  /\ Typed(next) /\ Typed(done)
               /\ SameOwners(t, next) /\ next.word = t.word /\ next.stale = t.stale
               /\ SameOwners(t, done) /\ done.word = t.word /\ done.stale = t.stale
<1> DEFINE next == [t EXCEPT !.level = @ + 1]
           done == [t EXCEPT !.pending = FALSE]
<1>1. Typed(next)
  <2>1. Rec(next)
    BY DEF Good, Typed, Rec
  <2>2. Words(next)
    BY DEF Good, Typed, Rec, Fields, Words
  <2>3. Marble(next)
    BY DEF Good, Typed, Rec, Fields, Marble, Off
  <2>4. Counts(next)
    BY DEF Good, Typed, Rec, Fields, Counts
  <2>5. Flags(next)
    BY DEF Good, Typed, Rec, Fields, Flags
  <2> QED
    BY <2>1, <2>2, <2>3, <2>4, <2>5 DEF Typed
<1>2. Typed(done)
  <2>1. Rec(done)
    BY DEF Good, Typed, Rec
  <2>2. Words(done)
    BY DEF Good, Typed, Rec, Fields, Words
  <2>3. Marble(done)
    BY DEF Good, Typed, Rec, Fields, Marble, Off
  <2>4. Counts(done)
    BY DEF Good, Typed, Rec, Fields, Counts
  <2>5. Flags(done)
    BY DEF Good, Typed, Rec, Fields, Flags
  <2> QED
    BY <2>1, <2>2, <2>3, <2>4, <2>5 DEF Typed
<1>3. /\ SameOwners(t, next) /\ next.word = t.word /\ next.stale = t.stale
      /\ SameOwners(t, done) /\ done.word = t.word /\ done.stale = t.stale
  BY DEF Good, Typed, Rec, Fields, SameOwners
<1> QED
  BY <1>1, <1>2, <1>3

LEMMA Case4Keeps ==
    ASSUME NEW t, Good(t), Free(t), t.word = 3
    PROVE  Good(case4(t))
<1> DEFINE next == [t EXCEPT !.level = @ + 1]
           done == [t EXCEPT !.pending = FALSE]
           hold == [next EXCEPT !.pending = TRUE, !.wait = Waits.level]
           k == case4(t)
<1>0. k \in {finishCase4(done), hold, finishCase4(next)}
  BY DEF case4
<1>1. Typed(next) /\ Typed(done)
  BY CountedTyped
<1>3. /\ SameOwners(t, next) /\ next.word = t.word /\ next.stale = t.stale
      /\ SameOwners(t, done) /\ done.word = t.word /\ done.stale = t.stale
  BY CountedTyped
<1> HIDE DEF next, done, k
<1>4. Typed(hold)
  <2>1. Rec(hold)
    BY FlowAssumption, <1>1 DEF Typed, Rec
  <2>2. Words(hold)
    BY FlowAssumption, <1>1 DEF Typed, Rec, Fields, Words
  <2>3. Marble(hold)
    BY FlowAssumption, <1>1 DEF Typed, Rec, Fields, Marble, Off
  <2>4. Counts(hold)
    BY FlowAssumption, <1>1 DEF Typed, Rec, Fields, Counts
  <2>5. Flags(hold)
    BY FlowAssumption, <1>1 DEF Typed, Rec, Fields, Flags
  <2> QED
    BY <2>1, <2>2, <2>3, <2>4, <2>5 DEF Typed
<1>5. /\ hold.word = next.word /\ hold.stale = next.stale
      /\ hold.m0 = next.m0 /\ hold.m2 = next.m2 /\ hold.hud = next.hud
      /\ hold.scroll = next.scroll /\ hold.banner = next.banner
      /\ hold.base = next.base /\ hold.entry = next.entry /\ hold.cut = next.cut
  BY <1>1 DEF Typed, Rec, Fields
<1> HIDE DEF hold
<1>6. Good(next) /\ Free(next) /\ Good(done) /\ Free(done)
  BY <1>1, <1>3, SameKeeps, SameHolds
<1>7. Good(hold)
  BY <1>3, <1>4, <1>5, <1>6 DEF Free, Good, Orderly, Based, Unspoilt, Solo, Fits
<1> QED
  BY <1>0, <1>6, <1>7, FinishKeeps DEF k

LEMMA Case5Keeps ==
    ASSUME NEW t, Good(t), Free(t)
    PROVE  Good(case5(t))
<1> DEFINE fresh == [t EXCEPT !.mode = 0, !.seg = 2, !.level = FirstLevel]
           prepared == gameModePrep(fresh)
           made == mainLoopInit10504(prepared)
           armed == armLevelIntroScroll(made, 0)
           play == [armed EXCEPT !.word = 0,
                                 !.earned = [time |-> 0, level |-> FirstLevel - 1]]
<1>0. case5(t) = play
  BY DEF case5
<1>1. Typed(fresh)
  <2>1. Rec(fresh)
    BY FlowAssumption DEF Good, Typed, Rec, Levels
  <2>2. Words(fresh)
    BY FlowAssumption DEF Good, Typed, Rec, Fields, Words, Levels
  <2>3. Marble(fresh)
    BY FlowAssumption DEF Good, Typed, Rec, Fields, Marble, Off, Levels
  <2>4. Counts(fresh)
    BY FlowAssumption DEF Good, Typed, Rec, Fields, Counts, Levels
  <2>5. Flags(fresh)
    BY FlowAssumption DEF Good, Typed, Rec, Fields, Flags, Levels
  <2> QED
    BY <2>1, <2>2, <2>3, <2>4, <2>5 DEF Typed
<1>2. /\ fresh.m0 = t.m0 /\ fresh.m2 = t.m2 /\ fresh.hud = t.hud
      /\ fresh.wait = t.wait /\ fresh.entry = t.entry /\ fresh.cut = t.cut
  BY DEF Good, Typed, Rec, Fields
<1> HIDE DEF fresh
<1>3. Typed(prepared) /\ SameOwners(fresh, prepared)
  BY <1>1, PrepTyped
<1> HIDE DEF prepared
<1>4. Typed(made) /\ SameOwners(prepared, made)
  BY <1>3, InitTyped
<1> HIDE DEF made
<1>5. /\ Typed(armed) /\ armed.scroll = 0 /\ armed.banner = None /\ armed.base = 0
      /\ armed.m0 = made.m0 /\ armed.m2 = made.m2 /\ armed.hud = made.hud
      /\ armed.wait = made.wait /\ armed.entry = made.entry /\ armed.cut = made.cut
  BY <1>4, ScrollTyped
<1> HIDE DEF armed
<1>6. [time |-> 0, level |-> FirstLevel - 1] \in [time : Nat \cup {None}, level : Int]
  BY FlowAssumption DEF Levels
<1>7. Typed(play)
  <2>1. Rec(play)
    BY <1>5, <1>6 DEF Typed, Rec
  <2>2. Words(play)
    BY <1>5, <1>6 DEF Typed, Rec, Fields, Words
  <2>3. Marble(play)
    BY <1>5, <1>6 DEF Typed, Rec, Fields, Marble, Off
  <2>4. Counts(play)
    BY <1>5, <1>6 DEF Typed, Rec, Fields, Counts
  <2>5. Flags(play)
    BY <1>5, <1>6 DEF Typed, Rec, Fields, Flags
  <2> QED
    BY <2>1, <2>2, <2>3, <2>4, <2>5 DEF Typed
<1>8. /\ play.word = 0 /\ play.scroll = 0 /\ play.banner = None /\ play.base = 0
      /\ play.m0 = t.m0 /\ play.m2 = t.m2 /\ play.hud = t.hud
      /\ play.wait = t.wait /\ play.entry = t.entry /\ play.cut = t.cut
  BY <1>2, <1>3, <1>4, <1>5 DEF Typed, Rec, Fields, SameOwners
<1> HIDE DEF play
<1>9. Good(play)
  BY <1>7, <1>8, PlayBegins DEF Good
<1> QED
  BY <1>0, <1>9

LEMMA Case6Keeps ==
    ASSUME NEW t, Good(t), Free(t)
    PROVE  Good(case6(t))
<1> DEFINE k == case6(t)
<1>1. Typed(k)
  <2>1. Rec(k)
    BY FlowAssumption DEF Good, Typed, Rec, case6
  <2>2. Words(k)
    BY FlowAssumption DEF Good, Typed, Rec, Fields, Words, case6
  <2>3. Marble(k)
    BY FlowAssumption DEF Good, Typed, Rec, Fields, Marble, Off, case6
  <2>4. Counts(k)
    BY FlowAssumption DEF Good, Typed, Rec, Fields, Counts, case6
  <2>5. Flags(k)
    BY FlowAssumption DEF Good, Typed, Rec, Fields, Flags, case6
  <2> QED
    BY <2>1, <2>2, <2>3, <2>4, <2>5 DEF Typed
<1>2. /\ k.word = 2 /\ k.m0 = t.m0 /\ k.m2 = t.m2 /\ k.hud = t.hud
      /\ k.scroll = t.scroll /\ k.banner = t.banner /\ k.base = t.base
      /\ k.entry = t.entry /\ k.cut = t.cut
  BY DEF Good, Typed, Rec, Fields, case6
<1> HIDE DEF k
<1>3. Good(k)
  BY <1>1, <1>2 DEF Free, Good, Orderly, Based, Unspoilt, Solo, Fits
<1> QED
  BY <1>3 DEF k

LEMMA DispatcherKeeps ==
    ASSUME NEW t, Good(t), Free(t), NEW k \in MainLoopInit1101E(t)
    PROVE  Good(k)
<1>0. t.word \in 0..6
  BY DEF Good, Typed, Words
<1>1. CASE t.word = 0
  <2>1. ~Held(t)
    BY FreeOwners DEF Free
  <2> QED
    BY <1>1, <2>1, RefreshKeeps DEF MainLoopInit1101E
<1>2. CASE t.word = 1
  BY <1>2, Case1Keeps DEF MainLoopInit1101E
<1>3. CASE t.word = 2
  BY <1>3, Case3Keeps DEF MainLoopInit1101E
<1>4. CASE t.word = 3
  BY <1>4, Case4Keeps DEF MainLoopInit1101E
<1>5. CASE t.word = 4
  BY <1>5, Case2Keeps DEF MainLoopInit1101E
<1>6. CASE t.word = 5
  BY <1>6, Case5Keeps DEF MainLoopInit1101E
<1>7. CASE t.word = 6
  BY <1>7, Case6Keeps DEF MainLoopInit1101E
<1> QED
  BY <1>0, <1>1, <1>2, <1>3, <1>4, <1>5, <1>6, <1>7

-----------------------------------------------------------------------------
(* A frame.                                                                *)

\* a tick turns the parity
LEMMA TurnedTyped ==
    ASSUME NEW t, Good(t)
    PROVE  LET turned == [t EXCEPT !.odd = ~@]
           IN  /\ Typed(turned) /\ SameOwners(t, turned)
               /\ turned.word = t.word /\ turned.stale = t.stale
<1> DEFINE turned == [t EXCEPT !.odd = ~@]
<1>1. Rec(turned)
  BY DEF Good, Typed, Rec
<1>2. Words(turned)
  BY DEF Good, Typed, Rec, Fields, Words
<1>3. Marble(turned)
  BY DEF Good, Typed, Rec, Fields, Marble, Off
<1>4. Counts(turned)
  BY DEF Good, Typed, Rec, Fields, Counts
<1>5. Flags(turned)
  BY DEF Good, Typed, Rec, Fields, Flags
<1>6. SameOwners(t, turned) /\ turned.word = t.word /\ turned.stale = t.stale
  BY DEF Good, Typed, Rec, Fields, SameOwners
<1> QED
  BY <1>1, <1>2, <1>3, <1>4, <1>5, <1>6 DEF Typed

(* start is the game when the frame begins, before its clock and its gate. *)
LEMMA BodyKeeps ==
    ASSUME NEW t, NEW start, Good(t), SameOwners(start, t), ~Blocked(start),
           NEW k \in Body(t, start)
    PROVE  Good(k)
<1> DEFINE turned == [t EXCEPT !.odd = ~@]
<1>1. Typed(turned) /\ SameOwners(t, turned)
      /\ turned.word = t.word /\ turned.stale = t.stale
  BY TurnedTyped
<1>2. \/ k = turned
      \/ \E b \in IF InDemo(start) THEN RefreshFrame(turned) ELSE MainLoopInit1101E(turned) :
            \E late \in BOOLEAN : k = [b EXCEPT !.odd = late]
  BY DEF Body
<1> HIDE DEF turned
<1>3. Good(turned)
  BY <1>1, SameKeeps
<1>4. ASSUME NEW b \in IF InDemo(start) THEN RefreshFrame(turned)
                       ELSE MainLoopInit1101E(turned),
             NEW late \in BOOLEAN, k = [b EXCEPT !.odd = late]
      PROVE  Good(k)
  <2>1. ~Held(turned) /\ (Free(turned) \/ InDemo(start))
    BY <1>1, SameTwice, SameHolds, FreeOwners
  <2>2. Good(b)
    <3>1. CASE InDemo(start)
      BY <1>3, <1>4, <2>1, <3>1, RefreshKeeps
    <3>2. CASE ~InDemo(start)
      BY <1>3, <1>4, <2>1, <3>2, DispatcherKeeps
    <3> QED
      BY <3>1, <3>2
  <2>3. Typed(k) /\ SameOwners(b, k) /\ k.word = b.word /\ k.stale = b.stale
    <3>1. Rec(k)
      BY <1>4, <2>2 DEF Good, Typed, Rec
    <3>2. Words(k)
      BY <1>4, <2>2 DEF Good, Typed, Rec, Fields, Words
    <3>3. Marble(k)
      BY <1>4, <2>2 DEF Good, Typed, Rec, Fields, Marble, Off
    <3>4. Counts(k)
      BY <1>4, <2>2 DEF Good, Typed, Rec, Fields, Counts
    <3>5. Flags(k)
      BY <1>4, <2>2 DEF Good, Typed, Rec, Fields, Flags
    <3>6. SameOwners(b, k) /\ k.word = b.word /\ k.stale = b.stale
      BY <1>4, <2>2 DEF Good, Typed, Rec, Fields, SameOwners
    <3> QED
      BY <3>1, <3>2, <3>3, <3>4, <3>5, <3>6 DEF Typed
  <2> QED
    BY <2>2, <2>3, SameKeeps
<1> QED
  BY <1>2, <1>3, <1>4

LEMMA InitialsKeep ==
    ASSUME NEW t, Good(t), NEW k \in Initials(t)
    PROVE  Good(k)
<1> DEFINE a == [t EXCEPT !.entry = FALSE]
           b == startMode2(a)
<1>1. k \in {t, a, b} /\ (k # t => t.entry)
  BY DEF Initials
<1>2. Typed(a)
  <2>1. Rec(a)
    BY DEF Good, Typed, Rec
  <2>2. Words(a)
    BY DEF Good, Typed, Rec, Fields, Words
  <2>3. Marble(a)
    BY DEF Good, Typed, Rec, Fields, Marble, Off
  <2>4. Counts(a)
    BY DEF Good, Typed, Rec, Fields, Counts
  <2>5. Flags(a)
    BY DEF Good, Typed, Rec, Fields, Flags
  <2> QED
    BY <2>1, <2>2, <2>3, <2>4, <2>5 DEF Typed
<1>3. /\ a.m0 = t.m0 /\ a.m2 = t.m2 /\ a.hud = t.hud /\ a.wait = t.wait
      /\ a.scroll = t.scroll /\ a.banner = t.banner /\ a.base = t.base
      /\ a.word = t.word /\ ~a.entry /\ a.cut = t.cut /\ a.stale = t.stale
  BY DEF Good, Typed, Rec, Fields
<1> HIDE DEF a
<1>4. Typed(b)
  <2>1. Rec(b)
    BY FlowAssumption, <1>2 DEF Typed, Rec, startMode2
  <2>2. Words(b)
    BY FlowAssumption, <1>2 DEF Typed, Rec, Fields, Words, startMode2
  <2>3. Marble(b)
    BY FlowAssumption, <1>2 DEF Typed, Rec, Fields, Marble, Off, startMode2
  <2>4. Counts(b)
    BY FlowAssumption, <1>2 DEF Typed, Rec, Fields, Counts, startMode2
  <2>5. Flags(b)
    BY FlowAssumption, <1>2 DEF Typed, Rec, Fields, Flags, startMode2
  <2> QED
    BY <2>1, <2>2, <2>3, <2>4, <2>5 DEF Typed
<1>5. /\ b.m0 = a.m0 /\ b.hud = a.hud /\ b.wait = a.wait
      /\ b.scroll = a.scroll /\ b.banner = a.banner /\ b.base = a.base
      /\ b.word = a.word /\ ~b.entry /\ b.cut = a.cut /\ b.stale = a.stale
  BY <1>2, <1>3 DEF Typed, Rec, Fields, startMode2
<1> HIDE DEF b
<1>6. Good(a)
  BY <1>2, <1>3 DEF Good, Orderly, Based, Unspoilt, Solo, Fits
<1>7. t.entry => Good(b)
  BY <1>3, <1>4, <1>5 DEF Good, Orderly, Based, Unspoilt, Solo, Fits
<1> QED
  BY <1>1, <1>6, <1>7

LEMMA StagedKeeps ==
    ASSUME NEW t, NEW start, Good(t), NEW fresh \in BOOLEAN, NEW k \in Staged(t, start, fresh)
    PROVE  Good(k)
<1> DEFINE shown == IF Mode0Deferred(t, start) THEN t ELSE advanceMode0(t)
<1>1. Good(shown)
  BY Mode0Keeps
<1>2. PICK i \in Initials(shown) :
               k = advanceLevelIntro(delaysAdvance(advanceMode2(i)), fresh)
  BY DEF Staged
<1> HIDE DEF shown
<1>3. Good(i)
  BY <1>1, <1>2, InitialsKeep
<1>4. Good(delaysAdvance(advanceMode2(i)))
  BY <1>3, Mode2Keeps, DelaysKeep
<1> QED
  BY <1>2, <1>4, IntroKeeps

LEMMA TickKeeps ==
    ASSUME NEW start, Good(start), NEW fresh \in BOOLEAN, NEW k, k \in MainTick(start, fresh)
    PROVE  Good(k)
<1>1. PICK g : g \in Gated(gameTickTimers(start)) /\
               \E b \in MainThread(g, start) : k \in Staged(b, start, fresh)
  BY DEF MainTick
<1>2. PICK b : b \in MainThread(g, start) /\ k \in Staged(b, start, fresh)
  BY <1>1
<1>3. Good(gameTickTimers(start)) /\ SameOwners(start, gameTickTimers(start))
  BY ClockKeeps
<1>4. Good(g) /\ SameOwners(start, g)
  BY <1>1, <1>3, GateKeeps, SameTwice
<1>5. Good(b)
  BY <1>2, <1>4, BodyKeeps DEF MainThread
<1> QED
  BY <1>2, <1>5, StagedKeeps

LEMMA SeededGood ==
    ASSUME NEW t, Good(t), NEW g \in Seeds
    PROVE  Good(Seeded(t, g))
<1> DEFINE k == Seeded(t, g)
<1>0. /\ g.mode \in 0..3 /\ g.level \in Nat /\ g.seg \in 0..7 /\ g.dwell \in Nat
      /\ g.slot \in 0..3 /\ g.type \in {0, 6, 8} /\ g.sec \in Nat
      /\ g.medium \in 0..Digits.medium /\ g.inner \in 0..Digits.inner \cup {Off}
      /\ g.odd \in BOOLEAN
  <2>1. g \in SeedType /\ LastLevel \in Nat
    BY FlowAssumption
  <2> QED
    BY <2>1 DEF SeedType, Levels
<1>1. Busy(t) \in BOOLEAN /\ (Busy(t) <=> ~Free(t))
  BY FreeOwners DEF Busy, Held
<1>2. Typed(k)
  <2>1. Rec(k)
    BY <1>0, <1>1, NoneEarned DEF Good, Typed, Rec, Seeded
  <2>2. Words(k)
    BY <1>0, <1>1, NoneEarned DEF Good, Typed, Rec, Fields, Words, Seeded
  <2>3. Marble(k)
    BY <1>0, <1>1, NoneEarned DEF Good, Typed, Rec, Fields, Marble, Off, Seeded
  <2>4. Counts(k)
    BY <1>0, <1>1, NoneEarned DEF Good, Typed, Rec, Fields, Counts, Seeded
  <2>5. Flags(k)
    BY <1>0, <1>1, NoneEarned DEF Good, Typed, Rec, Fields, Flags, Seeded
  <2> QED
    BY <2>1, <2>2, <2>3, <2>4, <2>5 DEF Typed
<1>3. /\ k.word = 0 /\ (~k.cut => Free(t))
      /\ k.m0 = t.m0 /\ k.m2 = t.m2 /\ k.hud = t.hud /\ k.wait = t.wait
      /\ k.scroll = t.scroll /\ k.banner = t.banner /\ k.base = t.base
      /\ k.entry = t.entry
  BY <1>1 DEF Good, Typed, Rec, Fields, Seeded
<1> HIDE DEF k
<1>4. Good(k)
  BY <1>2, <1>3 DEF Free, Good, Orderly, Based, Unspoilt, Solo, Fits
<1> QED
  BY <1>4 DEF k

LEMMA RearmedGood ==
    ASSUME NEW t, Good(t), NEW k, k \in Rearmed(t)
    PROVE  Good(k)
<1> DEFINE a == [t EXCEPT !.manual = FALSE]
<1>1. Typed(a) /\ SameOwners(t, a) /\ a.word = t.word /\ a.stale = t.stale
  <2>1. Rec(a)
    BY DEF Good, Typed, Rec
  <2>2. Words(a)
    BY DEF Good, Typed, Rec, Fields, Words
  <2>3. Marble(a)
    BY DEF Good, Typed, Rec, Fields, Marble, Off
  <2>4. Counts(a)
    BY DEF Good, Typed, Rec, Fields, Counts
  <2>5. Flags(a)
    BY DEF Good, Typed, Rec, Fields, Flags
  <2>6. SameOwners(t, a) /\ a.word = t.word /\ a.stale = t.stale
    BY DEF Good, Typed, Rec, Fields, SameOwners
  <2> QED
    BY <2>1, <2>2, <2>3, <2>4, <2>5, <2>6 DEF Typed
<1>2. k \in {t, a}
  BY DEF Rearmed
<1> HIDE DEF a
<1> QED
  BY <1>1, <1>2, SameKeeps

-----------------------------------------------------------------------------
(* The clock of a level.  It is parked while an intro is on and from the   *)
(* goal on; that it is running otherwise needs to know that an intro is    *)
(* that of a level (one of no level would leave it parked) and that the    *)
(* time has run out for a player who timed out.                            *)

Playable(t) == t.word = 0 => t.level \in Levels
Overdue(t) == t.word = 4 => t.slot = 2
Ticks(t) ==
    t.word = 0 /\ t.scroll = None /\ t.banner = None /\ t.type # 6 /\ t.earned.time # None
        => t.inner # Off
Runs(t) == ~t.cut => Playable(t) /\ Overdue(t) /\ Ticks(t)

SameClock(t, k) ==
    /\ k.word = t.word /\ k.level = t.level /\ k.slot = t.slot /\ k.type = t.type
    /\ k.scroll = t.scroll /\ k.banner = t.banner /\ k.earned = t.earned
    /\ k.inner = t.inner /\ k.cut = t.cut

LEMMA SameRuns ==
    ASSUME NEW t, NEW k, SameClock(t, k), Runs(t)
    PROVE  Runs(k)
  BY DEF SameClock, Runs, Playable, Overdue, Ticks

\* neither a level nor the end of its time
LEMMA ElsewhereRuns ==
    ASSUME NEW k, k.word \notin {0, 4} \/ k.cut
    PROVE  Runs(k)
  BY DEF Runs, Playable, Overdue, Ticks

LEMMA TickRuns ==
    ASSUME NEW t, Good(t), Runs(t)
    PROVE  Runs(gameTickTimers(t))
<1> DEFINE k == gameTickTimers(t)
           a == [t EXCEPT !.inner = @ - 1]
           b == [t EXCEPT !.inner = Digits.inner, !.medium = @ - 1]
           c == [t EXCEPT !.inner = Digits.inner, !.medium = Digits.medium, !.sec = @ - 1]
           e == Expired(t)
<1>1. t.inner \in 0..Digits.inner \cup {Off} /\ Digits.inner \in Nat /\ Off = -1
  BY FlowAssumption DEF Good, Typed, Marble, Off
<1>2. \/ k = t \/ k = e
      \/ t.inner # Off /\ t.inner > 0 /\ k = a
      \/ t.inner # Off /\ k = b
      \/ t.inner # Off /\ k = c
  BY Zenon DEF gameTickTimers, tickCascadingTimer
<1>3. e.word = 4 /\ e.slot = 2
  BY DEF Expired, Good, Typed, Rec, Fields
<1>4. /\ a.word = t.word /\ a.level = t.level /\ a.slot = t.slot /\ a.cut = t.cut
      /\ a.inner = t.inner - 1
  BY DEF Good, Typed, Rec, Fields
<1>5. /\ b.word = t.word /\ b.level = t.level /\ b.slot = t.slot /\ b.cut = t.cut
      /\ b.inner = Digits.inner
  BY DEF Good, Typed, Rec, Fields
<1>6. /\ c.word = t.word /\ c.level = t.level /\ c.slot = t.slot /\ c.cut = t.cut
      /\ c.inner = Digits.inner
  BY DEF Good, Typed, Rec, Fields
<1> HIDE DEF k, a, b, c, e
<1>7. Runs(e)
  BY <1>3 DEF Runs, Playable, Overdue, Ticks
<1>8. t.inner # Off /\ t.inner > 0 => Runs(a)
  BY <1>1, <1>4 DEF Runs, Playable, Overdue, Ticks
<1>9. t.inner # Off => Runs(b) /\ Runs(c)
  BY <1>1, <1>5, <1>6 DEF Runs, Playable, Overdue, Ticks
<1>10. Runs(k)
  BY <1>2, <1>7, <1>8, <1>9
<1> QED
  BY <1>10 DEF k

LEMMA GateRuns ==
    ASSUME NEW t, Good(t), Runs(t), NEW k, k \in Gated(t)
    PROVE  Runs(k)
<1>0. PICK falls \in BOOLEAN, credit \in Credits : k = gameMainGate(t, falls, credit)
  BY DEF Gated
<1>1. k.word = 5 \/ SameClock(t, k)
  BY <1>0 DEF Good, Typed, Rec, Fields, gameMainGate, SameClock
<1> QED
  BY <1>1, SameRuns, ElsewhereRuns

\* a marble at its goal, on its way or gone
LEMMA MovedRuns ==
    ASSUME NEW t, Good(t), Runs(t), NEW l \in Moved(t)
    PROVE  Runs(l) /\ l.cut = t.cut
<1> DEFINE g == GoalReached(t)
           a == [t EXCEPT !.type = 8]
           b == [t EXCEPT !.type = 0]
           c == [t EXCEPT !.sec = IF @ < MaxTime THEN @ + 1 ELSE @]
           d == [t EXCEPT !.slot = 3]
<1>1. \/ l = t
      \/ t.slot = 1 /\ l = g
      \/ t.slot = 1 /\ t.type = 0 /\ l = a
      \/ t.slot = 1 /\ t.type = 8 /\ l = b
      \/ t.slot = 1 /\ t.type = 8 /\ l = c
      \/ t.slot \in {1, 3} /\ l = d
  BY Zenon DEF Moved
<1>2. g.type = 6 /\ g.word = t.word /\ g.level = t.level /\ g.slot = t.slot /\ g.cut = t.cut
  BY DEF GoalReached, Parked, Good, Typed, Rec, Fields
<1>3. /\ a.word = t.word /\ a.level = t.level /\ a.slot = t.slot /\ a.scroll = t.scroll
      /\ a.banner = t.banner /\ a.earned = t.earned /\ a.inner = t.inner /\ a.cut = t.cut
  BY DEF Good, Typed, Rec, Fields
<1>4. /\ b.word = t.word /\ b.level = t.level /\ b.slot = t.slot /\ b.scroll = t.scroll
      /\ b.banner = t.banner /\ b.earned = t.earned /\ b.inner = t.inner /\ b.cut = t.cut
  BY DEF Good, Typed, Rec, Fields
<1>5. SameClock(t, c)
  BY DEF Good, Typed, Rec, Fields, SameClock
<1>6. /\ d.word = t.word /\ d.level = t.level /\ d.type = t.type /\ d.scroll = t.scroll
      /\ d.banner = t.banner /\ d.earned = t.earned /\ d.inner = t.inner /\ d.cut = t.cut
  BY DEF Good, Typed, Rec, Fields
<1> HIDE DEF g, a, b, c, d
<1>7. CASE t.slot = 1 /\ l = g
  BY <1>2, <1>7 DEF Runs, Playable, Overdue, Ticks
<1>8. CASE t.slot = 1 /\ t.type = 0 /\ l = a
  BY <1>3, <1>8 DEF Runs, Playable, Overdue, Ticks
<1>9. CASE t.slot = 1 /\ t.type = 8 /\ l = b
  BY <1>4, <1>9 DEF Runs, Playable, Overdue, Ticks
<1>10. CASE l = c
  BY <1>5, <1>10, SameRuns DEF SameClock
<1>11. CASE t.slot \in {1, 3} /\ l = d
  BY <1>6, <1>11 DEF Runs, Playable, Overdue, Ticks
<1> QED
  BY <1>1, <1>7, <1>8, <1>9, <1>10, <1>11

LEMMA RefreshRuns ==
    ASSUME NEW t, Good(t), Runs(t), NEW k \in RefreshFrame(t)
    PROVE  Runs(k) /\ k.cut = t.cut /\ (t.word = 1 => k.word = 1)
<1>0. PICK l \in Moved(t) : k = objectScanDispatch(l)
  BY DEF RefreshFrame
<1>1. Typed(l) /\ l.word = t.word /\ Runs(l) /\ l.cut = t.cut
  BY MovedTyped, MovedRuns DEF Good
<1>2. k = l \/ (l.word # 1 /\ k = [l EXCEPT !.word = 3])
  BY <1>0 DEF objectScanDispatch
<1>3. CASE l.word # 1 /\ k = [l EXCEPT !.word = 3]
  <2>1. k.word = 3 /\ k.cut = l.cut
    BY <1>1, <1>3 DEF Typed, Rec, Fields
  <2>2. Runs(k)
    BY <2>1, ElsewhereRuns
  <2> QED
    BY <1>1, <1>3, <2>1, <2>2
<1>4. CASE k = l
  BY <1>1, <1>4
<1> QED
  BY <1>2, <1>3, <1>4

LEMMA IntroRuns ==
    ASSUME NEW t, Good(t), Runs(t), NEW fresh \in BOOLEAN
    PROVE  Runs(advanceLevelIntro(t, fresh))
<1> DEFINE k == advanceLevelIntro(t, fresh)
           a == [t EXCEPT !.scroll = @ + 1]
           b == [t EXCEPT !.base = t.sec, !.scroll = 0]
           n == NoIntro(t)
           r == [t EXCEPT !.sec = t.base, !.scroll = None, !.banner = 0,
                          !.medium = Digits.medium, !.inner = Off]
           p == [t EXCEPT !.banner = t.banner + 1,
                          !.sec = IF AddsStep(t.banner + 1, Extra[t.level])
                                  THEN @ + Intro.step ELSE @]
           h == [p EXCEPT !.word = 0, !.inner = Digits.inner]
           e == NoIntro(h)
<1>1. \/ t.scroll # None /\ k = a
      \/ t.scroll # None /\ t.level \notin Levels /\ k = n
      \/ t.scroll # None /\ t.level \in Levels /\ k = r
      \/ t.banner # None /\ t.level \in Levels /\ k \in {p, e}
      \/ t.banner # None /\ t.level \notin Levels /\ k = n
      \/ WarmSeed(t) /\ k = b
      \/ k = t
  <2>1. advanceBanner(t) \in {p, e}
    BY DEF advanceBanner, HandedOver
  <2>2. armLevelIntroBanner(t) = IF t.level \notin Levels THEN n ELSE r
    BY DEF armLevelIntroBanner
  <2> HIDE DEF a, b, n, r, p, h, e
  <2> QED
    BY <2>1, <2>2, Zenon DEF advanceLevelIntro, a, b, n
<1>2. /\ Digits.inner \in Nat /\ Off = -1 /\ None = -1
      /\ t.scroll \in Nat \cup {None} /\ t.banner \in Nat \cup {None}
  BY FlowAssumption DEF Good, Typed, Counts, Off, None
<1>3. a.word = t.word /\ a.level = t.level /\ a.slot = t.slot /\ a.cut = t.cut
      /\ a.scroll = t.scroll + 1
  BY DEF Good, Typed, Rec, Fields
<1>4. b.word = t.word /\ b.level = t.level /\ b.slot = t.slot /\ b.cut = t.cut
      /\ b.scroll = 0
  BY DEF Good, Typed, Rec, Fields
<1>5. n.cut = t.cut
  BY DEF NoIntro, Good, Typed, Rec, Fields
<1>6. r.word = t.word /\ r.level = t.level /\ r.slot = t.slot /\ r.cut = t.cut
      /\ r.banner = 0
  BY DEF Good, Typed, Rec, Fields
<1>7. p.word = t.word /\ p.level = t.level /\ p.slot = t.slot /\ p.cut = t.cut
      /\ p.banner = t.banner + 1
  BY DEF Good, Typed, Rec, Fields
<1>8. e.word = 0 /\ e.level = t.level /\ e.inner = Digits.inner
  <2>1. h.word = 0 /\ h.level = t.level /\ h.inner = Digits.inner /\ Rec(h)
    BY DEF Good, Typed, Rec, Fields
  <2> HIDE DEF h
  <2> QED
    BY <2>1 DEF NoIntro, Rec, Fields
<1> HIDE DEF k, a, b, n, r, p, h, e
<1>9. (t.scroll # None \/ t.banner # None) /\ t.level \notin Levels => t.cut
  BY DEF Good, Orderly, Fits, Runs, Playable
<1>10. t.scroll # None => Runs(a)
  BY <1>2, <1>3 DEF Runs, Playable, Overdue, Ticks
<1>11. Runs(b)
  BY <1>2, <1>4 DEF Runs, Playable, Overdue, Ticks
<1>12. Runs(r)
  BY <1>2, <1>6 DEF Runs, Playable, Overdue, Ticks
<1>13. t.banner # None => Runs(p)
  BY <1>2, <1>7 DEF Runs, Playable, Overdue, Ticks
<1>14. t.level \in Levels => Runs(e)
  BY <1>2, <1>8 DEF Runs, Playable, Overdue, Ticks
<1>15. t.cut => Runs(n)
  BY <1>5 DEF Runs
<1>16. Runs(k)
  BY <1>1, <1>9, <1>10, <1>11, <1>12, <1>13, <1>14, <1>15
<1> QED
  BY <1>16 DEF k

(* The staged resets and the demos leave the state word alone, and with    *)
(* one of them on it is that of no level.                                  *)
LEMMA Mode0Runs ==
    ASSUME NEW t, Good(t), Runs(t)
    PROVE  Runs(advanceMode0(t))
<1> SUFFICES ASSUME t.m0 # None PROVE Runs(advanceMode0(t))
  BY DEF advanceMode0
<1> DEFINE k == updateMode0Timer(t)
           c == [k EXCEPT !.mode = 1, !.m0 = @ + 1]
           d == [k EXCEPT !.dwell = 1, !.m0 = @ + 1]
           p == presentationInit10504(k)
           f == [k EXCEPT !.mode = 3, !.seg = 0, !.dwell = Dwells.summary, !.m0 = None]
           g == [k EXCEPT !.seg = @ + 1, !.dwell = 0, !.m0 = @ + 1,
                          !.level = IF @ % 2 = 0 THEN @ + 1 ELSE @ - 1]
           x == advanceMode0(t)
<1>1. Typed(k) /\ k.word = t.word /\ k.cut = t.cut
  BY DemoClockTyped DEF Good, SameOwners
<1>2. x \in {EndDemo(k), c, d, NextSegment(k), NextStage(p), NextStage(k)}
  BY DEF advanceMode0
<1> HIDE DEF k, x
<1>3. Typed(p) /\ p.word = k.word /\ p.cut = k.cut
  BY <1>1, PresentationTyped DEF SameOwners
<1>4. NextSegment(k) \in {f, gameModePrep(g)}
  BY DEF NextSegment
<1>5. c.word = k.word /\ c.cut = k.cut /\ d.word = k.word /\ d.cut = k.cut
      /\ f.word = k.word /\ f.cut = k.cut
  BY <1>1 DEF Typed, Rec, Fields
<1>6. gameModePrep(g).word = k.word /\ gameModePrep(g).cut = k.cut
  <2>1. g.word = k.word /\ g.cut = k.cut /\ Rec(g)
    BY <1>1 DEF Typed, Rec, Fields
  <2> HIDE DEF g
  <2> QED
    BY <2>1 DEF gameModePrep, Rec, Fields
<1> HIDE DEF c, d, f, g, p
<1>7. /\ EndDemo(k).word = k.word /\ EndDemo(k).cut = k.cut
      /\ NextStage(k).word = k.word /\ NextStage(k).cut = k.cut
      /\ NextStage(p).word = p.word /\ NextStage(p).cut = p.cut
  BY <1>1, <1>3 DEF EndDemo, startMode2, NextStage, Typed, Rec, Fields
<1>8. x.word = t.word /\ x.cut = t.cut
  BY <1>1, <1>2, <1>3, <1>4, <1>5, <1>6, <1>7
<1>9. t.word \notin {0, 4} \/ t.cut
  BY DEF Good, Orderly, Fits
<1>10. Runs(x)
  BY <1>8, <1>9, ElsewhereRuns
<1> QED
  BY <1>10 DEF x

LEMMA Mode2Runs ==
    ASSUME NEW t, Good(t), Runs(t)
    PROVE  Runs(advanceMode2(t))
<1> DEFINE k == advanceMode2(t)
<1>1. SameClock(t, k)
  BY DEF Good, Typed, Rec, Fields, advanceMode2, SameClock
<1> QED
  BY <1>1, SameRuns

LEMMA DelaysRun ==
    ASSUME NEW t, Good(t), Runs(t)
    PROVE  Runs(delaysAdvance(t))
<1> DEFINE k == delaysAdvance(t)
<1>1. SameClock(t, k)
  BY DEF Good, Typed, Rec, Fields, delaysAdvance, SameClock
<1> QED
  BY <1>1, SameRuns

LEMMA InitialsRun ==
    ASSUME NEW t, Good(t), Runs(t), NEW k \in Initials(t)
    PROVE  Runs(k)
<1> DEFINE a == [t EXCEPT !.entry = FALSE]
           b == [a EXCEPT !.m2 = 0]
<1>0. k \in {t, a, b}
  BY DEF Initials, startMode2
<1>a. SameClock(t, a) /\ Rec(a)
  <2>1. Rec(a)
    BY DEF Good, Typed, Rec
  <2> QED
    BY <2>1 DEF Good, Typed, Rec, Fields, SameClock
<1> HIDE DEF a
<1>b. SameClock(a, b)
  BY <1>a DEF Rec, Fields, SameClock
<1> HIDE DEF b
<1>1. SameClock(t, k)
  BY <1>0, <1>a, <1>b DEF SameClock
<1> QED
  BY <1>1, SameRuns

LEMMA Case1Runs ==
    ASSUME NEW t, Good(t), Free(t), t.word = 1, NEW k \in Case1(t)
    PROVE  Runs(k)
<1> DEFINE less == [t EXCEPT !.dwell = @ - 1]
           ended == dwellEnds(t)
           waited == CASE t.dwell = 0 -> t
                       [] t.dwell = 1 -> dwellEnds(t)
                       [] OTHER -> [t EXCEPT !.dwell = @ - 1]
<1>1. waited = t \/ waited = ended \/ (waited = less /\ t.dwell # 0)
  OBVIOUS
<1>2. IF waited.m0 = None /\ waited.mode = 0 THEN k \in RefreshFrame(waited)
      ELSE k = waited
  BY DEF Case1
<1>3. less.word = 1
  BY DEF Good, Typed, Rec, Fields
<1>4. ended.word = 1
  <2> DEFINE next == IF t.mode + 1 > 2 THEN 0 ELSE t.mode + 1
             page == [t EXCEPT !.dwell = 0, !.mode = next]
  <2>1. page.word = 1 /\ Rec(page)
    BY DEF Good, Typed, Rec, Fields
  <2>2. next \in {0, 1, 2}
    BY DEF Good, Typed, Words
  <2>3. /\ startMode2(page).word = 1 /\ startMode0(page).word = 1
        /\ [page EXCEPT !.dwell = 1].word = 1
    <3> HIDE DEF page
    <3> QED
      BY <2>1 DEF Rec, Fields, startMode2, startMode0
  <2>4. ended \in {startMode2(page), startMode0(page), [page EXCEPT !.dwell = 1]}
    BY <2>2 DEF dwellEnds
  <2> HIDE DEF page, ended
  <2> QED
    BY <2>3, <2>4
<1> HIDE DEF less, ended, waited
<1>5. waited.word = 1
  BY <1>1, <1>3, <1>4
<1>6. waited.m0 = None /\ waited.mode = 0 => Good(waited)
  <2>1. t.dwell # 0 => Good(less)
    BY ShownTyped, SameKeeps DEF less
  <2>2. ~(ended.m0 = None /\ ended.mode = 0)
    BY DwellEndsKeeps DEF ended
  <2> QED
    BY <1>1, <2>1, <2>2
<1>7. Runs(k)
  BY <1>2, <1>5, <1>6, RefreshRuns, ElsewhereRuns
<1> QED
  BY <1>7

(* The time is up: of a player who timed out only, so the game is over and *)
(* word 4 does not go back to the level.                                   *)
LEMMA Case2Runs ==
    ASSUME NEW t, Good(t), Runs(t), t.word = 4
    PROVE  Runs(case2(t))
<1> DEFINE shown == stateSub16A20(t)
           a == [shown EXCEPT !.word = 2,
                              !.wait = IF t.slot = 2 /\ @ = None THEN Waits.timeout ELSE @]
           k == case2(t)
<1>1. Rec(shown) /\ shown.cut = t.cut /\ (t.slot = 2 => shown.word = 4)
  <2> DEFINE p == Parked(t)
             q == [p EXCEPT !.word = 0]
             r == [t EXCEPT !.word = 0]
  <2>1. Rec(p) /\ p.cut = t.cut /\ p.word = t.word
    BY DEF Good, Typed, Rec, Fields, Parked
  <2>2. Rec(r) /\ r.cut = t.cut
    BY DEF Good, Typed, Rec, Fields
  <2>3. shown = p \/ (t.slot # 2 /\ shown \in {q, r})
    BY DEF stateSub16A20
  <2> HIDE DEF p, r, shown
  <2>4. Rec(q) /\ q.cut = p.cut
    BY <2>1 DEF Rec, Fields
  <2> HIDE DEF q
  <2> QED
    BY <2>1, <2>2, <2>3, <2>4
<1>2. k = IF shown.word = 0 THEN shown ELSE a
  BY DEF case2
<1> HIDE DEF shown, k
<1>3. a.word = 2
  BY <1>1 DEF Rec, Fields
<1> HIDE DEF a
<1>4. t.cut \/ t.slot = 2
  BY DEF Runs, Overdue
<1>5. Runs(k)
  BY <1>1, <1>2, <1>3, <1>4, ElsewhereRuns
<1> QED
  BY <1>5 DEF k

\* a level's intro is armed
LEMMA FinishRuns ==
    ASSUME NEW t, Good(t)
    PROVE  Runs(finishCase4(t))
<1> DEFINE k == finishCase4(t)
           made == mainLoopInit10504(t)
           armed == armLevelIntroScroll(made, t.sec)
           over == [t EXCEPT !.word = 6]
           play == [armed EXCEPT !.word = 0]
<1>1. k = over \/ (t.level \in Levels /\ k = play)
  <2>1. t.level \in Nat /\ LastLevel \in Nat
    BY FlowAssumption DEF Good, Typed, Words
  <2>2. ~(t.level > LastLevel) => t.level \in Levels
    BY <2>1 DEF Levels
  <2> QED
    BY <2>2 DEF finishCase4
<1>2. over.word = 6
  BY DEF Good, Typed, Rec, Fields
<1>3. Typed(made) /\ t.sec \in Nat
  BY InitTyped DEF Good, Typed, Marble
<1>4. made.level = t.level
  BY DEF Good, Typed, Rec, Fields, mainLoopInit10504
<1> HIDE DEF k, made, over
<1>5. Typed(armed) /\ armed.scroll = 0
  BY <1>3, ScrollTyped
<1>6. armed.level = made.level
  BY <1>3 DEF Typed, Rec, Fields, armLevelIntroScroll
<1> HIDE DEF armed
<1>7. play.word = 0 /\ play.scroll = 0 /\ play.level = armed.level
  BY <1>5 DEF Typed, Rec, Fields
<1> HIDE DEF play
<1>8. Runs(k)
  BY <1>1, <1>2, <1>4, <1>6, <1>7 DEF None, Runs, Playable, Overdue, Ticks
<1> QED
  BY <1>8 DEF k

LEMMA Case4Runs ==
    ASSUME NEW t, Good(t), Free(t), t.word = 3
    PROVE  Runs(case4(t))
<1> DEFINE next == [t EXCEPT !.level = @ + 1]
           done == [t EXCEPT !.pending = FALSE]
           hold == [next EXCEPT !.pending = TRUE, !.wait = Waits.level]
           k == case4(t)
<1>0. k \in {finishCase4(done), hold, finishCase4(next)}
  BY DEF case4
<1>1. Typed(next) /\ Typed(done)
  BY CountedTyped
<1>3. /\ SameOwners(t, next) /\ next.word = t.word /\ next.stale = t.stale
      /\ SameOwners(t, done) /\ done.word = t.word /\ done.stale = t.stale
  BY CountedTyped
<1> HIDE DEF next, done, k
<1>4. Good(next) /\ Good(done)
  BY <1>1, <1>3, SameKeeps
<1>5. hold.word = 3
  BY <1>1, <1>3 DEF Typed, Rec, Fields
<1> HIDE DEF hold
<1>6. Runs(k)
  BY <1>0, <1>4, <1>5, FinishRuns, ElsewhereRuns
<1> QED
  BY <1>6 DEF k

LEMMA Case5Runs ==
    ASSUME NEW t, Good(t)
    PROVE  Runs(case5(t))
<1> DEFINE fresh == [t EXCEPT !.mode = 0, !.seg = 2, !.level = FirstLevel]
           prepared == gameModePrep(fresh)
           made == mainLoopInit10504(prepared)
           armed == armLevelIntroScroll(made, 0)
           play == [armed EXCEPT !.word = 0,
                                 !.earned = [time |-> 0, level |-> FirstLevel - 1]]
<1>0. case5(t) = play /\ FirstLevel \in Levels
  BY FlowAssumption DEF case5
<1>1. Rec(fresh) /\ fresh.level = FirstLevel
  BY DEF Good, Typed, Rec, Fields
<1> HIDE DEF fresh
<1>2. Rec(prepared) /\ prepared.level = fresh.level
  <2>1. Rec(prepared)
    BY <1>1 DEF Rec, gameModePrep
  <2> QED
    BY <1>1, <2>1 DEF Rec, Fields, gameModePrep
<1> HIDE DEF prepared
<1>3. Rec(made) /\ made.level = prepared.level
  <2>1. Rec(made)
    BY <1>2 DEF Rec, mainLoopInit10504
  <2> QED
    BY <1>2, <2>1 DEF Rec, Fields, mainLoopInit10504
<1> HIDE DEF made
<1>4. Rec(armed) /\ armed.scroll = 0 /\ armed.level = made.level
  <2>1. Rec(armed)
    BY <1>3 DEF Rec, armLevelIntroScroll
  <2> QED
    BY <1>3, <2>1 DEF Rec, Fields, armLevelIntroScroll
<1> HIDE DEF armed
<1>5. play.word = 0 /\ play.scroll = 0 /\ play.level = armed.level
  BY <1>4 DEF Rec, Fields
<1> HIDE DEF play
<1> QED
  BY <1>0, <1>1, <1>2, <1>3, <1>4, <1>5 DEF None, Runs, Playable, Overdue, Ticks

LEMMA DispatcherRuns ==
    ASSUME NEW t, Good(t), Free(t), Runs(t), NEW k \in MainLoopInit1101E(t)
    PROVE  Runs(k)
<1>0. t.word \in 0..6
  BY DEF Good, Typed, Words
<1>1. CASE t.word = 0
  BY <1>1, RefreshRuns DEF MainLoopInit1101E
<1>2. CASE t.word = 1
  BY <1>2, Case1Runs DEF MainLoopInit1101E
<1>3. CASE t.word = 2
  <2>1. PICK ranks \in BOOLEAN : k = case3(t, ranks)
    BY <1>3 DEF MainLoopInit1101E
  <2>2. k.word = 1
    BY <2>1 DEF Good, Typed, Rec, Fields, case3
  <2> QED
    BY <2>2, ElsewhereRuns
<1>4. CASE t.word = 3
  BY <1>4, Case4Runs DEF MainLoopInit1101E
<1>5. CASE t.word = 4
  BY <1>5, Case2Runs DEF MainLoopInit1101E
<1>6. CASE t.word = 5
  BY <1>6, Case5Runs DEF MainLoopInit1101E
<1>7. CASE t.word = 6
  <2>1. k = case6(t)
    BY <1>7 DEF MainLoopInit1101E
  <2>2. k.word = 2
    BY <2>1 DEF Good, Typed, Rec, Fields, case6
  <2> QED
    BY <2>2, ElsewhereRuns
<1> QED
  BY <1>0, <1>1, <1>2, <1>3, <1>4, <1>5, <1>6, <1>7

LEMMA BodyRuns ==
    ASSUME NEW t, NEW start, Good(t), Runs(t), SameOwners(start, t), ~Blocked(start),
           NEW k \in Body(t, start)
    PROVE  Runs(k)
<1> DEFINE turned == [t EXCEPT !.odd = ~@]
<1>1. Typed(turned) /\ SameOwners(t, turned)
      /\ turned.word = t.word /\ turned.stale = t.stale
  BY TurnedTyped
<1>2. SameClock(t, turned)
  BY DEF Good, Typed, Rec, Fields, SameClock
<1>3. \/ k = turned
      \/ \E b \in IF InDemo(start) THEN RefreshFrame(turned) ELSE MainLoopInit1101E(turned) :
            \E late \in BOOLEAN : k = [b EXCEPT !.odd = late]
  BY DEF Body
<1> HIDE DEF turned
<1>4. Good(turned) /\ Runs(turned)
  BY <1>1, <1>2, SameKeeps, SameRuns
<1>5. ASSUME NEW b \in IF InDemo(start) THEN RefreshFrame(turned)
                       ELSE MainLoopInit1101E(turned),
             NEW late \in BOOLEAN, k = [b EXCEPT !.odd = late]
      PROVE  Runs(k)
  <2>1. ~Held(turned) /\ (Free(turned) \/ InDemo(start))
    BY <1>1, SameTwice, SameHolds, FreeOwners
  <2>2. Good(b) /\ Runs(b)
    <3>1. CASE InDemo(start)
      BY <1>4, <1>5, <2>1, <3>1, RefreshKeeps, RefreshRuns
    <3>2. CASE ~InDemo(start)
      BY <1>4, <1>5, <2>1, <3>2, DispatcherKeeps, DispatcherRuns
    <3> QED
      BY <3>1, <3>2
  <2>3. SameClock(b, k)
    BY <1>5, <2>2 DEF Good, Typed, Rec, Fields, SameClock
  <2> QED
    BY <2>2, <2>3, SameRuns
<1> QED
  BY <1>3, <1>4, <1>5

LEMMA StagedRuns ==
    ASSUME NEW t, NEW start, Good(t), Runs(t), NEW fresh \in BOOLEAN,
           NEW k \in Staged(t, start, fresh)
    PROVE  Runs(k)
<1> DEFINE shown == IF Mode0Deferred(t, start) THEN t ELSE advanceMode0(t)
<1>1. Good(shown) /\ Runs(shown)
  BY Mode0Keeps, Mode0Runs
<1>2. PICK i \in Initials(shown) :
               k = advanceLevelIntro(delaysAdvance(advanceMode2(i)), fresh)
  BY DEF Staged
<1> HIDE DEF shown
<1>3. Good(i) /\ Runs(i)
  BY <1>1, <1>2, InitialsKeep, InitialsRun
<1>4. Good(advanceMode2(i)) /\ Runs(advanceMode2(i))
  BY <1>3, Mode2Keeps, Mode2Runs
<1>5. Good(delaysAdvance(advanceMode2(i))) /\ Runs(delaysAdvance(advanceMode2(i)))
  BY <1>4, DelaysKeep, DelaysRun
<1> QED
  BY <1>2, <1>5, IntroRuns

LEMMA TickOfMainRuns ==
    ASSUME NEW start, Good(start), Runs(start), NEW fresh \in BOOLEAN,
           NEW k, k \in MainTick(start, fresh)
    PROVE  Runs(k)
<1>1. PICK g : g \in Gated(gameTickTimers(start)) /\
               \E b \in MainThread(g, start) : k \in Staged(b, start, fresh)
  BY DEF MainTick
<1>2. PICK b : b \in MainThread(g, start) /\ k \in Staged(b, start, fresh)
  BY <1>1
<1>3. /\ Good(gameTickTimers(start)) /\ SameOwners(start, gameTickTimers(start))
      /\ Runs(gameTickTimers(start))
  BY ClockKeeps, TickRuns
<1>4. Good(g) /\ SameOwners(start, g) /\ Runs(g)
  BY <1>1, <1>3, GateKeeps, GateRuns, SameTwice
<1>5. Good(b) /\ Runs(b)
  BY <1>2, <1>4, BodyKeeps, BodyRuns DEF MainThread
<1> QED
  BY <1>2, <1>5, StagedRuns

\* a game the coin flow loads has earned no time yet
LEMMA SeededRuns ==
    ASSUME NEW t, Good(t), NEW g \in Seeds
    PROVE  Runs(Seeded(t, g))
<1> DEFINE k == Seeded(t, g)
<1>1. k.word = 0 /\ k.level = g.level /\ k.earned.time = None
  BY DEF Good, Typed, Rec, Fields, Seeded
<1>2. g.level \in Levels
  BY FlowAssumption DEF SeedType
<1> HIDE DEF k
<1>3. Runs(k)
  BY <1>1, <1>2 DEF Runs, Playable, Overdue, Ticks
<1> QED
  BY <1>3 DEF k

LEMMA RearmedRuns ==
    ASSUME NEW t, Good(t), Runs(t), NEW k, k \in Rearmed(t)
    PROVE  Runs(k)
<1> DEFINE a == [t EXCEPT !.manual = FALSE]
<1>1. SameClock(t, a)
  BY DEF Good, Typed, Rec, Fields, SameClock
<1>2. k \in {t, a}
  BY DEF Rearmed
<1> HIDE DEF a
<1> QED
  BY <1>1, <1>2, SameRuns

-----------------------------------------------------------------------------
(* The clock outside play.  What is left of the clock, in frames:          *)
FramesLeft(t) == (t.sec * (Digits.medium + 1) + t.medium) * (Digits.inner + 1) + t.inner

(* A demo before its level is initialised, and after.                      *)
Inits(t) == Demo[t.seg].init[t.level = 0]
Before(t) == t.m0 # None /\ t.m0 > StepStage /\ \A i \in Inits(t) : t.m0 <= i
Shows(t) == t.m0 # None /\ t.m0 > StepStage /\ ~Before(t)

(* A marble that reached its goal or left does not play, and its clock is  *)
(* parked: but in a demo before its level, whose marble is still to come.  *)
Gone(t) == t.slot \in {1, 3} /\ t.type = 6
Aside(t) == ~Before(t) => /\ t.slot = 3 => t.type = 6
                          /\ Gone(t) => t.inner = Off
Intros(t) == (t.scroll # None \/ t.banner # None) => ~Gone(t)
Ends(t) == /\ t.word \in {2, 6} \/ t.pending \/ t.entry => t.inner = Off
           /\ t.pending => t.word = 3 /\ t.m0 = None

(* A demo ends in its last stage; it shows the first level or the second.  *)
WithinDemo(t) == t.m0 # None => t.m0 <= Demo[t.seg].last
Low(t) == t.word = 1 \/ t.m0 # None \/ (t.word = 3 /\ t.inner # Off) => t.level \in 0..1

(* A START can turn a demo into the end of a level, even one whose marble  *)
(* has only begun: the clock lasts until word 3 is looked at.              *)
Full(t) == t.medium = Digits.medium /\ t.inner = Digits.inner
Odd(t) == IF t.odd THEN 1 ELSE 0
Turned(t, n) ==
    t.word = 3 /\ t.inner # Off =>
        IF t.m0 # None THEN Full(t) \/ (t.slot = 3 /\ t.m0 \in Inits(t))
        ELSE FramesLeft(t) + n >= 2 - Odd(t)

(* The pages of the attract mode, and that the clock of a demo lasts until *)
(* the next one, whose level sets it; n frames ahead of the main loop.     *)
Pages(t) == t.word = 1 /\ t.m0 = None =>
                t.mode \in {2, 3} /\ (t.m2 = None => t.dwell > 0)
Summary(t) == IF t.seg = 7 THEN 2 * Dwells.summary ELSE 0
Lasts(t, n) ==
    t.word = 1 /\ t.inner # Off =>
        /\ t.m0 = None /\ ~(t.mode = 2 /\ t.seg = 3) =>
              FramesLeft(t) + n >=
                 Summary(t) + IF t.m2 # None THEN 2 * Dwells.shown ELSE 2 * t.dwell - Odd(t)
        /\ t.m0 # None /\ t.m0 <= StepStage => FramesLeft(t) >= Summary(t)
        /\ Shows(t) /\ t.seg # 3 => FramesLeft(t) >= 2 * Dwells.shown + Summary(t)

(* The time at a goal is carried to the next level.                        *)
Added(level, n) ==
    LET steps == Extra[level] \div Intro.step
        begun == (n + Intro.every - 1) \div Intro.every
    IN  Intro.step * IF begun < steps THEN begun ELSE steps
Carries(t) ==
    t.earned.time # None =>
        /\ t.word \notin {1, 5} /\ t.m0 = None
        /\ t.scroll # None => t.level = t.earned.level + 1 /\ t.base = t.earned.time
        /\ t.banner # None => /\ t.level = t.earned.level + 1
                              /\ t.sec = t.earned.time + Added(t.level, t.banner)
        /\ t.word = 0 /\ Gone(t) => t.sec = t.earned.time /\ t.level = t.earned.level
        /\ t.word = 3 => /\ t.slot = 3 /\ t.sec = t.earned.time
                         /\ t.level = t.earned.level + IF t.pending THEN 1 ELSE 0

Calm(t, n) ==
    /\ Aside(t) /\ Intros(t) /\ Ends(t) /\ WithinDemo(t) /\ Low(t)
    /\ Turned(t, n) /\ Pages(t) /\ Lasts(t, n) /\ Carries(t)
Quiet(t, n) == ~t.cut => Calm(t, n)

LEMMA DigitsFacts ==
    /\ Digits.medium \in Nat /\ Digits.inner \in Nat /\ PerSecond \in Nat
    /\ DemoTime.all \in Nat /\ DemoTime.four \in Nat /\ DemoTime.second \in Nat \ {0}
    /\ Dwells.shown \in Nat \ {0} /\ Dwells.over \in Nat \ {0} /\ Dwells.summary \in Nat \ {0}
    /\ Off = -1 /\ None = -1
  BY FlowAssumption DEF PerSecond, Off, None

LEMMA LeftFacts ==
    ASSUME NEW t, Typed(t), t.inner # Off
    PROVE  /\ FramesLeft(t) \in Nat /\ FramesLeft(t) >= t.sec * PerSecond
           /\ Full(t) => FramesLeft(t) >= 2
           /\ FramesLeft(t) = 0 <=> t.sec = 0 /\ t.medium = 0 /\ t.inner = 0
<1> DEFINE m == Digits.medium
           i == Digits.inner
<1>1. m \in Nat /\ i \in Nat /\ t.sec \in Nat /\ t.medium \in Nat /\ t.inner \in Nat
  BY DigitsFacts DEF Typed, Marble
<1> HIDE DEF m, i
<1>2. (m + 1) * (i + 1) \in Nat /\ m * (i + 1) \in Nat
  BY <1>1
<1>3. (t.sec * (m + 1) + t.medium) * (i + 1)
        = t.sec * ((m + 1) * (i + 1)) + t.medium * (i + 1)
  <2>1. \A a, b, c, d \in Nat : (a * b + c) * d = a * (b * d) + c * d
    OBVIOUS
  <2> DEFINE p == m + 1
             q == i + 1
  <2>2. p \in Nat /\ q \in Nat
    BY <1>1
  <2> HIDE DEF p, q
  <2>3. (t.sec * p + t.medium) * q = t.sec * (p * q) + t.medium * q
    BY <1>1, <2>1, <2>2
  <2> QED
    BY <2>3 DEF p, q
<1>4. t.sec * ((m + 1) * (i + 1)) \in Nat /\ t.medium * (i + 1) \in Nat
  BY <1>1, <1>2
<1>5. FramesLeft(t) = t.sec * ((m + 1) * (i + 1)) + t.medium * (i + 1) + t.inner
  BY <1>3 DEF FramesLeft, m, i
<1>6. PerSecond = (m + 1) * (i + 1)
  BY DEF PerSecond, m, i
<1>7. Full(t) => FramesLeft(t) >= 2
  <2>1. m * (i + 1) + i >= 2
    BY DemoTimeLasts DEF m, i
  <2> QED
    BY <1>1, <1>2, <1>4, <1>5, <2>1 DEF Full, m, i
<1>8. FramesLeft(t) = 0 => t.sec = 0 /\ t.medium = 0 /\ t.inner = 0
  <2> SUFFICES ASSUME FramesLeft(t) = 0
               PROVE  t.sec = 0 /\ t.medium = 0 /\ t.inner = 0
    OBVIOUS
  <2> DEFINE w == (m + 1) * (i + 1)
  <2>1. w \in Nat /\ w > 0
    BY <1>1
  <2>2. FramesLeft(t) = t.sec * w + t.medium * (i + 1) + t.inner
    BY <1>5 DEF w
  <2>3. t.sec * w \in Nat
    BY <1>4 DEF w
  <2> HIDE DEF w
  <2>4. t.sec * w = 0 /\ t.medium * (i + 1) = 0 /\ t.inner = 0
    <3>1. \A a, b, c \in Nat : a + b + c = 0 => a = 0 /\ b = 0 /\ c = 0
      OBVIOUS
    <3>2. t.sec * w + t.medium * (i + 1) + t.inner = 0
      BY <2>2
    <3> DEFINE a == t.sec * w
               b == t.medium * (i + 1)
    <3>3. a \in Nat /\ b \in Nat /\ t.inner \in Nat /\ a + b + t.inner = 0
      BY <1>1, <1>4, <2>3, <3>2
    <3> HIDE DEF a, b
    <3>4. a = 0 /\ b = 0 /\ t.inner = 0
      BY <3>1, <3>3
    <3> QED
      BY <3>4 DEF a, b
  <2>5. \A a, b \in Nat : a * b = 0 /\ b > 0 => a = 0
    OBVIOUS
  <2>6. t.sec = 0
    BY <1>1, <2>1, <2>4, <2>5
  <2>7. t.medium = 0
    <3>1. i + 1 \in Nat /\ i + 1 > 0
      BY <1>1
    <3> QED
      BY <1>1, <2>4, <2>5, <3>1
  <2> QED
    BY <2>4, <2>6, <2>7
<1>9. t.sec = 0 /\ t.medium = 0 /\ t.inner = 0 => FramesLeft(t) = 0
  BY <1>1, <1>2, <1>5
<1> QED
  BY <1>1, <1>4, <1>5, <1>6, <1>7, <1>8, <1>9

(* The demo's clock has the time of the pages after it.                    *)
LEMMA LastsLong ==
    ASSUME NEW t, Typed(t), t.inner # Off, t.seg # 3,
           NEW sec \in DemoSeconds(t.seg), sec \in Int, t.sec >= sec
    PROVE  FramesLeft(t) >= 2 * Dwells.shown + Summary(t)
<1>1. t.seg \in 0..7 \ {3} /\ t.sec \in Nat
  BY DEF Typed, Words, Marble
<1>2. sec * PerSecond >= PagesAfter(t.seg)
  BY <1>1, DemoTimeLasts
<1>3. PagesAfter(t.seg) = 2 * Dwells.shown + Summary(t)
  BY DigitsFacts, <1>1 DEF PagesAfter, Summary
<1>4. t.sec * PerSecond >= sec * PerSecond
  <2>1. \A a, b \in Int, c \in Nat : a >= b => a * c >= b * c
    OBVIOUS
  <2> QED
    BY <1>1, <2>1, DigitsFacts
<1>5. FramesLeft(t) >= t.sec * PerSecond /\ FramesLeft(t) \in Int
      /\ t.sec * PerSecond \in Int /\ sec * PerSecond \in Int
  BY <1>1, LeftFacts, DigitsFacts
<1>6. PagesAfter(t.seg) \in Int
  BY DigitsFacts DEF PagesAfter
<1> QED
  BY <1>2, <1>3, <1>4, <1>5, <1>6

(* Fields on which it depends whether a game is quiet.                     *)
SteadyBut(t, k) ==
    /\ k.word = t.word /\ k.mode = t.mode /\ k.level = t.level /\ k.seg = t.seg
    /\ k.dwell = t.dwell /\ k.slot = t.slot /\ k.type = t.type /\ k.sec = t.sec
    /\ k.medium = t.medium /\ k.inner = t.inner /\ k.m0 = t.m0 /\ k.m2 = t.m2
    /\ k.pending = t.pending /\ k.scroll = t.scroll /\ k.banner = t.banner
    /\ k.base = t.base /\ k.entry = t.entry /\ k.earned = t.earned /\ k.cut = t.cut

LEMMA SameShow ==
    ASSUME NEW t, NEW k, k.m0 = t.m0, k.seg = t.seg, k.level = t.level
    PROVE  /\ Inits(k) = Inits(t) /\ (Before(k) <=> Before(t)) /\ (Shows(k) <=> Shows(t))
           /\ Summary(k) = Summary(t)
<1>1. Inits(k) = Inits(t)
  BY DEF Inits
<1> QED
  BY <1>1 DEF Before, Shows, Summary

LEMMA SameLeft ==
    ASSUME NEW t, NEW k, k.sec = t.sec, k.medium = t.medium, k.inner = t.inner
    PROVE  FramesLeft(k) = FramesLeft(t)
  BY DEF FramesLeft

(* The clock may be as much ahead of the body as the body is to come.      *)
LEMMA PaceQuiet ==
    ASSUME NEW t, NEW k, NEW n \in 0..2, NEW m \in 0..2, Typed(t), Quiet(t, n),
           SteadyBut(t, k), m + Odd(k) >= n + Odd(t), m >= n \/ t.m2 = None
    PROVE  Quiet(k, m)
<1> SUFFICES ASSUME ~k.cut PROVE Calm(k, m)
  BY DEF Quiet
<1>0. Calm(t, n)
  BY DEF Quiet, SteadyBut
<1>1. Inits(k) = Inits(t) /\ (Before(k) <=> Before(t)) /\ (Shows(k) <=> Shows(t))
      /\ Summary(k) = Summary(t) /\ FramesLeft(k) = FramesLeft(t)
  BY SameShow, SameLeft DEF SteadyBut
<1>2. Aside(k) /\ Intros(k) /\ Ends(k) /\ WithinDemo(k) /\ Low(k) /\ Pages(k) /\ Carries(k)
  BY <1>0, <1>1 DEF SteadyBut, Calm, Aside, Gone, Intros, Ends, WithinDemo, Low, Pages, Carries
<1>3. t.inner # Off => FramesLeft(t) \in Nat
  BY LeftFacts
<1>4. Odd(t) \in 0..1 /\ Odd(k) \in 0..1
  BY DEF Odd
<1>5. Turned(k, m)
  BY <1>0, <1>1, <1>3, <1>4 DEF SteadyBut, Calm, Turned, Full
<1>6. Lasts(k, m)
  <2>1. Summary(t) \in Nat /\ t.dwell \in Nat /\ Dwells.shown \in Nat
    BY DigitsFacts DEF Summary, Typed, Words
  <2> QED
    BY <1>0, <1>1, <1>3, <1>4, <2>1 DEF SteadyBut, Calm, Lasts
<1> QED
  BY <1>2, <1>5, <1>6 DEF Calm

LEMMA SteadyQuiet ==
    ASSUME NEW t, NEW k, NEW n \in 0..2, Typed(t), Quiet(t, n),
           SteadyBut(t, k), k.odd = t.odd
    PROVE  Quiet(k, n)
<1>1. Odd(k) = Odd(t) /\ Odd(t) \in 0..1
  BY DEF Odd
<1> QED
  BY <1>1, PaceQuiet

(* A tick of the clock takes one frame of it, and does not end it where it *)
(* is only kept going.                                                     *)
LEMMA TickTakesOne ==
    ASSUME NEW t, Typed(t), t.inner # Off, FramesLeft(t) # 0
    PROVE  LET k == tickCascadingTimer(t)
           IN  /\ FramesLeft(k) + 1 = FramesLeft(t) /\ k.inner # Off
               /\ k.word = t.word /\ k.slot = t.slot
<1> DEFINE m == Digits.medium
           i == Digits.inner
           k == tickCascadingTimer(t)
           a == [t EXCEPT !.inner = @ - 1]
           b == [t EXCEPT !.inner = i, !.medium = @ - 1]
           c == [t EXCEPT !.inner = i, !.medium = m, !.sec = @ - 1]
<1>1. m \in Nat /\ i \in Nat /\ t.sec \in Nat /\ t.medium \in Nat /\ t.inner \in Nat
  BY DigitsFacts DEF Typed, Marble
<1>2. \/ t.inner > 0 /\ k = a
      \/ t.inner = 0 /\ t.medium > 0 /\ k = b
      \/ t.inner = 0 /\ t.medium = 0 /\ t.sec > 0 /\ k = c
  BY <1>1, LeftFacts DEF tickCascadingTimer
<1>3. a.sec = t.sec /\ a.medium = t.medium /\ a.inner = t.inner - 1
      /\ a.word = t.word /\ a.slot = t.slot
  BY DEF Typed, Rec, Fields
<1>4. b.sec = t.sec /\ b.medium = t.medium - 1 /\ b.inner = i
      /\ b.word = t.word /\ b.slot = t.slot
  BY DEF Typed, Rec, Fields
<1>5. c.sec = t.sec - 1 /\ c.medium = m /\ c.inner = i
      /\ c.word = t.word /\ c.slot = t.slot
  BY DEF Typed, Rec, Fields
<1> HIDE DEF a, b, c, k
<1>6. \A x : FramesLeft(x) = (x.sec * (m + 1) + x.medium) * (i + 1) + x.inner
  BY DEF FramesLeft
<1> HIDE DEF m, i
<1>7. \A x, y \in Nat : (x + (y - 1)) * (i + 1) + i + 1 = (x + y) * (i + 1)
  BY <1>1
<1>8. \A x \in Nat : (x - 1) * (m + 1) + m + 1 = x * (m + 1)
  BY <1>1
<1>9. CASE t.inner > 0 /\ k = a
  <2>1. FramesLeft(k) = (t.sec * (m + 1) + t.medium) * (i + 1) + (t.inner - 1)
    BY <1>3, <1>6, <1>9
  <2>2. (t.sec * (m + 1) + t.medium) * (i + 1) \in Nat
    BY <1>1
  <2>3. FramesLeft(k) + 1 = FramesLeft(t)
    <3> DEFINE w == (t.sec * (m + 1) + t.medium) * (i + 1)
    <3>1. w \in Nat /\ FramesLeft(k) = w + (t.inner - 1) /\ FramesLeft(t) = w + t.inner
      BY <2>1, <2>2, <1>6
    <3> HIDE DEF w
    <3> QED
      BY <1>1, <3>1
  <2> QED
    BY <1>1, <1>3, <1>9, <2>3, DigitsFacts DEF k
<1>10. CASE t.inner = 0 /\ t.medium > 0 /\ k = b
  <2> DEFINE w == (t.sec * (m + 1) + t.medium) * (i + 1)
             v == (t.sec * (m + 1) + (t.medium - 1)) * (i + 1)
  <2>1. v + i + 1 = w
    <3> DEFINE x == t.sec * (m + 1)
    <3>1. x \in Nat
      BY <1>1
    <3> HIDE DEF x
    <3>2. (x + (t.medium - 1)) * (i + 1) + i + 1 = (x + t.medium) * (i + 1)
      BY ONLY <1>1, <1>7, <3>1, Zenon
    <3> QED
      BY <3>2 DEF x
  <2>2. w \in Nat /\ v \in Int
    <3>1. t.sec * (m + 1) \in Nat
      BY <1>1
    <3> QED
      BY <1>1, <3>1
  <2>3. FramesLeft(k) = v + i /\ FramesLeft(t) = w + 0
    BY <1>4, <1>6, <1>10
  <2> HIDE DEF v, w
  <2>4. FramesLeft(k) + 1 = FramesLeft(t)
    BY <1>1, <2>1, <2>2, <2>3
  <2> QED
    BY <1>1, <1>4, <1>10, <2>4, DigitsFacts DEF k
<1>11. CASE t.inner = 0 /\ t.medium = 0 /\ t.sec > 0 /\ k = c
  <2> DEFINE w == t.sec * (m + 1)
             v == (t.sec - 1) * (m + 1)
  <2>1. v + m + 1 = w
    BY <1>1, <1>8
  <2>2. w \in Nat /\ v \in Int
    BY <1>1
  <2>3. FramesLeft(k) = (v + m) * (i + 1) + i /\ FramesLeft(t) = (w + 0) * (i + 1) + 0
    BY <1>5, <1>6, <1>11
  <2> HIDE DEF v, w
  <2>4. w - 1 \in Int /\ v + m = w - 1 /\ w + 0 = w
    BY <1>1, <2>1, <2>2
  <2>5. (w - 1) * (i + 1) + i + 1 = w * (i + 1)
    BY <1>1, <2>2
  <2> DEFINE y == w * (i + 1)
             z == (w - 1) * (i + 1)
  <2>6. y \in Int /\ z \in Int
    BY <1>1, <2>2
  <2>7. FramesLeft(k) = z + i /\ FramesLeft(t) = y + 0 /\ z + i + 1 = y
    BY <2>3, <2>4, <2>5
  <2> HIDE DEF y, z
  <2>8. FramesLeft(k) + 1 = FramesLeft(t)
    BY <1>1, <2>6, <2>7
  <2> QED
    BY <1>1, <1>5, <1>11, <2>8, DigitsFacts DEF k
<1> QED
  BY <1>2, <1>9, <1>10, <1>11

(* The clock is parked, or has a frame left, unless a level is played.     *)
LEMMA ClockNotOut ==
    ASSUME NEW t, Good(t), Quiet(t, 0), ~t.cut, ~Busy(t), ~Segment3Dwell(t),
           t.word \notin {0, 4, 5}, t.inner # Off
    PROVE  FramesLeft(t) # 0
<1>1. t.m0 = None /\ t.m2 = None
  BY FreeOwners DEF Free
<1>2. Calm(t, 0) /\ Typed(t) /\ t.word \in 0..6
  BY DEF Quiet, Good, Typed, Words
<1>3. t.word \in {1, 3}
  BY <1>2 DEF Calm, Ends
<1>4. FramesLeft(t) \in Nat /\ Odd(t) \in 0..1 /\ t.dwell \in Nat
  BY <1>2, LeftFacts DEF Odd, Typed, Words
<1>5. CASE t.word = 3
  BY <1>1, <1>2, <1>4, <1>5 DEF Calm, Turned
<1>6. CASE t.word = 1
  <2>1. t.dwell > 0
    BY <1>1, <1>2, <1>6 DEF Calm, Pages
  <2>2. ~(t.mode = 2 /\ t.seg = 3)
    BY <1>6 DEF Segment3Dwell
  <2>3. Summary(t) \in Nat
    BY DigitsFacts DEF Summary
  <2>4. FramesLeft(t) + 0 >= Summary(t) + (2 * t.dwell - Odd(t))
    BY <1>1, <1>2, <1>6, <2>2 DEF Calm, Lasts
  <2> QED
    BY <1>4, <2>1, <2>3, <2>4
<1> QED
  BY <1>3, <1>5, <1>6

(* A frame of the clock: it runs in the main thread's turn only.           *)
LEMMA ClockQuiet ==
    ASSUME NEW t, Good(t), Quiet(t, 0)
    PROVE  /\ Busy(t) => gameTickTimers(t) = t
           /\ Quiet(gameTickTimers(t), IF Busy(t) THEN 0 ELSE 1)
<1> DEFINE n == IF Busy(t) THEN 0 ELSE 1
<1>0. Typed(t) /\ n \in 0..2
  BY DEF Good
<1>1. Busy(t) => gameTickTimers(t) = t
  BY DEF gameTickTimers
<1>2. Quiet(t, n)
  <2>1. SteadyBut(t, t) /\ Odd(t) \in 0..1
    BY DEF SteadyBut, Odd
  <2>2. n + Odd(t) >= 0 + Odd(t) /\ n >= 0
    BY <2>1
  <2> QED
    BY <1>0, <2>1, <2>2, PaceQuiet
<1>3. CASE gameTickTimers(t) = t
  BY <1>1, <1>2, <1>3
<1>4. CASE gameTickTimers(t) # t
  <2> DEFINE k == tickCascadingTimer(t)
  <2>1. /\ gameTickTimers(t) = k /\ ~Busy(t) /\ ~Segment3Dwell(t) /\ t.word # 5
        /\ t.inner # Off
    BY <1>4 DEF gameTickTimers, tickCascadingTimer
  <2>2. t.m0 = None /\ t.m2 = None /\ t.scroll = None /\ t.banner = None /\ ~t.entry
    BY <2>1, FreeOwners DEF Free
  <2>3. Typed(k) /\ SameOwners(t, k)
    BY <1>0, TickTyped
  <2> SUFFICES ASSUME ~t.cut PROVE Quiet(k, 1)
    BY <1>1, <2>1, <2>3 DEF SameOwners, Quiet
  <2>4. Calm(t, 0)
    BY DEF Quiet
  <2>5. /\ k.level = t.level /\ k.type = t.type /\ k.pending = t.pending /\ k.odd = t.odd
        /\ k.mode = t.mode /\ k.dwell = t.dwell /\ k.earned = t.earned
    BY <1>0 DEF Typed, Rec, Fields, tickCascadingTimer, Expired
  <2>6. ~t.pending /\ ~Gone(t)
    BY <2>1, <2>2, <2>4 DEF Calm, Ends, Aside, Before
  <2>7. CASE FramesLeft(t) = 0
    <3>1. k.word = 4 /\ k.slot = 2 /\ k.inner = Off
      <4>1. t.inner = 0 /\ t.medium = 0 /\ t.sec = 0
        BY <1>0, <2>1, <2>7, LeftFacts
      <4>2. k = Expired(t)
        BY <4>1 DEF tickCascadingTimer, Off
      <4> QED
        <5>1. Rec(t)
          BY <1>0 DEF Typed
        <5> QED
          BY <4>2, <5>1 DEF Rec, Fields, Expired
    <3> HIDE DEF k
    <3> QED
      BY <2>2, <2>3, <2>4, <2>5, <2>6, <3>1
         DEF SameOwners, Quiet, Calm, Aside, Before, Gone, Intros, Ends, WithinDemo, Low,
             Turned, Pages, Lasts, Carries
  <2>8. CASE FramesLeft(t) # 0
    <3>1. FramesLeft(k) + 1 = FramesLeft(t) /\ k.inner # Off /\ k.word = t.word
          /\ k.slot = t.slot
      BY <1>0, <2>1, <2>8, TickTakesOne
    <3>2. FramesLeft(k) \in Nat /\ FramesLeft(t) \in Nat
      BY <1>0, <2>1, <2>3, <3>1, LeftFacts
    <3> HIDE DEF k
    <3>3. Summary(k) = Summary(t) /\ Odd(k) = Odd(t) /\ (Gone(k) <=> Gone(t))
      BY <2>3, <2>5, <3>1, SameShow DEF SameOwners, Odd, Gone
    <3>4. Aside(k) /\ Intros(k) /\ Ends(k) /\ WithinDemo(k) /\ Low(k) /\ Pages(k)
      BY <2>1, <2>2, <2>3, <2>4, <2>5, <2>6, <3>1, <3>3
         DEF SameOwners, Calm, Aside, Before, Gone, Intros, Ends, WithinDemo, Low, Pages
    <3>5. t.word = 3 => t.earned.time = None
      BY <2>1, <2>2, <2>4, <2>6 DEF Calm, Carries, Aside, Before, Gone
    <3>6. Carries(k)
      BY <2>2, <2>3, <2>4, <2>5, <2>6, <3>1, <3>3, <3>5 DEF SameOwners, Calm, Carries
    <3>7. Turned(k, 1)
      BY <2>1, <2>2, <2>3, <2>4, <3>1, <3>2, <3>3 DEF SameOwners, Calm, Turned, Odd
    <3>8. Lasts(k, 1)
      <4>1. k.m0 = None /\ k.m2 = None /\ ~Shows(k)
        BY <2>2, <2>3 DEF SameOwners, Shows
      <4>2. FramesLeft(k) + 1 = FramesLeft(t) + 0 /\ k.seg = t.seg
        BY <2>3, <3>1, <3>2 DEF SameOwners
      <4> QED
        BY <2>1, <2>2, <2>4, <2>5, <3>1, <3>3, <4>1, <4>2 DEF Calm, Lasts
    <3> QED
      BY <2>3, <3>4, <3>6, <3>7, <3>8 DEF Quiet, Calm
  <2> QED
    BY <2>7, <2>8
<1> QED
  BY <1>1, <1>3, <1>4

LEMMA GateQuiet ==
    ASSUME NEW t, NEW n \in 0..2, Good(t), Quiet(t, n), NEW k, k \in Gated(t)
    PROVE  Quiet(k, n) /\ (k.word = 4 => t.word = 4)
<1>0. PICK falls \in BOOLEAN, credit \in Credits : k = gameMainGate(t, falls, credit)
  BY DEF Gated
<1>1. /\ k.mode = t.mode /\ k.level = t.level /\ k.seg = t.seg
      /\ k.dwell = t.dwell /\ k.slot = t.slot /\ k.type = t.type /\ k.sec = t.sec
      /\ k.medium = t.medium /\ k.inner = t.inner /\ k.m0 = t.m0 /\ k.m2 = t.m2
      /\ k.pending = t.pending /\ k.scroll = t.scroll /\ k.banner = t.banner
      /\ k.base = t.base /\ k.entry = t.entry /\ k.earned = t.earned /\ k.cut = t.cut
      /\ k.odd = t.odd /\ (k.word = t.word \/ (t.word = 1 /\ k.word = 5))
  BY <1>0 DEF Good, Typed, Rec, Fields, gameMainGate
<1>2. CASE k.word = t.word
  <2>1. SteadyBut(t, k)
    BY <1>1, <1>2 DEF SteadyBut
  <2> QED
    BY <1>1, <1>2, <2>1, SteadyQuiet DEF Good
<1>3. CASE t.word = 1 /\ k.word = 5
  <2> SUFFICES ASSUME ~t.cut PROVE Calm(k, n)
    BY <1>1, <1>3 DEF Quiet
  <2>1. Calm(t, n) /\ (Before(k) <=> Before(t))
    BY <1>1, SameShow DEF Quiet
  <2> QED
    BY <1>1, <1>3, <2>1 DEF Calm, Aside, Gone, Intros, Ends, WithinDemo, Low, Turned, Pages,
                            Lasts, Carries
<1> QED
  BY <1>1, <1>2, <1>3

(* The stages of a demo, in their order.                                   *)
LEMMA Stages ==
    ASSUME NEW t, Typed(t)
    PROVE  /\ Inits(t) # {} /\ Demo[t.seg].from \in Nat /\ Demo[t.seg].last \in Nat
           /\ \A i \in Inits(t) : i \in Nat /\ StepStage < i /\ i <= Demo[t.seg].from
           /\ Demo[t.seg].from < Demo[t.seg].last - 4 /\ Demo[t.seg].last <= LongLast
           /\ t.seg # 3 => Demo[t.seg].last = LongLast
           /\ LongLast \in Nat /\ StepStage \in Nat
<1>1. t.seg \in 0..7 /\ (t.level = 0) \in BOOLEAN
  BY DEF Typed, Words
<1>2. Demo[t.seg] \in DemoType
  BY <1>1, FlowAssumption
<1>3. Inits(t) \subseteq Nat
  BY <1>1, <1>2 DEF Inits, DemoType
<1> QED
  BY <1>1, <1>2, <1>3, StagesAssumption, FlowAssumption DEF Inits, DemoType

LEMMA MovedQuiet ==
    ASSUME NEW t, NEW n \in 0..2, Good(t), Quiet(t, n), ~t.cut, ~Held(t),
           t.word = 0 \/ InDemo(t), NEW k \in Moved(t)
    PROVE  /\ Quiet(k, n)
           /\ k.slot = 3 /\ k.inner # Off => Before(k)
           /\ k.word = 0 /\ k.slot = 3 => /\ k.earned.time # None => k.sec = k.earned.time
                                          /\ k.earned.time # None => k.level = k.earned.level
           /\ k.pending => k.word = 3
<1> DEFINE goal == GoalReached(t)
           bonus == [t EXCEPT !.type = 8]
           spent == [t EXCEPT !.type = 0]
           more == [t EXCEPT !.sec = IF @ < MaxTime THEN @ + 1 ELSE @]
           left == [t EXCEPT !.slot = 3]
<1>1. \/ k = t
      \/ t.slot = 1 /\ t.type = 0 /\ k \in {goal, bonus}
      \/ t.slot = 1 /\ t.type = 8 /\ k \in {spent, more}
      \/ Gone(t) /\ k = left
  BY DEF Moved, Gone
<1>2. /\ Typed(k) /\ SameOwners(t, k) /\ k.word = t.word
      /\ Typed(t) /\ Calm(t, n)
  BY MovedTyped DEF Good, Quiet
<1>3. t.scroll = None /\ t.banner = None /\ ~t.entry /\ (t.m0 # None => t.word \in {1, 3, 5})
  BY FreeOwners DEF Good, Orderly, Fits
<1>4. /\ k.level = t.level /\ k.mode = t.mode /\ k.dwell = t.dwell
      /\ k.pending = t.pending /\ k.odd = t.odd
  <2>1. CASE k = goal
    BY <1>2, <2>1 DEF Typed, Rec, Fields, GoalReached, Parked
  <2>2. CASE k \in {t, bonus, spent, more, left}
    BY <1>2, <2>2 DEF Typed, Rec, Fields
  <2> QED
    BY <1>1, <2>1, <2>2
<1>5. Inits(k) = Inits(t) /\ (Before(k) <=> Before(t)) /\ (Shows(k) <=> Shows(t))
      /\ Summary(k) = Summary(t) /\ Odd(k) = Odd(t)
  BY <1>2, <1>4, SameShow DEF SameOwners, Odd
<1>6. t.m0 # None => t.earned.time = None
  BY <1>2 DEF Calm, Carries
<1>7. Intros(k) /\ WithinDemo(k) /\ Pages(k)
  BY <1>2, <1>3, <1>4 DEF SameOwners, Calm, Intros, WithinDemo, Pages
<1>8. CASE k = t
  <2>1. ~Before(t) \/ t.word # 0
    BY <1>3 DEF Before
  <2> QED
    BY <1>2, <1>8, <2>1 DEF Quiet, Calm, Aside, Gone, Carries, Ends
<1>9. CASE t.slot = 1 /\ t.type = 0 /\ k = goal
  <2>1. /\ k.type = 6 /\ k.inner = Off /\ k.slot = t.slot /\ k.sec = t.sec
        /\ k.earned = IF t.word = 0 THEN [time |-> t.sec, level |-> t.level] ELSE t.earned
    BY <1>2, <1>9 DEF Typed, Rec, Fields, GoalReached, Parked
  <2>2. k.word = 0 => k.earned.time = k.sec /\ k.earned.level = k.level /\ k.m0 = None
    BY <1>2, <1>3, <1>4, <2>1 DEF SameOwners
  <2>3. Carries(k)
    BY <1>2, <1>3, <1>6, <1>9, <2>1, <2>2 DEF SameOwners, Calm, Carries, InDemo
  <2> QED
    BY <1>2, <1>3, <1>4, <1>5, <1>7, <1>9, <2>1, <2>2, <2>3
       DEF SameOwners, Quiet, Calm, Aside, Gone, Ends, Low, Turned, Lasts
<1>10. CASE t.slot = 1 /\ (\/ t.type = 0 /\ k = bonus
                           \/ t.type = 8 /\ k \in {spent, more})
  <2>1. /\ k.type # 6 /\ k.inner = t.inner /\ k.medium = t.medium /\ k.slot = 1
        /\ (k.sec = t.sec \/ k.sec = t.sec + 1) /\ k.earned = t.earned
    BY <1>2, <1>10 DEF Typed, Rec, Fields
  <2>2. t.inner # Off => /\ FramesLeft(k) \in Nat /\ FramesLeft(t) \in Nat
                         /\ FramesLeft(k) >= FramesLeft(t)
    <3> SUFFICES ASSUME t.inner # Off
                 PROVE  /\ FramesLeft(k) \in Nat /\ FramesLeft(t) \in Nat
                        /\ FramesLeft(k) >= FramesLeft(t)
      OBVIOUS
    <3>1. FramesLeft(k) \in Nat /\ FramesLeft(t) \in Nat
      BY <1>2, <2>1, LeftFacts
    <3>2. CASE k.sec = t.sec
      BY <2>1, <3>1, <3>2, SameLeft
    <3>3. CASE k.sec = t.sec + 1
      <4> DEFINE m == Digits.medium + 1
                 i == Digits.inner + 1
      <4>1. m \in Nat /\ i \in Nat /\ t.sec \in Nat /\ t.medium \in Nat /\ t.inner \in Nat
        BY <1>2, DigitsFacts DEF Typed, Marble
      <4>2. /\ FramesLeft(k) = ((t.sec + 1) * m + t.medium) * i + t.inner
            /\ FramesLeft(t) = (t.sec * m + t.medium) * i + t.inner
        BY <2>1, <3>3 DEF FramesLeft
      <4> HIDE DEF m, i
      <4>3. \A a, b, c, d \in Nat : ((a + 1) * b + c) * d = (a * b + c) * d + b * d
        OBVIOUS
      <4>4. ((t.sec + 1) * m + t.medium) * i = (t.sec * m + t.medium) * i + m * i
        BY <4>1, <4>3
      <4>5. m * i \in Nat /\ (t.sec * m + t.medium) * i \in Nat
        BY <4>1
      <4> QED
        BY <4>1, <4>2, <4>4, <4>5
    <3> QED
      BY <2>1, <3>2, <3>3
  <2>3. Carries(k)
    BY <1>2, <1>3, <1>4, <1>6, <2>1, <1>10 DEF SameOwners, Calm, Carries, Gone, InDemo
  <2>4. Aside(k) /\ Ends(k) /\ Low(k)
    BY <1>2, <1>4, <1>5, <2>1 DEF SameOwners, Calm, Aside, Gone, Ends, Low
  <2>5. Turned(k, n)
    BY <1>2, <1>4, <1>5, <2>1, <2>2, <1>10 DEF SameOwners, Calm, Turned, Full, Odd
  <2>6. Lasts(k, n)
    <3>1. Summary(t) \in Nat /\ t.dwell \in Nat /\ Dwells.shown \in Nat /\ Odd(t) \in 0..1
      BY <1>2, DigitsFacts DEF Summary, Typed, Words, Odd
    <3> QED
      BY <1>2, <1>4, <1>5, <2>1, <2>2, <3>1 DEF SameOwners, Calm, Lasts
  <2> QED
    BY <1>2, <1>4, <1>7, <2>1, <2>3, <2>4, <2>5, <2>6 DEF Quiet, Calm, Ends
<1>11. CASE Gone(t) /\ k = left
  <2>1. /\ k.type = 6 /\ k.inner = t.inner /\ k.medium = t.medium /\ k.slot = 3
        /\ k.sec = t.sec /\ k.earned = t.earned
    BY <1>2, <1>11 DEF Typed, Rec, Fields, Gone
  <2>2. ~Before(t) => t.inner = Off
    BY <1>2, <1>11 DEF Calm, Aside
  <2>3. FramesLeft(k) = FramesLeft(t)
    BY <2>1, SameLeft
  <2>4. Carries(k)
    BY <1>2, <1>3, <1>4, <1>6, <1>11, <2>1 DEF SameOwners, Calm, Carries, Gone, InDemo
  <2>5. Aside(k) /\ Ends(k) /\ Low(k)
    BY <1>2, <1>4, <1>5, <2>1, <2>2 DEF SameOwners, Calm, Aside, Gone, Ends, Low
  <2>6. Turned(k, n) /\ Lasts(k, n)
    BY <1>2, <1>4, <1>5, <2>1, <2>2, <2>3 DEF SameOwners, Calm, Turned, Full, Lasts
  <2> QED
    BY <1>2, <1>3, <1>4, <1>5, <1>7, <1>11, <2>1, <2>2, <2>4, <2>5, <2>6
       DEF Quiet, Calm, Ends, Carries, Gone
<1> QED
  BY <1>1, <1>8, <1>9, <1>10, <1>11

LEMMA RefreshQuiet ==
    ASSUME NEW t, NEW n \in 0..2, Good(t), Quiet(t, n), ~Held(t),
           t.word = 0 \/ InDemo(t), NEW k \in RefreshFrame(t)
    PROVE  Quiet(k, n) /\ (k.word = 4 => t.word = 4) /\ k.odd = t.odd
<1>0. PICK l \in Moved(t) : k = objectScanDispatch(l)
  BY DEF RefreshFrame
<1>1. Typed(l) /\ SameOwners(t, l) /\ l.word = t.word /\ l.odd = t.odd
  <2>1. l.odd = t.odd
    BY DEF Moved, GoalReached, Parked, Good, Typed, Rec, Fields
  <2> QED
    BY <2>1, MovedTyped DEF Good
<1>2. /\ SteadyBut([l EXCEPT !.word = 3], [k EXCEPT !.word = 3])
      /\ k.odd = l.odd /\ k.cut = l.cut
      /\ k.word = IF l.slot = 3 /\ l.word # 1 THEN 3 ELSE l.word
      /\ k.mode = l.mode /\ k.level = l.level /\ k.seg = l.seg
      /\ k.dwell = l.dwell /\ k.slot = l.slot /\ k.type = l.type /\ k.sec = l.sec
      /\ k.medium = l.medium /\ k.inner = l.inner /\ k.m0 = l.m0 /\ k.m2 = l.m2
      /\ k.pending = l.pending /\ k.scroll = l.scroll /\ k.banner = l.banner
      /\ k.base = l.base /\ k.entry = l.entry /\ k.earned = l.earned
  BY <1>0, <1>1 DEF Typed, Rec, Fields, objectScanDispatch, SteadyBut
<1>3. (k.word = 4 => t.word = 4) /\ k.odd = t.odd
  BY <1>1, <1>2
<1> SUFFICES ASSUME ~t.cut PROVE Calm(k, n)
  BY <1>1, <1>2, <1>3 DEF Quiet, SameOwners
<1>4. /\ Calm(l, n) /\ (l.slot = 3 /\ l.inner # Off => Before(l))
      /\ l.word = 0 /\ l.slot = 3 => /\ l.earned.time # None => l.sec = l.earned.time
                                     /\ l.earned.time # None => l.level = l.earned.level
      /\ l.pending => l.word = 3
  BY <1>1, MovedQuiet DEF SameOwners, Quiet
<1>5. CASE k.word = l.word
  <2>1. SteadyBut(l, k)
    BY <1>2, <1>5 DEF SteadyBut
  <2>2. Quiet(l, n)
    BY <1>4 DEF Quiet
  <2> QED
    BY <1>1, <1>2, <2>1, <2>2, SteadyQuiet DEF Quiet, SameOwners
<1>6. CASE k.word = 3 /\ l.slot = 3 /\ l.word # 3
  <2>1. l.scroll = None /\ l.banner = None /\ ~l.entry /\ ~l.pending
        /\ (l.m0 # None => l.earned.time = None)
    BY <1>1, <1>4, <1>6, FreeOwners DEF SameOwners, Calm, Carries
  <2>2. Before(k) <=> Before(l)
    BY <1>2, SameShow
  <2>3. l.inner # Off => l.m0 # None /\ l.m0 \in Inits(k)
    <3> SUFFICES ASSUME l.inner # Off PROVE l.m0 # None /\ l.m0 \in Inits(k)
      OBVIOUS
    <3>1. Before(l)
      BY <1>4, <1>6
    <3>2. l.m0 # None /\ (\A i \in Inits(l) : l.m0 <= i) /\ l.m0 \in Nat
      BY <1>1, <3>1 DEF Before, Typed, Counts
    <3>3. l.m0 >= Demo[l.seg].from
      <4>1. t.m0 # None
        BY <1>1, <3>2 DEF SameOwners
      <4>2. InDemo(t)
        BY <4>1 DEF Good, Orderly, Fits
      <4> QED
        BY <1>1, <4>2 DEF SameOwners, InDemo
    <3>4. PICK i \in Inits(l) : TRUE
      BY <1>1, Stages
    <3>5. l.m0 = i
      BY <1>1, <3>2, <3>3, <3>4, Stages
    <3>6. Inits(k) = Inits(l)
      BY <1>2, SameShow
    <3> QED
      BY <3>2, <3>4, <3>5, <3>6
  <2>4. Carries(k)
    <3>1. l.earned.time # None => l.word = 0
      BY <1>1, <2>1 DEF SameOwners, InDemo
    <3>2. l.earned.level + 0 = l.earned.level
      BY <1>1 DEF Typed, Words
    <3> QED
      BY <1>2, <1>4, <1>6, <2>1, <3>1, <3>2 DEF Calm, Carries
  <2> QED
    BY <1>2, <1>4, <1>6, <2>1, <2>2, <2>3, <2>4
       DEF Calm, Aside, Gone, Intros, Ends, WithinDemo, Low, Turned, Pages, Lasts
<1> QED
  BY <1>2, <1>5, <1>6

LEMMA DemoFacts ==
    ASSUME NEW t, Good(t), Calm(t, 0), ~t.cut, t.m0 # None
    PROVE  /\ t.earned.time = None /\ ~t.pending /\ ~t.entry /\ t.m2 = None
           /\ t.scroll = None /\ t.banner = None /\ t.word \in {1, 3, 5}
           /\ t.level \in 0..1 /\ t.m0 \in Nat /\ t.m0 <= Demo[t.seg].last
  BY DEF Good, Typed, Counts, Orderly, Solo, Fits, Calm, Carries, Ends, WithinDemo, Low

(* A stage shows the clock of the demo, if it has one.                     *)
LEMMA DemoClockQuiet ==
    ASSUME NEW t, Good(t), Calm(t, 0), ~t.cut, t.m0 # None
    PROVE  LET k == updateMode0Timer(t)
           IN  /\ Calm(k, 0) /\ SteadyBut([t EXCEPT !.sec = k.sec], k) /\ k.odd = t.odd
               /\ k.word = t.word /\ k.mode = t.mode /\ k.level = t.level /\ k.seg = t.seg
               /\ k.dwell = t.dwell /\ k.slot = t.slot /\ k.type = t.type
               /\ k.medium = t.medium /\ k.inner = t.inner /\ k.m0 = t.m0 /\ k.m2 = t.m2
               /\ k.pending = t.pending /\ k.scroll = t.scroll /\ k.banner = t.banner
               /\ k.base = t.base /\ k.entry = t.entry /\ k.earned = t.earned
               /\ k.cut = t.cut
<1> DEFINE k == updateMode0Timer(t)
           first == Demo[t.seg].clock
           gone == (t.m0 - first) \div DemoTime.second
           left == IF gone < DemoTime.all THEN DemoTime.all - gone ELSE 0
<1>0. Typed(t) /\ Typed(k)
  BY DemoClockTyped DEF Good
<1>1. k = t \/ (first # None /\ ~(t.m0 < first) /\ k = [t EXCEPT !.sec = left])
  BY DEF updateMode0Timer
<1>2. /\ k.odd = t.odd
      /\ k.word = t.word /\ k.mode = t.mode /\ k.level = t.level /\ k.seg = t.seg
      /\ k.dwell = t.dwell /\ k.slot = t.slot /\ k.type = t.type
      /\ k.medium = t.medium /\ k.inner = t.inner /\ k.m0 = t.m0 /\ k.m2 = t.m2
      /\ k.pending = t.pending /\ k.scroll = t.scroll /\ k.banner = t.banner
      /\ k.base = t.base /\ k.entry = t.entry /\ k.earned = t.earned
      /\ k.cut = t.cut
  <2> HIDE DEF left
  <2>1. Rec(t) /\ k \in {t, [t EXCEPT !.sec = left]}
    BY <1>0, <1>1 DEF Typed
  <2> HIDE DEF k
  <2>2. CASE k = [t EXCEPT !.sec = left]
    BY <2>1, <2>2 DEF Rec, Fields
  <2> QED
    BY <2>1, <2>2
<1>3. SteadyBut([t EXCEPT !.sec = k.sec], k)
  <2> HIDE DEF k
  <2> QED
    BY <1>0, <1>2 DEF Typed, Rec, Fields, SteadyBut
<1>4. k = t \/ (first # None /\ ~(t.m0 < first) /\ k.sec = left)
  <2> HIDE DEF left
  <2> QED
    BY <1>0, <1>1 DEF Typed, Rec, Fields
<1> HIDE DEF k
<1>5. CASE k = t
  BY <1>2, <1>3, <1>5 DEF k
<1>6. CASE first # None /\ ~(t.m0 < first) /\ k.sec = left
  <2>1. /\ t.m0 \in Nat /\ t.m0 <= LongLast /\ first \in Nat /\ t.seg \in 0..7
        /\ LongLast \in Nat
    <3>1. t.seg \in 0..7
      BY <1>0 DEF Typed, Words
    <3>2. Demo[t.seg] \in DemoType
      BY <3>1, FlowAssumption
    <3> QED
      BY <1>0, <1>6, <3>1, <3>2, DemoFacts, Stages DEF DemoType
  <2> DEFINE least == DemoTime.all - ((LongLast - first) \div DemoTime.second)
  <2>2. k.sec >= least /\ least \in Int
    <3>1. gone \in Nat /\ (LongLast - first) \div DemoTime.second \in Nat
      BY <1>6, <2>1, DigitsFacts
    <3>2. gone <= (LongLast - first) \div DemoTime.second
      <4>1. \A a, b \in Nat, c \in Nat \ {0} : a <= b => (a \div c) <= (b \div c)
        OBVIOUS
      <4>2. t.m0 - first \in Nat /\ LongLast - first \in Nat
            /\ t.m0 - first <= LongLast - first
        BY <1>6, <2>1
      <4> QED
        BY <4>1, <4>2, DigitsFacts
    <3> HIDE DEF gone
    <3> QED
      BY <1>6, <3>1, <3>2, DigitsFacts DEF left
  <2>3. least \in DemoSeconds(t.seg)
    BY <1>6 DEF DemoSeconds
  <2> HIDE DEF least, left, gone
  <2>4. t.inner # Off /\ t.seg # 3 => FramesLeft(k) >= 2 * Dwells.shown + Summary(k)
    BY <1>0, <1>2, <2>2, <2>3, LastsLong
  <2>5. t.inner # Off => FramesLeft(k) \in Nat
    BY <1>0, <1>2, LeftFacts
  <2>6. Inits(k) = Inits(t) /\ (Before(k) <=> Before(t)) /\ (Shows(k) <=> Shows(t))
        /\ Summary(k) = Summary(t)
    BY <1>2, SameShow
  <2>7. Summary(k) \in Nat /\ Dwells.shown \in Nat /\ (t.seg = 3 => Summary(k) = 0)
    BY <1>2, DigitsFacts DEF Summary
  <2>8. Aside(k) /\ Intros(k) /\ Ends(k) /\ WithinDemo(k) /\ Low(k) /\ Pages(k)
    BY <1>2, <2>6 DEF Calm, Aside, Gone, Intros, Ends, WithinDemo, Low, Pages
  <2>9. Turned(k, 0) /\ Carries(k)
    BY <1>2, <2>6, DemoFacts DEF Calm, Turned, Full, Carries
  <2>10. Lasts(k, 0)
    BY <1>2, <2>4, <2>5, <2>6, <2>7 DEF Lasts
  <2> QED
    BY <1>2, <1>3, <2>8, <2>9, <2>10 DEF Calm, k
<1> QED
  BY <1>4, <1>5, <1>6

(* The stage after one in which nothing is initialised.                    *)
LEMMA LaterShow ==
    ASSUME NEW t, NEW k, Typed(t), t.m0 # None, k.m0 = t.m0 + 1,
           k.seg = t.seg, k.level = t.level, t.m0 # StepStage
    PROVE  /\ t.m0 \notin Inits(t) => (Before(k) <=> Before(t)) /\ (Shows(k) <=> Shows(t))
           /\ t.m0 \in Inits(t) => ~Before(k) /\ Shows(k)
           /\ t.m0 <= StepStage <=> k.m0 <= StepStage
           /\ Inits(k) = Inits(t) /\ Summary(k) = Summary(t) /\ k.m0 # None
<1>1. t.m0 \in Nat /\ StepStage \in Nat /\ k.m0 # None
  BY Stages DEF Typed, Counts, None
<1>2. Inits(k) = Inits(t) /\ Summary(k) = Summary(t)
  BY DEF Inits, Summary
<1>3. \A i \in Inits(t) : i \in Nat /\ StepStage < i
  BY Stages
<1>4. t.m0 \notin Inits(t) => (Before(k) <=> Before(t))
  <2>1. t.m0 \notin Inits(t) => \A i \in Inits(t) : k.m0 <= i <=> t.m0 <= i
    BY <1>1, <1>3
  <2> QED
    BY <1>1, <1>2, <2>1 DEF Before
<1>5. t.m0 \in Inits(t) => ~Before(k) /\ Shows(k)
  <2>1. t.m0 \in Inits(t) => ~(k.m0 <= t.m0) /\ k.m0 > StepStage
    BY <1>1, <1>3
  <2> QED
    BY <1>1, <1>2, <2>1 DEF Before, Shows
<1> QED
  BY <1>1, <1>2, <1>4, <1>5 DEF Shows

LEMMA NextStageQuiet ==
    ASSUME NEW t, NEW k, Good(t), Calm(t, 0), ~t.cut, t.m0 # None, t.m0 # StepStage,
           t.m0 \notin Inits(t), t.m0 # Demo[t.seg].last, k.m0 = t.m0 + 1,
           k.word = t.word, k.level = t.level, k.seg = t.seg, k.slot = t.slot,
           k.type = t.type, k.sec = t.sec, k.medium = t.medium, k.inner = t.inner,
           k.m2 = t.m2, k.pending = t.pending, k.scroll = t.scroll, k.banner = t.banner,
           k.entry = t.entry, k.earned = t.earned
    PROVE  Calm(k, 0)
<1>1. /\ (Before(k) <=> Before(t)) /\ (Shows(k) <=> Shows(t))
      /\ (t.m0 <= StepStage <=> k.m0 <= StepStage)
      /\ Inits(k) = Inits(t) /\ Summary(k) = Summary(t) /\ k.m0 # None
      /\ FramesLeft(k) = FramesLeft(t)
  BY LaterShow, SameLeft DEF Good
<1>2. k.m0 <= Demo[k.seg].last
  BY DemoFacts, Stages DEF Good
<1>3. Aside(k) /\ Intros(k) /\ Ends(k) /\ WithinDemo(k) /\ Low(k) /\ Pages(k)
  BY <1>1, <1>2, DemoFacts DEF Calm, Aside, Gone, Intros, Ends, WithinDemo, Low, Pages
<1>4. Turned(k, 0) /\ Carries(k) /\ Lasts(k, 0)
  BY <1>1, DemoFacts DEF Calm, Turned, Full, Carries, Lasts
<1> QED
  BY <1>3, <1>4 DEF Calm

LEMMA EndDemoQuiet ==
    ASSUME NEW t, Good(t), Calm(t, 0), ~t.cut, t.m0 # None, BeforeEnd(t, 0)
    PROVE  Calm(EndDemo(t), 0) /\ EndDemo(t).word = t.word
<1> DEFINE k == EndDemo(t)
<1>1. /\ k.word = t.word /\ k.mode = 2 /\ k.level = t.level /\ k.seg = t.seg
      /\ k.slot = t.slot /\ k.type = t.type /\ k.sec = t.sec
      /\ k.medium = t.medium /\ k.inner = t.inner /\ k.m0 = None /\ k.m2 = 0
      /\ k.pending = t.pending /\ k.scroll = t.scroll /\ k.banner = t.banner
      /\ k.entry = t.entry /\ k.earned = t.earned
  BY DEF Good, Typed, Rec, Fields, EndDemo, startMode2
<1> HIDE DEF k
<1>2. Typed(t) /\ Summary(k) = Summary(t) /\ FramesLeft(k) = FramesLeft(t) /\ None # 0
  BY <1>1, SameLeft DEF Good, Summary, None
<1>3. t.m0 = Demo[t.seg].last
  BY <1>2, DemoFacts, Stages DEF BeforeEnd
<1>4. t.m0 \notin Inits(t) /\ Shows(t)
  <2>1. PICK i \in Inits(t) : i \in Nat /\ StepStage < i /\ i < t.m0
    BY <1>2, <1>3, Stages
  <2>2. \A j \in Inits(t) : j # t.m0
    BY <1>2, <1>3, Stages
  <2> QED
    BY <1>2, <2>1, <2>2, Stages, DemoFacts DEF Shows, Before
<1>5. Aside(k) /\ Intros(k) /\ Ends(k) /\ WithinDemo(k) /\ Low(k) /\ Pages(k) /\ Carries(k)
  BY <1>1, <1>2, <1>4, DemoFacts
     DEF Calm, Aside, Gone, Shows, Intros, Ends, WithinDemo, Low, Pages, Carries
<1>6. Turned(k, 0)
  BY <1>1, <1>2, <1>4, LeftFacts DEF Calm, Turned, Odd
<1>7. Lasts(k, 0)
  <2>1. t.inner # Off => FramesLeft(t) \in Nat
    BY <1>2, LeftFacts
  <2>2. ~Shows(k) /\ Summary(t) \in Nat /\ Dwells.shown \in Nat
    BY <1>1, DigitsFacts DEF Shows, Summary
  <2> QED
    BY <1>1, <1>2, <1>4, <2>1, <2>2 DEF Calm, Lasts
<1> QED
  BY <1>1, <1>5, <1>6, <1>7 DEF Calm, k

LEMMA SegmentQuiet ==
    ASSUME NEW t, Good(t), Calm(t, 0), ~t.cut, t.m0 = StepStage
    PROVE  Calm(NextSegment(t), 0) /\ NextSegment(t).word = t.word
<1> DEFINE f == [t EXCEPT !.mode = 3, !.seg = 0, !.dwell = Dwells.summary, !.m0 = None]
           g == [t EXCEPT !.seg = @ + 1, !.dwell = 0, !.m0 = @ + 1,
                          !.level = IF @ % 2 = 0 THEN @ + 1 ELSE @ - 1]
           p == gameModePrep(g)
           k == NextSegment(t)
<1>0. Typed(t) /\ StepStage \in Nat /\ t.m0 # None /\ t.seg \in 0..7
  BY FlowAssumption DEF Good, None, Typed, Words
<1>1. /\ t.seg = 7 => k = f
      /\ t.seg # 7 => k = p
  BY DEF NextSegment
<1>2. /\ f.word = t.word /\ f.mode = 3 /\ f.level = t.level /\ f.seg = 0
      /\ f.slot = t.slot /\ f.type = t.type /\ f.sec = t.sec /\ f.dwell = Dwells.summary
      /\ f.medium = t.medium /\ f.inner = t.inner /\ f.m0 = None /\ f.m2 = t.m2
      /\ f.pending = t.pending /\ f.scroll = t.scroll /\ f.banner = t.banner
      /\ f.entry = t.entry /\ f.earned = t.earned /\ f.odd = t.odd
  BY <1>0 DEF Typed, Rec, Fields
<1>3. /\ g.word = t.word /\ g.seg = t.seg + 1 /\ Rec(g)
      /\ g.level = IF t.level % 2 = 0 THEN t.level + 1 ELSE t.level - 1
      /\ g.sec = t.sec
      /\ g.medium = t.medium /\ g.inner = t.inner /\ g.m0 = t.m0 + 1 /\ g.m2 = t.m2
      /\ g.pending = t.pending /\ g.scroll = t.scroll /\ g.banner = t.banner
      /\ g.entry = t.entry /\ g.earned = t.earned /\ g.odd = t.odd
  BY <1>0 DEF Typed, Rec, Fields
<1> HIDE DEF f, g
<1>4. /\ p.word = t.word /\ p.seg = t.seg + 1 /\ p.slot = 3 /\ p.type = 6
      /\ p.level = g.level
      /\ p.sec = t.sec
      /\ p.medium = t.medium /\ p.inner = t.inner /\ p.m0 = t.m0 + 1 /\ p.m2 = t.m2
      /\ p.pending = t.pending /\ p.scroll = t.scroll /\ p.banner = t.banner
      /\ p.entry = t.entry /\ p.earned = t.earned /\ p.odd = t.odd
  BY <1>3 DEF gameModePrep, Rec, Fields
<1> HIDE DEF p, k
<1>5. t.m0 \notin Inits(t) /\ ~Before(t)
  BY <1>0, Stages DEF Before
<1>6. t.word = 3 /\ t.inner # Off => Full(t) /\ FramesLeft(t) >= 2
  BY <1>0, <1>5, LeftFacts DEF Calm, Turned
<1>7. t.inner # Off => FramesLeft(t) \in Nat
  BY <1>0, LeftFacts
<1>8. CASE t.seg = 7
  <2>1. k = f
    BY <1>1, <1>8
  <2>2. ~Shows(f) /\ ~Before(f) /\ FramesLeft(f) = FramesLeft(t) /\ Summary(f) = 0
        /\ Summary(t) = 2 * Dwells.summary
    BY <1>2, <1>8, SameLeft DEF Shows, Before, Summary
  <2>3. Aside(f) /\ Intros(f) /\ Ends(f) /\ WithinDemo(f) /\ Low(f) /\ Pages(f) /\ Carries(f)
    BY <1>0, <1>2, <1>5, <2>2, DemoFacts, DigitsFacts
       DEF Calm, Aside, Gone, Intros, Ends, WithinDemo, Low, Pages, Carries
  <2>4. Turned(f, 0) /\ Lasts(f, 0)
    <3>1. Odd(f) \in 0..1
      BY DEF Odd
    <3> QED
      BY <1>0, <1>2, <1>6, <1>7, <1>8, <2>2, <3>1, DemoFacts, DigitsFacts
         DEF Calm, Turned, Lasts
  <2> QED
    BY <1>2, <2>1, <2>3, <2>4 DEF Calm, k
<1>9. CASE t.seg # 7
  <2>1. k = p
    BY <1>1, <1>9
  <2>2. p.level \in 0..1 /\ (p.level = 0) \in BOOLEAN /\ p.seg \in 0..7
    <3>1. t.level = 0 \/ t.level = 1
      BY <1>0, DemoFacts
    <3> QED
      BY <1>0, <1>3, <1>4, <1>9, <3>1
  <2>3. /\ Demo[p.seg].init[p.level = 0] \subseteq Nat
        /\ \A i \in Inits(p) : i \in Nat /\ StepStage < i /\ i <= Demo[p.seg].from
        /\ Demo[p.seg].from < Demo[p.seg].last - 4 /\ Demo[p.seg].last \in Nat
        /\ Demo[p.seg].from \in Nat /\ Inits(p) # {}
    <3>1. Demo[p.seg] \in DemoType
      BY <2>2, FlowAssumption
    <3> QED
      BY <2>2, <3>1, StagesAssumption DEF Inits, DemoType
  <2>4. Before(p) /\ ~Shows(p) /\ p.m0 # None /\ ~(p.m0 <= StepStage)
    BY <1>0, <1>4, <2>3 DEF Before, Shows, None
  <2>5. p.m0 <= Demo[p.seg].last
    <3>1. PICK i \in Inits(p) : TRUE
      BY <2>3
    <3> QED
      BY <1>0, <1>4, <2>3, <3>1
  <2>6. Aside(p) /\ Intros(p) /\ Ends(p) /\ WithinDemo(p) /\ Low(p) /\ Pages(p) /\ Carries(p)
    BY <1>0, <1>4, <2>2, <2>4, <2>5, DemoFacts
       DEF Calm, Aside, Gone, Intros, Ends, WithinDemo, Low, Pages, Carries
  <2>7. Turned(p, 0) /\ Lasts(p, 0)
    BY <1>4, <1>6, <2>4 DEF Turned, Lasts, Full
  <2> QED
    BY <1>4, <2>1, <2>6, <2>7 DEF Calm, k
<1> QED
  BY <1>8, <1>9

\* the level of a demo
LEMMA PresentationQuiet ==
    ASSUME NEW t, Good(t), Calm(t, 0), ~t.cut, t.m0 # None, t.m0 \in Inits(t)
    PROVE  LET k == NextStage(presentationInit10504(t))
           IN  Calm(k, 0) /\ k.word = t.word
<1> DEFINE made == mainLoopInit10504(t)
           p == presentationInit10504(t)
           k == NextStage(p)
           first == IF t.seg = 4 THEN DemoTime.four ELSE DemoTime.all
<1>0. Typed(t) /\ Typed(made) /\ Typed(p) /\ SameOwners(t, p)
      /\ made.word = t.word /\ p.word = t.word
  BY InitTyped, PresentationTyped DEF Good
<1>1. /\ made.level = t.level /\ made.pending = t.pending
      /\ made.earned = t.earned /\ made.odd = t.odd
      /\ \/ t.slot = 3 /\ made.slot = 1 /\ made.type = 0
            /\ made.medium = Digits.medium /\ made.inner = Digits.inner
         \/ t.slot # 3 /\ made.slot = 0 /\ made.medium = t.medium /\ made.inner = t.inner
  BY <1>0 DEF Typed, Rec, Fields, mainLoopInit10504
<1>2. p = IF t.word # 1 THEN made ELSE [made EXCEPT !.sec = first]
  BY DEF presentationInit10504
<1> HIDE DEF made
<1>3. /\ p.level = t.level /\ p.pending = t.pending /\ p.slot = made.slot
      /\ p.earned = t.earned /\ p.odd = t.odd /\ p.type = made.type
      /\ p.medium = made.medium /\ p.inner = made.inner
      /\ (t.word = 1 => p.sec = first)
  <2> HIDE DEF p
  <2> QED
    BY <1>0, <1>1, <1>2 DEF Typed, Rec, Fields
<1> HIDE DEF p
<1>4. /\ k.m0 = p.m0 + 1
      /\ k.word = p.word /\ k.level = p.level /\ k.seg = p.seg /\ k.slot = p.slot
      /\ k.type = p.type /\ k.sec = p.sec /\ k.medium = p.medium /\ k.inner = p.inner
      /\ k.m2 = p.m2 /\ k.pending = p.pending /\ k.scroll = p.scroll
      /\ k.banner = p.banner /\ k.entry = p.entry /\ k.earned = p.earned
  BY <1>0 DEF Typed, Rec, Fields, NextStage
<1>5. /\ k.m0 = t.m0 + 1 /\ k.word = t.word /\ k.level = t.level /\ k.seg = t.seg
      /\ k.m2 = t.m2 /\ k.pending = t.pending /\ k.scroll = t.scroll
      /\ k.banner = t.banner /\ k.entry = t.entry /\ k.earned = t.earned
      /\ (t.word = 1 => k.sec = first)
      /\ \/ k.slot = 1 /\ k.type = 0 /\ Full(k)
         \/ t.slot # 3 /\ k.slot = 0 /\ k.medium = t.medium /\ k.inner = t.inner
  BY <1>0, <1>1, <1>3, <1>4 DEF SameOwners, Full
<1>6. k.sec \in Nat /\ k.seg \in 0..7
      /\ (k.inner # Off => FramesLeft(k) >= k.sec * PerSecond /\ FramesLeft(k) \in Nat)
  <2>1. FramesLeft(k) = FramesLeft(p)
    BY <1>4, SameLeft
  <2> QED
    BY <1>0, <1>4, <2>1, LeftFacts DEF Typed, Words, Marble
<1> HIDE DEF k
<1>7. t.m0 # StepStage /\ ~(t.m0 <= StepStage)
  BY <1>0, Stages
<1>8. ~Before(k) /\ Shows(k) /\ k.m0 # None /\ ~(k.m0 <= StepStage)
  BY <1>0, <1>5, <1>7, LaterShow
<1>9. k.m0 <= Demo[k.seg].last
  BY <1>0, <1>5, Stages
<1>10. Aside(k) /\ Intros(k) /\ Ends(k) /\ WithinDemo(k) /\ Low(k) /\ Pages(k) /\ Carries(k)
  BY <1>5, <1>8, <1>9, DemoFacts
     DEF Calm, Aside, Gone, Intros, Ends, WithinDemo, Low, Pages, Carries
<1>11. Turned(k, 0)
  BY <1>5, <1>8 DEF Calm, Turned, Full
<1>12. Lasts(k, 0)
  <2> SUFFICES ASSUME k.word = 1, k.inner # Off, k.seg # 3
               PROVE  FramesLeft(k) >= 2 * Dwells.shown + Summary(k)
    BY <1>8 DEF Lasts
  <2>1. k.sec = first /\ first \in DemoSeconds(k.seg) /\ k.seg \in 0..7 \ {3}
    BY <1>5, <1>6 DEF DemoSeconds
  <2>2. k.sec * PerSecond >= PagesAfter(k.seg)
    BY <2>1, DemoTimeLasts
  <2>3. PagesAfter(k.seg) = 2 * Dwells.shown + Summary(k)
    BY <1>6, DigitsFacts DEF PagesAfter, Summary
  <2>4. k.sec * PerSecond \in Nat /\ PagesAfter(k.seg) \in Nat
    BY <1>6, DigitsFacts DEF PagesAfter
  <2> QED
    BY <1>6, <2>2, <2>3, <2>4
<1> QED
  BY <1>5, <1>10, <1>11, <1>12 DEF Calm, k, p

LEMMA Mode0Quiet ==
    ASSUME NEW t, Good(t), Quiet(t, 0)
    PROVE  Quiet(advanceMode0(t), 0) /\ advanceMode0(t).word = t.word
<1> SUFFICES ASSUME t.m0 # None
             PROVE  Quiet(advanceMode0(t), 0) /\ advanceMode0(t).word = t.word
  BY DEF advanceMode0
<1> DEFINE k == updateMode0Timer(t)
           c == [k EXCEPT !.mode = 1, !.m0 = @ + 1]
           d == [k EXCEPT !.dwell = 1, !.m0 = @ + 1]
           x == advanceMode0(t)
<1>1. Typed(k) /\ Typed(t) /\ Good(k) /\ k.cut = t.cut /\ k.m0 = t.m0 /\ k.word = t.word
      /\ k.seg = t.seg /\ k.level = t.level
  <2>1. Typed(k) /\ SameOwners(t, k) /\ k.word = t.word /\ k.stale = t.stale
        /\ k.level = t.level
    BY DemoClockTyped DEF Good
  <2> QED
    BY <2>1, SameKeeps DEF Good, SameOwners
<1>2. /\ BeforeEnd(t, 0) => x = EndDemo(k)
      /\ ~BeforeEnd(t, 0) =>
           \/ (BeforeEnd(t, 1) \/ BeforeEnd(t, 2)) /\ x = c
           \/ (t.seg = 3 /\ t.m0 = Demo[3].last - 4) /\ x = d
           \/ t.m0 = StepStage /\ x = NextSegment(k)
           \/ t.m0 # StepStage /\ Initialises(t) /\ x = NextStage(presentationInit10504(k))
           \/ t.m0 # StepStage /\ ~Initialises(t) /\ x = NextStage(k)
  <2> DEFINE fourth == t.seg = 3 /\ t.m0 = Demo[3].last - 4
             e == EndDemo(k)
             f == NextSegment(k)
             j == NextStage(presentationInit10504(k))
             l == NextStage(k)
  <2>1. x = CASE BeforeEnd(t, 0) -> e
              [] BeforeEnd(t, 1) \/ BeforeEnd(t, 2) -> c
              [] fourth -> d
              [] t.m0 = StepStage -> f
              [] Initialises(t) -> j
              [] OTHER -> l
    BY DEF advanceMode0
  <2> HIDE DEF x, c, d, e, f, j, l
  <2>3. /\ BeforeEnd(t, 0) => ~BeforeEnd(t, 1) /\ ~BeforeEnd(t, 2)
        /\ fourth => ~BeforeEnd(t, 0) /\ ~BeforeEnd(t, 1) /\ ~BeforeEnd(t, 2)
        /\ t.m0 <= StepStage \/ Initialises(t) =>
              ~BeforeEnd(t, 0) /\ ~BeforeEnd(t, 1) /\ ~BeforeEnd(t, 2) /\ ~fourth
        /\ Initialises(t) => t.m0 # StepStage
    <3> DEFINE last == Demo[t.seg].last
    <3>1. /\ last \in Nat /\ LongLast \in Nat /\ StepStage \in Nat
          /\ last = LongLast \/ last < LongLast - 2
      <4>1. t.seg \in 0..7
        BY <1>1 DEF Typed, Words
      <4> QED
        BY <1>1, <4>1, Stages, StagesAssumption
    <3>2. \A i \in Inits(t) : i \in Nat /\ StepStage < i /\ i < last - 4
      BY <1>1, Stages
    <3>3. StepStage < last - 4
      BY <1>1, <3>1, <3>2, Stages
    <3>4. fourth => t.m0 = last - 4
      OBVIOUS
    <3>5. t.m0 \in Nat
      BY <1>1 DEF Typed, Counts
    <3>6. Initialises(t) => t.m0 \in Inits(t)
      BY DEF Initialises, Inits
    <3>7. \A n \in 0..2 : BeforeEnd(t, n) <=> t.m0 \in {last - n, LongLast - n}
      BY DEF BeforeEnd
    <3> HIDE DEF last, fourth
    <3> QED
      BY <3>1, <3>2, <3>3, <3>4, <3>5, <3>6, <3>7
  <2> HIDE DEF fourth
  <2>2. \/ BeforeEnd(t, 0) /\ x = e
        \/ ~BeforeEnd(t, 0) /\ (BeforeEnd(t, 1) \/ BeforeEnd(t, 2)) /\ x = c
        \/ ~BeforeEnd(t, 0) /\ fourth /\ x = d
        \/ ~BeforeEnd(t, 0) /\ t.m0 = StepStage /\ x = f
        \/ ~BeforeEnd(t, 0) /\ t.m0 # StepStage /\ Initialises(t) /\ x = j
        \/ ~BeforeEnd(t, 0) /\ t.m0 # StepStage /\ ~Initialises(t) /\ x = l
    BY <2>1, <2>3, <1>1 DEF Typed, Counts
  <2> QED
    BY <2>2, Zenon DEF e, f, j, l, fourth
<1> HIDE DEF k
<1>3. /\ c.cut = k.cut /\ c.m0 = k.m0 + 1
      /\ c.word = k.word /\ c.level = k.level /\ c.seg = k.seg /\ c.slot = k.slot
      /\ c.type = k.type /\ c.sec = k.sec /\ c.medium = k.medium /\ c.inner = k.inner
      /\ c.m2 = k.m2 /\ c.pending = k.pending /\ c.scroll = k.scroll
      /\ c.banner = k.banner /\ c.entry = k.entry /\ c.earned = k.earned
  BY <1>1 DEF Typed, Rec, Fields
<1>4. /\ d.cut = k.cut /\ d.m0 = k.m0 + 1
      /\ d.word = k.word /\ d.level = k.level /\ d.seg = k.seg /\ d.slot = k.slot
      /\ d.type = k.type /\ d.sec = k.sec /\ d.medium = k.medium /\ d.inner = k.inner
      /\ d.m2 = k.m2 /\ d.pending = k.pending /\ d.scroll = k.scroll
      /\ d.banner = k.banner /\ d.entry = k.entry /\ d.earned = k.earned
  BY <1>1 DEF Typed, Rec, Fields
<1> DEFINE n == NextStage(k)
<1>5. /\ n.cut = k.cut /\ n.m0 = k.m0 + 1
      /\ n.word = k.word /\ n.level = k.level /\ n.seg = k.seg /\ n.slot = k.slot
      /\ n.type = k.type /\ n.sec = k.sec /\ n.medium = k.medium /\ n.inner = k.inner
      /\ n.m2 = k.m2 /\ n.pending = k.pending /\ n.scroll = k.scroll
      /\ n.banner = k.banner /\ n.entry = k.entry /\ n.earned = k.earned
  BY <1>1 DEF Typed, Rec, Fields, NextStage
<1>6. EndDemo(k).cut = k.cut /\ EndDemo(k).word = k.word
  BY <1>1 DEF Typed, Rec, Fields, EndDemo, startMode2
<1>7. /\ NextSegment(k).cut = k.cut /\ NextSegment(k).word = k.word
  <2> DEFINE f == [k EXCEPT !.mode = 3, !.seg = 0, !.dwell = Dwells.summary, !.m0 = None]
             g == [k EXCEPT !.seg = @ + 1, !.dwell = 0, !.m0 = @ + 1,
                            !.level = IF @ % 2 = 0 THEN @ + 1 ELSE @ - 1]
  <2>1. f.cut = k.cut /\ f.word = k.word /\ g.cut = k.cut /\ g.word = k.word /\ Rec(g)
    BY <1>1 DEF Typed, Rec, Fields
  <2>2. NextSegment(k) = f \/ NextSegment(k) = gameModePrep(g)
    BY DEF NextSegment
  <2> HIDE DEF f, g
  <2>3. gameModePrep(g).cut = g.cut /\ gameModePrep(g).word = g.word
    BY <2>1 DEF gameModePrep, Rec, Fields
  <2> QED
    BY <2>1, <2>2, <2>3
<1> DEFINE i == NextStage(presentationInit10504(k))
<1>8. i.cut = k.cut /\ i.word = k.word
  <2>1. Typed(presentationInit10504(k)) /\ presentationInit10504(k).cut = k.cut
        /\ presentationInit10504(k).word = k.word
    BY <1>1, PresentationTyped DEF SameOwners
  <2> QED
    BY <2>1 DEF NextStage, Typed, Rec, Fields
<1>9. x.word = t.word /\ x.cut = t.cut
  <2> HIDE DEF c, d, n, i, x
  <2> QED
    BY <1>1, <1>2, <1>3, <1>4, <1>5, <1>6, <1>7, <1>8 DEF n, i
<1> HIDE DEF c, d, n, i, x
<1> SUFFICES ASSUME ~t.cut PROVE Calm(x, 0)
  BY <1>9 DEF Quiet, x
<1>10. Calm(k, 0) /\ ~k.cut /\ k.m0 # None
  BY <1>1, DemoClockQuiet DEF Quiet, k
<1>11. BeforeEnd(k, 0) <=> BeforeEnd(t, 0)
  BY <1>1 DEF BeforeEnd
<1>12. Initialises(t) <=> k.m0 \in Inits(k)
  BY <1>1 DEF Initialises, Inits
<1>13. ~BeforeEnd(t, 0) => k.m0 # Demo[k.seg].last
  <2>1. Demo[t.seg].last \in Nat
    BY <1>1, Stages
  <2> QED
    BY <1>1, <2>1 DEF BeforeEnd
<1>14. CASE BeforeEnd(t, 0)
  BY <1>1, <1>2, <1>10, <1>11, <1>14, EndDemoQuiet
<1>15. CASE ~BeforeEnd(t, 0) /\ \/ (BeforeEnd(t, 1) \/ BeforeEnd(t, 2)) /\ x = c
                                \/ (t.seg = 3 /\ t.m0 = Demo[3].last - 4) /\ x = d
  <2>1. k.m0 \notin Inits(k) /\ k.m0 # StepStage
    <3>1. PICK j \in Inits(k) : TRUE
      BY <1>1, Stages
    <3>2. k.m0 >= Demo[k.seg].last - 4
      <4>1. k.m0 \in {Demo[k.seg].last - 1, LongLast - 1, Demo[k.seg].last - 2,
                      LongLast - 2, Demo[k.seg].last - 4}
        BY <1>1, <1>15 DEF BeforeEnd
      <4> QED
        BY <1>1, <4>1, Stages
    <3>3. \A j2 \in Inits(k) : j2 < k.m0 /\ StepStage < k.m0
      <4>1. k.m0 \in Nat
        BY <1>10, DemoFacts, <1>1
      <4> QED
        BY <1>1, <3>2, <4>1, Stages
    <3> QED
      BY <1>1, <3>1, <3>3, Stages
  <2> QED
    BY <1>1, <1>3, <1>4, <1>10, <1>13, <1>15, <2>1, NextStageQuiet
<1>16. CASE ~BeforeEnd(t, 0) /\ t.m0 = StepStage /\ x = NextSegment(k)
  BY <1>1, <1>10, <1>16, SegmentQuiet
<1>17. CASE ~BeforeEnd(t, 0) /\ Initialises(t) /\ x = i
  BY <1>1, <1>10, <1>12, <1>17, PresentationQuiet DEF i
<1>18. CASE ~BeforeEnd(t, 0) /\ t.m0 # StepStage /\ ~Initialises(t) /\ x = n
  BY <1>1, <1>5, <1>10, <1>12, <1>13, <1>18, NextStageQuiet
<1> QED
  BY <1>2, <1>14, <1>15, <1>16, <1>17, <1>18 DEF i, n

(* A page's reset ends with its page shown for the whole time.             *)
LEMMA Mode2Quiet ==
    ASSUME NEW t, Good(t), Quiet(t, 0)
    PROVE  Quiet(advanceMode2(t), 0) /\ advanceMode2(t).word = t.word
<1> DEFINE k == advanceMode2(t)
<1>1. /\ k.word = t.word /\ k.level = t.level /\ k.seg = t.seg
      /\ k.mode = t.mode /\ k.slot = t.slot /\ k.type = t.type /\ k.sec = t.sec
      /\ k.medium = t.medium /\ k.inner = t.inner /\ k.m0 = t.m0
      /\ k.pending = t.pending /\ k.scroll = t.scroll /\ k.banner = t.banner
      /\ k.base = t.base /\ k.entry = t.entry /\ k.earned = t.earned
      /\ k.cut = t.cut /\ k.odd = t.odd
  BY DEF Good, Typed, Rec, Fields, advanceMode2
<1>2. /\ k.m2 # None => t.m2 # None
      /\ k.m2 = None => \/ t.m2 = None /\ k.dwell = t.dwell
                        \/ t.m2 # None /\ k.dwell = Dwells.shown
  <2> DEFINE a == [t EXCEPT !.m2 = @ + 1]
             b == [t EXCEPT !.m2 = None, !.dwell = Dwells.shown,
                            !.blit = IF t.seg = 4 THEN 1 ELSE @,
                            !.hud = IF t.seg = 1 THEN 1 ELSE None]
  <2>1. k = t \/ (t.m2 # None /\ k \in {a, b})
    BY DEF advanceMode2
  <2>2. a.m2 = t.m2 + 1 /\ b.m2 = None /\ b.dwell = Dwells.shown
    BY DEF Good, Typed, Rec, Fields
  <2>3. t.m2 # None => t.m2 + 1 # None
    BY FlowAssumption DEF Good, Typed, Counts, None
  <2> HIDE DEF k, a, b
  <2> QED
    BY <2>1, <2>2, <2>3
<1> HIDE DEF k
<1> SUFFICES ASSUME ~t.cut PROVE Calm(k, 0)
  BY <1>1 DEF Quiet, k
<1>3. Calm(t, 0) /\ Typed(t)
  BY DEF Quiet, Good
<1>4. Inits(k) = Inits(t) /\ (Before(k) <=> Before(t)) /\ (Shows(k) <=> Shows(t))
      /\ Summary(k) = Summary(t) /\ FramesLeft(k) = FramesLeft(t) /\ Odd(k) = Odd(t)
  BY <1>1, SameShow, SameLeft DEF Odd
<1>5. Aside(k) /\ Intros(k) /\ Ends(k) /\ WithinDemo(k) /\ Low(k) /\ Turned(k, 0) /\ Carries(k)
  BY <1>1, <1>3, <1>4
     DEF Calm, Aside, Gone, Intros, Ends, WithinDemo, Low, Turned, Full, Carries
<1>6. Pages(k)
  BY <1>1, <1>2, <1>3, DigitsFacts DEF Calm, Pages
<1>7. Lasts(k, 0)
  <2>1. t.inner # Off => FramesLeft(t) \in Nat
    BY <1>3, LeftFacts
  <2>2. Summary(t) \in Nat /\ Dwells.shown \in Nat /\ Odd(t) \in 0..1 /\ t.dwell \in Nat
    BY <1>3, DigitsFacts DEF Summary, Odd, Typed, Words
  <2> QED
    BY <1>1, <1>2, <1>3, <1>4, <2>1, <2>2 DEF Calm, Lasts
<1> QED
  BY <1>5, <1>6, <1>7 DEF Calm

LEMMA DelaysQuiet ==
    ASSUME NEW t, Good(t), Quiet(t, 0)
    PROVE  Quiet(delaysAdvance(t), 0) /\ delaysAdvance(t).word = t.word
<1> DEFINE k == delaysAdvance(t)
<1>1. SteadyBut(t, k) /\ k.odd = t.odd
  BY DEF Good, Typed, Rec, Fields, delaysAdvance, SteadyBut
<1> HIDE DEF k
<1>2. Quiet(k, 0) /\ k.word = t.word
  BY <1>1, SteadyQuiet DEF Good, SteadyBut
<1> QED
  BY <1>2 DEF k

LEMMA InitialsQuiet ==
    ASSUME NEW t, Good(t), Quiet(t, 0), NEW k \in Initials(t)
    PROVE  Quiet(k, 0) /\ k.word = t.word
<1>1. k = t \/ (t.entry /\ k \in {[t EXCEPT !.entry = FALSE], startMode2([t EXCEPT !.entry = FALSE])})
  BY DEF Initials
<1>2. CASE k # t
  <2>1. /\ k.word = t.word /\ k.level = t.level /\ k.seg = t.seg /\ k.dwell = t.dwell
        /\ k.mode = t.mode /\ k.slot = t.slot /\ k.type = t.type /\ k.sec = t.sec
        /\ k.medium = t.medium /\ k.inner = t.inner /\ k.m0 = t.m0
        /\ k.pending = t.pending /\ k.scroll = t.scroll /\ k.banner = t.banner
        /\ k.base = t.base /\ k.earned = t.earned
        /\ k.cut = t.cut /\ (k.m2 = t.m2 \/ k.m2 = 0) /\ ~k.entry
    <3> DEFINE a == [t EXCEPT !.entry = FALSE]
    <3>1. Rec(a) /\ SteadyBut([t EXCEPT !.entry = FALSE], a) /\ a.cut = t.cut /\ ~a.entry
      BY DEF Good, Typed, Rec, Fields, SteadyBut
    <3>2. /\ a.word = t.word /\ a.level = t.level /\ a.seg = t.seg /\ a.dwell = t.dwell
          /\ a.mode = t.mode /\ a.slot = t.slot /\ a.type = t.type /\ a.sec = t.sec
          /\ a.medium = t.medium /\ a.inner = t.inner /\ a.m0 = t.m0 /\ a.m2 = t.m2
          /\ a.pending = t.pending /\ a.scroll = t.scroll /\ a.banner = t.banner
          /\ a.base = t.base /\ a.earned = t.earned
      BY DEF Good, Typed, Rec, Fields
    <3>3. k = a \/ k = startMode2(a)
      BY <1>1, <1>2
    <3> HIDE DEF a
    <3> QED
      BY <3>1, <3>2, <3>3 DEF startMode2, Rec, Fields
  <2> SUFFICES ASSUME ~t.cut PROVE Calm(k, 0)
    BY <2>1 DEF Quiet
  <2>2. Calm(t, 0) /\ t.inner = Off /\ t.m0 = None /\ t.entry
    BY <1>1, <1>2 DEF Good, Orderly, Solo, Quiet, Calm, Ends
  <2> QED
    BY <2>1, <2>2 DEF Calm, Aside, Before, Gone, Intros, Ends, WithinDemo, Low, Turned, Pages,
                      Lasts, Shows, Carries, None
<1> QED
  BY <1>1, <1>2

-----------------------------------------------------------------------------
(* The seconds a banner adds.                                              *)
LEMMA Quotient ==
    \A a, q \in Int, e \in Nat \ {0} : q * e <= a /\ a < q * e + e => a \div e = q
  OBVIOUS

LEMMA Rounded ==
    ASSUME NEW n \in Nat, NEW e \in Nat \ {0}
    PROVE  /\ n \div e \in Nat /\ (n + e - 1) \div e \in Nat
           /\ (n % e) = 0 => (n + e - 1) \div e = n \div e /\ (n + e) \div e = n \div e + 1
           /\ (n % e) # 0 => (n + e - 1) \div e = n \div e + 1 /\ (n + e) \div e = n \div e + 1
<1> DEFINE q == n \div e
           r == n % e
<1>1. q \in Nat /\ r \in 0..(e - 1) /\ n = q * e + r
  OBVIOUS
<1>2. q * e \in Nat /\ (q + 1) * e = q * e + e
  BY <1>1
<1> HIDE DEF q, r
<1>3. (n + e) \div e = q + 1
  BY <1>1, <1>2, Quotient
<1>4. r = 0 => (n + e - 1) \div e = q
  BY <1>1, <1>2, Quotient
<1>5. r # 0 => (n + e - 1) \div e = q + 1
  BY <1>1, <1>2, Quotient
<1> QED
  BY <1>1, <1>3, <1>4, <1>5 DEF q, r

LEMMA AddedSteps ==
    ASSUME NEW level \in Levels, NEW n \in Nat
    PROVE  /\ Added(level, 0) = 0
           /\ Added(level, n + 1) =
                 Added(level, n) + IF AddsStep(n + 1, Extra[level]) THEN Intro.step ELSE 0
           /\ n >= Intro.clear + Extra[level] => Added(level, n) = Extra[level]
           /\ Added(level, n) \in Nat /\ Extra[level] \in Nat
<1> DEFINE e == Intro.every
           p == Intro.step
           x == Extra[level]
           st == x \div p
           c == Intro.clear
<1>1. e \in Nat \ {0} /\ p \in Nat \ {0} /\ x \in Nat /\ c \in Nat
  BY FlowAssumption
<1>2. st \in Nat /\ x = st * p /\ (st - 1) * e < c + x
  BY <1>1, ExtraComesInTime
<1>3. \A i : Added(level, i) = p * IF (i + e - 1) \div e < st THEN (i + e - 1) \div e ELSE st
  BY DEF Added
<1>4. AddsStep(n + 1, x) <=> ((n + 1 - 1) % e) = 0 /\ (n + 1 - 1) \div e < st
  BY DEF AddsStep
<1> HIDE DEF e, p, x, st, c
<1>5. n + 1 - 1 = n /\ n + 1 + e - 1 = n + e
  BY <1>1
<1>6. AddsStep(n + 1, x) <=> (n % e) = 0 /\ n \div e < st
  BY <1>4, <1>5
<1> DEFINE q == n \div e
           b == (n + e - 1) \div e
           d == (n + e) \div e
<1>7. q \in Nat /\ b \in Nat /\ d = q + 1 /\ ((n % e) = 0 => b = q) /\ ((n % e) # 0 => b = q + 1)
  BY <1>1, Rounded
<1>8. Added(level, n + 1) = p * IF d < st THEN d ELSE st
  BY <1>3, <1>5
<1>9. Added(level, n) = p * IF b < st THEN b ELSE st
  BY <1>3
<1>10. Added(level, 0) = 0
  <2>1. (0 + e - 1) \div e = 0
    BY <1>1, Quotient
  <2> QED
    BY <1>1, <1>2, <1>3, <2>1
<1> HIDE DEF q, b, d
<1>11. p * (q + 1) = p * q + p /\ p * q \in Nat /\ p * st \in Nat
  BY <1>1, <1>2, <1>7
<1>12. Added(level, n + 1) = Added(level, n) + IF AddsStep(n + 1, x) THEN p ELSE 0
  <2>1. CASE (n % e) = 0 /\ q < st
    <3>1. AddsStep(n + 1, x)
      BY <1>6, <2>1 DEF q
    <3>2. Added(level, n) = p * q
      BY <1>7, <1>9, <2>1
    <3>3. Added(level, n + 1) = p * (q + 1)
      <4>1. CASE q + 1 = st
        BY <1>7, <1>8, <4>1
      <4>2. CASE q + 1 < st
        BY <1>7, <1>8, <4>2
      <4> QED
        BY <1>2, <1>7, <2>1, <4>1, <4>2
    <3> QED
      BY <1>11, <3>1, <3>2, <3>3
  <2>2. CASE (n % e) = 0 /\ ~(q < st)
    <3>1. ~AddsStep(n + 1, x)
      BY <1>6, <2>2 DEF q
    <3>2. Added(level, n) = p * st /\ Added(level, n + 1) = p * st
      BY <1>2, <1>7, <1>8, <1>9, <2>2
    <3> QED
      BY <1>11, <3>1, <3>2
  <2>3. CASE (n % e) # 0
    <3>1. ~AddsStep(n + 1, x)
      BY <1>6, <2>3
    <3>2. b = d
      BY <1>7, <2>3
    <3>3. Added(level, n) = Added(level, n + 1) /\ Added(level, n) \in Nat
      <4>1. (IF b < st THEN b ELSE st) \in Nat
        BY <1>2, <1>7
      <4> QED
        BY <1>1, <1>8, <1>9, <3>2, <4>1
    <3> QED
      BY <3>1, <3>3
  <2> QED
    BY <2>1, <2>2, <2>3
<1>13. n >= c + x => Added(level, n) = x
  <2> SUFFICES ASSUME n >= c + x PROVE ~(b < st)
    BY <1>1, <1>2, <1>9
  <2>1. n > (st - 1) * e /\ (st - 1) * e = st * e - e /\ st * e \in Nat
    BY <1>1, <1>2
  <2>2. n + e - 1 >= st * e
    BY <1>1, <2>1
  <2>3. \A a, m \in Nat, f \in Nat \ {0} : a >= m * f => a \div f >= m
    OBVIOUS
  <2>4. n + e - 1 \in Nat
    BY <1>1
  <2>5. b >= st
    BY <1>1, <1>2, <2>2, <2>3, <2>4 DEF b
  <2> QED
    BY <1>2, <1>7, <2>5
<1>14. Added(level, n) \in Nat
  <2>1. (IF b < st THEN b ELSE st) \in Nat
    BY <1>2, <1>7
  <2> QED
    BY <1>1, <1>9, <2>1
<1> QED
  BY <1>1, <1>10, <1>12, <1>13, <1>14 DEF e, p, x, c

(* An intro ends with the time of the goal before and its own.             *)
LEMMA IntroQuiet ==
    ASSUME NEW t, Good(t), Runs(t), Quiet(t, 0), NEW fresh \in BOOLEAN,
           fresh /\ WarmSeed(t) /\ ~t.cut => t.earned.time = None
    PROVE  LET k == advanceLevelIntro(t, fresh)
           IN  /\ Quiet(k, 0) /\ k.word \in {t.word, 0} /\ (~t.cut => k.word = t.word)
               /\ (~t.cut /\ t.banner # None /\ k.banner = None /\ t.earned.time # None)
                     => /\ k.word = 0 /\ k.level = t.earned.level + 1
                        /\ k.sec = t.earned.time + Extra[k.level]
<1> DEFINE k == advanceLevelIntro(t, fresh)
           a == [t EXCEPT !.scroll = @ + 1]
           b == [t EXCEPT !.base = t.sec, !.scroll = 0]
           n == NoIntro(t)
           r == [t EXCEPT !.sec = t.base, !.scroll = None, !.banner = 0,
                          !.medium = Digits.medium, !.inner = Off]
           p == [t EXCEPT !.banner = t.banner + 1,
                          !.sec = IF AddsStep(t.banner + 1, Extra[t.level])
                                  THEN @ + Intro.step ELSE @]
           h == [p EXCEPT !.word = 0, !.inner = Digits.inner]
           e == NoIntro(h)
           full == t.banner + 1 >= Intro.clear + Extra[t.level]
<1>1. \/ t.scroll # None /\ k = a
      \/ t.scroll # None /\ t.level \notin Levels /\ k = n
      \/ t.scroll # None /\ t.level \in Levels /\ k = r
      \/ t.scroll = None /\ t.banner # None /\ t.level \in Levels /\ ~full /\ k = p
      \/ t.scroll = None /\ t.banner # None /\ t.level \in Levels /\ full /\ k = e
      \/ t.scroll = None /\ t.banner # None /\ t.level \notin Levels /\ k = n
      \/ t.scroll = None /\ t.banner = None /\ fresh /\ WarmSeed(t) /\ k = b
      \/ k = t /\ t.banner = None
  <2>1. advanceBanner(t) = IF full THEN e ELSE p
    BY DEF advanceBanner, HandedOver
  <2>2. armLevelIntroBanner(t) = IF t.level \notin Levels THEN n ELSE r
    BY DEF armLevelIntroBanner
  <2> HIDE DEF a, b, n, r, p, h, e, full
  <2> QED
    BY <2>1, <2>2, Zenon DEF advanceLevelIntro, a, b, n
<1>2. /\ Digits.inner \in Nat /\ Off = -1 /\ None = -1
      /\ t.scroll \in Nat \cup {None} /\ t.banner \in Nat \cup {None} /\ Typed(t)
  BY FlowAssumption DEF Good, Typed, Counts, Off, None
<1>3. SteadyBut(t, [a EXCEPT !.scroll = t.scroll]) /\ a.scroll = t.scroll + 1
      /\ a.word = t.word /\ a.level = t.level /\ a.slot = t.slot /\ a.cut = t.cut
      /\ a.type = t.type /\ a.sec = t.sec /\ a.medium = t.medium /\ a.inner = t.inner
      /\ a.m0 = t.m0 /\ a.m2 = t.m2 /\ a.pending = t.pending /\ a.entry = t.entry
      /\ a.banner = t.banner /\ a.base = t.base /\ a.earned = t.earned
  BY DEF Good, Typed, Rec, Fields, SteadyBut
<1>4. /\ b.word = t.word /\ b.level = t.level /\ b.slot = t.slot /\ b.cut = t.cut
      /\ b.type = t.type /\ b.sec = t.sec /\ b.medium = t.medium /\ b.inner = t.inner
      /\ b.m0 = t.m0 /\ b.m2 = t.m2 /\ b.pending = t.pending /\ b.entry = t.entry
      /\ b.earned = t.earned
  BY DEF Good, Typed, Rec, Fields
<1>5. n.cut = t.cut /\ n.word = t.word
  BY DEF NoIntro, Good, Typed, Rec, Fields
<1>6. /\ r.word = t.word /\ r.level = t.level /\ r.slot = t.slot /\ r.cut = t.cut
      /\ r.type = t.type /\ r.sec = t.base /\ r.inner = Off
      /\ r.m0 = t.m0 /\ r.m2 = t.m2 /\ r.pending = t.pending /\ r.entry = t.entry
      /\ r.earned = t.earned /\ r.scroll = None /\ r.banner = 0
  BY DEF Good, Typed, Rec, Fields
<1>7. /\ p.word = t.word /\ p.level = t.level /\ p.slot = t.slot /\ p.cut = t.cut
      /\ p.type = t.type /\ p.inner = t.inner
      /\ p.sec = t.sec + IF AddsStep(t.banner + 1, Extra[t.level]) THEN Intro.step ELSE 0
      /\ p.m0 = t.m0 /\ p.m2 = t.m2 /\ p.pending = t.pending /\ p.entry = t.entry
      /\ p.earned = t.earned /\ p.scroll = t.scroll /\ p.banner = t.banner + 1 /\ Rec(p)
  <2> DEFINE adds == AddsStep(t.banner + 1, Extra[t.level])
  <2> HIDE DEF adds
  <2>1. t.sec \in Nat
    BY <1>2 DEF Typed, Marble
  <2>2. p = [t EXCEPT !.banner = t.banner + 1, !.sec = IF adds THEN @ + Intro.step ELSE @]
    BY DEF adds
  <2> HIDE DEF p
  <2>3. p.sec = IF adds THEN t.sec + Intro.step ELSE t.sec
    BY <1>2, <2>2 DEF Typed, Rec, Fields
  <2>4. p.sec = t.sec + IF adds THEN Intro.step ELSE 0
    BY <2>1, <2>3
  <2>5. /\ p.word = t.word /\ p.level = t.level /\ p.slot = t.slot /\ p.cut = t.cut
        /\ p.type = t.type /\ p.inner = t.inner
        /\ p.m0 = t.m0 /\ p.m2 = t.m2 /\ p.pending = t.pending /\ p.entry = t.entry
        /\ p.earned = t.earned /\ p.scroll = t.scroll /\ p.banner = t.banner + 1 /\ Rec(p)
    BY <1>2, <2>2 DEF Typed, Rec, Fields
  <2> QED
    BY <2>4, <2>5 DEF adds
<1> HIDE DEF p
<1>8. /\ e.word = 0 /\ e.level = p.level /\ e.slot = p.slot /\ e.cut = p.cut
      /\ e.type = p.type /\ e.sec = p.sec /\ e.inner = Digits.inner
      /\ e.m0 = p.m0 /\ e.m2 = p.m2 /\ e.pending = p.pending /\ e.entry = p.entry
      /\ e.earned = p.earned /\ e.scroll = None /\ e.banner = None
  <2>1. /\ h.word = 0 /\ h.level = p.level /\ h.slot = p.slot /\ h.cut = p.cut
        /\ h.type = p.type /\ h.sec = p.sec /\ h.inner = Digits.inner
        /\ h.m0 = p.m0 /\ h.m2 = p.m2 /\ h.pending = p.pending /\ h.entry = p.entry
        /\ h.earned = p.earned /\ Rec(h)
    BY <1>7 DEF Rec, Fields
  <2> HIDE DEF h
  <2> QED
    BY <2>1 DEF NoIntro, Rec, Fields
<1> HIDE DEF k, a, b, n, r, h, e, full
<1>9. k.cut = t.cut /\ k.word \in {t.word, 0}
  BY <1>1, <1>3, <1>4, <1>5, <1>6, <1>7, <1>8
<1> SUFFICES ASSUME ~t.cut
             PROVE  /\ Calm(k, 0) /\ k.word = t.word
                    /\ (t.banner # None /\ k.banner = None /\ t.earned.time # None)
                          => /\ k.word = 0 /\ k.level = t.earned.level + 1
                             /\ k.sec = t.earned.time + Extra[k.level]
  BY <1>9 DEF Quiet, k
<1>10. /\ Calm(t, 0) /\ Orderly(t) /\ Solo(t) /\ Fits(t) /\ Runs(t) /\ Playable(t)
  BY DEF Quiet, Good, Orderly, Runs
<1>11. t.scroll # None \/ t.banner # None =>
          /\ t.word = 0 /\ t.level \in Levels /\ t.m0 = None /\ t.m2 = None /\ ~t.entry
          /\ ~t.pending /\ ~Gone(t) /\ t.slot # 3
  <2>1. t.scroll # None \/ t.banner # None =>
           /\ t.word = 0 /\ t.level \in Levels /\ t.m0 = None /\ t.m2 = None /\ ~t.entry
           /\ ~t.pending /\ ~Gone(t)
    BY <1>10 DEF Solo, Fits, Playable, Calm, Intros, Ends
  <2>2. t.m0 = None => ~Before(t)
    BY DEF Before
  <2> QED
    BY <1>10, <2>1, <2>2 DEF Calm, Aside, Gone
<1>12. CASE t.scroll # None /\ k = a
  <2>1. k.scroll # None
    BY <1>2, <1>3, <1>12
  <2> QED
    BY <1>2, <1>3, <1>10, <1>11, <1>12, <2>1
       DEF Calm, Aside, Before, Gone, Intros, Ends, WithinDemo, Low, Turned, Pages, Lasts,
           Shows, Carries, Solo
<1>13. CASE t.scroll # None /\ t.level \in Levels /\ k = r
  <2>1. t.earned.time # None => k.sec = t.earned.time + Added(k.level, k.banner)
    <3>1. Added(t.level, 0) = 0
      BY <1>13, AddedSteps
    <3>2. t.base = t.earned.time \/ t.earned.time = None
      BY <1>10, <1>13 DEF Calm, Carries
    <3>3. t.earned.time \in Nat \cup {None}
      BY <1>2 DEF Typed, Words
    <3> QED
      BY <1>6, <1>13, <3>1, <3>2, <3>3
  <2>2. k.banner # None /\ t.banner = None
    BY <1>2, <1>6, <1>10, <1>13 DEF Solo
  <2> QED
    BY <1>6, <1>10, <1>11, <1>13, <2>1, <2>2
       DEF Calm, Aside, Before, Gone, Intros, Ends, WithinDemo, Low, Turned, Pages, Lasts,
           Shows, Carries
<1>14. t.scroll = None /\ t.banner # None /\ t.level \in Levels /\ t.earned.time # None
          => /\ p.sec = t.earned.time + Added(t.level, t.banner + 1)
             /\ t.level = t.earned.level + 1
  <2> SUFFICES ASSUME t.scroll = None, t.banner # None, t.level \in Levels,
                      t.earned.time # None
               PROVE  /\ p.sec = t.earned.time + Added(t.level, t.banner + 1)
                      /\ t.level = t.earned.level + 1
    OBVIOUS
  <2>1. t.banner \in Nat /\ t.earned.time \in Nat /\ Intro.step \in Nat
    BY <1>2, FlowAssumption DEF Typed, Words
  <2>2. t.level = t.earned.level + 1 /\ t.sec = t.earned.time + Added(t.level, t.banner)
    BY <1>10 DEF Calm, Carries
  <2>3. Added(t.level, t.banner) \in Nat
        /\ Added(t.level, t.banner + 1) =
              Added(t.level, t.banner)
              + IF AddsStep(t.banner + 1, Extra[t.level]) THEN Intro.step ELSE 0
    BY <2>1, AddedSteps
  <2> DEFINE d == IF AddsStep(t.banner + 1, Extra[t.level]) THEN Intro.step ELSE 0
  <2>4. d \in Nat /\ p.sec = t.sec + d
        /\ Added(t.level, t.banner + 1) = Added(t.level, t.banner) + d
    BY <1>7, <2>1, <2>3
  <2> HIDE DEF d
  <2> QED
    BY <2>1, <2>2, <2>3, <2>4
<1>15. CASE t.scroll = None /\ t.banner # None /\ t.level \in Levels /\ ~full /\ k = p
  <2>1. k.banner # None
    BY <1>2, <1>7, <1>15
  <2> QED
    BY <1>7, <1>10, <1>11, <1>14, <1>15, <2>1
       DEF Calm, Aside, Before, Gone, Intros, Ends, WithinDemo, Low, Turned, Pages, Lasts,
           Shows, Carries
<1>16. CASE t.scroll = None /\ t.banner # None /\ t.level \in Levels /\ full /\ k = e
  <2>1. Calm(k, 0)
    BY <1>7, <1>8, <1>10, <1>11, <1>16
       DEF Calm, Aside, Before, Gone, Intros, Ends, WithinDemo, Low, Turned, Pages, Lasts,
           Shows, Carries
  <2>2. Added(t.level, t.banner + 1) = Extra[t.level]
    <3>1. t.banner + 1 \in Nat
      BY <1>2, <1>16
    <3> QED
      BY <1>16, <3>1, AddedSteps DEF full
  <2> QED
    BY <1>7, <1>8, <1>11, <1>14, <1>16, <2>1, <2>2
<1>17. CASE t.scroll = None /\ t.banner = None /\ fresh /\ WarmSeed(t) /\ k = b
  <2>1. t.earned.time = None /\ t.word = 0 /\ t.slot = 1 /\ t.type = 0
    BY <1>17 DEF WarmSeed
  <2>2. t.m0 = None /\ ~t.entry
    BY <1>10, <2>1 DEF Fits
  <2> QED
    BY <1>4, <1>10, <1>17, <2>1, <2>2
       DEF Calm, Aside, Before, Gone, Intros, Ends, WithinDemo, Low, Turned, Pages, Lasts,
           Shows, Carries
<1>18. CASE k = t /\ t.banner = None
  BY <1>10, <1>18
<1> QED
  BY <1>1, <1>11, <1>12, <1>13, <1>15, <1>16, <1>17, <1>18

(* Where the clock need not last, the pace does not matter.                *)
LEMMA AwayQuiet ==
    ASSUME NEW t, NEW k, NEW n, NEW m, Quiet(t, n), SteadyBut(t, k),
           \/ t.m0 # None
           \/ t.word # 1 /\ (t.word = 3 => t.inner = Off)
    PROVE  Quiet(k, m)
<1> SUFFICES ASSUME ~k.cut PROVE Calm(k, m)
  BY DEF Quiet
<1>0. Calm(t, n)
  BY DEF Quiet, SteadyBut
<1>1. Inits(k) = Inits(t) /\ (Before(k) <=> Before(t)) /\ (Shows(k) <=> Shows(t))
      /\ Summary(k) = Summary(t) /\ FramesLeft(k) = FramesLeft(t)
  BY SameShow, SameLeft DEF SteadyBut
<1>2. Aside(k) /\ Intros(k) /\ Ends(k) /\ WithinDemo(k) /\ Low(k) /\ Pages(k) /\ Carries(k)
  BY <1>0, <1>1 DEF SteadyBut, Calm, Aside, Gone, Intros, Ends, WithinDemo, Low, Pages, Carries
<1>3. Turned(k, m) /\ Lasts(k, m)
  BY <1>0, <1>1 DEF SteadyBut, Calm, Turned, Full, Lasts
<1> QED
  BY <1>2, <1>3 DEF Calm

(* A page of the attract mode is shown for one frame less.                 *)
LEMMA Case1Quiet ==
    ASSUME NEW t, Good(t), Free(t), t.word = 1, ~t.odd, Quiet(t, 2), ~t.cut,
           NEW k \in Case1(t)
    PROVE  Quiet(k, 0) /\ k.word = 1 /\ k.odd = t.odd
<1> DEFINE less == [t EXCEPT !.dwell = @ - 1]
           page == [t EXCEPT !.dwell = 0, !.mode = 0]
           first == startMode0(page)
           waited == CASE t.dwell = 0 -> t
                       [] t.dwell = 1 -> dwellEnds(t)
                       [] OTHER -> [t EXCEPT !.dwell = @ - 1]
<1>1. Calm(t, 2) /\ Typed(t) /\ t.m0 = None /\ t.m2 = None /\ Odd(t) = 0
  BY DEF Quiet, Good, Free, Odd
<1>2. t.mode \in {2, 3} /\ t.dwell > 0 /\ t.dwell \in Nat
  BY <1>1 DEF Calm, Pages, Typed, Words
<1>3. waited = IF t.dwell = 1 THEN first ELSE less
  <2>1. dwellEnds(t) = first
    <3> DEFINE next == IF t.mode + 1 > 2 THEN 0 ELSE t.mode + 1
               turned == [t EXCEPT !.dwell = 0, !.mode = next]
    <3>1. next = 0
      BY <1>2
    <3>2. dwellEnds(t) = CASE next = 2 -> startMode2(turned)
                           [] next = 0 -> startMode0(turned)
                           [] next = 1 -> [turned EXCEPT !.dwell = 1]
      BY DEF dwellEnds
    <3> HIDE DEF next
    <3>3. turned = page
      BY <3>1
    <3> HIDE DEF turned, page
    <3>4. dwellEnds(t) = startMode0(turned)
      BY <3>1, <3>2
    <3> QED
      BY <3>3, <3>4
  <2> HIDE DEF first
  <2> QED
    BY <1>2, <2>1
<1>4. IF waited.m0 = None /\ waited.mode = 0 THEN k \in RefreshFrame(waited)
      ELSE k = waited
  BY DEF Case1
<1>5. /\ less.word = t.word /\ less.level = t.level /\ less.seg = t.seg
      /\ less.mode = t.mode /\ less.slot = t.slot /\ less.type = t.type
      /\ less.sec = t.sec /\ less.medium = t.medium /\ less.inner = t.inner
      /\ less.m0 = t.m0 /\ less.m2 = t.m2 /\ less.pending = t.pending
      /\ less.scroll = t.scroll /\ less.banner = t.banner /\ less.base = t.base
      /\ less.entry = t.entry /\ less.earned = t.earned /\ less.cut = t.cut
      /\ less.odd = t.odd /\ less.dwell = t.dwell - 1
  BY <1>1 DEF Typed, Rec, Fields
<1>6. /\ first.word = t.word /\ first.level = t.level /\ first.seg = t.seg
      /\ first.mode = 0 /\ first.slot = t.slot /\ first.type = t.type
      /\ first.sec = t.sec /\ first.medium = t.medium /\ first.inner = t.inner
      /\ first.m0 = 0 /\ first.m2 = t.m2 /\ first.pending = t.pending
      /\ first.scroll = t.scroll /\ first.banner = t.banner /\ first.base = t.base
      /\ first.entry = t.entry /\ first.earned = t.earned /\ first.cut = t.cut
      /\ first.odd = t.odd
  <2>1. /\ page.word = t.word /\ page.level = t.level /\ page.seg = t.seg
        /\ page.mode = 0 /\ page.slot = t.slot /\ page.type = t.type
        /\ page.sec = t.sec /\ page.medium = t.medium /\ page.inner = t.inner
        /\ page.m2 = t.m2 /\ page.pending = t.pending
        /\ page.scroll = t.scroll /\ page.banner = t.banner /\ page.base = t.base
        /\ page.entry = t.entry /\ page.earned = t.earned /\ page.cut = t.cut
        /\ page.odd = t.odd /\ Rec(page)
    BY <1>1 DEF Typed, Rec, Fields
  <2> HIDE DEF page
  <2> QED
    BY <2>1 DEF startMode0, Rec, Fields
<1> HIDE DEF less, first, page, waited
<1>7. /\ t.inner # Off => FramesLeft(t) \in Nat
      /\ Summary(t) \in Nat
  BY <1>1, LeftFacts, DigitsFacts DEF Summary
<1>8. CASE t.dwell = 1
  <2>1. k = first
    <3>1. first.m0 # None
      BY <1>6, DigitsFacts
    <3> QED
      BY <1>3, <1>4, <1>8, <3>1
  <2>2. ~Before(first) /\ ~Before(t) /\ ~Shows(first) /\ Summary(first) = Summary(t)
        /\ FramesLeft(first) = FramesLeft(t) /\ first.m0 # None
    BY <1>1, <1>6, Stages, SameLeft, DigitsFacts DEF Before, Shows, Summary
  <2>3. 0 <= Demo[t.seg].last
    BY <1>1, Stages
  <2>4. Aside(first) /\ Intros(first) /\ Ends(first) /\ WithinDemo(first) /\ Low(first)
        /\ Turned(first, 0) /\ Pages(first) /\ Carries(first)
    BY <1>1, <1>6, <2>2, <2>3, DigitsFacts
       DEF Calm, Aside, Gone, Intros, Ends, WithinDemo, Low, Turned, Pages, Carries
  <2>5. Lasts(first, 0)
    <3> SUFFICES ASSUME t.inner # Off PROVE FramesLeft(t) >= Summary(t)
      BY <1>6, <2>2 DEF Lasts
    <3>1. CASE t.mode = 2 /\ t.seg = 3
      BY <1>7, <3>1 DEF Summary
    <3>2. CASE ~(t.mode = 2 /\ t.seg = 3)
      <4>1. FramesLeft(t) + 2 >= Summary(t) + (2 * t.dwell - Odd(t))
        BY <1>1, <3>2 DEF Calm, Lasts
      <4> QED
        BY <1>1, <1>7, <1>8, <4>1
    <3> QED
      BY <3>1, <3>2
  <2> QED
    BY <1>6, <2>1, <2>4, <2>5 DEF Quiet, Calm
<1>9. CASE t.dwell # 1
  <2>1. k = less
    BY <1>2, <1>3, <1>4, <1>5, <1>9
  <2>2. (Before(less) <=> Before(t)) /\ (Shows(less) <=> Shows(t)) /\ ~Shows(t)
        /\ Summary(less) = Summary(t) /\ FramesLeft(less) = FramesLeft(t)
        /\ Odd(less) = Odd(t)
    BY <1>1, <1>5, SameShow, SameLeft DEF Shows, Odd
  <2>3. Aside(less) /\ Intros(less) /\ Ends(less) /\ WithinDemo(less) /\ Low(less)
        /\ Turned(less, 0) /\ Carries(less)
    BY <1>1, <1>5, <2>2
       DEF Calm, Aside, Gone, Intros, Ends, WithinDemo, Low, Turned, Carries
  <2>4. Pages(less)
    BY <1>1, <1>2, <1>5, <1>9 DEF Pages
  <2>5. Lasts(less, 0)
    BY <1>1, <1>2, <1>5, <1>7, <2>2 DEF Calm, Lasts
  <2> QED
    BY <1>5, <2>1, <2>3, <2>4, <2>5 DEF Quiet, Calm
<1> QED
  BY <1>8, <1>9

(* The game is over: its clock is parked.                                  *)
LEMMA OverQuiet ==
    ASSUME NEW t, Good(t), Free(t), Calm(t, 2), t.word \notin {1, 3, 5},
           NEW k, k.word = 2, k.inner = Off,
           k.m0 = t.m0, k.scroll = t.scroll, k.banner = t.banner, k.slot = t.slot,
           k.type = t.type, k.pending = t.pending, k.earned = t.earned
    PROVE  Quiet(k, 0)
<1>1. t.m0 = None /\ ~Before(t) /\ ~Before(k) /\ t.scroll = None /\ t.banner = None
  BY DEF Free, Before
<1> QED
  BY <1>1 DEF Quiet, Calm, Aside, Gone, Intros, Ends, WithinDemo, Low, Turned, Pages, Lasts,
              Carries, Shows

LEMMA Case2Quiet ==
    ASSUME NEW t, Good(t), Free(t), Runs(t), t.word = 4, Quiet(t, 2), ~t.cut
    PROVE  Quiet(case2(t), 0) /\ case2(t).word # 4 /\ case2(t).odd = t.odd
<1> DEFINE p == Parked(t)
           k == case2(t)
<1>1. t.slot = 2
  BY DEF Runs, Overdue
<1>2. /\ p.word = t.word /\ p.inner = Off /\ p.m0 = t.m0 /\ p.scroll = t.scroll
      /\ p.banner = t.banner /\ p.slot = t.slot /\ p.type = t.type
      /\ p.pending = t.pending /\ p.earned = t.earned /\ p.odd = t.odd /\ Rec(p)
  BY DEF Good, Typed, Rec, Fields, Parked
<1>3. k = [p EXCEPT !.word = 2, !.wait = IF t.slot = 2 /\ @ = None THEN Waits.timeout ELSE @]
  BY <1>1, <1>2 DEF case2, stateSub16A20
<1> HIDE DEF p, k
<1>4. /\ k.word = 2 /\ k.inner = Off /\ k.m0 = t.m0 /\ k.scroll = t.scroll
      /\ k.banner = t.banner /\ k.slot = t.slot /\ k.type = t.type
      /\ k.pending = t.pending /\ k.earned = t.earned /\ k.odd = t.odd
  BY <1>2, <1>3 DEF Rec, Fields
<1>5. Quiet(k, 0)
  BY <1>4, OverQuiet DEF Quiet
<1> QED
  BY <1>4, <1>5 DEF k

LEMMA Case6Quiet ==
    ASSUME NEW t, Good(t), Free(t), t.word = 6, Quiet(t, 2), ~t.cut
    PROVE  Quiet(case6(t), 0) /\ case6(t).word # 4 /\ case6(t).odd = t.odd
<1> DEFINE k == case6(t)
<1>1. /\ k.word = 2 /\ k.inner = t.inner /\ k.m0 = t.m0 /\ k.scroll = t.scroll
      /\ k.banner = t.banner /\ k.slot = t.slot /\ k.type = t.type
      /\ k.pending = t.pending /\ k.earned = t.earned /\ k.odd = t.odd
  BY DEF Good, Typed, Rec, Fields, case6
<1> HIDE DEF k
<1>2. Calm(t, 2) /\ t.inner = Off
  BY DEF Quiet, Calm, Ends
<1>3. Quiet(k, 0)
  BY <1>1, <1>2, OverQuiet
<1> QED
  BY <1>1, <1>3 DEF k

\* back in the attract mode
LEMMA Case3Quiet ==
    ASSUME NEW t, Good(t), Free(t), t.word = 2, Quiet(t, 2), ~t.cut, NEW ranks \in BOOLEAN
    PROVE  LET k == case3(t, ranks)
           IN  Quiet(k, 0) /\ k.word # 4 /\ k.odd = t.odd
<1> DEFINE k == case3(t, ranks)
<1>1. /\ k.word = 1 /\ k.level = 1 /\ k.mode = 2 /\ k.dwell = Dwells.over
      /\ k.inner = t.inner /\ k.m0 = t.m0 /\ k.scroll = t.scroll
      /\ k.banner = t.banner /\ k.slot = t.slot /\ k.type = t.type
      /\ k.pending = t.pending /\ k.earned.time = None /\ k.odd = t.odd
  BY DEF Good, Typed, Rec, Fields, case3
<1> HIDE DEF k
<1>2. Calm(t, 2) /\ t.inner = Off /\ t.m0 = None /\ t.scroll = None /\ t.banner = None
      /\ ~t.pending
  BY DEF Quiet, Calm, Ends, Free
<1>3. ~Before(t) /\ ~Before(k)
  BY <1>1, <1>2 DEF Before
<1>4. Calm(k, 0)
  BY <1>1, <1>2, <1>3, DigitsFacts
     DEF Calm, Aside, Gone, Intros, Ends, WithinDemo, Low, Turned, Pages, Lasts, Carries
<1> QED
  BY <1>1, <1>4 DEF k, Quiet

(* The next level's intro takes over the time, or the game is won with the *)
(* clock parked.                                                           *)
LEMMA FinishQuiet ==
    ASSUME NEW t, Good(t), Free(t), ~t.pending, t.word = 3,
           Aside(t), t.level > LastLevel => t.inner = Off,
           t.earned.time # None => t.level = t.earned.level + 1 /\ t.sec = t.earned.time
    PROVE  LET k == finishCase4(t)
           IN  Quiet(k, 0) /\ k.word # 4 /\ k.odd = t.odd
<1> DEFINE k == finishCase4(t)
           made == mainLoopInit10504(t)
           armed == armLevelIntroScroll(made, t.sec)
           over == [t EXCEPT !.word = 6]
           play == [armed EXCEPT !.word = 0]
<1>1. \/ t.level > LastLevel /\ k = over
      \/ ~(t.level > LastLevel) /\ k = play
  BY DEF finishCase4
<1>2. t.m0 = None /\ t.scroll = None /\ t.banner = None /\ ~t.entry /\ ~Before(t)
  BY DEF Free, Before
<1>3. CASE t.level > LastLevel /\ k = over
  <2>1. /\ over.word = 6 /\ over.inner = t.inner /\ over.m0 = t.m0
        /\ over.scroll = t.scroll /\ over.banner = t.banner /\ over.slot = t.slot
        /\ over.type = t.type /\ over.pending = t.pending /\ over.earned = t.earned
        /\ over.odd = t.odd /\ over.entry = t.entry
    BY DEF Good, Typed, Rec, Fields
  <2> HIDE DEF over
  <2>2. ~Before(over)
    BY <1>2, <2>1 DEF Before
  <2>3. Calm(over, 0)
    BY <1>2, <1>3, <2>1, <2>2
       DEF Calm, Aside, Gone, Intros, Ends, WithinDemo, Low, Turned, Pages, Lasts, Carries
  <2> QED
    BY <1>3, <2>1, <2>3 DEF Quiet
<1>4. CASE k = play
  <2>1. /\ Typed(made) /\ made.m0 = t.m0 /\ made.entry = t.entry /\ made.slot \in {0, 1}
        /\ (made.slot = 1 => made.type = 0)
        /\ made.pending = t.pending /\ made.level = t.level /\ made.earned = t.earned
        /\ made.odd = t.odd
    <3>1. Typed(made) /\ SameOwners(t, made)
      BY InitTyped DEF Good
    <3>2. /\ made.slot \in {0, 1} /\ (made.slot = 1 => made.type = 0)
          /\ made.pending = t.pending /\ made.level = t.level /\ made.earned = t.earned
          /\ made.odd = t.odd
      BY DEF Good, Typed, Rec, Fields, mainLoopInit10504
    <3> QED
      BY <3>1, <3>2 DEF SameOwners
  <2> HIDE DEF made
  <2>2. /\ Rec(armed) /\ armed.m0 = made.m0 /\ armed.entry = made.entry
        /\ armed.slot = made.slot
        /\ armed.type = made.type /\ armed.pending = made.pending
        /\ armed.level = made.level /\ armed.earned = made.earned /\ armed.odd = made.odd
        /\ armed.scroll = 0 /\ armed.banner = None /\ armed.base = t.sec
        /\ armed.inner = Off
    <3>1. Rec(made) /\ Rec(armed)
      BY <2>1 DEF Typed, Rec, armLevelIntroScroll
    <3> QED
      BY <3>1 DEF Rec, Fields, armLevelIntroScroll
  <2> HIDE DEF armed
  <2>3. /\ play.word = 0 /\ play.m0 = armed.m0 /\ play.entry = armed.entry
        /\ play.slot = armed.slot
        /\ play.type = armed.type /\ play.pending = armed.pending
        /\ play.level = armed.level /\ play.earned = armed.earned /\ play.odd = armed.odd
        /\ play.scroll = 0 /\ play.banner = None /\ play.base = t.sec
        /\ play.inner = Off
    BY <2>2 DEF Rec, Fields
  <2> HIDE DEF play
  <2>4. Calm(play, 0)
    BY <1>2, <2>1, <2>2, <2>3
       DEF Calm, Aside, Before, Gone, Intros, Ends, WithinDemo, Low, Turned, Pages, Lasts, Carries
  <2> QED
    BY <1>4, <2>1, <2>2, <2>3, <2>4 DEF Quiet
<1> QED
  BY <1>1, <1>3, <1>4

LEMMA Case4Quiet ==
    ASSUME NEW t, Good(t), Free(t), t.word = 3, Quiet(t, 2), ~t.cut
    PROVE  LET k == case4(t)
           IN  Quiet(k, 0) /\ k.word # 4 /\ k.odd = t.odd
<1> DEFINE next == [t EXCEPT !.level = @ + 1]
           done == [t EXCEPT !.pending = FALSE]
           hold == [next EXCEPT !.pending = TRUE, !.wait = Waits.level]
           k == case4(t)
<1>0. \/ t.pending /\ k = finishCase4(done)
      \/ ~t.pending /\ t.slot = 3 /\ k = hold
      \/ ~t.pending /\ t.slot # 3 /\ k = finishCase4(next)
  BY DEF case4
<1>1. /\ Typed(next) /\ Typed(done) /\ SameOwners(t, next) /\ SameOwners(t, done)
      /\ next.word = t.word /\ next.stale = t.stale
      /\ done.word = t.word /\ done.stale = t.stale
  BY CountedTyped
<1>2. /\ next.level = t.level + 1 /\ next.pending = t.pending /\ next.inner = t.inner
      /\ next.sec = t.sec /\ next.earned = t.earned /\ next.odd = t.odd
      /\ next.slot = t.slot /\ next.type = t.type
  BY DEF Good, Typed, Rec, Fields
<1>3. /\ done.level = t.level /\ ~done.pending /\ done.inner = t.inner
      /\ done.sec = t.sec /\ done.earned = t.earned /\ done.odd = t.odd
      /\ done.slot = t.slot /\ done.type = t.type
  BY DEF Good, Typed, Rec, Fields
<1> HIDE DEF next, done, k
<1>4. Good(next) /\ Good(done) /\ Free(next) /\ Free(done)
  BY <1>1, SameKeeps, SameHolds
<1>5. Calm(t, 2) /\ t.m0 = None /\ ~Before(t) /\ t.level \in Nat /\ t.earned.level \in Int
  BY DEF Quiet, Free, Before, Good, Typed, Words
<1>6. ~Before(next) /\ ~Before(done)
  BY <1>1, <1>5 DEF Before, SameOwners
<1>7. Aside(next) /\ Aside(done)
  BY <1>2, <1>3, <1>5, <1>6 DEF Calm, Aside, Gone
<1>8. CASE t.pending /\ k = finishCase4(done)
  <2>1. t.inner = Off
    BY <1>5, <1>8 DEF Calm, Ends
  <2>2. done.earned.time # None =>
           done.level = done.earned.level + 1 /\ done.sec = done.earned.time
    BY <1>3, <1>5, <1>8 DEF Calm, Carries
  <2> QED
    BY <1>1, <1>3, <1>4, <1>7, <1>8, <2>1, <2>2, FinishQuiet DEF k
<1>9. CASE ~t.pending /\ t.slot = 3 /\ k = hold
  <2>1. t.type = 6 /\ t.inner = Off
    BY <1>5, <1>9 DEF Calm, Aside, Gone
  <2>2. /\ hold.word = next.word /\ hold.m0 = next.m0 /\ hold.entry = next.entry
        /\ hold.slot = next.slot /\ hold.type = next.type /\ hold.pending
        /\ hold.level = next.level /\ hold.earned = next.earned /\ hold.odd = next.odd
        /\ hold.scroll = next.scroll /\ hold.banner = next.banner
        /\ hold.inner = next.inner /\ hold.sec = next.sec
    BY <1>1 DEF Typed, Rec, Fields
  <2> HIDE DEF hold
  <2>3. ~Before(hold)
    BY <1>1, <1>5, <2>2 DEF Before, SameOwners
  <2>4. t.earned.time # None =>
           t.sec = t.earned.time /\ t.level = t.earned.level + 0
    BY <1>5, <1>9 DEF Calm, Carries
  <2>5. hold.level = t.level + 1
    BY <1>2, <2>2
  <2>6. t.earned.time # None => hold.level = t.earned.level + 1
    BY <1>5, <2>4, <2>5
  <2>7. Calm(hold, 0)
    BY <1>1, <1>2, <1>4, <1>5, <1>9, <2>1, <2>2, <2>3, <2>4, <2>6
       DEF SameOwners, Free, Calm, Aside, Gone, Intros, Ends, WithinDemo, Low, Turned, Pages,
           Lasts, Carries
  <2> QED
    BY <1>1, <1>2, <1>9, <2>2, <2>7 DEF Quiet, k
<1>10. CASE ~t.pending /\ t.slot # 3 /\ k = finishCase4(next)
  <2>1. next.earned.time = None
    BY <1>2, <1>5, <1>10 DEF Calm, Carries
  <2>2. next.level > LastLevel => next.inner = Off
    <3>1. t.inner # Off => t.level \in 0..1
      BY <1>5 DEF Calm, Low
    <3> QED
      BY <1>2, <1>5, <3>1, StagesAssumption, FlowAssumption
  <2> QED
    BY <1>1, <1>2, <1>4, <1>7, <1>10, <2>1, <2>2, FinishQuiet DEF k
<1> QED
  BY <1>0, <1>8, <1>9, <1>10

LEMMA Case5Quiet ==
    ASSUME NEW t, Good(t), Free(t), t.word = 5, Quiet(t, 2), ~t.cut
    PROVE  Quiet(case5(t), 0) /\ case5(t).word # 4 /\ case5(t).odd = t.odd
<1> DEFINE fresh == [t EXCEPT !.mode = 0, !.seg = 2, !.level = FirstLevel]
           prepared == gameModePrep(fresh)
           made == mainLoopInit10504(prepared)
           armed == armLevelIntroScroll(made, 0)
           play == [armed EXCEPT !.word = 0,
                                 !.earned = [time |-> 0, level |-> FirstLevel - 1]]
<1>0. case5(t) = play /\ FirstLevel \in Nat
  BY FlowAssumption DEF case5, Levels
<1>1. Rec(fresh) /\ fresh.level = FirstLevel /\ fresh.m0 = t.m0 /\ fresh.entry = t.entry
      /\ fresh.pending = t.pending /\ fresh.odd = t.odd
  BY DEF Good, Typed, Rec, Fields
<1> HIDE DEF fresh
<1>2. Rec(prepared) /\ prepared.level = fresh.level /\ prepared.m0 = fresh.m0
      /\ prepared.entry = fresh.entry /\ prepared.pending = fresh.pending
      /\ prepared.odd = fresh.odd /\ prepared.slot = 3
  <2>1. Rec(prepared)
    BY <1>1 DEF Rec, gameModePrep
  <2> QED
    BY <1>1, <2>1 DEF Rec, Fields, gameModePrep
<1> HIDE DEF prepared
<1>3. Rec(made) /\ made.level = prepared.level /\ made.m0 = prepared.m0
      /\ made.entry = prepared.entry /\ made.pending = prepared.pending
      /\ made.odd = prepared.odd /\ made.slot = 1 /\ made.type = 0
  <2>1. Rec(made)
    BY <1>2 DEF Rec, mainLoopInit10504
  <2> QED
    BY <1>2, <2>1 DEF Rec, Fields, mainLoopInit10504
<1> HIDE DEF made
<1>4. Rec(armed) /\ armed.level = made.level /\ armed.m0 = made.m0
      /\ armed.entry = made.entry /\ armed.pending = made.pending
      /\ armed.odd = made.odd /\ armed.slot = made.slot /\ armed.type = made.type
      /\ armed.scroll = 0 /\ armed.banner = None /\ armed.base = 0 /\ armed.inner = Off
  <2>1. Rec(armed)
    BY <1>3 DEF Rec, armLevelIntroScroll
  <2> QED
    BY <1>3, <2>1 DEF Rec, Fields, armLevelIntroScroll
<1> HIDE DEF armed
<1>5. play.word = 0 /\ play.level = armed.level /\ play.m0 = armed.m0
      /\ play.entry = armed.entry /\ play.pending = armed.pending
      /\ play.odd = armed.odd /\ play.slot = armed.slot /\ play.type = armed.type
      /\ play.scroll = 0 /\ play.banner = None /\ play.base = 0 /\ play.inner = Off
      /\ play.earned = [time |-> 0, level |-> FirstLevel - 1]
  BY <1>4 DEF Rec, Fields
<1> HIDE DEF play
<1>6. t.m0 = None /\ ~t.entry /\ ~t.pending
  BY DEF Free, Quiet, Calm, Ends
<1>7. play.level = play.earned.level + 1 /\ play.base = play.earned.time
  BY <1>0, <1>1, <1>2, <1>3, <1>4, <1>5
<1>8. Calm(play, 0)
  BY <1>1, <1>2, <1>3, <1>4, <1>5, <1>6, <1>7
     DEF Calm, Aside, Before, Gone, Intros, Ends, WithinDemo, Low, Turned, Pages, Lasts, Carries
<1> QED
  BY <1>0, <1>1, <1>2, <1>3, <1>4, <1>5, <1>8 DEF Quiet

LEMMA DispatcherQuiet ==
    ASSUME NEW t, Good(t), Free(t), Runs(t), Quiet(t, 2), ~t.odd, ~t.cut,
           NEW k \in MainLoopInit1101E(t)
    PROVE  Quiet(k, 0) /\ (k.word = 4 => t.word = 4) /\ k.odd = t.odd
           /\ (t.word = 1 => k.word = 1)
<1>0. t.word \in 0..6
  BY DEF Good, Typed, Words
<1>1. CASE t.word = 0
  <2>1. k \in RefreshFrame(t) /\ ~Held(t)
    BY <1>1, FreeOwners DEF MainLoopInit1101E, Free
  <2>2. Quiet(k, 2) /\ (k.word = 4 => t.word = 4) /\ k.odd = t.odd
    BY <1>1, <2>1, RefreshQuiet
  <2>3. k.word \in {0, 3} /\ k.m0 = None /\ (k.word = 3 => k.slot = 3)
    <3>1. PICK l \in Moved(t) : k = objectScanDispatch(l)
      BY <2>1 DEF RefreshFrame
    <3>2. Typed(l) /\ l.word = 0 /\ l.m0 = None
      BY <1>1, MovedTyped DEF Good, SameOwners, Free
    <3> QED
      BY <3>1, <3>2 DEF objectScanDispatch, Typed, Rec, Fields
  <2>4. ~k.cut => (k.word = 3 => k.inner = Off)
    BY <2>2, <2>3 DEF Quiet, Calm, Aside, Gone, Before
  <2>5. SteadyBut(k, k)
    BY DEF SteadyBut
  <2>6. Quiet(k, 0)
    <3>1. CASE k.cut
      BY <3>1 DEF Quiet
    <3>2. CASE ~k.cut
      BY <2>2, <2>3, <2>4, <2>5, <3>2, AwayQuiet
    <3> QED
      BY <3>1, <3>2
  <2> QED
    BY <1>1, <2>2, <2>6
<1>2. CASE t.word = 1
  <2>1. k \in Case1(t)
    BY <1>2 DEF MainLoopInit1101E
  <2> QED
    BY <1>2, <2>1, Case1Quiet
<1>3. CASE t.word = 2
  <2>1. PICK ranks \in BOOLEAN : k = case3(t, ranks)
    BY <1>3 DEF MainLoopInit1101E
  <2> QED
    BY <1>3, <2>1, Case3Quiet
<1>4. CASE t.word = 3
  <2>1. k = case4(t)
    BY <1>4 DEF MainLoopInit1101E
  <2> QED
    BY <1>4, <2>1, Case4Quiet
<1>5. CASE t.word = 4
  <2>1. k = case2(t)
    BY <1>5 DEF MainLoopInit1101E
  <2> QED
    BY <1>5, <2>1, Case2Quiet
<1>6. CASE t.word = 5
  <2>1. k = case5(t)
    BY <1>6 DEF MainLoopInit1101E
  <2> QED
    BY <1>6, <2>1, Case5Quiet
<1>7. CASE t.word = 6
  <2>1. k = case6(t)
    BY <1>7 DEF MainLoopInit1101E
  <2> QED
    BY <1>7, <2>1, Case6Quiet
<1> QED
  BY <1>0, <1>1, <1>2, <1>3, <1>4, <1>5, <1>6, <1>7

(* Nothing but a coin start cuts, and nothing but the page takes the game  *)
(* from its player.                                                        *)
Marked(t, k) == Rec(k) /\ k.cut = t.cut /\ k.manual = t.manual

LEMMA MarkedTwice ==
    ASSUME NEW t, NEW k, NEW l, Marked(t, k), Marked(k, l)
    PROVE  Marked(t, l)
  BY DEF Marked

LEMMA PartsMark ==
    ASSUME NEW t, Rec(t)
    PROVE  /\ Marked(t, t) /\ Marked(t, gameTickTimers(t)) /\ Marked(t, Parked(t))
           /\ Marked(t, gameModePrep(t)) /\ Marked(t, mainLoopInit10504(t))
           /\ Marked(t, NoIntro(t)) /\ Marked(t, armLevelIntroBanner(t))
           /\ Marked(t, objectScanDispatch(t)) /\ Marked(t, startMode2(t))
           /\ Marked(t, startMode0(t)) /\ Marked(t, NextStage(t))
           /\ Marked(t, delaysAdvance(t)) /\ Marked(t, advanceMode2(t))
           /\ Marked(t, case6(t)) /\ Marked(t, updateMode0Timer(t))
           /\ \A time : Marked(t, armLevelIntroScroll(t, time))
           /\ \A ranks \in BOOLEAN : Marked(t, case3(t, ranks))
           /\ Marked(t, [t EXCEPT !.odd = ~@])
           /\ \A late \in BOOLEAN : Marked(t, [t EXCEPT !.odd = late])
<1>1. Marked(t, t)
  BY DEF Marked
<1>2. Marked(t, gameTickTimers(t))
  <2> DEFINE k == tickCascadingTimer(t)
             a == [t EXCEPT !.inner = @ - 1]
             b == [t EXCEPT !.inner = Digits.inner, !.medium = @ - 1]
             c == [t EXCEPT !.inner = Digits.inner, !.medium = Digits.medium, !.sec = @ - 1]
             e == Expired(t)
  <2>1. gameTickTimers(t) \in {t, k} /\ k \in {t, a, b, c, e}
    BY DEF gameTickTimers, tickCascadingTimer
  <2>2. Marked(t, a) /\ Marked(t, b) /\ Marked(t, c)
    <3>1. Rec(a) /\ Rec(b) /\ Rec(c)
      BY DEF Rec
    <3> QED
      BY <3>1 DEF Marked, Rec, Fields
  <2>3. Marked(t, e)
    <3>1. Rec(e)
      BY DEF Rec, Expired
    <3> QED
      BY <3>1 DEF Marked, Rec, Fields, Expired
  <2> HIDE DEF a, b, c, e, k
  <2> QED
    BY <1>1, <2>1, <2>2, <2>3
<1>3. Marked(t, Parked(t)) /\ Marked(t, gameModePrep(t))
  <2>1. Rec(Parked(t)) /\ Rec(gameModePrep(t))
    BY DEF Rec, Parked, gameModePrep
  <2> QED
    BY <2>1 DEF Marked, Rec, Fields, Parked, gameModePrep
<1>4. Marked(t, mainLoopInit10504(t))
  <2>1. Rec(mainLoopInit10504(t))
    BY DEF Rec, mainLoopInit10504
  <2>2. mainLoopInit10504(t).cut = t.cut /\ mainLoopInit10504(t).manual = t.manual
    BY DEF Rec, Fields, mainLoopInit10504
  <2> QED
    BY <2>1, <2>2 DEF Marked
<1>5. Marked(t, NoIntro(t)) /\ Marked(t, armLevelIntroBanner(t))
  <2> DEFINE n == NoIntro(t)
             a == [t EXCEPT !.sec = t.base, !.scroll = None, !.banner = 0,
                            !.medium = Digits.medium, !.inner = Off]
  <2>1. Rec(n) /\ Rec(a)
    BY DEF Rec, NoIntro
  <2>2. n.cut = t.cut /\ n.manual = t.manual /\ a.cut = t.cut /\ a.manual = t.manual
    BY DEF Rec, Fields, NoIntro
  <2>3. armLevelIntroBanner(t) \in {n, a}
    BY DEF armLevelIntroBanner
  <2> QED
    BY <2>1, <2>2, <2>3 DEF Marked
<1>6. Marked(t, objectScanDispatch(t))
  BY DEF Marked, Rec, Fields, objectScanDispatch
<1>7. Marked(t, startMode2(t)) /\ Marked(t, startMode0(t)) /\ Marked(t, NextStage(t))
  BY DEF Marked, Rec, Fields, startMode2, startMode0, NextStage
<1>8. Marked(t, delaysAdvance(t))
  <2>1. Rec(delaysAdvance(t))
    BY DEF Rec, delaysAdvance
  <2> QED
    BY <2>1 DEF Marked, Rec, Fields, delaysAdvance
<1>9. Marked(t, advanceMode2(t))
  <2>1. Rec(advanceMode2(t))
    BY DEF Rec, advanceMode2
  <2> QED
    BY <2>1 DEF Marked, Rec, Fields, advanceMode2
<1>10. Marked(t, case6(t))
  <2>1. Rec(case6(t))
    BY DEF Rec, case6
  <2> QED
    BY <2>1 DEF Marked, Rec, Fields, case6
<1>11. Marked(t, updateMode0Timer(t))
  <2> DEFINE gone == (t.m0 - Demo[t.seg].clock) \div DemoTime.second
             left == IF gone < DemoTime.all THEN DemoTime.all - gone ELSE 0
  <2>1. updateMode0Timer(t) \in {t, [t EXCEPT !.sec = left]}
    BY DEF updateMode0Timer
  <2> HIDE DEF left
  <2> QED
    BY <2>1 DEF Marked, Rec, Fields
<1>12. ASSUME NEW time PROVE Marked(t, armLevelIntroScroll(t, time))
  <2>1. Rec(armLevelIntroScroll(t, time))
    BY DEF Rec, armLevelIntroScroll
  <2>2. armLevelIntroScroll(t, time).cut = t.cut /\ armLevelIntroScroll(t, time).manual = t.manual
    BY DEF Rec, Fields, armLevelIntroScroll
  <2> QED
    BY <2>1, <2>2 DEF Marked
<1>13. ASSUME NEW ranks \in BOOLEAN PROVE Marked(t, case3(t, ranks))
  <2>1. Rec(case3(t, ranks))
    BY DEF Rec, case3
  <2>2. case3(t, ranks).cut = t.cut /\ case3(t, ranks).manual = t.manual
    BY DEF Rec, Fields, case3
  <2> QED
    BY <2>1, <2>2 DEF Marked
<1>14. Marked(t, [t EXCEPT !.odd = ~@])
       /\ \A late \in BOOLEAN : Marked(t, [t EXCEPT !.odd = late])
  BY DEF Marked, Rec, Fields
<1> QED
  BY <1>1, <1>2, <1>3, <1>4, <1>5, <1>6, <1>7, <1>8, <1>9, <1>10, <1>11, <1>12, <1>13,
     <1>14

LEMMA RefreshMarks ==
    ASSUME NEW t, Rec(t), NEW k \in RefreshFrame(t)
    PROVE  Marked(t, k)
<1>0. PICK l \in Moved(t) : k = objectScanDispatch(l)
  BY DEF RefreshFrame
<1>1. \/ l = t \/ l = GoalReached(t)
      \/ l = [t EXCEPT !.type = 8] \/ l = [t EXCEPT !.type = 0]
      \/ l = [t EXCEPT !.sec = IF @ < MaxTime THEN @ + 1 ELSE @]
      \/ l = [t EXCEPT !.slot = 3]
  BY DEF Moved
<1>2. Marked(t, GoalReached(t))
  BY DEF Marked, Rec, Fields, GoalReached, Parked
<1>3. Marked(t, l)
  <2> DEFINE goal == GoalReached(t)
  <2> HIDE DEF goal
  <2>1. \/ l = t \/ l = goal
        \/ l = [t EXCEPT !.type = 8] \/ l = [t EXCEPT !.type = 0]
        \/ l = [t EXCEPT !.sec = IF @ < MaxTime THEN @ + 1 ELSE @]
        \/ l = [t EXCEPT !.slot = 3]
    BY <1>1 DEF goal
  <2>2. Marked(t, goal)
    BY <1>2 DEF goal
  <2> QED
    BY <2>1, <2>2 DEF Marked, Rec, Fields
<1> QED
  BY <1>0, <1>3, PartsMark, MarkedTwice DEF Marked

LEMMA IntroMarks ==
    ASSUME NEW t, Rec(t), NEW fresh \in BOOLEAN
    PROVE  Marked(t, advanceLevelIntro(t, fresh))
<1> DEFINE k == advanceLevelIntro(t, fresh)
           a == [t EXCEPT !.scroll = @ + 1]
           b == [t EXCEPT !.base = t.sec, !.scroll = 0]
           n == NoIntro(t)
           r == armLevelIntroBanner(t)
           p == [t EXCEPT !.banner = t.banner + 1,
                          !.sec = IF AddsStep(t.banner + 1, Extra[t.level])
                                  THEN @ + Intro.step ELSE @]
           h == [p EXCEPT !.word = 0, !.inner = Digits.inner]
           e == NoIntro(h)
<1>1. k \in {a, b, n, r, p, e, t}
  <2>1. advanceBanner(t) \in {p, e}
    BY DEF advanceBanner, HandedOver
  <2> HIDE DEF a, b, n, r, p, h, e
  <2> QED
    BY <2>1, Zenon DEF advanceLevelIntro, a, b, n, r
<1>2. Marked(t, a) /\ Marked(t, b)
  BY DEF Marked, Rec, Fields
<1>3. Marked(t, n) /\ Marked(t, r) /\ Marked(t, t)
  BY PartsMark
<1>4. Marked(t, p)
  <2> DEFINE adds == AddsStep(t.banner + 1, Extra[t.level])
  <2> HIDE DEF adds
  <2>1. p = [t EXCEPT !.banner = t.banner + 1, !.sec = IF adds THEN @ + Intro.step ELSE @]
    BY DEF adds
  <2> HIDE DEF p
  <2> QED
    BY <2>1 DEF Marked, Rec, Fields
<1> HIDE DEF p
<1>5. Marked(p, h)
  BY <1>4 DEF Marked, Rec, Fields
<1> HIDE DEF h
<1>6. Marked(t, e)
  BY <1>4, <1>5, PartsMark, MarkedTwice DEF Marked
<1> HIDE DEF a, b, n, r, e, k
<1>7. Marked(t, k)
  BY <1>1, <1>2, <1>3, <1>4, <1>6
<1> QED
  BY <1>7 DEF k

LEMMA Mode0Marks ==
    ASSUME NEW t, Rec(t)
    PROVE  Marked(t, advanceMode0(t))
<1> DEFINE k == updateMode0Timer(t)
           made == mainLoopInit10504(k)
           p == presentationInit10504(k)
           c == [k EXCEPT !.mode = 1, !.m0 = @ + 1]
           d == [k EXCEPT !.dwell = 1, !.m0 = @ + 1]
           f == [k EXCEPT !.mode = 3, !.seg = 0, !.dwell = Dwells.summary, !.m0 = None]
           g == [k EXCEPT !.seg = @ + 1, !.dwell = 0, !.m0 = @ + 1,
                          !.level = IF @ % 2 = 0 THEN @ + 1 ELSE @ - 1]
           j == [k EXCEPT !.dwell = 0, !.mode = 2, !.m0 = None]
           x == advanceMode0(t)
<1>1. x \in {t, startMode2(j), c, d, NextSegment(k), NextStage(p), NextStage(k)}
  BY DEF advanceMode0, EndDemo
<1>2. NextSegment(k) \in {f, gameModePrep(g)}
  BY DEF NextSegment
<1>3. Marked(t, k) /\ Rec(k)
  BY PartsMark DEF Marked
<1> HIDE DEF k, x
<1>4. p \in {made, [made EXCEPT !.sec = IF k.seg = 4 THEN DemoTime.four ELSE DemoTime.all]}
  BY DEF presentationInit10504
<1>5. Marked(k, made)
  BY <1>3, PartsMark
<1> HIDE DEF made, p
<1>6. Marked(made, p)
  BY <1>4, <1>5 DEF Marked, Rec, Fields
<1>7. Marked(k, p) /\ Rec(p)
  BY <1>5, <1>6, MarkedTwice DEF Marked
<1>8. Marked(k, c) /\ Marked(k, d) /\ Marked(k, f) /\ Marked(k, j)
  <2>1. Rec(c) /\ Rec(d) /\ Rec(f) /\ Rec(j)
    BY <1>3 DEF Rec
  <2> QED
    BY <1>3, <2>1 DEF Marked, Rec, Fields
<1>9. Marked(k, g)
  <2>1. Rec(g)
    BY <1>3 DEF Rec
  <2> QED
    BY <1>3, <2>1 DEF Marked, Rec, Fields
<1> HIDE DEF c, d, f, g, j
<1>10. Marked(g, gameModePrep(g)) /\ Marked(j, startMode2(j)) /\ Marked(p, NextStage(p))
       /\ Marked(k, NextStage(k))
  BY <1>3, <1>7, <1>8, <1>9, PartsMark DEF Marked
<1>11. Marked(t, x)
  BY <1>1, <1>2, <1>3, <1>7, <1>8, <1>9, <1>10, PartsMark DEF Marked
<1> QED
  BY <1>11 DEF x

LEMMA Case1Marks ==
    ASSUME NEW t, Rec(t), t.mode \in 0..3, NEW k \in Case1(t)
    PROVE  Marked(t, k)
<1> DEFINE next == IF t.mode + 1 > 2 THEN 0 ELSE t.mode + 1
           less == [t EXCEPT !.dwell = @ - 1]
           page == [t EXCEPT !.dwell = 0, !.mode = next]
           one == [page EXCEPT !.dwell = 1]
           ended == dwellEnds(t)
           waited == CASE t.dwell = 0 -> t
                       [] t.dwell = 1 -> dwellEnds(t)
                       [] OTHER -> [t EXCEPT !.dwell = @ - 1]
<1>1. waited \in {t, ended, less}
  OBVIOUS
<1>2. IF waited.m0 = None /\ waited.mode = 0 THEN k \in RefreshFrame(waited)
      ELSE k = waited
  BY DEF Case1
<1> HIDE DEF waited
<1>3. Marked(t, less) /\ Marked(t, t) /\ Marked(t, page)
  BY DEF Marked, Rec, Fields
<1>4. ended \in {startMode2(page), startMode0(page), one}
  <2>1. next \in {0, 1, 2}
    OBVIOUS
  <2>2. ended = CASE next = 2 -> startMode2(page)
                  [] next = 0 -> startMode0(page)
                  [] next = 1 -> one
    BY DEF dwellEnds
  <2> HIDE DEF next, page, one, ended
  <2> QED
    BY <2>1, <2>2
<1> HIDE DEF next, less, page
<1>5. Marked(page, one)
  BY <1>3 DEF Marked, Rec, Fields
<1> HIDE DEF one, ended
<1>6. Marked(t, ended)
  <2>1. Rec(page)
    BY <1>3 DEF Marked
  <2>2. Marked(page, startMode2(page)) /\ Marked(page, startMode0(page))
    BY <2>1, PartsMark
  <2> QED
    BY <1>3, <1>4, <1>5, <2>2 DEF Marked
<1>7. Marked(t, waited) /\ Rec(waited)
  BY <1>1, <1>3, <1>6 DEF Marked
<1> QED
  BY <1>2, <1>7, RefreshMarks, MarkedTwice

LEMMA FinishMarks ==
    ASSUME NEW t, Rec(t)
    PROVE  Marked(t, finishCase4(t))
<1> DEFINE made == mainLoopInit10504(t)
           armed == armLevelIntroScroll(made, t.sec)
           over == [t EXCEPT !.word = 6]
           play == [armed EXCEPT !.word = 0]
<1>1. finishCase4(t) \in {over, play}
  BY DEF finishCase4
<1>2. Marked(t, over)
  BY DEF Marked, Rec, Fields
<1>3. Marked(t, made) /\ Rec(made)
  BY PartsMark DEF Marked
<1> HIDE DEF made
<1>4. Marked(made, armed) /\ Rec(armed)
  <2>1. \A time : Marked(made, armLevelIntroScroll(made, time))
    BY <1>3, PartsMark
  <2> QED
    BY <2>1 DEF Marked
<1> HIDE DEF armed
<1>5. Marked(armed, play)
  BY <1>4 DEF Marked, Rec, Fields
<1> HIDE DEF play, over
<1> QED
  BY <1>1, <1>2, <1>3, <1>4, <1>5, MarkedTwice

LEMMA DispatcherMarks ==
    ASSUME NEW t, Rec(t), t.mode \in 0..3, t.word \in 0..6,
           NEW k \in MainLoopInit1101E(t)
    PROVE  Marked(t, k)
<1>1. CASE t.word = 0
  BY <1>1, RefreshMarks DEF MainLoopInit1101E
<1>2. CASE t.word = 1
  BY <1>2, Case1Marks DEF MainLoopInit1101E
<1>3. CASE t.word = 2
  <2>1. PICK ranks \in BOOLEAN : k = case3(t, ranks)
    BY <1>3 DEF MainLoopInit1101E
  <2> QED
    BY <2>1, PartsMark
<1>4. CASE t.word = 3
  <2> DEFINE next == [t EXCEPT !.level = @ + 1]
             done == [t EXCEPT !.pending = FALSE]
             hold == [next EXCEPT !.pending = TRUE, !.wait = Waits.level]
  <2>1. k \in {finishCase4(done), hold, finishCase4(next)}
    BY <1>4 DEF MainLoopInit1101E, case4
  <2>2. Marked(t, next) /\ Marked(t, done)
    BY DEF Marked, Rec, Fields
  <2> HIDE DEF next, done
  <2>3. Marked(next, hold)
    BY <2>2 DEF Marked, Rec, Fields
  <2> HIDE DEF hold
  <2> QED
    BY <2>1, <2>2, <2>3, FinishMarks DEF Marked
<1>5. CASE t.word = 4
  <2> DEFINE p == Parked(t)
             q == [p EXCEPT !.word = 0]
             r == [t EXCEPT !.word = 0]
             shown == stateSub16A20(t)
             a == [shown EXCEPT !.word = 2,
                                !.wait = IF t.slot = 2 /\ @ = None THEN Waits.timeout ELSE @]
  <2>1. k \in {shown, a}
    BY <1>5 DEF MainLoopInit1101E, case2
  <2>2. shown \in {p, q, r}
    BY DEF stateSub16A20
  <2>3. Marked(t, p) /\ Marked(t, r)
    BY DEF Marked, Rec, Fields, Parked
  <2> HIDE DEF p, r
  <2>4. Marked(p, q)
    BY <2>3 DEF Marked, Rec, Fields
  <2> HIDE DEF q, shown
  <2>5. Marked(t, shown)
    BY <2>2, <2>3, <2>4 DEF Marked
  <2>6. Marked(shown, a)
    BY <2>5 DEF Marked, Rec, Fields
  <2> HIDE DEF a
  <2> QED
    BY <2>1, <2>5, <2>6, MarkedTwice
<1>6. CASE t.word = 5
  <2> DEFINE fresh == [t EXCEPT !.mode = 0, !.seg = 2, !.level = FirstLevel]
             prepared == gameModePrep(fresh)
             made == mainLoopInit10504(prepared)
             armed == armLevelIntroScroll(made, 0)
             play == [armed EXCEPT !.word = 0,
                                   !.earned = [time |-> 0, level |-> FirstLevel - 1]]
  <2>1. k = play
    BY <1>6 DEF MainLoopInit1101E, case5
  <2>2. Marked(t, fresh)
    <3>1. Rec(fresh)
      BY DEF Rec
    <3> QED
      BY <3>1 DEF Marked, Rec, Fields
  <2> HIDE DEF fresh
  <2>3. Marked(fresh, prepared)
    BY <2>2, PartsMark DEF Marked
  <2> HIDE DEF prepared
  <2>4. Marked(prepared, made)
    BY <2>3, PartsMark DEF Marked
  <2> HIDE DEF made
  <2>5. Marked(made, armed)
    <3>1. \A time : Marked(made, armLevelIntroScroll(made, time))
      BY <2>4, PartsMark DEF Marked
    <3> QED
      BY <3>1
  <2> HIDE DEF armed
  <2>6. Marked(armed, play)
    <3>1. Rec(armed) /\ Rec(play)
      BY <2>5 DEF Marked, Rec
    <3> QED
      BY <3>1 DEF Marked, Rec, Fields
  <2> HIDE DEF play
  <2> QED
    BY <2>1, <2>2, <2>3, <2>4, <2>5, <2>6 DEF Marked
<1>7. CASE t.word = 6
  <2>1. k = case6(t)
    BY <1>7 DEF MainLoopInit1101E
  <2> QED
    BY <2>1, PartsMark
<1> QED
  BY <1>1, <1>2, <1>3, <1>4, <1>5, <1>6, <1>7

(* Nobody who plays is taken out by a tick.                                *)
LEMMA StagedMarks ==
    ASSUME NEW t, NEW start, Rec(t), NEW fresh \in BOOLEAN, NEW k \in Staged(t, start, fresh)
    PROVE  Marked(t, k)
<1> DEFINE shown == IF Mode0Deferred(t, start) THEN t ELSE advanceMode0(t)
<1>1. Marked(t, shown)
  BY Mode0Marks, PartsMark
<1>2. PICK i \in Initials(shown) :
               k = advanceLevelIntro(delaysAdvance(advanceMode2(i)), fresh)
  BY DEF Staged
<1> HIDE DEF shown
<1>3. Marked(t, i)
  <2> DEFINE a == [shown EXCEPT !.entry = FALSE]
  <2>1. i \in {shown, a, startMode2(a)}
    BY DEF Initials
  <2>2. Marked(shown, a)
    BY <1>1 DEF Marked, Rec, Fields
  <2> HIDE DEF a
  <2>3. Marked(a, startMode2(a))
    BY <2>2, PartsMark DEF Marked
  <2> QED
    BY <1>1, <2>1, <2>2, <2>3 DEF Marked
<1> DEFINE m == advanceMode2(i)
           d == delaysAdvance(m)
<1>4. Marked(t, m)
  BY <1>3, PartsMark DEF Marked
<1> HIDE DEF m
<1>5. Marked(t, d)
  BY <1>4, PartsMark DEF Marked
<1> HIDE DEF d
<1>6. k = advanceLevelIntro(d, fresh)
  BY <1>2 DEF m, d
<1> QED
  BY <1>5, <1>6, IntroMarks DEF Marked

LEMMA BodyMarks ==
    ASSUME NEW t, NEW start, Good(t), NEW k \in Body(t, start)
    PROVE  Marked(t, k)
<1> DEFINE turned == [t EXCEPT !.odd = ~@]
<1>1. Marked(t, turned) /\ Good(turned)
  BY TurnedTyped, SameKeeps, PartsMark DEF Good, Typed
<1>2. \/ k = turned
      \/ \E b \in IF InDemo(start) THEN RefreshFrame(turned) ELSE MainLoopInit1101E(turned) :
            \E late \in BOOLEAN : k = [b EXCEPT !.odd = late]
  BY DEF Body
<1> HIDE DEF turned
<1>3. ASSUME NEW b \in IF InDemo(start) THEN RefreshFrame(turned)
                       ELSE MainLoopInit1101E(turned),
             NEW late \in BOOLEAN, k = [b EXCEPT !.odd = late]
      PROVE  Marked(t, k)
  <2>1. Rec(turned) /\ turned.mode \in 0..3 /\ turned.word \in 0..6
    BY <1>1 DEF Good, Typed, Words
  <2>2. Marked(turned, b)
    BY <1>3, <2>1, RefreshMarks, DispatcherMarks
  <2>3. Marked(b, k)
    BY <1>3, <2>2, PartsMark DEF Marked
  <2> QED
    BY <1>1, <2>2, <2>3 DEF Marked
<1> QED
  BY <1>1, <1>2, <1>3

LEMMA TickMarks ==
    ASSUME NEW start, Good(start), NEW fresh \in BOOLEAN, NEW k, k \in MainTick(start, fresh)
    PROVE  k.cut = start.cut /\ (start.manual => k.manual)
<1> DEFINE t == gameTickTimers(start)
<1>1. PICK g : g \in Gated(t) /\ \E b \in MainThread(g, start) : k \in Staged(b, start, fresh)
  BY DEF MainTick
<1>2. PICK b : b \in MainThread(g, start) /\ k \in Staged(b, start, fresh)
  BY <1>1
<1>3. Good(t) /\ Marked(start, t)
  BY ClockKeeps, PartsMark DEF Good, Typed
<1> HIDE DEF t
<1>4. Good(g) /\ g.cut = t.cut /\ (t.manual => g.manual)
  <2>1. PICK falls \in BOOLEAN, credit \in Credits : g = gameMainGate(t, falls, credit)
    BY <1>1 DEF Gated
  <2>2. g.cut = t.cut /\ (t.manual => g.manual)
    BY <1>3, <2>1 DEF Good, Typed, Rec, Fields, gameMainGate
  <2> QED
    BY <1>1, <1>3, <2>2, GateKeeps
<1>5. Marked(g, b)
  BY <1>2, <1>4, BodyMarks, PartsMark DEF MainThread, Good, Typed
<1>6. Marked(b, k)
  BY <1>2, <1>5, StagedMarks DEF Marked
<1> QED
  BY <1>3, <1>4, <1>5, <1>6 DEF Marked

(* The body comes every second frame at least, so the clock runs two       *)
(* frames for each of its turns at most.                                   *)
LEMMA BodyQuiet ==
    ASSUME NEW t, NEW start, Good(t), Runs(t), SameOwners(start, t), ~Blocked(start),
           Quiet(t, IF Busy(start) THEN 0 ELSE 1), ~t.cut, NEW k \in Body(t, start)
    PROVE  Quiet(k, 0) /\ (k.word = 4 => t.word = 4) /\ (t.word = 1 => k.word = 1)
<1> DEFINE turned == [t EXCEPT !.odd = ~@]
<1>1. /\ Typed(turned) /\ SameOwners(t, turned)
      /\ turned.word = t.word /\ turned.stale = t.stale
  BY TurnedTyped
<1>2. SameClock(t, turned) /\ SteadyBut(t, turned) /\ turned.odd = ~t.odd
  BY DEF Good, Typed, Rec, Fields, SameClock, SteadyBut
<1>3. \/ turned.odd /\ k = turned
      \/ /\ ~turned.odd
         /\ \E b \in IF InDemo(start) THEN RefreshFrame(turned) ELSE MainLoopInit1101E(turned) :
               \E late \in BOOLEAN : k = [b EXCEPT !.odd = late]
  BY DEF Body
<1> HIDE DEF turned
<1>4. Good(turned) /\ Runs(turned) /\ ~turned.cut /\ t.odd \in BOOLEAN
  BY <1>1, <1>2, SameKeeps, SameRuns DEF SteadyBut, Good, Typed, Flags
<1>5. CASE InDemo(start)
  <2>1. InDemo(t) /\ InDemo(turned) /\ ~Held(turned) /\ turned.m0 # None /\ t.m0 # None
    BY <1>1, <1>5, SameHolds, SameTwice, FreeOwners DEF InDemo
  <2>2. Quiet(turned, 0)
    BY <1>2, <2>1, AwayQuiet
  <2>3. CASE k = turned
    BY <1>1, <2>2, <2>3
  <2>4. ASSUME NEW b \in RefreshFrame(turned), NEW late \in BOOLEAN,
               k = [b EXCEPT !.odd = late]
        PROVE  Quiet(k, 0) /\ (k.word = 4 => t.word = 4) /\ (t.word = 1 => k.word = 1)
    <3>1. Quiet(b, 0) /\ (b.word = 4 => turned.word = 4)
      BY <1>4, <2>1, <2>2, RefreshQuiet
    <3>2. Good(b) /\ (turned.word = 1 => b.word = 1)
      BY <1>4, <2>1, RefreshKeeps, RefreshRuns
    <3>3. b.m0 # None
      <4>1. PICK l \in Moved(turned) : b = objectScanDispatch(l)
        BY DEF RefreshFrame
      <4>2. Typed(l) /\ l.m0 = turned.m0
        BY <1>1, MovedTyped DEF SameOwners
      <4> QED
        BY <2>1, <4>1, <4>2 DEF objectScanDispatch, Typed, Rec, Fields
    <3>4. SteadyBut(b, k)
      BY <2>4, <3>2 DEF Good, Typed, Rec, Fields, SteadyBut
    <3>5. Quiet(k, 0)
      BY <3>1, <3>3, <3>4, AwayQuiet
    <3> QED
      BY <1>1, <3>1, <3>2, <3>4, <3>5 DEF SteadyBut
  <2> QED
    BY <1>3, <1>5, <2>3, <2>4
<1>6. CASE ~InDemo(start)
  <2>1. Free(start) /\ Free(t) /\ Free(turned) /\ ~Busy(start) /\ Quiet(t, 1) /\ t.m2 = None
    BY <1>1, <1>6, SameHolds, FreeOwners DEF Free
  <2>2. CASE turned.odd /\ k = turned
    <3>0. ~t.odd
      BY <1>2, <2>2
    <3>1. 0 + Odd(turned) >= 1 + Odd(t)
      BY <2>2, <3>0 DEF Odd
    <3>3. 0 >= 1 \/ t.m2 = None
      BY <2>1
    <3>2. Quiet(turned, 0)
      BY <1>2, <2>1, <3>1, PaceQuiet DEF Good
    <3> QED
      BY <1>1, <2>2, <3>2
  <2>3. ASSUME ~turned.odd, NEW b \in MainLoopInit1101E(turned), NEW late \in BOOLEAN,
               k = [b EXCEPT !.odd = late]
        PROVE  Quiet(k, 0) /\ (k.word = 4 => t.word = 4) /\ (t.word = 1 => k.word = 1)
    <3>1. 2 + Odd(turned) >= 1 + Odd(t)
      BY <1>2, <1>4, <2>3 DEF Odd
    <3>2. Quiet(turned, 2)
      BY <1>2, <2>1, <3>1, PaceQuiet DEF Good
    <3>3. Quiet(b, 0) /\ (b.word = 4 => turned.word = 4) /\ b.odd = turned.odd
          /\ (turned.word = 1 => b.word = 1)
      BY <1>4, <2>1, <2>3, <3>2, DispatcherQuiet
    <3>4. Good(b)
      BY <1>4, <2>1, DispatcherKeeps
    <3>5. SteadyBut(b, k)
      BY <2>3, <3>4 DEF Good, Typed, Rec, Fields, SteadyBut
    <3>6. 0 + Odd(k) >= 0 + Odd(b)
      BY <2>3, <3>3 DEF Odd
    <3>7. Quiet(k, 0)
      BY <3>3, <3>4, <3>5, <3>6, PaceQuiet DEF Good
    <3> QED
      BY <1>1, <3>3, <3>5, <3>7 DEF SteadyBut
  <2> QED
    BY <1>3, <1>6, <2>2, <2>3
<1> QED
  BY <1>5, <1>6

(* No level was won yet that would be begun again.                         *)
Begun(t) ==
    /\ t.m0 = None /\ t.m2 = None /\ ~t.entry
    /\ t.earned.time # None => t.type # 0

LEMMA StagedQuiet ==
    ASSUME NEW t, NEW start, Good(t), Runs(t), Quiet(t, 0), NEW fresh \in BOOLEAN,
           fresh /\ ~t.cut => Begun(t), NEW k \in Staged(t, start, fresh)
    PROVE  Quiet(k, 0) /\ (k.word = 4 => t.word = 4) /\ (~t.cut => k.word = t.word)
<1> DEFINE shown == IF Mode0Deferred(t, start) THEN t ELSE advanceMode0(t)
<1>1. /\ Good(shown) /\ Runs(shown) /\ Quiet(shown, 0) /\ shown.word = t.word
      /\ shown.cut = t.cut /\ (t.m0 = None => shown = t)
  <2>1. advanceMode0(t).word = t.word /\ advanceMode0(t).cut = t.cut
    BY Mode0Quiet, Mode0Marks DEF Good, Typed, Marked
  <2>2. t.m0 = None => advanceMode0(t) = t
    BY DEF advanceMode0
  <2> QED
    BY <2>1, <2>2, Mode0Keeps, Mode0Runs, Mode0Quiet
<1>2. PICK i \in Initials(shown) :
               k = advanceLevelIntro(delaysAdvance(advanceMode2(i)), fresh)
  BY DEF Staged
<1> HIDE DEF shown
<1>3. /\ Good(i) /\ Runs(i) /\ Quiet(i, 0) /\ i.word = t.word
      /\ (t.m0 = None /\ ~t.entry => i = t)
  BY <1>1, <1>2, InitialsKeep, InitialsRun, InitialsQuiet DEF Initials
<1> DEFINE m == advanceMode2(i)
           d == delaysAdvance(m)
<1>4. /\ Good(m) /\ Runs(m) /\ Quiet(m, 0) /\ m.word = t.word
      /\ (t.m0 = None /\ ~t.entry /\ t.m2 = None => m = t)
  BY <1>3, Mode2Keeps, Mode2Runs, Mode2Quiet DEF advanceMode2
<1>5. k = advanceLevelIntro(d, fresh)
  BY <1>2
<1> HIDE DEF m
<1>6. /\ Good(d) /\ Runs(d) /\ Quiet(d, 0) /\ d.word = t.word
      /\ d.type = m.type /\ d.earned = m.earned
  <2>1. d.type = m.type /\ d.earned = m.earned
    BY <1>4 DEF delaysAdvance, Good, Typed, Rec, Fields
  <2> QED
    BY <1>4, <2>1, DelaysKeep, DelaysRun, DelaysQuiet
<1>7. d.cut = t.cut
  <2>1. Marked(t, t) /\ i.cut = t.cut
    <3> DEFINE a == [shown EXCEPT !.entry = FALSE]
    <3>1. i \in {shown, a, startMode2(a)}
      BY <1>2 DEF Initials
    <3>2. Rec(shown) /\ Rec(t)
      BY <1>1 DEF Good, Typed
    <3>3. Marked(shown, a)
      BY <3>2 DEF Marked, Rec, Fields
    <3> HIDE DEF a
    <3>4. Marked(a, startMode2(a)) /\ Marked(t, t)
      BY <3>2, <3>3, PartsMark DEF Marked
    <3> QED
      BY <1>1, <3>1, <3>3, <3>4 DEF Marked
  <2>2. m.cut = i.cut
    BY <1>3, PartsMark DEF m, Marked, Good, Typed
  <2>3. d.cut = m.cut
    BY <1>4, PartsMark DEF Marked, Good, Typed
  <2> QED
    BY <2>1, <2>2, <2>3
<1> HIDE DEF d
<1>8. fresh /\ WarmSeed(d) /\ ~d.cut => d.earned.time = None
  BY <1>4, <1>6, <1>7 DEF WarmSeed, Begun
<1>9. Quiet(k, 0) /\ k.word \in {d.word, 0} /\ (~d.cut => k.word = d.word)
  BY <1>5, <1>6, <1>8, IntroQuiet
<1> QED
  BY <1>6, <1>7, <1>9

LEMMA TickParts ==
    ASSUME NEW start, NEW fresh, NEW k, k \in MainTick(start, fresh)
    PROVE  \E g \in Gated(gameTickTimers(start)) :
              \E b \in MainThread(g, start) : k \in Staged(b, start, fresh)
BY DEF MainTick

(* A banner that goes.                                                     *)
LEMMA BannerGoes ==
    ASSUME NEW start, Good(start), Runs(start), Quiet(start, 0), ~start.cut,
           start.banner # None, start.earned.time # None,
           NEW k, k \in MainTick(start, FALSE), k.banner = None
    PROVE  /\ k.word = 0 /\ k.level = start.earned.level + 1
           /\ k.sec = start.earned.time + Extra[k.level]
<1>1. PICK g : g \in Gated(gameTickTimers(start)) /\
               \E b \in MainThread(g, start) : k \in Staged(b, start, FALSE)
  BY TickParts
<1>2. PICK b : b \in MainThread(g, start) /\ k \in Staged(b, start, FALSE)
  BY <1>1
<1>3. Held(start) /\ Busy(start) /\ Blocked(start)
  BY FreeOwners DEF Blocked, Busy
<1>4. start.m0 = None /\ start.m2 = None /\ ~start.entry /\ start.word = 0
  BY DEF Good, Orderly, Solo, Fits
<1>5. gameTickTimers(start) = start
  BY <1>3, ClockQuiet
<1>6. Good(g) /\ SameOwners(start, g) /\ Runs(g) /\ Quiet(g, 0)
  BY <1>1, <1>5, GateKeeps, GateRuns, GateQuiet
<1>7. b = g
  BY <1>2, <1>3 DEF MainThread
<1>8. g.earned = start.earned
  <2>1. PICK falls \in BOOLEAN, credit \in Credits : g = gameMainGate(start, falls, credit)
    BY <1>1, <1>5 DEF Gated
  <2> QED
    BY <2>1 DEF gameMainGate, Good, Typed, Rec, Fields
<1> DEFINE d == delaysAdvance(g)
<1>9. k = advanceLevelIntro(d, FALSE)
  <2>1. g.m0 = None /\ g.m2 = None /\ ~g.entry
    BY <1>4, <1>6 DEF SameOwners
  <2>2. \A i \in Initials(g) : i = g
    BY <2>1 DEF Initials
  <2>3. advanceMode0(g) = g /\ advanceMode2(g) = g
    BY <2>1 DEF advanceMode0, advanceMode2
  <2> QED
    BY <1>2, <1>7, <2>2, <2>3 DEF Staged
<1>10. Good(d) /\ Runs(d) /\ Quiet(d, 0)
  BY <1>6, DelaysKeep, DelaysRun, DelaysQuiet
<1>11. d.earned = g.earned /\ d.banner = g.banner /\ d.cut = g.cut
  BY <1>6 DEF delaysAdvance, Good, Typed, Rec, Fields
<1> HIDE DEF d
<1>12. d.earned = start.earned /\ d.banner # None /\ ~d.cut
  BY <1>6, <1>8, <1>11 DEF SameOwners
<1> QED
  BY <1>9, <1>10, <1>12, IntroQuiet

-----------------------------------------------------------------------------
(* A tick.                                                                 *)

LEMMA TickQuiet ==
    ASSUME NEW start, Good(start), Runs(start), Quiet(start, 0), NEW fresh \in BOOLEAN,
           Frozen(start) => start.inner = Off,
           fresh => start.word = 0 /\ (start.inner = Off \/ start.sec > 0),
           fresh /\ ~start.cut => Free(start) /\ start.earned.time = None
                                  /\ start.slot = 1 /\ start.type = 0,
           NEW k, k \in MainTick(start, fresh)
    PROVE  /\ Quiet(k, 0)
           /\ k.word = 4 /\ (start.cut => start.word = 0) =>
                 start.word = 4 \/ gameTickTimers(start).word = 4
           /\ flow = "coin" /\ start.word = 1 /\ ~start.cut => k.word = 1
<1> DEFINE t == gameTickTimers(start)
           n == IF Busy(start) THEN 0 ELSE 1
<1>0. n \in 0..2
  OBVIOUS
<1>1. PICK g : g \in Gated(t) /\ \E b \in MainThread(g, start) : k \in Staged(b, start, fresh)
  BY DEF MainTick
<1>2. PICK b : b \in MainThread(g, start) /\ k \in Staged(b, start, fresh)
  BY <1>1
<1>3. /\ Good(t) /\ SameOwners(start, t) /\ Runs(t) /\ Quiet(t, n) /\ t.cut = start.cut
      /\ Frozen(start) => t = start
  <2>1. Frozen(start) => t = start
    BY DEF gameTickTimers, tickCascadingTimer
  <2> QED
    BY <2>1, ClockKeeps, TickRuns, ClockQuiet DEF SameOwners
<1> HIDE DEF t
<1>4. Good(g) /\ SameOwners(start, g) /\ Runs(g) /\ Quiet(g, n) /\ (g.word = 4 => t.word = 4)
      /\ (Quiet(t, 0) => Quiet(g, 0)) /\ g.cut = start.cut
  <2>1. Good(g) /\ SameOwners(t, g) /\ Runs(g)
    BY <1>1, <1>3, GateKeeps, GateRuns
  <2>2. Quiet(g, n) /\ (g.word = 4 => t.word = 4) /\ (Quiet(t, 0) => Quiet(g, 0))
    BY <1>0, <1>1, <1>3, GateQuiet
  <2> QED
    BY <1>3, <2>1, <2>2, SameTwice DEF SameOwners
<1>5. Good(b) /\ Runs(b) /\ b.cut = g.cut
  BY <1>2, <1>4, BodyKeeps, BodyRuns, BodyMarks DEF MainThread, Marked
<1>6. /\ Quiet(b, 0) /\ (~g.cut /\ g.word = 1 => b.word = 1)
      /\ b.word = 4 => g.word = 4 \/ (g.cut /\ g.word # 0)
  <2>1. CASE Blocked(start)
    <3>1. b = g /\ n = 0
      BY <1>2, <2>1 DEF MainThread, Blocked, Busy
    <3> QED
      BY <1>4, <3>1
  <2>2. CASE Frozen(start)
    <3>1. b = g /\ Quiet(t, 0)
      BY <1>2, <1>3, <2>2 DEF MainThread
    <3> QED
      BY <1>4, <3>1
  <2>3. CASE ~Blocked(start) /\ ~Frozen(start)
    <3>1. b \in Body(g, start)
      BY <1>2, <2>3 DEF MainThread
    <3>2. CASE ~g.cut
      BY <1>4, <2>3, <3>1, <3>2, BodyQuiet
    <3>3. CASE g.cut
      <4>1. Quiet(b, 0)
        BY <1>5, <3>3 DEF Quiet
      <4>2. b.word = 4 => g.word = 4 \/ g.word # 0
        <5> SUFFICES ASSUME g.word = 0 PROVE b.word # 4
          OBVIOUS
        <5> DEFINE turned == [g EXCEPT !.odd = ~@]
        <5>1. Typed(turned) /\ turned.word = 0
          BY <1>4, TurnedTyped
        <5>2. \/ b = turned
              \/ \E l \in Moved(turned) : \E late \in BOOLEAN :
                    b = [objectScanDispatch(l) EXCEPT !.odd = late]
          <6> HIDE DEF turned
          <6>1. MainLoopInit1101E(turned) = RefreshFrame(turned)
            BY <5>1 DEF MainLoopInit1101E
          <6> QED
            BY <3>1, <6>1 DEF Body, RefreshFrame, turned
        <5> HIDE DEF turned
        <5>3. ASSUME NEW l \in Moved(turned), NEW late \in BOOLEAN,
                     b = [objectScanDispatch(l) EXCEPT !.odd = late]
              PROVE  b.word # 4
          <6>1. Typed(l) /\ l.word = 0
            BY <5>1, MovedTyped
          <6> DEFINE c == objectScanDispatch(l)
          <6>2. c.word \in {0, 3} /\ Rec(c)
            BY <6>1 DEF objectScanDispatch, Typed, Rec, Fields
          <6> HIDE DEF c
          <6> QED
            BY <5>3, <6>2 DEF Rec, Fields, c
        <5> QED
          BY <5>1, <5>2, <5>3
      <4> QED
        BY <3>3, <4>1, <4>2
    <3> QED
      BY <3>2, <3>3
  <2> QED
    BY <2>1, <2>2, <2>3
<1>7. fresh /\ ~b.cut => Begun(b)
  <2> SUFFICES ASSUME fresh, ~b.cut PROVE Begun(b)
    OBVIOUS
  <2>1. /\ Free(start) /\ start.word = 0 /\ start.earned.time = None
        /\ start.slot = 1 /\ start.type = 0
        /\ start.inner = Off \/ start.sec > 0
    BY <1>4, <1>5
  <2>2. t.word = 0 /\ t.earned.time = None /\ t.slot = 1 /\ t.type = 0
    BY <2>1 DEF t, gameTickTimers, tickCascadingTimer, Good, Typed, Rec, Fields
  <2>3. g.word = 0 /\ g.earned.time = None /\ g.slot = 1 /\ g.type = 0
    <3>1. PICK falls \in BOOLEAN, credit \in Credits : g = gameMainGate(t, falls, credit)
      BY <1>1 DEF Gated
    <3> QED
      BY <1>3, <2>2, <3>1 DEF gameMainGate, Good, Typed, Rec, Fields
  <2>4. Free(g)
    BY <1>4, <2>1, SameHolds
  <2>5. CASE b = g
    BY <2>3, <2>4, <2>5 DEF Begun, Free
  <2>6. CASE b \in Body(g, start)
    <3> DEFINE turned == [g EXCEPT !.odd = ~@]
    <3>1. Typed(turned) /\ turned.word = 0 /\ SameOwners(g, turned)
      BY <1>4, <2>3, TurnedTyped
    <3>2. turned.earned = g.earned /\ turned.slot = 1 /\ turned.type = 0
      BY <1>4, <2>3 DEF Good, Typed, Rec, Fields
    <3>3. \/ b = turned
          \/ \E l \in Moved(turned) : \E late \in BOOLEAN :
                b = [objectScanDispatch(l) EXCEPT !.odd = late]
      <4> HIDE DEF turned
      <4>1. MainLoopInit1101E(turned) = RefreshFrame(turned)
        BY <3>1 DEF MainLoopInit1101E
      <4> QED
        BY <2>6, <4>1 DEF Body, RefreshFrame, turned
    <3> HIDE DEF turned
    <3>4. Free(turned)
      BY <2>4, <3>1, SameHolds
    <3>5. CASE b = turned
      BY <2>3, <3>2, <3>4, <3>5 DEF Begun, Free
    <3>6. ASSUME NEW l \in Moved(turned), NEW late \in BOOLEAN,
                 b = [objectScanDispatch(l) EXCEPT !.odd = late]
          PROVE  Begun(b)
      <4>1. Typed(l) /\ SameOwners(turned, l)
        BY <3>1, MovedTyped
      <4>2. l \in {turned, GoalReached(turned), [turned EXCEPT !.type = 8]}
        BY <3>2 DEF Moved
      <4>3. l.slot = 1 /\ (l.earned = turned.earned \/ l.type = 6)
        BY <3>1, <3>2, <4>2 DEF Typed, Rec, Fields, GoalReached, Parked
      <4>4. objectScanDispatch(l) = l
        BY <4>3 DEF objectScanDispatch
      <4>5. SteadyBut(l, b)
        BY <3>6, <4>1, <4>4 DEF Typed, Rec, Fields, SteadyBut
      <4> QED
        BY <2>3, <3>2, <3>4, <4>1, <4>3, <4>5 DEF SteadyBut, SameOwners, Begun, Free
    <3> QED
      BY <3>3, <3>5, <3>6
  <2> QED
    BY <1>2, <2>5, <2>6 DEF MainThread
<1>8. Quiet(k, 0) /\ (k.word = 4 => b.word = 4) /\ (~b.cut => k.word = b.word)
  BY <1>2, <1>5, <1>6, <1>7, StagedQuiet
<1>9. t.word \in {start.word, 4}
  BY DEF t, gameTickTimers, tickCascadingTimer, Expired, Good, Typed, Rec, Fields
<1>10. g.word = t.word \/ (t.word = 1 /\ g.word = 5 /\ flow # "coin")
  <2>1. PICK falls \in BOOLEAN, credit \in Credits : g = gameMainGate(t, falls, credit)
    BY <1>1 DEF Gated
  <2>2. flow = "coin" => ~credit
    BY DEF Credits
  <2> QED
    BY <1>3, <2>1, <2>2 DEF gameMainGate, Good, Typed, Rec, Fields
<1>11. ASSUME k.word = 4, start.cut => start.word = 0
       PROVE  start.word = 4 \/ t.word = 4
  <2>1. b.word = 4
    BY <1>8, <1>11
  <2>2. g.word = 4 \/ (g.cut /\ g.word # 0)
    BY <1>6, <2>1
  <2> QED
    BY <1>4, <1>9, <1>10, <1>11, <2>2
<1>12. ASSUME flow = "coin", start.word = 1, ~start.cut
       PROVE  k.word = 1
  <2>1. t.word = 1
    <3> SUFFICES ASSUME t.word = 4 PROVE FALSE
      BY <1>9, <1>12
    <3>1. t # start
      BY <1>12
    <3>2. ~Busy(start) /\ ~Segment3Dwell(start) /\ start.inner # Off
          /\ t = tickCascadingTimer(start)
      BY <3>1 DEF t, gameTickTimers, tickCascadingTimer
    <3>3. FramesLeft(start) # 0
      BY <1>12, <3>2, ClockNotOut
    <3> QED
      BY <1>12, <3>2, <3>3, TickTakesOne DEF Good
  <2> QED
    BY <1>4, <1>5, <1>6, <1>8, <1>10, <1>12, <2>1
<1> QED
  BY <1>8, <1>11, <1>12 DEF t

(* Two ways into a game need to be known for the clock.  While the page    *)
(* holds the body of the attract mode, nothing runs but the one reset the  *)
(* attract mode begins with.                                               *)
OnlyReset(t) ==
    /\ t.word = 1 /\ t.mode = 2 /\ t.seg = 0 /\ t.inner = Off /\ t.m0 = None
    /\ t.m2 = None => t.dwell > 0
    /\ t.blit = None /\ t.hud = None /\ t.wait = None
    /\ t.scroll = None /\ t.banner = None /\ ~t.entry
Waiting(t) == flow = "held" /\ ~t.manual => OnlyReset(t)

(* A game of the coin flow is its player's until the attract mode is back. *)
Attracts(t) == flow = "coin" /\ ~t.cut /\ ~t.manual => t.word = 1

LEMMA WaitGoesOn ==
    ASSUME NEW t, Good(t), Waiting(t), NEW k, k \in MainTick(t, FALSE)
    PROVE  Waiting(k)
<1> SUFFICES ASSUME flow = "held", ~k.manual PROVE OnlyReset(k)
  BY DEF Waiting
<1>1. ~t.manual /\ OnlyReset(t)
  BY TickMarks DEF Waiting
<1>2. gameTickTimers(t) = t
  BY <1>1 DEF gameTickTimers, tickCascadingTimer, OnlyReset
<1>3. PICK g : g \in Gated(t) /\ \E b \in MainThread(g, t) : k \in Staged(b, t, FALSE)
  BY <1>2, TickParts
<1>4. PICK b : b \in MainThread(g, t) /\ k \in Staged(b, t, FALSE)
  BY <1>3
<1>5. Good(g)
  BY <1>3, GateKeeps
<1>6. ~g.manual
  <2>1. Marked(g, g) /\ Rec(g)
    BY <1>5 DEF Marked, Good, Typed
  <2>2. Marked(g, b) /\ Rec(b)
    BY <1>4, <1>5, <2>1, BodyMarks DEF MainThread, Marked
  <2>3. FALSE \in BOOLEAN
    OBVIOUS
  <2>4. Marked(b, k)
    BY <1>4, <2>2, <2>3, StagedMarks
  <2> QED
    BY <2>2, <2>4 DEF Marked
<1>7. OnlyReset(g)
  <2>1. PICK falls \in BOOLEAN, credit \in Credits : g = gameMainGate(t, falls, credit)
    BY <1>3 DEF Gated
  <2> QED
    BY <1>1, <1>6, <2>1 DEF gameMainGate, OnlyReset, Good, Typed, Rec, Fields
<1>8. b = g
  <2>1. CASE t.m2 # None
    BY <1>4, <2>1, FreeOwners DEF MainThread
  <2>2. CASE t.m2 = None
    <3>1. \A c \in Counters : t[c] = None
      BY <1>1, <2>2 DEF Counters, OnlyReset
    <3>2. Frozen(t)
      BY <1>1, <2>2, <3>1 DEF Frozen, isCoinStartAttractReady, OnlyReset
    <3> QED
      BY <1>4, <3>2 DEF MainThread
  <2> QED
    BY <2>1, <2>2
<1> DEFINE m == advanceMode2(g)
           d == delaysAdvance(m)
<1>9. k = advanceLevelIntro(d, FALSE)
  <2>1. \A i \in Initials(g) : i = g
    BY <1>7 DEF Initials, OnlyReset
  <2>2. advanceMode0(g) = g
    BY <1>7 DEF advanceMode0, OnlyReset
  <2> QED
    BY <1>4, <1>8, <2>1, <2>2 DEF Staged
<1>10. OnlyReset(m) /\ Typed(m)
  <2>1. Good(m)
    BY <1>5, Mode2Keeps
  <2>2. Dwells.shown > 0
    BY DigitsFacts
  <2>3. OnlyReset(m)
    <3>1. CASE g.m2 = None
      BY <1>7, <3>1 DEF advanceMode2
    <3>2. CASE g.m2 # None /\ g.m2 < Mode2Last
      <4>1. g.m2 + 1 # None
        BY <1>5, <3>2 DEF Good, Typed, Counts, None
      <4> QED
        BY <1>5, <1>7, <3>2, <4>1 DEF OnlyReset, advanceMode2, Good, Typed, Rec, Fields
    <3>3. CASE g.m2 # None /\ ~(g.m2 < Mode2Last)
      BY <1>5, <1>7, <2>2, <3>3 DEF OnlyReset, advanceMode2, Good, Typed, Rec, Fields
    <3> QED
      BY <3>1, <3>2, <3>3
  <2> QED
    BY <2>1, <2>3 DEF Good
<1> HIDE DEF m
<1>11. OnlyReset(d)
  BY <1>10 DEF OnlyReset, delaysAdvance, Delay, None, Typed, Rec, Fields
<1> HIDE DEF d
<1>12. k = d
  BY <1>9, <1>11 DEF advanceLevelIntro, OnlyReset
<1> QED
  BY <1>11, <1>12

(* Who plays is not a matter of the clock.                                 *)
LEMMA RearmedQuiet ==
    ASSUME NEW t, Good(t), Quiet(t, 0), NEW k, k \in Rearmed(t)
    PROVE  /\ Quiet(k, 0) /\ SteadyBut(t, k) /\ SameOwners(t, k)
           /\ k = t \/ (flow = "coin" /\ t.word = 1)
<1> DEFINE a == [t EXCEPT !.manual = FALSE]
<1>1. SteadyBut(t, a) /\ SameOwners(t, a) /\ a.odd = t.odd
  BY DEF Good, Typed, Rec, Fields, SteadyBut, SameOwners
<1>2. SteadyBut(t, t) /\ SameOwners(t, t)
  BY DEF SteadyBut, SameOwners
<1>3. k = t \/ (k = a /\ flow = "coin" /\ t.word = 1)
  BY DEF Rearmed, isCoinStartAttractReady
<1> HIDE DEF a
<1> QED
  BY <1>1, <1>2, <1>3, SteadyQuiet DEF Good

(* A game the coin flow loads has nothing of the one before but what the   *)
(* mark of a cut tells.                                                    *)
LEMMA SeededQuiet ==
    ASSUME NEW t, Good(t), NEW g \in Seeds
    PROVE  LET k == Seeded(t, g)
           IN  /\ Quiet(k, 0) /\ k.word = 0 /\ k.manual
               /\ k.inner = Off \/ k.sec > 0
               /\ ~k.cut => Free(k) /\ k.earned.time = None /\ k.slot = 1 /\ k.type = 0
<1> DEFINE k == Seeded(t, g)
<1>1. g.slot = 1 /\ g.type = 0 /\ (g.inner = Off \/ g.sec > 0)
  BY SeedsAssumption
<1>2. /\ k.word = 0 /\ k.manual /\ k.slot = 1 /\ k.type = 0 /\ k.earned.time = None
      /\ (k.inner = Off \/ k.sec > 0)
  BY <1>1 DEF Good, Typed, Rec, Fields, Seeded
<1>3. /\ k.m0 = t.m0 /\ k.m2 = t.m2 /\ k.hud = t.hud /\ k.wait = t.wait
      /\ k.scroll = t.scroll /\ k.banner = t.banner /\ k.entry = t.entry
      /\ k.pending = t.pending /\ (~k.cut => ~Busy(t) /\ ~t.pending)
  BY DEF Good, Typed, Rec, Fields, Seeded
<1> HIDE DEF k
<1>4. ~k.cut => Free(k) /\ ~k.pending
  BY <1>3, FreeOwners DEF Free
<1>5. Quiet(k, 0)
  BY <1>2, <1>4 DEF Quiet, Calm, Free, Aside, Gone, Intros, Ends, WithinDemo, Low, Turned,
     Pages, Lasts, Carries
<1> QED
  BY <1>2, <1>4, <1>5 DEF k

-----------------------------------------------------------------------------
(* The theorems.                                                           *)

IInv == flow \in Flows /\ Good(s)

LEMMA InitGood == Init => IInv
<1> SUFFICES ASSUME Init PROVE IInv
  OBVIOUS
<1>1. /\ s.word = 1 /\ s.mode = 2 /\ s.level = 0 /\ s.seg = 0 /\ s.dwell = Dwells.shown
      /\ s.slot = 0 /\ s.type = 0 /\ s.sec = 0 /\ s.medium = 0 /\ s.inner = Off
      /\ s.latch = FALSE /\ s.odd = FALSE /\ s.m0 = None /\ s.m2 = 0 /\ s.hud = None
      /\ s.blit = None /\ s.wait = None /\ s.pending = FALSE
      /\ s.scroll = None /\ s.banner = None /\ s.base = None /\ s.entry = FALSE
      /\ s.manual = FALSE /\ s.stale = FALSE
      /\ s.earned = [time |-> None, level |-> None] /\ s.cut = FALSE
  BY DEF Init
<1>2. Rec(s)
  BY DEF Init, Rec, Fields
<1>3. Words(s) /\ Marble(s)
  BY <1>1, FlowAssumption, NoneEarned DEF Words, Marble
<1>4. Counts(s)
  BY <1>1, FlowAssumption DEF Counts
<1>6. Flags(s)
  BY <1>1 DEF Flags
<1>5. Orderly(s)
  BY <1>1 DEF Orderly, Based, Unspoilt, Solo, Fits, None
<1> QED
  BY <1>2, <1>3, <1>4, <1>5, <1>6 DEF Init, IInv, Good, Typed

LEMMA NextGood == IInv /\ [Next]_vars => IInv'
<1> SUFFICES ASSUME IInv, [Next]_vars PROVE IInv'
  OBVIOUS
<1>1. CASE Frame
  <2>1. PICK start : start \in Rearmed(s) /\ s' \in MainTick(start, FALSE)
    BY <1>1 DEF Frame
  <2>2. Good(s')
    BY <2>1, RearmedGood, TickKeeps DEF IInv
  <2> QED
    BY <1>1, <2>2 DEF Frame, IInv
<1>2. CASE CoinStartFrame
  <2>1. PICK start \in Rearmed(s), g \in Seeds : s' \in MainTick(Seeded(start, g), TRUE)
    BY <1>2 DEF CoinStartFrame
  <2>2. Good(s')
    BY <2>1, RearmedGood, SeededGood, TickKeeps DEF IInv
  <2> QED
    BY <1>2, <2>2 DEF CoinStartFrame, IInv
<1>3. CASE UNCHANGED vars
  BY <1>3 DEF vars, IInv
<1> QED
  BY <1>1, <1>2, <1>3 DEF Next

LEMMA AlwaysGood == Spec => []IInv
  BY InitGood, NextGood, PTL DEF Spec

(* The same with the clock.                                                *)
ClockInv == IInv /\ Runs(s)

LEMMA InitRuns == Init => ClockInv
<1> SUFFICES ASSUME Init PROVE ClockInv
  OBVIOUS
<1>1. s.word = 1
  BY DEF Init
<1> QED
  BY <1>1, InitGood, ElsewhereRuns DEF ClockInv

LEMMA NextRuns == ClockInv /\ [Next]_vars => ClockInv'
<1> SUFFICES ASSUME ClockInv, [Next]_vars PROVE ClockInv'
  OBVIOUS
<1>0. IInv' /\ Good(s) /\ Runs(s)
  BY NextGood DEF ClockInv, IInv
<1>1. CASE Frame
  <2>1. PICK start : start \in Rearmed(s) /\ s' \in MainTick(start, FALSE)
    BY <1>1 DEF Frame
  <2>2. Runs(s')
    BY <1>0, <2>1, RearmedGood, RearmedRuns, TickOfMainRuns
  <2> QED
    BY <1>0, <2>2 DEF ClockInv, Runs, Playable, Overdue, Ticks
<1>2. CASE CoinStartFrame
  <2>1. PICK start \in Rearmed(s), g \in Seeds : s' \in MainTick(Seeded(start, g), TRUE)
    BY <1>2 DEF CoinStartFrame
  <2>2. Good(start)
    BY <1>0, <2>1, RearmedGood
  <2>3. Runs(s')
    BY <2>1, <2>2, SeededGood, SeededRuns, TickOfMainRuns
  <2> QED
    BY <1>0, <2>3 DEF ClockInv, Runs, Playable, Overdue, Ticks
<1>3. CASE UNCHANGED vars
  BY <1>0, <1>3 DEF vars, ClockInv, Runs, Playable, Overdue, Ticks
<1> QED
  BY <1>1, <1>2, <1>3 DEF Next

(* The words, digits and counters keep their types: no frame takes a byte  *)
(* or a counter out of its range, whatever the stages and waits are.       *)
THEOREM TypeCorrect == Spec => []TypeOK
<1>1. IInv => TypeOK
  BY TypedGame DEF IInv, Good, TypeOK
<1> QED
  BY <1>1, AlwaysGood, PTL

(* mainTick advances one staged activity at a time, as the one thread of   *)
(* the program would, unless a coin start came upon one.                   *)
THEOREM OneOwnerAlways == Spec => []OneOwner
<1>1. IInv => OneOwner
  BY SoloOwners DEF IInv, Good, Orderly, OneOwner
<1> QED
  BY <1>1, AlwaysGood, PTL

(* A staged activity goes with the state words that may start it or be     *)
(* accepted under it.                                                      *)
THEOREM OwnerFitsWordAlways == Spec => []OwnerFitsWord
<1>1. IInv => OwnerFitsWord
  BY DEF IInv, Good, Orderly, Fits, OwnerFitsWord
<1> QED
  BY <1>1, AlwaysGood, PTL

(* A START pressed in a game is forgotten before the attract mode, in any  *)
(* flow of the page.                                                       *)
THEOREM NoStaleStartAlways == Spec => []NoStaleStart
<1>1. IInv => NoStaleStart
  BY DEF IInv, Good, Orderly, Unspoilt, NoStaleStart
<1> QED
  BY <1>1, AlwaysGood, PTL

(* A level that was begun after the goal of another, or after a START, is  *)
(* played against a running clock, but in its intro and from its goal on:  *)
(* for any intro, level and clock, and whatever is pressed.                *)
THEOREM ClockAlwaysRuns == Spec => []ClockRuns
<1>1. ClockInv => ClockRuns
  <2> SUFFICES ASSUME ClockInv, ~s.cut, s.earned.time # None, s.word = 0,
                      Owners(s) = {}, s.type # 6
               PROVE  s.inner # Off
    BY DEF ClockRuns
  <2>1. s.scroll = None /\ s.banner = None
    BY DEF Owners, Counters
  <2> QED
    BY <2>1 DEF ClockInv, Runs, Ticks
<1> QED
  BY <1>1, InitRuns, NextRuns, PTL DEF Spec

(* A game whose clock is quiet.                                            *)
QuietInv == ClockInv /\ Quiet(s, 0) /\ Waiting(s) /\ Attracts(s)

LEMMA InitQuiet == Init => QuietInv
<1> SUFFICES ASSUME Init PROVE QuietInv
  OBVIOUS
<1>1. /\ s.word = 1 /\ s.mode = 2 /\ s.level = 0 /\ s.seg = 0 /\ s.slot = 0 /\ s.type = 0
      /\ s.inner = Off /\ s.m0 = None /\ s.m2 = 0 /\ s.hud = None
      /\ s.blit = None /\ s.wait = None /\ s.pending = FALSE
      /\ s.scroll = None /\ s.banner = None /\ s.entry = FALSE /\ s.earned.time = None
  BY DEF Init
<1>2. s.m2 # None
  BY <1>1 DEF None
<1>3. Quiet(s, 0)
  BY <1>1, <1>2 DEF Quiet, Calm, Aside, Gone, Intros, Ends, WithinDemo, Low, Turned,
     Pages, Lasts, Carries
<1> QED
  BY <1>1, <1>2, <1>3, InitRuns DEF QuietInv, Waiting, OnlyReset, Attracts

(* What a frame starts from.                                               *)
LEMMA StartQuiet ==
    ASSUME QuietInv, NEW start, start \in Rearmed(s)
    PROVE  /\ Good(start) /\ Runs(start) /\ Quiet(start, 0)
           /\ SteadyBut(s, start) /\ SameOwners(s, start)
           /\ Waiting(start) /\ Attracts(start)
           /\ Frozen(start) => start.inner = Off
<1>1. Good(s) /\ Runs(s) /\ Quiet(s, 0) /\ Waiting(s) /\ Attracts(s)
  BY DEF QuietInv, ClockInv, IInv
<1>2. /\ Quiet(start, 0) /\ SteadyBut(s, start) /\ SameOwners(s, start)
      /\ start = s \/ (flow = "coin" /\ s.word = 1)
  BY <1>1, RearmedQuiet
<1>3. Waiting(start) /\ Attracts(start)
  BY <1>1, <1>2 DEF Waiting, Attracts, SteadyBut
<1>4. Frozen(start) => start.inner = Off
  BY <1>3 DEF Frozen, Waiting, OnlyReset
<1> QED
  BY <1>1, <1>2, <1>3, <1>4, RearmedGood, RearmedRuns

LEMMA FrameQuiet ==
    ASSUME QuietInv, NEW start, start \in Rearmed(s), NEW k, k \in MainTick(start, FALSE)
    PROVE  /\ Quiet(k, 0) /\ Waiting(k) /\ Attracts(k)
           /\ k.word = 4 /\ ~s.cut => s.word = 4 \/ gameTickTimers(start).word = 4
<1>1. /\ Good(start) /\ Runs(start) /\ Quiet(start, 0) /\ SteadyBut(s, start)
      /\ Waiting(start) /\ Attracts(start) /\ (Frozen(start) => start.inner = Off)
  BY StartQuiet
<1> DEFINE fresh == FALSE
<1>2. /\ fresh \in BOOLEAN /\ k \in MainTick(start, fresh)
      /\ fresh => start.word = 0 /\ (start.inner = Off \/ start.sec > 0)
      /\ fresh /\ ~start.cut => Free(start) /\ start.earned.time = None
                                /\ start.slot = 1 /\ start.type = 0
  OBVIOUS
<1> HIDE DEF fresh
<1>3. /\ Quiet(k, 0)
      /\ k.word = 4 /\ (start.cut => start.word = 0) =>
            start.word = 4 \/ gameTickTimers(start).word = 4
      /\ flow = "coin" /\ start.word = 1 /\ ~start.cut => k.word = 1
  BY <1>1, <1>2, TickQuiet
<1>4. k.cut = start.cut /\ (start.manual => k.manual)
  BY <1>1, <1>2, TickMarks
<1>5. Waiting(k)
  BY <1>1, WaitGoesOn
<1>6. Attracts(k)
  BY <1>1, <1>3, <1>4 DEF Attracts
<1> QED
  BY <1>1, <1>3, <1>5, <1>6 DEF SteadyBut

LEMMA CoinStartQuiet ==
    ASSUME QuietInv, flow = "coin", NEW start, start \in Rearmed(s), NEW g \in Seeds,
           NEW k, k \in MainTick(Seeded(start, g), TRUE)
    PROVE  Quiet(k, 0) /\ Waiting(k) /\ Attracts(k) /\ k.word # 4
<1> DEFINE t == Seeded(start, g)
           fresh == TRUE
<1>1. Good(start)
  BY StartQuiet
<1>2. Good(t) /\ Runs(t)
  BY <1>1, SeededGood, SeededRuns
<1>3. /\ Quiet(t, 0) /\ t.word = 0 /\ t.manual /\ (t.inner = Off \/ t.sec > 0)
      /\ ~t.cut => Free(t) /\ t.earned.time = None /\ t.slot = 1 /\ t.type = 0
  BY <1>1, SeededQuiet
<1>4. k \in MainTick(t, fresh) /\ fresh \in BOOLEAN
  OBVIOUS
<1> HIDE DEF t, fresh
<1>5. ~Frozen(t)
  BY <1>3 DEF Frozen
<1>6. /\ Quiet(k, 0)
      /\ k.word = 4 => gameTickTimers(t).word = 4
  BY <1>2, <1>3, <1>4, <1>5, TickQuiet
<1>7. gameTickTimers(t).word # 4
  <2>1. t.sec \in Nat /\ t.word # 4
    BY <1>2, <1>3 DEF Good, Typed, Marble
  <2> QED
    BY <1>2, <1>3, <2>1 DEF gameTickTimers, tickCascadingTimer, Good, Typed, Rec, Fields
<1>8. k.manual
  BY <1>2, <1>3, <1>4, TickMarks
<1> QED
  BY <1>6, <1>7, <1>8 DEF Waiting, Attracts

LEMMA NextQuiet == QuietInv /\ [Next]_vars => QuietInv'
<1> SUFFICES ASSUME QuietInv, [Next]_vars PROVE QuietInv'
  OBVIOUS
<1>0. ClockInv'
  BY NextRuns DEF QuietInv
<1>1. CASE Frame
  <2>1. PICK start : start \in Rearmed(s) /\ s' \in MainTick(start, FALSE)
    BY <1>1 DEF Frame
  <2>2. Quiet(s', 0) /\ Waiting(s') /\ Attracts(s') /\ flow' = flow
    BY <1>1, <2>1, FrameQuiet DEF Frame
  <2> QED
    BY <1>0, <2>2 DEF QuietInv, Waiting, Attracts, Quiet, Calm, Aside, Gone, Intros, Ends,
       WithinDemo, Low, Turned, Pages, Lasts, Carries
<1>2. CASE CoinStartFrame
  <2>1. PICK start \in Rearmed(s), g \in Seeds : s' \in MainTick(Seeded(start, g), TRUE)
    BY <1>2 DEF CoinStartFrame
  <2>2. Quiet(s', 0) /\ Waiting(s') /\ Attracts(s') /\ flow' = flow
    BY <1>2, <2>1, CoinStartQuiet DEF CoinStartFrame
  <2> QED
    BY <1>0, <2>2 DEF QuietInv, Waiting, Attracts
<1>3. CASE UNCHANGED vars
  BY <1>0, <1>3 DEF vars, QuietInv, Waiting, Attracts
<1> QED
  BY <1>1, <1>2, <1>3 DEF Next

(* The time runs out in a level only, before its goal, and when no digit   *)
(* of the clock has anything left: whatever a demo, a page of the attract  *)
(* mode, an intro or a wait does in the frames before.                     *)
THEOREM ExpiryInPlayOnly == Spec => ExpiryOnlyInPlay
<1> DEFINE Step == (~s.cut /\ s.word # 4 /\ s'.word = 4)
                      => /\ s.word = 0 /\ Owners(s) = {} /\ ~(s.slot = 1 /\ s.type = 6)
                         /\ s.inner = 0 /\ s.medium = 0 /\ s.sec = 0
<1>1. QuietInv /\ [Next]_vars => [Step]_vars
  <2> SUFFICES ASSUME QuietInv, Next, ~s.cut, s.word # 4, s'.word = 4
               PROVE  /\ s.word = 0 /\ Owners(s) = {} /\ ~(s.slot = 1 /\ s.type = 6)
                      /\ s.inner = 0 /\ s.medium = 0 /\ s.sec = 0
    OBVIOUS
  <2>1. CASE Frame
    <3>1. PICK start : start \in Rearmed(s) /\ s' \in MainTick(start, FALSE)
      BY <2>1 DEF Frame
    <3>2. /\ Good(start) /\ Quiet(start, 0) /\ SteadyBut(s, start) /\ SameOwners(s, start)
          /\ gameTickTimers(start).word = 4 /\ start.word # 4 /\ ~start.cut
      BY <3>1, StartQuiet, FrameQuiet DEF SteadyBut
    <3>3. ~Busy(start) /\ ~Segment3Dwell(start) /\ start.word # 5
          /\ tickCascadingTimer(start).word = 4
      BY <3>2 DEF gameTickTimers
    <3>4. start.inner = 0 /\ start.medium = 0 /\ start.sec = 0
      BY <3>2, <3>3 DEF tickCascadingTimer, Good, Typed, Rec, Fields, Marble
    <3>5. start.inner # Off /\ FramesLeft(start) = 0
      <4>1. start.inner # Off
        BY <3>4 DEF Off
      <4> QED
        BY <3>2, <3>4, <4>1, LeftFacts DEF Good
    <3>6. start.word = 0
      BY <3>2, <3>3, <3>5, ClockNotOut
    <3>7. Free(start)
      BY <3>3, FreeOwners
    <3>8. ~(start.slot = 1 /\ start.type = 6)
      BY <3>2, <3>5, <3>7 DEF Quiet, Calm, Aside, Gone, Before, Free
    <3>9. Owners(s) = {}
      BY <3>2, <3>7 DEF Owners, Counters, Free, SameOwners
    <3> QED
      BY <3>2, <3>4, <3>6, <3>8, <3>9 DEF SteadyBut
  <2>2. CASE CoinStartFrame
    BY <2>2, CoinStartQuiet DEF CoinStartFrame
  <2> QED
    BY <2>1, <2>2 DEF Next
<1> QED
  BY <1>1, InitQuiet, NextQuiet, PTL DEF Spec, ExpiryOnlyInPlay

(* A level begins with the time left at the goal of the one before and its *)
(* own extra time, and is the next one, for any bonus the score screen,    *)
(* the scroll and the banner leave room for.                               *)
THEOREM TimeIsCarried == Spec => NextLevelKeepsTime
<1> DEFINE Step == (~s.cut /\ s.banner # None /\ s'.banner = None /\ s.earned.time # None)
                      => /\ s'.word = 0
                         /\ s'.level = s.earned.level + 1
                         /\ s'.sec = s.earned.time + Extra[s'.level]
<1>1. QuietInv /\ [Next]_vars => [Step]_vars
  <2> SUFFICES ASSUME QuietInv, Next,
                      ~s.cut, s.banner # None, s'.banner = None, s.earned.time # None
               PROVE  /\ s'.word = 0
                      /\ s'.level = s.earned.level + 1
                      /\ s'.sec = s.earned.time + Extra[s'.level]
    OBVIOUS
  <2>1. CASE Frame
    <3>1. PICK start : start \in Rearmed(s) /\ s' \in MainTick(start, FALSE)
      BY <2>1 DEF Frame
    <3>2. Good(start) /\ Runs(start) /\ Quiet(start, 0) /\ SteadyBut(s, start)
      BY <3>1, StartQuiet
    <3>3. ~start.cut /\ start.banner # None /\ start.earned.time # None
          /\ start.earned = s.earned
      BY <3>2 DEF SteadyBut
    <3>4. /\ s'.word = 0 /\ s'.level = start.earned.level + 1
          /\ s'.sec = start.earned.time + Extra[s'.level]
      <4>1. ASSUME NEW k, k \in MainTick(start, FALSE), k.banner = None
            PROVE  /\ k.word = 0 /\ k.level = start.earned.level + 1
                   /\ k.sec = start.earned.time + Extra[k.level]
        BY <3>2, <3>3, <4>1, BannerGoes
      <4> QED
        BY <3>1, <4>1
    <3> QED
      BY <3>3, <3>4
  <2>2. CASE CoinStartFrame
    <3>1. PICK start : start \in Rearmed(s) /\ ~start.manual
      BY <2>2 DEF CoinStartFrame
    <3>2. SteadyBut(s, start) /\ Attracts(start)
      BY <3>1, StartQuiet
    <3>3. start.word = 1 /\ s.word = 0
      <4>1. s.word = 0
        BY DEF QuietInv, ClockInv, IInv, Good, Orderly, Fits
      <4> QED
        BY <2>2, <3>1, <3>2, <4>1 DEF Attracts, SteadyBut, CoinStartFrame
    <3>4. start.word = s.word
      BY <3>2 DEF SteadyBut
    <3>5. FALSE
      BY <3>3, <3>4
    <3> QED
      BY <3>5
  <2> QED
    BY <2>1, <2>2 DEF Next
<1> QED
  BY <1>1, InitQuiet, NextQuiet, PTL DEF Spec, NextLevelKeepsTime

-----------------------------------------------------------------------------
(* Progress: outside the levels and the attract mode what is on comes to    *)
(* its end.  The frames that a counter holds the main loop:                 *)
Stayed(t) == t.m0 \in Nat => t.m0 <= LongLast
Counted(t) ==
    (IF t.m0 = None THEN 0 ELSE LongLast - t.m0 + Mode2Last + 4)
    + (IF t.m2 = None THEN 0 ELSE Mode2Last - t.m2 + 3)
    + (IF t.hud = None THEN 0 ELSE t.hud + 1)
    + (IF t.wait = None THEN 0 ELSE t.wait + 1)

(* What is still to come at a word, the waits of its successors included.   *)
Finale == Waits.timeout + Waits.final + 2
Ahead(t) ==
    CASE t.word = 2 -> 0
      [] t.word \in {4, 6} -> Finale
      [] OTHER -> Finale + 1 + IF t.pending THEN 0 ELSE Waits.level + 2
Rank(t) == 2 * (Counted(t) + Ahead(t)) + IF t.odd THEN 0 ELSE 1

(* A START, and what it may turn a demo into: a goal that leads to a level. *)
Starts(t) == t.word = 5 \/ (t.word = 3 /\ t.level + (IF t.pending THEN 0 ELSE 1) <= LastLevel)

Outside(t) == t.word \in 2..6 /\ ~t.cut /\ ~t.entry
Even(t, k) ==
    /\ SameOwners(t, k) /\ k.word = t.word /\ k.pending = t.pending /\ k.odd = t.odd
    /\ k.level = t.level

LEMMA CountedNat ==
    ASSUME NEW t, Typed(t), Stayed(t)
    PROVE  /\ Counted(t) \in Nat /\ Ahead(t) \in Nat /\ Rank(t) \in Nat
           /\ (t.m0 # None \/ t.m2 # None \/ t.hud # None \/ t.wait # None) => Counted(t) > 0
           /\ Free(t) => Counted(t) = 0
<1> DEFINE a == IF t.m0 = None THEN 0 ELSE LongLast - t.m0 + Mode2Last + 4
           b == IF t.m2 = None THEN 0 ELSE Mode2Last - t.m2 + 3
           c == IF t.hud = None THEN 0 ELSE t.hud + 1
           d == IF t.wait = None THEN 0 ELSE t.wait + 1
<1>0. LongLast \in Nat /\ Mode2Last \in Nat
      /\ Waits.level \in Nat /\ Waits.timeout \in Nat /\ Waits.final \in Nat
  BY FlowAssumption
<1>1. a \in Nat /\ (t.m0 # None => a > 0) /\ (t.m0 = None => a = 0)
  BY <1>0 DEF Typed, Counts, Stayed, None
<1>2. b \in Nat /\ (t.m2 # None => b > 0) /\ (t.m2 = None => b = 0)
  BY <1>0 DEF Typed, Counts, None
<1>3. c \in Nat /\ (t.hud # None => c > 0) /\ (t.hud = None => c = 0)
  BY DEF Typed, Counts, None
<1>4. d \in Nat /\ (t.wait # None => d > 0) /\ (t.wait = None => d = 0)
  BY DEF Typed, Counts, None
<1>5. Counted(t) = a + b + c + d
  BY DEF Counted
<1>6. Ahead(t) \in Nat
  BY <1>0 DEF Ahead, Finale
<1> HIDE DEF a, b, c, d
<1>7. Counted(t) \in Nat
  BY <1>1, <1>2, <1>3, <1>4, <1>5
<1>8. Rank(t) \in Nat
  BY <1>6, <1>7 DEF Rank
<1> QED
  BY <1>1, <1>2, <1>3, <1>4, <1>5, <1>6, <1>7, <1>8 DEF Free

LEMMA EvenRank ==
    ASSUME NEW t, NEW k, Even(t, k)
    PROVE  /\ Counted(k) = Counted(t) /\ Ahead(k) = Ahead(t) /\ Rank(k) = Rank(t)
           /\ (Outside(t) => Outside(k)) /\ (Starts(t) => Starts(k))
<1>1. Counted(k) = Counted(t)
  BY DEF Even, SameOwners, Counted
<1>2. Ahead(k) = Ahead(t)
  BY DEF Even, Ahead
<1> QED
  BY <1>1, <1>2 DEF Even, SameOwners, Rank, Outside, Starts

(* The clock and the gate change nothing of it.                             *)
LEMMA TimersEven ==
    ASSUME NEW t, Good(t), Quiet(t, 0), Outside(t)
    PROVE  Even(t, gameTickTimers(t))
<1> DEFINE k == tickCascadingTimer(t)
<1>1. SameOwners(t, gameTickTimers(t)) /\ SameOwners(t, t)
  BY ClockKeeps DEF SameOwners
<1>2. CASE gameTickTimers(t) = t
  BY <1>1, <1>2 DEF Even
<1>3. CASE gameTickTimers(t) # t
  <2>1. gameTickTimers(t) = k /\ ~Busy(t) /\ t.word # 5 /\ t.inner # Off
    BY <1>3 DEF gameTickTimers, tickCascadingTimer
  <2>2. k.pending = t.pending /\ k.odd = t.odd /\ k.level = t.level
        /\ k.word \in {t.word, 4}
    BY DEF Good, Typed, Rec, Fields, tickCascadingTimer, Expired
  <2>3. k.word = t.word
    <3>1. CASE t.word = 4
      BY <2>2, <3>1
    <3>2. CASE t.word # 4
      <4>1. ~Segment3Dwell(t) /\ t.word \notin {0, 4, 5} /\ ~t.cut
        BY <2>1, <3>2 DEF Outside, Segment3Dwell
      <4>2. FramesLeft(t) # 0
        BY <2>1, <4>1, ClockNotOut
      <4> QED
        BY <2>1, <4>2, TickTakesOne DEF Good
    <3> QED
      BY <3>1, <3>2
  <2> QED
    BY <1>1, <2>1, <2>2, <2>3 DEF Even
<1> QED
  BY <1>2, <1>3

LEMMA GateEven ==
    ASSUME NEW t, Good(t), t.word # 1, NEW k, k \in Gated(t)
    PROVE  Even(t, k)
<1>1. PICK falls \in BOOLEAN, credit \in Credits : k = gameMainGate(t, falls, credit)
  BY DEF Gated
<1>2. SameOwners(t, k)
  BY GateKeeps
<1>3. k \in {t, [t EXCEPT !.latch = TRUE, !.stale = TRUE]}
  BY <1>1 DEF gameMainGate
<1>4. CASE k = t
  BY <1>2, <1>4 DEF Even
<1>5. CASE k = [t EXCEPT !.latch = TRUE, !.stale = TRUE]
  <2>1. k.word = t.word /\ k.pending = t.pending /\ k.odd = t.odd /\ k.level = t.level
    BY <1>5 DEF Good, Typed, Rec, Fields
  <2> QED
    BY <1>2, <2>1 DEF Even
<1> QED
  BY <1>3, <1>4, <1>5

(* A stage of a demo: the next one, or the reset after it.                  *)
LEMMA Mode0Goes ==
    ASSUME NEW t, Good(t), t.m0 # None
    PROVE  LET k == advanceMode0(t)
           IN  /\ (k.m0 = t.m0 + 1 /\ k.m2 = t.m2) \/ (k.m0 = None /\ k.m2 \in {t.m2, 0})
               /\ k.hud = t.hud /\ k.wait = t.wait /\ k.scroll = t.scroll
               /\ k.banner = t.banner /\ k.entry = t.entry
               /\ k.word = t.word /\ k.pending = t.pending /\ k.odd = t.odd
               /\ k.cut = t.cut
               /\ t.level \in 0..1 => k.level \in 0..1
<1> DEFINE u == updateMode0Timer(t)
           x == advanceMode0(t)
           Goes(k) == /\ (k.m0 = t.m0 + 1 /\ k.m2 = t.m2) \/ (k.m0 = None /\ k.m2 \in {t.m2, 0})
                      /\ k.hud = t.hud /\ k.wait = t.wait /\ k.scroll = t.scroll
                      /\ k.banner = t.banner /\ k.entry = t.entry
                      /\ k.word = t.word /\ k.pending = t.pending /\ k.odd = t.odd
                      /\ k.cut = t.cut
                      /\ t.level \in 0..1 => k.level \in 0..1
           p == presentationInit10504(u)
           c == [u EXCEPT !.mode = 1, !.m0 = @ + 1]
           d == [u EXCEPT !.dwell = 1, !.m0 = @ + 1]
           f == [u EXCEPT !.mode = 3, !.seg = 0, !.dwell = Dwells.summary, !.m0 = None]
           g == [u EXCEPT !.seg = @ + 1, !.dwell = 0, !.m0 = @ + 1,
                          !.level = IF @ % 2 = 0 THEN @ + 1 ELSE @ - 1]
           j == [u EXCEPT !.dwell = 0, !.mode = 2, !.m0 = None]
<1>0. t.m0 \in Nat /\ t.level \in Nat /\ Typed(t)
  BY DEF Good, Typed, Counts, Words
<1>1. x \in {startMode2(j), c, d, f, gameModePrep(g), NextStage(p), NextStage(u)}
  BY DEF advanceMode0, EndDemo, NextSegment
<1>2. /\ Typed(u) /\ u.m0 = t.m0 /\ u.m2 = t.m2 /\ u.hud = t.hud /\ u.wait = t.wait
      /\ u.scroll = t.scroll /\ u.banner = t.banner /\ u.entry = t.entry /\ u.word = t.word
      /\ u.cut = t.cut /\ u.level = t.level
  BY <1>0, DemoClockTyped DEF SameOwners
<1>3. u.pending = t.pending /\ u.odd = t.odd
  BY <1>0 DEF Typed, Rec, Fields, updateMode0Timer
<1> HIDE DEF u, x
<1>4. Goes(c) /\ Goes(d) /\ Goes(f) /\ Goes(NextStage(u))
  BY <1>2, <1>3 DEF Typed, Rec, Fields, NextStage
<1>5. Goes(startMode2(j))
  BY <1>2, <1>3 DEF Typed, Rec, Fields, startMode2
<1>6. Goes(gameModePrep(g))
  <2> DEFINE l == IF u.level % 2 = 0 THEN u.level + 1 ELSE u.level - 1
  <2>1. t.level \in 0..1 => l \in 0..1
    BY <1>2
  <2>2. gameModePrep(g) = [g EXCEPT !.slot = 3, !.type = 6]
    BY DEF gameModePrep
  <2>3. g = [u EXCEPT !.seg = u.seg + 1, !.dwell = 0, !.m0 = u.m0 + 1, !.level = l]
    BY <1>2 DEF Typed, Rec, Fields
  <2> HIDE DEF g, l
  <2>4. Rec(g) /\ g.m0 = u.m0 + 1 /\ g.m2 = u.m2 /\ g.hud = u.hud /\ g.wait = u.wait
        /\ g.scroll = u.scroll /\ g.banner = u.banner /\ g.entry = u.entry
        /\ g.word = u.word /\ g.pending = u.pending /\ g.odd = u.odd /\ g.cut = u.cut
        /\ g.level = l
    <3>1. Rec(u) /\ u.m0 \in Nat
      BY <1>0, <1>2 DEF Typed
    <3>2. Rec(g)
      BY <2>3, <3>1 DEF Rec
    <3> QED
      BY <2>3, <3>1, <3>2 DEF Rec, Fields
  <2> QED
    BY <1>2, <1>3, <2>1, <2>2, <2>4 DEF Rec, Fields
<1>7. Goes(NextStage(p))
  <2>1. /\ Rec(p) /\ p.m0 = u.m0 /\ p.m2 = u.m2 /\ p.hud = u.hud /\ p.wait = u.wait
        /\ p.scroll = u.scroll /\ p.banner = u.banner /\ p.entry = u.entry
        /\ p.word = u.word /\ p.pending = u.pending /\ p.odd = u.odd /\ p.cut = u.cut
        /\ p.level = u.level
    <3> DEFINE made == mainLoopInit10504(u)
    <3>1. /\ Rec(made) /\ made.m0 = u.m0 /\ made.m2 = u.m2 /\ made.hud = u.hud
          /\ made.wait = u.wait /\ made.scroll = u.scroll /\ made.banner = u.banner
          /\ made.entry = u.entry /\ made.word = u.word /\ made.pending = u.pending
          /\ made.odd = u.odd /\ made.cut = u.cut /\ made.level = u.level
      <4>1. Rec(u)
        BY <1>2 DEF Typed
      <4>2. Typed(made) /\ SameOwners(u, made) /\ made.word = u.word
        BY <1>2, InitTyped
      <4> DEFINE sec == IF u.level < 2 THEN 0 ELSE u.sec
                 seats == [u EXCEPT !.slot = 1, !.type = 0, !.sec = sec,
                                    !.medium = Digits.medium, !.inner = Digits.inner]
      <4>3. made \in {[u EXCEPT !.slot = 0], seats}
        BY <4>1 DEF Rec, Fields, mainLoopInit10504
      <4>4. seats.pending = u.pending /\ seats.odd = u.odd /\ seats.level = u.level
        <5> HIDE DEF sec
        <5> QED
          BY <4>1 DEF Rec, Fields
      <4> HIDE DEF seats, made
      <4>5. made.pending = u.pending /\ made.odd = u.odd /\ made.level = u.level
        BY <4>1, <4>3, <4>4 DEF Rec, Fields
      <4> QED
        BY <4>2, <4>5 DEF Typed, SameOwners
    <3>2. p \in {made, [made EXCEPT !.sec = IF u.seg = 4 THEN DemoTime.four ELSE DemoTime.all]}
      BY DEF presentationInit10504
    <3> HIDE DEF made, p
    <3> QED
      BY <3>1, <3>2 DEF Rec, Fields
  <2> HIDE DEF p
  <2> QED
    BY <1>2, <1>3, <2>1 DEF Rec, Fields, NextStage
<1> HIDE DEF c, d, f, g, j, p, Goes
<1>8. Goes(x)
  BY <1>1, <1>4, <1>5, <1>6, <1>7
<1> QED
  BY <1>8 DEF x, Goes

(* What follows the main loop in a frame takes one off a counter that is    *)
(* set, and does not begin another.                                         *)
LEMMA StagedFields ==
    ASSUME NEW t, Typed(t), NEW k, k = delaysAdvance(advanceMode2(t))
    PROVE  /\ k.word = t.word /\ k.pending = t.pending /\ k.odd = t.odd /\ k.level = t.level
           /\ k.cut = t.cut /\ k.entry = t.entry /\ k.scroll = t.scroll /\ k.banner = t.banner
           /\ k.m0 = t.m0 /\ k.wait = Delay(t.wait)
           /\ t.m2 = None => k.m2 = None /\ k.hud = Delay(t.hud)
           /\ t.m2 # None /\ t.m2 < Mode2Last => k.m2 = t.m2 + 1 /\ k.hud = Delay(t.hud)
           /\ t.m2 # None /\ ~(t.m2 < Mode2Last) => k.m2 = None /\ k.hud \in {0, None}
<1> DEFINE m == advanceMode2(t)
           Same == /\ m.word = t.word /\ m.pending = t.pending /\ m.odd = t.odd
                   /\ m.level = t.level /\ m.cut = t.cut /\ m.entry = t.entry
                   /\ m.scroll = t.scroll /\ m.banner = t.banner /\ m.m0 = t.m0
                   /\ m.wait = t.wait
<1>1. /\ Rec(m) /\ Same
      /\ t.m2 = None => m.m2 = None /\ m.hud = t.hud
      /\ t.m2 # None /\ t.m2 < Mode2Last => m.m2 = t.m2 + 1 /\ m.hud = t.hud
      /\ t.m2 # None /\ ~(t.m2 < Mode2Last) => m.m2 = None /\ m.hud \in {1, None}
  <2>1. CASE t.m2 = None
    BY <2>1 DEF advanceMode2, Typed
  <2>2. CASE t.m2 # None /\ t.m2 < Mode2Last
    <3>1. Rec(t) /\ m = [t EXCEPT !.m2 = @ + 1]
      BY <2>2 DEF advanceMode2, Typed
    <3> HIDE DEF m
    <3> QED
      BY <2>2, <3>1 DEF Rec, Fields
  <2>3. CASE t.m2 # None /\ ~(t.m2 < Mode2Last)
    <3> DEFINE blit == IF t.seg = 4 THEN 1 ELSE t.blit
               hud == IF t.seg = 1 THEN 1 ELSE None
    <3>1. Rec(t) /\ m = [t EXCEPT !.m2 = None, !.dwell = Dwells.shown, !.blit = blit,
                                  !.hud = hud]
      BY <2>3 DEF advanceMode2, Typed, Rec, Fields
    <3>2. hud \in {1, None}
      OBVIOUS
    <3> HIDE DEF m, blit, hud
    <3>3. Rec(m)
      BY <3>1 DEF Rec
    <3>4. Same
      BY <3>1 DEF Rec, Fields
    <3>5. m.m2 = None /\ m.hud = hud
      BY <3>1 DEF Rec, Fields
    <3> QED
      BY <2>3, <3>2, <3>3, <3>4, <3>5
  <2> QED
    BY <2>1, <2>2, <2>3
<1> HIDE DEF m
<1>2. /\ k.word = m.word /\ k.pending = m.pending /\ k.odd = m.odd /\ k.level = m.level
      /\ k.cut = m.cut /\ k.entry = m.entry /\ k.scroll = m.scroll /\ k.banner = m.banner
      /\ k.m0 = m.m0 /\ k.wait = Delay(m.wait) /\ k.m2 = m.m2 /\ k.hud = Delay(m.hud)
  BY <1>1 DEF m, delaysAdvance, Rec, Fields
<1>3. m.hud \in {1, None} => Delay(m.hud) \in {0, None}
  BY DEF Delay, None
<1> QED
  BY <1>1, <1>2, <1>3

LEMMA StagedFalls ==
    ASSUME NEW t, NEW start, Good(t), Runs(t), Quiet(t, 0), Outside(t),
           t.m0 # None => Busy(start), NEW k, k \in Staged(t, start, FALSE)
    PROVE  /\ Outside(k) /\ k.word = t.word /\ k.pending = t.pending /\ k.odd = t.odd
           /\ k.level = t.level \/ (t.m0 # None /\ k.level \in 0..1)
           /\ Stayed(t) /\ Stayed(k)
           /\ Counted(k) <= Counted(t) /\ (Busy(t) => Counted(k) < Counted(t))
<1> DEFINE fresh == FALSE
           u == IF t.m0 = None THEN t ELSE advanceMode0(t)
           d == delaysAdvance(advanceMode2(u))
<1>1. /\ Typed(t) /\ t.scroll = None /\ t.banner = None /\ ~t.entry /\ t.cut = FALSE
      /\ t.entry = FALSE
      /\ t.m0 # None => t.m2 = None /\ t.hud = None /\ t.wait = None
      /\ t.m2 # None => t.hud = None /\ t.wait = None
  BY DEF Outside, Good, Orderly, Solo, Fits, Typed, Flags
<1>2. fresh \in BOOLEAN /\ k \in Staged(t, start, fresh) /\ (fresh /\ ~t.cut => Begun(t))
  OBVIOUS
<1>3. Quiet(k, 0) /\ Good(k)
  <2> HIDE DEF fresh
  <2> QED
    BY <1>2, StagedKeeps, StagedQuiet
<1>4. /\ Typed(u) /\ u.word = t.word /\ u.pending = t.pending /\ u.odd = t.odd
      /\ u.cut = t.cut /\ u.entry = t.entry /\ u.scroll = None /\ u.banner = None
      /\ u.hud = t.hud /\ u.wait = t.wait
      /\ u.level = t.level \/ (t.m0 # None /\ u.level \in 0..1)
      /\ t.m0 = None => u = t
      /\ t.m0 # None => (u.m0 = t.m0 + 1 /\ u.m2 = None) \/ (u.m0 = None /\ u.m2 \in {None, 0})
  <2>1. CASE t.m0 = None
    BY <1>1, <2>1
  <2>2. CASE t.m0 # None
    <3>1. t.level \in 0..1
      BY <1>1, <2>2 DEF Quiet, Calm, Low
    <3>2. Typed(advanceMode0(t))
      BY Mode0Keeps DEF Good
    <3> QED
      BY <1>1, <2>2, <3>1, <3>2, Mode0Goes
  <2> QED
    BY <2>1, <2>2
<1>5. k = d
  <2>1. ~Mode0Deferred(t, start) \/ t.m0 = None
    BY DEF Mode0Deferred
  <2>2. u = IF Mode0Deferred(t, start) THEN t ELSE advanceMode0(t)
    BY <2>1 DEF advanceMode0, Mode0Deferred
  <2>3. PICK i \in Initials(u) : k = advanceLevelIntro(delaysAdvance(advanceMode2(i)), FALSE)
    BY <2>2 DEF Staged
  <2> HIDE DEF u
  <2>4. i = u
    BY <1>1, <1>4, <2>3 DEF Initials
  <2>5. d.scroll = None /\ d.banner = None
    BY <1>4, StagedFields
  <2> HIDE DEF d
  <2> QED
    BY <2>3, <2>4, <2>5 DEF d, advanceLevelIntro
<1> HIDE DEF u, d
<1>6. /\ k.word = t.word /\ k.pending = t.pending /\ k.odd = t.odd /\ k.cut = t.cut
      /\ k.entry = t.entry /\ k.level = u.level
      /\ k.m0 = u.m0 /\ k.wait = Delay(t.wait)
      /\ u.m2 = None => k.m2 = None /\ k.hud = Delay(t.hud)
      /\ u.m2 # None /\ u.m2 < Mode2Last => k.m2 = u.m2 + 1 /\ k.hud = Delay(t.hud)
      /\ u.m2 # None /\ ~(u.m2 < Mode2Last) => k.m2 = None /\ k.hud \in {0, None}
  BY <1>4, <1>5, StagedFields DEF d
<1>7. Stayed(t) /\ Stayed(k)
  <2>1. ASSUME NEW x, Good(x), Quiet(x, 0), ~x.cut PROVE Stayed(x)
    <3>1. Demo[x.seg].last \in Nat /\ Demo[x.seg].last <= LongLast /\ LongLast \in Nat
      BY <2>1, Stages DEF Good
    <3>2. x.m0 \in Nat => x.m0 <= Demo[x.seg].last
      BY <2>1 DEF Quiet, Calm, WithinDemo, None
    <3> QED
      BY <3>1, <3>2 DEF Stayed
  <2> QED
    BY <1>1, <1>3, <1>6, <2>1
<1>8. LongLast \in Nat /\ Mode2Last \in Nat \ {0}
  BY FlowAssumption
<1>9. Counted(k) <= Counted(t) /\ (Busy(t) => Counted(k) < Counted(t))
  <2>0. Delay(None) = None /\ None = -1 /\ \A n \in Nat : Delay(n) = IF n = 0 THEN None ELSE n - 1
    BY DEF Delay, None
  <2>1. CASE t.m0 # None
    <3>1. t.m0 \in Nat /\ t.m0 <= LongLast
      BY <1>1, <1>7, <2>1 DEF Typed, Counts, Stayed
    <3>2. /\ t.m2 = None /\ t.hud = None /\ t.wait = None /\ k.wait = None
          /\ Counted(t) = LongLast - t.m0 + Mode2Last + 4
      <4>1. t.m2 = None /\ t.hud = None /\ t.wait = None /\ k.wait = None
        BY <1>1, <1>6, <2>0, <2>1
      <4> QED
        BY <1>8, <2>1, <3>1, <4>1 DEF Counted
    <3>3. CASE u.m0 = t.m0 + 1 /\ u.m2 = None
      <4>1. k.m0 = t.m0 + 1 /\ k.m0 # None /\ k.m2 = None /\ k.hud = None
        BY <1>6, <2>0, <3>1, <3>2, <3>3
      <4>2. Counted(k) = LongLast - k.m0 + Mode2Last + 4
        BY <1>8, <3>1, <3>2, <4>1 DEF Counted
      <4> QED
        BY <1>8, <3>1, <3>2, <4>1, <4>2
    <3>4. CASE u.m0 = None /\ u.m2 = None
      <4>1. k.m0 = None /\ k.m2 = None /\ k.hud = None
        BY <1>6, <2>0, <3>2, <3>4
      <4>2. Counted(k) = 0
        BY <3>2, <4>1 DEF Counted
      <4> QED
        BY <1>8, <3>1, <3>2, <4>2
    <3>5. CASE u.m0 = None /\ u.m2 = 0
      <4>1. k.m0 = None /\ k.m2 = 1 /\ k.m2 # None /\ k.hud = None
        BY <1>6, <1>8, <2>0, <3>2, <3>5
      <4>2. Counted(k) = Mode2Last - 1 + 3
        BY <1>8, <3>2, <4>1 DEF Counted
      <4> QED
        BY <1>8, <3>1, <3>2, <4>2
    <3> QED
      BY <1>4, <2>1, <3>3, <3>4, <3>5
  <2>2. CASE t.m0 = None /\ t.m2 # None
    <3>1. t.m2 \in 0..Mode2Last /\ t.hud = None /\ t.wait = None /\ k.wait = None
          /\ k.m0 = None /\ u = t
      BY <1>1, <1>4, <1>6, <2>0, <2>2 DEF Typed, Counts
    <3>2. Counted(t) = Mode2Last - t.m2 + 3
      BY <1>8, <2>2, <3>1 DEF Counted
    <3>3. CASE t.m2 < Mode2Last
      <4>1. k.m2 = t.m2 + 1 /\ k.hud = None /\ k.m2 # None
        BY <1>6, <2>0, <2>2, <3>1, <3>3
      <4>2. Counted(k) = Mode2Last - k.m2 + 3
        BY <1>8, <3>1, <4>1 DEF Counted
      <4> QED
        BY <1>8, <3>1, <3>2, <4>1, <4>2
    <3>4. CASE ~(t.m2 < Mode2Last)
      <4>1. k.m2 = None /\ k.hud \in {0, None}
        BY <1>6, <2>2, <3>1, <3>4
      <4>2. Counted(k) <= 1
        BY <2>0, <3>1, <4>1 DEF Counted
      <4>3. Counted(k) \in Int
        BY <2>0, <3>1, <4>1 DEF Counted
      <4> QED
        BY <1>8, <3>1, <3>2, <4>2, <4>3
    <3> QED
      BY <3>3, <3>4
  <2>3. CASE t.m0 = None /\ t.m2 = None
    <3>1. /\ u = t /\ k.m0 = None /\ k.m2 = None
          /\ k.hud = Delay(t.hud) /\ k.wait = Delay(t.wait)
      BY <1>4, <1>6, <2>3
    <3> DEFINE Left(n) == IF n = None THEN 0 ELSE n + 1
    <3>2. \A n \in Nat \cup {None} : /\ Left(n) \in Nat /\ Left(Delay(n)) \in Nat
                                     /\ n = None => Left(Delay(n)) = 0 /\ Left(n) = 0
                                     /\ n # None => Left(Delay(n)) < Left(n)
      BY <2>0
    <3>3. t.hud \in Nat \cup {None} /\ t.wait \in Nat \cup {None}
      BY <1>1 DEF Typed, Counts
    <3>4. Counted(t) = Left(t.hud) + Left(t.wait) /\ Counted(k) = Left(k.hud) + Left(k.wait)
      <4>1. Left(t.hud) \in Nat /\ Left(t.wait) \in Nat
            /\ Left(k.hud) \in Nat /\ Left(k.wait) \in Nat
        BY <3>1, <3>2, <3>3
      <4>2. /\ Counted(t) = 0 + 0 + Left(t.hud) + Left(t.wait)
            /\ Counted(k) = 0 + 0 + Left(k.hud) + Left(k.wait)
        BY <2>3, <3>1 DEF Counted
      <4> HIDE DEF Left
      <4> QED
        BY <4>1, <4>2
    <3>5. Busy(t) => t.hud # None \/ t.wait # None
      BY <1>1, <2>3, FreeOwners DEF Free
    <3> HIDE DEF Left
    <3>6. ASSUME NEW n \in Nat \cup {None}
          PROVE  /\ Left(n) \in Nat /\ Left(Delay(n)) \in Nat /\ Left(Delay(n)) <= Left(n)
                 /\ n # None => Left(Delay(n)) < Left(n)
      <4>1. /\ Left(n) \in Nat /\ Left(Delay(n)) \in Nat
            /\ n = None => Left(Delay(n)) = 0 /\ Left(n) = 0
            /\ n # None => Left(Delay(n)) < Left(n)
        BY <3>2
      <4> QED
        BY <4>1
    <3>7. /\ Left(t.hud) \in Nat /\ Left(k.hud) \in Nat /\ Left(k.hud) <= Left(t.hud)
          /\ t.hud # None => Left(k.hud) < Left(t.hud)
      BY <3>1, <3>3, <3>6
    <3>8. /\ Left(t.wait) \in Nat /\ Left(k.wait) \in Nat /\ Left(k.wait) <= Left(t.wait)
          /\ t.wait # None => Left(k.wait) < Left(t.wait)
      BY <3>1, <3>3, <3>6
    <3>9. Counted(k) <= Counted(t)
      BY <3>4, <3>7, <3>8
    <3>10. t.hud # None \/ t.wait # None => Counted(k) < Counted(t)
      BY <3>4, <3>7, <3>8
    <3> QED
      BY <3>5, <3>9, <3>10
  <2> QED
    BY <2>1, <2>2, <2>3
<1> QED
  BY <1>1, <1>4, <1>6, <1>7, <1>9 DEF Outside

(* The marble changes none of it but the word, to that of a level's end.    *)
LEMMA RefreshEven ==
    ASSUME NEW t, Typed(t), NEW k \in RefreshFrame(t)
    PROVE  /\ Rec(k) /\ SameOwners(t, k) /\ k.pending = t.pending /\ k.odd = t.odd
           /\ k.level = t.level /\ k.word \in {t.word, 3}
<1>1. PICK m \in Moved(t) : k = objectScanDispatch(m)
  BY DEF RefreshFrame
<1>2. Typed(m) /\ SameOwners(t, m) /\ m.word = t.word
  BY <1>1, MovedTyped
<1>3. m.pending = t.pending /\ m.odd = t.odd /\ m.level = t.level
  <2>1. \/ m = t \/ m = GoalReached(t) \/ m = [t EXCEPT !.type = 8] \/ m = [t EXCEPT !.type = 0]
        \/ m = [t EXCEPT !.sec = IF @ < MaxTime THEN @ + 1 ELSE @] \/ m = [t EXCEPT !.slot = 3]
    BY <1>1 DEF Moved
  <2>2. GoalReached(t).pending = t.pending /\ GoalReached(t).odd = t.odd
        /\ GoalReached(t).level = t.level
    BY DEF GoalReached, Parked, Typed, Rec, Fields
  <2> QED
    BY <2>1, <2>2 DEF Typed, Rec, Fields
<1>4. k = m \/ k = [m EXCEPT !.word = 3]
  BY <1>1 DEF objectScanDispatch
<1> QED
  BY <1>2, <1>3, <1>4 DEF Typed, Rec, Fields, SameOwners

(* What the dispatcher leads to, when nothing holds it.                     *)
Led(t, k) ==
    /\ Rec(k) /\ k.entry = FALSE /\ k.cut = FALSE
    /\ k.m0 = None /\ k.m2 = None /\ k.hud = None /\ k.wait \in Nat \cup {None}
    /\ k.word \in 2..6 /\ k.pending \in BOOLEAN /\ Counted(k) + Ahead(k) < Ahead(t)
Falls(t, k) ==
    /\ k.word \in {0, 1} \/ Led(t, k)
    /\ Starts(t) => k.word = 0 \/ Starts(k)
    /\ t.word \in {2, 4, 6} => k.word \in {1, 2}

LEMMA FinishFalls ==
    ASSUME NEW t, Typed(t), Free(t), ~t.cut
    PROVE  LET k == finishCase4(t)
           IN  \/ k.word = 0
               \/ /\ t.level > LastLevel /\ Rec(k) /\ k.word = 6 /\ SameOwners(t, k)
                  /\ k.pending = t.pending
<1> DEFINE r == mainLoopInit10504(t)
           u == armLevelIntroScroll(r, t.sec)
<1>1. CASE t.level > LastLevel
  BY <1>1 DEF finishCase4, Typed, Rec, Fields, SameOwners
<1>2. CASE ~(t.level > LastLevel)
  <2>1. t.sec \in Nat /\ Typed(r)
    BY InitTyped DEF Typed, Marble
  <2> HIDE DEF r
  <2>2. Rec(u)
    BY <2>1, ScrollTyped DEF Typed
  <2>3. finishCase4(t) = [u EXCEPT !.word = 0]
    BY <1>2 DEF finishCase4, r
  <2> HIDE DEF u
  <2> QED
    BY <2>2, <2>3 DEF Rec, Fields
<1> QED
  BY <1>1, <1>2

LEMMA Case4Falls ==
    ASSUME NEW t, Good(t), Free(t), ~t.odd, Outside(t), t.word = 3
    PROVE  Falls(t, case4(t))
<1> DEFINE next == [t EXCEPT !.level = @ + 1]
           done == [t EXCEPT !.pending = FALSE]
           shown == [next EXCEPT !.pending = TRUE, !.wait = Waits.level]
<1>0. /\ Typed(t) /\ t.entry = FALSE /\ t.cut = FALSE /\ t.pending \in BOOLEAN /\ t.level \in Nat
      /\ t.m0 = None /\ t.m2 = None /\ t.hud = None /\ t.wait = None
      /\ Finale \in Nat /\ Waits.level \in Nat /\ LastLevel \in Nat
  <2>1. Finale \in Nat /\ Waits.level \in Nat /\ LastLevel \in Nat
    BY FlowAssumption DEF Finale
  <2> QED
    BY <2>1 DEF Good, Typed, Flags, Words, Outside, Free
<1>1. /\ Typed(next) /\ Typed(done) /\ SameOwners(t, next) /\ SameOwners(t, done)
  BY CountedTyped
<1>2. /\ next.level = t.level + 1 /\ next.pending = t.pending
      /\ done.level = t.level /\ done.pending = FALSE
  BY <1>0 DEF Typed, Rec, Fields
<1>3. /\ Rec(shown) /\ shown.entry = FALSE /\ shown.cut = FALSE /\ shown.m0 = None
      /\ shown.m2 = None /\ shown.hud = None /\ shown.wait = Waits.level /\ shown.word = 3
      /\ shown.pending = TRUE /\ shown.level = t.level + 1
  <2>1. Rec(next) /\ next.word = 3 /\ next.entry = FALSE /\ next.cut = FALSE
        /\ next.m0 = None /\ next.m2 = None /\ next.hud = None
    BY <1>0, <1>1 DEF SameOwners, Typed, Rec, Fields
  <2> HIDE DEF next
  <2>2. Rec(shown)
    BY <2>1 DEF Rec
  <2> QED
    BY <1>2, <2>1, <2>2 DEF Rec, Fields
<1>4. case4(t) = IF t.pending THEN finishCase4(done)
                 ELSE IF t.slot = 3 THEN shown ELSE finishCase4(next)
  BY DEF case4
<1>5. Ahead(t) = Finale + 1 + IF t.pending THEN 0 ELSE Waits.level + 2
  BY DEF Ahead
<1>6. Starts(t) <=> t.level + (IF t.pending THEN 0 ELSE 1) <= LastLevel
  BY DEF Starts
<1> HIDE DEF next, done, shown
<1>7. ASSUME NEW x, Typed(x), SameOwners(t, x), Starts(t) => x.level <= LastLevel,
             NEW k, k = finishCase4(x), case4(t) = k, x.pending \in BOOLEAN
      PROVE  Falls(t, case4(t))
  <2>1. Free(x) /\ ~x.cut /\ x.level \in Nat
    BY <1>0, <1>7, SameHolds DEF SameOwners, Typed, Words
  <2>2. \/ k.word = 0
        \/ /\ x.level > LastLevel /\ Rec(k) /\ k.word = 6 /\ SameOwners(x, k)
           /\ k.pending = x.pending
    BY <1>7, <2>1, FinishFalls
  <2>3. CASE k.word = 0
    BY <1>7, <2>3 DEF Falls
  <2>4. CASE k.word # 0
    <3>1. /\ Rec(k) /\ k.word = 6 /\ k.entry = FALSE /\ k.cut = FALSE /\ k.m0 = None
          /\ k.m2 = None /\ k.hud = None /\ k.wait = None /\ k.pending \in BOOLEAN
      BY <1>0, <1>7, <2>2, <2>4 DEF SameOwners
    <3>2. Counted(k) = 0 /\ Ahead(k) = Finale
      BY <3>1 DEF Counted, Ahead
    <3>3. Counted(k) + Ahead(k) < Ahead(t)
      BY <1>0, <1>5, <3>2
    <3>4. ~Starts(t)
      BY <1>0, <1>7, <2>1, <2>2, <2>4
    <3> QED
      BY <1>7, <3>1, <3>3, <3>4 DEF Falls, Led
  <2> QED
    BY <2>3, <2>4
<1>8. CASE t.pending
  <2>1. Starts(t) => done.level <= LastLevel
    BY <1>0, <1>2, <1>6, <1>8
  <2> QED
    BY <1>0, <1>1, <1>2, <1>4, <1>7, <1>8, <2>1
<1>9. CASE ~t.pending /\ t.slot = 3
  <2>1. Counted(shown) = Waits.level + 1 /\ Ahead(shown) = Finale + 1
    BY <1>0, <1>3 DEF Counted, Ahead, None
  <2>2. Counted(shown) + Ahead(shown) < Ahead(t)
    BY <1>0, <1>5, <1>9, <2>1
  <2>3. Starts(t) => Starts(shown)
    BY <1>0, <1>3, <1>6, <1>9 DEF Starts
  <2> QED
    <3>1. case4(t) = shown
      BY <1>4, <1>9
    <3>2. shown.wait \in Nat \cup {None} /\ shown.word \in 2..6 /\ shown.pending \in BOOLEAN
      <4>1. shown.wait \in Nat \cup {None} /\ shown.word \in 2..6
        BY <1>0, <1>3
      <4>2. shown.pending \in BOOLEAN
        BY <1>3, Zenon
      <4> QED
        BY <4>1, <4>2
    <3>3. Led(t, shown)
      BY <1>3, <2>2, <3>2 DEF Led
    <3> QED
      BY <2>3, <3>1, <3>3 DEF Falls
<1>10. CASE ~t.pending /\ t.slot # 3
  <2>1. Starts(t) => next.level <= LastLevel
    BY <1>0, <1>2, <1>6, <1>10
  <2> QED
    BY <1>0, <1>1, <1>2, <1>4, <1>7, <1>10, <2>1
<1> QED
  BY <1>8, <1>9, <1>10

LEMMA DispatcherFalls ==
    ASSUME NEW t, Good(t), Runs(t), Free(t), ~t.odd, Outside(t),
           NEW k \in MainLoopInit1101E(t)
    PROVE  Falls(t, k)
<1>0. /\ Typed(t) /\ t.entry = FALSE /\ t.cut = FALSE /\ t.pending \in BOOLEAN
      /\ t.m0 = None /\ t.m2 = None /\ t.hud = None /\ t.wait = None /\ t.word \in 2..6
      /\ Finale \in Nat /\ Waits.timeout \in Nat /\ Waits.final \in Nat
  <2>1. Finale \in Nat /\ Waits.timeout \in Nat /\ Waits.final \in Nat
    BY FlowAssumption DEF Finale
  <2> QED
    BY <2>1 DEF Good, Typed, Flags, Outside, Free
<1>1. CASE t.word = 2
  <2>1. PICK ranks \in BOOLEAN : k = case3(t, ranks)
    BY <1>1 DEF MainLoopInit1101E
  <2>2. k.word = 1
    BY <1>0, <2>1 DEF case3, Typed, Rec, Fields
  <2> QED
    BY <1>1, <2>2 DEF Falls, Starts
<1>2. CASE t.word = 3
  BY <1>2, Case4Falls DEF MainLoopInit1101E
<1>3. CASE t.word = 4
  <2>1. k = case2(t) /\ t.slot = 2
    BY <1>0, <1>3 DEF MainLoopInit1101E, Runs, Overdue
  <2>2. k = [Parked(t) EXCEPT !.word = 2, !.wait = Waits.timeout]
    <3>1. stateSub16A20(t) = Parked(t)
      BY <2>1 DEF stateSub16A20
    <3>2. Parked(t).word = 4 /\ Parked(t).wait = None
      BY <1>0, <1>3 DEF Parked, Typed, Rec, Fields
    <3> QED
      BY <2>1, <3>1, <3>2 DEF case2
  <2>3. /\ Rec(k) /\ k.word = 2 /\ k.entry = FALSE /\ k.cut = FALSE /\ k.m0 = None
        /\ k.m2 = None /\ k.hud = None /\ k.wait = Waits.timeout /\ k.pending = t.pending
    <3> DEFINE parked == Parked(t)
    <3>1. Rec(parked)
      BY <1>0 DEF Parked, Typed, Rec
    <3>2. parked.entry = FALSE /\ parked.cut = FALSE /\ parked.m0 = None
          /\ parked.m2 = None /\ parked.hud = None /\ parked.pending = t.pending
      BY <1>0 DEF Parked, Typed, Rec, Fields
    <3> HIDE DEF parked
    <3>3. k = [parked EXCEPT !.word = 2, !.wait = Waits.timeout]
      BY <2>2 DEF parked
    <3>4. Rec(k)
      BY <3>1, <3>3 DEF Rec
    <3> QED
      BY <3>1, <3>2, <3>3, <3>4 DEF Rec, Fields
  <2>4. Counted(k) = Waits.timeout + 1 /\ Ahead(k) = 0 /\ Ahead(t) = Finale
    BY <1>0, <1>3, <2>3 DEF Counted, Ahead, None
  <2>5. Counted(k) + Ahead(k) < Ahead(t)
    BY <1>0, <2>4 DEF Finale
  <2> QED
    BY <1>0, <1>3, <2>3, <2>5 DEF Falls, Led, Starts
<1>4. CASE t.word = 5
  <2> DEFINE p == gameModePrep([t EXCEPT !.mode = 0, !.seg = 2, !.level = FirstLevel])
             r == mainLoopInit10504(p)
             u == armLevelIntroScroll(r, 0)
  <2>1. k = [u EXCEPT !.word = 0, !.earned = [time |-> 0, level |-> FirstLevel - 1]]
    BY <1>4 DEF MainLoopInit1101E, case5
  <2>2. Rec(p)
    BY <1>0 DEF gameModePrep, Typed, Rec
  <2> HIDE DEF p
  <2>3. Rec(r)
    BY <2>2 DEF mainLoopInit10504, Rec
  <2> HIDE DEF r
  <2>4. Rec(u)
    BY <2>3 DEF armLevelIntroScroll, Rec
  <2> HIDE DEF u
  <2>5. k.word = 0
    BY <2>1, <2>4 DEF Rec, Fields
  <2> QED
    BY <1>4, <2>5 DEF Falls
<1>5. CASE t.word = 6
  <2>1. k = [t EXCEPT !.word = 2, !.wait = IF t.slot = 3 THEN Waits.final ELSE @]
    BY <1>5 DEF MainLoopInit1101E, case6
  <2>2. /\ Rec(k) /\ k.word = 2 /\ k.entry = FALSE /\ k.cut = FALSE /\ k.m0 = None
        /\ k.m2 = None /\ k.hud = None /\ k.wait \in {None, Waits.final} /\ k.pending = t.pending
    BY <1>0, <2>1 DEF Typed, Rec, Fields
  <2>3. Ahead(k) = 0 /\ Ahead(t) = Finale
    BY <1>0, <1>5, <2>2 DEF Ahead
  <2>4. Counted(k) \in {0, Waits.final + 1}
    BY <1>0, <2>2 DEF Counted, None
  <2>5. Counted(k) + Ahead(k) < Ahead(t)
    BY <1>0, <2>3, <2>4 DEF Finale
  <2> QED
    BY <1>0, <1>5, <2>2, <2>5 DEF Falls, Led, Starts
<1> QED
  BY <1>0, <1>1, <1>2, <1>3, <1>4, <1>5

(* The body of the main loop: it leaves the counters to the rest of the     *)
(* frame, or is free and comes closer to what is on.                        *)
Brought(start, b) ==
    /\ b.word \in {0, 1} \/
          /\ Outside(b)
          /\ \/ /\ Busy(start) /\ Busy(b)
                /\ Counted(b) + Ahead(b) <= Counted(start) + Ahead(start)
             \/ /\ b.m0 = None /\ Rank(b) < Rank(start)
    /\ Starts(start) => b.word = 0 \/ Starts(b)
    /\ start.word \in {2, 4, 6} => b.word \in {1, 2, 4, 6}

LEMMA RanksApart ==
    ASSUME NEW t, Typed(t), Stayed(t)
    PROVE  /\ Rank(t) = 2 * (Counted(t) + Ahead(t)) + IF t.odd THEN 0 ELSE 1
           /\ Counted(t) \in Nat /\ Ahead(t) \in Nat /\ Rank(t) \in Nat
  BY CountedNat DEF Rank

LEMMA StayedWithin ==
    ASSUME NEW t, Good(t), Quiet(t, 0), ~t.cut
    PROVE  Stayed(t)
<1>1. Demo[t.seg].last \in Nat /\ Demo[t.seg].last <= LongLast /\ LongLast \in Nat
  BY Stages DEF Good
<1>2. t.m0 \in Nat => t.m0 <= Demo[t.seg].last
  BY DEF Quiet, Calm, WithinDemo, None
<1> QED
  BY <1>1, <1>2 DEF Stayed

(* Every second frame the body does not run.                                *)
LEMMA TurnedFalls ==
    ASSUME NEW start, NEW g, Typed(g), Stayed(g), Even(start, g), Outside(g),
           ~g.odd, NEW b, b = [g EXCEPT !.odd = ~@]
    PROVE  Brought(start, b)
<1>1. SameOwners(g, b) /\ b.word = g.word /\ b.pending = g.pending /\ b.level = g.level
      /\ b.odd = TRUE
  BY DEF Typed, Rec, Fields, SameOwners
<1>2. Counted(b) = Counted(g) /\ Ahead(b) = Ahead(g)
  BY <1>1 DEF SameOwners, Counted, Ahead
<1>3. Counted(start) = Counted(g) /\ Ahead(start) = Ahead(g) /\ Rank(start) = Rank(g)
  BY DEF Even, SameOwners, Counted, Ahead, Rank
<1>4. Outside(b) /\ (Starts(start) => Starts(b)) /\ start.word = b.word /\ b.word \in 2..6
      /\ (Busy(b) <=> Busy(start))
  <2>1. Outside(b) /\ (Starts(start) => Starts(b)) /\ start.word = b.word /\ b.word \in 2..6
    BY <1>1 DEF Outside, Starts, Even, SameOwners
  <2>2. b.m0 = start.m0 /\ b.entry = start.entry /\ b.m2 = start.m2 /\ b.hud = start.hud
        /\ b.wait = start.wait /\ b.scroll = start.scroll /\ b.banner = start.banner
    BY <1>1 DEF SameOwners, Even
  <2>3. Busy(b) <=> Busy(start)
    BY <2>2, FreeOwners DEF Free
  <2> QED
    BY <2>1, <2>3
<1>5. Counted(g) \in Nat /\ Ahead(g) \in Nat
      /\ Rank(g) = 2 * (Counted(g) + Ahead(g)) + 1
  BY RanksApart
<1>6. Rank(b) = 2 * (Counted(g) + Ahead(g))
  BY <1>1, <1>2, <1>5 DEF Rank
<1>7. CASE Busy(start)
  <2>1. Counted(b) + Ahead(b) <= Counted(start) + Ahead(start)
    BY <1>2, <1>3, <1>5
  <2> QED
    BY <1>4, <1>7, <2>1 DEF Brought
<1>8. CASE ~Busy(start)
  <2>1. b.m0 = None
    BY <1>4, <1>8 DEF Busy
  <2>2. Rank(b) < Rank(start)
    BY <1>3, <1>5, <1>6
  <2> QED
    BY <1>4, <2>1, <2>2 DEF Brought
<1> QED
  BY <1>7, <1>8

(* A demo that is shown.                                                    *)
LEMMA ShownFalls ==
    ASSUME NEW start, NEW g, Good(g), Stayed(g), Even(start, g), Outside(g), Quiet(g, 0),
           InDemo(start), NEW r \in RefreshFrame([g EXCEPT !.odd = ~@]), NEW late \in BOOLEAN,
           NEW b, b = [r EXCEPT !.odd = late]
    PROVE  Brought(start, b)
<1> DEFINE turned == [g EXCEPT !.odd = ~@]
<1>1. /\ Typed(turned) /\ SameOwners(g, turned) /\ turned.word = g.word
      /\ turned.pending = g.pending /\ turned.level = g.level
  <2>1. turned.pending = g.pending /\ turned.level = g.level
    BY DEF Good, Typed, Rec, Fields
  <2> QED
    BY <2>1, TurnedTyped
<1> HIDE DEF turned
<1>2. /\ Rec(r) /\ SameOwners(g, r) /\ r.pending = g.pending /\ r.level = g.level
      /\ r.word \in {g.word, 3}
  <2>1. r \in RefreshFrame(turned)
    BY DEF turned
  <2> QED
    BY <1>1, <2>1, RefreshEven, SameTwice
<1>3. /\ SameOwners(g, b) /\ b.pending = g.pending /\ b.level = g.level
      /\ b.word \in {g.word, 3}
  BY <1>2 DEF Rec, Fields, SameOwners
<1>4. g.m0 # None /\ g.m0 = start.m0 /\ g.word = start.word /\ b.m0 # None
  BY <1>3 DEF InDemo, Even, SameOwners
<1>5. g.word \in {3, 5} /\ ~g.cut /\ ~g.entry /\ g.pending = FALSE /\ g.level \in 0..1
  <2>1. g.word \in {3, 5} /\ ~g.cut /\ ~g.entry
    BY <1>4 DEF Good, Orderly, Fits, Outside
  <2>2. ~g.pending /\ g.level \in 0..1 /\ g.pending \in BOOLEAN
    BY <1>4, <2>1 DEF Quiet, Calm, Ends, Low, Good, Typed, Flags
  <2> QED
    BY <2>1, <2>2
<1>6. Outside(b)
  BY <1>3, <1>5 DEF Outside, SameOwners
<1>7. Counted(b) = Counted(g) /\ Counted(start) = Counted(g)
  BY <1>3 DEF SameOwners, Even, Counted
<1>8. Ahead(b) = Ahead(g) /\ Ahead(start) = Ahead(g)
  <2>1. b.word \in {3, 5} /\ start.word = g.word /\ start.pending = g.pending
    BY <1>3, <1>5 DEF Even
  <2> QED
    BY <1>3, <1>5, <2>1 DEF Ahead
<1>9. Counted(b) + Ahead(b) <= Counted(start) + Ahead(start)
  BY <1>7, <1>8, RanksApart DEF Good
<1>10. Starts(start) => Starts(b)
  <2>1. LastLevel \in Nat /\ LastLevel > 1
    BY FlowAssumption, StagesAssumption
  <2>2. b.pending = FALSE /\ b.level \in 0..1
    BY <1>3, <1>5
  <2>3. CASE b.word = 3
    BY <2>1, <2>2, <2>3 DEF Starts
  <2>4. CASE b.word = g.word
    BY <1>3, <1>5, <2>1, <2>2, <2>4 DEF Starts
  <2> QED
    BY <1>3, <2>3, <2>4
<1>11. Busy(start) /\ Busy(b)
  BY <1>4 DEF Busy
<1> QED
  BY <1>4, <1>5, <1>6, <1>9, <1>10, <1>11 DEF Brought

(* Nothing holds the dispatcher.                                            *)
LEMMA LedFalls ==
    ASSUME NEW start, NEW g, Good(g), Runs(g), Even(start, g), Outside(g), Free(g), g.odd,
           NEW r \in MainLoopInit1101E([g EXCEPT !.odd = ~@]), NEW late \in BOOLEAN,
           NEW b, b = [r EXCEPT !.odd = late], Good(r), Stayed(b)
    PROVE  Brought(start, b)
<1> DEFINE turned == [g EXCEPT !.odd = ~@]
<1>1. /\ Typed(turned) /\ SameOwners(g, turned) /\ turned.word = g.word
      /\ turned.stale = g.stale /\ turned.pending = g.pending /\ turned.level = g.level
      /\ turned.odd = FALSE /\ SameClock(g, turned) /\ r \in MainLoopInit1101E(turned)
  <2>1. turned.pending = g.pending /\ turned.level = g.level /\ turned.odd = FALSE
        /\ SameClock(g, turned)
    BY DEF Good, Typed, Rec, Fields, SameClock
  <2> QED
    BY <2>1, TurnedTyped
<1> HIDE DEF turned
<1>2. Good(turned) /\ Runs(turned) /\ Free(turned) /\ Outside(turned) /\ ~turned.odd
  <2>1. Good(turned) /\ Free(turned)
    BY <1>1, SameKeeps, SameHolds
  <2>2. Runs(turned) /\ Outside(turned)
    BY <1>1, SameRuns DEF Outside, SameOwners
  <2> QED
    BY <1>1, <2>1, <2>2
<1>3. Falls(turned, r)
  BY <1>1, <1>2, DispatcherFalls
<1>4. (Starts(start) => Starts(turned)) /\ start.word = turned.word
      /\ Ahead(turned) = Ahead(start)
  BY <1>1 DEF Starts, Even, Ahead
<1>5. /\ Rec(r) /\ b.word = r.word /\ b.pending = r.pending /\ b.level = r.level
      /\ b.m0 = r.m0 /\ b.m2 = r.m2 /\ b.hud = r.hud /\ b.wait = r.wait /\ b.entry = r.entry
      /\ b.cut = r.cut
  BY DEF Good, Typed, Rec, Fields
<1>6. Starts(r) => Starts(b)
  BY <1>5 DEF Starts
<1>7. ASSUME Led(turned, r) PROVE Outside(b) /\ b.m0 = None /\ Rank(b) < Rank(start)
  <2>1. Outside(b) /\ b.m0 = None
    BY <1>5, <1>7 DEF Led, Outside
  <2>2. Counted(b) = Counted(r) /\ Ahead(b) = Ahead(r)
    BY <1>5 DEF Counted, Ahead
  <2>3. Counted(b) + Ahead(b) < Ahead(start)
    BY <1>4, <1>7, <2>2 DEF Led
  <2>4. Counted(b) \in Nat /\ Ahead(b) \in Nat
    <3>1. Typed(b)
      BY <1>5 DEF Good, Typed, Rec, Fields, Words, Marble, Counts, Flags
    <3> QED
      BY <3>1, RanksApart
  <2>5. Counted(start) = 0 /\ Ahead(start) \in Nat /\ start.odd
    <3>1. Counted(g) = 0
      BY DEF Free, Counted
    <3>2. Counted(start) = Counted(g) /\ start.odd = g.odd
      BY DEF Even, SameOwners, Counted
    <3>3. Ahead(start) \in Nat
      BY FlowAssumption DEF Ahead, Finale
    <3> QED
      BY <3>1, <3>2, <3>3
  <2>6. Rank(start) = 2 * Ahead(start) /\ Rank(b) <= 2 * (Counted(b) + Ahead(b)) + 1
    <3>1. Rank(start) = 2 * (0 + Ahead(start)) + 0
      BY <2>5 DEF Rank
    <3>2. Rank(b) \in {2 * (Counted(b) + Ahead(b)) + 1, 2 * (Counted(b) + Ahead(b)) + 0}
      BY DEF Rank
    <3> QED
      BY <2>4, <2>5, <3>1, <3>2
  <2>7. Rank(b) < Rank(start)
    <3> DEFINE c == Counted(b) + Ahead(b)
    <3>1. c \in Nat /\ c < Ahead(start) /\ Rank(b) <= 2 * c + 1 /\ Rank(b) \in Int
      BY <2>3, <2>4, <2>6 DEF Rank
    <3> HIDE DEF c
    <3> QED
      BY <2>5, <2>6, <3>1
  <2> QED
    BY <2>1, <2>7
<1> QED
  BY <1>3, <1>4, <1>5, <1>6, <1>7 DEF Falls, Brought

(* A frame outside the levels and the attract mode.                         *)
Nearer(t, k) ==
    /\ k.word \in {0, 1} \/ (Outside(k) /\ Rank(k) \in Nat /\ Rank(k) < Rank(t))
    /\ Starts(t) => k.word = 0 \/ Starts(k)
    /\ t.word \in {2, 4, 6} => k.word \in {1, 2, 4, 6}

LEMMA BodyFalls ==
    ASSUME NEW start, NEW g, Good(start), Quiet(start, 0), Outside(start),
           Good(g), Runs(g), Quiet(g, IF Busy(start) THEN 0 ELSE 1), Even(start, g),
           NEW b \in MainThread(g, start)
    PROVE  /\ Good(b) /\ Runs(b) /\ Quiet(b, 0) /\ ~b.cut /\ Brought(start, b)
           /\ b.word \in 2..6 /\ b.m0 # None => Busy(start)
<1>1. SameOwners(start, g) /\ Outside(g) /\ ~g.cut
  BY EvenRank DEF Even, Outside, SameOwners
<1>2. (Busy(g) <=> Busy(start)) /\ (Free(start) => Free(g)) /\ (InDemo(g) <=> InDemo(start))
  <2>1. (Held(g) <=> Held(start)) /\ (Free(start) => Free(g)) /\ (InDemo(g) <=> InDemo(start))
    BY <1>1, SameHolds
  <2> QED
    BY <1>1, <2>1 DEF Busy, SameOwners
<1>3. CASE Blocked(start)
  <2>1. b = g /\ Busy(start)
    BY <1>3 DEF MainThread, Blocked, Busy
  <2>2. Quiet(g, 0)
    BY <2>1
  <2>3. Stayed(g) /\ Counted(start) = Counted(g) /\ Ahead(start) = Ahead(g)
        /\ (Starts(start) => Starts(g)) /\ start.word = g.word
    BY <1>1, <2>2, StayedWithin, EvenRank DEF Even
  <2>4. Counted(g) + Ahead(g) <= Counted(start) + Ahead(start)
    BY <2>3, RanksApart DEF Good
  <2>5. Brought(start, g)
    BY <1>1, <1>2, <2>1, <2>3, <2>4 DEF Brought
  <2> QED
    BY <1>1, <2>1, <2>2, <2>5
<1>4. CASE ~Blocked(start)
  <2>1. ~Frozen(start)
    BY DEF Frozen, isCoinStartAttractReady, Outside
  <2>2. b \in Body(g, start)
    BY <1>4, <2>1 DEF MainThread
  <2>3. Good(b) /\ Runs(b) /\ Quiet(b, 0)
    BY <1>1, <1>4, <2>2, BodyKeeps, BodyRuns, BodyQuiet
  <2>4. ~b.cut
    BY <1>1, <2>2, BodyMarks DEF Marked
  <2>5. Stayed(b) /\ Stayed(g)
    <3>1. Stayed(b)
      BY <2>3, <2>4, StayedWithin
    <3>2. Stayed(start)
      BY StayedWithin DEF Outside
    <3> QED
      BY <3>1, <3>2, <1>1 DEF Stayed, SameOwners
  <2> DEFINE turned == [g EXCEPT !.odd = ~@]
  <2>6. turned.odd = ~g.odd
    BY DEF Good, Typed, Rec, Fields
  <2>7. \/ ~g.odd /\ b = turned
        \/ /\ g.odd
           /\ \E r \in IF InDemo(start) THEN RefreshFrame(turned) ELSE MainLoopInit1101E(turned) :
                 \E late \in BOOLEAN : b = [r EXCEPT !.odd = late]
    <3>1. \/ turned.odd /\ b = turned
          \/ /\ ~turned.odd
             /\ \E r \in IF InDemo(start) THEN RefreshFrame(turned) ELSE MainLoopInit1101E(turned) :
                   \E late \in BOOLEAN : b = [r EXCEPT !.odd = late]
      BY <2>2 DEF Body
    <3>2. g.odd \in BOOLEAN
      BY DEF Good, Typed, Flags
    <3> HIDE DEF turned
    <3> QED
      BY <2>6, <3>1, <3>2
  <2>8. CASE ~g.odd /\ b = turned
    <3>1. Brought(start, b)
      BY <1>1, <2>5, <2>8, TurnedFalls DEF Good
    <3>2. b.m0 = start.m0
      BY <1>1, <2>8, TurnedTyped DEF SameOwners
    <3> QED
      BY <2>3, <2>4, <3>1, <3>2 DEF Busy
  <2>9. CASE InDemo(start)
    <3>1. Busy(start)
      BY <2>9 DEF InDemo, Busy
    <3>2. Quiet(g, 0)
      BY <3>1
    <3>3. ASSUME NEW r \in RefreshFrame(turned), NEW late \in BOOLEAN, b = [r EXCEPT !.odd = late]
          PROVE  Brought(start, b)
      BY <1>1, <2>5, <2>9, <3>2, <3>3, ShownFalls
    <3>4. Brought(start, b)
      BY <2>7, <2>8, <2>9, <3>3, <1>1, <2>5, TurnedFalls DEF Good
    <3> QED
      BY <2>3, <2>4, <3>1, <3>4
  <2>10. CASE ~InDemo(start) /\ g.odd
    <3>1. Free(start) /\ Free(g)
      BY <1>2, <1>4, <2>10, FreeOwners
    <3>2. PICK r \in MainLoopInit1101E(turned), late \in BOOLEAN : b = [r EXCEPT !.odd = late]
      BY <2>7, <2>10
    <3>3. Good(r)
      <4>1. Good(turned) /\ Free(turned)
        BY <3>1, TurnedTyped, SameKeeps, SameHolds
      <4> HIDE DEF turned
      <4> QED
        BY <3>2, <4>1, DispatcherKeeps
    <3>4. Brought(start, b)
      BY <1>1, <2>5, <2>10, <3>1, <3>2, <3>3, LedFalls
    <3>5. b.word \in 2..6 => b.m0 = None \/ Busy(start)
      BY <3>4 DEF Brought
    <3> QED
      BY <2>3, <2>4, <3>4, <3>5
  <2> QED
    BY <2>7, <2>8, <2>9, <2>10
<1> QED
  BY <1>3, <1>4

LEMMA TickFalls ==
    ASSUME NEW start, Good(start), Runs(start), Quiet(start, 0), Outside(start),
           NEW k, k \in MainTick(start, FALSE)
    PROVE  Nearer(start, k)
<1> DEFINE t == gameTickTimers(start)
           n == IF Busy(start) THEN 0 ELSE 1
<1>0. n \in 0..2
  OBVIOUS
<1>1. PICK g : g \in Gated(t) /\ \E b \in MainThread(g, start) : k \in Staged(b, start, FALSE)
  BY TickParts
<1>2. PICK b : b \in MainThread(g, start) /\ k \in Staged(b, start, FALSE)
  BY <1>1
<1>3. Good(t) /\ Runs(t) /\ Quiet(t, n) /\ Even(start, t)
  BY ClockKeeps, TickRuns, ClockQuiet, TimersEven
<1> HIDE DEF t
<1>4. Good(g) /\ Runs(g) /\ Quiet(g, n) /\ Even(t, g)
  <2>1. t.word # 1
    BY <1>3 DEF Even, Outside
  <2> QED
    BY <1>0, <1>1, <1>3, <2>1, GateKeeps, GateRuns, GateQuiet, GateEven
<1>5. Even(start, g)
  BY <1>3, <1>4, SameTwice DEF Even
<1>6. /\ Good(b) /\ Runs(b) /\ Quiet(b, 0) /\ ~b.cut /\ Brought(start, b)
      /\ b.word \in 2..6 /\ b.m0 # None => Busy(start)
  BY <1>2, <1>4, <1>5, BodyFalls
<1>7. CASE b.word \in {0, 1}
  <2> DEFINE fresh == FALSE
  <2>1. fresh \in BOOLEAN /\ k \in Staged(b, start, fresh) /\ (fresh /\ ~b.cut => Begun(b))
    BY <1>2
  <2> HIDE DEF fresh
  <2>2. k.word = b.word
    BY <1>6, <2>1, StagedQuiet
  <2> QED
    BY <1>6, <1>7, <2>2 DEF Brought, Nearer, Starts
<1>8. CASE b.word \notin {0, 1}
  <2>1. Outside(b) /\ b.word \in 2..6 /\ (b.m0 # None => Busy(start))
    BY <1>6, <1>8 DEF Brought, Outside
  <2>2. /\ Outside(k) /\ k.word = b.word /\ k.pending = b.pending /\ k.odd = b.odd
        /\ k.level = b.level \/ (b.m0 # None /\ k.level \in 0..1)
        /\ Stayed(b) /\ Stayed(k)
        /\ Counted(k) <= Counted(b) /\ (Busy(b) => Counted(k) < Counted(b))
    BY <1>2, <1>6, <2>1, StagedFalls
  <2>3. Typed(b) /\ Typed(k) /\ Typed(start) /\ Stayed(start)
    BY <1>2, <1>6, StagedKeeps, StayedWithin DEF Good, Outside
  <2>4. Ahead(k) = Ahead(b)
    BY <2>2 DEF Ahead
  <2>5. /\ Rank(k) = 2 * (Counted(k) + Ahead(k)) + IF k.odd THEN 0 ELSE 1
        /\ Rank(b) = 2 * (Counted(b) + Ahead(b)) + IF b.odd THEN 0 ELSE 1
        /\ Rank(start) = 2 * (Counted(start) + Ahead(start)) + IF start.odd THEN 0 ELSE 1
        /\ Counted(k) \in Nat /\ Ahead(k) \in Nat /\ Rank(k) \in Nat
        /\ Counted(b) \in Nat /\ Ahead(b) \in Nat /\ Rank(b) \in Nat
        /\ Counted(start) \in Nat /\ Ahead(start) \in Nat /\ Rank(start) \in Nat
    BY <2>2, <2>3, RanksApart
  <2>6. Rank(k) < Rank(start)
    <3>1. CASE Rank(b) < Rank(start)
      BY <2>2, <2>4, <2>5, <3>1
    <3>2. CASE Busy(b) /\ Counted(b) + Ahead(b) <= Counted(start) + Ahead(start)
      BY <2>2, <2>4, <2>5, <3>2
    <3> QED
      BY <1>6, <1>8, <3>1, <3>2 DEF Brought
  <2>7. Starts(start) => Starts(k)
    <3>1. Starts(start) => Starts(b)
      BY <1>6, <1>8 DEF Brought
    <3>2. ASSUME b.m0 # None, k.level \in 0..1, b.word = 3
          PROVE  Starts(k)
      <4>1. b.pending = FALSE
        BY <1>6, <2>3, <3>2 DEF Quiet, Calm, Ends, Typed, Flags
      <4>2. LastLevel \in Nat /\ LastLevel > 1
        BY FlowAssumption, StagesAssumption
      <4> QED
        BY <2>2, <3>2, <4>1, <4>2 DEF Starts
    <3>3. k.level = b.level => (Starts(b) => Starts(k))
      BY <2>2 DEF Starts
    <3>4. b.word # 3 => (Starts(b) => Starts(k))
      BY <2>2 DEF Starts
    <3> QED
      BY <2>2, <3>1, <3>2, <3>3, <3>4
  <2>8. start.word \in {2, 4, 6} => k.word \in {1, 2, 4, 6}
    BY <1>6, <2>2 DEF Brought
  <2> QED
    BY <2>2, <2>5, <2>6, <2>7, <2>8 DEF Nearer
<1> QED
  BY <1>7, <1>8

(* A frame that begins outside the levels and the attract mode.             *)
LEMMA NextFalls ==
    ASSUME QuietInv, Next, Outside(s)
    PROVE  Nearer(s, s')
<1>1. Good(s) /\ Runs(s) /\ Quiet(s, 0) /\ s.word # 1
  BY DEF QuietInv, ClockInv, IInv, Outside
<1>2. CASE Frame
  <2>1. PICK start : start \in Rearmed(s) /\ s' \in MainTick(start, FALSE)
    BY <1>2 DEF Frame
  <2>2. start = s
    BY <1>1, <2>1, RearmedQuiet
  <2> DEFINE k == s'
  <2>3. k \in MainTick(s, FALSE)
    BY <2>1, <2>2
  <2> HIDE DEF k
  <2>4. Nearer(s, k)
    BY <1>1, <2>3, TickFalls
  <2> QED
    BY <2>4 DEF k
<1>3. CASE CoinStartFrame
  <2>1. PICK start : start \in Rearmed(s) /\ ~start.manual
    BY <1>3 DEF CoinStartFrame
  <2>2. Attracts(start) /\ SteadyBut(s, start) /\ SameOwners(s, start)
    BY <2>1, StartQuiet
  <2>3. start.word = 1
    BY <1>3, <2>1, <2>2 DEF Attracts, SameOwners, CoinStartFrame, Outside
  <2> QED
    BY <1>1, <2>2, <2>3 DEF SteadyBut
<1> QED
  BY <1>2, <1>3 DEF Next

(* A frame that begins outside the levels and the attract mode either gets  *)
(* there or leaves fewer frames to go, whatever resets, demos, waits and    *)
(* score screens are in the way: nothing begins over and over.  A START     *)
(* gets to a level, and the end of a game to the attract mode.              *)
THEOREM FlowCountsDown ==
    Spec => [][Outside(s) => Nearer(s, s')]_vars
<1> DEFINE Step == Outside(s) => Nearer(s, s')
<1>1. QuietInv /\ [Next]_vars => [Step]_vars
  BY NextFalls
<1>2. Spec => [][Step]_vars
  <2> HIDE DEF Step
  <2> QED
    BY <1>1, InitQuiet, NextQuiet, PTL DEF Spec
<1> QED
  BY <1>2

(* An accepted START, or what a demo has made of it, comes nearer to a      *)
(* level: with n frames to go it comes to fewer, or to the level.           *)
THEOREM StartComesNearer ==
    ASSUME NEW n \in Nat
    PROVE  Spec /\ []FlowMayGoOn
           => ((Outside(s) /\ Starts(s) /\ Rank(s) = n)
                  ~> (s.word = 0 \/ (Outside(s) /\ Starts(s) /\ Rank(s) < n)))
<1> DEFINE At == Outside(s) /\ Starts(s) /\ Rank(s) = n
           Done == s.word = 0 \/ (Outside(s) /\ Starts(s) /\ Rank(s) < n)
           Out == s.word \in 2..6
<1>1. QuietInv /\ At /\ [Next]_vars => At' \/ Done'
  <2>1. CASE Next
    BY <2>1, NextFalls DEF Nearer, Starts
  <2>2. CASE UNCHANGED vars
    BY <2>2 DEF vars, Outside, Starts, Rank, Counted, Ahead
  <2> QED
    BY <2>1, <2>2
<1>2. QuietInv /\ At /\ <<Next>>_vars => Done'
  BY NextFalls DEF Nearer, Starts
<1>3. At => Out
  BY DEF Outside
<1> HIDE DEF At, Done, Out
<1>4. Spec /\ [](Out => ENABLED <<Next>>_vars) => (At ~> Done)
  BY <1>1, <1>2, <1>3, InitQuiet, NextQuiet, PTL DEF Spec
<1> QED
  BY <1>4 DEF At, Done, Out, FlowMayGoOn

(* The end of a game comes nearer to the attract mode in the same way.      *)
THEOREM GameOverComesNearer ==
    ASSUME NEW n \in Nat
    PROVE  Spec /\ []FlowMayGoOn
           => ((s.word \in {2, 4, 6} /\ ~s.cut /\ Rank(s) = n)
                  ~> (s.word = 1 \/ (s.word \in {2, 4, 6} /\ ~s.cut /\ Rank(s) < n)))
<1> DEFINE At == s.word \in {2, 4, 6} /\ ~s.cut /\ Rank(s) = n
           Done == s.word = 1 \/ (s.word \in {2, 4, 6} /\ ~s.cut /\ Rank(s) < n)
           Out == s.word \in 2..6
<1>0. QuietInv /\ At => Outside(s)
  BY DEF QuietInv, ClockInv, IInv, Good, Orderly, Fits, Outside
<1>1. QuietInv /\ At /\ [Next]_vars => At' \/ Done'
  <2>1. QuietInv /\ At /\ Next => Done'
    BY <1>0, NextFalls DEF Nearer, Outside
  <2>2. At /\ UNCHANGED vars => At'
    BY DEF vars
  <2> QED
    BY <2>1, <2>2
<1>2. QuietInv /\ At /\ <<Next>>_vars => Done'
  BY <1>0, NextFalls DEF Nearer, Outside
<1>3. At => Out
  OBVIOUS
<1> HIDE DEF At, Done, Out
<1>4. Spec /\ [](Out => ENABLED <<Next>>_vars) => (At ~> Done)
  BY <1>1, <1>2, <1>3, InitQuiet, NextQuiet, PTL DEF Spec
<1> QED
  BY <1>4 DEF At, Done, Out, FlowMayGoOn
=============================================================================
