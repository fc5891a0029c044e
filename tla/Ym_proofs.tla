------------------------------ MODULE Ym_proofs ------------------------------
(***************************************************************************)
(* Theorems about the timers of the YM2151 and the IRQ pin: what a timer    *)
(* counts, by induction over the ticks of its loop; that it implements the  *)
(* exact alarm clock; and, for any prescalers, load ranges, instruction     *)
(* lengths and delays, that the pin is right whatever the flags do.         *)
(***************************************************************************)
EXTENDS YmParts, WellFoundedInduction, TLAPS

(* Induction over the numbers, from the least counterexample.               *)
LEMMA LeastNumber ==
    ASSUME NEW S \in SUBSET Nat, S # {}
    PROVE  \E m \in S : \A n \in S : m <= n
<1> DEFINE Less == {p \in Nat \X Nat : p[1] < p[2]}
<1>1. \A n, m \in Nat : n < m => <<n, m>> \in Less
  OBVIOUS
<1>2. IsWellFoundedOn(Less, Nat)
  BY NatLessThanWellFounded DEF OpToRel
<1> HIDE DEF Less
<1>3. PICK least \in S : \A n \in S : <<n, least>> \notin Less
  BY <1>2, WFMin
<1>4. \A n \in S : n \in Nat /\ least \in Nat /\ ~(n < least)
  BY <1>1, <1>3
<1> QED
  BY <1>4

LEMMA LastNumber ==
    ASSUME NEW S \in SUBSET Nat, 0 \notin S,
           \A n \in Nat : n + 1 \in S => n \in S
    PROVE  S = {}
<1>1. SUFFICES ASSUME S # {} PROVE FALSE
  OBVIOUS
<1>2. PICK m \in S : \A n \in S : m <= n
  BY <1>1, LeastNumber
<1>3. m \in Nat /\ m # 0
  OBVIOUS
<1>4. m - 1 \in Nat /\ (m - 1) + 1 = m
  BY <1>3
<1> QED
  BY <1>2, <1>4

-----------------------------------------------------------------------------
(* The ticks of the prescaler.  f is the run of n of them from t.           *)
IsRun(f, t, l, n) ==
    f = [i \in 0 .. n |-> IF i = 0 THEN t ELSE CountDown(f[i - 1], l)]

LEMMA RunExists ==
    ASSUME NEW t, NEW l, NEW n \in Nat
    PROVE  \E f : IsRun(f, t, l, n)
<1> DEFINE S == {k \in Nat : ~\E f : IsRun(f, t, l, k)}
<1>1. 0 \notin S
  <2>1. IsRun([i \in 0 .. 0 |-> t], t, l, 0)
    BY DEF IsRun
  <2> QED
    BY <2>1
<1>2. ASSUME NEW k \in Nat, k \notin S PROVE k + 1 \notin S
  <2>1. PICK f : IsRun(f, t, l, k)
    BY <1>2
  <2> DEFINE g == [i \in 0 .. k + 1 |-> IF i <= k THEN f[i] ELSE CountDown(f[k], l)]
  <2>2. \A i \in 0 .. k : f[i] = IF i = 0 THEN t ELSE CountDown(f[i - 1], l)
    BY <2>1 DEF IsRun
  <2>3. ASSUME NEW i \in 0 .. k + 1
        PROVE  g[i] = IF i = 0 THEN t ELSE CountDown(g[i - 1], l)
    <3>1. CASE i = 0
      BY <2>2, <3>1
    <3>2. CASE i \in 1 .. k
      <4>1. i - 1 \in 0 .. k /\ i \in 0 .. k
        BY <3>2
      <4>2. g[i - 1] = f[i - 1] /\ g[i] = f[i]
        BY <4>1
      <4> QED
        BY <2>2, <3>2, <4>1, <4>2
    <3>3. CASE i = k + 1
      <4>1. g[k] = f[k]
        OBVIOUS
      <4> QED
        BY <3>3, <4>1
    <3> QED
      BY <3>1, <3>2, <3>3
  <2> HIDE DEF g
  <2>4. g = [i \in 0 .. k + 1 |-> g[i]]
    BY DEF g
  <2>5. IsRun(g, t, l, k + 1)
    BY <2>3, <2>4 DEF IsRun
  <2> QED
    BY <2>5
<1> HIDE DEF S
<1>3. S = {}
  <2>1. S \in SUBSET Nat
    BY DEF S
  <2> QED
    BY <1>1, <1>2, <2>1, LastNumber
<1> QED
  BY <1>3 DEF S

LEMMA TicksRun ==
    ASSUME NEW t, NEW l, NEW n \in Nat
    PROVE  \E f : IsRun(f, t, l, n) /\ Ticks(t, l, n) = f[n]
<1> DEFINE f == CHOOSE f : IsRun(f, t, l, n)
<1>1. IsRun(f, t, l, n)
  BY RunExists
<1>2. Ticks(t, l, n) = f[n]
  BY DEF Ticks, IsRun
<1> QED
  BY <1>1, <1>2

LEMMA RunStep ==
    ASSUME NEW t, NEW l, NEW n \in Nat, NEW f, IsRun(f, t, l, n)
    PROVE  f[0] = t /\ \A i \in 0 .. n - 1 : f[i + 1] = CountDown(f[i], l)
<1>1. \A i \in 0 .. n : f[i] = IF i = 0 THEN t ELSE CountDown(f[i - 1], l)
  BY DEF IsRun
<1>2. f[0] = t
  BY <1>1
<1>3. ASSUME NEW i \in 0 .. n - 1 PROVE f[i + 1] = CountDown(f[i], l)
  <2>1. i + 1 \in 0 .. n /\ i + 1 # 0 /\ (i + 1) - 1 = i
    OBVIOUS
  <2> QED
    BY <1>1, <2>1
<1> QED
  BY <1>2, <1>3

LEMMA CountDownTyped ==
    ASSUME NEW t \in TimerType, NEW l \in Nat
    PROVE  CountDown(t, l) \in TimerType
<1>1. CASE t.counter - 1 > 0
  <2>1. t.counter - 1 \in Nat /\ CountDown(t, l) = [t EXCEPT !.counter = t.counter - 1]
    BY <1>1 DEF CountDown, TimerType
  <2> QED
    BY <2>1 DEF TimerType
<1>2. CASE ~(t.counter - 1 > 0)
  <2>1. CountDown(t, l) = [t EXCEPT !.counter = l, !.overflow = t.overflow \/ t.gate]
    BY <1>2 DEF CountDown
  <2>2. (t.overflow \/ t.gate) \in BOOLEAN
    OBVIOUS
  <2> QED
    BY <2>1, <2>2 DEF TimerType
<1> QED
  BY <1>1, <1>2

LEMMA TicksTyped ==
    ASSUME NEW t \in TimerType, NEW l \in Nat, NEW n \in Nat
    PROVE  Ticks(t, l, n) \in TimerType
<1>1. PICK f : IsRun(f, t, l, n) /\ Ticks(t, l, n) = f[n]
  BY TicksRun
<1>2. f[0] = t /\ \A i \in 0 .. n - 1 : f[i + 1] = CountDown(f[i], l)
  BY <1>1, RunStep
<1> DEFINE S == {i \in 0 .. n : f[i] \notin TimerType}
<1>3. S \in SUBSET Nat /\ 0 \notin S
  BY <1>2
<1>4. ASSUME NEW i \in Nat, i + 1 \in S PROVE i \in S
  <2>1. i \in 0 .. n - 1 /\ i \in 0 .. n
    BY <1>4
  <2>2. f[i] \in TimerType => f[i + 1] \in TimerType
    BY <1>2, <2>1, CountDownTyped
  <2> QED
    BY <1>4, <2>1, <2>2
<1> HIDE DEF S
<1>5. S = {}
  BY <1>3, <1>4, LastNumber
<1> QED
  BY <1>1, <1>5 DEF S

LEMMA TickTyped ==
    ASSUME NEW t \in TimerType, NEW l \in Nat, NEW p \in Nat \ {0}, NEW d \in Nat
    PROVE  tickCycles(t, l, p, d) \in TimerType
<1>1. (t.acc + d) \div p \in Nat /\ (t.acc + d) % p \in Nat
  BY DEF TimerType
<1>2. Ticks(t, l, (t.acc + d) \div p) \in TimerType
  BY <1>1, TicksTyped
<1> QED
  BY <1>1, <1>2 DEF tickCycles, TimerType

(* What n ticks leave: the counter has come n nearer to its end, or has     *)
(* started again from the load value q times after it, and the flag is      *)
(* raised behind an open gate.                                              *)
Counted(t, l, n, u) ==
    /\ u \in TimerType
    /\ u.active = t.active /\ u.acc = t.acc /\ u.gate = t.gate
    /\ \/ n < t.counter /\ u.counter = t.counter - n /\ u.overflow = t.overflow
       \/ /\ n >= t.counter /\ u.counter \in 1 .. l
          /\ \E q \in Nat : n - t.counter = q * l + (l - u.counter)
          /\ u.overflow = (t.overflow \/ t.gate)

LEMMA CountedOne ==
    ASSUME NEW t \in TimerType, t.counter \in Nat \ {0}, NEW l \in Nat \ {0},
           NEW n \in Nat, NEW u, Counted(t, l, n, u)
    PROVE  Counted(t, l, n + 1, CountDown(u, l))
<1> DEFINE v == CountDown(u, l)
<1>1. u \in TimerType /\ u.counter \in Nat \ {0}
  BY DEF Counted, TimerType
<1>2. v \in TimerType
  BY <1>1, CountDownTyped
<1>3. v.active = t.active /\ v.acc = t.acc /\ v.gate = t.gate
  BY <1>1 DEF Counted, CountDown, TimerType
<1>4. CASE u.counter > 1
  <2>1. v.counter = u.counter - 1 /\ v.overflow = u.overflow
    BY <1>1, <1>4 DEF CountDown, TimerType
  <2>2. CASE n < t.counter /\ u.counter = t.counter - n /\ u.overflow = t.overflow
    BY <1>2, <1>3, <1>4, <2>1, <2>2 DEF Counted
  <2>3. CASE n >= t.counter
    <3>1. PICK q \in Nat : n - t.counter = q * l + (l - u.counter)
      BY <2>3 DEF Counted
    <3>2. u.counter \in 1 .. l /\ u.overflow = (t.overflow \/ t.gate)
      BY <2>3 DEF Counted
    <3>3. q * l \in Nat
      OBVIOUS
    <3>4. (n + 1) - t.counter = q * l + (l - v.counter)
      BY <1>1, <2>1, <3>1, <3>2, <3>3
    <3>5. v.counter \in 1 .. l /\ n + 1 >= t.counter
      BY <1>4, <2>1, <2>3, <3>2
    <3>6. Counted(t, l, n + 1, v)
      <4> HIDE DEF v
      <4> QED
        BY <1>2, <1>3, <2>1, <2>3, <3>2, <3>4, <3>5 DEF Counted
    <3> QED
      BY <3>6
  <2>4. \/ n < t.counter /\ u.counter = t.counter - n /\ u.overflow = t.overflow
        \/ n >= t.counter
    BY DEF Counted
  <2> QED
    BY <2>2, <2>3, <2>4
<1>5. CASE u.counter = 1
  <2>1. v.counter = l /\ v.overflow = (u.overflow \/ u.gate)
    BY <1>1, <1>5 DEF CountDown, TimerType
  <2>2. v.overflow = (t.overflow \/ t.gate)
    BY <1>1, <2>1 DEF Counted, TimerType
  <2>3. \E q \in Nat : (n + 1) - t.counter = q * l + (l - v.counter)
    <3>1. CASE n < t.counter
      <4>1. (n + 1) - t.counter = 0 * l + (l - v.counter)
        BY <1>5, <2>1, <3>1 DEF Counted
      <4> QED
        BY <4>1
    <3>2. CASE n >= t.counter
      <4>1. PICK q \in Nat : n - t.counter = q * l + (l - u.counter)
        BY <3>2 DEF Counted
      <4>2. (q + 1) * l = q * l + l /\ q * l \in Nat /\ q + 1 \in Nat
        OBVIOUS
      <4> HIDE DEF v
      <4>3. (n + 1) - t.counter = (q + 1) * l + (l - v.counter)
        <5> DEFINE ql == q * l
               r == (q + 1) * l
        <5>1. ql \in Nat /\ r = ql + l /\ n - t.counter = ql + (l - 1)
          BY <1>5, <4>1, <4>2
        <5> HIDE DEF ql, r
        <5>2. (n + 1) - t.counter = r + (l - v.counter)
          BY <2>1, <5>1
        <5> QED
          BY <5>2 DEF r
      <4> QED
        BY <4>2, <4>3
    <3> QED
      BY <3>1, <3>2
  <2>4. n + 1 >= t.counter
    BY <1>5 DEF Counted
  <2>5. v.counter \in 1 .. l
    BY <2>1
  <2>6. Counted(t, l, n + 1, v)
    <3> HIDE DEF v
    <3> QED
      BY <1>2, <1>3, <2>2, <2>3, <2>4, <2>5 DEF Counted
  <2> QED
    BY <2>6
<1> QED
  BY <1>1, <1>4, <1>5

(* The loop of ym2151TickCycles, by induction over its iterations: after n  *)
(* ticks a running timer has counted exactly n, the reloads included.       *)
THEOREM TicksCount ==
    ASSUME NEW t \in TimerType, t.counter \in Nat \ {0}, NEW l \in Nat \ {0}, NEW n \in Nat
    PROVE  Counted(t, l, n, Ticks(t, l, n))
<1>1. PICK f : IsRun(f, t, l, n) /\ Ticks(t, l, n) = f[n]
  BY TicksRun
<1>2. f[0] = t /\ \A i \in 0 .. n - 1 : f[i + 1] = CountDown(f[i], l)
  BY <1>1, RunStep
<1> DEFINE S == {i \in 0 .. n : ~Counted(t, l, i, f[i])}
<1>3. S \in SUBSET Nat /\ 0 \notin S
  <2>1. Counted(t, l, 0, t)
    BY DEF Counted, TimerType
  <2> QED
    BY <1>2, <2>1
<1>4. ASSUME NEW i \in Nat, i + 1 \in S PROVE i \in S
  <2>1. i \in 0 .. n - 1 /\ i \in 0 .. n
    BY <1>4
  <2>2. Counted(t, l, i, f[i]) => Counted(t, l, i + 1, f[i + 1])
    BY <1>2, <2>1, CountedOne
  <2> QED
    BY <1>4, <2>1, <2>2
<1> HIDE DEF S
<1>5. S = {}
  BY <1>3, <1>4, LastNumber
<1> QED
  BY <1>1, <1>5 DEF S

LEMMA Remainder ==
    ASSUME NEW m \in Nat \ {0}, NEW q \in Nat, NEW r \in 0 .. m - 1
    PROVE  (q * m + r) % m = r
<1>1. /\ (q * m + r) = m * ((q * m + r) \div m) + ((q * m + r) % m)
      /\ (q * m + r) % m \in 0 .. m - 1
      /\ (q * m + r) \div m \in Int
  OBVIOUS
<1> DEFINE a == q * m + r
           s == a % m
           e == a \div m
<1>2. m * (e - q) = r - s
  BY <1>1
<1>3. e = q
  <2>1. ASSUME e >= q + 1 PROVE FALSE
    <3>1. m * (e - q) >= m
      BY <1>1, <2>1
    <3> QED BY <1>1, <1>2, <3>1
  <2>2. ASSUME e <= q - 1 PROVE FALSE
    <3>1. m * (e - q) <= -m
      BY <1>1, <2>2
    <3> QED BY <1>1, <1>2, <3>1
  <2> QED BY <1>1, <2>1, <2>2
<1> QED BY <1>2, <1>3

(* A period cut into pieces: what the prescaler has accumulated and what    *)
(* the counter c has left add up to the time to the alarm, which an elapsed *)
(* time d of n ticks and r cycles passes or not.                            *)
CutsPeriod(p, l, a, c, d, n, r) ==
    /\ d < c * p - a <=> n < c
    /\ n < c => (c * p - a) - d = (c - n) * p - r
    /\ \A q \in Nat, k \in 1 .. l :
          n >= c /\ n - c = q * l + (l - k)
            => (d - (c * p - a)) % (l * p) = l * p - (k * p - r)

LEMMA WholePeriods ==
    ASSUME NEW p \in Nat \ {0}, NEW l \in Nat \ {0}, NEW a \in Nat, NEW c \in Nat \ {0},
           NEW d \in Nat, NEW n \in Nat, NEW r \in 0 .. p - 1, a + d = n * p + r
    PROVE  CutsPeriod(p, l, a, c, d, n, r)
<1>1. (c - n) * p = c * p - n * p
  OBVIOUS
<1>2. d < c * p - a <=> r < (c - n) * p
  <2> DEFINE cp == c * p
             np == n * p
  <2>1. cp \in Int /\ np \in Int
    OBVIOUS
  <2> HIDE DEF cp, np
  <2>2. d < cp - a <=> r < cp - np
    BY <2>1 DEF cp, np
  <2> QED
    BY <1>1, <2>2 DEF cp, np
<1>3. n < c => (c - n) * p >= p
  OBVIOUS
<1>4. n >= c => (c - n) * p <= 0
  OBVIOUS
<1>5. (c * p - a) - d = (c - n) * p - r
  <2> DEFINE cp == c * p
             np == n * p
  <2>1. cp \in Int /\ np \in Int
    OBVIOUS
  <2> HIDE DEF cp, np
  <2>2. (cp - a) - d = (cp - np) - r
    BY <2>1 DEF cp, np
  <2> QED
    BY <1>1, <2>2 DEF cp, np
<1>6. ASSUME NEW q \in Nat, NEW k \in 1 .. l, n >= c, n - c = q * l + (l - k)
      PROVE  (d - (c * p - a)) % (l * p) = l * p - (k * p - r)
  <2> DEFINE m == l * p
             s == (l - k) * p + r
  <2>1. (n - c) * p = q * m + (l - k) * p
    BY <1>6
  <2>2. d - (c * p - a) = (n - c) * p + r
    <3>1. (n - c) * p = -((c - n) * p) /\ (c - n) * p \in Int /\ c * p \in Int
      OBVIOUS
    <3> QED
      BY <1>5, <3>1
  <2>3. d - (c * p - a) = q * m + s
    BY <2>1, <2>2
  <2>4. (l - k) * p = l * p - k * p
    OBVIOUS
  <2>5. (l - k) * p >= 0 /\ l * p >= p /\ k * p >= p
    OBVIOUS
  <2>6. m \in Nat \ {0} /\ s \in 0 .. m - 1
    BY <2>4, <2>5
  <2> HIDE DEF m, s
  <2>7. (q * m + s) % m = s
    BY <2>6, Remainder
  <2>8. s = m - (k * p - r)
    <3>1. l * p \in Int /\ k * p \in Int
      OBVIOUS
    <3> QED
      BY <2>4, <3>1 DEF s, m
  <2> QED
    BY <2>3, <2>7, <2>8 DEF m
<1> QED
  BY <1>2, <1>3, <1>4, <1>5, <1>6 DEF CutsPeriod

-----------------------------------------------------------------------------
(* The alarm clock.                                                         *)

ClockInv ==
    /\ timer \in TimerType /\ load \in 1 .. ClockMaxLoad
    /\ timer.active => timer.counter >= 1 /\ timer.acc < ClockPrescale

LEMMA ControlTyped ==
    ASSUME NEW t \in TimerType, NEW l \in Nat, NEW c \in Controls
    PROVE  LET u == writeControl(t, l, c) IN
             /\ u \in TimerType
             /\ u.active = c.load /\ u.gate = c.enable /\ u.overflow = (t.overflow /\ ~c.reset)
             /\ c.load /\ ~t.active => u.counter = l /\ u.acc = 0
             /\ c.load /\ t.active => u.counter = t.counter /\ u.acc = t.acc
<1> DEFINE u == writeControl(t, l, c)
<1> DEFINE o == t.overflow /\ ~c.reset
<1> DEFINE g == [t EXCEPT !.overflow = o, !.gate = c.enable]
<1>1. /\ c.load \in BOOLEAN /\ c.enable \in BOOLEAN /\ c.reset \in BOOLEAN
      /\ t.active \in BOOLEAN /\ o \in BOOLEAN
  BY DEF Controls, TimerType
<1>2. u = IF c.load THEN Arm(g, l) ELSE Disarm(g)
  BY DEF writeControl
<1> HIDE DEF o
<1>3. /\ g \in TimerType /\ g.active = t.active /\ g.counter = t.counter /\ g.acc = t.acc
      /\ g.gate = c.enable /\ g.overflow = o
  BY <1>1 DEF TimerType
<1> HIDE DEF g
<1>4. CASE c.load /\ t.active
  <2>1. u = g
    BY <1>2, <1>3, <1>4 DEF Arm
  <2> QED
    BY <1>1, <1>3, <1>4, <2>1 DEF o
<1>5. CASE c.load /\ ~t.active
  <2>1. u = [g EXCEPT !.counter = l, !.acc = 0, !.active = TRUE]
    BY <1>2, <1>3, <1>5 DEF Arm
  <2>2. /\ u \in TimerType /\ u.active = TRUE /\ u.counter = l /\ u.acc = 0
        /\ u.gate = c.enable /\ u.overflow = o
    <3> HIDE DEF u
    <3> QED
      BY <1>1, <1>3, <2>1 DEF TimerType
  <2> QED
    BY <1>1, <1>5, <2>2 DEF o
<1>6. CASE ~c.load
  <2>1. u = [g EXCEPT !.active = FALSE, !.acc = 0]
    BY <1>2, <1>6 DEF Disarm
  <2>2. u \in TimerType /\ u.active = FALSE /\ u.gate = c.enable /\ u.overflow = o
    <3> HIDE DEF u
    <3> QED
      BY <1>1, <1>3, <2>1 DEF TimerType
  <2> QED
    BY <1>1, <1>6, <2>2 DEF o
<1> QED
  BY <1>1, <1>4, <1>5, <1>6

LEMMA ClockInit == Clock!Init => ClockInv
  BY ClockAssumption DEF Clock!Init, ClockInv, Clock!StoppedTimer, TimerType

LEMMA ClockOperators ==
    ASSUME NEW t, NEW l, NEW p, NEW d, NEW c
    PROVE  /\ Clock!tickCycles(t, l, p, d) = tickCycles(t, l, p, d)
           /\ Clock!writeControl(t, l, c) = writeControl(t, l, c)
  BY DEF Clock!tickCycles, tickCycles, Clock!Ticks, Ticks, Clock!CountDown, CountDown,
         Clock!writeControl, writeControl, Clock!Arm, Arm, Clock!Disarm, Disarm

LEMMA ElapseTicks ==
    ASSUME NEW t \in TimerType, t.active, t.counter >= 1, NEW l \in Nat \ {0},
           NEW p \in Nat \ {0}, NEW d \in Nat
    PROVE  \E n \in Nat, r \in 0 .. p - 1 :
             /\ t.acc + d = n * p + r
             /\ LET u == tickCycles(t, l, p, d) IN
                  /\ u.acc = r
                  /\ Counted(t, l, n, [u EXCEPT !.acc = t.acc])
                  /\ u \in TimerType
<1> DEFINE n == (t.acc + d) \div p
           r == (t.acc + d) % p
           k == Ticks(t, l, n)
           u == tickCycles(t, l, p, d)
<1>1. t.acc + d \in Nat /\ t.counter \in Nat \ {0}
  BY DEF TimerType
<1>2. n \in Nat /\ r \in 0 .. p - 1 /\ t.acc + d = n * p + r
  BY <1>1
<1>3. u = [k EXCEPT !.acc = r]
  BY DEF tickCycles
<1> HIDE DEF n, r, u
<1>4. Counted(t, l, n, k)
  BY <1>1, <1>2, TicksCount
<1>5. u \in TimerType /\ u.acc = r /\ [u EXCEPT !.acc = t.acc] = k
  <2>1. k \in TimerType /\ k.acc = t.acc /\ r \in Nat
    BY <1>2, <1>4 DEF Counted
  <2> HIDE DEF k
  <2>2. u \in TimerType /\ u.acc = r
    BY <1>3, <2>1 DEF TimerType
  <2>3. [u EXCEPT !.acc = t.acc] = k
    BY <1>3, <2>1 DEF TimerType
  <2> QED
    BY <2>2, <2>3
<1>6. Counted(t, l, n, [u EXCEPT !.acc = t.acc])
  BY <1>4, <1>5
<1> QED
  BY <1>2, <1>5, <1>6 DEF u

LEMMA ElapseKeeps ==
    ASSUME ClockInv, NEW d \in Slices, Clock!Elapse(d)
    PROVE  ClockInv'
<1>1. /\ timer' = tickCycles(timer, load, ClockPrescale, d) /\ load' = load
      /\ timer \in TimerType /\ load \in Nat \ {0} /\ d \in Nat /\ ClockPrescale \in Nat \ {0}
  BY ClockAssumption, ClockOperators DEF Clock!Elapse, ClockInv
<1>2. CASE ~timer.active
  BY <1>1, <1>2 DEF tickCycles, ClockInv
<1>3. CASE timer.active
  <2>1. timer.counter >= 1
    BY <1>3 DEF ClockInv
  <2>2. PICK n \in Nat, r \in 0 .. ClockPrescale - 1 :
           /\ timer'.acc = r /\ timer' \in TimerType
           /\ Counted(timer, load, n, [timer' EXCEPT !.acc = timer.acc])
    BY <1>1, <1>3, <2>1, ElapseTicks
  <2>3. timer'.counter >= 1
    BY <1>1, <2>2 DEF Counted, TimerType
  <2> QED
    BY <1>1, <2>2, <2>3 DEF ClockInv
<1> QED
  BY <1>2, <1>3

LEMMA ClockStep == ClockInv /\ [Clock!Next]_(Clock!vars) => ClockInv'
<1> SUFFICES ASSUME ClockInv, [Clock!Next]_(Clock!vars) PROVE ClockInv'
  OBVIOUS
<1>1. ASSUME NEW n \in Clock!Loads, Clock!WriteLoad(n) PROVE ClockInv'
  BY <1>1 DEF Clock!WriteLoad, Clock!Loads, ClockInv
<1>2. ASSUME NEW c \in Clock!Controls, Clock!WriteControl(c) PROVE ClockInv'
  <2>1. timer' = writeControl(timer, load, c) /\ load' = load /\ c \in Controls /\ load \in Nat
    BY <1>2, ClockOperators DEF Clock!WriteControl, Clock!Controls, Controls, ClockInv
  <2> QED
    BY <2>1, ControlTyped, ClockAssumption DEF ClockInv, Controls
<1>3. CASE UNCHANGED Clock!vars
  BY <1>3 DEF Clock!vars, ClockInv
<1> QED
  BY <1>1, <1>2, <1>3, ElapseKeeps DEF Clock!Next

LEMMA ClockInductive == Clock!Spec => []ClockInv
  BY ClockInit, ClockStep, PTL DEF Clock!Spec

LEMMA LeftOf ==
    ASSUME ClockInv
    PROVE  /\ timer.active => Clock!Left = timer.counter * ClockPrescale - timer.acc /\ Clock!Left >= 1
           /\ ~timer.active => Clock!Left = 0
           /\ Clock!Left \in Nat
<1>1. /\ ClockPrescale \in Nat \ {0} /\ timer.counter \in Nat /\ timer.acc \in Nat
      /\ timer.active \in BOOLEAN
  BY ClockAssumption DEF ClockInv, TimerType
<1>2. CASE timer.active
  <2>1. timer.counter >= 1 /\ timer.acc < ClockPrescale
    BY <1>2 DEF ClockInv
  <2>2. timer.counter * ClockPrescale >= ClockPrescale /\ timer.counter * ClockPrescale \in Nat
    BY <1>1, <2>1
  <2> QED
    BY <1>1, <1>2, <2>1, <2>2 DEF Clock!Left
<1>3. CASE ~timer.active
  BY <1>3 DEF Clock!Left
<1> QED
  BY <1>1, <1>2, <1>3

LEMMA ElapseImplements ==
    ASSUME ClockInv, ClockInv', NEW d \in Slices, Clock!Elapse(d)
    PROVE  Clock!Alarm!Sleep(d) \/ Clock!Alarm!Ring(d)
<1>1. /\ timer' = tickCycles(timer, load, ClockPrescale, d) /\ load' = load
      /\ timer \in TimerType /\ load \in Nat \ {0} /\ d \in Nat /\ ClockPrescale \in Nat \ {0}
  BY ClockAssumption, ClockOperators DEF Clock!Elapse, ClockInv
<1>2. CASE ~timer.active
  <2>1. timer' = timer
    BY <1>1, <1>2 DEF tickCycles
  <2>2. Clock!Left = 0 /\ Clock!Left' = 0
    BY <1>2, <2>1 DEF Clock!Left
  <2> QED
    BY <1>1, <2>1, <2>2 DEF Clock!Alarm!Sleep
<1>3. CASE timer.active
  <2> DEFINE P == ClockPrescale
  <2>1. timer.counter \in Nat \ {0} /\ timer.acc \in Nat
    BY <1>3 DEF ClockInv, TimerType
  <2>2. PICK n \in Nat, r \in 0 .. ClockPrescale - 1 :
           /\ timer.acc + d = n * ClockPrescale + r
           /\ timer'.acc = r /\ timer' \in TimerType
           /\ Counted(timer, load, n, [timer' EXCEPT !.acc = timer.acc])
    BY <1>1, <1>3, <2>1, ElapseTicks
  <2>3. /\ timer'.active /\ timer'.gate = timer.gate
        /\ \/ n < timer.counter /\ timer'.counter = timer.counter - n /\ timer'.overflow = timer.overflow
           \/ /\ n >= timer.counter /\ timer'.counter \in 1 .. load
              /\ \E q \in Nat : n - timer.counter = q * load + (load - timer'.counter)
              /\ timer'.overflow = (timer.overflow \/ timer.gate)
    BY <1>3, <2>2 DEF Counted, TimerType
  <2>4. /\ Clock!Left = timer.counter * P - timer.acc /\ Clock!Left >= 1
        /\ Clock!Left' = timer'.counter * P - r
    BY <1>3, <2>2, <2>3, LeftOf DEF Clock!Left
  <2>5. /\ d < Clock!Left <=> n < timer.counter
        /\ n < timer.counter => Clock!Left - d = (timer.counter - n) * P - r
        /\ \A q \in Nat, k \in 1 .. load :
              n >= timer.counter /\ n - timer.counter = q * load + (load - k)
                => (d - Clock!Left) % (load * P) = load * P - (k * P - r)
    <3> DEFINE a == timer.acc
               c == timer.counter
    <3>1. P \in Nat \ {0} /\ load \in Nat \ {0} /\ a \in Nat /\ c \in Nat \ {0} /\ d \in Nat
      BY <1>1, <2>1
    <3>2. a + d = n * P + r /\ Clock!Left = c * P - a /\ n \in Nat /\ r \in 0 .. P - 1
      BY <2>2, <2>4
    <3> HIDE DEF P, a, c
    <3>3. CutsPeriod(P, load, a, c, d, n, r)
      BY <3>1, <3>2, WholePeriods
    <3> QED
      BY <3>2, <3>3 DEF P, a, c, CutsPeriod
  <2>6. CASE n < timer.counter
    <3>1. Clock!Left' = Clock!Left - d /\ d < Clock!Left /\ timer'.overflow = timer.overflow
      BY <2>1, <2>3, <2>4, <2>5, <2>6
    <3> QED
      BY <1>1, <2>3, <2>4, <3>1 DEF Clock!Alarm!Sleep
  <2>7. CASE ~(n < timer.counter)
    <3>1. (d - Clock!Left) % (load * P) = load * P - Clock!Left'
      BY <2>3, <2>4, <2>5, <2>7
    <3>2. load * P \in Int /\ Clock!Left' \in Int /\ Clock!Left \in Int
      BY <1>1, <2>1, <2>2, <2>3, <2>4
    <3>3. Clock!Left' = load * P - ((d - Clock!Left) % (load * P))
      BY <3>1, <3>2
    <3>4. d >= Clock!Left /\ Clock!Left # 0 /\ timer'.overflow = (timer.overflow \/ timer.gate)
      BY <1>1, <2>1, <2>3, <2>4, <2>5, <2>7, <3>2
    <3> QED
      BY <1>1, <2>3, <3>3, <3>4 DEF Clock!Alarm!Ring
  <2> QED
    BY <2>6, <2>7
<1> QED
  BY <1>2, <1>3

LEMMA ControlImplements ==
    ASSUME ClockInv, NEW c \in Clock!Controls, Clock!WriteControl(c)
    PROVE  \E run, enable, clear \in BOOLEAN : Clock!Alarm!Control(run, enable, clear)
<1>1. timer' = writeControl(timer, load, c) /\ load' = load /\ c \in Controls /\ load \in Nat
  BY ClockOperators DEF Clock!WriteControl, Clock!Controls, Controls, ClockInv
<1>2. /\ timer'.active = c.load /\ timer'.gate = c.enable
      /\ timer'.overflow = (timer.overflow /\ ~c.reset)
      /\ c.load /\ ~timer.active => timer'.counter = load /\ timer'.acc = 0
      /\ c.load /\ timer.active => timer'.counter = timer.counter /\ timer'.acc = timer.acc
  BY <1>1, ControlTyped DEF ClockInv
<1>3. c.load \in BOOLEAN /\ c.enable \in BOOLEAN /\ c.reset \in BOOLEAN
  BY <1>1 DEF Controls
<1>4. Clock!Left' = IF ~c.load THEN 0 ELSE IF Clock!Left = 0 THEN load * ClockPrescale ELSE Clock!Left
  <2>1. CASE ~c.load
    BY <1>2, <2>1 DEF Clock!Left
  <2>2. CASE c.load /\ timer.active
    BY <1>2, <2>2, LeftOf DEF Clock!Left
  <2>3. CASE c.load /\ ~timer.active
    <3>1. Clock!Left' = load * ClockPrescale - 0
      BY <1>2, <2>3 DEF Clock!Left
    <3>2. load * ClockPrescale \in Nat
      BY <1>1, ClockAssumption
    <3> QED
      BY <2>3, <3>1, <3>2, LeftOf
  <2> QED
    BY <1>3, <2>1, <2>2, <2>3
<1>5. Clock!Alarm!Control(c.load, c.enable, c.reset)
  BY <1>1, <1>2, <1>4 DEF Clock!Alarm!Control
<1> QED
  BY <1>3, <1>5

LEMMA LoadImplements ==
    ASSUME ClockInv, NEW n \in Clock!Loads, Clock!WriteLoad(n)
    PROVE  Clock!Alarm!SetPeriod(n * ClockPrescale)
<1>1. load' = n /\ timer' = timer
  BY DEF Clock!WriteLoad
<1>2. Clock!Left' = Clock!Left
  BY <1>1 DEF Clock!Left
<1> QED
  BY <1>1, <1>2 DEF Clock!Alarm!SetPeriod

(* A timer of the YM2151 (ym2151TickCycles, ym2151WriteData) implements the *)
(* exact alarm clock, for every prescaler, every range of load values and   *)
(* however the instructions cut the time: no cycle is gained or lost over   *)
(* the prescaler's remainder, a rewritten control register leaves the count *)
(* alone and a new load value counts from the next overflow.                *)
THEOREM TimerImplementsAlarm == Clock!Spec => TimerIsAlarm
<1>2. Clock!Init => Clock!Alarm!Init
  <2> SUFFICES ASSUME Clock!Init PROVE Clock!Alarm!Init
    OBVIOUS
  <2>1. timer = Clock!StoppedTimer /\ load = ClockMaxLoad /\ ClockMaxLoad \in Clock!Loads
    BY ClockAssumption DEF Clock!Init, Clock!Loads
  <2>2. Clock!Left = 0 /\ timer.gate = FALSE /\ timer.overflow = FALSE
    BY <2>1 DEF Clock!Left, Clock!StoppedTimer
  <2> QED
    BY <2>1, <2>2 DEF Clock!Alarm!Init
<1>3. ClockInv /\ ClockInv' /\ [Clock!Next]_(Clock!vars) => [Clock!AlarmNext]_(Clock!vars)
  <2> SUFFICES ASSUME ClockInv, ClockInv', Clock!Next PROVE Clock!AlarmNext
    OBVIOUS
  <2>1. ASSUME NEW n \in Clock!Loads, Clock!WriteLoad(n) PROVE Clock!AlarmNext
    BY <2>1, LoadImplements DEF Clock!AlarmNext
  <2>2. ASSUME NEW c \in Clock!Controls, Clock!WriteControl(c) PROVE Clock!AlarmNext
    BY <2>2, ControlImplements DEF Clock!AlarmNext
  <2>3. ASSUME NEW d \in Slices, Clock!Elapse(d) PROVE Clock!AlarmNext
    BY <2>3, ElapseImplements DEF Clock!AlarmNext
  <2> QED
    BY <2>1, <2>2, <2>3 DEF Clock!Next
<1> QED
  BY <1>2, <1>3, ClockInductive, PTL DEF Clock!Spec, TimerIsAlarm, Clock!TimerIsAlarm

-----------------------------------------------------------------------------
(* The pin.                                                                *)


(* The delays under way are within their bounds and exclude each other.    *)
Shape(l) ==
    /\ AssertDelay \in Nat /\ InstrDelay \in Nat
    /\ l \in LineType
    /\ l.instrIn <= InstrDelay + 1 /\ l.assertIn <= AssertDelay
    /\ l.assertIn # None => l.assertIn >= 1 /\ l.instrIn <= 0 /\ l.synced
    /\ l.irq => l.instrIn <= 0 /\ l.synced

(* The IRQ is up, or what is left of the first delay, or of the second,    *)
(* runs out in time for a pin that has been high for n instructions, m of  *)
(* which have ticked the chips.                                            *)
Within(l, n, m) ==
    /\ l.synced
    /\ \/ l.irq
       \/ l.instrIn > 0 /\ l.instrIn + n <= InstrDelay + 1
       \/ /\ l.instrIn <= 0 /\ l.assertIn # None
          /\ l.assertIn + m <= InstrDelay + AssertDelay + 1

LEMMA DelayValues ==
    ASSUME NEW l \in LineType
    PROVE  /\ l.irq \in BOOLEAN /\ l.synced \in BOOLEAN
           /\ l.assertIn \in Int /\ l.instrIn \in Int
           /\ l.assertIn >= None /\ l.instrIn >= None
  BY DEF LineType, None

LEMMA DiagValues == diag \in Diags => AssertDelay \in Nat /\ InstrDelay \in Nat
  BY IrqAssumption DEF AssertDelay, InstrDelay

LEMMA ShapeLow == AssertDelay \in Nat /\ InstrDelay \in Nat => Shape(LowLine)
  BY DEF Shape, LowLine, LineType, None

LEMMA ShapeDropped ==
    ASSUME NEW l, Shape(l), NEW k, k = [l EXCEPT !.irq = FALSE, !.assertIn = None]
    PROVE  Shape(k) /\ ~k.irq
<1>1. l \in LineType /\ None \in Nat \cup {None} /\ None <= AssertDelay
  BY DEF Shape, None
<1>2. /\ k \in LineType /\ k.irq = FALSE /\ k.assertIn = None
      /\ k.synced = l.synced /\ k.instrIn = l.instrIn
  BY <1>1 DEF LineType
<1> QED
  BY <1>1, <1>2 DEF Shape

-----------------------------------------------------------------------------
(* The operations on the line.                                             *)

LEMMA NewlySyncedShape ==
    ASSUME NEW l, Shape(l)
    PROVE  /\ Shape(NewlySynced(l)) /\ NewlySynced(l).synced
           /\ l.synced => NewlySynced(l) = l
<1> DEFINE i == IF ~l.synced /\ InstrDelay > 0 THEN InstrDelay + 1 ELSE l.instrIn
<1> DEFINE k == NewlySynced(l)
<1>0. l \in LineType /\ i \in Nat \cup {None}
  BY DEF Shape, LineType
<1>a. k = [l EXCEPT !.synced = TRUE, !.instrIn = i]
  BY DEF NewlySynced
<1>1. /\ k \in LineType /\ k.synced = TRUE /\ k.instrIn = i
      /\ k.irq = l.irq /\ k.assertIn = l.assertIn
  <2> HIDE DEF k, i
  <2> QED
    BY <1>0, <1>a DEF LineType
<1>2. Shape(k)
  <2>1. l.synced = TRUE \/ l.synced = FALSE
    BY <1>0, DelayValues
  <2>2. i <= InstrDelay + 1
    BY DEF Shape
  <2> QED
    BY <1>1, <2>1, <2>2 DEF Shape
<1>3. ASSUME l.synced PROVE k = l
  BY <1>3 DEF NewlySynced, Shape, LineType
<1> HIDE DEF i
<1> QED
  BY <1>1, <1>2, <1>3

LEMMA RaiseShape ==
    ASSUME NEW l, Shape(l), l.synced
    PROVE  /\ Shape(Raise(l)) /\ Within(Raise(l), 0, 1)
           /\ \A n, m \in Nat : Within(l, n, m) => Within(Raise(l), n, m)
<1>0. /\ l.irq \in BOOLEAN /\ l.synced \in BOOLEAN
      /\ l.assertIn \in Int /\ l.instrIn \in Int
      /\ l.assertIn >= None /\ l.instrIn >= None
  BY DelayValues DEF Shape
<1>1. CASE l.instrIn > 0
  <2>1. /\ Raise(l) \in LineType /\ Raise(l).irq = l.irq /\ Raise(l).synced = l.synced
        /\ Raise(l).assertIn = l.assertIn /\ Raise(l).instrIn = l.instrIn
    <3>1. l \in LineType /\ l.irq = FALSE
      BY <1>1, <1>0 DEF Shape
    <3>2. Raise(l) = [l EXCEPT !.irq = FALSE]
      BY <1>1 DEF Raise
    <3> QED
      BY <3>1, <3>2 DEF LineType
  <2>2. Shape(Raise(l))
    BY <2>1 DEF Shape
  <2>3. Within(Raise(l), 0, 1)
    BY <1>0, <1>1, <2>1 DEF Shape, Within
  <2>4. \A n, m \in Nat : Within(l, n, m) => Within(Raise(l), n, m)
    BY <2>1 DEF Within
  <2> QED
    BY <2>2, <2>3, <2>4
<1>2. CASE l.instrIn <= 0 /\ AssertDelay = 0
  <2>1. /\ Raise(l) \in LineType /\ Raise(l).irq = TRUE /\ Raise(l).synced = l.synced
        /\ Raise(l).assertIn = None /\ Raise(l).instrIn = l.instrIn
    <3>1. Raise(l) = [l EXCEPT !.irq = TRUE, !.assertIn = None]
      BY <1>0, <1>2 DEF Raise
    <3>2. l \in LineType /\ None \in Nat \cup {None}
      BY DEF Shape
    <3> HIDE DEF Raise
    <3> QED
      BY <3>1, <3>2 DEF LineType
  <2> QED
    BY <1>2, <2>1 DEF Shape, Within, None
<1>3. CASE l.instrIn <= 0 /\ AssertDelay # 0 /\ (l.irq \/ l.assertIn # None)
  <2>1. Raise(l) = l
    BY <1>3 DEF Raise, Shape, LineType, None
  <2> QED
    BY <1>3, <2>1 DEF Shape, Within, LineType, None
<1>4. CASE l.instrIn <= 0 /\ AssertDelay # 0 /\ ~l.irq /\ l.assertIn = None
  <2>1. /\ Raise(l) \in LineType /\ ~Raise(l).irq /\ Raise(l).synced
        /\ Raise(l).assertIn = AssertDelay /\ Raise(l).instrIn = l.instrIn
    BY <1>4 DEF Raise, Shape, LineType, None
  <2>2. Shape(Raise(l)) /\ Within(Raise(l), 0, 1)
    BY <1>4, <2>1 DEF Shape, Within, None
  <2>3. ASSUME NEW n \in Nat, NEW m \in Nat PROVE ~Within(l, n, m)
    BY <1>0, <1>4 DEF Within
  <2> QED
    BY <2>2, <2>3
<1> QED
  BY <1>1, <1>2, <1>3, <1>4 DEF Shape, LineType, None

LEMMA SyncHigh ==
    ASSUME NEW l, Shape(l), NEW y, ymIrqPinActive(y)
    PROVE  /\ Shape(syncIrqPin(l, y)) /\ Within(syncIrqPin(l, y), 0, 1)
           /\ \A n, m \in Nat : Within(l, n, m) => Within(syncIrqPin(l, y), n, m)
<1>1. syncIrqPin(l, y) = Raise(NewlySynced(l))
  BY DEF syncIrqPin
<1>2. ASSUME NEW n \in Nat, NEW m \in Nat, Within(l, n, m)
      PROVE  NewlySynced(l) = l
  BY <1>2, NewlySyncedShape DEF Within
<1> QED
  BY <1>1, <1>2, NewlySyncedShape, RaiseShape

LEMMA SyncShape ==
    ASSUME NEW l, Shape(l), NEW y
    PROVE  /\ Shape(syncIrqPin(l, y))
           /\ syncIrqPin(l, y).irq => ymIrqPinActive(y)
<1>1. CASE ymIrqPinActive(y)
  BY <1>1, SyncHigh
<1>2. CASE ~ymIrqPinActive(y)
  <2>1. Shape(LowLine)
    BY ShapeLow DEF Shape
  <2> QED
    BY <1>2, <2>1 DEF syncIrqPin, LowLine
<1> QED
  BY <1>1, <1>2

LEMMA AdvancedShape ==
    ASSUME NEW l, Shape(l), NEW y, NEW c \in Nat \ {0}
    PROVE  /\ Shape(AssertionAdvanced(l, y, c))
           /\ ymIrqPinActive(y) =>
                \A n, m \in Nat : Within(l, n, m) =>
                    Within(AssertionAdvanced(l, y, c), n, m + 1)
<1> DEFINE k == AssertionAdvanced(l, y, c)
<1>1. CASE l.assertIn = None
  <2>1. k = l
    BY <1>1 DEF AssertionAdvanced
  <2> QED
    BY <1>1, <2>1 DEF Within
<1>2. CASE l.assertIn # None /\ ~ymIrqPinActive(y)
  <2>1. /\ k \in LineType /\ k.irq = l.irq /\ k.assertIn = None
        /\ k.instrIn = l.instrIn /\ k.synced = l.synced
    BY <1>2 DEF AssertionAdvanced, Shape, LineType, None
  <2> QED
    BY <1>2, <2>1 DEF Shape, None
<1>3. CASE l.assertIn # None /\ ymIrqPinActive(y) /\ l.assertIn > c
  <2>1. /\ k \in LineType /\ k.irq = l.irq /\ k.assertIn = l.assertIn - c
        /\ k.instrIn = l.instrIn /\ k.synced = l.synced
    BY <1>3 DEF AssertionAdvanced, Shape, LineType, None
  <2>2. l.assertIn \in Nat /\ l.instrIn \in Int /\ k.assertIn \in Nat
    BY <1>3, <2>1 DEF Shape, LineType, None
  <2>3. Shape(k)
    BY <1>3, <2>1, <2>2 DEF Shape, None
  <2>4. ASSUME NEW n \in Nat, NEW m \in Nat, Within(l, n, m)
        PROVE  Within(k, n, m + 1)
    BY <1>3, <2>1, <2>2, <2>4 DEF Within, Shape, None
  <2> QED
    BY <2>3, <2>4
<1>4. CASE l.assertIn # None /\ ymIrqPinActive(y) /\ ~(l.assertIn > c)
  <2>1. /\ k \in LineType /\ k.irq /\ k.assertIn = None
        /\ k.instrIn = l.instrIn /\ k.synced = l.synced
    BY <1>4 DEF AssertionAdvanced, Shape, LineType, None
  <2> QED
    BY <1>4, <2>1 DEF Shape, Within, None
<1> QED
  BY <1>1, <1>2, <1>3, <1>4

LEMMA WithinWeakens ==
    ASSUME NEW l, Shape(l), NEW n \in Nat, NEW m \in Nat
    PROVE  /\ Within(l, n, m + 1) => Within(l, n, m)
           /\ Within(l, n + 1, m + 1) => Within(l, n, m)
  BY DEF Within, Shape, LineType, None

LEMMA InstrShape ==
    ASSUME NEW l, Shape(l), NEW y
    PROVE  /\ Shape(InstructionAdvanced(l, y))
           /\ ymIrqPinActive(y) =>
                \A n \in Nat : Within(l, n, n + 1) =>
                    Within(syncIrqPin(InstructionAdvanced(l, y), y), n + 1, n + 1)
<1> DEFINE k == InstructionAdvanced(l, y)
<1> DEFINE e == syncIrqPin(k, y)
<1>0. /\ l.irq \in BOOLEAN /\ l.synced \in BOOLEAN
      /\ l.assertIn \in Int /\ l.instrIn \in Int
      /\ l.assertIn >= None /\ l.instrIn >= None /\ l \in LineType
  BY DelayValues DEF Shape
<1>1. CASE l.instrIn = None \/ (ymIrqPinActive(y) /\ l.instrIn <= 0)
  <2>1. k = l
    BY <1>0, <1>1 DEF InstructionAdvanced
  <2>2. ASSUME ymIrqPinActive(y), NEW n \in Nat, Within(l, n, n + 1)
        PROVE  Within(e, n + 1, n + 1)
    <3>1. Within(l, n + 1, n + 1)
      BY <1>0, <1>1, <2>2 DEF Within, None
    <3> HIDE DEF k, e
    <3>2. n + 1 \in Nat
      OBVIOUS
    <3> QED
      BY <2>1, <2>2, <3>1, <3>2, SyncHigh DEF e
  <2> QED
    BY <2>1, <2>2
<1>2. CASE l.instrIn # None /\ ~ymIrqPinActive(y)
  <2>1. k = [l EXCEPT !.instrIn = None]
    BY <1>2 DEF InstructionAdvanced
  <2>2. /\ k \in LineType /\ k.instrIn = None /\ k.irq = l.irq
        /\ k.synced = l.synced /\ k.assertIn = l.assertIn
    <3> HIDE DEF k
    <3> QED
      BY <1>0, <2>1 DEF LineType
  <2>3. Shape(k)
    BY <2>2 DEF Shape, None
  <2> QED
    BY <1>2, <2>3
<1>3. CASE l.instrIn > 0 /\ ymIrqPinActive(y)
  <2>1. k = [l EXCEPT !.instrIn = l.instrIn - 1]
    BY <1>0, <1>3 DEF InstructionAdvanced, None
  <2>2. /\ k \in LineType /\ k.instrIn = l.instrIn - 1 /\ k.irq = l.irq
        /\ k.synced = l.synced /\ k.assertIn = l.assertIn
    <3>1. l.instrIn - 1 \in Nat
      BY <1>0, <1>3
    <3> HIDE DEF k
    <3> QED
      BY <1>0, <2>1, <3>1 DEF LineType
  <2>3. Shape(k)
    BY <1>0, <1>3, <2>2 DEF Shape, None
  <2>4. ASSUME NEW n \in Nat, Within(l, n, n + 1)
        PROVE  Within(e, n + 1, n + 1)
    <3>0. k.synced /\ n <= InstrDelay /\ ~k.irq /\ k.assertIn = None
      BY <1>0, <1>3, <2>2, <2>4 DEF Within, Shape
    <3>1. CASE k.instrIn > 0
      <4>1. Within(k, n + 1, n + 1)
        BY <1>0, <1>3, <2>2, <2>4, <3>0, <3>1 DEF Within, Shape
      <4> HIDE DEF k, e
      <4>2. n + 1 \in Nat
        OBVIOUS
      <4> QED
        BY <1>3, <2>3, <4>1, <4>2, SyncHigh DEF e
    <3>2. CASE ~(k.instrIn > 0)
      <4>1. e = Raise(k)
        BY <1>3, <3>0, NewlySyncedShape, <2>3 DEF syncIrqPin
      <4>2. CASE AssertDelay = 0
        <5>1. e = [k EXCEPT !.irq = TRUE, !.assertIn = None]
          BY <3>2, <4>1, <4>2 DEF Raise
        <5>2. e.irq /\ e.synced
          <6> HIDE DEF k, e
          <6> QED
            BY <2>2, <3>0, <5>1 DEF LineType
        <5> QED
          BY <5>2 DEF Within
      <4>3. CASE AssertDelay # 0
        <5>1. e = [k EXCEPT !.assertIn = AssertDelay]
          BY <3>0, <3>2, <4>1, <4>3 DEF Raise
        <5>2. e.assertIn = AssertDelay /\ e.synced /\ e.instrIn = k.instrIn
          <6> HIDE DEF k, e
          <6> QED
            BY <2>2, <3>0, <5>1 DEF LineType
        <5>3. AssertDelay \in Nat /\ InstrDelay \in Nat /\ k.instrIn \in Int
          BY <1>0, <2>2 DEF Shape
        <5> HIDE DEF k, e
        <5> QED
          BY <3>0, <3>2, <5>2, <5>3 DEF Within, None
      <4> QED
        BY <4>2, <4>3
    <3> QED
      BY <3>1, <3>2
  <2> QED
    BY <2>3, <2>4
<1> QED
  BY <1>0, <1>1, <1>2, <1>3 DEF None

-----------------------------------------------------------------------------
(* Chips and line together.                                                *)

LEMMA TickShape ==
    ASSUME NEW s, Shape(s.line), NEW c \in Nat
    PROVE  LET r == tickSoundDevices(s, c) IN
             /\ Shape(r.line)
             /\ c > 0 /\ r.line.irq => ymIrqPinActive(r.ym)
             /\ c > 0 /\ ymIrqPinActive(r.ym) =>
                  /\ Within(r.line, 0, 1)
                  /\ \A n, m \in Nat : Within(s.line, n, m) => Within(r.line, n, m + 1)
             /\ c = 0 => r = s
<1> DEFINE r == tickSoundDevices(s, c)
<1>1. CASE c = 0
  BY <1>1 DEF tickSoundDevices
<1>2. CASE c > 0
  <2> DEFINE y == Elapsed(s.ym, c)
  <2> DEFINE a == AssertionAdvanced(s.line, y, c)
  <2>1. r.ym = y /\ r.line = syncIrqPin(a, y)
    BY <1>2 DEF tickSoundDevices
  <2>2. c \in Nat \ {0}
    BY <1>2
  <2> HIDE DEF y, r
  <2>3. Shape(a)
    BY <2>2, AdvancedShape
  <2>4. Shape(r.line) /\ (r.line.irq => ymIrqPinActive(r.ym))
    BY <2>1, <2>3, SyncShape
  <2>5. ASSUME ymIrqPinActive(y) PROVE Within(r.line, 0, 1)
    BY <2>1, <2>3, <2>5, SyncHigh
  <2>6. ASSUME ymIrqPinActive(y), NEW n \in Nat, NEW m \in Nat, Within(s.line, n, m)
        PROVE  Within(r.line, n, m + 1)
    <3>1. Within(a, n, m + 1)
      BY <2>2, <2>6, AdvancedShape
    <3>2. m + 1 \in Nat
      OBVIOUS
    <3> HIDE DEF a
    <3> QED
      BY <2>1, <2>3, <2>6, <3>1, <3>2, SyncHigh
  <2> QED
    BY <1>2, <2>1, <2>4, <2>5, <2>6 DEF r
<1> QED
  BY <1>1, <1>2

(* The inductive invariant.  It is stated of any chip, line and uptime, so  *)
(* that a step can be shown to lead to one under the setting it started in. *)
Fits(y, l, u) ==
    /\ Shape(l)
    /\ l.irq => ymIrqPinActive(y)
    /\ u \in Nat
    /\ u > 0 => ymIrqPinActive(y) /\ Within(l, u, u)

IInv == diag \in Diags /\ Fits(ym, line, up)

LEMMA WithinCapped ==
    ASSUME NEW l, Shape(l), NEW n \in Nat, n >= UpCap, Within(l, n, n)
    PROVE  l.irq
  BY IrqAssumption, DelayValues DEF Within, Shape, UpCap, None

(* An instruction ends with the line right when the state s after its last *)
(* tick has it right, and has seen the pin for one more tick than before.  *)
LEMMA EndKeepsIInv ==
    ASSUME IInv, NEW s, Shape(s.line), Become(StepEnd(s)), NEW dipped \in BOOLEAN,
           up' = Uptime(dipped),
           s = [ym |-> s.ym, line |-> s.line],
           ymIrqPinActive(s.ym) => Within(s.line, 0, 1),
           ymIrqPinActive(s.ym) /\ ~dipped /\ ymIrqPinActive(ym)
               => \A n \in Nat : Within(line, n, n) => Within(s.line, n, n + 1)
    PROVE  Fits(ym', line', up')
<1> DEFINE k == InstructionAdvanced(s.line, s.ym)
<1>1. ym' = s.ym /\ line' = syncIrqPin(k, s.ym)
  BY DEF Become, StepEnd
<1>2. Shape(k)
  BY InstrShape
<1>3. Shape(line') /\ (line'.irq => ymIrqPinActive(ym'))
  <2> HIDE DEF k
  <2> QED
    BY <1>1, <1>2, SyncShape 
<1>4. UpCap \in Nat \ {0} /\ up \in Nat
  BY DEF UpCap, IInv, Fits, Shape
<1>5. up' \in Nat
  BY <1>4 DEF Uptime
<1>6. ASSUME up' > 0 PROVE ymIrqPinActive(ym') /\ Within(line', up', up')
  <2>1. ymIrqPinActive(ym') /\ ymIrqPinActive(s.ym)
    BY <1>1, <1>6 DEF Uptime
  <2>2. ASSUME NEW n \in Nat, Within(s.line, n, n + 1)
        PROVE  Within(line', n + 1, n + 1)
    BY <1>1, <2>1, <2>2, InstrShape
  <2>3. Within(line', 1, 1)
    BY <2>1, <2>2
  <2>4. CASE dipped \/ ~ymIrqPinActive(ym) \/ up = 0
    <3>1. up' = 1
      BY <1>4, <2>1, <2>4 DEF Uptime
    <3> QED
      BY <2>1, <2>3, <3>1
  <2>5. CASE ~dipped /\ ymIrqPinActive(ym) /\ up > 0
    <3>1. Within(line, up, up)
      BY <2>5 DEF IInv, Fits
    <3>2. Within(line', up + 1, up + 1)
      BY <1>4, <2>1, <2>2, <2>5, <3>1
    <3>3. CASE up < UpCap
      BY <2>1, <2>5, <3>2, <3>3 DEF Uptime
    <3>4. CASE ~(up < UpCap)
      <4>1. up' = UpCap
        BY <2>1, <2>5, <3>4 DEF Uptime
      <4>2. line'.irq
        BY <1>3, <1>4, <3>2, <3>4, WithinCapped
      <4> QED
        BY <1>3, <2>1, <4>1, <4>2 DEF Within, Shape
    <3> QED
      BY <3>3, <3>4
  <2> QED
    BY <1>4, <2>4, <2>5
<1> QED
  BY <1>3, <1>5, <1>6 DEF IInv, Fits

LEMMA IInvInit == Init => IInv
  BY ShapeLow, DiagValues DEF Init, IInv, Fits, LowLine

LEMMA ImmediateKeeps ==
    ASSUME IInv, NEW w \in Writes, NEW c \in Cycles, immediateInstruction(w, c)
    PROVE  Fits(ym', line', up')
<1> DEFINE s0 == [Now EXCEPT !.ym = Written(@, w)]
<1> DEFINE s == tickSoundDevices(s0, c)
<1>1. c \in Nat /\ c > 0
  BY IrqAssumption
<1>2. s0.line = line /\ Shape(s0.line)
  BY DEF Now, IInv, Fits
<1>3. Become(StepEnd(s)) /\ up' = Uptime(FALSE)
  BY DEF immediateInstruction, WrittenFirst
<1>4. s = [ym |-> s.ym, line |-> s.line]
  BY <1>1 DEF tickSoundDevices
<1> HIDE DEF s0
<1>5. /\ Shape(s.line)
      /\ ymIrqPinActive(s.ym) => Within(s.line, 0, 1)
      /\ ymIrqPinActive(s.ym) =>
           \A n \in Nat : Within(line, n, n) => Within(s.line, n, n + 1)
  BY <1>1, <1>2, TickShape
<1> HIDE DEF s
<1> QED
  BY <1>3, <1>4, <1>5, EndKeepsIInv

LEMMA DeferredKeeps ==
    ASSUME IInv, NEW w \in Writes, NEW c \in Cycles, NEW offset \in 0 .. c,
           deferredInstruction(w, c, offset)
    PROVE  Fits(ym', line', up')
<1> DEFINE early == tickSoundDevices(Now, offset)
<1> DEFINE done == WriteDone(early, w)
<1> DEFINE s == tickSoundDevices(done, c - offset)
<1> DEFINE dipped == ~ymIrqPinActive(early.ym) \/ ~ymIrqPinActive(done.ym)
<1>1. c \in Nat /\ c > 0 /\ offset \in Nat /\ c - offset \in Nat
  BY IrqAssumption
<1>2. Now.line = line /\ Now.ym = ym /\ Shape(line)
  BY DEF Now, IInv, Fits
<1>3. Become(StepEnd(s)) /\ up' = Uptime(dipped) /\ dipped \in BOOLEAN
  BY DEF deferredInstruction, WrittenAt
<1>4. done.line = syncIrqPin(early.line, done.ym) /\ done = [ym |-> done.ym, line |-> done.line]
  BY DEF WriteDone
<1>5. s = [ym |-> s.ym, line |-> s.line]
  BY <1>4 DEF tickSoundDevices
<1> HIDE DEF early
<1>6. /\ Shape(early.line)
      /\ offset = 0 => early.line = line
      /\ offset > 0 /\ ymIrqPinActive(early.ym) =>
           \A n \in Nat : Within(line, n, n) => Within(early.line, n, n + 1)
  BY <1>1, <1>2, TickShape DEF early
<1> HIDE DEF done
<1>7. /\ Shape(done.line)
      /\ ymIrqPinActive(done.ym) => Within(done.line, 0, 1)
      /\ ymIrqPinActive(done.ym) =>
           \A n, m \in Nat : Within(early.line, n, m) => Within(done.line, n, m)
  BY <1>4, <1>6, SyncShape, SyncHigh
<1> HIDE DEF s
<1>8. /\ Shape(s.line)
      /\ offset = c => s = done
      /\ offset < c /\ ymIrqPinActive(s.ym) =>
           /\ Within(s.line, 0, 1)
           /\ \A n, m \in Nat : Within(done.line, n, m) => Within(s.line, n, m + 1)
  BY <1>1, <1>7, TickShape DEF s
<1>9. ymIrqPinActive(s.ym) => Within(s.line, 0, 1)
  BY <1>1, <1>7, <1>8
<1>10. ASSUME ymIrqPinActive(s.ym), ~dipped, NEW n \in Nat, Within(line, n, n)
       PROVE  Within(s.line, n, n + 1)
  <2>1. n + 1 \in Nat /\ (n + 1) + 1 \in Nat
    OBVIOUS
  <2>2. CASE offset = 0
    <3>1. Within(done.line, n, n)
      BY <1>6, <1>7, <1>10, <2>2
    <3> QED
      BY <1>1, <1>8, <1>10, <2>2, <3>1
  <2>3. CASE offset > 0
    <3>1. Within(done.line, n, n + 1)
      BY <1>6, <1>7, <1>10, <2>1, <2>3
    <3>2. CASE offset = c
      BY <1>8, <3>1, <3>2
    <3>3. CASE offset < c
      <4>1. Within(s.line, n, (n + 1) + 1)
        BY <1>8, <1>10, <2>1, <3>1, <3>3
      <4> QED
        BY <1>8, <2>1, <4>1, WithinWeakens
    <3> QED
      BY <1>1, <3>2, <3>3
  <2> QED
    BY <1>1, <2>2, <2>3
<1> HIDE DEF dipped
<1> QED
  BY <1>3, <1>5, <1>8, <1>9, <1>10, EndKeepsIInv

LEMMA IInvStep == IInv /\ [Next]_vars => IInv'
<1>0. [Next]_vars => diag' = diag /\ AssertDelay' = AssertDelay /\ InstrDelay' = InstrDelay
  BY DEF Next, vars, AssertDelay, InstrDelay
<1> SUFFICES ASSUME IInv, [Next]_vars PROVE Fits(ym', line', up')
  BY <1>0 DEF IInv, Fits, Shape, Within
<1>1. ASSUME NEW c \in Cycles, tickDevicesWithoutCpu(c) PROVE Fits(ym', line', up')
  <2> DEFINE r == tickSoundDevices(Now, c)
  <2>1. c \in Nat /\ c > 0 /\ Now.line = line /\ Shape(Now.line)
    BY IrqAssumption DEF Now, IInv, Fits
  <2>2. ym' = r.ym /\ line' = r.line
    BY <1>1 DEF tickDevicesWithoutCpu, Become
  <2> HIDE DEF r
  <2>3. /\ Shape(line') /\ (line'.irq => ymIrqPinActive(ym'))
        /\ ymIrqPinActive(ym') =>
             \A n \in Nat : Within(line, n, n) => Within(line', n, n + 1)
    BY <2>1, <2>2, TickShape DEF r
  <2>4. up' = (IF ymIrqPinActive(ym') THEN up ELSE 0) /\ up \in Nat
    BY <1>1 DEF tickDevicesWithoutCpu, IInv, Fits
  <2>5. ASSUME up' > 0 PROVE ymIrqPinActive(ym') /\ Within(line', up', up')
    <3>1. ymIrqPinActive(ym') /\ up' = up /\ Within(line, up, up)
      BY <2>4, <2>5 DEF IInv, Fits
    <3>2. Within(line', up, up + 1)
      BY <2>3, <2>4, <3>1
    <3> QED
      BY <2>3, <2>4, <3>1, <3>2, WithinWeakens
  <2> QED
    BY <2>3, <2>4, <2>5 DEF IInv, Fits
<1>2. CASE releaseSoundReset
  <2>1. Shape(line') /\ ~line'.irq
    BY <1>2, ShapeDropped DEF releaseSoundReset, IInv, Fits
  <2> QED
    BY <1>2, <2>1 DEF releaseSoundReset, IInv, Fits
<1>3. CASE holdSoundReset
  <2>1. Shape(line') /\ ~line'.irq
    BY <1>3, ShapeLow, DiagValues DEF holdSoundReset, IInv, LowLine
  <2> QED
    BY <1>3, <2>1 DEF holdSoundReset, IInv, Fits
<1>4. CASE resetSoundChip
  <2>1. Shape(line') /\ ~line'.irq
    BY <1>4, ShapeDropped DEF resetSoundChip, IInv, Fits
  <2> QED
    BY <1>4, <2>1 DEF resetSoundChip, IInv, Fits
<1>5. CASE UNCHANGED vars
  BY <1>5 DEF vars, IInv, Fits
<1> QED
  BY <1>1, <1>2, <1>3, <1>4, <1>5, ImmediateKeeps, DeferredKeeps DEF Next, Step, vars

LEMMA Inductive == Spec => []IInv
  BY IInvInit, IInvStep, PTL DEF Spec

-----------------------------------------------------------------------------

(* No spurious interrupt: whatever the timers, the writes and the resets   *)
(* do, a raised line has a flag behind an open gate.                       *)
THEOREM NoSpuriousIrq == Spec => []IrqMeansPin
<1>1. IInv => IrqMeansPin
  BY DEF IInv, Fits, IrqMeansPin
<1> QED
  BY <1>1, Inductive, PTL

(* No lost interrupt: a pin that stays high reaches the 6502 within the    *)
(* delays the configuration asks for, at once when it asks for none.       *)
THEOREM NoLostIrq == Spec => []IrqArrivesInTime
<1>1. IInv => IrqArrivesInTime
  <2> SUFFICES ASSUME IInv, up > InstrDelay + AssertDelay PROVE line.irq
    BY DEF IrqArrivesInTime
  <2>1. up \in Nat /\ up >= UpCap /\ up > 0
    BY DEF IInv, Fits, Shape, UpCap
  <2> QED
    BY <2>1, WithinCapped DEF IInv, Fits
<1> QED
  BY <1>1, Inductive, PTL

-----------------------------------------------------------------------------
(* Types.                                                                  *)

LEMMA ElapsedTyped ==
    ASSUME NEW y \in YmType, NEW c \in Nat
    PROVE  Elapsed(y, c) \in YmType
<1> DEFINE e == [t \in Timers |-> tickCycles(y.timers[t], y.loads[t], Prescale[t], 2 * c)]
<1>1. 2 * c \in Nat
  OBVIOUS
<1>2. \A t \in Timers : y.timers[t] \in TimerType /\ y.loads[t] \in Nat /\ Prescale[t] \in Nat \ {0}
  BY IrqAssumption DEF YmType
<1>3. e \in [Timers -> TimerType]
  BY <1>1, <1>2, TickTyped
<1> HIDE DEF e
<1>4. Elapsed(y, c) = [y EXCEPT !.timers = e]
  BY DEF Elapsed, e
<1> QED
  BY <1>3, <1>4 DEF YmType

LEMMA WrittenTyped ==
    ASSUME NEW y \in YmType, NEW w \in Writes
    PROVE  Written(y, w) \in YmType
<1>0. MaxLoad \in [Timers -> Nat]
  BY IrqAssumption
<1>1. CASE w.kind = "none"
  BY <1>1 DEF Written
<1>2. CASE w.kind = "reset"
  <2>1. StoppedTimer \in TimerType
    BY DEF StoppedTimer, TimerType
  <2> QED
    BY <1>0, <1>2, <2>1 DEF Written, ResetYm, YmType
<1>3. ASSUME NEW t \in Timers, w \in [kind : {"load"}, timer : {t}, load : 1 .. MaxLoad[t]]
      PROVE  Written(y, w) \in YmType
  <2>1. w.kind = "load" /\ w.timer = t /\ w.load \in 1 .. MaxLoad[t]
    BY <1>3
  <2>2. w.load \in Nat
    BY <1>0, <2>1
  <2>3. Written(y, w) = [y EXCEPT !.loads[w.timer] = w.load]
    BY <2>1 DEF Written
  <2> QED
    BY <2>1, <2>2, <2>3 DEF YmType
<1>4. CASE w \in [kind : {"control"}, bits : [Timers -> Controls]]
  <2> DEFINE e == [t \in Timers |-> writeControl(y.timers[t], y.loads[t], w.bits[t])]
  <2>1. w.kind = "control" /\ w.bits \in [Timers -> Controls]
    BY <1>4
  <2>2. \A t \in Timers : y.timers[t] \in TimerType /\ y.loads[t] \in Nat /\ w.bits[t] \in Controls
    BY <2>1 DEF YmType
  <2>3. e \in [Timers -> TimerType]
    BY <2>2, ControlTyped
  <2> HIDE DEF e
  <2>4. Written(y, w) = [y EXCEPT !.timers = e]
    BY <2>1 DEF Written, e
  <2> QED
    BY <2>3, <2>4 DEF YmType
<1>5. \/ w \in [kind : {"none", "reset"}]
      \/ \E t \in Timers : w \in [kind : {"load"}, timer : {t}, load : 1 .. MaxLoad[t]]
      \/ w \in [kind : {"control"}, bits : [Timers -> Controls]]
  <2> DEFINE L(t) == [kind : {"load"}, timer : {t}, load : 1 .. MaxLoad[t]]
             R == [kind : {"none", "reset"}]
             C == [kind : {"control"}, bits : [Timers -> Controls]]
             U == UNION {L(t) : t \in Timers}
  <2>1. w \in U => \E t \in Timers : w \in L(t)
    <3> HIDE DEF L
    <3> QED
      OBVIOUS
  <2>2. w \in R \/ w \in U \/ w \in C
    <3>1. Writes = R \cup U \cup C
      BY Zenon DEF Writes
    <3> HIDE DEF R, U, C
    <3> QED
      BY <3>1
  <2> QED
    BY <2>1, <2>2
<1>6. w \in [kind : {"none", "reset"}] => w.kind = "none" \/ w.kind = "reset"
  OBVIOUS
<1> QED
  BY <1>1, <1>2, <1>3, <1>4, <1>5, <1>6

LEMMA TickedTyped ==
    ASSUME NEW s, s.ym \in YmType, NEW c \in Nat
    PROVE  tickSoundDevices(s, c).ym \in YmType
  BY ElapsedTyped DEF tickSoundDevices

LEMMA TypeStep == TypeOK /\ IInv /\ IInv' /\ [Next]_vars => TypeOK'
<1> SUFFICES ASSUME TypeOK, IInv, IInv', [Next]_vars PROVE TypeOK'
  OBVIOUS
<1>1. diag' = diag /\ UpCap' = UpCap /\ UpCap \in Nat \ {0}
  BY DEF Next, vars, UpCap, AssertDelay, InstrDelay, IInv, Fits, Shape
<1>2. line' \in LineType /\ diag' \in Diags
  BY DEF IInv, Fits, Shape
<1>3. ASSUME NEW dipped PROVE Uptime(dipped) \in 0 .. UpCap
  BY <1>1 DEF Uptime, TypeOK
<1> SUFFICES ym' \in YmType /\ inReset' \in BOOLEAN /\ up' \in 0 .. UpCap
  BY <1>1, <1>2 DEF TypeOK
<1>4. ASSUME NEW w \in Writes, NEW c \in Cycles, immediateInstruction(w, c)
      PROVE  ym' \in YmType /\ inReset' \in BOOLEAN /\ up' \in 0 .. UpCap
  <2> DEFINE s0 == [Now EXCEPT !.ym = Written(@, w)]
  <2>1. ym' = tickSoundDevices(s0, c).ym /\ up' = Uptime(FALSE) /\ inReset' = inReset
    BY <1>4 DEF immediateInstruction, Become, StepEnd, WrittenFirst
  <2>2. s0.ym \in YmType /\ c \in Nat
    BY WrittenTyped, IrqAssumption DEF Now, TypeOK
  <2> HIDE DEF s0
  <2> QED
    BY <1>3, <2>1, <2>2, TickedTyped DEF TypeOK
<1>5. ASSUME NEW w \in Writes, NEW c \in Cycles, NEW offset \in 0 .. c,
             deferredInstruction(w, c, offset)
      PROVE  ym' \in YmType /\ inReset' \in BOOLEAN /\ up' \in 0 .. UpCap
  <2> DEFINE early == tickSoundDevices(Now, offset)
             done == WriteDone(early, w)
  <2>1. ym' = tickSoundDevices(done, c - offset).ym /\ inReset' = inReset
    BY <1>5 DEF deferredInstruction, Become, StepEnd, WrittenAt
  <2>2. up' \in 0 .. UpCap
    BY <1>3, <1>5 DEF deferredInstruction
  <2>3. c - offset \in Nat /\ offset \in Nat /\ Now.ym \in YmType
    BY IrqAssumption DEF Now, TypeOK
  <2>4. early.ym \in YmType
    BY <2>3, TickedTyped
  <2> HIDE DEF early
  <2>5. done.ym \in YmType
    BY <2>4, WrittenTyped DEF WriteDone
  <2> HIDE DEF done
  <2> QED
    BY <2>1, <2>2, <2>3, <2>5, TickedTyped DEF TypeOK
<1>6. ASSUME NEW c \in Cycles, tickDevicesWithoutCpu(c)
      PROVE  ym' \in YmType /\ inReset' \in BOOLEAN /\ up' \in 0 .. UpCap
  <2>1. ym' = tickSoundDevices(Now, c).ym /\ Now.ym \in YmType /\ c \in Nat
    BY <1>6, IrqAssumption DEF tickDevicesWithoutCpu, Become, Now, TypeOK
  <2>2. ym' \in YmType
    BY <2>1, TickedTyped
  <2>3. up' \in 0 .. UpCap
    BY <1>1, <1>6 DEF tickDevicesWithoutCpu, TypeOK
  <2> QED
    BY <1>6, <2>2, <2>3 DEF tickDevicesWithoutCpu, TypeOK
<1>7. CASE releaseSoundReset
  <2>1. ym' = ym /\ up' = 0
    BY <1>7 DEF releaseSoundReset
  <2>2. inReset' \in BOOLEAN
    BY <1>7, Zenon DEF releaseSoundReset
  <2> QED
    BY <1>1, <2>1, <2>2 DEF TypeOK
<1>8. CASE holdSoundReset
  <2>1. ym' = ym /\ inReset' = TRUE /\ up' = 0
    BY <1>8 DEF holdSoundReset
  <2> QED
    BY <1>1, <2>1 DEF TypeOK
<1>9. CASE resetSoundChip
  <2>0. ym' = RegistersCleared(ym) /\ inReset' = TRUE /\ up' = 0
    BY <1>9 DEF resetSoundChip
  <2>1. \A t \in Timers : [ym.timers[t] EXCEPT !.overflow = FALSE] \in TimerType
    BY DEF TypeOK, YmType, TimerType
  <2>2. RegistersCleared(ym) \in YmType
    BY <2>1, IrqAssumption DEF RegistersCleared, YmType
  <2> QED
    BY <1>1, <2>0, <2>2
<1>10. CASE UNCHANGED vars
  BY <1>10 DEF vars, TypeOK
<1> QED
  BY <1>4, <1>5, <1>6, <1>7, <1>8, <1>9, <1>10 DEF Next, Step

(* The state of the timers and of the pin keeps its shape over every        *)
(* instruction, write and reset: no counter or rest of a prescaler leaves   *)
(* the naturals, and the 6502's uptime never passes its cap.                *)
THEOREM YmTyped == Spec => []TypeOK
<1>1. Init => TypeOK
  <2> SUFFICES ASSUME Init PROVE TypeOK
    OBVIOUS
  <2>1. StoppedTimer \in TimerType /\ MaxLoad \in [Timers -> Nat]
    BY IrqAssumption DEF StoppedTimer, TimerType
  <2>2. ResetYm \in YmType
    BY <2>1 DEF ResetYm, YmType
  <2>3. IInv
    BY IInvInit
  <2> QED
    BY <2>2, <2>3 DEF Init, IInv, Fits, Shape, TypeOK, UpCap
<1> QED
  BY <1>1, TypeStep, Inductive, PTL DEF Spec

=============================================================================
