------------------------- MODULE TapeReplay_proofs -------------------------
(***************************************************************************)
(* The clocks of a replay for every tape, setting and instruction length:  *)
(* the 6502 and the devices stay in step, delayed writes are on time, a    *)
(* command is sent within one instruction of its cycle, and commands are   *)
(* sent as far apart as they were recorded; and the loader makes the tapes *)
(* of which this is true.                                                  *)
(***************************************************************************)
EXTENDS TapeReplay, WellFoundedInduction, TLAPS

Uniform == \E d \in setting.delays : setting.delays = {d}

(* Every waiting write is ahead of the devices by less than its delay,     *)
(* once x more cycles have passed.                                         *)
Waiting(c, x) ==
    \A w \in c.writes : /\ c.dev < w.cycle /\ w.sequence < c.seq
                        /\ \E d \in setting.delays : w.cycle < c.dev + x + d

InOrder(c) ==
    Uniform => /\ ~c.over
               /\ \A v, w \in c.writes : v.sequence < w.sequence => v.cycle < w.cycle

ChipOK(c) == c \in ChipType /\ c.dev = c.cpu /\ Waiting(c, 0) /\ InOrder(c)

SettingOK == setting \in SettingType /\ setting.services # {}

LEMMA SettingFacts ==
    ASSUME SettingOK
    PROVE  /\ setting.delays \subseteq Nat /\ setting.services \subseteq Nat
           /\ setting.firstFetch \in Nat /\ setting.release \in Nat /\ setting.offset \in Int
           /\ setting.deferred \in BOOLEAN
BY DEF SettingOK, SettingType

(* The fields of a chip record after a step of its clocks.                 *)
LEMMA ElapsedFields ==
    ASSUME NEW c \in ChipType, NEW n \in Nat
    PROVE  LET due == Due(c, c.dev + n)
           IN  /\ Elapsed(c, n) \in ChipType
               /\ Elapsed(c, n).cpu = c.cpu + n /\ Elapsed(c, n).dev = c.dev + n
               /\ Elapsed(c, n).writes = c.writes \ due
               /\ Elapsed(c, n).seq = c.seq /\ Elapsed(c, n).held = c.held
               /\ Elapsed(c, n).over =
                    (c.over \/ \E w \in due, v \in c.writes :
                                  v.sequence < w.sequence /\ v.cycle > w.cycle)
<1>1. /\ c.cpu \in Nat /\ c.dev \in Nat /\ c.writes \in SUBSET WriteType /\ c.seq \in Nat
      /\ c.over \in BOOLEAN /\ c.held \in BOOLEAN
  BY DEF ChipType
<1> DEFINE due == Due(c, c.dev + n)
           late == \E w \in due, v \in c.writes : v.sequence < w.sequence /\ v.cycle > w.cycle
           t == DevicesTicked(c, n)
<1>2. /\ t \in ChipType /\ t.cpu = c.cpu /\ t.dev = c.dev + n /\ t.writes = c.writes \ due
      /\ t.seq = c.seq /\ t.held = c.held /\ t.over = (c.over \/ late)
  <2> HIDE DEF due, late
  <2>1. t = [c EXCEPT !.dev = @ + n, !.writes = @ \ due, !.over = @ \/ late]
    BY Zenon DEF DevicesTicked, due, late
  <2>2. (c.over \/ late) \in BOOLEAN
    BY <1>1
  <2>3. c.dev + n \in Nat /\ (c.writes \ due) \in SUBSET WriteType
    BY <1>1
  <2> HIDE DEF t
  <2> QED
    BY <1>1, <2>1, <2>2, <2>3 DEF ChipType
<1> HIDE DEF t, due, late
<1>3. Elapsed(c, n) = [t EXCEPT !.cpu = @ + n]
  BY Zenon DEF Elapsed, t
<1>4. t.cpu + n \in Nat
  BY <1>1, <1>2
<1>5. /\ Elapsed(c, n) \in ChipType
      /\ Elapsed(c, n).cpu = c.cpu + n /\ Elapsed(c, n).dev = c.dev + n
      /\ Elapsed(c, n).writes = c.writes \ due
      /\ Elapsed(c, n).seq = c.seq /\ Elapsed(c, n).held = c.held
      /\ Elapsed(c, n).over = (c.over \/ late)
  BY <1>2, <1>3, <1>4 DEF ChipType
<1> QED
  BY <1>5 DEF due, late

(* Time that passes for the devices and the 6502 together keeps them in    *)
(* step and leaves no write behind.                                        *)
LEMMA ElapsedOK ==
    ASSUME NEW c \in ChipType, NEW n \in Nat, NEW x \in Nat, x <= n, SettingOK,
           c.dev = c.cpu, Waiting(c, x), InOrder(c)
    PROVE  ChipOK(Elapsed(c, n)) /\ Elapsed(c, n).cpu = c.cpu + n /\ Elapsed(c, n).held = c.held
<1> DEFINE e == Elapsed(c, n)
           due == Due(c, c.dev + n)
<1>1. /\ e \in ChipType /\ e.cpu = c.cpu + n /\ e.dev = c.dev + n
      /\ e.writes = c.writes \ due /\ e.seq = c.seq /\ e.held = c.held
      /\ e.over = (c.over \/ \E w \in due, v \in c.writes :
                                v.sequence < w.sequence /\ v.cycle > w.cycle)
  BY ElapsedFields
<1>2. due = {w \in c.writes : w.cycle <= c.dev + n}
  BY DEF Due
<1> HIDE DEF e, due
<1>3. c.dev \in Nat /\ c.seq \in Nat /\ \A w \in c.writes : w.cycle \in Nat /\ w.sequence \in Nat
  BY DEF ChipType, WriteType
<1>4. Waiting(e, 0)
  <2> SUFFICES ASSUME NEW w \in e.writes
               PROVE  /\ e.dev < w.cycle /\ w.sequence < e.seq
                      /\ \E d \in setting.delays : w.cycle < e.dev + 0 + d
    BY DEF Waiting
  <2>1. w \in c.writes /\ ~(w.cycle <= c.dev + n)
    BY <1>1, <1>2
  <2>2. PICK d \in setting.delays : w.cycle < c.dev + x + d
    BY <2>1 DEF Waiting
  <2>3. d \in Nat /\ w.sequence < c.seq
    BY <2>1, SettingFacts DEF Waiting
  <2>4. w.cycle < e.dev + 0 + d /\ e.dev < w.cycle
    BY <1>1, <1>3, <2>1, <2>2, <2>3
  <2> QED
    BY <1>1, <2>3, <2>4
<1>5. InOrder(e)
  <2> SUFFICES ASSUME Uniform
               PROVE  /\ ~e.over
                      /\ \A v, w \in e.writes : v.sequence < w.sequence => v.cycle < w.cycle
    BY DEF InOrder
  <2>1. ~c.over /\ \A v, w \in c.writes : v.sequence < w.sequence => v.cycle < w.cycle
    BY DEF InOrder
  <2>2. ~\E w \in due, v \in c.writes : v.sequence < w.sequence /\ v.cycle > w.cycle
    BY <1>2, <1>3, <2>1
  <2> QED
    BY <1>1, <2>1, <2>2
<1> QED
  BY <1>1, <1>4, <1>5 DEF ChipOK, e

(* A delayed store goes to the end of the list when all delays are the     *)
(* same.                                                                   *)
LEMMA ScheduleOK ==
    ASSUME NEW c, ChipOK(c), SettingOK, NEW at \in Nat, NEW n \in Nat, at < n,
           NEW d \in setting.delays, d > 0
    PROVE  LET e == schedulePokeyWrite(c, c.cpu + at + d)
           IN  /\ e \in ChipType /\ e.cpu = c.cpu /\ e.dev = e.cpu /\ e.held = c.held
               /\ Waiting(e, n) /\ InOrder(e)
<1> DEFINE cycle == c.cpu + at + d
           new == [cycle |-> cycle, sequence |-> c.seq]
           e == schedulePokeyWrite(c, cycle)
<1>1. /\ c.cpu \in Nat /\ c.dev = c.cpu /\ c.writes \in SUBSET WriteType /\ c.seq \in Nat
      /\ c.over \in BOOLEAN /\ c.held \in BOOLEAN /\ c \in ChipType
      /\ \A w \in c.writes : w.cycle \in Nat /\ w.sequence \in Nat
  BY DEF ChipOK, ChipType, WriteType
<1>2. d \in Nat /\ cycle \in Nat /\ ~(cycle <= c.dev)
  BY <1>1, SettingFacts
<1>3. new \in WriteType /\ new.cycle = cycle /\ new.sequence = c.seq
  BY <1>1, <1>2 DEF WriteType
<1>4. e = [c EXCEPT !.writes = @ \cup {new}, !.seq = @ + 1]
  BY <1>2 DEF schedulePokeyWrite
<1> DEFINE all == c.writes \cup {new}
<1>a. all \in SUBSET WriteType /\ c.seq + 1 \in Nat
  BY <1>1, <1>3
<1> HIDE DEF e, new, cycle, all
<1>b. e = [c EXCEPT !.writes = all, !.seq = @ + 1]
  BY <1>4 DEF all
<1>c. /\ e \in ChipType /\ e.cpu = c.cpu /\ e.dev = c.dev /\ e.held = c.held
      /\ e.writes = all /\ e.seq = c.seq + 1 /\ e.over = c.over
  BY <1>1, <1>a, <1>b DEF ChipType
<1>5. /\ e \in ChipType /\ e.cpu = c.cpu /\ e.dev = c.dev /\ e.held = c.held
      /\ e.writes = c.writes \cup {new} /\ e.seq = c.seq + 1 /\ e.over = c.over
  BY <1>c DEF all
<1>6. Waiting(e, n)
  <2> SUFFICES ASSUME NEW w \in e.writes
               PROVE  /\ e.dev < w.cycle /\ w.sequence < e.seq
                      /\ \E d1 \in setting.delays : w.cycle < e.dev + n + d1
    BY DEF Waiting
  <2>1. CASE w = new
    <3>1. w.cycle = c.cpu + at + d /\ w.sequence = c.seq
      BY <2>1, <1>3 DEF cycle
    <3>2. w.cycle < e.dev + n + d /\ e.dev < w.cycle /\ w.sequence < e.seq
      BY <3>1, <1>1, <1>2, <1>5
    <3> QED
      BY <3>2
  <2>2. CASE w \in c.writes
    <3>1. PICK d1 \in setting.delays : w.cycle < c.dev + 0 + d1
      BY <2>2 DEF ChipOK, Waiting
    <3>2. d1 \in Nat /\ c.dev < w.cycle /\ w.sequence < c.seq
      BY <2>2, SettingFacts DEF ChipOK, Waiting
    <3>3. w.cycle < e.dev + n + d1 /\ e.dev < w.cycle /\ w.sequence < e.seq
      BY <3>1, <3>2, <2>2, <1>1, <1>5
    <3> QED
      BY <3>3
  <2> QED
    BY <1>5, <2>1, <2>2
<1>7. InOrder(e)
  <2> SUFFICES ASSUME Uniform
               PROVE  /\ ~e.over
                      /\ \A v, w \in e.writes : v.sequence < w.sequence => v.cycle < w.cycle
    BY DEF InOrder
  <2>1. ~c.over /\ \A v, w \in c.writes : v.sequence < w.sequence => v.cycle < w.cycle
    BY DEF ChipOK, InOrder
  <2>2. \A v \in c.writes : v.sequence < c.seq /\ v.cycle < cycle
    <3> SUFFICES ASSUME NEW v \in c.writes
                 PROVE  v.sequence < c.seq /\ v.cycle < cycle
      OBVIOUS
    <3>1. PICK d1 \in setting.delays : v.cycle < c.dev + 0 + d1
      BY DEF ChipOK, Waiting
    <3>2. d1 = d
      BY DEF Uniform
    <3>3. v.sequence < c.seq
      BY DEF ChipOK, Waiting
    <3> QED
      BY <3>1, <3>2, <3>3, <1>1, <1>2 DEF cycle
  <2>3. ASSUME NEW v \in e.writes, NEW w \in e.writes, v.sequence < w.sequence
        PROVE  v.cycle < w.cycle
    BY <2>1, <2>2, <2>3, <1>1, <1>3, <1>5
  <2> QED
    BY <2>1, <2>3, <1>5
<1>8. e.dev = e.cpu
  BY <1>1, <1>5
<1> QED
  BY <1>5, <1>6, <1>7, <1>8 DEF e, cycle

(* A store that takes effect at once overtakes nothing: with a single      *)
(* delay, which is then 0, no write waits.                                 *)
LEMMA AppliedOK ==
    ASSUME NEW c, ChipOK(c), SettingOK, 0 \in setting.delays
    PROVE  ChipOK(Applied(c)) /\ Applied(c).cpu = c.cpu /\ Applied(c).held = c.held
<1> DEFINE e == Applied(c)
           some == c.over \/ c.writes # {}
<1>1. /\ c.cpu \in Nat /\ c.dev = c.cpu /\ c.writes \in SUBSET WriteType /\ c.seq \in Nat
      /\ c.over \in BOOLEAN /\ c.held \in BOOLEAN /\ c \in ChipType
      /\ \A w \in c.writes : w.cycle \in Nat
  BY DEF ChipOK, ChipType, WriteType
<1>2. some \in BOOLEAN
  BY <1>1
<1> HIDE DEF some
<1>3. e = [c EXCEPT !.over = some]
  BY Zenon DEF Applied, some
<1> HIDE DEF e
<1>4. /\ e \in ChipType /\ e.cpu = c.cpu /\ e.dev = c.dev /\ e.held = c.held
      /\ e.writes = c.writes /\ e.seq = c.seq /\ e.over = some
  BY <1>1, <1>2, <1>3 DEF ChipType
<1>5. Waiting(e, 0)
  BY <1>4 DEF ChipOK, Waiting
<1>6. InOrder(e)
  <2> SUFFICES ASSUME Uniform
               PROVE  /\ ~e.over
                      /\ \A v, w \in e.writes : v.sequence < w.sequence => v.cycle < w.cycle
    BY DEF InOrder
  <2>1. ~c.over /\ \A v, w \in c.writes : v.sequence < w.sequence => v.cycle < w.cycle
    BY DEF ChipOK, InOrder
  <2>2. \A d \in setting.delays : d = 0
    BY DEF Uniform
  <2>3. \A w \in c.writes : c.dev < w.cycle /\ w.cycle < c.dev + 0 + 0
    BY <2>2 DEF ChipOK, Waiting
  <2>4. c.writes = {}
    BY <2>3, <1>1
  <2> QED
    BY <2>1, <2>4, <1>4 DEF some
<1> QED
  BY <1>1, <1>4, <1>5, <1>6 DEF ChipOK, e

LEMMA ElapsedChipOK ==
    ASSUME NEW c, ChipOK(c), SettingOK, NEW n \in Nat
    PROVE  ChipOK(Elapsed(c, n)) /\ Elapsed(c, n).cpu = c.cpu + n /\ Elapsed(c, n).held = c.held
BY ElapsedOK DEF ChipOK

LEMMA StepOK ==
    ASSUME NEW c, ChipOK(c), SettingOK, NEW e \in stepSoundCpuInstruction(c)
    PROVE  ChipOK(e) /\ e.held = c.held /\ \E n \in Steps : e.cpu = c.cpu + n
<1>1. ASSUME NEW n \in Steps, e = Elapsed(c, n) PROVE ChipOK(e) /\ e.held = c.held /\ e.cpu = c.cpu + n
  BY <1>1, ElapsedChipOK, ReplayAssumption
<1>2. ASSUME NEW s \in Stores, NEW d \in setting.delays, e = Storing(c, s, d)
      PROVE  ChipOK(e) /\ e.held = c.held /\ e.cpu = c.cpu + s.length
  <2>0. /\ s.length \in Nat /\ s.at \in Nat /\ s.at < s.length /\ s.length - s.at \in Nat
        /\ d \in Nat /\ c.cpu \in Nat
    <3>1. s.length \in Steps /\ s.at \in Nat /\ s.at < s.length
      BY ReplayAssumption, Zenon
    <3>2. s.length \in Nat
      BY <3>1, ReplayAssumption
    <3>3. d \in Nat
      BY SettingFacts
    <3>4. c.cpu \in Nat
      BY DEF ChipOK, ChipType
    <3> QED
      BY <3>1, <3>2, <3>3, <3>4
  <2>1. CASE d > 0
    <3> DEFINE b == schedulePokeyWrite(c, c.cpu + s.at + d)
    <3>1. /\ b \in ChipType /\ b.cpu = c.cpu /\ b.dev = b.cpu /\ b.held = c.held
          /\ Waiting(b, s.length) /\ InOrder(b)
      BY <2>0, <2>1, ScheduleOK
    <3>2. e = Elapsed(b, s.length)
      BY <1>2, <2>1 DEF Storing
    <3> HIDE DEF b
    <3>3. /\ ChipOK(Elapsed(b, s.length)) /\ Elapsed(b, s.length).cpu = b.cpu + s.length
          /\ Elapsed(b, s.length).held = b.held
      BY <2>0, <3>1, ElapsedOK
    <3> QED
      BY <3>1, <3>2, <3>3
  <2>2. CASE ~(d > 0)
    <3>0. 0 \in setting.delays
      BY <2>0, <2>2
    <3>1. CASE setting.deferred
      <4>1. ChipOK(Elapsed(c, s.at)) /\ Elapsed(c, s.at).cpu = c.cpu + s.at /\ Elapsed(c, s.at).held = c.held
        BY <2>0, ElapsedChipOK
      <4> DEFINE b == Applied(Elapsed(c, s.at))
      <4>2. ChipOK(b) /\ b.cpu = c.cpu + s.at /\ b.held = c.held
        BY <4>1, <3>0, AppliedOK
      <4>3. e = Elapsed(b, s.length - s.at)
        BY <1>2, <2>2, <3>1 DEF Storing
      <4> HIDE DEF b
      <4>4. ChipOK(e) /\ e.cpu = b.cpu + (s.length - s.at) /\ e.held = b.held
        BY <4>2, <4>3, <2>0, ElapsedChipOK
      <4> QED
        BY <4>2, <4>4, <2>0
    <3>2. CASE ~setting.deferred
      <4> DEFINE b == Applied(c)
      <4>2. ChipOK(b) /\ b.cpu = c.cpu /\ b.held = c.held
        BY <3>0, AppliedOK
      <4>3. e = Elapsed(b, s.length)
        BY <1>2, <2>2, <3>2 DEF Storing
      <4> HIDE DEF b
      <4> QED
        BY <4>2, <4>3, <2>0, ElapsedChipOK
    <3> QED
      BY <3>1, <3>2
  <2> QED
    BY <2>1, <2>2
<1>3. \/ \E n \in Steps : e = Elapsed(c, n)
      \/ \E s \in Stores, d \in setting.delays : e = Storing(c, s, d)
  BY DEF stepSoundCpuInstruction
<1> QED
  BY <1>1, <1>2, <1>3, ReplayAssumption

LEMMA TickOK ==
    ASSUME NEW c, ChipOK(c), SettingOK, NEW e \in tickCycles(c)
    PROVE  /\ ChipOK(e) /\ e.held = c.held
           /\ \E n \in Steps, s \in setting.services : e.cpu = c.cpu + n + s
<1>1. PICK s \in setting.services : e \in stepSoundCpuInstruction(Elapsed(c, s))
  BY Zenon DEF tickCycles
<1>2. s \in Nat
  BY SettingFacts
<1>3. ChipOK(Elapsed(c, s)) /\ Elapsed(c, s).cpu = c.cpu + s /\ Elapsed(c, s).held = c.held
  BY <1>2, ElapsedChipOK
<1>4. PICK n \in Steps : e.cpu = Elapsed(c, s).cpu + n
  BY <1>1, <1>3, StepOK
<1>5. e.cpu = c.cpu + n + s
  BY <1>2, <1>3, <1>4, ReplayAssumption DEF ChipOK, ChipType
<1>6. ChipOK(e) /\ e.held = c.held
  BY <1>1, <1>3, StepOK
<1> QED
  BY <1>5, <1>6

LEMMA ResetsOK ==
    ASSUME NEW c, ChipOK(c)
    PROVE  /\ ChipOK(releaseSoundReset(c)) /\ releaseSoundReset(c).cpu = 0 /\ ~releaseSoundReset(c).held
           /\ ChipOK(holdSoundReset(c)) /\ holdSoundReset(c).cpu = 0 /\ holdSoundReset(c).held
           /\ ChipOK(resetSoundChip(c)) /\ resetSoundChip(c).cpu \in Nat /\ resetSoundChip(c).held
<1>1. c \in ChipType /\ InOrder(c) /\ c.cpu \in Nat /\ c.cpu + ResetCycles \in Nat
  BY ReplayAssumption DEF ChipOK, ChipType
<1>2. Cleared(c).cpu = c.cpu
  BY <1>1 DEF Cleared, ChipType
<1>3. resetSoundChip(c) = [Cleared(c) EXCEPT !.cpu = c.cpu + ResetCycles,
                                             !.dev = c.cpu + ResetCycles, !.held = TRUE]
  BY <1>1, <1>2 DEF resetSoundChip, Cleared, ChipType
<1>a. ASSUME NEW n \in Nat, NEW h \in BOOLEAN, NEW e,
             e = [Cleared(c) EXCEPT !.cpu = n, !.dev = n, !.held = h]
      PROVE  ChipOK(e) /\ e.cpu = n /\ e.held = h
  <2>1. /\ c.seq \in Nat /\ c.over \in BOOLEAN /\ c.writes \in SUBSET WriteType
    BY <1>1 DEF ChipType
  <2>2. Cleared(c) \in ChipType /\ Cleared(c).writes = {} /\ Cleared(c).over = c.over
    BY <1>1, <2>1 DEF Cleared, ChipType
  <2>3. e \in ChipType /\ e.cpu = n /\ e.dev = n /\ e.held = h /\ e.writes = {} /\ e.over = c.over
    BY <1>a, <2>2 DEF ChipType
  <2> QED
    BY <1>1, <2>3 DEF ChipOK, Waiting, InOrder
<1>4. ChipOK(resetSoundChip(c)) /\ resetSoundChip(c).cpu \in Nat /\ resetSoundChip(c).held
  <2>1. ChipOK(resetSoundChip(c)) /\ resetSoundChip(c).cpu = c.cpu + ResetCycles
          /\ resetSoundChip(c).held = TRUE
    BY <1>1, <1>3, <1>a
  <2> QED
    BY <1>1, <2>1
<1>5. ChipOK(releaseSoundReset(c)) /\ releaseSoundReset(c).cpu = 0 /\ ~releaseSoundReset(c).held
  <2>1. releaseSoundReset(c) = [Cleared(c) EXCEPT !.cpu = 0, !.dev = 0, !.held = FALSE]
    BY DEF releaseSoundReset
  <2>2. ChipOK(releaseSoundReset(c)) /\ releaseSoundReset(c).cpu = 0
          /\ releaseSoundReset(c).held = FALSE
    BY <1>a, <2>1
  <2> QED
    BY <2>2
<1>6. ChipOK(holdSoundReset(c)) /\ holdSoundReset(c).cpu = 0 /\ holdSoundReset(c).held
  <2>1. holdSoundReset(c) = [Cleared(c) EXCEPT !.cpu = 0, !.dev = 0, !.held = TRUE]
    BY DEF holdSoundReset
  <2>2. ChipOK(holdSoundReset(c)) /\ holdSoundReset(c).cpu = 0 /\ holdSoundReset(c).held = TRUE
    BY <1>a, <2>1
  <2> QED
    BY <2>2
<1> QED
  BY <1>4, <1>5, <1>6

-----------------------------------------------------------------------------
(* The commands of a frame fall inside it.                                 *)

LEMMA ClampOK ==
    ASSUME NEW x \in Int, NEW hi \in Nat
    PROVE  Clamp(x, hi) \in Nat /\ Clamp(x, hi) <= hi
BY DEF Clamp

LEMMA TapeFacts ==
    ASSUME TypeOK
    PROVE  /\ Cycles \in Nat /\ Cmds \in Seq(CommandType) /\ Len(Cmds) \in Nat
           /\ tape.total \in Nat \ {0} /\ tape.origin[frame] \in Int
BY ReplayAssumption DEF TypeOK, IsTape, Cycles, Cmds

LEMMA TargetOK ==
    ASSUME TypeOK, SettingOK, NEW st \in Nat, NEW k \in 1..Len(Cmds)
    PROVE  Target(st, k) \in Nat /\ st <= Target(st, k) /\ Target(st, k) <= st + Cycles
<1>1. Cycles \in Nat /\ Len(Cmds) \in Nat /\ Cmds[k] \in CommandType
  BY TapeFacts
<1>2. Cmds[k].cycle \in Int
  BY <1>1 DEF CommandType, None
<1> DEFINE at == CommandCycle(Cmds, k, Cycles)
<1>3. at \in Nat
  <2>1. CASE Cmds[k].cycle # None
    BY <2>1, <1>1, <1>2, ClampOK DEF CommandCycle
  <2>2. CASE Cmds[k].cycle = None /\ Len(Cmds) = 1
    <3>1. at = Clamp(0, Cycles)
      BY <2>2 DEF CommandCycle
    <3> HIDE DEF at
    <3> QED
      BY <3>1, <1>1, ClampOK
  <2>3. CASE Cmds[k].cycle = None /\ Len(Cmds) # 1
    <3>1. Cycles * (k - 1) \in Nat /\ Len(Cmds) \in Nat \ {0}
      BY <1>1
    <3>2. \A a \in Nat, b \in Nat \ {0} : (a \div b) \in Int
      OBVIOUS
    <3>3. ((Cycles * (k - 1)) \div Len(Cmds)) \in Int
      BY <3>1, <3>2
    <3>4. at = Clamp((Cycles * (k - 1)) \div Len(Cmds), Cycles)
      BY <2>3 DEF CommandCycle
    <3> HIDE DEF at
    <3> QED
      BY <3>3, <3>4, <1>1, ClampOK
  <2> HIDE DEF at
  <2> QED
    BY <2>1, <2>2, <2>3
<1> HIDE DEF at
<1>4. Clamp(at + setting.offset, Cycles) \in Nat /\ Clamp(at + setting.offset, Cycles) <= Cycles
  <2>1. at + setting.offset \in Int
    BY <1>3, SettingFacts
  <2> QED
    BY <1>1, <2>1, ClampOK
<1> QED
  BY <1>1, <1>4 DEF Target, at

-----------------------------------------------------------------------------
(* The inductive invariant.  While a frame runs, the 6502 is near the last *)
(* of the cycles it was sent to: the mark, the start of the frame, the     *)
(* cycle of a command up to the next one, or at last the end of the frame. *)

AtStart == phase = "between" => next = 1

OnSchedule ==
    (phase = "between" /\ ~chip.held /\ sched # None)
      => sched <= chip.cpu /\ (Near(chip, sched) \/ Near(chip, mark))

NotLate ==
    (phase = "running" /\ ~chip.held)
      => \/ Near(chip, mark) \/ Near(chip, start)
         \/ \E k \in 1..Len(Cmds) : k <= next /\ Near(chip, Target(start, k))
         \/ AllSent /\ Near(chip, FrameEnd)

IInv == TypeOK /\ ChipOK(chip) /\ AtStart /\ OnSchedule /\ NotLate

LEMMA IInvSetting ==
    ASSUME TypeOK
    PROVE  SettingOK
BY ReplayAssumption DEF TypeOK, SettingOK

(* Whoever stands at a cycle is near it, and near any later one.           *)
LEMMA NearOK ==
    ASSUME SettingOK, NEW c, c.cpu \in Nat, NEW x \in Nat, NEW y \in Nat
    PROVE  /\ c.cpu <= x => Near(c, x)
           /\ Near(c, x) /\ x <= y => Near(c, y)
<1>1. Steps \subseteq Nat \ {0} /\ Steps # {} /\ setting.services \subseteq Nat /\ setting.services # {}
  BY SettingFacts, ReplayAssumption DEF SettingOK
<1>2. PICK n0 \in Steps, s0 \in setting.services : TRUE
  BY <1>1
<1>3. ASSUME c.cpu <= x PROVE Near(c, x)
  <2>1. c.cpu <= x + n0 + s0 - 1
    BY <1>1, <1>2, <1>3
  <2> QED
    BY <1>2, <2>1 DEF Near
<1>4. ASSUME Near(c, x), x <= y PROVE Near(c, y)
  <2>1. PICK n \in Steps, s \in setting.services : c.cpu <= x + n + s - 1
    BY <1>4 DEF Near
  <2>2. c.cpu <= y + n + s - 1
    BY <1>1, <1>4, <2>1
  <2> QED
    BY <2>1, <2>2 DEF Near
<1> QED
  BY <1>3, <1>4

LEMMA GoalOK ==
    ASSUME TypeOK, SettingOK
    PROVE  Goal \in Nat /\ start <= Goal /\ Goal <= FrameEnd /\ FrameEnd \in Nat
<1>1. Cycles \in Nat /\ Len(Cmds) \in Nat /\ start \in Nat /\ next \in 1..(Len(Cmds) + 1)
  BY TapeFacts DEF TypeOK
<1>2. FrameEnd \in Nat /\ start <= FrameEnd
  BY <1>1 DEF FrameEnd
<1>3. CASE AllSent
  BY <1>2, <1>3 DEF Goal
<1>4. CASE ~AllSent
  <2>1. next \in 1..Len(Cmds)
    BY <1>1, <1>4 DEF AllSent
  <2> QED
    BY <1>1, <1>2, <1>4, <2>1, TargetOK DEF Goal, FrameEnd
<1> QED
  BY <1>3, <1>4

(* The chip as it is after a step, in the next state.                      *)
LEMMA ChipPrimed ==
    ASSUME NEW c, ChipOK(c), chip' = c, setting' = setting
    PROVE  ChipOK(chip)'
BY DEF ChipOK, Waiting, InOrder, Uniform

LEMMA MovesOK ==
    ASSUME IInv, Running, NEW c, ChipOK(c), c.held = chip.held, Near(c, Goal), Moves(c)
    PROVE  IInv'
<1>1. /\ chip' = c /\ UNCHANGED <<tape, setting, sched, phase, frame, start, next, mark, anchor>>
  BY DEF Moves, constants
<1>2. TypeOK'
  BY <1>1 DEF IInv, TypeOK, ChipOK, Cmds
<1>3. ChipOK(chip)'
  BY <1>1, ChipPrimed
<1>4. AtStart' /\ OnSchedule'
  BY <1>1 DEF IInv, AtStart, OnSchedule, Running
<1>5. NotLate'
  <2>1. AllSent' = AllSent /\ FrameEnd' = FrameEnd /\ Cmds' = Cmds /\ \A k : Target(start, k)' = Target(start, k)
    BY <1>1 DEF AllSent, FrameEnd, Cmds, Cycles, Target
  <2>2. \A x : Near(c, x) => Near(chip', x) /\ (Near(chip, x))' = Near(chip', x)
    BY <1>1 DEF Near
  <2>3. CASE AllSent
    <3>1. Near(c, FrameEnd)
      BY <2>3 DEF Goal
    <3>2. (AllSent /\ Near(chip, FrameEnd))'
      BY <1>1, <2>1, <2>3, <3>1 DEF Near
    <3> QED
      BY <3>2 DEF NotLate
  <2>4. CASE ~AllSent
    <3>1. Near(c, Target(start, next)) /\ next \in 1..Len(Cmds) /\ next <= next
      BY <2>4, TapeFacts DEF Goal, AllSent, IInv, TypeOK
    <3>2. (Near(chip, Target(start, next)))'
      BY <1>1, <2>1, <3>1 DEF Near, Target, Cmds, Cycles
    <3>3. (next \in 1..Len(Cmds) /\ next <= next)'
      BY <1>1, <2>1, <3>1
    <3> QED
      BY <3>2, <3>3 DEF NotLate
  <2> QED
    BY <2>3, <2>4
<1> QED
  BY <1>2, <1>3, <1>4, <1>5 DEF IInv

-----------------------------------------------------------------------------
LEMMA RunningMoves ==
    ASSUME IInv, Running, NEW c, ChipOK(c), c.held = chip.held,
           \/ c.cpu = Goal
           \/ \E n \in Steps, s \in setting.services : c.cpu = chip.cpu + n + s
    PROVE  Near(c, Goal)
<1>1. SettingOK /\ Goal \in Nat /\ chip.cpu \in Nat /\ c.cpu \in Nat
  BY IInvSetting, GoalOK DEF IInv, ChipOK, ChipType
<1>2. CASE c.cpu = Goal
  BY <1>1, <1>2, NearOK
<1>3. ASSUME NEW n \in Steps, NEW s \in setting.services, c.cpu = chip.cpu + n + s
      PROVE  Near(c, Goal)
  <2>1. n \in Nat /\ s \in Nat
    BY <1>1, SettingFacts, ReplayAssumption
  <2>2. c.cpu <= Goal + n + s - 1
    BY <1>1, <1>3, <2>1 DEF Running
  <2> QED
    BY <2>2 DEF Near
<1> QED
  BY <1>2, <1>3

(* Preemption leaves the chip exactly at the goal.                         *)
LEMMA PreemptedOK ==
    ASSUME TypeOK, NEW c, ChipOK(c), c.cpu < Goal
    PROVE  ChipOK(Preempted(c)) /\ Preempted(c).cpu = Goal /\ Preempted(c).held = c.held
<1>1. SettingOK /\ Goal \in Nat /\ c.cpu \in Nat
  BY IInvSetting, GoalOK DEF ChipOK, ChipType
<1>2. Goal - c.cpu \in Nat /\ c.cpu + (Goal - c.cpu) = Goal
  BY <1>1
<1> QED
  BY <1>1, <1>2, ElapsedChipOK DEF Preempted

LEMMA ExecuteOK == IInv /\ (Execute \/ PreemptIrq \/ PreemptStore) => IInv'
<1> SUFFICES ASSUME IInv, Execute \/ PreemptIrq \/ PreemptStore
             PROVE  IInv'
  OBVIOUS
<1>1. TypeOK /\ ChipOK(chip) /\ SettingOK /\ Goal \in Nat /\ chip.cpu \in Nat
  BY IInvSetting, GoalOK DEF IInv, ChipOK, ChipType
<1>2. CASE Execute
  <2>1. Running
    BY <1>2 DEF Execute
  <2>2. PICK c \in tickCycles(chip) : Moves(c)
    BY <1>2 DEF Execute
  <2>3. /\ ChipOK(c) /\ c.held = chip.held
        /\ \E n \in Steps, s \in setting.services : c.cpu = chip.cpu + n + s
    BY <1>1, TickOK
  <2>4. Near(c, Goal)
    BY <2>1, <2>3, RunningMoves
  <2> QED
    BY <2>1, <2>2, <2>3, <2>4, MovesOK
<1>3. ASSUME Running, Moves(Preempted(chip)) PROVE IInv'
  <2>1. ChipOK(Preempted(chip)) /\ Preempted(chip).cpu = Goal /\ Preempted(chip).held = chip.held
    BY <1>1, <1>3, PreemptedOK DEF Running
  <2>2. Near(Preempted(chip), Goal)
    BY <1>3, <2>1, RunningMoves
  <2> QED
    BY <1>3, <2>1, <2>2, MovesOK
<1>4. CASE PreemptIrq
  BY <1>3, <1>4 DEF PreemptIrq
<1>5. CASE PreemptStore
  <2>1. Running
    BY <1>5 DEF PreemptStore
  <2>2. \/ Moves(Preempted(chip))
        \/ \E c \in stepSoundCpuInstruction(chip) : Moves(IF c.cpu < Goal THEN Preempted(c) ELSE c)
    BY <1>5 DEF PreemptStore
  <2>3. ASSUME NEW c \in stepSoundCpuInstruction(chip), Moves(IF c.cpu < Goal THEN Preempted(c) ELSE c)
        PROVE  IInv'
    <3>1. ChipOK(c) /\ c.held = chip.held /\ \E n \in Steps : c.cpu = chip.cpu + n
      BY <1>1, StepOK
    <3>2. CASE c.cpu < Goal
      <4>1. ChipOK(Preempted(c)) /\ Preempted(c).cpu = Goal /\ Preempted(c).held = c.held
        BY <1>1, <3>1, <3>2, PreemptedOK
      <4>2. Near(Preempted(c), Goal)
        BY <2>1, <3>1, <4>1, RunningMoves
      <4> QED
        BY <2>1, <2>3, <3>1, <3>2, <4>1, <4>2, MovesOK
    <3>3. CASE ~(c.cpu < Goal)
      <4>1. PICK n \in Steps : c.cpu = chip.cpu + n
        BY <3>1
      <4>2. PICK s \in setting.services : s \in Nat
        BY <1>1, SettingFacts DEF SettingOK
      <4>3. n \in Nat /\ c.cpu <= Goal + n + s - 1
        BY <1>1, <2>1, <4>1, <4>2, ReplayAssumption DEF Running
      <4>4. Near(c, Goal)
        BY <4>3 DEF Near
      <4> QED
        BY <2>1, <2>3, <3>1, <3>3, <4>4, MovesOK
    <3> QED
      BY <3>2, <3>3
  <2> QED
    BY <1>3, <2>1, <2>2, <2>3
<1> QED
  BY <1>2, <1>4, <1>5

LEMMA InitOK == Init => IInv
<1> SUFFICES ASSUME Init PROVE IInv
  OBVIOUS
<1>1. TypeOK
  <2>1. /\ tape \in Tapes /\ setting \in Settings /\ sched \in Nat \cup {None} /\ start \in Nat
        /\ phase \in {"between", "running"} /\ mark \in Nat
        /\ anchor \in [start : Nat \cup {None}, origin : Int]
    BY DEF Init, NoAnchor, None
  <2>2. chip \in ChipType
    BY DEF Init, ChipType
  <2>3. frame \in 0..(tape.total - 1)
    BY <2>1, ReplayAssumption DEF Init, IsTape
  <2>4. Len(Cmds) \in Nat
    BY <2>1, <2>3, ReplayAssumption DEF IsTape, Cmds
  <2>5. next \in 1..(Len(Cmds) + 1)
    BY <2>4 DEF Init
  <2> QED
    BY <2>1, <2>2, <2>3, <2>5 DEF TypeOK
<1>2. ChipOK(chip)
  BY <1>1 DEF Init, ChipOK, Waiting, InOrder, TypeOK
<1>3. AtStart /\ OnSchedule /\ NotLate
  BY DEF Init, AtStart, OnSchedule, NotLate
<1> QED
  BY <1>1, <1>2, <1>3 DEF IInv

-----------------------------------------------------------------------------
(* The steps of a frame and of the host.                                   *)

LEMMA TypeParts ==
    ASSUME TypeOK
    PROVE  /\ tape \in Tapes /\ setting \in Settings /\ chip \in ChipType /\ chip.cpu \in Nat
           /\ chip.held \in BOOLEAN /\ sched \in Nat \cup {None} /\ frame \in 0..(tape.total - 1)
           /\ start \in Nat /\ mark \in Nat /\ next \in 1..(Len(Cmds) + 1) /\ Len(Cmds) \in Nat
           /\ anchor \in [start : Nat \cup {None}, origin : Int] /\ tape.total \in Nat
           /\ LoopFrame \in 0..(tape.total - 1)
<1>1. tape.total \in Nat /\ Len(Cmds) \in Nat
  BY TapeFacts
<1>2. LoopFrame \in Nat /\ LoopFrame < tape.total
  BY ReplayAssumption DEF TypeOK
<1>3. LoopFrame \in 0..(tape.total - 1)
  BY <1>1, <1>2
<1>4. chip.cpu \in Nat /\ chip.held \in BOOLEAN
  BY DEF TypeOK, ChipType
<1> QED
  BY <1>1, <1>3, <1>4 DEF TypeOK

LEMMA LengthPrimed ==
    ASSUME tape' = tape, tape \in Tapes, frame' \in 0..(tape.total - 1)
    PROVE  Len(Cmds)' \in Nat
<1>1. tape.cmds[frame'] \in Seq(CommandType)
  BY ReplayAssumption DEF IsTape
<1> QED
  BY <1>1 DEF Cmds

LEMMA NextFrameOK ==
    ASSUME TypeOK, NextFrame
    PROVE  /\ frame' \in 0..(tape.total - 1)
           /\ anchor' \in [start : Nat \cup {None}, origin : Int]
<1>1. NoAnchor \in [start : Nat \cup {None}, origin : Int]
  BY DEF NoAnchor, None
<1>2. /\ frame \in 0..(tape.total - 1) /\ tape.total \in Nat /\ LoopFrame \in 0..(tape.total - 1)
      /\ anchor \in [start : Nat \cup {None}, origin : Int]
  BY TypeParts
<1>3. CASE frame + 1 < tape.total
  <2>1. frame' = frame + 1 /\ anchor' = anchor
    BY <1>3 DEF NextFrame
  <2> QED
    BY <1>2, <1>3, <2>1
<1>4. CASE ~(frame + 1 < tape.total)
  <2>1. frame' = LoopFrame /\ anchor' = NoAnchor
    BY <1>4 DEF NextFrame
  <2> QED
    BY <1>1, <1>2, <2>1
<1> QED
  BY <1>3, <1>4

LEMMA AnchoredOK ==
    ASSUME TypeOK, NEW st \in Nat
    PROVE  Anchored(st) \in [start : Nat \cup {None}, origin : Int]
BY TapeFacts, TypeParts DEF Anchored

LEMMA BeginOK == IInv /\ Begin => IInv'
<1> SUFFICES ASSUME IInv, Begin PROVE IInv'
  OBVIOUS
<1>1. /\ UNCHANGED <<tape, setting, chip, sched, frame, mark>> /\ phase = "between"
      /\ start' = FrameStart /\ next' = 1 /\ phase' = "running" /\ anchor' = Anchored(FrameStart)
  BY DEF Begin, constants
<1>2. TypeOK /\ SettingOK
  BY IInvSetting DEF IInv
<1>3. FrameStart \in Nat
  BY <1>2, TypeParts DEF FrameStart
<1>4. TypeOK'
  <2>1. anchor' \in [start : Nat \cup {None}, origin : Int]
    BY <1>1, <1>2, <1>3, AnchoredOK
  <2>2. Cmds' = Cmds
    BY <1>1 DEF Cmds
  <2> QED
    BY <1>1, <1>2, <1>3, <2>1, <2>2, TypeParts DEF TypeOK
<1>5. ChipOK(chip)'
  BY <1>1, ChipPrimed DEF IInv
<1>6. AtStart' /\ OnSchedule'
  BY <1>1 DEF AtStart, OnSchedule
<1>7. ~chip.held => Near(chip, mark) \/ Near(chip, FrameStart)
  <2>1. CASE sched # None
    BY <1>1, <2>1 DEF IInv, OnSchedule, FrameStart
  <2>2. CASE sched = None
    BY <2>2, <1>2, TypeParts, NearOK DEF FrameStart
  <2> QED
    BY <2>1, <2>2
<1>8. NotLate'
  BY <1>1, <1>7 DEF NotLate, Near
<1> QED
  BY <1>4, <1>5, <1>6, <1>8 DEF IInv

LEMMA BeginSkippedOK == IInv /\ BeginSkipped => IInv'
<1> SUFFICES ASSUME IInv, BeginSkipped PROVE IInv'
  OBVIOUS
<1>1. /\ UNCHANGED <<tape, setting, chip, sched, phase, start, next, mark>>
      /\ phase = "between" /\ chip.held /\ NextFrame
  BY DEF BeginSkipped, constants
<1>2. TypeOK /\ next = 1
  BY <1>1 DEF IInv, AtStart
<1>3. TypeOK'
  <2>1. frame' \in 0..(tape.total - 1) /\ anchor' \in [start : Nat \cup {None}, origin : Int]
    BY <1>1, <1>2, NextFrameOK
  <2>2. Len(Cmds)' \in Nat
    BY <1>1, <1>2, <2>1, TypeParts, LengthPrimed
  <2> QED
    BY <1>1, <1>2, <2>1, <2>2, TypeParts DEF TypeOK
<1>4. ChipOK(chip)'
  BY <1>1, ChipPrimed DEF IInv
<1>5. AtStart' /\ OnSchedule' /\ NotLate'
  BY <1>1, <1>2 DEF AtStart, OnSchedule, NotLate
<1> QED
  BY <1>3, <1>4, <1>5 DEF IInv

LEMMA BeginReleasingOK == IInv /\ BeginReleasing => IInv'
<1> SUFFICES ASSUME IInv, BeginReleasing PROVE IInv'
  OBVIOUS
<1> DEFINE first == setting.firstFetch > 0 /\ Cmds # <<>>
           delay == IF first THEN Target(0, 1) + setting.firstFetch ELSE setting.release
           r == releaseSoundReset(chip)
<1>1. /\ UNCHANGED <<tape, setting, frame>> /\ phase = "between"
      /\ chip' = ReleaseDelayed(r, delay) /\ next' \in 1..(Len(Cmds) + 1)
      /\ phase' = "running" /\ start' = 0 /\ sched' = None
      /\ mark' = chip'.cpu /\ anchor' = Anchored(0)
  BY DEF BeginReleasing, constants
<1>2. TypeOK /\ SettingOK /\ ChipOK(chip)
  BY IInvSetting DEF IInv
<1>3. delay \in Nat
  <2>1. CASE first
    <3>1. 1 \in 1..Len(Cmds)
      <4>1. Cmds \in Seq(CommandType) /\ Cmds # <<>>
        BY <1>2, <2>1, TapeFacts
      <4> QED
        BY <4>1
    <3>2. Target(0, 1) \in Nat
      BY <1>2, <3>1, TargetOK
    <3> QED
      BY <1>2, <2>1, <3>2, SettingFacts
  <2>2. CASE ~first
    BY <1>2, <2>2, SettingFacts
  <2> QED
    BY <2>1, <2>2
<1> HIDE DEF delay
<1>4. ChipOK(r)
  BY <1>2, ResetsOK
<1> HIDE DEF r
<1>5. ChipOK(chip')
  BY <1>1, <1>2, <1>3, <1>4, ElapsedChipOK DEF ReleaseDelayed
<1>6. ChipOK(chip)'
  BY <1>1, <1>5, ChipPrimed
<1>7. TypeOK'
  <2>1. anchor' \in [start : Nat \cup {None}, origin : Int]
    BY <1>1, <1>2, AnchoredOK
  <2>2. Cmds' = Cmds
    BY <1>1 DEF Cmds
  <2>3. chip' \in ChipType /\ chip'.cpu \in Nat
    BY <1>5 DEF ChipOK, ChipType
  <2> QED
    BY <1>1, <1>2, <2>1, <2>2, <2>3, TypeParts DEF TypeOK, None
<1>8. AtStart' /\ OnSchedule'
  BY <1>1 DEF AtStart, OnSchedule
<1>9. NotLate'
  <2>1. chip'.cpu \in Nat /\ mark' = chip'.cpu
    BY <1>1, <1>5 DEF ChipOK, ChipType
  <2>2. Near(chip', mark')
    BY <1>2, <2>1, NearOK
  <2>3. (Near(chip, mark))'
    BY <1>1, <2>2 DEF Near
  <2> QED
    BY <2>3 DEF NotLate
<1> QED
  BY <1>6, <1>7, <1>8, <1>9 DEF IInv

LEMMA SubmitChip ==
    ASSUME IInv, Submit
    PROVE  /\ ChipOK(chip') /\ chip'.held = chip.held
           /\ ~chip.held => /\ Goal <= chip'.cpu
                            /\ \/ Near(chip', mark)
                               \/ \E k \in 1..next : Near(chip', Target(start, k))
<1>1. TypeOK /\ SettingOK /\ ChipOK(chip) /\ Goal \in Nat /\ chip.cpu \in Nat
  BY IInvSetting, GoalOK, TypeParts DEF IInv
<1>2. ~AllSent /\ next \in 1..Len(Cmds) /\ next \in 1..next /\ Goal = Target(start, next)
      /\ phase = "running" /\ (Reached \/ setting.early)
  BY <1>1, TypeParts DEF Submit, AllSent, Goal
<1>3. CASE setting.early /\ chip.cpu < Goal
  <2>1. chip' = Preempted(chip)
    BY <1>3 DEF Submit
  <2>2. ChipOK(chip') /\ chip'.cpu = Goal /\ chip'.held = chip.held
    BY <1>1, <1>3, <2>1, PreemptedOK
  <2>3. Near(chip', Goal) /\ Goal <= chip'.cpu
    BY <1>1, <2>2, NearOK
  <2> QED
    BY <1>2, <2>2, <2>3
<1>4. CASE ~(setting.early /\ chip.cpu < Goal)
  <2>1. chip' = chip
    BY <1>4 DEF Submit
  <2>2. ASSUME ~chip.held
        PROVE  /\ Goal <= chip'.cpu
               /\ \/ Near(chip', mark)
                  \/ \E k \in 1..next : Near(chip', Target(start, k))
    <3>1. Goal <= chip'.cpu
      BY <1>1, <1>2, <1>4, <2>1, <2>2 DEF Reached
    <3>2. \/ Near(chip, mark) \/ Near(chip, start)
          \/ \E k \in 1..Len(Cmds) : k <= next /\ Near(chip, Target(start, k))
      BY <1>2, <2>2 DEF IInv, NotLate
    <3>3. CASE Near(chip, start)
      <4>1. start \in Nat /\ 1 \in 1..Len(Cmds) /\ 1 \in 1..next
        BY <1>1, <1>2, TypeParts
      <4>2. Target(start, 1) \in Nat /\ start <= Target(start, 1)
        BY <1>1, <4>1, TargetOK
      <4>3. Near(chip, Target(start, 1))
        BY <1>1, <3>3, <4>1, <4>2, NearOK
      <4> QED
        BY <2>1, <3>1, <4>1, <4>3
    <3>4. CASE \E k \in 1..Len(Cmds) : k <= next /\ Near(chip, Target(start, k))
      <4>1. PICK k \in 1..Len(Cmds) : k <= next /\ Near(chip, Target(start, k))
        BY <3>4
      <4>2. k \in 1..next
        BY <1>2, <4>1
      <4> QED
        BY <2>1, <3>1, <4>1, <4>2
    <3> QED
      BY <2>1, <3>1, <3>2, <3>3, <3>4
  <2> QED
    BY <1>1, <2>1, <2>2
<1> QED
  BY <1>3, <1>4

LEMMA SubmitOK == IInv /\ Submit => IInv'
<1> SUFFICES ASSUME IInv, Submit PROVE IInv'
  OBVIOUS
<1>1. /\ UNCHANGED <<tape, setting, sched, phase, frame, start, mark, anchor>>
      /\ next' = next + 1 /\ phase = "running" /\ ~AllSent
  BY DEF Submit, constants
<1>2. /\ ChipOK(chip') /\ chip'.held = chip.held
      /\ ~chip.held => \/ Near(chip', mark)
                       \/ \E k \in 1..next : Near(chip', Target(start, k))
  BY SubmitChip
<1>3. TypeOK /\ next \in 1..Len(Cmds) /\ Len(Cmds) \in Nat
  BY <1>1, TypeParts DEF IInv, AllSent
<1>4. TypeOK'
  <2>1. Cmds' = Cmds
    BY <1>1 DEF Cmds
  <2>2. next' \in 1..(Len(Cmds) + 1) /\ chip' \in ChipType
    BY <1>1, <1>2, <1>3 DEF ChipOK
  <2> QED
    BY <1>1, <1>3, <2>1, <2>2, TypeParts DEF TypeOK
<1>5. ChipOK(chip)'
  BY <1>1, <1>2, ChipPrimed
<1>6. AtStart' /\ OnSchedule'
  BY <1>1 DEF AtStart, OnSchedule
<1>7. NotLate'
  <2> SUFFICES ASSUME ~chip.held
               PROVE  (\/ Near(chip, mark)
                       \/ \E k \in 1..Len(Cmds) : k <= next /\ Near(chip, Target(start, k)))'
    BY <1>2 DEF NotLate
  <2>1. CASE Near(chip', mark)
    BY <1>1, <2>1 DEF Near
  <2>2. ASSUME NEW k \in 1..next, Near(chip', Target(start, k))
        PROVE  (\E k1 \in 1..Len(Cmds) : k1 <= next /\ Near(chip, Target(start, k1)))'
    <3>1. k \in 1..Len(Cmds) /\ k <= next'
      BY <1>1, <1>3, <2>2
    <3>2. (k \in 1..Len(Cmds) /\ k <= next /\ Near(chip, Target(start, k)))'
      BY <1>1, <2>2, <3>1 DEF Near, Target, Cmds, Cycles
    <3> QED
      BY <3>2
  <2> QED
    BY <1>2, <2>1, <2>2
<1> QED
  BY <1>4, <1>5, <1>6, <1>7 DEF IInv

LEMMA EndFrameOK == IInv /\ EndFrame => IInv'
<1> SUFFICES ASSUME IInv, EndFrame PROVE IInv'
  OBVIOUS
<1>1. /\ UNCHANGED <<tape, setting, chip, start, mark>> /\ phase = "running" /\ AllSent /\ Reached
      /\ sched' = FrameEnd /\ phase' = "between" /\ next' = 1 /\ NextFrame
  BY DEF EndFrame, constants, Schedule
<1>2. TypeOK /\ SettingOK /\ FrameEnd \in Nat /\ start <= FrameEnd /\ chip.cpu \in Nat
      /\ start \in Nat /\ Goal = FrameEnd
  BY <1>1, IInvSetting, GoalOK, TypeParts DEF IInv, Goal
<1>3. TypeOK'
  <2>1. frame' \in 0..(tape.total - 1) /\ anchor' \in [start : Nat \cup {None}, origin : Int]
    BY <1>1, <1>2, NextFrameOK
  <2>2. Len(Cmds)' \in Nat
    BY <1>1, <1>2, <2>1, TypeParts, LengthPrimed
  <2> QED
    BY <1>1, <1>2, <2>1, <2>2, TypeParts DEF TypeOK
<1>4. ChipOK(chip)'
  BY <1>1, ChipPrimed DEF IInv
<1>5. ASSUME ~chip.held PROVE FrameEnd <= chip.cpu /\ (Near(chip, FrameEnd) \/ Near(chip, mark))
  <2>1. FrameEnd <= chip.cpu
    BY <1>1, <1>2, <1>5 DEF Reached
  <2>2. \/ Near(chip, mark) \/ Near(chip, start) \/ Near(chip, FrameEnd)
        \/ \E k \in 1..Len(Cmds) : k <= next /\ Near(chip, Target(start, k))
    BY <1>1, <1>5 DEF IInv, NotLate
  <2>3. ASSUME NEW k \in 1..Len(Cmds), Near(chip, Target(start, k)) PROVE Near(chip, FrameEnd)
    <3>1. Target(start, k) \in Nat /\ Target(start, k) <= FrameEnd
      BY <1>2, TargetOK DEF FrameEnd
    <3> QED
      BY <1>2, <2>3, <3>1, NearOK
  <2>4. Near(chip, start) => Near(chip, FrameEnd)
    BY <1>2, NearOK
  <2> QED
    BY <2>1, <2>2, <2>3, <2>4
<1>6. AtStart' /\ OnSchedule' /\ NotLate'
  BY <1>1, <1>5 DEF AtStart, OnSchedule, NotLate, Near
<1> QED
  BY <1>3, <1>4, <1>6 DEF IInv

LEMMA HostOK == IInv /\ (HostTick \/ HostReset) => IInv'
<1> SUFFICES ASSUME IInv, HostTick \/ HostReset PROVE IInv'
  OBVIOUS
<1>1. TypeOK /\ SettingOK /\ ChipOK(chip) /\ next = 1 /\ phase = "between"
  BY IInvSetting DEF IInv, AtStart, HostTick, HostReset
<1>2. CASE HostTick
  <2>1. PICK c \in tickCycles(chip) : chip' = c /\ mark' = c.cpu
    BY <1>2 DEF HostTick
  <2>2. UNCHANGED <<tape, setting, sched, phase, frame, start, next, anchor>> /\ ~chip.held
    BY <1>2 DEF HostTick, constants
  <2>3. /\ ChipOK(c) /\ c.held = chip.held
        /\ \E n \in Steps, s \in setting.services : c.cpu = chip.cpu + n + s
    BY <1>1, TickOK
  <2>4. c.cpu \in Nat /\ c \in ChipType /\ chip.cpu \in Nat /\ chip.cpu <= c.cpu
    BY <1>1, <2>3, SettingFacts, ReplayAssumption DEF ChipOK, ChipType
  <2>5. Near(c, c.cpu)
    BY <1>1, <2>4, NearOK
  <2>6. TypeOK'
    BY <1>1, <2>1, <2>2, <2>4 DEF TypeOK, Cmds
  <2>7. ChipOK(chip)'
    BY <2>1, <2>2, <2>3, ChipPrimed
  <2>8. AtStart' /\ NotLate'
    BY <1>1, <2>2 DEF AtStart, NotLate
  <2>9. OnSchedule'
    <3>1. (Near(chip, mark))'
      BY <2>1, <2>2, <2>5 DEF Near
    <3>2. sched # None => sched <= chip'.cpu
      BY <1>1, <2>1, <2>2, <2>4, TypeParts DEF IInv, OnSchedule
    <3> QED
      BY <2>2, <3>1, <3>2 DEF OnSchedule
  <2> QED
    BY <2>6, <2>7, <2>8, <2>9 DEF IInv
<1>3. CASE HostReset
  <2>1. /\ UNCHANGED <<tape, setting, phase, start, next>> /\ frame' \in {frame, 0}
        /\ sched' = None /\ mark' = chip'.cpu /\ anchor' = NoAnchor
        /\ chip' \in {releaseSoundReset(chip), holdSoundReset(chip), resetSoundChip(chip)}
    BY <1>3 DEF HostReset, constants
  <2>2. ChipOK(chip')
    BY <1>1, <2>1, ResetsOK
  <2>3. chip' \in ChipType /\ chip'.cpu \in Nat
    BY <2>2 DEF ChipOK, ChipType
  <2>4. frame' \in 0..(tape.total - 1)
    BY <1>1, <2>1, TypeParts
  <2>5. Len(Cmds)' \in Nat
    BY <1>1, <2>1, <2>4, TypeParts, LengthPrimed
  <2>6. anchor' \in [start : Nat \cup {None}, origin : Int]
    BY <2>1 DEF NoAnchor, None
  <2>7. TypeOK'
    BY <1>1, <2>1, <2>3, <2>4, <2>5, <2>6, TypeParts DEF TypeOK
  <2>8. ChipOK(chip)'
    BY <2>1, <2>2, ChipPrimed
  <2>9. AtStart' /\ OnSchedule' /\ NotLate'
    BY <1>1, <2>1 DEF AtStart, OnSchedule, NotLate
  <2> QED
    BY <2>7, <2>8, <2>9 DEF IInv
<1> QED
  BY <1>2, <1>3

LEMMA StutterOK == IInv /\ UNCHANGED vars => IInv'
<1> SUFFICES ASSUME IInv, UNCHANGED vars PROVE IInv'
  OBVIOUS
<1>1. UNCHANGED <<tape, setting, chip, sched, phase, frame, start, next, mark, anchor>>
  BY DEF vars
<1>2. TypeOK'
  BY <1>1 DEF IInv, TypeOK, Cmds
<1>3. ChipOK(chip)'
  BY <1>1, ChipPrimed DEF IInv
<1>4. AtStart' /\ OnSchedule'
  BY <1>1 DEF IInv, AtStart, OnSchedule, Near
<1>5. NotLate'
  BY <1>1 DEF IInv, NotLate, Near, AllSent, FrameEnd, Target, Cmds, Cycles
<1> QED
  BY <1>2, <1>3, <1>4, <1>5 DEF IInv

THEOREM Invariance == Spec => []IInv
<1>1. IInv /\ [Next]_vars => IInv'
  BY BeginOK, BeginSkippedOK, BeginReleasingOK, SubmitOK, EndFrameOK, ExecuteOK, HostOK, StutterOK
     DEF Next, Play
<1> QED
  BY <1>1, InitOK, PTL DEF Spec

-----------------------------------------------------------------------------
(* The state of a replay, the chip and the histories keep their types.     *)
THEOREM TypeCorrect == Spec => []TypeOK
<1>1. IInv => TypeOK
  BY DEF IInv
<1> QED
  BY <1>1, Invariance, PTL

(* The devices and the 6502 stay in step, and the schedule is followed to  *)
(* within one instruction, for tapes of any length.                        *)
THEOREM AlwaysInStep == Spec => []InStep
<1>1. IInv => InStep
  BY DEF IInv, ChipOK, OnSchedule, InStep
<1> QED
  BY <1>1, Invariance, PTL

(* Delayed POKEY writes are never late, never left behind by a reset, and  *)
(* never out of order under one delay.                                     *)
THEOREM WritesAlwaysOnTime == Spec => []WritesOnTime
<1>1. IInv => WritesOnTime
  <2> SUFFICES ASSUME IInv PROVE WritesOnTime
    OBVIOUS
  <2>1. \A w \in chip.writes : chip.dev < w.cycle /\ \E d \in setting.delays : w.cycle < chip.dev + 0 + d
    BY DEF IInv, ChipOK, Waiting
  <2>2. chip.dev \in Nat /\ setting.delays \subseteq Nat
    BY IInvSetting, SettingFacts DEF IInv, ChipOK, ChipType
  <2>3. \A d \in Nat : chip.dev + 0 + d = chip.dev + d
    BY <2>2
  <2>4. Uniform => ~chip.over
    BY DEF IInv, ChipOK, InOrder
  <2> QED
    BY <2>1, <2>2, <2>3, <2>4 DEF WritesOnTime, Uniform
<1> QED
  BY <1>1, Invariance, PTL

(* A running 6502 gets every command of every tape at its cycle or within  *)
(* one instruction after it or after a command that goes before it.        *)
THEOREM CommandsOnTime == Spec => OnTime
<1> DEFINE Timely == (phase = "running" /\ next' = next + 1 /\ ~chip.held)
                       => /\ Goal <= chip'.cpu
                          /\ \/ Near(chip', mark)
                             \/ \E k \in 1..next : Near(chip', Target(start, k))
<1>1. IInv /\ [Next]_vars => [Timely]_vars
  <2> SUFFICES ASSUME IInv, Next, phase = "running", next' = next + 1, ~chip.held
               PROVE  /\ Goal <= chip'.cpu
                      /\ \/ Near(chip', mark)
                         \/ \E k \in 1..next : Near(chip', Target(start, k))
    BY DEF Timely
  <2>1. next \in Nat /\ next' # next /\ next' # 1
    BY TypeParts DEF IInv
  <2>2. Submit
    BY <2>1 DEF Next, Play, Begin, BeginSkipped, BeginReleasing, EndFrame, Execute, PreemptIrq,
                PreemptStore, Moves, HostTick, HostReset
  <2> QED
    BY <2>2, SubmitChip
<1> HIDE DEF Timely
<1>2. Spec => [][Timely]_vars
  BY <1>1, Invariance, PTL DEF Spec
<1> QED
  BY <1>2 DEF OnTime, Timely

-----------------------------------------------------------------------------
(* Numbers: the least of a set, and functions defined from one to the next. *)

LEMMA NatLessIsWellFounded == IsWellFoundedOn({p \in Nat \X Nat : p[1] < p[2]}, Nat)
  BY NatLessThanWellFounded DEF OpToRel

LEMMA LeastExists ==
    ASSUME NEW S \in SUBSET Nat, S # {}
    PROVE  \E m \in S : \A n \in S : m <= n
<1> DEFINE Less == {p \in Nat \X Nat : p[1] < p[2]}
<1>1. IsWellFoundedOn(Less, Nat)
  BY NatLessIsWellFounded
<1>2. IsWellFoundedOn(Less, S)
  BY <1>1, IsWellFoundedOnSubset
<1>3. \A x, y \in Nat : x < y => <<x, y>> \in Less
  OBVIOUS
<1> HIDE DEF Less
<1>4. PICK m \in S : \A n \in S : <<n, m>> \notin Less
  BY <1>2, WFMin
<1>5. \A n \in S : n \in Nat /\ m \in Nat /\ ~(n < m)
  BY <1>3, <1>4
<1> QED BY <1>5

LEMMA NoCounterexample ==
    ASSUME NEW S \in SUBSET Nat, 0 \notin S, \A n \in Nat : n + 1 \in S => n \in S
    PROVE  S = {}
<1> SUFFICES ASSUME S # {} PROVE FALSE
  OBVIOUS
<1>1. PICK m \in S : \A n \in S : m <= n
  BY LeastExists
<1>2. m \in Nat /\ m # 0
  BY <1>1
<1>3. m - 1 \in Nat /\ (m - 1) + 1 = m
  BY <1>2
<1> QED BY <1>1, <1>3

(* A function of sums over 0..n, as the LET of Played defines it.          *)
IsSum(s, d, n) == s = [i \in 0..n |-> IF i = 0 THEN 0 ELSE s[i-1] + d[i-1]]

LEMMA SumExists ==
    ASSUME NEW n \in Nat, NEW d, \A i \in 0..n : d[i] \in Nat
    PROVE  \E s \in [0..n -> Nat] : IsSum(s, d, n)
<1> DEFINE Has(k) == \E s \in [0..k -> Nat] : IsSum(s, d, k)
           S == {k \in 0..n : ~Has(k)}
<1>1. 0 \notin S
  <2>1. IsSum([i \in 0..0 |-> 0], d, 0)
    BY DEF IsSum
  <2>2. [i \in 0..0 |-> 0] \in [0..0 -> Nat]
    OBVIOUS
  <2> QED BY <2>1, <2>2
<1>2. ASSUME NEW k \in Nat, k + 1 \in S PROVE k \in S
  <2>1. k \in 0..n
    BY <1>2
  <2> SUFFICES ASSUME Has(k) PROVE Has(k + 1)
    BY <1>2, <2>1
  <2>2. PICK s \in [0..k -> Nat] : IsSum(s, d, k)
    OBVIOUS
  <2> DEFINE u == [i \in 0..k+1 |-> IF i <= k THEN s[i] ELSE s[k] + d[k]]
  <2>3. \A i \in 0..k : s[i] = IF i = 0 THEN 0 ELSE s[i-1] + d[i-1]
    BY <2>2 DEF IsSum
  <2>4. s[k] \in Nat /\ d[k] \in Nat
    BY <2>1
  <2>5. u \in [0..k+1 -> Nat]
    BY <2>4
  <2>6. ASSUME NEW i \in 0..k+1 PROVE u[i] = IF i = 0 THEN 0 ELSE u[i-1] + d[i-1]
    <3>1. CASE i \in 0..k
      <4>1. u[i] = s[i] /\ (i # 0 => u[i-1] = s[i-1])
        BY <3>1
      <4> QED BY <2>3, <3>1, <4>1
    <3>2. CASE i = k + 1
      <4>1. u[i] = s[k] + d[k] /\ u[k] = s[k] /\ i - 1 = k /\ i # 0
        BY <3>2
      <4> HIDE DEF u
      <4> QED BY <3>2, <4>1
    <3> QED BY <3>1, <3>2
  <2> HIDE DEF u
  <2>7. IsSum(u, d, k + 1)
    BY <2>5, <2>6 DEF IsSum
  <2> QED BY <2>5, <2>7
<1>3. S \in SUBSET Nat /\ n \in 0..n
  OBVIOUS
<1> HIDE DEF S
<1>4. S = {}
  BY <1>1, <1>2, <1>3, NoCounterexample
<1> QED BY <1>3, <1>4 DEF S

LEMMA PlayedIs ==
    ASSUME NEW t, t.total \in Nat, \A f \in 0..t.total : t.len[f] \in Nat
    PROVE  /\ \A f \in 0..t.total : Played(t)[f] \in Nat
           /\ \A f \in 0..t.total : f + 1 \in 0..t.total => Played(t)[f + 1] = Played(t)[f] + t.len[f]
<1> DEFINE s == CHOOSE s : IsSum(s, t.len, t.total)
<1>1. \E f \in [0..t.total -> Nat] : IsSum(f, t.len, t.total)
  <2> DEFINE d == t.len
             n == t.total
  <2>1. n \in Nat /\ \A i \in 0..n : d[i] \in Nat
    OBVIOUS
  <2> HIDE DEF d, n
  <2>2. \E f \in [0..n -> Nat] : IsSum(f, d, n)
    BY <2>1, SumExists
  <2> QED BY <2>2 DEF d, n
<1>2. IsSum(s, t.len, t.total)
  BY <1>1
<1>3. Played(t) = s
  BY DEF Played, IsSum
<1> HIDE DEF s
<1>4. \A i \in 0..t.total : s[i] = IF i = 0 THEN 0 ELSE s[i-1] + t.len[i-1]
  BY <1>2 DEF IsSum
<1>5. \A f \in 0..t.total : s[f] \in Nat
  <2> DEFINE S == {f \in 0..t.total : s[f] \notin Nat}
  <2>1. S \in SUBSET Nat /\ 0 \notin S
    BY <1>4
  <2>2. \A f \in Nat : f + 1 \in S => f \in S
    <3> SUFFICES ASSUME NEW f \in Nat, f + 1 \in 0..t.total, s[f] \in Nat
                 PROVE  s[f + 1] \in Nat
      OBVIOUS
    <3>1. s[f + 1] = s[f] + t.len[f] /\ t.len[f] \in Nat
      BY <1>4
    <3> QED BY <3>1
  <2> HIDE DEF S
  <2>3. S = {}
    BY <2>1, <2>2, NoCounterexample
  <2> QED BY <2>3 DEF S
<1>6. ASSUME NEW f \in 0..t.total, f + 1 \in 0..t.total PROVE s[f + 1] = s[f] + t.len[f]
  BY <1>4, <1>6
<1> QED BY <1>3, <1>5, <1>6

-----------------------------------------------------------------------------
(* The schedule follows the tape: since the frame it was anchored in, it   *)
(* has moved by the lengths of the frames played.                          *)

OnTape(s) ==
    \E f \in 0..tape.total :
        /\ tape.origin[f] # None /\ anchor.origin = tape.origin[f]
        /\ anchor.start \in Nat
        /\ s - anchor.start = Played(tape)[frame] - Played(tape)[f]

TimeInv ==
    /\ setting.auto /\ chip.held => phase = "between" /\ anchor = NoAnchor
    /\ anchor # NoAnchor /\ phase = "between" => sched # None /\ OnTape(sched)
    /\ anchor # NoAnchor /\ phase = "running" => OnTape(start)

LEMMA TapePlayed ==
    ASSUME TypeOK
    PROVE  /\ frame \in 0..tape.total /\ InTime(tape)
           /\ \A f \in 0..tape.total : Played(tape)[f] \in Nat /\ tape.origin[f] \in Int
           /\ \A f \in 0..tape.total : f + 1 \in 0..tape.total =>
                Played(tape)[f + 1] = Played(tape)[f] + tape.len[f]
<1>1. IsTape(tape) /\ InTime(tape) /\ frame \in 0..(tape.total - 1)
  BY ReplayAssumption DEF TypeOK
<1>2. /\ tape.total \in Nat /\ \A f \in 0..tape.total : tape.len[f] \in Nat
      /\ \A f \in 0..tape.total : tape.origin[f] \in Int
  BY <1>1 DEF IsTape
<1>3. frame \in 0..tape.total
  BY <1>1, <1>2
<1> QED BY <1>1, <1>2, <1>3, PlayedIs

(* A frame that begins at s with the schedule there is anchored there, if  *)
(* it is dated and no frame before it was.                                 *)
LEMMA AnchoredOnTape ==
    ASSUME TypeOK, NEW s \in Nat, anchor # NoAnchor => OnTape(s),
           tape' = tape, frame' = frame, anchor' = Anchored(s), start' = s
    PROVE  (anchor # NoAnchor => OnTape(start))'
<1>1. CASE anchor = NoAnchor /\ tape.origin[frame] # None
  <2>1. anchor' = [start |-> s, origin |-> tape.origin[frame]]
    BY <1>1 DEF Anchored
  <2>2. frame \in 0..tape.total /\ Played(tape)[frame] \in Nat
    BY TapePlayed
  <2>3. s - s = Played(tape)[frame] - Played(tape)[frame]
    BY <2>2
  <2>4. /\ anchor'.start = s /\ anchor'.origin = tape.origin[frame]
        /\ start' - anchor'.start = Played(tape)[frame] - Played(tape)[frame]
    BY <2>1, <2>3
  <2>5. \E f \in 0..tape'.total :
          /\ tape'.origin[f] # None /\ anchor'.origin = tape'.origin[f]
          /\ anchor'.start \in Nat
          /\ start' - anchor'.start = Played(tape')[frame'] - Played(tape')[f]
    BY <1>1, <2>2, <2>4
  <2> QED BY <2>5 DEF OnTape
<1>2. CASE ~(anchor = NoAnchor /\ tape.origin[frame] # None)
  <2>1. anchor' = anchor
    BY <1>2 DEF Anchored
  <2> QED BY <2>1 DEF OnTape
<1> QED BY <1>1, <1>2

(* Only a reset holds the 6502, and only the first frame of a tape lets it *)
(* go.                                                                     *)
LEMMA ResetFields ==
    ASSUME ChipOK(chip), NEW n \in Nat
    PROVE  Elapsed(releaseSoundReset(chip), n).held = FALSE
<1>1. chip \in ChipType
  BY DEF ChipOK
<1>2. releaseSoundReset(chip) \in ChipType /\ releaseSoundReset(chip).held = FALSE
  BY <1>1 DEF releaseSoundReset, Cleared, ChipType
<1> QED BY <1>2, ElapsedFields

LEMMA ReleasedFor ==
    ASSUME IInv, BeginReleasing
    PROVE  \E n \in Nat : chip' = Elapsed(releaseSoundReset(chip), n)
<1> DEFINE first == setting.firstFetch > 0 /\ Cmds # <<>>
           delay == IF first THEN Target(0, 1) + setting.firstFetch ELSE setting.release
<1>1. chip' = Elapsed(releaseSoundReset(chip), delay)
  BY DEF BeginReleasing, ReleaseDelayed
<1>2. TypeOK /\ SettingOK
  BY IInvSetting DEF IInv
<1>3. delay \in Nat
  <2>1. CASE first
    <3>1. Cmds \in Seq(CommandType) /\ Cmds # <<>>
      BY <1>2, <2>1, TapeFacts
    <3>2. 1 \in 1..Len(Cmds)
      BY <3>1
    <3>3. Target(0, 1) \in Nat
      BY <1>2, <3>2, TargetOK
    <3> QED BY <1>2, <2>1, <3>3, SettingFacts
  <2>2. CASE ~first
    BY <1>2, <2>2, SettingFacts
  <2> QED BY <2>1, <2>2
<1> HIDE DEF delay
<1> QED BY <1>1, <1>3

LEMMA TimeInvBegin == IInv /\ TimeInv /\ (Begin \/ BeginSkipped \/ BeginReleasing) => TimeInv'
<1> SUFFICES ASSUME IInv, TimeInv, Begin \/ BeginSkipped \/ BeginReleasing PROVE TimeInv'
  OBVIOUS
<1>t. TypeOK /\ SettingOK /\ ChipOK(chip)
  BY IInvSetting DEF IInv
<1>1. CASE Begin
  <2>1. /\ UNCHANGED <<tape, setting, chip, sched, frame>> /\ phase = "between"
        /\ ~(setting.auto /\ chip.held)
        /\ start' = FrameStart /\ phase' = "running" /\ anchor' = Anchored(FrameStart)
    BY <1>1 DEF Begin, constants
  <2>2. FrameStart \in Nat /\ (anchor # NoAnchor => OnTape(FrameStart))
    BY <1>t, <2>1, TypeParts DEF FrameStart, TimeInv
  <2>3. (anchor # NoAnchor => OnTape(start))'
    BY <1>t, <2>1, <2>2, AnchoredOnTape
  <2> QED BY <2>1, <2>3 DEF TimeInv
<1>2. CASE BeginSkipped
  <2>1. /\ UNCHANGED <<tape, setting, chip, sched, phase, start>> /\ phase = "between"
        /\ setting.auto /\ chip.held /\ NextFrame
    BY <1>2 DEF BeginSkipped, constants
  <2>2. anchor' = NoAnchor
    BY <2>1 DEF TimeInv, NextFrame
  <2> QED BY <2>1, <2>2 DEF TimeInv
<1>3. CASE BeginReleasing
  <2>1. /\ UNCHANGED <<tape, setting, frame>> /\ phase = "between" /\ setting.auto /\ chip.held
        /\ phase' = "running" /\ start' = 0 /\ anchor' = Anchored(0)
    BY <1>3 DEF BeginReleasing, constants
  <2>2. ~chip'.held
    <3>1. PICK n \in Nat : chip' = Elapsed(releaseSoundReset(chip), n)
      BY <1>3, ReleasedFor
    <3> QED BY <1>t, <3>1, ResetFields
  <2>3. (anchor # NoAnchor => OnTape(start))'
    BY <1>t, <2>1, AnchoredOnTape DEF TimeInv
  <2> QED BY <2>1, <2>2, <2>3 DEF TimeInv
<1> QED BY <1>1, <1>2, <1>3

(* The 6502 that runs is not held by what it does.                         *)
LEMMA StaysFree ==
    ASSUME IInv, Execute \/ PreemptIrq \/ PreemptStore
    PROVE  ~chip'.held
<1>1. TypeOK /\ ChipOK(chip)
  BY DEF IInv
<1>2. ~chip.held /\ chip.cpu < Goal
  BY DEF Execute, PreemptIrq, PreemptStore, Running
<1>3. ChipOK(Preempted(chip)) /\ ~Preempted(chip).held
  BY <1>1, <1>2, PreemptedOK
<1>4. CASE Execute
  <2>1. chip' \in tickCycles(chip)
    BY <1>4 DEF Execute, Moves
  <2> QED BY <1>1, <1>2, <2>1, TickOK, IInvSetting
<1>5. CASE PreemptIrq
  BY <1>3, <1>5 DEF PreemptIrq, Moves
<1>6. CASE PreemptStore
  <2>1. \/ chip' = Preempted(chip)
        \/ \E c \in stepSoundCpuInstruction(chip) :
             chip' = IF c.cpu < Goal THEN Preempted(c) ELSE c
    BY <1>6 DEF PreemptStore, Moves
  <2>2. ASSUME NEW c \in stepSoundCpuInstruction(chip),
               chip' = IF c.cpu < Goal THEN Preempted(c) ELSE c
        PROVE  ~chip'.held
    <3>1. ChipOK(c) /\ c.held = chip.held
      BY <1>1, StepOK, IInvSetting
    <3>2. c.cpu < Goal => Preempted(c).held = c.held
      BY <1>1, <3>1, PreemptedOK
    <3> QED BY <1>2, <2>2, <3>1, <3>2
  <2> QED BY <1>3, <2>1, <2>2
<1> QED BY <1>4, <1>5, <1>6

LEMMA TimeInvPlay ==
    IInv /\ TimeInv /\ (Submit \/ EndFrame \/ Execute \/ PreemptIrq \/ PreemptStore) => TimeInv'
<1> SUFFICES ASSUME IInv, TimeInv,
                    Submit \/ EndFrame \/ Execute \/ PreemptIrq \/ PreemptStore
             PROVE  TimeInv'
  OBVIOUS
<1>t. TypeOK /\ phase = "running" /\ (anchor # NoAnchor => OnTape(start))
  BY DEF IInv, TimeInv, Submit, EndFrame, Execute, PreemptIrq, PreemptStore, Running
<1>h. ~(setting.auto /\ chip.held)
  BY <1>t DEF TimeInv
<1>1. ASSUME UNCHANGED <<tape, setting, sched, phase, frame, start, anchor>>,
             ~(setting.auto /\ chip'.held)
      PROVE  TimeInv'
  BY <1>t, <1>1 DEF TimeInv, OnTape
<1>2. CASE Submit
  <2>1. chip'.held = chip.held
    BY <1>2, SubmitChip
  <2> QED BY <1>1, <1>2, <1>h, <2>1 DEF Submit, constants
<1>3. CASE Execute \/ PreemptIrq \/ PreemptStore
  <2>1. UNCHANGED <<tape, setting, sched, phase, frame, start, anchor>>
    BY <1>3 DEF Execute, PreemptIrq, PreemptStore, Moves, constants
  <2> QED BY <1>1, <1>3, <2>1, StaysFree
<1>4. CASE EndFrame
  <2>1. /\ UNCHANGED <<tape, setting, chip>> /\ sched' = start + Cycles
        /\ phase' = "between" /\ NextFrame
    BY <1>4 DEF EndFrame, constants, Schedule, FrameEnd
  <2>2. start \in Nat /\ Cycles \in Nat /\ frame \in 0..(tape.total - 1) /\ tape.total \in Nat
    BY <1>t, TypeParts, TapeFacts
  <2>3. CASE anchor = NoAnchor \/ ~(frame + 1 < tape.total)
    <3>1. anchor' = NoAnchor
      BY <2>1, <2>3 DEF NextFrame
    <3> QED BY <1>h, <2>1, <3>1 DEF TimeInv
  <2>4. CASE anchor # NoAnchor /\ frame + 1 < tape.total
    <3>1. frame' = frame + 1 /\ anchor' = anchor
      BY <2>1, <2>4 DEF NextFrame
    <3>2. PICK f \in 0..tape.total :
            /\ tape.origin[f] # None /\ anchor.origin = tape.origin[f]
            /\ anchor.start \in Nat
            /\ start - anchor.start = Played(tape)[frame] - Played(tape)[f]
      BY <1>t, <2>4 DEF OnTape
    <3> DEFINE here == Played(tape)[frame]
               there == Played(tape)[frame + 1]
               then == Played(tape)[f]
               len == Cycles
    <3>3. frame \in 0..tape.total /\ frame + 1 \in 0..tape.total
      BY <2>2, <2>4
    <3>4. there = here + len /\ here \in Nat /\ then \in Nat
      BY <1>t, <3>3, TapePlayed DEF Cycles
    <3>5. (start + len) - anchor.start = there - then
      <4>1. start - anchor.start = here - then
        BY <3>2
      <4>2. start \in Nat /\ len \in Nat /\ anchor.start \in Nat
        BY <2>2, <3>2
      <4> HIDE DEF here, there, then, len
      <4> QED BY <3>4, <4>1, <4>2
    <3>6. sched' - anchor'.start = Played(tape')[frame'] - Played(tape')[f]
      BY <2>1, <3>1, <3>5
    <3>7. /\ f \in 0..tape'.total /\ tape'.origin[f] # None /\ anchor'.origin = tape'.origin[f]
          /\ anchor'.start \in Nat
      BY <2>1, <3>1, <3>2
    <3>8. (OnTape(sched))'
      BY <3>6, <3>7 DEF OnTape
    <3>9. sched' # None
      BY <2>1, <2>2 DEF None
    <3> QED BY <1>h, <2>1, <3>8, <3>9 DEF TimeInv
  <2> QED BY <2>3, <2>4
<1> QED BY <1>2, <1>3, <1>4

LEMMA TimeInvHost == IInv /\ TimeInv /\ (HostTick \/ HostReset) => TimeInv'
<1> SUFFICES ASSUME IInv, TimeInv, HostTick \/ HostReset PROVE TimeInv'
  OBVIOUS
<1>1. CASE HostTick
  <2>1. PICK c \in tickCycles(chip) : chip' = c
    BY <1>1 DEF HostTick
  <2>2. c.held = chip.held
    BY <2>1, TickOK, IInvSetting DEF IInv
  <2> QED BY <1>1, <2>1, <2>2 DEF HostTick, constants, TimeInv, OnTape
<1>2. CASE HostReset
  BY <1>2 DEF HostReset, TimeInv, constants
<1> QED BY <1>1, <1>2

LEMMA TimeInvStutter == TimeInv /\ UNCHANGED vars => TimeInv'
  BY DEF TimeInv, OnTape, vars

LEMMA TimeInvariance == Spec => []TimeInv
<1>1. Init => TimeInv
  BY DEF Init, TimeInv
<1>2. IInv /\ TimeInv /\ [Next]_vars => TimeInv'
  BY TimeInvBegin, TimeInvPlay, TimeInvHost, TimeInvStutter DEF Next, Play
<1> QED BY <1>1, <1>2, Invariance, PTL DEF Spec

(* The time of a command that was kept counts from the start of its frame. *)
LEMMA KeptTarget ==
    ASSUME TypeOK, SettingOK, NEW k \in 1..Len(Cmds), Kept(Cmds[k])
    PROVE  /\ Target(start, k) = start + (Cmds[k].since + setting.offset)
           /\ tape.origin[frame] # None /\ Cmds[k].since \in Nat
<1>1. /\ Cycles \in Nat /\ setting.offset \in Int
      /\ Cmds[k].since \in 0..Cycles /\ Cmds[k].since + setting.offset \in 0..Cycles
      /\ Cmds[k].cycle = Cmds[k].since /\ Cmds[k].cycle # None
  BY TapeFacts, SettingFacts DEF Kept
<1>2. \A x \in 0..Cycles : Clamp(x, Cycles) = x
  BY <1>1 DEF Clamp
<1>3. CommandCycle(Cmds, k, Cycles) = Cmds[k].since
  BY <1>1, <1>2 DEF CommandCycle
<1>4. Target(start, k) = start + (Cmds[k].since + setting.offset)
  BY <1>1, <1>2, <1>3 DEF Target
<1>5. tape.origin[frame] # None
  <2>1. IsTape(tape) /\ frame \in 0..tape.total /\ k \in DOMAIN tape.cmds[frame]
    BY TapePlayed, TapeFacts, ReplayAssumption DEF TypeOK, Cmds
  <2> QED BY <1>1, <2>1 DEF IsTape, Cmds
<1> QED BY <1>1, <1>4, <1>5

(* Over a whole pass of a tape that was loaded in time, commands are sent  *)
(* as far apart as they were recorded, whatever the overshoots and the     *)
(* preemptions of the frames between them: tickFrameWithTape starts each   *)
(* frame where the schedule ended the one before.                          *)
THEOREM TimeAlwaysKept == Spec => KeepsTime
<1> DEFINE Timed ==
      (phase = "running" /\ next' = next + 1 /\ anchor # NoAnchor /\ Kept(Cmds[next]))
        => Target(start, next) - anchor.start =
             tape.origin[frame] + Cmds[next].since + setting.offset - anchor.origin
<1>1. IInv /\ TimeInv /\ [Next]_vars => [Timed]_vars
  <2> SUFFICES ASSUME IInv, TimeInv, Next, phase = "running", next' = next + 1,
                      anchor # NoAnchor, Kept(Cmds[next])
               PROVE  Target(start, next) - anchor.start =
                        tape.origin[frame] + Cmds[next].since + setting.offset - anchor.origin
    BY DEF Timed
  <2>t. TypeOK /\ SettingOK
    BY IInvSetting DEF IInv
  <2>1. next \in Nat /\ next' # next /\ next' # 1
    BY TypeParts DEF IInv
  <2>2. Submit
    BY <2>1 DEF Next, Play, Begin, BeginSkipped, BeginReleasing, EndFrame, Execute, PreemptIrq,
                PreemptStore, Moves, HostTick, HostReset
  <2>3. next \in 1..Len(Cmds)
    BY <2>t, <2>2, TypeParts DEF Submit, AllSent
  <2>4. PICK f \in 0..tape.total :
          /\ tape.origin[f] # None /\ anchor.origin = tape.origin[f]
          /\ anchor.start \in Nat
          /\ start - anchor.start = Played(tape)[frame] - Played(tape)[f]
    BY DEF TimeInv, OnTape
  <2>5. /\ Target(start, next) = start + (Cmds[next].since + setting.offset)
        /\ tape.origin[frame] # None /\ Cmds[next].since \in Nat
    BY <2>t, <2>3, KeptTarget
  <2>6. Played(tape)[frame] - Played(tape)[f] = tape.origin[frame] - tape.origin[f]
    BY <2>t, <2>4, <2>5, TapePlayed DEF InTime
  <2>7. /\ tape.origin[frame] \in Int /\ tape.origin[f] \in Int /\ start \in Nat
        /\ setting.offset \in Int
    BY <2>t, <2>4, TapePlayed, TypeParts, SettingFacts
  <2> DEFINE o == tape.origin[frame]
             p == tape.origin[f]
             c == Cmds[next].since
             a == anchor.start
  <2>8. start - a = o - p /\ anchor.origin = p /\ a \in Nat /\ o \in Int /\ p \in Int /\ c \in Nat
    BY <2>4, <2>5, <2>6, <2>7
  <2>9. Target(start, next) = start + (c + setting.offset)
    BY <2>5
  <2> HIDE DEF o, p, c, a
  <2>10. Target(start, next) - a = o + c + setting.offset - p
    BY <2>7, <2>8, <2>9
  <2> QED BY <2>8, <2>10 DEF o, c, a
<1> HIDE DEF Timed
<1>2. Spec => [][Timed]_vars
  BY <1>1, Invariance, TimeInvariance, PTL DEF Spec
<1> QED BY <1>2 DEF KeepsTime, Timed

-----------------------------------------------------------------------------
(* What the loader makes of a recording.                                   *)

LEMMA GreatestExists ==
    ASSUME NEW S \in SUBSET Nat, S # {}, NEW top \in Nat, \A x \in S : x <= top
    PROVE  \E m \in S : \A x \in S : x <= m
<1> DEFINE R == {top - x : x \in S}
<1>1. R \in SUBSET Nat /\ R # {}
  <2>1. \A x \in S : top - x \in Nat
    OBVIOUS
  <2>2. PICK x \in S : TRUE
    OBVIOUS
  <2>3. top - x \in R
    OBVIOUS
  <2> QED BY <2>1, <2>3
<1>2. PICK d \in R : \A e \in R : d <= e
  <2> HIDE DEF R
  <2> QED BY <1>1, LeastExists
<1>3. PICK m \in S : d = top - m
  BY <1>2
<1>4. \A x \in S : x \in Nat /\ top - m <= top - x
  BY <1>2, <1>3
<1>5. \A x \in S : x <= m
  BY <1>4
<1> QED BY <1>5

LEMMA MaxIs ==
    ASSUME NEW S \in SUBSET Nat, NEW m \in S, \A x \in S : x <= m
    PROVE  Max(S) = m
<1>1. Max(S) \in S /\ \A x \in S : Max(S) >= x
  BY DEF Max
<1> DEFINE n == Max(S)
<1>2. n \in Nat /\ m \in Nat /\ n <= m /\ m <= n
  BY <1>1
<1> HIDE DEF n
<1>3. n = m
  BY <1>2
<1> QED BY <1>3 DEF n

LEMMA MinIs ==
    ASSUME NEW S \in SUBSET Nat, NEW m \in S, \A x \in S : m <= x
    PROVE  Min(S) = m
<1>1. Min(S) \in S /\ \A x \in S : Min(S) <= x
  BY DEF Min
<1> DEFINE n == Min(S)
<1>2. n \in Nat /\ m \in Nat /\ n <= m /\ m <= n
  BY <1>1
<1> HIDE DEF n
<1>3. n = m
  BY <1>2
<1> QED BY <1>3 DEF n

(* Between two dated frames with none between the shares add up: after i   *)
(* frames the whole part i times, and one more for the first ones.         *)
LEMMA SharesAddUp ==
    ASSUME NEW cycles \in Nat, NEW n \in Nat \ {0}, NEW s, s[0] = 0,
           \A i \in 0..n-1 : s[i + 1] = s[i] + Share(cycles, n, i)
    PROVE  s[n] = cycles
<1> DEFINE q == cycles \div n
           r == cycles % n
           Sum(i) == i * q + (IF i < r THEN i ELSE r)
           S == {i \in 0..n : s[i] # Sum(i)}
<1>1. q \in Nat /\ r \in 0..n-1 /\ cycles = n * q + r
  OBVIOUS
<1>2. \A i \in 0..n-1 : s[i + 1] = s[i] + (q + (IF i < r THEN 1 ELSE 0))
  BY DEF Share
<1> HIDE DEF q, r
<1>3. S \in SUBSET Nat /\ 0 \notin S
  <2>1. Sum(0) = 0
    BY <1>1
  <2> QED BY <2>1
<1>4. ASSUME NEW i \in Nat, i + 1 \in S PROVE i \in S
  <2>1. i \in 0..n-1 /\ i \in 0..n
    BY <1>4
  <2> SUFFICES ASSUME s[i] = Sum(i) PROVE s[i + 1] = Sum(i + 1)
    BY <1>4, <2>1
  <2>2. (i + 1) * q = i * q + q /\ i * q \in Nat
    BY <1>1
  <2> DEFINE p == i * q
             p1 == (i + 1) * q
  <2>3. s[i] = p + (IF i < r THEN i ELSE r)
    OBVIOUS
  <2>4. p1 = p + q /\ p \in Nat
    BY <2>2
  <2> HIDE DEF p, p1
  <2>5. s[i + 1] = p1 + (IF i + 1 < r THEN i + 1 ELSE r)
    BY <1>1, <1>2, <2>1, <2>3, <2>4
  <2> QED BY <2>5 DEF p1
<1> HIDE DEF S
<1>5. S = {}
  BY <1>3, <1>4, NoCounterexample
<1>6. s[n] = Sum(n)
  BY <1>5 DEF S
<1> QED BY <1>1, <1>6

(* The dated frames d of a recording that goes forward.                    *)
Forward(d) ==
    /\ DOMAIN d \in SUBSET Nat /\ \A f \in DOMAIN d : d[f] \in Nat
    /\ \A f, g \in DOMAIN d : f < g => d[f] < d[g]

Neighbours(d, a, b) ==
    a \in DOMAIN d /\ b \in DOMAIN d /\ a < b /\ \A f \in DOMAIN d : f <= a \/ b <= f

LEMMA LengthIsShare ==
    ASSUME NEW d, Forward(d), NEW a, NEW b, Neighbours(d, a, b), NEW f \in a..b-1
    PROVE  FrameLength(d, f) = Share(d[b] - d[a], b - a, f - a)
<1> DEFINE before == {g \in DOMAIN d : g <= f}
           after == {g \in DOMAIN d : g > f}
<1>1. a \in Nat /\ b \in Nat /\ f \in Nat /\ a <= f /\ f < b
  BY DEF Forward, Neighbours
<1>2. before \in SUBSET Nat /\ a \in before /\ \A g \in before : g <= a
  BY <1>1 DEF Forward, Neighbours
<1>3. after \in SUBSET Nat /\ b \in after /\ \A g \in after : b <= g
  BY <1>1 DEF Forward, Neighbours
<1>4. Max(before) = a /\ Min(after) = b
  <2> HIDE DEF before, after
  <2> QED BY <1>2, <1>3, MaxIs, MinIs
<1>5. ~(before = {} \/ after = {}) /\ ~(d[b] <= d[a])
  BY <1>2, <1>3 DEF Forward, Neighbours
<1>6. FrameLength(d, f) = IF before = {} \/ after = {} THEN FrameCycles
                          ELSE IF d[Min(after)] <= d[Max(before)] THEN FrameCycles
                          ELSE Share(d[Min(after)] - d[Max(before)],
                                     Min(after) - Max(before), f - Max(before))
  BY Zenon DEF FrameLength
<1> HIDE DEF before, after
<1> QED BY <1>4, <1>5, <1>6

LEMMA GapIsFilled ==
    ASSUME NEW d, Forward(d), NEW a, NEW b, Neighbours(d, a, b),
           NEW p, \A f \in a..b : p[f] \in Nat,
           \A f \in a..b-1 : p[f + 1] = p[f] + FrameLength(d, f)
    PROVE  p[b] - p[a] = d[b] - d[a]
<1> DEFINE n == b - a
           cycles == d[b] - d[a]
           s == [i \in 0..n |-> p[a + i] - p[a]]
<1>1. /\ a \in Nat /\ b \in Nat /\ a < b /\ d[a] \in Nat /\ d[b] \in Nat /\ d[a] < d[b]
      /\ p[a] \in Nat /\ p[b] \in Nat
  BY DEF Forward, Neighbours
<1>2. n \in Nat \ {0} /\ cycles \in Nat
  BY <1>1
<1>3. s[0] = 0
  <2>1. a + 0 = a /\ p[a] - p[a] = 0 /\ 0 \in 0..n
    BY <1>1
  <2> QED BY <2>1
<1>4. ASSUME NEW i \in 0..n-1 PROVE s[i + 1] = s[i] + Share(cycles, n, i)
  <2>1. /\ a + i \in a..b-1 /\ a + i \in a..b /\ a + (i + 1) = (a + i) + 1 /\ (a + i) - a = i
        /\ i \in 0..n /\ i + 1 \in 0..n
    BY <1>1
  <2>2. p[a + (i + 1)] = p[a + i] + FrameLength(d, a + i)
    BY <2>1
  <2>3. FrameLength(d, a + i) = Share(cycles, n, i)
    BY <2>1, LengthIsShare
  <2>4. p[a + i] \in Nat
    BY <2>1
  <2>5. Share(cycles, n, i) \in Int
    <3>1. cycles \div n \in Int
      BY <1>2
    <3> HIDE DEF cycles, n
    <3> QED BY <3>1 DEF Share
  <2>6. s[i + 1] = p[a + (i + 1)] - p[a] /\ s[i] = p[a + i] - p[a]
    BY <2>1
  <2> DEFINE x == p[a + i]
             y == p[a + (i + 1)]
             z == p[a]
             w == Share(cycles, n, i)
  <2>7. y = x + w /\ x \in Nat /\ z \in Nat /\ w \in Int
    BY <1>1, <2>2, <2>3, <2>4, <2>5
  <2>8. s[i + 1] = y - z /\ s[i] = x - z
    BY <2>6
  <2> HIDE DEF x, y, z, w, s
  <2>9. s[i + 1] = s[i] + w
    BY <2>7, <2>8
  <2> QED BY <2>9 DEF w
<1>5. s[n] = cycles
  <2> HIDE DEF s, n, cycles
  <2> QED BY <1>2, <1>3, <1>4, SharesAddUp
<1>6. s[n] = p[b] - p[a]
  <2>1. n \in 0..n /\ a + n = b
    BY <1>1
  <2> QED BY <2>1
<1> QED BY <1>5, <1>6

LEMMA GapsAddUp ==
    ASSUME NEW d, Forward(d), NEW n \in Nat, NEW p, \A f \in 0..n : p[f] \in Nat,
           \A f \in 0..n : f + 1 \in 0..n => p[f + 1] = p[f] + FrameLength(d, f),
           NEW a \in DOMAIN d
    PROVE  \A c \in DOMAIN d : a <= c /\ c <= n => p[c] - p[a] = d[c] - d[a]
<1> DEFINE S == {c \in DOMAIN d : a <= c /\ c <= n /\ p[c] - p[a] # d[c] - d[a]}
<1> SUFFICES ASSUME S # {} PROVE FALSE
  OBVIOUS
<1>1. S \in SUBSET Nat /\ DOMAIN d \in SUBSET Nat /\ \A c \in DOMAIN d : d[c] \in Nat
  BY DEF Forward
<1>2. PICK m \in S : \A c \in S : m <= c
  <2> HIDE DEF S
  <2> QED BY <1>1, LeastExists
<1>3. /\ m \in DOMAIN d /\ m \in Nat /\ a \in Nat /\ a <= m /\ m <= n
      /\ p[m] - p[a] # d[m] - d[a]
  BY <1>1
<1>4. a < m
  <2> SUFFICES ASSUME m = a PROVE FALSE
    BY <1>3
  <2>1. p[a] \in Nat /\ d[a] \in Nat
    BY <1>1, <1>3
  <2> QED BY <1>3, <2>1
<1> DEFINE below == {c \in DOMAIN d : c < m}
<1>5. PICK b \in below : \A c \in below : c <= b
  <2>1. below \in SUBSET Nat /\ a \in below /\ \A c \in below : c <= m
    BY <1>1, <1>3, <1>4
  <2> HIDE DEF below
  <2> QED BY <1>3, <2>1, GreatestExists
<1>6. b \in DOMAIN d /\ b \in Nat /\ b < m /\ a <= b /\ b <= n
  BY <1>1, <1>3, <1>4, <1>5
<1>7. Neighbours(d, b, m)
  <2>1. \A f \in DOMAIN d : f <= b \/ m <= f
    BY <1>1, <1>3, <1>5
  <2> QED BY <1>3, <1>6, <2>1 DEF Neighbours
<1>8. p[b] - p[a] = d[b] - d[a]
  <2>1. b \notin S
    BY <1>2, <1>3, <1>6
  <2> QED BY <1>6, <2>1
<1>9. p[m] - p[b] = d[m] - d[b]
  <2>1. \A f \in b..m : p[f] \in Nat
    BY <1>3, <1>6
  <2>2. \A f \in b..m-1 : p[f + 1] = p[f] + FrameLength(d, f)
    BY <1>3, <1>6
  <2> QED BY <1>7, <2>1, <2>2, GapIsFilled
<1>10. p[m] - p[a] = d[m] - d[a]
  <2> DEFINE pm == p[m] 
             pb == p[b]
             pa == p[a]
             dm == d[m]
             db == d[b]
             da == d[a]
  <2>1. pm \in Nat /\ pb \in Nat /\ pa \in Nat /\ dm \in Nat /\ db \in Nat /\ da \in Nat
    BY <1>1, <1>3, <1>6
  <2>2. pb - pa = db - da /\ pm - pb = dm - db
    BY <1>8, <1>9
  <2> HIDE DEF pm, pb, pa, dm, db, da
  <2>3. pm - pa = dm - da
    BY <2>1, <2>2
  <2> QED BY <2>3 DEF pm, pa, dm, da
<1> QED BY <1>3, <1>10

LEMMA FramesEnd ==
    ASSUME NEW r \in Seq(Recorded), r # <<>>
    PROVE  Max({r[i].frame : i \in DOMAIN r}) \in Nat
<1> DEFINE n == Len(r)
           Top(k) == \E top \in Nat : \A i \in 1..k : r[i].frame <= top
           S == {k \in 0..n : ~Top(k)}
           F == {r[i].frame : i \in DOMAIN r}
<1>1. n \in Nat \ {0} /\ DOMAIN r = 1..n
  OBVIOUS
<1>2. \A i \in 1..n : r[i].frame \in Nat
  <2> TAKE i \in 1..n
  <2>1. r[i] \in Recorded
    BY <1>1
  <2> QED BY <2>1 DEF Recorded
<1> HIDE DEF n
<1>3. S \in SUBSET Nat /\ 0 \notin S
  <2>1. Top(0)
    OBVIOUS
  <2> QED BY <1>1, <2>1
<1>4. ASSUME NEW k \in Nat, k + 1 \in S PROVE k \in S
  <2>1. k \in 0..n /\ k + 1 \in 1..n
    BY <1>1, <1>4
  <2> SUFFICES ASSUME Top(k) PROVE Top(k + 1)
    BY <1>4, <2>1
  <2>2. PICK top \in Nat : \A i \in 1..k : r[i].frame <= top
    OBVIOUS
  <2> DEFINE x == r[k + 1].frame
  <2>3. x \in Nat
    BY <1>2, <2>1
  <2>4. top + x \in Nat /\ x <= top + x
    BY <2>3
  <2>5. ASSUME NEW i \in 1..k+1 PROVE r[i].frame <= top + x
    <3>1. CASE i = k + 1
      BY <2>4, <3>1
    <3>2. CASE i \in 1..k
      <4>1. r[i].frame <= top /\ i \in 1..n
        BY <1>1, <2>1, <2>2, <3>2
      <4>2. r[i].frame \in Nat
        BY <1>2, <4>1
      <4> QED BY <2>3, <4>1, <4>2
    <3> QED BY <3>1, <3>2
  <2> QED BY <2>4, <2>5
<1> HIDE DEF S
<1>5. S = {}
  BY <1>3, <1>4, NoCounterexample
<1>6. PICK top \in Nat : \A i \in 1..n : r[i].frame <= top
  <2>1. n \in 0..n /\ n \notin S
    BY <1>1, <1>5
  <2> QED BY <2>1 DEF S
<1>7. F \in SUBSET Nat /\ F # {} /\ \A x \in F : x <= top
  <2>1. 1 \in DOMAIN r
    BY <1>1
  <2> QED BY <1>1, <1>2, <1>6, <2>1
<1> HIDE DEF F
<1>8. PICK m \in F : \A x \in F : x <= m
  BY <1>7, GreatestExists
<1>9. Max(F) = m
  BY <1>7, <1>8, MaxIs
<1> QED BY <1>7, <1>9 DEF F

LEMMA LengthIsNat ==
    ASSUME NEW d, Forward(d), NEW f \in Nat
    PROVE  FrameLength(d, f) \in Nat
<1> DEFINE before == {g \in DOMAIN d : g <= f}
           after == {g \in DOMAIN d : g > f}
<1>1. /\ FrameCycles \in Nat /\ before \in SUBSET Nat /\ after \in SUBSET Nat
      /\ \A g \in before : g <= f
  BY FrameAssumption DEF Forward
<1>2. CASE before = {} \/ after = {}
  BY <1>1, <1>2 DEF FrameLength
<1>3. CASE before # {} /\ after # {}
  <2>1. PICK a \in before : \A g \in before : g <= a
    <3> HIDE DEF before
    <3> QED BY <1>1, <1>3, GreatestExists
  <2>2. PICK b \in after : \A g \in after : b <= g
    <3> HIDE DEF after
    <3> QED BY <1>1, <1>3, LeastExists
  <2>3. Neighbours(d, a, b) /\ f \in a..b-1
    <3>1. a \in DOMAIN d /\ b \in DOMAIN d /\ a \in Nat /\ b \in Nat /\ a <= f /\ f < b
      BY <1>1
    <3>2. ASSUME NEW g \in DOMAIN d PROVE g <= a \/ b <= g
      <4>1. g \in Nat
        BY DEF Forward
      <4> QED BY <2>1, <2>2, <4>1
    <3> QED BY <3>1, <3>2 DEF Neighbours
  <2>4. FrameLength(d, f) = Share(d[b] - d[a], b - a, f - a)
    BY <2>3, LengthIsShare
  <2> DEFINE cycles == d[b] - d[a]
             n == b - a
  <2>5. cycles \in Nat /\ n \in Nat \ {0}
    BY <2>3 DEF Forward, Neighbours
  <2> HIDE DEF cycles, n
  <2>6. cycles \div n \in Nat
    BY <2>5
  <2>7. \A i : Share(cycles, n, i) \in Nat
    BY <2>6 DEF Share
  <2> QED BY <2>4, <2>7 DEF cycles, n
<1> QED BY <1>2, <1>3

(* What loadCmdTape promises the replay (ReplayAssumption): the lengths it *)
(* gives to the frames add up, from any dated frame of a recording to any  *)
(* other, to the cycles recorded between them, with no cycle lost to the   *)
(* division, if only the recorded time goes forward.                       *)
THEOREM LoadedInTime ==
    ASSUME NEW r \in Seq(Recorded), r # <<>>, NEW timing \in Timings,
           Forward(FrameOrigins(r, timing))
    PROVE  InTime(loadCmdTape(r, timing))
<1> DEFINE d == FrameOrigins(r, timing)
           n == Max({r[i].frame : i \in DOMAIN r}) + 1
           t == loadCmdTape(r, timing)
<1>1. /\ t.total = n
      /\ t.origin = [f \in 0..n |-> IF f \in DOMAIN d THEN d[f] ELSE None]
      /\ t.len = [f \in 0..n |-> FrameLength(d, f)]
  BY Zenon DEF loadCmdTape
<1>2. n \in Nat /\ Forward(d)
  BY FramesEnd
<1> DEFINE p == Played(t)
<1> HIDE DEF d, n, t
<1>3. \A f \in 0..n : t.len[f] = FrameLength(d, f) /\ FrameLength(d, f) \in Nat
  <2> TAKE f \in 0..n
  <2>1. f \in Nat
    BY <1>2
  <2>2. t.len[f] = FrameLength(d, f)
    BY <1>1
  <2> QED BY <1>2, <2>1, <2>2, LengthIsNat
<1>4. /\ \A f \in 0..n : p[f] \in Nat
      /\ \A f \in 0..n : f + 1 \in 0..n => p[f + 1] = p[f] + FrameLength(d, f)
  <2>1. t.total = n /\ t.total \in Nat /\ \A f \in 0..t.total : t.len[f] \in Nat
    BY <1>1, <1>2, <1>3
  <2>2. /\ \A f \in 0..t.total : p[f] \in Nat
        /\ \A f \in 0..t.total : f + 1 \in 0..t.total => p[f + 1] = p[f] + t.len[f]
    BY <2>1, PlayedIs
  <2> HIDE DEF p
  <2> QED BY <1>3, <2>1, <2>2
<1> HIDE DEF p
<1>5. ASSUME NEW f \in 0..n, NEW g \in 0..n, f \in DOMAIN d, g \in DOMAIN d, f <= g
      PROVE  p[g] - p[f] = d[g] - d[f]
  <2>1. f <= g /\ g <= n
    BY <1>2, <1>5
  <2> QED BY <1>2, <1>4, <1>5, <2>1, GapsAddUp
<1>6. ASSUME NEW f \in 0..n, NEW g \in 0..n, t.origin[f] # None, t.origin[g] # None
      PROVE  p[g] - p[f] = t.origin[g] - t.origin[f]
  <2>1. /\ f \in DOMAIN d /\ g \in DOMAIN d /\ t.origin[f] = d[f] /\ t.origin[g] = d[g]
    BY <1>1, <1>6
  <2>2. d[f] \in Nat /\ d[g] \in Nat /\ p[f] \in Nat /\ p[g] \in Nat /\ f \in Nat /\ g \in Nat
    BY <1>2, <1>4, <2>1 DEF Forward
  <2>3. CASE f <= g
    BY <1>5, <2>1, <2>3
  <2>4. CASE g <= f
    <3>1. p[f] - p[g] = d[f] - d[g]
      BY <1>5, <2>1, <2>4
    <3> QED BY <2>1, <2>2, <3>1
  <2> QED BY <2>2, <2>3, <2>4
<1> QED BY <1>1, <1>6 DEF InTime, p, t

-----------------------------------------------------------------------------
(* What FrameEnds rests on: a running frame always has a step, and its      *)
(* steps are counted down.  (That the step is taken is the fairness.)       *)

Away(x) == IF chip.cpu < x THEN x - chip.cpu ELSE 0
Work == Away(FrameEnd) + (Len(Cmds) + 1 - next)

(* A step is there: the guards of EndFrame, Submit and Execute.             *)
StepThere ==
    \/ AllSent /\ Reached
    \/ ~AllSent /\ (Reached \/ setting.early)
    \/ Running /\ \E c \in tickCycles(chip) : c.seq <= MaxWrites

LEMMA AwayOK ==
    ASSUME NEW p \in Nat, NEW q \in Nat, NEW x \in Nat, p <= q
    PROVE  /\ (IF p < x THEN x - p ELSE 0) \in Nat
           /\ (IF q < x THEN x - q ELSE 0) \in Nat
           /\ (IF q < x THEN x - q ELSE 0) <= (IF p < x THEN x - p ELSE 0)
           /\ p < q /\ p < x => (IF q < x THEN x - q ELSE 0) < (IF p < x THEN x - p ELSE 0)
OBVIOUS

(* Every step of the 6502 towards a goal is one forward.                    *)
LEMMA MovesForward ==
    ASSUME IInv, Execute \/ PreemptIrq \/ PreemptStore
    PROVE  /\ UNCHANGED <<tape, setting, sched, phase, frame, start, next, mark, anchor>>
           /\ chip'.cpu \in Nat /\ chip.cpu < chip'.cpu /\ chip.cpu < Goal
<1>1. SettingOK /\ TypeOK /\ ChipOK(chip) /\ Goal \in Nat /\ chip.cpu \in Nat
  BY IInvSetting, GoalOK DEF IInv, ChipOK, ChipType
<1>2. Running /\ chip.cpu < Goal
  BY DEF Execute, PreemptIrq, PreemptStore, Running
<1>3. ASSUME NEW c, c.cpu \in Nat, chip.cpu < c.cpu, Moves(c)
      PROVE  /\ UNCHANGED <<tape, setting, sched, phase, frame, start, next, mark, anchor>>
             /\ chip'.cpu \in Nat /\ chip.cpu < chip'.cpu
  BY <1>3 DEF Moves, constants
<1>4. Preempted(chip).cpu \in Nat /\ chip.cpu < Preempted(chip).cpu
  BY <1>1, <1>2, PreemptedOK
<1>5. ASSUME NEW c \in tickCycles(chip) PROVE c.cpu \in Nat /\ chip.cpu < c.cpu
  <2>1. PICK n \in Steps, s \in setting.services : c.cpu = chip.cpu + n + s
    BY <1>1, TickOK
  <2>2. n \in Nat \ {0} /\ s \in Nat
    BY <1>1, SettingFacts, ReplayAssumption
  <2> QED
    BY <1>1, <2>1, <2>2
<1>6. ASSUME NEW c \in stepSoundCpuInstruction(chip)
      PROVE  LET e == IF c.cpu < Goal THEN Preempted(c) ELSE c
             IN  e.cpu \in Nat /\ chip.cpu < e.cpu
  <2>1. ChipOK(c) /\ c.cpu \in Nat
    BY <1>1, StepOK DEF ChipOK, ChipType
  <2>2. CASE c.cpu < Goal
    BY <1>1, <1>2, <2>1, <2>2, PreemptedOK
  <2>3. CASE ~(c.cpu < Goal)
    BY <1>1, <1>2, <2>1, <2>3
  <2> QED
    BY <2>2, <2>3
<1>7. CASE Execute
  BY <1>2, <1>3, <1>5, <1>7 DEF Execute
<1>8. CASE PreemptIrq
  BY <1>2, <1>3, <1>4, <1>8 DEF PreemptIrq
<1>9. CASE PreemptStore
  <2>1. \/ Moves(Preempted(chip))
        \/ \E c \in stepSoundCpuInstruction(chip) : Moves(IF c.cpu < Goal THEN Preempted(c) ELSE c)
    BY <1>9 DEF PreemptStore
  <2> QED
    BY <1>2, <1>3, <1>4, <1>6, <2>1
<1> QED
  BY <1>7, <1>8, <1>9

(* Each step of a running frame ends it or leaves less to do.               *)
LEMMA WorkFalls ==
    ASSUME IInv, Next, phase = "running"
    PROVE  phase' = "between" \/ (Work' \in Nat /\ Work' < Work)
<1>1. TypeOK /\ SettingOK /\ FrameEnd \in Nat /\ Goal \in Nat /\ Goal <= FrameEnd /\ chip.cpu \in Nat
  BY IInvSetting, GoalOK, TypeParts DEF IInv
<1>2. Len(Cmds) \in Nat /\ next \in 1..(Len(Cmds) + 1)
  BY <1>1, TypeParts
<1>3. CASE EndFrame
  BY <1>3 DEF EndFrame
<1>4. CASE Submit
  <2>1. UNCHANGED <<tape, setting, sched, phase, frame, start, mark, anchor>> /\ next' = next + 1
    BY <1>4 DEF Submit, constants
  <2>2. ~AllSent /\ next <= Len(Cmds)
    BY <1>2, <1>4 DEF Submit, AllSent
  <2>3. Len(Cmds)' = Len(Cmds) /\ FrameEnd' = FrameEnd
    BY <2>1 DEF Cmds, FrameEnd, Cycles
  <2>4. chip'.cpu \in Nat /\ chip.cpu <= chip'.cpu
    <3>1. CASE setting.early /\ chip.cpu < Goal
      <4>1. chip' = Preempted(chip) /\ ChipOK(chip)
        BY <1>4, <3>1 DEF Submit, IInv
      <4>2. chip'.cpu = Goal
        BY <1>1, <3>1, <4>1, PreemptedOK
      <4> QED
        BY <1>1, <3>1, <4>2
    <3>2. CASE ~(setting.early /\ chip.cpu < Goal)
      BY <1>1, <1>4, <3>2 DEF Submit
    <3> QED
      BY <3>1, <3>2
  <2>5. Away(FrameEnd)' \in Nat /\ Away(FrameEnd) \in Nat /\ Away(FrameEnd)' <= Away(FrameEnd)
    BY <1>1, <2>3, <2>4, AwayOK DEF Away
  <2>6. Work' = Away(FrameEnd)' + (Len(Cmds) + 1 - (next + 1))
    BY <2>1, <2>3 DEF Work
  <2> QED
    BY <1>2, <2>2, <2>5, <2>6 DEF Work
<1>5. CASE Execute \/ PreemptIrq \/ PreemptStore
  <2>1. /\ UNCHANGED <<tape, setting, sched, phase, frame, start, next, mark, anchor>>
        /\ chip'.cpu \in Nat /\ chip.cpu < chip'.cpu /\ chip.cpu < Goal
    BY <1>5, MovesForward
  <2>2. Len(Cmds)' = Len(Cmds) /\ FrameEnd' = FrameEnd
    BY <2>1 DEF Cmds, FrameEnd, Cycles
  <2>3. chip.cpu <= chip'.cpu /\ chip.cpu < FrameEnd
    BY <1>1, <2>1
  <2>4. Away(FrameEnd)' \in Nat /\ Away(FrameEnd) \in Nat /\ Away(FrameEnd)' < Away(FrameEnd)
    BY <1>1, <2>1, <2>2, <2>3, AwayOK DEF Away
  <2>5. Work' = Away(FrameEnd)' + (Len(Cmds) + 1 - next)
    BY <2>1, <2>2 DEF Work
  <2> QED
    BY <1>2, <2>4, <2>5 DEF Work
<1> QED
  BY <1>3, <1>4, <1>5 DEF Next, Play, Begin, BeginSkipped, BeginReleasing, HostTick, HostReset

(* A frame in progress ends after no more steps than its cycles and its     *)
(* commands allow, whatever the 6502 does and however it is preempted.      *)
THEOREM FrameCountsDown ==
    Spec => [][phase = "running" => phase' = "between" \/ (Work' \in Nat /\ Work' < Work)]_vars
<1> DEFINE Down == phase = "running" => phase' = "between" \/ (Work' \in Nat /\ Work' < Work)
<1>1. IInv /\ [Next]_vars => [Down]_vars
  BY WorkFalls
<1> HIDE DEF Down
<1>2. Spec => [][Down]_vars
  BY <1>1, Invariance, PTL DEF Spec
<1> QED
  BY <1>2 DEF Down

(* No frame in progress is stuck: it can end, send its next command or let  *)
(* the 6502 run, a held 6502 included, and with every option set.           *)
THEOREM FrameNeverStuck ==
    ASSUME MaxWrites \in Nat
    PROVE  Spec => [](phase = "running" => StepThere)
<1> DEFINE Room == chip.seq \in Nat /\ chip.seq <= MaxWrites
           There == phase = "running" => StepThere
<1>1. Init => Room
  BY DEF Init
<1>2. IInv /\ Room /\ [Next]_vars => Room'
  <2> SUFFICES ASSUME IInv, Room, [Next]_vars PROVE Room'
    OBVIOUS
  <2>1. TypeOK /\ SettingOK /\ ChipOK(chip) /\ chip.cpu \in Nat /\ chip \in ChipType
    BY IInvSetting, TypeParts DEF IInv
  <2>2. CASE UNCHANGED vars
    BY <2>2 DEF vars
  <2>3. CASE Begin \/ BeginSkipped \/ EndFrame
    BY <2>3 DEF Begin, BeginSkipped, EndFrame
  <2>4. CASE Execute \/ PreemptIrq \/ PreemptStore
    <3>1. \A c : Moves(c) => chip'.seq <= MaxWrites
      BY DEF Moves
    <3>2. chip'.seq <= MaxWrites
      BY <2>4, <3>1 DEF Execute, PreemptIrq, PreemptStore
    <3>3. chip' \in ChipType
      BY <2>1, <2>4, ExecuteOK DEF IInv, TypeOK
    <3> QED
      BY <3>2, <3>3 DEF ChipType
  <2>5. CASE HostTick
    <3>1. chip'.seq <= MaxWrites
      BY <2>5 DEF HostTick
    <3>2. chip' \in ChipType
      BY <2>1, <2>5, HostOK DEF IInv, TypeOK
    <3> QED
      BY <3>1, <3>2 DEF ChipType
  <2>6. CASE HostReset
    <3>1. /\ Cleared(chip).seq = 0
          /\ releaseSoundReset(chip).seq = 0 /\ holdSoundReset(chip).seq = 0
          /\ resetSoundChip(chip).seq = 0
      BY <2>1 DEF releaseSoundReset, holdSoundReset, resetSoundChip, Cleared, ChipType
    <3>2. chip'.seq = 0
      BY <2>6, <3>1, Zenon DEF HostReset
    <3> QED
      BY <3>2
  <2>7. CASE Submit
    <3>1. CASE setting.early /\ chip.cpu < Goal
      <4>1. chip' = Elapsed(chip, Goal - chip.cpu) /\ Goal \in Nat
        BY <2>1, <2>7, <3>1, GoalOK DEF Submit, Preempted
      <4>2. Goal - chip.cpu \in Nat
        BY <2>1, <3>1, <4>1
      <4>3. chip'.seq = chip.seq
        BY <2>1, <4>1, <4>2, ElapsedFields
      <4> QED
        BY <4>3
    <3>2. CASE ~(setting.early /\ chip.cpu < Goal)
      BY <2>7, <3>2 DEF Submit
    <3> QED
      BY <3>1, <3>2
  <2>8. CASE BeginReleasing
    <3> DEFINE r == releaseSoundReset(chip)
    <3>1. PICK d : chip' = Elapsed(r, d)
      BY <2>8, Zenon DEF BeginReleasing, ReleaseDelayed
    <3>2. Elapsed(r, d).seq = r.seq
      BY DEF Elapsed, DevicesTicked, releaseSoundReset, Cleared
    <3>3. r.seq = 0
      BY DEF releaseSoundReset, Cleared
    <3> QED
      BY <3>1, <3>2, <3>3
  <2> QED
    BY <2>2, <2>3, <2>4, <2>5, <2>6, <2>7, <2>8 DEF Next, Play
<1>3. IInv /\ Room => There
  <2> SUFFICES ASSUME IInv, Room, phase = "running" PROVE StepThere
    OBVIOUS
  <2>1. TypeOK /\ SettingOK /\ ChipOK(chip) /\ Goal \in Nat /\ chip.cpu \in Nat /\ chip \in ChipType
    BY IInvSetting, GoalOK, TypeParts DEF IInv
  <2>2. CASE Reached \/ (~AllSent /\ setting.early)
    BY <2>2 DEF StepThere
  <2>3. CASE ~Reached /\ (AllSent \/ ~setting.early)
    <3>1. Running
      BY <2>1, <2>3 DEF Running, Reached
    <3>2. PICK n \in Steps, s \in setting.services : n \in Nat /\ s \in Nat
      BY <2>1, SettingFacts, ReplayAssumption DEF SettingOK
    <3> DEFINE b == Elapsed(chip, s)
               c == Elapsed(b, n)
    <3>3. b \in ChipType /\ b.seq = chip.seq
      BY <2>1, <3>2, ElapsedFields
    <3>4. c.seq = b.seq
      BY <3>2, <3>3, ElapsedFields
    <3>5. c \in tickCycles(chip)
      BY DEF tickCycles, stepSoundCpuInstruction
    <3> HIDE DEF c
    <3> QED
      BY <3>1, <3>3, <3>4, <3>5 DEF StepThere
  <2> QED
    BY <2>2, <2>3
<1> HIDE DEF Room, There
<1>4. Spec => []There
  BY <1>1, <1>2, <1>3, Invariance, PTL DEF Spec
<1> QED
  BY <1>4 DEF There

(* A frame in progress that is played goes on to its end: with n cycles and *)
(* commands left it comes to fewer, or is over.                             *)
THEOREM FrameGoesForward ==
    ASSUME NEW n \in Nat
    PROVE  FairSpec /\ []PlayMayGoOn
           => ((phase = "running" /\ Work = n) ~> (phase = "between" \/ Work < n))
<1> DEFINE On == phase = "running"
           Over == phase = "between"
           At == Work = n
           Fewer == Work < n
<1>1. IInv /\ [Next]_vars /\ On /\ At => Over' \/ Fewer' \/ (On' /\ At')
  <2> SUFFICES ASSUME IInv, [Next]_vars, On, At PROVE Over' \/ Fewer' \/ (On' /\ At')
    OBVIOUS
  <2>1. CASE Next
    BY <2>1, WorkFalls
  <2>2. CASE UNCHANGED vars
    <3>1. Work' = Work /\ phase' = phase
      BY <2>2 DEF vars, constants, Work, Away, FrameEnd, Cycles, Cmds
    <3> QED
      BY <3>1
  <2> QED
    BY <2>1, <2>2
<1>2. IInv /\ On /\ At /\ <<Play>>_vars => Over' \/ Fewer'
  BY WorkFalls DEF Next
<1> HIDE DEF On, Over, At, Fewer
<1>3. FairSpec /\ [](On => ENABLED <<Play>>_vars) => ((On /\ At) ~> (Over \/ Fewer))
  BY <1>1, <1>2, Invariance, PTL DEF FairSpec, Spec
<1> QED
  BY <1>3 DEF PlayMayGoOn, On, Over, At, Fewer
=============================================================================
