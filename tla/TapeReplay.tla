----------------------------- MODULE TapeReplay -----------------------------
(***************************************************************************)
(* tickFrameWithTape (m6502/sound-chip.ts): a recorded tape played into    *)
(* the sound chip at cycle precision.  The 6502 moves by whole             *)
(* instructions and a frame ends in the middle of one, so the start of the *)
(* next frame is kept apart from the cycle count (tapeReplayScheduleCycles *)
(* - sched here).  The page plays the attract tape in a loop on a chip it  *)
(* also ticks itself; the replay page resets the chip at the end of the    *)
(* tape.  What an instruction does is not modelled, only its length and    *)
(* the one store to the POKEY it may hold, whose effect may be delayed.    *)
(***************************************************************************)
EXTENDS CmdTape

CONSTANTS Tapes,         \* loaded tapes
          Settings,      \* options of the replay and of the chip
          Steps,         \* lengths of an instruction
          Stores,        \* length of a store and where in it the write falls
          ResetCycles,   \* what cpuReset adds to the cycle count
          LoopFrame,     \* soundAttractStartFrame
          Horizon,       \* bound: cycles since the last reset
          MaxLead,       \* bound: cycles the host runs the 6502 ahead of the schedule
          MaxWrites      \* bound: delayed POKEY writes since the last reset

SettingType ==
    [auto : BOOLEAN,                   \* autoReleaseReset
     early : BOOLEAN,                  \* commandSubmitBeforeCpuCatchup
     ahead : Nat \cup {None},          \* commandPreemptChipWriteLookaheadCycles
     complete : BOOLEAN,               \* commandPreemptChipWriteCompleteBeforeTarget
     irqAhead : Nat \cup {None},       \* commandPreemptPendingIrqLookaheadCycles
     firstFetch : Nat,                 \* resetFirstFetchDelayAfterCommandCycles
     release : Nat,                    \* resetReleaseDelayCycles
     offset : Int,                     \* commandCycleOffsetCycles
     delays : SUBSET Nat,              \* delays of POKEY writes
     deferred : BOOLEAN,               \* deferChipIoWriteTiming
     services : SUBSET Nat]            \* delays before an interrupt

CommandType == [cycle : Nat \cup {None}, since : Int]
IsTape(t) ==
    /\ t.total \in Nat \ {0} /\ t.reset \in Nat
    /\ \A f \in 0..t.total : /\ t.len[f] \in Nat /\ t.origin[f] \in Int
                             /\ t.cmds[f] \in Seq(CommandType)
                             /\ \A k \in DOMAIN t.cmds[f] :
                                  t.cmds[f][k].since # None => t.origin[f] # None

(* The frame lengths of a tape add up to the recorded time, as the loader  *)
(* makes them add up (theorem LoadedInTime).                               *)
ASSUME ReplayAssumption ==
    /\ \A t \in Tapes : IsTape(t) /\ InTime(t) /\ LoopFrame < t.total
    /\ Settings \subseteq SettingType
    /\ \A s \in Settings : (s.ahead # None \/ s.irqAhead # None) => s.auto
    /\ \A s \in Settings : s.services # {}
    /\ Steps \subseteq Nat \ {0} /\ Steps # {}
    /\ \A s \in Stores : s.length \in Steps /\ s.at \in Nat /\ s.at < s.length
    /\ ResetCycles \in Nat /\ LoopFrame \in Nat

VARIABLES tape, setting,     \* what is played and how: they never change
          chip,              \* the cycle counts of the chip and its delayed writes
          sched,             \* where the next frame starts, None when not kept
          phase,             \* "between" frames or "running" one
          frame, start,      \* the frame and its first cycle
          next,              \* the next command of the frame
          mark,              \* history: where the 6502 was last left by other hands
          anchor             \* history: the first dated frame of this pass

vars == <<tape, setting, chip, sched, phase, frame, start, next, mark, anchor>>
constants == <<tape, setting>>

(* The writes are those waiting in pendingPokeyWrites; over is a history:  *)
(* has a write taken effect before one the program made earlier?           *)
WriteType == [cycle : Nat, sequence : Nat]
ChipType == [cpu : Nat, dev : Nat, writes : SUBSET WriteType, seq : Nat,
             over : BOOLEAN, held : BOOLEAN]
NoAnchor == [start |-> None, origin |-> 0]

Init ==
    /\ tape \in Tapes /\ setting \in Settings
    /\ chip = [cpu |-> 0, dev |-> 0, writes |-> {}, seq |-> 0, over |-> FALSE, held |-> TRUE]
    /\ sched = None /\ phase = "between" /\ frame \in {0, LoopFrame}
    /\ start = 0 /\ next = 1 /\ mark = 0 /\ anchor = NoAnchor

-----------------------------------------------------------------------------
(* The clocks of the chip.                                                 *)

DueInLine(c, to) ==                    \* mutant: the list is in the order of the calls
    {w \in c.writes : \A v \in c.writes : v.sequence <= w.sequence => v.cycle <= to}
Due(c, to) == {w \in c.writes : w.cycle <= to}

(* tickSoundDevices: the devices move on and the writes due on the way     *)
(* take effect, by cycle and then by number.                               *)
DevicesTicked(c, n) ==
    LET due == Due(c, c.dev + n)
    IN  [c EXCEPT !.dev = @ + n, !.writes = @ \ due,
                  !.over = @ \/ \E w \in due, v \in c.writes :
                                   v.sequence < w.sequence /\ v.cycle > w.cycle]

Elapsed(c, n) == [DevicesTicked(c, n) EXCEPT !.cpu = @ + n]   \* tickDevicesWithoutCpu

Applied(c) == [c EXCEPT !.over = @ \/ c.writes # {}]

schedulePokeyWrite(c, cycle) ==
    IF cycle <= c.dev THEN Applied(c)
    ELSE [c EXCEPT !.writes = @ \cup {[cycle |-> cycle, sequence |-> c.seq]}, !.seq = @ + 1]

(* An instruction that stores to the POKEY: delayed, applied in its place, *)
(* or before the instruction's time passes.                                *)
Storing(c, s, delay) ==
    IF delay > 0 THEN Elapsed(schedulePokeyWrite(c, c.cpu + s.at + delay), s.length)
    ELSE IF setting.deferred THEN Elapsed(Applied(Elapsed(c, s.at)), s.length - s.at)
    ELSE Elapsed(Applied(c), s.length)

stepSoundCpuInstruction(c) ==          \* all that an instruction may do
    {Elapsed(c, n) : n \in Steps} \cup {Storing(c, s, d) : s \in Stores, d \in setting.delays}

(* One turn of the loop of tickCycles.                                     *)
tickCycles(c) ==
    UNION {stepSoundCpuInstruction(Elapsed(c, s)) : s \in setting.services}

Cleared(c) == [c EXCEPT !.writes = {}, !.seq = 0]

releaseSoundReset(c) == [Cleared(c) EXCEPT !.cpu = 0, !.dev = 0, !.held = FALSE]
holdSoundReset(c) == [Cleared(c) EXCEPT !.cpu = 0, !.dev = 0, !.held = TRUE]
resetSoundChip(c) ==
    [Cleared(c) EXCEPT !.cpu = @ + ResetCycles, !.dev = c.cpu + ResetCycles, !.held = TRUE]

-----------------------------------------------------------------------------
(* The commands of the frame and when they are due.                        *)

Cmds == tape.cmds[frame]
Cycles == tape.len[frame]       \* cmdTapeFrameCycles

CommandCycle(cmds, k, cycles) ==       \* cmdTapeCommandCycleInFrame
    Clamp(IF cmds[k].cycle # None THEN cmds[k].cycle
          ELSE IF Len(cmds) = 1 THEN 0 ELSE (cycles * (k - 1)) \div Len(cmds), cycles)

Target(from, k) ==                     \* scheduledCommandTargetCycle
    from + Clamp(CommandCycle(Cmds, k, Cycles) + setting.offset, Cycles)

frameHasBoundaryCommand(f) ==
    \E k \in DOMAIN tape.cmds[f] :
        CommandCycle(tape.cmds[f], k, tape.len[f]) = 0

AllSent == next > Len(Cmds)
FrameEnd == start + Cycles
Goal == IF AllSent THEN FrameEnd ELSE Target(start, next)

-----------------------------------------------------------------------------
(* A frame.                                                                *)

Anchored(from) ==
    IF anchor = NoAnchor /\ tape.origin[frame] # None
    THEN [start |-> from, origin |-> tape.origin[frame]]
    ELSE anchor

NextFrame ==                           \* the loops that call tickFrameWithTape
    IF frame + 1 < tape.total
    THEN frame' = frame + 1 /\ UNCHANGED anchor
    ELSE frame' = LoopFrame /\ anchor' = NoAnchor

BeginSkipped ==                        \* no command has come yet: the chip stays held
    /\ phase = "between" /\ setting.auto /\ chip.held /\ frame < tape.reset
    /\ NextFrame
    /\ UNCHANGED <<constants, chip, sched, phase, start, next, mark>>

ReleaseDelayedCpuOnly(c, n) ==         \* mutant: the devices stay behind
    [c EXCEPT !.cpu = @ + n]
ReleaseDelayed(c, n) == Elapsed(c, n)

(* The chip is released in the frame of the first command.  Either the     *)
(* first command is sent and the 6502 starts a while after it, or the      *)
(* commands due at once are sent, then the 6502 starts.                    *)
BeginReleasing ==
    LET first == setting.firstFetch > 0 /\ Cmds # <<>>
        delay == IF first THEN Target(0, 1) + setting.firstFetch ELSE setting.release
    IN  /\ phase = "between" /\ setting.auto /\ chip.held /\ frame >= tape.reset
        /\ chip' = ReleaseDelayed(releaseSoundReset(chip), delay)
        /\ \E k \in 1..(Len(Cmds) + 1) :
             /\ next' = k
             /\ IF first THEN k = 2
                ELSE /\ \A j \in 1..(k - 1) : Target(0, j) = 0
                     /\ k <= Len(Cmds) => Target(0, k) > 0
        /\ phase' = "running" /\ start' = 0 /\ sched' = None
        /\ mark' = chip'.cpu /\ anchor' = Anchored(0)
        /\ UNCHANGED <<constants, frame>>

FrameStart == IF sched # None THEN sched ELSE chip.cpu

Begin ==
    /\ phase = "between" /\ ~(setting.auto /\ chip.held)
    /\ FrameStart + Cycles <= Horizon
    /\ start' = FrameStart /\ next' = 1 /\ phase' = "running"
    /\ anchor' = Anchored(FrameStart)
    /\ UNCHANGED <<constants, chip, sched, frame, mark>>

(* Is the target reached?  A held 6502 does not move and the command is    *)
(* sent as it is; commandSubmitBeforeCpuCatchup moves the clocks alone.    *)
ReachedRunning == chip.cpu >= Goal     \* mutant: a held 6502 is waited for
Reached == chip.held \/ chip.cpu >= Goal

PreemptedTo(c) == Elapsed(c, Goal)     \* mutant: a cycle is taken for a duration
Preempted(c) == Elapsed(c, Goal - c.cpu)

Submit ==
    /\ phase = "running" /\ ~AllSent
    /\ Reached \/ setting.early
    /\ chip' = IF setting.early /\ chip.cpu < Goal THEN Preempted(chip) ELSE chip
    /\ next' = next + 1
    /\ UNCHANGED <<constants, sched, phase, frame, start, mark, anchor>>

ScheduleActual == chip.cpu             \* mutant: the overshoot is added to the schedule
Schedule == FrameEnd

EndFrame ==
    /\ phase = "running" /\ AllSent /\ Reached
    /\ sched' = Schedule /\ phase' = "between" /\ next' = 1
    /\ NextFrame
    /\ UNCHANGED <<constants, chip, start, mark>>

-----------------------------------------------------------------------------
(* advanceReplayCpuTo: the 6502 runs to the goal, and as a rule past it.   *)

Running == phase = "running" /\ ~chip.held /\ chip.cpu < Goal /\ (AllSent \/ ~setting.early)
LooksAhead == (setting.ahead # None \/ setting.irqAhead # None)
                /\ (AllSent => frameHasBoundaryCommand(frame + 1))
Moves(c) == /\ chip' = c /\ c.seq <= MaxWrites
            /\ UNCHANGED <<constants, sched, phase, frame, start, next, mark, anchor>>

Execute == Running /\ \E c \in tickCycles(chip) : Moves(c)

PreemptIrq ==                          \* an IRQ is about to be taken
    /\ Running /\ LooksAhead /\ setting.irqAhead # None
    /\ Goal - chip.cpu <= setting.irqAhead
    /\ Moves(Preempted(chip))

PreemptStore ==                        \* the next instruction stores to a chip
    /\ Running /\ LooksAhead /\ setting.ahead # None
    /\ \E s \in Stores :
         /\ Goal <= chip.cpu + s.at + setting.ahead
         /\ IF setting.complete /\ Goal > chip.cpu + s.at
            THEN \E c \in stepSoundCpuInstruction(chip) :
                    Moves(IF c.cpu < Goal THEN Preempted(c) ELSE c)
            ELSE Moves(Preempted(chip))

-----------------------------------------------------------------------------
(* What the host does with the chip between two frames.                    *)

HostTick ==                            \* submitQueuedSoundCommands
    /\ phase = "between" /\ ~chip.held
    /\ chip.cpu < FrameStart + MaxLead /\ chip.cpu < Horizon - FrameCycles
    /\ \E c \in tickCycles(chip) : chip' = c /\ c.seq <= MaxWrites /\ mark' = c.cpu
    /\ UNCHANGED <<constants, sched, phase, frame, start, next, anchor>>

HostReset ==
    /\ phase = "between"
    /\ \/ chip' = releaseSoundReset(chip) /\ frame' = frame
       \/ chip' = holdSoundReset(chip) /\ frame' = frame
       \/ chip' = resetSoundChip(chip) /\ frame' = 0 /\ chip'.cpu <= Horizon
    /\ sched' = None /\ mark' = chip'.cpu /\ anchor' = NoAnchor
    /\ UNCHANGED <<constants, phase, start, next>>

Play == Begin \/ BeginSkipped \/ BeginReleasing \/ Submit \/ EndFrame
          \/ Execute \/ PreemptIrq \/ PreemptStore
Next == Play \/ HostTick \/ HostReset
Spec == Init /\ [][Next]_vars
FairSpec == Spec /\ WF_vars(Play)      \* tickFrameWithTape runs to its end

-----------------------------------------------------------------------------
TypeOK ==
    /\ tape \in Tapes /\ setting \in Settings
    /\ chip \in ChipType
    /\ sched \in Nat \cup {None} /\ phase \in {"between", "running"}
    /\ frame \in 0..(tape.total - 1) /\ start \in Nat
    /\ next \in 1..(Len(Cmds) + 1) /\ mark \in Nat
    /\ anchor \in [start : Nat \cup {None}, origin : Int]

(* The 6502 is past cycle x by no more than one instruction and the        *)
(* interrupt before it may take it, if it is past it at all.               *)
Near(c, x) == \E n \in Steps, s \in setting.services : c.cpu <= x + n + s - 1

(* The devices and the 6502 stand at the same cycle whenever no            *)
(* instruction is running, and between frames the running 6502 is past the *)
(* start of the next frame by no more than the overshoot of one            *)
(* instruction, however many frames were played and however they were      *)
(* preempted, unless someone else ran it further.                          *)
InStep ==
    /\ chip.dev = chip.cpu
    /\ (phase = "between" /\ ~chip.held /\ sched # None)
          => sched <= chip.cpu /\ (Near(chip, sched) \/ Near(chip, mark))

(* A delayed write to the POKEY waits for no longer than its delay, none   *)
(* is left behind by the devices or by a reset, and with the same delay    *)
(* for all of them they take effect in the order the program made them.    *)
WritesOnTime ==
    /\ \A w \in chip.writes : /\ chip.dev < w.cycle
                              /\ \E d \in setting.delays : w.cycle < chip.dev + d
    /\ (\E d \in setting.delays : setting.delays = {d}) => ~chip.over

(* A running 6502 gets a command no earlier than its cycle, and no later   *)
(* than the overshoot of one instruction past it or past a command that    *)
(* goes before it.                                                         *)
OnTime ==
    [][(phase = "running" /\ next' = next + 1 /\ ~chip.held)
         => /\ Goal <= chip'.cpu
            /\ \/ Near(chip', mark)
               \/ \E k \in 1..next : Near(chip', Target(start, k))]_vars

(* Was the time of a dated command kept, or cut to fit into its frame?     *)
Kept(c) == /\ c.since # None /\ c.since = c.cycle
           /\ c.since \in 0..Cycles /\ c.since + setting.offset \in 0..Cycles

(* Over a whole pass of the tape commands are sent as far apart as they    *)
(* were recorded: the frame lengths add up to the recorded time, and       *)
(* neither overshoot nor preemption moves the schedule.                    *)
KeepsTime ==
    [][(phase = "running" /\ next' = next + 1 /\ anchor # NoAnchor /\ Kept(Cmds[next]))
         => Target(start, next) - anchor.start =
              tape.origin[frame] + Cmds[next].since + setting.offset - anchor.origin]_vars

(* A frame that begins ends: no command waits for a cycle the 6502 never   *)
(* reaches, in particular not for a 6502 that is held.                     *)
FrameEnds == (phase = "running") ~> (phase = "between")

(* Until then a step of the frame can be taken and changes something.  No  *)
(* other step is there inside a frame, so FrameEnds would not hold without *)
(* it.                                                                     *)
PlayMayGoOn == phase = "running" => ENABLED <<Play>>_vars
=============================================================================
