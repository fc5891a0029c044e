------------------------------ MODULE CmdTape ------------------------------
(***************************************************************************)
(* loadCmdTape (m6502/sound-chip.ts): a recording of the commands the main *)
(* program sent becomes a tape that tickFrameWithTape plays frame by       *)
(* frame.  A recorded command has its frame and, when the recorder took    *)
(* them, the time in cycles of the 6502 (seconds and attoseconds, already  *)
(* converted) and the cycle inside the frame.  The loader gives every      *)
(* command a cycle in its frame and every frame its length.                *)
(***************************************************************************)
EXTENDS Integers, FiniteSets, FiniteSetsExt, SequencesExt

CONSTANT FrameCycles                   \* SOUND_CYCLES_PER_FRAME
ASSUME FrameAssumption == FrameCycles \in Nat \ {0}

None == -1                             \* an absent field, in all of them
Timings == {"cycleInFrame", "secsAttos"}
Recorded == [frame : Nat, abs : Nat \cup {None}, inFrame : Nat \cup {None}]

Clamp(x, hi) == IF x < 0 THEN 0 ELSE IF x > hi THEN hi ELSE x
Stamped(c) == c.abs # None

(* When the frame of a command began: its time less its offset, except     *)
(* that with secsAttos timing the first stamped command opens its frame.   *)
OriginOf(timing, c) ==
    IF timing = "secsAttos" \/ c.inFrame = None THEN c.abs ELSE c.abs - c.inFrame

FrameOrigins(r, timing) ==
    LET In(f) == {i \in DOMAIN r : r[i].frame = f /\ Stamped(r[i])}
    IN  [f \in {r[i].frame : i \in {j \in DOMAIN r : Stamped(r[j])}} |->
            OriginOf(timing, r[Min(In(f))])]

(* The cycles between two origins are spread over the frames between them, *)
(* the remainder going to the first ones.                                  *)
Share(cycles, n, i) == (cycles \div n) + (IF i < cycles % n THEN 1 ELSE 0)

FrameLength(origin, f) ==
    LET before == {g \in DOMAIN origin : g <= f}
        after == {g \in DOMAIN origin : g > f}
    IN  IF before = {} \/ after = {} THEN FrameCycles
        ELSE LET a == Max(before)
                 b == Min(after)
             IN  IF origin[b] <= origin[a] THEN FrameCycles
                 ELSE Share(origin[b] - origin[a], b - a, f - a)

CycleInFrame(c, origin, timing) ==     \* cmdTapeReplayCycleInFrame
    IF timing = "secsAttos" /\ Stamped(c) THEN Clamp(c.abs - origin[c.frame], FrameCycles)
    ELSE IF c.inFrame # None THEN Clamp(c.inFrame, FrameCycles)
    ELSE IF Stamped(c) THEN Clamp(c.abs - origin[c.frame], FrameCycles)
    ELSE None

(* The commands of a frame are played by cycle, those without a cycle as   *)
(* if it were 0, and equal ones as they were recorded.  since is the time  *)
(* of a command from the start of its frame, as it was recorded.           *)
loadCmdTape(r, timing) ==
    LET origin == FrameOrigins(r, timing)
        cycle == [i \in DOMAIN r |-> CycleInFrame(r[i], origin, timing)]
        Key(i) == Max({0, cycle[i]})
        Before(i, j) == Key(i) < Key(j) \/ (Key(i) = Key(j) /\ i < j)
        total == Max({r[i].frame : i \in DOMAIN r}) + 1
        Bucket(f) == SetToSortSeq({i \in DOMAIN r : r[i].frame = f}, Before)
        Since(i) == IF Stamped(r[i]) THEN r[i].abs - origin[r[i].frame] ELSE None
    IN  [total |-> total,
         reset |-> Min({r[i].frame : i \in DOMAIN r}),
         origin |-> [f \in 0..total |-> IF f \in DOMAIN origin THEN origin[f] ELSE None],
         len |-> [f \in 0..total |-> FrameLength(origin, f)],
         cmds |-> [f \in 0..total |->
                     [k \in DOMAIN Bucket(f) |-> [cycle |-> cycle[Bucket(f)[k]],
                                                  since |-> Since(Bucket(f)[k])]]]]

(* The cycles a tape takes from its start to a frame, and the tapes on     *)
(* which they are those between the frames as recorded.                    *)
Played(t) ==
    LET before[f \in 0..t.total] == IF f = 0 THEN 0 ELSE before[f-1] + t.len[f-1] IN before

InTime(t) ==
    \A f, g \in 0..t.total :
        t.origin[f] # None /\ t.origin[g] # None =>
            Played(t)[g] - Played(t)[f] = t.origin[g] - t.origin[f]
=============================================================================
