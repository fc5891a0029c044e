----------------------------- MODULE MCGameFlow -----------------------------
(* Short stages and clocks for GameFlow, in the order of the real ones.    *)
EXTENDS GameFlow

MCIntro == [scroll |-> 2, step |-> 1, every |-> 2, clear |-> 2]
MCExtra == [l \in 0..3 |-> IF l = 1 THEN 2 ELSE 1]
MCDigits == [medium |-> 2, inner |-> 0]
MCWaits == [level |-> 1, timeout |-> 2, final |-> 2]
MCDwells == [shown |-> 2, over |-> 1, summary |-> 1]
MCDemoTime == [all |-> 5, four |-> 4, second |-> 4]

DemoOf(level0, others, from, last, clock) ==
    [init |-> [zero \in BOOLEAN |-> IF zero THEN level0 ELSE others],
     from |-> from, last |-> last, clock |-> clock]

MCDemo == [g \in 0..7 |->
    CASE g = 2 -> DemoOf({2}, {2}, 3, 12, 3)
      [] g = 3 -> DemoOf({2, 3}, {3}, 4, 9, 4)
      [] g = 5 -> DemoOf({3}, {3}, 3, 12, 4)
      [] OTHER -> DemoOf({2}, {2}, 3, 12, None)]

(* One game at its start and one that is under way.                        *)
MCSeeds ==
    {[mode |-> 0, level |-> 1, seg |-> 2, dwell |-> 0, slot |-> 1, type |-> 0, sec |-> 0,
      medium |-> 1, inner |-> Off, odd |-> TRUE],
     [mode |-> 0, level |-> 2, seg |-> 2, dwell |-> 0, slot |-> 1, type |-> 0, sec |-> 3,
      medium |-> 0, inner |-> 0, odd |-> FALSE]}
=============================================================================
