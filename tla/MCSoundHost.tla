---------------------------- MODULE MCSoundHost ----------------------------
(* The pages that SoundHost is checked on.                                 *)
EXTENDS SoundHost

Page(flow, jingles, commands, handoff) ==
    [flow |-> flow, attractSound |-> jingles, coinSound |-> jingles,
     musicService |-> commands, levelMusic |-> commands, levelHandoff |-> handoff]

MCPages == {Page("coinStart", TRUE, FALSE, FALSE), Page("coinStart", FALSE, TRUE, TRUE),
            Page("bootFlow", TRUE, FALSE, FALSE), Page("bootFlow", FALSE, TRUE, FALSE),
            Page("seed", FALSE, TRUE, TRUE)}
=============================================================================
