---------------------------- MODULE MCTapeReplay ----------------------------
(***************************************************************************)
(* Two short recordings, loaded in both ways and played with six settings: *)
(* the page, the replay page and the probes.                               *)
(***************************************************************************)
EXTENDS TapeReplay

At(f, abs, in) == [frame |-> f, abs |-> abs, inFrame |-> in]

MCRecordings == <<
    \* dated: a gap of two frames that lasts 13 cycles; a command late in its frame
    << At(1, 12, 2), At(1, 14, 4), At(3, 23, 0) >>,
    \* undated, several to a frame; one at the start of a frame that follows
    << At(0, None, None), At(0, None, None), At(0, None, 1), At(1, None, 0) >> >>

MCTapes == { loadCmdTape(MCRecordings[1], "cycleInFrame"),
             loadCmdTape(MCRecordings[1], "secsAttos"),
             loadCmdTape(MCRecordings[2], "cycleInFrame") }

Page == [auto |-> TRUE, early |-> FALSE, ahead |-> None, complete |-> FALSE,
         irqAhead |-> None, firstFetch |-> 0, release |-> 0, offset |-> 0,
         delays |-> {0}, deferred |-> FALSE, services |-> {0}]

MCStores == { [length |-> 2, at |-> 1], [length |-> 3, at |-> 1] }

MCSettings == {
    Page,
    [Page EXCEPT !.release = 3, !.delays = {2}, !.services = {0, 1}],
    [Page EXCEPT !.ahead = 0, !.deferred = TRUE],
    [Page EXCEPT !.ahead = 2, !.complete = TRUE, !.firstFetch = 1],
    [Page EXCEPT !.irqAhead = 2, !.offset = 1, !.delays = {1, 4}],
    [Page EXCEPT !.early = TRUE, !.auto = FALSE, !.offset = -1, !.delays = {2}] }
=============================================================================
