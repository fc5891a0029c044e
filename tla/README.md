# Marble Love: the verification project

Marble Love is a TypeScript port of the arcade game Marble Madness. A pure
*engine* (`packages/engine`) reproduces the 68010 program routine by routine and
the sound board (a 6502, a YM2151, a POKEY) cycle by cycle; a *browser page*
(`packages/web`) runs one engine tick per frame, feeds it coins, START and the
trackball, and connects it to the sound board; a *command-line package*
(`packages/cli`) compares all of it with MAME.

This directory holds TLA+ models of the parts of the program whose correctness
depends on the order of events: what TLC checks about them on small instances,
and what TLAPS proves about them for every value of their parameters.

## 1. Inventory

### Sound board and its host

| Part | State | Operations | What is hard | What makes it correct |
|---|---|---|---|---|
| Latches (`m6502/mailbox.ts`) | two bytes with a pending bit | write, read | the rising edge of `pending` is the only thing that requests an NMI | a command that waits will be read |
| Link (`m6502/sound-chip.ts`, `sound-mmu.ts`, `cpu.ts`) | latches, reply queue, NMI line, reset line, delayed NMI, delayed acknowledge | submit, drain, release, hold, hard reset, status and command reads, replies | one edge lost in a reset, or a stale NMI; three ways to acknowledge a reply | commands at most once and never forgotten; replies once and in order |
| YM2151 timers and the IRQ pin (`audio/ym2151.ts`, `sound-chip.ts`) | two timers with prescaler rest, flags and gates; synced flag; two delays; writes deferred in an instruction | register writes, passing time, end of instruction, resets | a flag raised in the instruction that clears it; three resets that clear different things | no lost IRQ, no spurious IRQ, exact periods |
| Sound host (`web/src/main.ts`, `sound-gameplay-profile.ts`) | the live chip and what it is prepared for, the coin chip, the command queue, the music clock | frame, end of an asynchronous preparation, audio start | preparations overtake one another; a game begins while a jingle is prepared or plays | a game gets its chip, its commands in order, its music, and no jingle |
| 6502 core, POKEY, YM synthesis | registers, envelopes, phases | opcodes, samples | arithmetic | agreement with MAME (probes of the CLI) |
| Tape replay (`loadCmdTape` and `tickFrameWithTape` of `sound-chip.ts`, `sound-replay.ts`) | the tape's commands with their cycles; the clocks of the 6502 and of the devices, the scheduled cycle, POKEY writes not yet due | load, a frame of the tape, an instruction, a preemption at the cycle of a command, release, hold, hard reset, a host tick between frames | a frame ends inside an instruction; three clocks that must not drift apart; writes that overtake each other; resets between frames | each command at its cycle and in order, each write at its cycle, the schedule exact over any number of frames |
| Audio output (`sound-renderer.ts`, `public/sound-worklet.js`, `startSoundRenderer` of `main.ts`) | the flags of the start, the renderers made, the messages to the worklet, its two rings, the chunk queues of the fallback | gesture, end of `addModule` and `resume()`, push of a frame, reset, message, render quantum | gestures while a start is pending; a quantum between two messages; wrap, overflow and underrun of the rings | one renderer, that stays on; samples in order and once; the chips together |

### Game program

| Part | State | Operations | What is hard | What makes it correct |
|---|---|---|---|---|
| Slapstic 103 (`m68k/slapstic-103.ts`) | chip state, active and selected bank, armed bits | one access | a bank changes only after an exact sequence; the order of the comparators | only complete sequences switch; one switch per reset access |
| Bank mirror (`apply-slapstic-bank.ts`, `slapstic-lookup.ts`, `render-tile-line-1ad54.ts`) | the copy of the active bank in `rom.program` | lookup, table-store event, ROM load, warm start | every caller must refresh the copy, and must find the chip in the state it expects | the copy is the active bank; the event selects whatever went before |
| Game flow (`main-tick.ts`, `main-loop-init-1101e.ts`, `mode2-init-11452-async.ts`, `game-main-gate.ts`, ...) | state word 0x400390, mode 0x392, level 0x394, segment 0x3e4, dwell of the attract pages 0x75a, stage counters of the resets, waits and intros spread over ticks | one tick, with START, a timer that expires, a level that ends | six writers of one state word; resets that go on while the game moves on; START at any tick | one staged activity at a time, and one that goes with the state word; START leads to a level and a game over to the attract mode; no old START counts |
| Player clocks (`game-tick-timers.ts`, `timer-cascade.ts`, `level-intro-banner-resume.ts`) | digits of the clock | count down, add time, park during an intro | time carried over a level, an expiry in the tick that ends the level | the time runs in play only, and a level begins with what the one before left |
| Script slots (`game-state-machine.ts`, `state-machine-schedule.ts`) | four slots with counters and thresholds | tick, schedule | a slot frees itself and schedules the next one | no slot stuck, text erased |
| High scores (`high-score-*.ts`, `key-rank-lookup-4686.ts`, `object-slot-lookup-11b18.ts`) | table of packed records, the record in the player's slot, the entry of the initials | end of a game, a frame of the entry, START, coin start | the rank is found long before it is used; START and trackball from before the entry | the table holds the best records in order, each signed by its player |
| Settings, statistics (`score-table-update-4790.ts`, `eeprom-*.ts`) | counters with checksums | count, commit | a commit requested while one is under way | the counters consistent |
| Physics, objects, terrain, rendering (about 250 routines of `packages/engine/src`) | work RAM, sprite and tile RAM | straight-line translations of 68010 routines | agreement bit by bit | compared with the binary by the CLI |
| Clock of the 68010 (`m68k/*.ts`) | cycle tables | cycles per instruction | table data | agreement with MAME |

Interactions. Each animation frame the page reads its inputs, advances the start
flow, runs `tick` (the whole engine), which calls back `onSoundCommand` into the
host's queue; the host then submits queued commands to the sound chip and runs
it for a frame of cycles. Inside the chip, an instruction advances the devices,
whose flags drive the IRQ pin that the next instruction samples. After its frame
the host takes the samples of both chips and pushes them to the renderer, which
sends them to the audio thread. Only the page has real concurrency (promises of
preparations between frames, promises of the audio start between gestures, and
the audio thread); the others have interleavings of instructions with calls of
the host, and sequences of ticks.

## 2. Modules

`SlapsticFsm`, `SlapsticDecode` and `SlapsticBus` extend or use `Slapstic103`;
`SoundLink` extends `Mailbox` and implements `CommandChannel`; `YmIrq` and
`YmClock` extend `YmTimer`, and `YmClock` implements `AlarmClock`; `SoundHost`
stands alone above them: it sees the chip through `submitCommand` only.
`TapeReplay` extends `CmdTape`. `AudioOutput` extends `AudioStart` (who plays) and
`PcmQueues` (the two queues as operators) and implements `PcmFifo`, once for each
chip. `GameFlow` stands alone: of the sound it needs nothing, and what the page's
start flow does to the game is in it. `HighScores`, which implements
`HighScoreList`, opens up the one field `entry` of `GameFlow`. The `MC` modules
extend their module and give the records and functions among its constants a
value; `MCSlapstic` also runs the two specifications that `SlapsticParts` puts in
one scope, the chip alone and the engine's users of a chip, which never move
together. `YmParts` does the same for the IRQ line and the timer against its alarm
clock, so that one module can prove about both.

| Module | Code | How state and actions correspond |
|---|---|---|
| `Slapstic103` | `slapstic-103.ts:145-311` | the chip as a record, `slapsticTick` as the operator `Tick` over *classes* of accesses (which comparators match), one operator per chip state |
| `SlapsticFsm` | same | every access sequence, with the accesses since the last reset as history |
| `SlapsticDecode` | `slapstic-103.ts:78-139` | each address of the window, and of the ROM below it, through the comparators' masks, line by line: shows that the classes of `Slapstic103` are the ones addresses have |
| `SlapsticBus` | `apply-slapstic-bank.ts`, `slapstic-lookup.ts`, `render-tile-line-1ad54.ts:65-99`, `boot-init.ts:216-223` | chip, mirror, and what each user reads and was meant to read |
| `Mailbox`, `SoundLink` | `mailbox.ts`, `sound-chip.ts` | one action per call of the main side (submit, drain, release, hold, hard reset) and one per kind of instruction of the 6502 (take the NMI, read the command, read the status, post a reply, any other) |
| `CommandChannel` | (specification) | a place for one command: a post replaces, a take empties, and besides it a hard reset alone empties |
| `YmTimer`, `YmClock` | `ym2151.ts:588-718` | load, control register, `ym2151TickCycles` as a recursive function over ticks |
| `AlarmClock` | (specification) | cycles to the next expiry, no ticks and no rests |
| `YmIrq`, `MCYmIrq` | `sound-chip.ts:1031-1186`, resets | an instruction with its register writes, immediate or deferred to a point inside it; hold, release, hard reset |
| `SoundHost`, `MCSoundHost` | `web/src/main.ts` | a ticker callback is one action, the composition of the functions it calls in their order; the end of each promise is an action |
| `CmdTape` | `sound-chip.ts:1421-1616, 1713-1822` | `loadCmdTape`: a recording becomes frames, their lengths and the cycle of each command in its frame |
| `TapeReplay`, `MCTapeReplay` | `sound-chip.ts:774-837, 951-989, 1100-1249, 1825-2596` | `tickFrameWithTape` taken apart at its loop: begin (skipped, releasing or plain), one instruction, a preemption by an IRQ or before an imminent store, submit, schedule, end; the resets and a tick of the host between frames |
| `PcmFifo` | (specification) | a queue that gives up its oldest samples; what is put, and when it is reset, is free |
| `PcmQueues` | `sound-worklet.js:43-78`, `sound-renderer.ts:472-515` | the ring with its indices and the queue of chunks with its count, as operators on their values |
| `AudioStart` | `main.ts:2241-2278`, `sound-renderer.ts:203-247, 364, 429` | a gesture, and each promise of `start()` that settles, is an action |
| `AudioOutput`, `MCAudioOutput` | `main.ts:2023-2043`, `sound-renderer.ts:368-456`, `sound-worklet.js:80-227` | the page pushes both chips in one action; the audio thread takes a message or begins a quantum, and then goes sample by sample |
| `HighScoreList` | (specification) | the best records in order, and a score on offer until it is signed |
| `HighScores`, `MCHighScores` | `high-score-initials-entry.ts`, `high-score-register-428e.ts`, `key-rank-lookup-4686.ts`, `hi-score-decode-41c8.ts` | the end of a game and each frame of the entry is one action, with the trackball and START of the frame |
| `GameFlow`, `MCGameFlow` | `main-tick.ts`, `main-loop-init-1101e.ts`, `mode2-init-11452-async.ts` and the routines they call; `coin-start-flow.ts`, the ticker of `main.ts` and `bootInit` for the ways into a game | a tick is one action, the composition of the functions `mainTick` calls in their order on one record; a coin start (warm start and the tick after it) is the other |

Every definition that stands for code is listed in `PROJECT.json` (`map`) with
its lines. A definition commented `mutant:` is a plausible bug, not the code: it
is swapped in to show that a property notices.

Abstractions worth knowing. `SoundHost` keeps a flag `current` for each
preparation instead of the generation number, and the mode stands for the chip
object. The program of the 6502 is not in the repository (it is ROM); `SoundLink`
takes from the comments of `sound-chip.ts` that its boot code polls, that its NMI
handler reads the latch, and that it posts a reply only into an empty latch.
Bytes are model values. `SoundLink` and `YmIrq` hold their diagnostics setting in
a variable that no action changes (`lag`, `diag`), so that one run covers all of
them; under the setting of the game, without the delay of the NMI, the link
implements its channel.

In `GameFlow` an operator with a capital letter stands for the set of states a
function can lead to: what the marbles do (`Moved`: goal, bonus, carried off),
which buttons fall, whether a credit is in, whether the score ranks and whether
a body of the main loop is late are free choices in each frame. The stages of a
reset that only draw are one operator (`NextStage`); which stage initialises the
level, shows the demo or ends it is a parameter (`Demo`). The fields `stale`,
`earned` and `cut` are history: they name, for the properties, the START that is
from before this attract mode, the time at the last goal, and a coin start that
came upon a staged activity.

In `TapeReplay` a program is the choice of an instruction's length, of its stores
and of the IRQ it may see; the latch and the NMI are those of `SoundLink` and are
not repeated. Recordings are taken to be in chronological order, as the recorder
writes them. With lookahead a setting also releases the reset by itself: with a
chip that stays held `advanceReplayCpuTo` would not return, and no page or probe
asks for that.

In `AudioOutput` sample *n* of either chip covers the same instant and each frame
has as many of one as of the other: the resampler, which makes them so on the
average, is arithmetic. `torn` is history and says when alignment may be lost.
In `HighScores` a letter is its place in the alphabet of the entry, and the free
choices are the score of a game and the input of a frame. `up` and `cut` are
history.

## 3. Runs

| Run | What it shows | Bounds, and why they suffice |
|---|---|---|
| `Slapstic` | `ClassIsFaithful` for every word; `SwitchIsUnlocked` over all access sequences; the mirror is coherent, lookups are served from their bank, an event depends on its flags only | all 16384 words: the window and as many of the ROM below it; a history of `MaxSince = 4` accesses: the longest unlocking sequence has that many; the users of the chip have no bound, their state is finite |
| `SoundLink` | replies come in order, an NMI stands for a command, a command is read; without the NMI delay the link is `CommandChannel`: no hold and no release drops a command | with and without delays of 2 (the least with a state strictly inside), a release that sets the cycle count back by up to 2; two byte values (one of them the zero of a cleared latch), 2 replies between hard resets: the second is posted while the first is queued, drained or still in the latch |
| `YmIrq` | `IrqMeansPin` (no spurious IRQ), `IrqArrivesInTime` (no lost IRQ), `TimerIsAlarm` (a timer implements the exact alarm clock) | the game's setting and one with both delays and deferred writes; periods of a few cycles, so that timers overflow inside instructions; for the alarm clock loads up to 5 with the prescaler of Timer A, instructions shorter and longer than a period |
| `YmIrqReset` | violation: see findings | |
| `SoundHost` | six invariants, `CommandsInOrder` and `SoundIsServed` (a game gets its chip, a coin is heard) on five kinds of page | levels 0, 1 and 6 (no music), 3 commands left over, 2 per frame: batches split and the mailbox is full in the middle |
| `GameFlow` | `OneOwner`, `OwnerFitsWord`, `ClockRuns`, `NoStaleStart`, `NextLevelKeepsTime`, `ExpiryOnlyInPlay`, and `FlowGoesOn` (START leads to play, a game over to the attract mode), in all three flows of the page | three levels, stages and clocks of a few ticks: see below |
| `GameFlowStart`, `GameFlowCoin` | violations: see findings | the flow in which each occurs |
| `TapeReplay` | `InStep`, `WritesOnTime`, `OnTime`, `KeepsTime`, `FrameEnds` for three tapes and six settings | see below |
| `AudioOutput` | `FlagTellsTruth`, `SoundStaysOn`, `StreamsAreFifos`, `AlignedUnlessTorn` | see below |
| `AudioAligned` | violation: see findings | one renderer and two frames are enough |
| `HighScores` | `TableIsTopList` (the table is a `HighScoreList`), `EntryStartsFresh` | three rows, keys of three bits, names of two letters out of three: see below |

The bounds of `MCGameFlow`. Stages, waits, dwells and digits are scaled down to the
least that keeps their order: a dwell of 2 has a tick that only counts and one
that ends; a demo has the stage that initialises, the first and last that show
it, and the four before its end; an intro has steps that add time and steps that
do not; a second is three ticks. TLC evaluates the assumptions of the proofs
(section 5) on these values: the demo's clock still has time left when the tables
that follow it have dwelt, and an intro is long enough for its extra time.
Three levels (one with two steps
of extra time) give a first, a middle and a last one; bonus time stops at
`MaxTime`. All eight segments of the attract mode are there, and games follow
one another without bound.

The bounds of `MCTapeReplay`. A frame of 6 cycles and instructions of 2 and 3 end
frames at each offset inside an instruction; the recordings have commands with and
without a date, two in one frame, one at the first and one at the last cycle. The
tape loops from frame 1 until `Horizon = 19` cycles, three frames and a rest: the
overshoot of one frame is carried into the next and the third shows whether it
accumulates. At most two writes wait (they may swap), the host runs at most two
cycles ahead, a hard reset sets the count to 7, which is no multiple of a frame.

The bounds of `MCAudioOutput`. A ring of 3 with frames of 2 and quanta of 2 wraps
in the middle of a frame, overflows by one sample and by a whole frame, and runs
dry in a quantum; four frames bring the indices round more than twice. Two
renderers: the second one replaces the first while its promises are open. A port
of 4 holds two frames, or a reset between the messages of two.

The bounds of `MCHighScores`. Base 2 gives keys of three digits that differ in the
first, the second or the last one only; the scores tie with a row, with each
other, never rank, or do not fit in a key. Two places of the trackball give no
movement, one up or down, and one to the side; a cooldown of 1 has a frame that is
ignored. Games follow one another without bound.

Deadlock is checked except where the modules leave no step at their bound.

Fairness. `SoundLink`: weak fairness of taking a requested NMI, of the read in
its handler and of the frame loop's drain; strong fairness of the status poll,
which the boot code and the reply routine repeat: a frame has thousands of
instructions, and the host calls the drain every frame. `SoundHost`: every
preparation's promise settles, and frames come as long as a jingle plays (the
browser calls the ticker). `GameFlow`: weak fairness of the tick, for the same
reason; nothing is assumed of what happens in it. `TapeReplay`: weak fairness of
the steps inside `tickFrameWithTape`, a synchronous function that runs to its
end; none of the next call. No fairness of the user's inputs is assumed.

## 4. Findings

* `resetSoundChip` (`sound-chip.ts:2597`, "Hard reset: clear all state") keeps
  both YM timers running; `YmIrqReset` shows it. `IrqMeansPin` holds nevertheless.
* `holdSoundReset` (`sound-chip.ts:967`, "Clear volatile state: RAM, mailboxes, and
  chip shadows.") keeps both mailboxes: a command that waits when the reset line is
  pulled is read after the next release. `ChannelSpec` in the run `SoundLink` states
  what the code does (in `CommandChannel` only a hard reset empties the place) and
  passes; its mutant clears the latches in a hold, as the comment says, and TLC
  then finds the hold that drops a command.
* A START accepted in a demo can be lost (`GameFlowStart`). The gate sets the
  state word to 5 in the middle of a demo; `case5` has to wait for the demo, and
  when its marble is carried off `objectScanDispatch251DE`
  (`object-scan-dispatch-251de.ts:347`) overwrites the 5 with 3. The credit is
  spent and the demo goes on as a game at the next level, whereas
  `main-loop-init-1101e.ts:384` says "START enters the playable level intro".
  `FlowGoesOn` still holds: a level is played in the end.
* A coin start that comes during a demo or a reset leaves that reset running over
  the game (`GameFlowCoin`): `bootInit` (`boot-init.ts:228`) does not reset the
  staged counters, whereas `main.ts:2394` says "Human live play should leave the
  attract/tutorial dispatcher after START." The other properties of `GameFlow`
  except games begun so (`cut`). `highScoreInitialsEntry` is among the fields that
  stay: a coin start that comes while the initials are entered (nothing in
  `isCoinStartAttractReady` forbids it) leaves an entry in the game, and the next
  START inserts the record of the loaded game into the loaded table at the rank
  of the old one. `TableIsTopList` leaves that case out.
* The two PCM streams of the page can get out of step (`AudioAligned`). The comment
  at `sound-worklet.js:36` says that the queues keep them time-aligned "when both
  chips are pushed during the same frame"; the two messages of a frame may have a
  render quantum between them, and if the POKEY queue is dry at that moment its
  samples lag behind from then on. `AlignedUnlessTorn` says that this, and an
  overflow of the YM2151's ring at the same place, are the only ways.

Observed, with no text that says otherwise: `startSoundRenderer` clears
`soundStartInFlight` in a `finally` that also runs when it refuses a gesture
(`main.ts:2245, 2267`), so the second gesture during a start opens the way for the
third one to make a second renderer; the same makes a start whose `resume()` never
settles repeatable. A score of more than 24 bits is offered an entry and then not
listed (`object-slot-lookup-11b18.ts:66`: the rank -1 is not 10). A coin start
replaces the scores of the page by those of the recorded memory.

## 5. Proofs

TLAPS checks the theorems of the eight `*_proofs` modules for every value of the
constants that satisfies the named assumptions of the module. Each but
`AudioOutput_proofs` and `HighScores_proofs` also proves the type invariant of its
module; only that of `YmIrq` is in a run as well.

* `Slapstic_proofs` (`LastWordAssumption`: the walk ends within the window). The mirror invariant is not inductive
  without the type of the chip; the lemma `EventSelects` goes through the four
  accesses of the event from each chip state and so does not need reachability;
  `ServedFromWantedBank` rests on the trigger access, which arms the chip from any
  state. `OnlyUnlockedSwitch` is about the chip alone, after any number of
  accesses (`MaxSince` is any number): `Explained` says for each state of the chip
  what must have been read since the reset access, and a switch leaves the chip
  idle. `ClassAlwaysFaithful` needs no induction, but arithmetic on bits: a line of a
  byte is the difference of two of its quotients (`LineIsDifference`), so each mask
  of a comparator keeps a sum of such quotients (`LowMasks`); a 24-line AND is that of
  its three bytes (`AndBytes`), of which only the low one depends on the mask once the
  range is in it (`RangeAnd`). What is left is linear in the word (`Comparators`).
* `SoundLink_proofs` (`LinkAssumption`). The inductive invariant `IInv` joins
  `CommandWillBeSeen`, `NmiMeansCommand` and `RepliesInOrder` with
  `SampleIsFresh` (a status that showed a command or room still holds when the
  program acts on it): without it a reply could overwrite an unread one, and the
  boot code could read a command twice. `LinkIsChannel` is the refinement, under
  `NmiDelay = 0`; the history `era` ties the only step that may drop a command to
  `resetSoundChip`. `CommandIsReadInTime` is liveness: a command goes from the NMI to
  the handler, or from the boot poll to its read, and never back (`WaitSteps`) but
  for the one release of a running chip. `AcknowledgeComesNearer` is one step of the
  countdown of a delayed acknowledge, for every k; it uses the strong fairness of
  `readStatus`, since each NMI takes the instruction the poll would have been.
* `Ym_proofs` (`IrqAssumption`, `ClockAssumption`). For the line, `IInv` adds its
  *shape* (which combinations of raised, synced and delays occur) and bounds of the
  delays; the loop of a timer over its ticks enters only through what a tick does to
  flags. For the clock, the loop is a recursive function of the number of ticks:
  that it exists and is unique is an induction over them (from the least
  counterexample, `WFMin`), and `TicksCount` gives its closed form, the counter and
  the rest left after any number of ticks and how often it expired. From that
  `TimerImplementsAlarm` follows step by step: a timer with prescaler, rest and
  gates is an `AlarmClock`, which knows only the cycles to the next expiry.
* `SoundHost_proofs` (`HostAssumption`). A frame is a composition of a dozen
  functions of the record `h`. The invariant is split into `Core` (chip, kind,
  preparations, coin) and `Queued` (queue, music, history), each function has a
  lemma that says what it preserves, and the frame's lemma chains them.
  `GameIsServed` is liveness: while a game waits, its own preparation is under way
  (`GameHasChip`, `PreparationIsTracked`) and perhaps one of the attract chip it
  overtook; that one can end first, once, and no other begins (`GameOnlyStays`).
* `GameFlow_proofs` (`FlowAssumption`; from `ExpiryInPlayOnly` on the theorems have four more).
  `OneOwner` says that two activities are not on at once; it is inductive only
  together with the state word, because the word says which activities may begin: an
  intro begins at word 0, where no reset goes on. `Good` joins the type, `Solo` (one
  owner, field by field), `Fits`, `Based` (an intro that scrolls knows its time) and
  `Unspoilt`, and there is a lemma for each function a tick is composed of. The
  dispatcher's lemmas assume `Free`, which `Blocked` gives; the exception is the
  demo, which runs `RefreshFrame` beside the reset and can only overwrite the word
  with 3. The type is split into parts, since the provers do not build a record of
  26 fields at once, and the lemmas come in four rows, one for each part of the
  invariant, over the same functions in the order in which a tick composes them.
  `ClockAlwaysRuns` needs two facts more, `Runs`: an intro is that of a level there
  is (`Playable`; one of no level would leave the clock parked), and the time is up
  for a player who timed out only (`Overdue`; otherwise word 4 would go back to a
  level whose clock is parked). The theorems hold for any stages, waits and loaded
  games, whereas the run has short ones.

  `ExpiryInPlayOnly` and `TimeIsCarried` are about one another. A demo uses the
  clock of the player, and the clock ticks on while the tables are shown, so that
  the time would run out in the attract mode if the tables dwelt too long; and a
  START that comes while a demo's marble reaches its goal turns the demo into the
  end of a level, whose score is held: a clock that ran out then would leave
  `levelEndScoreResumePending` set, and the next game would not count a level.
  `Quiet` is the invariant: what is left of the clock, in frames (`FramesLeft`),
  covers the pages still to come (`Lasts`, `Turned`); a marble that is gone has a
  parked clock (`Aside`), and so have the initials and the end of a game (`Ends`);
  and the time at the goal is found again as the base of the scroll, then as the
  digits less what the banner has added (`Carries`, `Added`). The main loop runs in
  every second frame and the clock in each, so within a frame the clock may be a
  frame ahead: `Quiet` has a slack `n` of up to 2, which the turn of the body takes
  back (`PaceQuiet`). `Waiting` is for the page that holds the attract mode (whose
  clock was never started), `Attracts` for the coin flow (a game is its player's
  until word 1).

  `FlowCountsDown` gives what is outside the levels and the attract mode a natural
  number that falls in every frame (`Rank`): the frames that the counters hold the
  main loop (`Counted`; a demo is followed by a mode-2 reset and its panel, and
  nothing begins a reset under the words 2 to 6), and what the dispatcher still has
  to do at this word and its successors, their waits included (`Ahead`). Since the
  main loop runs in every second frame, a frame without it takes its one from the
  parity. `Starts` is where a START can be: word 5, or the word 3 that a demo makes
  of it, at a level that is not the last (`Low`, `StagesAssumption`). The frame is
  followed through the clock and the gate (`Even`), the body (`Brought`) and the
  staged counters (`StagedFalls`). Initials that wait for their player are left out,
  as they are in `StartLeadsToPlay`.

  `ExpiryInPlayOnly` and `TimeIsCarried` need facts about values, and the assumptions say which.
  `StagesAssumption`: the level of a demo is initialised in a stage from 6 to the
  first that shows it (`main-tick.ts:206-209`), segment 3's demo is over at stage
  853 and the others' at 1024, and demos show the levels 0 and 1 of the six.
  `DemoTimeLasts`: a demo's clock has 45 seconds left at least, 2700 frames, where
  the pages after it take 1000 at most (after segment 3's demo the clock stands
  still). `ExtraComesInTime`: `LEVEL_EXTRA_TIME` is 20 to 60 seconds in steps of 5
  that come every 10 ticks, and the banner stays for 61 ticks and one for each
  second; with more than 70 seconds it would go too early. `SeedsAssumption`: in
  each of the `*.seed.json` files the page loads the marble plays (slot 1, type 0),
  and its clock is parked or has a second left.
* `TapeReplay_proofs` (the assumptions of `CmdTape` and `TapeReplay`). `InStep` is
  not inductive: inside a frame the devices may be behind the 6502, and the
  overshoot is bounded only relative to what the frame still aims at. `IInv` joins
  the type of the chip (`ChipOK`), where a frame begins (`AtStart`), where it
  stands between commands (`OnSchedule`) and that no command is overdue
  (`NotLate`), with `WritesOnTime`; each action has a lemma per conjunct. `KeepsTime`
  compares two times that may be many frames apart; `TimeInv` therefore anchors each
  of them to the start of the tape (`OnTape`: the frames played, their lengths and
  the offset of the command in its frame) instead of to one another. Tapes are any
  that `IsTape` and `InTime` admit; `LoadedInTime` discharges `InTime` for what
  `loadCmdTape` makes of any recording whose time goes forward.
  `FrameCountsDown` and `FrameNeverStuck` are what the end of a frame rests on:
  every step inside it lowers `Work`, the cycles to its end and the commands not
  sent, and the guards of `EndFrame`, `Submit` and `Execute` leave no gap.
* `AudioOutput_proofs` (`CapAssumption`, `SizesAssumption`). `StartInv` says who
  may be pending with which flag; `SoundStaysOn` needs besides that a renderer
  with a sink never loses it and that only a pending or failed one is replaced.
  `StreamsAlwaysFifos` is the refinement of `PcmFifo`, for both chips and
  for both kinds of sink. For the worklet it rests on the ring lemmas `RingTakes`
  and `RingPuts` (what `Stored` becomes when an index wraps or gives way) and on
  `StreamInv`, the shape of both rings. For the fallback, what a queue holds is the
  concatenation of its chunks without what was read of the first; the lemmas follow
  it, by induction over the chunks, through a push, a read and each turn of the loop
  of the trim. `Alignment` is about both chips at once: `AlignInv` says that the
  messages come in pairs of equal batches (`Pairs`), that a batch half copied is the
  one its partner waits for (`JobFits`), and that the rings of the chips are
  `Together`, or one `Ahead` by the part of the batch already copied.
* `HighScores_proofs` (`ScoresAssumption`: the rows fit a byte, the packed letters a
  word, and the tables of ROM and of the loaded games are in order). `RankIsPlace` is
  the lookup; that a first row below the score exists is well-foundedness of < on the
  naturals. `IInv` joins the sorted table with the rank of a waiting entry, which is
  still that of its score (nothing is inserted while it waits), and with the START
  that is either up or was held before the entry began. `TableRefines` is the
  refinement of `HighScoreList`: that unpacking gives back the letters packed, for
  any alphabet and length that fit, is an induction over the letters, and `NameInv`
  says that the name being entered is one that can be packed.

Liveness. What the prover cannot show is `ENABLED` and an induction over a number in
a temporal formula. The leads-to theorems therefore have the first as a hypothesis
of their own (`StepsMayHappen`, `PreparationMayEnd`, `PlayMayGoOn`, `FlowMayGoOn`: a
step whose guard holds can be taken and changes something). Three of these are
conjuncts of `LinkGoesOn`, `SoundIsServed` and `FlowGoesOn`, so that TLC checks them
in the same runs; `PlayMayGoOn` follows from `FrameEnds`, since no other action moves
a frame in progress. The countdowns are theorems about one step of any length. With
that, of the four liveness properties

* `LinkGoesOn`: `CommandIsRead` is proved without the NMI delay, and
  `ReplyLatchEmpties` up to the induction over the cycles of the acknowledge;
* `SoundIsServed`: `GameGetsChip` is proved; `CoinIsHeard`, which counts the frames of
  the jingle, is only model-checked;
* `FrameEnds`: proved up to the induction over `Work`;
* `FlowGoesOn`: both halves proved up to the induction over `Rank` (`StartComesNearer`,
  `GameOverComesNearer`), for a game that no coin start cut into (in the coin flow
  the gate takes no credit, so that word 5 does not occur there).

Every other property of a passing run is a theorem.

## 6. Not modelled, and why

* Of the game flow: block C of `gameMainGate` (while the service input is low
  it adds a minute to the clocks, or stops the program), the special attract page
  of a coin (`main-tick.ts:336-380` sets the dwell to 0xffff when `eepromCommit`
  counts more credits than the word 0x3ea; its comment says that the count stays
  0 in the seeds), the second player, and the playfield. What
  `mode2TilemapBlitDelay` can draw over a level is listed as a hazard; only the
  counter is here.
* Of the sound chip: in the replay the smoothing of frame budgets and the record of
  a boundary preemption, diagnostics that change no clock; the delay of a sampled
  NMI; the status byte of the coin pulse.
* Of the audio output: the synthetic voices and cues, the resampler and its
  offsets, `stop()`, which no page calls, and what a replaced renderer still plays.
* Of the scores: the statistics of `score-table-update-4790.ts` and the EEPROM
  commit, which the pages never reach; the second player's score, since
  `consumeRuntimeStartCredit` starts games of one player only.
* Of the host: the trace, the debug keys, and the dedupe of attract commands.
* Interpreters, synthesis, physics, video, cycle tables and loading: data and
  arithmetic without an order of events; they are listed in `PROJECT.json`.
* The command-line probes, harness and oracle: test code.

## 7. Plan

In this order:

1. `ScriptSlots`: `game-state-machine.ts` and `state-machine-schedule.ts`; no
   slot is stuck, the text of a freed slot is erased.
2. The envelope of `ym2151-envelope.ts`: key on and off in any order, registers
   that reach the operators at the next sample only, the registers that
   `resetSoundChip` clears without telling the operators, and the envelope clock,
   which is one for all chips of a page and starts anew when one is created. Then
   the palette queue at its limit.
3. Two players in `GameFlow`: expiries and goals of both in one level.
4. `Session`: `GameFlow`, `SoundHost` and `SoundLink` composed, with the commands
   of a tick as messages, and the refinement of each component kept.
