----------------------------- MODULE SoundLink -----------------------------
(***************************************************************************)
(* The link between the main program and the sound 6502                    *)
(* (m6502/sound-chip.ts): the two latches, the NMI line, the queue of      *)
(* replies, the reset line, and the two diagnostics delays.  The frame     *)
(* loop calls submitCommand and drainReplyEvents between ticks; a tick is  *)
(* a run of instructions, so an instruction is the step of this module.    *)
(*                                                                         *)
(* The program the 6502 runs is in ROMs that are not in the repository; it *)
(* is what the comments of sound-chip.ts say of it.  The boot code polls   *)
(* the status and reads every command it shows; afterwards a command is    *)
(* read by the NMI handler; a reply is written only after a status that    *)
(* showed room.                                                            *)
(***************************************************************************)
EXTENDS Mailbox, Integers, Sequences

CONSTANTS Lags,        \* settings of the two diagnostics delays, see lag
          MaxLead,     \* bound: how far a release sets the cycle count back
          MaxReplies,  \* bound: replies since the last hard reset
          NoByte

ASSUME LinkAssumption ==
    /\ Lags \subseteq [nmi : Nat, ack : Nat] /\ MaxLead \in Nat /\ MaxReplies \in Nat
    /\ NoByte \notin Bytes

VARIABLES lag,                         \* the setting of this chip: it never changes
          mainToSound, soundToMain,    \* the two latches
          replyQueue,                  \* replies the frame loop has not drained
          nmi,                         \* the 6502's NMI line
          inReset,                     \* is the 6502 held in reset?
          ackIn,                       \* time to the main side's delayed read of a reply
          nmiIn,                       \* instructions to a delayed NMI
          prog,                        \* where the 6502's program is, see Booting
          fellBack,                    \* has a prewarm failed and released again?
          heard,                       \* history: the last command byte read
          era,                         \* history: flips at each hard reset
          posted, delivered            \* histories: replies written, replies drained

linkVars == <<mainToSound, soundToMain, replyQueue, nmi, inReset, ackIn, nmiIn>>
moving == <<linkVars, prog, fellBack, heard, era, posted, delivered>>
vars == <<lag, moving>>

NmiDelay == lag.nmi                    \* commandNmiDelayInstructions, 0 by default
AckDelay == lag.ack                    \* mainReplyAckDelayCycles, 0 by default

None == -1
Delay == Nat \cup {None}

(* boot: in the boot code; owed: in the NMI handler, command not yet read; *)
(* cmd, room: the last status showed a command, an empty reply latch.      *)
ProgType == [boot : BOOLEAN, owed : BOOLEAN, cmd : BOOLEAN, room : BOOLEAN]
Booting == [boot |-> TRUE, owed |-> FALSE, cmd |-> FALSE, room |-> FALSE]

Init ==
    /\ lag \in Lags
    /\ mainToSound = createMailbox /\ soundToMain = createMailbox
    /\ replyQueue = <<>> /\ nmi = FALSE /\ inReset = TRUE
    /\ ackIn = None /\ nmiIn = None
    /\ prog = Booting /\ fellBack = FALSE
    /\ heard = [byte |-> NoByte, turn |-> FALSE] /\ era = FALSE
    /\ posted = <<>> /\ delivered = <<>>

-----------------------------------------------------------------------------
(* The main side.                                                          *)

NmiOnSubmitHeld ==                     \* mutant: the test of the reset line inverted
    RisesOn(mainToSound) /\ inReset
NmiOnSubmit == RisesOn(mainToSound) /\ ~inReset

submitCommand(b) ==
    /\ mainToSound' = mailboxWrite(mainToSound, b)
    /\ nmi' = (nmi \/ (NmiOnSubmit /\ NmiDelay = 0))
    /\ nmiIn' = IF NmiOnSubmit /\ NmiDelay > 0 THEN NmiDelay ELSE nmiIn
    /\ UNCHANGED <<soundToMain, replyQueue, inReset, ackIn,
                   prog, fellBack, heard, era, posted, delivered>>

DrainedQueueKept == replyQueue         \* mutant: the queue is not emptied
DrainedQueue == <<>>

DrainedLatchKept == soundToMain        \* mutant: no read acknowledges the latch
DrainedLatch == IF ackIn = None THEN mailboxRead(soundToMain) ELSE soundToMain

drainReplyEvents ==
    /\ delivered' = delivered \o replyQueue
    /\ replyQueue' = DrainedQueue
    /\ soundToMain' = DrainedLatch
    /\ UNCHANGED <<mainToSound, nmi, inReset, ackIn, nmiIn,
                   prog, fellBack, heard, era, posted>>

(* The release re-runs the reset sequence and zeroes the cycle count; the  *)
(* cycle a delayed acknowledge waits for stays, so it moves away.  Besides *)
(* the release from reset there is one of a running chip: a prewarm that   *)
(* fails half-way has already released it.                                 *)
releaseSoundReset ==
    /\ inReset \/ ~fellBack
    /\ fellBack' = (fellBack \/ ~inReset)
    /\ inReset' = FALSE
    /\ nmi' = FALSE
    /\ ackIn' \in IF ackIn = None THEN {None} ELSE ackIn .. ackIn + MaxLead
    /\ prog' = Booting
    /\ UNCHANGED <<mainToSound, soundToMain, replyQueue, nmiIn,
                   heard, era, posted, delivered>>

(* A hold leaves both latches as they are, although its comment says       *)
(* "Clear volatile state: RAM, mailboxes, and chip shadows."               *)
AfterHoldCleared(latch) ==             \* mutant: what the comment says
    createMailbox
AfterHold(latch) == latch

holdSoundReset ==
    /\ inReset' = TRUE
    /\ mainToSound' = AfterHold(mainToSound)
    /\ soundToMain' = AfterHold(soundToMain)
    /\ nmi' = FALSE /\ ackIn' = None /\ nmiIn' = None
    /\ prog' = Booting
    /\ UNCHANGED <<replyQueue, fellBack, heard, era, posted, delivered>>

NmiAfterHardResetStays == nmi          \* mutant: the reset sequence leaves the line
NmiAfterHardReset == FALSE

resetSoundChip ==
    /\ mainToSound' = createMailbox /\ soundToMain' = createMailbox
    /\ replyQueue' = <<>> /\ nmi' = NmiAfterHardReset /\ inReset' = TRUE
    /\ ackIn' = None /\ nmiIn' = None
    /\ prog' = Booting
    /\ posted' = <<>> /\ delivered' = <<>>
    /\ era' = ~era
    /\ UNCHANGED <<fellBack, heard>>

-----------------------------------------------------------------------------
(* The 6502.  Each iteration of tickCycles first counts a delayed NMI down *)
(* and then takes the NMI or executes one instruction.                     *)

NmiNow == nmi \/ nmiIn = 0
NmiInAfter == IF nmiIn \in {None, 0} THEN None ELSE nmiIn - 1
AckInAfter == IF ackIn \in {None, 0} THEN ackIn ELSE ackIn - 1

Iterates == ~inReset /\ nmiIn' = NmiInAfter

TakeNmi ==
    /\ Iterates /\ NmiNow
    /\ nmi' = FALSE
    /\ ackIn' = AckInAfter
    /\ prog' = [prog EXCEPT !.owed = TRUE]
    /\ UNCHANGED <<mainToSound, soundToMain, replyQueue, inReset,
                   fellBack, heard, era, posted, delivered>>

Executes == Iterates /\ ~NmiNow

(* A read of $1810: by the NMI handler, or by the boot code after a status *)
(* that showed a command.                                                  *)
readCommand ==
    /\ Executes
    /\ prog.owed \/ (prog.boot /\ prog.cmd)
    /\ mainToSound' = mailboxRead(mainToSound)
    /\ heard' = [byte |-> mainToSound.value, turn |-> ~heard.turn]
    /\ nmi' = FALSE
    /\ ackIn' = AckInAfter
    /\ prog' = [prog EXCEPT !.owed = FALSE, !.cmd = FALSE]
    /\ UNCHANGED <<soundToMain, replyQueue, inReset, fellBack, era, posted, delivered>>

(* A read of $1820 first performs the main side's read if its time has     *)
(* come.  Boot ends with a status that shows no command.                   *)
AckedLatch == IF ackIn = 0 THEN mailboxRead(soundToMain) ELSE soundToMain

readStatus ==
    /\ Executes
    /\ soundToMain' = AckedLatch
    /\ ackIn' = IF ackIn = 0 THEN None ELSE AckInAfter
    /\ prog' = [prog EXCEPT !.cmd = mainToSound.pending,
                            !.room = ~soundToMain'.pending,
                            !.boot = @ /\ (mainToSound.pending \/ prog.owed)]
    /\ UNCHANGED <<mainToSound, replyQueue, nmi, inReset,
                   fellBack, heard, era, posted, delivered>>

(* A write of $1810.  With no delay the main side's read happens at once.  *)
Queued(b) == IF RisesOn(soundToMain) THEN Append(replyQueue, b) ELSE replyQueue

postReply(b) ==
    /\ Executes /\ prog.room
    /\ Len(posted) < MaxReplies
    /\ posted' = Append(posted, b)
    /\ replyQueue' = Queued(b)
    /\ soundToMain' = IF AckDelay = 0 /\ RisesOn(soundToMain)
                      THEN mailboxRead(mailboxWrite(soundToMain, b))
                      ELSE mailboxWrite(soundToMain, b)
    /\ ackIn' = IF RisesOn(soundToMain) /\ AckDelay > 0 THEN AckDelay ELSE AckInAfter
    /\ prog' = [prog EXCEPT !.room = FALSE]
    /\ UNCHANGED <<mainToSound, nmi, inReset, fellBack, heard, era, delivered>>

(* Any other instruction.                                                  *)
otherInstruction ==
    /\ Executes
    /\ ackIn' = AckInAfter
    /\ UNCHANGED <<mainToSound, soundToMain, replyQueue, nmi, inReset,
                   prog, fellBack, heard, era, posted, delivered>>

Step ==
    \/ \E b \in Bytes : submitCommand(b) \/ postReply(b)
    \/ drainReplyEvents \/ releaseSoundReset \/ holdSoundReset \/ resetSoundChip
    \/ TakeNmi \/ readCommand \/ readStatus \/ otherInstruction

Next == Step /\ UNCHANGED lag

(* The frame loop ticks a released chip and drains it every frame.  A      *)
(* frame is thousands of instructions and brings a handful of commands, so *)
(* the 6502 program comes back to its polls whatever the NMIs between; its *)
(* handler reads the command.                                              *)
Fairness ==
    /\ WF_moving(TakeNmi) /\ WF_moving(readCommand) /\ SF_moving(readStatus)
    /\ WF_moving(drainReplyEvents)

Spec == Init /\ [][Next]_vars
FairSpec == Spec /\ Fairness

-----------------------------------------------------------------------------
(* Type invariant.                                                         *)
TypeOK ==
    /\ lag \in Lags
    /\ mainToSound \in LatchType /\ soundToMain \in LatchType
    /\ replyQueue \in Seq(Bytes) /\ posted \in Seq(Bytes) /\ delivered \in Seq(Bytes)
    /\ nmi \in BOOLEAN /\ inReset \in BOOLEAN /\ fellBack \in BOOLEAN
    /\ ackIn \in Delay /\ nmiIn \in Delay
    /\ prog \in ProgType /\ era \in BOOLEAN
    /\ heard \in [byte : Bytes \cup {NoByte}, turn : BOOLEAN]

(* A command waiting for a running 6502 is never forgotten: either its NMI *)
(* is up or due, or the handler has still to read it, or the boot code has *)
(* not finished polling.  The NMI comes on the edge of pending only, so    *)
(* one missed edge would silence every later command.                      *)
CommandWillBeSeen ==
    mainToSound.pending /\ ~inReset =>
        nmi \/ nmiIn # None \/ prog.owed \/ prog.boot

(* Without the diagnostics delay an NMI, requested or in service, stands   *)
(* for a command that is still in the latch; an NMI left over from before  *)
(* a reset would make the handler run an old command again.                *)
NmiMeansCommand ==
    NmiDelay = 0 => (nmi \/ prog.owed => mainToSound.pending)

(* Every reply the 6502 wrote since the last hard reset reaches the main   *)
(* side once and in order, whether the acknowledge is immediate, delayed   *)
(* or performed by a drain.                                                *)
RepliesInOrder == posted = delivered \o replyQueue

(* Without the NMI delay the link implements the one-place command channel *)
(* of CommandChannel: a byte is heard once, the latest wins, and a hard    *)
(* reset alone drops one.  A command that waits when the reset line is     *)
(* pulled, however often, is there for the boot code of the next release:  *)
(* no hold "clears the mailboxes".                                         *)
Channel == INSTANCE CommandChannel
             WITH slot <- IF mainToSound.pending THEN mainToSound.value ELSE NoByte
ChannelSpec == Channel!Init /\ [][NmiDelay = 0 => Channel!Next]_(Channel!chVars)

(* A command is read, unless the 6502 is put in reset; and a reply does    *)
(* not block the next one for ever: the latch the 6502 polls before it     *)
(* writes empties, even after a hold forgot the acknowledge.               *)
CommandIsRead == mainToSound.pending /\ ~inReset ~> ~mainToSound.pending \/ inReset
ReplyLatchEmpties == soundToMain.pending /\ ~inReset ~> ~soundToMain.pending \/ inReset

(* The instructions the fairness speaks of, and the drain, can run when    *)
(* they have something to do, and leave the link changed.                  *)
StepsMayHappen ==
    /\ [](~inReset /\ NmiNow => ENABLED <<TakeNmi>>_moving)
    /\ [](~inReset /\ ~NmiNow /\ (prog.owed \/ (prog.boot /\ prog.cmd))
            => ENABLED <<readCommand>>_moving)
    /\ [](~inReset /\ ~NmiNow /\ (prog.cmd # mainToSound.pending \/ ackIn # None)
            => ENABLED <<readStatus>>_moving)
    /\ [](soundToMain.pending /\ ackIn = None => ENABLED <<drainReplyEvents>>_moving)

LinkGoesOn == StepsMayHappen /\ CommandIsRead /\ ReplyLatchEmpties

=============================================================================
