-------------------------- MODULE SoundLink_proofs --------------------------
(***************************************************************************)
(* Theorems about the sound link, for any set of bytes and any delays.     *)
(***************************************************************************)
EXTENDS SoundLink, TLAPS

USE ZeroIsByte

-----------------------------------------------------------------------------
(* Types.                                                                  *)

LEMMA LatchOps ==
    ASSUME NEW mb \in LatchType, NEW b \in Bytes
    PROVE  /\ mailboxWrite(mb, b) \in LatchType
           /\ mailboxRead(mb) \in LatchType
           /\ mailboxRead(mb).pending = FALSE
           /\ mailboxWrite(mb, b).pending = TRUE
           /\ mailboxWrite(mb, b).value = b
  BY DEF LatchType, mailboxWrite, mailboxRead

LEMMA FreshLatch == createMailbox \in LatchType /\ createMailbox.pending = FALSE
  BY DEF createMailbox, LatchType

LEMMA LagValues == lag \in Lags => NmiDelay \in Nat /\ AckDelay \in Nat
  BY LinkAssumption DEF NmiDelay, AckDelay

LEMMA LagStays == [Next]_vars => lag' = lag /\ NmiDelay' = NmiDelay /\ AckDelay' = AckDelay
  BY DEF Next, vars, NmiDelay, AckDelay

LEMMA DelayOps ==
    ASSUME NEW d \in Delay
    PROVE  (IF d \in {None, 0} THEN None ELSE d - 1) \in Delay
           /\ (IF d \in {None, 0} THEN d ELSE d - 1) \in Delay
  BY DEF Delay, None

(* The types are an invariant of the link whatever the program of the 6502 *)
(* does between the accesses the link sees.                                *)
THEOREM TypeCorrect == Spec => []TypeOK
<1>1. Init => TypeOK
  <2>1. Booting \in ProgType /\ None \in Delay /\ <<>> \in Seq(Bytes)
    BY DEF Booting, ProgType, Delay
  <2>2. [byte |-> NoByte, turn |-> FALSE] \in [byte : Bytes \cup {NoByte}, turn : BOOLEAN]
    OBVIOUS
  <2> QED
    BY <2>1, <2>2, FreshLatch DEF Init, TypeOK
<1>2. TypeOK /\ [Next]_vars => TypeOK'
  <2> SUFFICES ASSUME TypeOK, [Next]_vars PROVE TypeOK'
    OBVIOUS
  <2> USE DEF TypeOK
  <2>b. lag' = lag /\ NmiDelay \in Nat /\ AckDelay \in Nat
    BY LagStays, LagValues
  <2> USE <2>b
  <2>0. None \in Delay /\ Booting \in ProgType
    BY DEF Delay, Booting, ProgType
  <2>a. NmiInAfter \in Delay /\ AckInAfter \in Delay
    BY DelayOps DEF NmiInAfter, AckInAfter
  <2>1. ASSUME NEW b \in Bytes, submitCommand(b) PROVE TypeOK'
    BY <2>1, LatchOps DEF submitCommand, NmiOnSubmit, Delay
  <2>2. CASE drainReplyEvents
    <3>1. delivered' \in Seq(Bytes) /\ replyQueue' \in Seq(Bytes)
      BY <2>2 DEF drainReplyEvents, DrainedQueue
    <3>2. soundToMain' \in LatchType
      BY <2>2, LatchOps DEF drainReplyEvents, DrainedLatch
    <3> QED
      BY <2>2, <3>1, <3>2 DEF drainReplyEvents
  <2>3. CASE releaseSoundReset
    <3>1. ackIn' \in Delay
      BY <2>3, <2>0 DEF releaseSoundReset, Delay, None
    <3>2. fellBack' \in BOOLEAN
      BY <2>3 DEF releaseSoundReset
    <3> QED
      BY <2>3, <2>0, <3>1, <3>2 DEF releaseSoundReset
  <2>4. CASE holdSoundReset
    BY <2>4, <2>0 DEF holdSoundReset, AfterHold
  <2>5. CASE resetSoundChip
    <3>1. <<>> \in Seq(Bytes)
      OBVIOUS
    <3> QED
      BY <2>5, <2>0, <3>1, FreshLatch DEF resetSoundChip, NmiAfterHardReset
  <2>6. CASE TakeNmi
    BY <2>6, <2>a DEF TakeNmi, Iterates, ProgType
  <2>7. CASE readCommand
    <3>1. mainToSound' \in LatchType /\ heard' \in [byte : Bytes \cup {NoByte}, turn : BOOLEAN]
      BY <2>7, LatchOps DEF readCommand, LatchType
    <3> QED
      BY <2>7, <2>a, <3>1 DEF readCommand, Executes, Iterates, ProgType
  <2>8. CASE readStatus
    <3>1. soundToMain' \in LatchType /\ ackIn' \in Delay
      BY <2>8, <2>0, <2>a, LatchOps DEF readStatus, AckedLatch
    <3>2. prog' \in ProgType
      BY <2>8, <3>1 DEF readStatus, ProgType, LatchType
    <3> QED
      BY <2>8, <2>a, <3>1, <3>2 DEF readStatus, Executes, Iterates
  <2>9. ASSUME NEW b \in Bytes, postReply(b) PROVE TypeOK'
    <3>1. soundToMain' \in LatchType /\ ackIn' \in Delay
      BY <2>9, <2>a, LatchOps DEF postReply, Delay
    <3>2. replyQueue' \in Seq(Bytes) /\ posted' \in Seq(Bytes)
      BY <2>9 DEF postReply, Queued
    <3> QED
      BY <2>9, <2>a, <3>1, <3>2 DEF postReply, Executes, Iterates, ProgType
  <2>10. CASE otherInstruction
    BY <2>10, <2>a DEF otherInstruction, Executes, Iterates
  <2>11. CASE UNCHANGED vars
    BY <2>11 DEF vars, moving, linkVars
  <2> QED
    BY <2>1, <2>2, <2>3, <2>4, <2>5, <2>6, <2>7, <2>8, <2>9, <2>10, <2>11 DEF Next, Step, vars
<1> QED
  BY <1>1, <1>2, PTL DEF Spec

-----------------------------------------------------------------------------
(* The inductive invariant.  Beyond the properties it keeps what a sampled *)
(* status still says when the program acts on it: no one but the 6502      *)
(* itself takes a command or fills the reply latch.                        *)

SampleIsFresh ==
    /\ prog.cmd => mainToSound.pending
    /\ prog.room => ~soundToMain.pending

NoDelayPending == NmiDelay = 0 => nmiIn = None

IInv ==
    /\ CommandWillBeSeen
    /\ NmiMeansCommand
    /\ NoDelayPending
    /\ SampleIsFresh
    /\ RepliesInOrder

LEMMA IInvInit == Init => IInv
<1> SUFFICES ASSUME Init PROVE IInv
  OBVIOUS
<1>1. <<>> \o <<>> = <<>>
  OBVIOUS
<1> QED
  BY <1>1, FreshLatch DEF Init, IInv, CommandWillBeSeen, NmiMeansCommand,
     NoDelayPending, SampleIsFresh, RepliesInOrder, Booting

LEMMA AppendConcat ==
    ASSUME NEW s \in Seq(Bytes), NEW t \in Seq(Bytes), NEW b \in Bytes
    PROVE  /\ Append(s \o t, b) = s \o Append(t, b)
           /\ s \o <<>> = s
  OBVIOUS

LEMMA IInvStep == TypeOK /\ TypeOK' /\ IInv /\ [Next]_vars => IInv'
<1> SUFFICES ASSUME TypeOK, TypeOK', IInv, [Next]_vars PROVE IInv'
  OBVIOUS
<1>0. NmiDelay' = NmiDelay /\ NmiDelay \in Nat /\ AckDelay \in Nat
  BY LagStays, LagValues DEF TypeOK
<1> USE <1>0
<1> USE DEF TypeOK
<1> USE DEF IInv, CommandWillBeSeen, NmiMeansCommand, NoDelayPending, SampleIsFresh
<1>1. ASSUME NEW b \in Bytes, submitCommand(b) PROVE IInv'
  <2>1. mainToSound'.pending
    BY <1>1, LatchOps DEF submitCommand
  <2>2. CASE RisesOn(mainToSound)
    <3>1. ~inReset /\ NmiDelay = 0 => nmi'
      BY <1>1, <2>2 DEF submitCommand, NmiOnSubmit
    <3>2. ~inReset /\ NmiDelay # 0 => nmiIn' # None
      BY <1>1, <2>2 DEF submitCommand, NmiOnSubmit, None
    <3>3. NmiDelay = 0 => nmiIn' = nmiIn
      BY <1>1 DEF submitCommand
    <3> QED
      BY <1>1, <2>1, <3>1, <3>2, <3>3 DEF submitCommand, RepliesInOrder
  <2>3. CASE ~RisesOn(mainToSound)
    <3>1. mainToSound.pending /\ nmiIn' = nmiIn /\ (nmi => nmi')
      BY <1>1, <2>3 DEF submitCommand, NmiOnSubmit, RisesOn
    <3> QED
      BY <1>1, <2>1, <3>1 DEF submitCommand, RepliesInOrder
  <2> QED
    BY <2>2, <2>3
<1>2. CASE drainReplyEvents
  <2>1. soundToMain.pending \/ ~soundToMain'.pending
    BY <1>2, LatchOps DEF drainReplyEvents, DrainedLatch
  <2>2. RepliesInOrder'
    BY <1>2, AppendConcat DEF drainReplyEvents, DrainedQueue, RepliesInOrder
  <2> QED
    BY <1>2, <2>1, <2>2 DEF drainReplyEvents
<1>3. CASE releaseSoundReset
  BY <1>3 DEF releaseSoundReset, Booting, RepliesInOrder
<1>4. CASE holdSoundReset
  BY <1>4 DEF holdSoundReset, AfterHold, Booting, RepliesInOrder
<1>5. CASE resetSoundChip
  <2>1. <<>> \o <<>> = <<>>
    OBVIOUS
  <2> QED
    BY <1>5, <2>1, FreshLatch DEF resetSoundChip, NmiAfterHardReset, Booting, RepliesInOrder
<1>6. CASE TakeNmi
  BY <1>6 DEF TakeNmi, Iterates, NmiNow, NmiInAfter, ProgType, None, RepliesInOrder
<1>7. CASE readCommand
  <2>1. ~mainToSound'.pending
    BY <1>7, LatchOps DEF readCommand
  <2> QED
    BY <1>7, <2>1 DEF readCommand, Executes, Iterates, NmiInAfter, ProgType, None, RepliesInOrder
<1>8. CASE readStatus
  BY <1>8, LatchOps DEF readStatus, Executes, Iterates, NmiNow, NmiInAfter, ProgType, Delay,
     None, LatchType, RepliesInOrder
<1>9. ASSUME NEW b \in Bytes, postReply(b) PROVE IInv'
  <2>1. RepliesInOrder'
    <3>1. RisesOn(soundToMain)
      BY <1>9 DEF postReply, RisesOn
    <3>2. replyQueue' = Append(replyQueue, b) /\ posted' = Append(posted, b)
      BY <1>9, <3>1 DEF postReply, Queued
    <3>3. delivered' = delivered
      BY <1>9 DEF postReply
    <3>4. Append(delivered \o replyQueue, b) = delivered \o Append(replyQueue, b)
      BY AppendConcat
    <3>5. posted = delivered \o replyQueue
      BY DEF RepliesInOrder
    <3> HIDE DEF TypeOK, IInv
    <3> QED
      BY <3>2, <3>3, <3>4, <3>5 DEF RepliesInOrder
  <2> QED
    BY <1>9, <2>1 DEF postReply, Executes, Iterates, NmiNow, NmiInAfter, ProgType, Delay, None
<1>10. CASE otherInstruction
  BY <1>10 DEF otherInstruction, Executes, Iterates, NmiNow, NmiInAfter, Delay, None, RepliesInOrder
<1>11. CASE UNCHANGED vars
  BY <1>11 DEF vars, moving, linkVars, RepliesInOrder
<1> QED
  BY <1>1, <1>2, <1>3, <1>4, <1>5, <1>6, <1>7, <1>8, <1>9, <1>10, <1>11 DEF Next, Step, vars

LEMMA Inductive == Spec => [](TypeOK /\ IInv)
<1>1. Spec => []TypeOK
  BY TypeCorrect
<1> QED
  BY <1>1, IInvInit, IInvStep, PTL DEF Spec

-----------------------------------------------------------------------------

(* A pending command is never forgotten by a running 6502, whatever the    *)
(* interleaving of submissions, resets and the diagnostics delay.          *)
THEOREM CommandNeverForgotten == Spec => []CommandWillBeSeen
  BY Inductive, PTL DEF IInv

(* No NMI outlives its command: a reset drops the line with it.            *)
THEOREM NmiAlwaysMeansCommand == Spec => []NmiMeansCommand
  BY Inductive, PTL DEF IInv

(* The main side receives what the 6502 wrote, once and in order.          *)
THEOREM RepliesAlwaysInOrder == Spec => []RepliesInOrder
  BY Inductive, PTL DEF IInv

-----------------------------------------------------------------------------
(* Refinement.                                                             *)

SlotOf(mb) == IF mb.pending THEN mb.value ELSE NoByte

LEMMA ChannelInit == Init => Channel!Init
  BY FreshLatch DEF Init, Channel!Init

LEMMA ChannelStep ==
    ASSUME TypeOK, IInv, [Next]_vars
    PROVE  [NmiDelay = 0 => Channel!Next]_<<SlotOf(mainToSound), heard, era>>
<1> SUFFICES ASSUME NmiDelay = 0
             PROVE  [Channel!Next]_<<SlotOf(mainToSound), heard, era>>
  OBVIOUS
<1> USE DEF TypeOK, IInv, SlotOf
<1> DEFINE Quiet == mainToSound' = mainToSound /\ heard' = heard /\ era' = era
<1>0. Quiet => UNCHANGED <<SlotOf(mainToSound), heard, era>>
  OBVIOUS
<1>1. ASSUME NEW b \in Bytes, submitCommand(b)
      PROVE  Channel!Next
  <2>1. mainToSound'.pending /\ mainToSound'.value = b
    BY <1>1, LatchOps DEF submitCommand
  <2>2. Channel!Post(b)
    BY <1>1, <2>1 DEF submitCommand, Channel!Post
  <2> QED
    BY <2>2 DEF Channel!Next
<1>2. ASSUME readCommand PROVE Channel!Next
  <2>1. mainToSound.pending
    BY <1>2 DEF readCommand, NmiMeansCommand, SampleIsFresh
  <2>2. /\ ~mainToSound'.pending /\ era' = era
        /\ heard' = [byte |-> mainToSound.value, turn |-> ~heard.turn]
    BY <1>2, LatchOps DEF readCommand
  <2>3. mainToSound.value # NoByte
    BY LinkAssumption DEF LatchType
  <2>4. Channel!Take
    BY <2>1, <2>2, <2>3 DEF Channel!Take
  <2> QED
    BY <2>4 DEF Channel!Next
<1>3. ASSUME resetSoundChip PROVE Channel!Next
  <2>1. ~mainToSound'.pending /\ heard' = heard /\ era' = ~era
    BY <1>3, FreshLatch DEF resetSoundChip
  <2>2. Channel!HardReset
    BY <2>1 DEF Channel!HardReset
  <2> QED
    BY <2>2 DEF Channel!Next
<1>4. ASSUME drainReplyEvents \/ releaseSoundReset \/ holdSoundReset PROVE Quiet
  BY <1>4 DEF drainReplyEvents, releaseSoundReset, holdSoundReset, AfterHold
<1>5. ASSUME TakeNmi \/ readStatus \/ otherInstruction PROVE Quiet
  BY <1>5 DEF TakeNmi, readStatus, otherInstruction
<1>6. ASSUME NEW b \in Bytes, postReply(b) PROVE Quiet
  BY <1>6 DEF postReply
<1>7. ASSUME UNCHANGED vars PROVE Quiet
  BY <1>7 DEF vars, moving, linkVars
<1> HIDE DEF Quiet
<1> QED
  BY <1>0, <1>1, <1>2, <1>3, <1>4, <1>5, <1>6, <1>7 DEF Next, Step, vars

(* Without the diagnostics delay the link implements the command channel:  *)
(* the latest byte wins, each is heard at most once, and a hard reset      *)
(* alone loses one: a hold or a release keeps what waits, for any bytes    *)
(* and any delay of the acknowledge.                                       *)
THEOREM LinkIsChannel == Spec => ChannelSpec
<1>1. TypeOK /\ IInv /\ [Next]_vars
      => [NmiDelay = 0 => Channel!Next]_<<SlotOf(mainToSound), heard, era>>
  BY ChannelStep
<1> QED
  BY <1>1, ChannelInit, Inductive, PTL DEF Spec, ChannelSpec, Channel!chVars, SlotOf

-----------------------------------------------------------------------------
(* Progress.                                                               *)

(* What each step of the link does to the way a command takes: requested   *)
(* (nmi), in service (owed), shown by the poll of the boot code (cmd).     *)
Wait == mainToSound.pending /\ ~inReset

(* fellBack never falls, and a wait without the delay goes through the     *)
(* stages in order; only the one release of a running chip starts it over. *)
LEMMA WaitSteps ==
    ASSUME TypeOK, IInv, NmiDelay = 0, [Next]_vars, Wait, Wait'
    PROVE  \/ ~fellBack /\ fellBack'
           \/ /\ fellBack' = fellBack
              /\ nmi => nmi' \/ prog.owed'
              /\ ~nmi => ~nmi'
              /\ prog.owed => prog.owed'
              /\ ~nmi /\ ~prog.owed => ~prog.owed'
              /\ ~nmi /\ prog.cmd => prog.cmd'
              /\ TakeNmi => prog.owed' /\ ~nmi'
              /\ ~readCommand
              /\ readStatus => prog.cmd'
<1> DEFINE Goes == \/ ~fellBack /\ fellBack'
                   \/ /\ fellBack' = fellBack
                      /\ nmi => nmi' \/ prog.owed'
                      /\ ~nmi => ~nmi'
                      /\ prog.owed => prog.owed'
                      /\ ~nmi /\ ~prog.owed => ~prog.owed'
                      /\ ~nmi /\ prog.cmd => prog.cmd'
                      /\ TakeNmi => prog.owed' /\ ~nmi'
                      /\ ~readCommand
                      /\ readStatus => prog.cmd'
<1>0. /\ mainToSound \in LatchType /\ prog \in ProgType /\ fellBack \in BOOLEAN
      /\ mainToSound.pending /\ ~inReset /\ mainToSound'.pending /\ ~inReset'
  BY DEF TypeOK, Wait
<1>1. ~readCommand
  BY <1>0, LatchOps DEF readCommand
<1>2. readStatus => prog'.cmd
  BY <1>0 DEF readStatus, ProgType
<1>3. TakeNmi => prog'.owed /\ ~nmi' /\ fellBack' = fellBack /\ prog'.cmd = prog.cmd /\ nmi
  BY <1>0 DEF TakeNmi, ProgType, NmiNow, IInv, NoDelayPending, None
<1> DEFINE Same == /\ fellBack' = fellBack /\ nmi' = nmi
                   /\ prog'.owed = prog.owed /\ (prog.cmd => prog'.cmd)
<1>4. ASSUME NEW b \in Bytes, submitCommand(b) \/ postReply(b) PROVE Same
  BY <1>0, <1>4 DEF submitCommand, postReply, NmiOnSubmit, RisesOn, ProgType, TypeOK
<1>5. ASSUME drainReplyEvents \/ otherInstruction \/ UNCHANGED vars PROVE Same
  BY <1>5 DEF drainReplyEvents, otherInstruction, vars, moving, linkVars
<1>6. readStatus => Same
  BY <1>0 DEF readStatus, ProgType
<1>7. releaseSoundReset => ~fellBack /\ fellBack'
  BY <1>0 DEF releaseSoundReset
<1>8. ~holdSoundReset /\ ~resetSoundChip
  BY <1>0, FreshLatch DEF holdSoundReset, resetSoundChip
<1>9. Same => Goes
  BY <1>1, <1>2, <1>3
<1>10. TakeNmi => Goes
  BY <1>1, <1>2, <1>3
<1> HIDE DEF Goes, Same
<1>11. Goes
  BY <1>1, <1>4, <1>5, <1>6, <1>7, <1>8, <1>9, <1>10 DEF Next, Step, Goes, Same
<1> QED
  BY <1>11 DEF Goes

(* A command posted without the delay is read, or the 6502 is put in       *)
(* reset: the NMI, or the poll of the boot code, gets to it.               *)
THEOREM CommandIsReadInTime ==
    FairSpec /\ StepsMayHappen /\ NmiDelay = 0 => CommandIsRead
<1> DEFINE Fast == NmiDelay = 0
           W == Wait
           Nmi == nmi
           Owed == prog.owed
           Cmd == prog.cmd
           Fell == fellBack
           MayTake == ~inReset /\ NmiNow
           MayRead == ~inReset /\ ~NmiNow /\ (prog.owed \/ (prog.boot /\ prog.cmd))
           MayPoll == ~inReset /\ ~NmiNow /\ (prog.cmd # mainToSound.pending \/ ackIn # None)
           Inv == TypeOK /\ IInv
           Served == ~mainToSound.pending \/ inReset
           Goes == \/ ~Fell /\ Fell'
                   \/ /\ Fell' <=> Fell
                      /\ Nmi => Nmi' \/ Owed'
                      /\ ~Nmi => ~Nmi'
                      /\ Owed => Owed'
                      /\ ~Nmi /\ ~Owed => ~Owed'
                      /\ ~Nmi /\ Cmd => Cmd'
                      /\ TakeNmi => Owed' /\ ~Nmi'
                      /\ ~readCommand
                      /\ readStatus => Cmd'
<1>1. Inv /\ Fast /\ [Next]_vars /\ W /\ W' => Goes
  BY WaitSteps
<1>2. Fast /\ [Next]_vars => Fast'
  BY LagStays
<1>3. Inv /\ Fast => (W /\ Nmi => MayTake)
  BY DEF Wait, NmiNow
<1>4. Inv /\ Fast => (W /\ ~Nmi /\ Owed => MayRead)
  BY DEF Wait, NmiNow, IInv, NoDelayPending, None
<1>5. Inv /\ Fast => (W /\ ~Nmi /\ ~Owed /\ Cmd => MayRead)
  BY DEF Wait, NmiNow, IInv, NoDelayPending, None, CommandWillBeSeen
<1>6. Inv /\ Fast => (W /\ ~Nmi /\ ~Owed /\ ~Cmd => MayPoll)
  <2> SUFFICES ASSUME Inv, Fast, W, ~Nmi, ~Cmd PROVE MayPoll
    OBVIOUS
  <2>1. mainToSound.pending = TRUE /\ prog.cmd = FALSE
    BY DEF Wait, TypeOK, LatchType, ProgType
  <2>2. ~NmiNow /\ ~inReset
    BY DEF Wait, NmiNow, IInv, NoDelayPending, None
  <2>3. prog.cmd # mainToSound.pending
    BY <2>1
  <2> QED
    BY <2>2, <2>3
<1>7. [Next]_vars => (Fell => Fell')
  BY DEF Next, Step, submitCommand, postReply, drainReplyEvents, releaseSoundReset, holdSoundReset,
         resetSoundChip, TakeNmi, readCommand, readStatus, otherInstruction, vars, moving, linkVars
<1>8. <<TakeNmi>>_moving => TakeNmi
  OBVIOUS
<1>9. <<readCommand>>_moving => readCommand
  OBVIOUS
<1>10. <<readStatus>>_moving => readStatus
  OBVIOUS
<1>0. ~W => Served
  BY DEF Wait
<1> HIDE DEF Fast, W, Nmi, Owed, Cmd, Fell, MayTake, MayRead, MayPoll, Inv, Served
<1>11. Spec => []Inv
  BY Inductive DEF Inv
<1>12. /\ FairSpec /\ Fast
       /\ [](MayTake => ENABLED <<TakeNmi>>_moving)
       /\ [](MayRead => ENABLED <<readCommand>>_moving)
       /\ [](MayPoll => ENABLED <<readStatus>>_moving)
       => (W ~> Served)
  BY <1>0, <1>1, <1>2, <1>3, <1>4, <1>5, <1>6, <1>7, <1>8, <1>9, <1>10, <1>11, PTL
     DEF FairSpec, Spec, Fairness
<1> QED
  BY <1>12 DEF StepsMayHappen, CommandIsRead, Fast, W, Wait, Served, MayTake, MayRead, MayPoll

(* A reply whose acknowledge is not on its way, since it was immediate or  *)
(* a hold forgot it, leaves the latch with a drain.                        *)
THEOREM ReplyIsDrained ==
    FairSpec /\ StepsMayHappen => (soundToMain.pending /\ ackIn = None ~> ~soundToMain.pending)
<1> DEFINE Full == soundToMain.pending
           Lost == ackIn = None
           Inv == TypeOK /\ IInv
<1>1. Inv /\ [Next]_vars => (Full /\ Lost => ~Full' \/ Lost')
  <2> SUFFICES ASSUME TypeOK, IInv, [Next]_vars, Full, Lost PROVE ~Full' \/ Lost'
    OBVIOUS
  <2>1. AckInAfter = None
    BY DEF AckInAfter, None
  <2>2. \A b \in Bytes : postReply(b) => ackIn' = None
    BY <2>1 DEF postReply, RisesOn
  <2>3. releaseSoundReset => ackIn' = None
    BY DEF releaseSoundReset
  <2>4. readStatus => ackIn' = None
    BY <2>1 DEF readStatus, None
  <2>5. TakeNmi \/ readCommand \/ otherInstruction => ackIn' = None
    BY <2>1 DEF TakeNmi, readCommand, otherInstruction
  <2>6. drainReplyEvents \/ holdSoundReset \/ resetSoundChip \/ UNCHANGED vars => ackIn' = None
    BY DEF drainReplyEvents, holdSoundReset, resetSoundChip, vars, moving, linkVars
  <2>7. \A b \in Bytes : submitCommand(b) => ackIn' = None
    BY DEF submitCommand
  <2> QED
    BY <2>2, <2>3, <2>4, <2>5, <2>6, <2>7 DEF Next, Step
<1>2. Inv /\ Full /\ Lost /\ <<drainReplyEvents>>_moving => ~Full'
  BY LatchOps DEF drainReplyEvents, DrainedLatch, TypeOK
<1> HIDE DEF Full, Lost, Inv
<1>3. Spec => []Inv
  BY Inductive DEF Inv
<1>4. FairSpec /\ [](Full /\ Lost => ENABLED <<drainReplyEvents>>_moving)
      => (Full /\ Lost ~> ~Full)
  BY <1>1, <1>2, <1>3, PTL DEF FairSpec, Spec, Fairness
<1> QED
  BY <1>4 DEF StepsMayHappen, Full, Lost

-----------------------------------------------------------------------------
(* What each step does to an acknowledge on its way once the one release   *)
(* of a running chip is behind: it comes k instructions near and nearer.   *)
LEMMA AckSteps ==
    ASSUME NEW k \in Nat, TypeOK, IInv, [Next]_vars, ackIn = k, soundToMain.pending,
           fellBack, ~inReset, ~inReset'
    PROVE  /\ fellBack'
           /\ \/ ackIn' = k /\ soundToMain'.pending
              \/ ~soundToMain'.pending
              \/ k > 0 /\ ackIn' = k - 1 /\ soundToMain'.pending
           /\ ackIn' = k => ~readStatus /\ (k > 0 => ~TakeNmi)
<1>0. /\ k # None /\ AckInAfter = (IF k = 0 THEN 0 ELSE k - 1)
      /\ soundToMain \in LatchType /\ prog \in ProgType /\ inReset \in BOOLEAN
  BY DEF AckInAfter, None, TypeOK
<1> DEFINE Same == ackIn' = k /\ soundToMain' = soundToMain /\ fellBack' = fellBack
           Near == ackIn' = AckInAfter /\ soundToMain' = soundToMain /\ fellBack' = fellBack
           Read == fellBack' = fellBack /\ ackIn' # k
                   /\ IF k = 0 THEN ~soundToMain'.pending
                               ELSE ackIn' = k - 1 /\ soundToMain'.pending
<1>1. ASSUME NEW b \in Bytes, submitCommand(b) PROVE Same
  BY <1>1 DEF submitCommand
<1>2. \A b \in Bytes : ~postReply(b)
  BY DEF postReply, IInv, SampleIsFresh
<1>3. drainReplyEvents => Same
  BY <1>0 DEF drainReplyEvents, DrainedLatch
<1>4. UNCHANGED vars => Same
  BY DEF vars, moving, linkVars
<1>5. TakeNmi \/ readCommand \/ otherInstruction => Near
  BY DEF TakeNmi, readCommand, otherInstruction
<1>6. readStatus => Read
  <2> SUFFICES ASSUME readStatus PROVE Read
    OBVIOUS
  <2>1. CASE k = 0
    BY <1>0, <2>1, LatchOps DEF readStatus, AckedLatch, None
  <2>2. CASE k # 0
    <3>1. ackIn' = k - 1 /\ soundToMain' = soundToMain /\ fellBack' = fellBack
      BY <1>0, <2>2 DEF readStatus, AckedLatch
    <3> QED
      BY <2>2, <3>1
  <2> QED
    BY <2>1, <2>2
<1>7. ~releaseSoundReset /\ ~holdSoundReset /\ ~resetSoundChip
  BY DEF releaseSoundReset, holdSoundReset, resetSoundChip
<1>9. (TakeNmi => Near) /\ (readStatus => Read)
  BY <1>5, <1>6
<1>10. Same \/ Near \/ Read
  BY <1>1, <1>2, <1>3, <1>4, <1>5, <1>6, <1>7 DEF Next, Step
<1>11. CASE Same
  BY <1>0, <1>9, <1>11
<1>12. CASE Near
  <2>1. k = 0 => ackIn' = k
    BY <1>0, <1>12
  <2>2. k > 0 => ackIn' = k - 1 /\ ackIn' # k
    BY <1>0, <1>12
  <2>3. soundToMain'.pending /\ fellBack'
    BY <1>12
  <2>4. ackIn' = k => ~readStatus
    BY <1>9, <2>1, <2>3
  <2> QED
    BY <2>1, <2>2, <2>3, <2>4
<1>13. CASE Read
  <2>1. k > 0 => ackIn' = k - 1 /\ soundToMain'.pending
    BY <1>13
  <2>2. k = 0 => ~soundToMain'.pending
    BY <1>13
  <2> QED
    BY <1>13, <2>1, <2>2
<1> QED
  BY <1>10, <1>11, <1>12, <1>13

(* An acknowledge on its way comes nearer and, once due, empties the       *)
(* latch, unless the 6502 is put in reset: no stretch of NMIs keeps the    *)
(* program from the poll that performs it.                                 *)
THEOREM AcknowledgeComesNearer ==
    ASSUME NEW k \in Nat
    PROVE  FairSpec /\ StepsMayHappen
           => (fellBack /\ soundToMain.pending /\ ackIn = k
               ~> \/ ~soundToMain.pending \/ inReset
                  \/ fellBack /\ soundToMain.pending /\ k > 0 /\ ackIn = k - 1)
<1> DEFINE At == fellBack /\ soundToMain.pending /\ ackIn = k
           Done == \/ ~soundToMain.pending \/ inReset
                   \/ fellBack /\ soundToMain.pending /\ k > 0 /\ ackIn = k - 1
           Now == NmiNow
           Out == ~inReset
           Single == NmiDelay # 0 => ~nmi
           Poll == prog.cmd # mainToSound.pending \/ ackIn # None
           Inv == TypeOK /\ IInv
<1>1. Inv /\ At /\ ~Done /\ [Next]_vars
      => Done' \/ (At' /\ ~readStatus)
  BY AckSteps DEF TypeOK
<1>2. Inv /\ At /\ ~Done => Out /\ Poll
  BY DEF None
<1>3. Inv /\ Single /\ <<TakeNmi>>_moving => ~Now'
  <2> SUFFICES ASSUME TypeOK, IInv, Single, TakeNmi PROVE ~NmiNow'
    OBVIOUS
  <2>1. nmi' = FALSE /\ nmiIn' = NmiInAfter
    BY DEF TakeNmi, Iterates
  <2>2. nmiIn \in {None, 0}
    BY DEF TakeNmi, NmiNow, IInv, NoDelayPending
  <2> QED
    BY <2>1, <2>2 DEF NmiNow, NmiInAfter, None
<1>4. Init => Single
  BY DEF Init
<1>5. Inv /\ Single /\ [Next]_vars => Single'
  <2> SUFFICES ASSUME TypeOK, NmiDelay # 0, ~nmi, [Next]_vars PROVE ~nmi'
    BY LagStays
  <2>1. NmiDelay > 0
    BY LagValues DEF TypeOK
  <2> QED
    BY <2>1 DEF Next, Step, submitCommand, postReply, drainReplyEvents, releaseSoundReset,
           holdSoundReset, resetSoundChip, NmiAfterHardReset, TakeNmi, readCommand, readStatus,
           otherInstruction, vars, moving, linkVars
<1>6. <<readStatus>>_moving => readStatus
  OBVIOUS
<1> HIDE DEF At, Done, Now, Out, Poll, Inv, Single
<1>7. Spec => []Inv
  BY Inductive DEF Inv
<1>8. /\ FairSpec
      /\ [](Out /\ Now => ENABLED <<TakeNmi>>_moving)
      /\ [](Out /\ ~Now /\ Poll => ENABLED <<readStatus>>_moving)
      => (At ~> Done)
  BY <1>1, <1>2, <1>3, <1>4, <1>5, <1>6, <1>7, PTL DEF FairSpec, Spec, Fairness
<1> QED
  BY <1>8 DEF StepsMayHappen, At, Done, Now, Out, Poll
=============================================================================
