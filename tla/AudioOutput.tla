----------------------------- MODULE AudioOutput ----------------------------
(***************************************************************************)
(* The PCM of the two sound chips on its way from the page to the speaker. *)
(* Each frame the page pushes one batch of YM2151 and one of POKEY samples *)
(* to its renderer: two messages to the AudioWorklet, whose thread handles *)
(* messages between its render quanta, or two chunks for the               *)
(* ScriptProcessor, whose callback runs on the page's own thread.          *)
(* The worklet's loops are modelled sample by sample: `job' is what its    *)
(* thread is in the middle of.  Sample n of either chip covers the same    *)
(* instant.  Only the renderer in use has its queues modelled.             *)
(***************************************************************************)
EXTENDS AudioStart, PcmQueues

CONSTANTS FrameSamples,  \* samples of a chip in a frame, at the output rate
          Quantum,       \* samples of a render quantum or of a script buffer
          MaxFrames,     \* bound on the frames pushed
          MaxPort        \* bound on the messages waiting in the port

ASSUME SizesAssumption ==
    FrameSamples \in Nat \ {0} /\ Quantum \in Nat \ {0} /\ MaxFrames \in Nat /\ MaxPort \in Nat

VARIABLES frame,         \* frames pushed so far
          port,          \* messages posted and not handled
          ring,          \* the worklet's ymPcm and pokeyPcm
          queue,         \* the renderer's scriptYmPcmQueue and scriptPokeyPcmQueue
          job,           \* the loop a thread is in: copying a batch, or rendering
          heard,         \* the last sample of each chip played since a reset, 0 for silence
          torn           \* history: has a quantum run between the two messages of
                         \*   a frame with POKEY dry or the YM2151 ring overrun?

streamVars == <<frame, port, ring, queue, job, heard, torn>>
allVars == <<startVars, streamVars>>

Chips == {"ym", "pokey"}
Silent == [chip \in Chips |-> 0]
Idle == [kind |-> "idle", chip |-> "ym", todo |-> <<>>, left |-> 0]
Copying(chip, pcm) == [Idle EXCEPT !.kind = "copy", !.chip = chip, !.todo = pcm]
Rendering(n) == IF n = 0 THEN Idle ELSE [Idle EXCEPT !.kind = "render", !.left = n]

Message(type, pcm) == [type |-> type, pcm |-> pcm]
Reset(type) == Message(type, <<>>)
Samples(f) == [k \in 1..FrameSamples |-> (f - 1) * FrameSamples + k]

EmptyRings  == [chip \in Chips |-> createPcmQueue]
EmptyQueues == [chip \in Chips |-> createPcmChunkQueue]

(* The renderer in use is a new one: so are its node and its queues.       *)
NewStream(messages) ==
    /\ port' = messages
    /\ ring' = EmptyRings /\ queue' = EmptyQueues
    /\ job' = Idle
    /\ heard' = Silent
    /\ torn' = FALSE
    /\ UNCHANGED frame

-----------------------------------------------------------------------------

Init ==
    /\ StartInit
    /\ frame = 0
    /\ port = <<>>
    /\ ring = EmptyRings /\ queue = EmptyQueues
    /\ job = Idle
    /\ heard = Silent
    /\ torn = FALSE

(* start() in the renderer in use and in those it replaced.                *)
Starts == GestureStarts /\ NewStream(<<>>)
Refuses == GestureRefused /\ UNCHANGED streamVars
Loads(i) ==
    /\ ModuleSettles(i)
    /\ IF i < Last THEN UNCHANGED streamVars
       ELSE NewStream(IF Sink' = "worklet" THEN <<Reset("reset")>> ELSE <<>>)
Settles(i) ==
    /\ ContextRuns(i) \/ Resumed(i) \/ ResumeRejected(i)
    /\ UNCHANGED streamVars

(* The thread of the page is free: the script callback holds it.           *)
PageFree == Sink = "script" => job = Idle

(* pushSoundPcm: nothing is kept unless there is a node to feed.           *)
PushNothing(f) == port' = port /\ queue' = queue
PushMessages(f) ==
    /\ Len(port) + 2 <= MaxPort
    /\ port' = port \o <<Message("ym_pcm", Samples(f)), Message("pokey_pcm", Samples(f))>>
    /\ queue' = queue
PushChunks(f) ==
    /\ queue' = [chip \in Chips |-> enqueuePcmChunk(queue[chip], Samples(f))]
    /\ port' = port
pushSoundPcm ==
    /\ PageFree
    /\ frame < MaxFrames
    /\ frame' = frame + 1
    /\ CASE SoundOn /\ Sink = "worklet" -> PushMessages(frame + 1)
         [] SoundOn /\ Sink = "script"  -> PushChunks(frame + 1)
         [] OTHER                       -> PushNothing(frame + 1)
    /\ UNCHANGED <<startVars, ring, job, heard, torn>>

(* resetPcmStreams, which the replay page calls when its tape starts over. *)
resetPcmStreams ==
    /\ Last > 0 /\ PageFree
    /\ queue' = EmptyQueues
    /\ IF Sink = "worklet"
       THEN Len(port) < MaxPort /\ port' = Append(port, Reset("reset_pcm"))
            /\ heard' = heard
       ELSE port' = port /\ heard' = Silent
    /\ UNCHANGED <<startVars, frame, ring, job, torn>>

-----------------------------------------------------------------------------
(* The worklet.  handleMessage: a reset is at once, a batch is a loop.     *)
Worklet == Sink = "worklet" /\ job = Idle

HandleResetYm ==                       \* mutant: the POKEY queue is forgotten
    /\ Worklet /\ port # <<>>
    /\ Head(port).type \in {"reset", "reset_pcm"}
    /\ ring' = [ring EXCEPT !["ym"] = resetPcm(@)]
    /\ port' = Tail(port)
    /\ heard' = Silent
    /\ torn' = FALSE
    /\ UNCHANGED <<startVars, frame, queue, job>>
HandleReset ==
    /\ Worklet /\ port # <<>>
    /\ Head(port).type \in {"reset", "reset_pcm"}
    /\ ring' = [chip \in Chips |-> resetPcm(ring[chip])]
    /\ port' = Tail(port)
    /\ heard' = Silent
    /\ torn' = FALSE
    /\ UNCHANGED <<startVars, frame, queue, job>>

ChipOf(type) == IF type = "ym_pcm" THEN "ym" ELSE "pokey"
HandlePcm ==
    /\ Worklet /\ port # <<>>
    /\ Head(port).type \in {"ym_pcm", "pokey_pcm"}
    /\ job' = Copying(ChipOf(Head(port).type), Head(port).pcm)
    /\ port' = Tail(port)
    /\ UNCHANGED <<startVars, frame, ring, queue, heard, torn>>

CopySample ==
    /\ Sink = "worklet" /\ job.kind = "copy"
    /\ ring' = [ring EXCEPT ![job.chip] = enqueuePcm(@, Head(job.todo))]
    /\ job' = IF Tail(job.todo) = <<>> THEN Idle ELSE [job EXCEPT !.todo = Tail(@)]
    /\ UNCHANGED <<startVars, frame, port, queue, heard, torn>>

(* process(), or onaudioprocess of the fallback: a running context asks    *)
(* for a quantum, and each sample of it takes one of each chip.            *)
ContextRunning == Last > 0 /\ renderers[Last].ctx = "running" /\ Sink \in {"worklet", "script"}
BeginQuantum ==
    /\ ContextRunning /\ job = Idle
    /\ job' = Rendering(Quantum)
    /\ UNCHANGED <<startVars, frame, port, ring, queue, heard, torn>>

Halfway == port # <<>> /\ Head(port).type = "pokey_pcm"
Tears == Halfway /\ (ring["pokey"].available = 0 \/ ring["pokey"].available + FrameSamples > Cap)

RenderSample ==
    /\ Sink = "worklet" /\ job.kind = "render"
    /\ heard' = [chip \in Chips |-> firstPcm(ring[chip])]
    /\ ring' = [chip \in Chips |-> dequeuePcm(ring[chip])]
    /\ torn' = (torn \/ Tears)
    /\ job' = Rendering(job.left - 1)
    /\ UNCHANGED <<startVars, frame, port, queue>>

RenderScriptSample ==
    /\ Sink = "script" /\ job.kind = "render"
    /\ heard' = [chip \in Chips |-> firstPcmChunkSample(queue[chip])]
    /\ queue' = [chip \in Chips |-> dequeuePcmChunkSample(queue[chip])]
    /\ job' = Rendering(job.left - 1)
    /\ UNCHANGED <<startVars, frame, port, ring, torn>>

Next ==
    \/ Starts \/ Refuses
    \/ \E i \in 1..Last : Loads(i) \/ Settles(i)
    \/ pushSoundPcm \/ resetPcmStreams
    \/ HandleReset \/ HandlePcm \/ CopySample
    \/ BeginQuantum \/ RenderSample \/ RenderScriptSample

Spec == Init /\ [][Next]_allVars

-----------------------------------------------------------------------------

(* Of what reaches its queue each chip's samples are played in their       *)
(* order, each at most once, the oldest given up when a second's worth is  *)
(* waiting, and silence only when there is nothing: through enqueuePcm and *)
(* dequeuePcm as their indices wrap, and through the chunks of the         *)
(* fallback.  (Which message reaches it is the port's part.)               *)
Kept(chip) == IF Sink = "script" THEN Waiting(queue[chip]) ELSE Stored(ring[chip])
Pcm == {Samples(f)[k] : f \in 1..MaxFrames, k \in 1..FrameSamples}
Sendable == {Samples(f) : f \in 1..MaxFrames} \cup {<<n>> : n \in Pcm}
YmFifo    == INSTANCE PcmFifo WITH kept <- Kept("ym"), heard <- heard["ym"], Batches <- Sendable
PokeyFifo == INSTANCE PcmFifo WITH kept <- Kept("pokey"), heard <- heard["pokey"], Batches <- Sendable
StreamsAreFifos == YmFifo!Spec /\ PokeyFifo!Spec

(* The two chips play sample for sample together, in the worklet as in the *)
(* fallback, whatever was dropped on the way, as long as no quantum ran    *)
(* between the two messages of a frame while POKEY's ring was empty or the *)
(* YM2151's had just overrun.                                              *)
AlignedUnlessTorn == ~torn => heard["ym"] = heard["pokey"]

(* sound-worklet.js:36: "Separate PCM queues keep YM2151 and POKEY sample  *)
(* streams time-aligned when both chips are pushed during the same frame." *)
TimeAligned == 0 \in {heard["ym"], heard["pokey"]} \/ heard["ym"] = heard["pokey"]
=============================================================================
