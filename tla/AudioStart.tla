----------------------------- MODULE AudioStart -----------------------------
(***************************************************************************)
(* How the page gets its sound: startSoundRenderer of main.ts, called by   *)
(* every click, tap and START or coin key until the sound is on, and the   *)
(* start() of the renderer it makes (sound-renderer.ts), which suspends in *)
(* addModule and again in resume.  What the browser offers is fixed for a  *)
(* page; when its promises settle, and how, is up to it.                   *)
(***************************************************************************)
EXTENDS Naturals, Sequences

CONSTANTS MaxRenderers,  \* bound on the renderers a page makes
          Browsers       \* [context, media, worklet, script : BOOLEAN]: the APIs present

VARIABLES api,           \* the browser of this page
          soundStarted, soundStartInFlight,
          renderers,     \* every renderer made; the last one is soundRenderer
          refused        \* history: was a gesture refused while a start was pending?

startVars == <<api, soundStarted, soundStartInFlight, renderers, refused>>

(* A renderer: its AudioContext, where its PCM goes, where its start() is. *)
Renderer(ctx, sink, at) == [ctx |-> ctx, sink |-> sink, at |-> at]
Last == Len(renderers)
Sink == IF Last = 0 THEN "none" ELSE renderers[Last].sink
isRunning(r) == r.sink = "cues" \/ (r.ctx # "none" /\ r.sink \in {"worklet", "script", "silent"})
SoundOn == Last > 0 /\ isRunning(renderers[Last])
Pending(r) == r.at \in {"module", "resume"}

(* The end of start() once the renderer has a sink, and what the page does *)
(* when the promise of start() settles.                                    *)
AfterSink(ctx) == IF ctx = "suspended" THEN "resume" ELSE "done"
Settle(at) ==
    /\ soundStarted' = (soundStarted \/ at = "done")
    /\ soundStartInFlight' = (soundStartInFlight /\ at \notin {"done", "failed"})

startScriptProcessorFallback == IF api.script THEN "script" ELSE "silent"

(* Everything start() does before its first await.                         *)
Begun ==
    IF ~api.context
    THEN {IF api.media THEN Renderer("none", "cues", "done") ELSE Renderer("none", "none", "failed")}
    ELSE {Renderer("none", "none", "failed")} \cup       \* the constructor throws
         {IF api.worklet THEN Renderer(ctx, "none", "module")
          ELSE Renderer(ctx, startScriptProcessorFallback, AfterSink(ctx)) :
             ctx \in {"suspended", "running"}}

-----------------------------------------------------------------------------

StartInit ==
    /\ api \in Browsers
    /\ soundStarted = FALSE /\ soundStartInFlight = FALSE
    /\ renderers = <<>>
    /\ refused = FALSE

(* The first line of startSoundRenderer refuses a second start, and its    *)
(* finally block runs on that path too.                                    *)
GestureRefused ==
    /\ soundStarted \/ soundStartInFlight
    /\ soundStartInFlight' = FALSE
    /\ refused' = (refused \/ ~soundStarted)
    /\ UNCHANGED <<api, soundStarted, renderers>>

GestureUnguarded ==                    \* mutant: a pending start is not asked for
    /\ ~soundStarted
    /\ Last < MaxRenderers
    /\ \E r \in Begun :
         /\ renderers' = Append(renderers, r)
         /\ soundStarted' = (r.at = "done")
         /\ soundStartInFlight' = Pending(r)
    /\ UNCHANGED <<api, refused>>
GestureRestarts ==                     \* mutant: a start that is done is not
    /\ ~soundStartInFlight
    /\ Last < MaxRenderers
    /\ \E r \in Begun :
         /\ renderers' = Append(renderers, r)
         /\ soundStarted' = (r.at = "done")
         /\ soundStartInFlight' = Pending(r)
    /\ UNCHANGED <<api, refused>>
GestureStarts ==
    /\ ~soundStarted /\ ~soundStartInFlight
    /\ Last < MaxRenderers
    /\ \E r \in Begun :
         /\ renderers' = Append(renderers, r)
         /\ soundStarted' = (r.at = "done")
         /\ soundStartInFlight' = Pending(r)
    /\ UNCHANGED <<api, refused>>

Goes(i, r) ==
    /\ renderers' = [renderers EXCEPT ![i] = r]
    /\ Settle(r.at)
    /\ UNCHANGED <<api, refused>>

(* addModule settles: the worklet node, or the fallback.                   *)
ModuleSettles(i) ==
    /\ renderers[i].at = "module"
    /\ \E sink \in {"worklet", startScriptProcessorFallback} :
         Goes(i, Renderer(renderers[i].ctx, sink, AfterSink(renderers[i].ctx)))

(* The browser lets a context run; resume() settles then, or is refused.   *)
ContextRuns(i) ==
    /\ renderers[i].ctx = "suspended"
    /\ renderers' = [renderers EXCEPT ![i].ctx = "running"]
    /\ UNCHANGED <<api, soundStarted, soundStartInFlight, refused>>
Resumed(i) ==
    /\ renderers[i].at = "resume" /\ renderers[i].ctx = "running"
    /\ Goes(i, [renderers[i] EXCEPT !.at = "done"])
ResumeRejected(i) ==
    /\ renderers[i].at = "resume"
    /\ Goes(i, [renderers[i] EXCEPT !.at = "failed"])

-----------------------------------------------------------------------------

(* As long as no gesture came while a start was pending, the flag of       *)
(* startSoundRenderer tells the truth: it is set while one start() is      *)
(* pending, and no two ever are.  (A gesture that comes then clears the    *)
(* flag: see the README.)                                                  *)
FlagTellsTruth ==
    ~refused =>
      /\ soundStartInFlight <=> \E i \in 1..Last : Pending(renderers[i])
      /\ \A i, j \in 1..Last : Pending(renderers[i]) /\ Pending(renderers[j]) => i = j
      /\ soundStarted => ~soundStartInFlight

(* Once the renderer of the page runs, pushSoundPcm never finds it stopped *)
(* again, so no frame of sound is lost, unless a gesture came while a      *)
(* start was pending or a start failed: those replace it by a new renderer *)
(* whose module is still loading.                                          *)
SoundStaysOn ==
    [][ SoundOn /\ ~refused /\ (\A i \in 1..Last : renderers[i].at # "failed")
          => SoundOn' ]_startVars
=============================================================================
