--------------------------- MODULE MCAudioOutput ---------------------------
(* Browsers: an AudioWorklet with the ScriptProcessor to fall back on, the  *)
(* fallback alone, neither, and no Web Audio with and without <audio>.      *)
EXTENDS AudioOutput

API(context, media, worklet, script) ==
    [context |-> context, media |-> media, worklet |-> worklet, script |-> script]
MCBrowsers == {API(TRUE, TRUE, TRUE, TRUE), API(TRUE, TRUE, FALSE, TRUE),
               API(TRUE, TRUE, FALSE, FALSE),
               API(FALSE, TRUE, FALSE, FALSE), API(FALSE, FALSE, FALSE, FALSE)}
=============================================================================
