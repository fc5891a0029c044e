CONSTANTS
  MaxRenderers = 1
  Browsers <- MCBrowsers
  Cap = 3
  FrameSamples = 2
  Quantum = 1
  MaxFrames = 2
  MaxPort = 4
SPECIFICATION Spec
INVARIANT TimeAligned
CHECK_DEADLOCK FALSE
