CONSTANTS
  MaxRenderers = 2
  Browsers <- MCBrowsers
  Cap = 3
  FrameSamples = 2
  Quantum = 2
  MaxFrames = 4
  MaxPort = 4
SPECIFICATION Spec
INVARIANT FlagTellsTruth AlignedUnlessTorn
PROPERTY SoundStaysOn StreamsAreFifos
CHECK_DEADLOCK FALSE
