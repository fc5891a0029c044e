SPECIFICATION FairSpec
CONSTANTS
  FrameCycles = 6
  Tapes <- MCTapes
  Settings <- MCSettings
  Steps = {2, 3}
  Stores <- MCStores
  ResetCycles = 7
  LoopFrame = 1
  Horizon = 19
  MaxLead = 2
  MaxWrites = 2
INVARIANTS
  InStep
  WritesOnTime
PROPERTIES
  OnTime
  KeepsTime
  FrameEnds
