CONSTANTS
  MaxSince = 4
  LastWord = 16383
SPECIFICATION MCSpec
INVARIANT ClassIsFaithful MirrorCoherent ServedFromWantedBank EventIsStateless
PROPERTY SwitchIsUnlocked
CHECK_DEADLOCK FALSE
