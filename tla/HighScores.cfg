CONSTANTS
  Rows = 3
  Base = 2
  Letters = 3
  NameLen = 2
  Radix = 4
  Word = 16
  Ring = 8
  Threshold = 3
  Cooldown = 1
  Places = {0, 3}
  Scores = {1, 3, 5, 8}
  Tables <- MCTables
  Seeds <- MCSeeds
SPECIFICATION Spec
PROPERTY TableIsTopList EntryStartsFresh
CHECK_DEADLOCK FALSE
