\* Fair executions.
SPECIFICATION LiveSpec
CONSTANTS
  a = a
  b = b
  NoItem = NoItem
  Items = {a, b}
  Kind <- KindPartition
  Est <- EstEqual
  Rank <- RankTwo
  MaxAttempts = 1
  ClaimLoopLimit = 100
  DryRun = FALSE
  MaxRaises = 1
  MaxWindow = 1
  MaxDeaths = 1
PROPERTIES
  RunningEnds
  ExecutedCompletes
  ImplementsItemLife
CHECK_DEADLOCK FALSE
