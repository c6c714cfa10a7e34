\* One item in a dry run, one death, two calls of discovery that raise.
SPECIFICATION LifeLiveSpec
CONSTANTS
  a = a
  b = b
  NoItem = NoItem
  Items = {a}
  Kind <- KindPartition
  Est <- EstOne
  Rank <- RankEqual
  Object <- OneObject
  DedupeKey <- OneKey
  MaxAttempts = 1
  ClaimLoopLimit = 100
  DryRun = TRUE
  MaxRaises = 0
  MaxWindow = 1
  MaxDeaths = 1
  MaxCaptures = 2
  MaxFaults = 2
PROPERTIES
  DiscoveringEnds
CHECK_DEADLOCK FALSE
