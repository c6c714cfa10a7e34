\* Two captures of one object under two ids, one death; a call that raises is in Discovery_live.
SPECIFICATION LifeSpec
CONSTANTS
  a = a
  b = b
  NoItem = NoItem
  Items = {a, b}
  Kind <- KindPartition
  Est <- EstOne
  Rank <- RankEqual
  Object <- OneObject
  DedupeKey <- OneKey
  MaxAttempts = 2
  ClaimLoopLimit = 100
  DryRun = FALSE
  MaxRaises = 0
  MaxWindow = 1
  MaxDeaths = 1
  MaxCaptures = 2
  MaxFaults = 0
SYMMETRY EitherFirst
INVARIANTS
  RunningIsInHand
  OneOpenItemPerObject
PROPERTIES
  ImplementsGrowingLife
CHECK_DEADLOCK FALSE
