\* One item, two requests, one death.
SPECIFICATION WebSpec
CONSTANTS
  a = a
  NoItem = NoItem
  Items = {a}
  Kind <- KindOne
  Est <- EstOne
  Rank <- RankOne
  MaxAttempts = 2
  ClaimLoopLimit = 100
  DryRun = FALSE
  MaxRaises = 0
  MaxWindow = 1
  MaxDeaths = 1
  MaxRequests = 2
INVARIANTS
  KeptUnlessOvertaken
CHECK_DEADLOCK FALSE
