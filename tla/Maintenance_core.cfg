\* Two items, one death, one call that raises, two attempts.
SPECIFICATION Spec
CONSTANTS
  a = a
  b = b
  NoItem = NoItem
  Items = {a, b}
  Kind <- KindRebuild
  Est <- EstTwo
  Rank <- RankTwo
  MaxAttempts = 2
  ClaimLoopLimit = 100
  DryRun = FALSE
  MaxRaises = 1
  MaxWindow = 1
  MaxDeaths = 1
INVARIANTS
  TypeOK
  RunningIsInHand
  PausedIsResumable
  StartedOnlyIfGranted
  AttemptsBounded
  NotRepeated
  CompletedIsOver
PROPERTIES
  TerminalIsFinal
CHECK_DEADLOCK FALSE
