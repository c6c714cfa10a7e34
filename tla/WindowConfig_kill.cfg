\* Two clusters, two writes, the campaign of A with a window of its own.
SPECIFICATION Spec
CONSTANTS
  A = A
  B = B
  Null = Null
  NotLoaded = NotLoaded
  Clusters = {A, B}
  Day = 8
  Offset = 2
  DefaultStart = 1
  DefaultEnd = 3
  DefaultBudget = 1
  WeekendSlot <- Weekend
  Drafts <- MCDrafts
  MinBudget = 1
  MaxBudget = 8
  Active = {A}
  Overridden = {A}
  Seeded = {A}
  Times <- MCTimes
  Histories <- MCHistories
  MaxWrites = 2
INVARIANT
  KillStopsNewItems
