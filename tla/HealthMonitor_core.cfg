\* The load, and whether the monitor judges it, change up to four times together.  A dead monitor thread with
\* the state not HEALTHY stops the cluster for good: no deadlock check.
SPECIFICATION LiveSpec
CONSTANTS
  Kinds = {"rebuild", "other"}
  AutoResume = TRUE
  MaxChanges = 4
INVARIANTS
  AtMostOneItemBegins
  PauseKeepsStop
PROPERTIES
  RecoveryIsConfirmed
  StoppedRecovers
  StoppingEndsWithItem
CHECK_DEADLOCK FALSE
