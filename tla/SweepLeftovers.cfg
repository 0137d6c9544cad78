CONSTANTS
  N = 3
  t = t
  None = None
  Targets = {t}
  Goal <- OneGoal
  Tries = 2
  MayCrash = {1}
  KeepLogs = {1}
SPECIFICATION FairSpec
INVARIANTS TypeOK FirstTryKept BuildFilesKept
PROPERTIES NothingLeft Termination
CHECK_DEADLOCK FALSE
