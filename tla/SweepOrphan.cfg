CONSTANTS
  N = 3
  t = t
  None = None
  Targets = {t}
  Goal <- NoGoal
  Tries = 3
  MayCrash = {}
  KeepLogs = {}
SPECIFICATION Spec
INVARIANTS LiveRunKept
CHECK_DEADLOCK FALSE
