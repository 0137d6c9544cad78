CONSTANTS
  a = a
  b = b
  c = c
  Run = Run
  Targets = {a, b, c}
  Calls <- Shared
  DepthMax = 2
  Builds <- BTwice
  Chatty = {a}
  Crashes = 1
  Keep = FALSE
SPECIFICATION FairSpec
INVARIANTS TypeOK NothingLost
PROPERTIES CrashNotesTrue FollowerEnds
CHECK_DEADLOCK FALSE
