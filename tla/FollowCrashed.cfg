CONSTANTS
  a = a
  b = b
  c = c
  Run = Run
  Targets = {a, b, c}
  Calls <- Shared
  DepthMax = 3
  Builds <- Once
  Chatty = {}
  Crashes = 0
  Keep = FALSE
SPECIFICATION FairSpec
PROPERTY OnlyDeadCrash
CHECK_DEADLOCK FALSE
