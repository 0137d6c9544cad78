CONSTANTS
  a = a
  b = b
  c = c
  r1 = r1
  r2 = r2
  None = None
  Targets = {a, b, c}
  Graphs <- Ring
  Runs = {r1, r2}
  Roots <- Opposite
  MayCrash = {}
SPECIFICATION FairSpec
INVARIANT NoCircularWait
CHECK_DEADLOCK FALSE
