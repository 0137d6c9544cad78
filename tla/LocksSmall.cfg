CONSTANTS
  a = a
  b = b
  c = c
  r1 = r1
  r2 = r2
  None = None
  Targets = {a, b, c}
  Graphs <- Small
  Runs = {r1, r2}
  Roots <- TwoSides
  MayCrash = {r1}
SPECIFICATION FairSpec
INVARIANTS TypeOK NoMutualWait NoFalseCycle CycleNeverBuilds RowsAreWaits
PROPERTY Termination
CHECK_DEADLOCK FALSE
