CONSTANTS
  r1 = r1
  r2 = r2
  r3 = r3
  None = None
  Top = 2
  Runs = {r1, r2}
  Forced = {}
  MayCrash = {}
  MaxEdits = 2
SPECIFICATION Spec
PROPERTIES FreshOnSuccess
CHECK_DEADLOCK FALSE
