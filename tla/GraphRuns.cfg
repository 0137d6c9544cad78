CONSTANTS
  r1 = r1
  r2 = r2
  r3 = r3
  None = None
  Top = 2
  Runs = {r1, r2, r3}
  Forced = {r2}
  MayCrash = {r1}
  MaxEdits = 1
SPECIFICATION Spec
INVARIANTS TypeOK RecordsFaithful
PROPERTIES FreshAlone BuiltOnce NeverBackwards
CHECK_DEADLOCK FALSE
