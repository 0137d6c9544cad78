CONSTANTS
  c1 = c1
  c2 = c2
  c3 = c3
  c4 = c4
  s1 = s1
  s2 = s2
  o1 = o1
  o2 = o2
  e1 = e1
  None = None
  Calls = {c1, c3, c4}
  Sessions = {s1, s2}
  SessionOf <- RunOf
  Forced = {c3}
  Yes = {}
  MayCrash = {}
  Outputs = {o1, o2}
  Foreign = {e1}
  Edits = {e1, None}
  MaybePhony = FALSE
  ExactDoFile = TRUE
SPECIFICATION FairSpec
PROPERTY EditsNeverOverwritten
