CONSTANTS
  c1 = c1
  c2 = c2
  c3 = c3
  c4 = c4
  s1 = s1
  s2 = s2
  o1 = o1
  o2 = o2
  e1 = e1
  None = None
  Calls = {c1, c2, c3}
  Sessions = {s1, s2}
  SessionOf <- RunOf
  Forced = {c3}
  Yes = {c2}
  MayCrash = {c1, c2, c3}
  Outputs = {o1, o2}
  Foreign = {e1}
  Edits = {e1, None}
  MaybePhony = TRUE
  ExactDoFile = FALSE
SPECIFICATION FairSpec
INVARIANTS TypeOK OutputVouched OncePerSession
PROPERTIES FalseRefusalOnlyByRace NoFalseRefusal EditsSurvive OutputNeverBecomesSource SuccessMeansCommitted ImplementsAtomic Termination
