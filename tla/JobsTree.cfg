CONSTANTS
  Jobs = {"a", "b", "c", "d", "f"}
  Calls = {"root", "a1", "d1"}
  Root = "root"
  CallOf <- DeepCallOf
  JobOf <- DeepJobOf
  J = 2
  Background = {}
  MayFail = {"a1"}
  None = None
SPECIFICATION FairSpec
INVARIANTS TypeOK TokensConserved JobLimit ReturnsLast
PROPERTIES NoIdleToken Termination
CHECK_DEADLOCK FALSE
