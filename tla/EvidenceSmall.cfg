CONSTANTS
  Depth = 1
  Parts = 1
  Contents = {1, 2}
  Second = 3
  Margin = 2
  Behind = 1
  Ahead = 0
  Checkers = {1}
  Initial <- RootDefault
  Dir = Dir
  None = None
  MaxNow = 3
  MaxEdits = 2
SPECIFICATION Spec
INVARIANTS TypeOK CacheHonest FreshUnlessTorn RebuiltForCause
CHECK_DEADLOCK FALSE
