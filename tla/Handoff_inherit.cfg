SPECIFICATION Spec
CONSTANTS
  Processes = {p1, p2}
  Runs = {r1}
  MaxGeneration = 2
  MaxWork = 1
  MaxTold = 1
  None = None
INVARIANT NothingAppends
CHECK_DEADLOCK FALSE
