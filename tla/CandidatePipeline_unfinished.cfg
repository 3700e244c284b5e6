SPECIFICATION Spec
CONSTANTS
  MaxRevision = 2
  MaxBase = 1
  MaxAttempts = 2
  MaxFaults = 1
  MaxOutside = 0
  Gated = {}
  Foreign = Foreign
  None = None
INVARIANT FinishedBeforePublished
CHECK_DEADLOCK FALSE
