SPECIFICATION FairSpec
CONSTANTS
  MaxRevision = 2
  MaxBase = 2
  MaxAttempts = 2
  MaxFaults = 1
  MaxOutside = 1
  Gated = {2}
  Foreign = Foreign
  None = None
INVARIANTS TypeOK PushedWasProved OnePullRequest
PROPERTIES HistoryKept Rests
CHECK_DEADLOCK FALSE
