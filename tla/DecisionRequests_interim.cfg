SPECIFICATION FairSpec
CONSTANTS
  MaxRequests = 1
  Bound = {}
  MaxAttempts = 1
  MaxContinuations = 1
  MaxHeads = 2
  MaxCrashes = 0
PROPERTIES SettlesOnFinalOutput
CHECK_DEADLOCK FALSE
