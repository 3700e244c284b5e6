SPECIFICATION Spec
CONSTANTS
  Processes = {p1, p2}
  Runs = {r1}
  MaxGeneration = 3
  MaxWork = 1
  MaxTold = 1
  None = None
INVARIANTS TypeOK OneAdmits DecidedStateStands
PROPERTIES ActivationStrandsNoRun AuthorityNeverRegresses InterruptedSettles
CHECK_DEADLOCK FALSE
