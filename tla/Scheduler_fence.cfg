SPECIFICATION FairSpec
CONSTANTS
  r1 = r1 r2 = r2 o1 = o1 o2 = o2 p1 = p1 p2 = p2
  NoProc = NoProc NoOp = NoOp NoRun = NoRun
  Runs = {r1, r2}
  Ops = {o1}
  Procs = {p1, p2}
  Tools = {t1}
  Reviews = {c1}
  Drivers <- TwoDriveOne
  OperatedRuns = {}
  RunOf <- SoleRunOf
  Kind <- SoleKind
  DependsOn <- SoleDependsOn
  Budgeted = {}
  Delayed = {}
  MaxAttempts <- SoleOnce
  MaxConcurrentRuns = 1
  MaxConcurrentObservations = 1
  MaxConcurrentVerifications = 1
  MaxIdentity = 1
INVARIANTS PermitFencesRun CeilingsHold
PROPERTY OrphanReleased
CHECK_DEADLOCK FALSE
