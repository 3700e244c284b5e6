SPECIFICATION Spec
CONSTANTS
  r1 = r1 r2 = r2 o1 = o1 o2 = o2 p1 = p1 p2 = p2
  NoProc = NoProc NoOp = NoOp NoRun = NoRun
  Runs = {r1}
  Ops = {o1, o2}
  Procs = {p1, p2}
  Tools = {}
  Reviews = {}
  Drivers <- TwoDriveOne
  OperatedRuns = {}
  RunOf <- SharedRunOf
  Kind <- BothWork
  DependsOn <- PairDependsOn
  Budgeted = {o1}
  Delayed = {o2}
  MaxAttempts <- OnceEach
  MaxConcurrentRuns = 1
  MaxConcurrentObservations = 1
  MaxConcurrentVerifications = 1
  MaxIdentity = 1
INVARIANT OneLeasePerRun
SYMMETRY Interchangeable
CHECK_DEADLOCK FALSE
