SPECIFICATION Spec
CONSTANTS
  Absent = Absent
  None = None
  StageOrder <- GateStages
  Kind <- GateKinds
  DependsOn <- GateDependencies
  Content <- BuildChanges
  MaxRevision = 2
  MaxGeneration = 1
  MaxHead = 2
  MaxChildRuns = 2
  MaxConcurrency = 2
  MaxInvocations = 3
  MaxProposed = 2
  MaxPlanning = 1
INVARIANT AnnouncedRunsAccounted
PROPERTY PassServesApproved
