SPECIFICATION Spec
CONSTANTS
  Absent = Absent
  None = None
  StageOrder <- WorkStages
  Kind <- WorkKinds
  DependsOn <- WorkDependencies
  Content <- BuildChanges
  MaxRevision = 1
  MaxGeneration = 3
  MaxHead = 2
  MaxChildRuns = 3
  MaxConcurrency = 2
  MaxInvocations = 4
  MaxProposed = 2
  MaxPlanning = 1
INVARIANTS TypeOK InterruptedStartsAdoptable CreatedRunsWithinEnvelope
PROPERTY Converges
