SPECIFICATION FairSpec
CONSTANTS
  p1 = p1 p2 = p2
  Passes = {p1, p2}
  Stops = {s1}
INVARIANTS TypeOK StopHolds StopYieldsOnlyToMerge
PROPERTIES CrashedStopFinished MergeEndsRun KeepsPromise
