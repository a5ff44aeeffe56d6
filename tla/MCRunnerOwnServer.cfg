SPECIFICATION Spec
CONSTANTS
  d1 = d1
  None = None
  External = External
  Runs = {r1}
  Spawn = {r1}
  DryRuns = {}
  Dirs = {d1}
  NumRequests = 1
  MaxProbes = 2
  Target <- MCTarget
INVARIANTS
  MeasuresOwnServer
CHECK_DEADLOCK FALSE
