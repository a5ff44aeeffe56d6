SPECIFICATION Spec
CONSTANTS
  d1 = d1
  None = None
  External = External
  Runs = {r1}
  Spawn = {}
  DryRuns = {}
  Dirs = {d1}
  NumRequests = 2
  MaxProbes = 2
  Target <- MCTarget
INVARIANTS
  BackendFailureIsRecorded
CHECK_DEADLOCK FALSE
