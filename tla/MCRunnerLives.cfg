SPECIFICATION FairSpec
CONSTANTS
  d1 = d1
  None = None
  External = External
  Runs = {r1, r2}
  Spawn = {r1}
  DryRuns = {r2}
  Dirs = {d1}
  NumRequests = 1
  MaxProbes = 1
  Target <- MCTarget
PROPERTIES
  RunEnds
  ServerReaped
CHECK_DEADLOCK FALSE
