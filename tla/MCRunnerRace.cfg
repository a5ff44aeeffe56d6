SPECIFICATION Spec
CONSTANTS
  d1 = d1
  None = None
  External = External
  Runs = {r1, r2}
  Spawn = {r1}
  DryRuns = {}
  Dirs = {d1}
  NumRequests = 1
  MaxProbes = 1
  Target <- MCTarget
INVARIANTS
  TypeOK
  RunnerInv
  ExitMatchesArtifact
  SuccessIsBacked
  NoServerLeftBehind
  FailureIsTold
CHECK_DEADLOCK FALSE
