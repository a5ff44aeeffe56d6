SPECIFICATION Spec
CONSTANTS
  None = None
  NoWorkload = NoWorkload
  Unit = 2
  Counts = {0, 1, 2}
  Scrapes <- MCScrapes
  Workloads <- MCWorkloads
  Configs <- MCConfigs
INVARIANTS
  PreflightTypeOK
  ReproduceIsReady
  TrafficIsWholeWorkload
  PlanMatchesLaunch
  BurstShare
  SharingIsConfigured
  
  PassedIffClean
CHECK_DEADLOCK FALSE
