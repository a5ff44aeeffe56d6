SPECIFICATION Spec
CONSTANTS
  None = None
  Hooks = {h1, h2, h3}
INVARIANTS
  TypeOK
  SkippedBehindLaunch
CHECK_DEADLOCK FALSE
