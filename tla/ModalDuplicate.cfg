SPECIFICATION Spec
CONSTANTS
  None = None
  Hooks = {h1, h2}
INVARIANTS
  AtMostOneServer
CHECK_DEADLOCK FALSE
