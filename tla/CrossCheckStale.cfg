SPECIFICATION Spec
CONSTANTS
  None = None
  Execs = {e1, e2}
INVARIANTS
  CompletedIsFresh
CHECK_DEADLOCK FALSE
