SPECIFICATION Spec
CONSTANTS
  None = None
  Execs = {e1}
INVARIANTS
  TimedOutGroupWasSignalled
CHECK_DEADLOCK FALSE
