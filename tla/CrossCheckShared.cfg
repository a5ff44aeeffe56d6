SPECIFICATION Spec
CONSTANTS
  None = None
  Execs = {e1, e2}
INVARIANTS
  TypeOK
  CrossCheckInv
  CompletedIsVerified
  TimedOutToolIsGone
PROPERTIES
  OutcomeSpec
CHECK_DEADLOCK FALSE
