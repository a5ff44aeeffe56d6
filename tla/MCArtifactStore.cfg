SPECIFICATION StoreSpec
CONSTANTS
  d1 = d1
  None = None
  Runs = {r1, r2, r3}
  Dirs = {d1}
  NumRequests = 1
  Target <- MCTarget
INVARIANTS
  StoreTypeOK
  StoreInv
  ValidIsComplete
  PublishedIsMine
PROPERTIES
  RegisterSpec
  AcceptedIsFrozen
CHECK_DEADLOCK FALSE
