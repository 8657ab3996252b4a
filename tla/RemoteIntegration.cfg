SPECIFICATION FairSpec
CONSTANTS
  PushAttempts = 3
  MaxOthers = 3
  MaxFaults = 2
INVARIANTS
  TypeOK
  IntegratedOnce
  NothingIsOverwritten
PROPERTIES
  Completes
CHECK_DEADLOCK FALSE
