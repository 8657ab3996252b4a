SPECIFICATION MCSpec
CONSTANTS
  N = 3
  MaxJobs = 2
INVARIANTS
  RefsAreVerified
  NeverRefused
PROPERTIES
  ImplementsScheduler
CHECK_DEADLOCK FALSE
