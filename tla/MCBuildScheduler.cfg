SPECIFICATION FairSpec
CONSTANTS
  N = 3
  MaxJobs = 2
INVARIANTS
  TypeOK
  ProducersFirst
  BarriersAreExclusive
  ReportIsTrue
  NeverStalls
PROPERTIES
  Ends
CHECK_DEADLOCK FALSE
