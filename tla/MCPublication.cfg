SPECIFICATION FairSpec
CONSTANTS
  Repos = {"libraries", "service", "model"}
  Aggregators = {"libraries"}
  DevelopmentOnly = {"model"}
  Workflowless = {}
  Files <- MCFiles
  MaxRuns = 2
  MaxOthers = 1
  MaxFaults = 1
INVARIANTS TypeOK RecordedIsPublished VerifiedIsProven
PROPERTIES Completes
CHECK_DEADLOCK FALSE
