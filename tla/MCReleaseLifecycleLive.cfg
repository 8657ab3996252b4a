SPECIFICATION FairSpec
CONSTANTS
  Controllers = {c1}
  NoController = nobody
  Versions = {v1}
  Tasks = {t1, t2}
  MaxLedgers = 2
  Jobs = 2
  RetryAttempts = 3
  NexusLimit = 2
  MaxFaults = 3
PROPERTIES
  CommandsEnd
  Settles
CHECK_DEADLOCK FALSE
