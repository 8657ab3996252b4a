SPECIFICATION FairSpec
CONSTANTS
  Controllers = {c1}
  NoController = nobody
  Versions = {v1}
  Tasks = {t1}
  MaxLedgers = 1
  Jobs = 1
  RetryAttempts = 5
  NexusLimit = 3
  MaxFaults = 2
PROPERTIES
  AbandonedSlotIsReleased
CHECK_DEADLOCK FALSE
