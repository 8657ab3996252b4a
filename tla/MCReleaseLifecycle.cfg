SPECIFICATION Spec
CONSTANTS
  Controllers = {c1, c2}
  NoController = nobody
  Versions = {v1, v2}
  Tasks = {t1, t2}
  MaxLedgers = 2
  Jobs = 2
  RetryAttempts = 5
  NexusLimit = 2
  MaxFaults = 2
SYMMETRY Symmetry
INVARIANTS
  TypeOK
  SlotNamesALedger
  AbandonedIsLocal
  EffectsAreAnnounced
  ConclusionIsEarned
  WorkspaceIsKept
PROPERTIES
  RecordsOnlyGrow
  ImplementsContract
CHECK_DEADLOCK FALSE
