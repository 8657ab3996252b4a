SPECIFICATION MCSpec
CONSTANTS
  Threads <- MCThreads
  Processes <- MCProcesses
  Home <- MCHome
  Past = "past"
  Size = 3
  Want <- MCWant
INVARIANTS
  TypeOK
  OrderlySlotsAreExclusive
PROPERTIES
  Served
CHECK_DEADLOCK FALSE
