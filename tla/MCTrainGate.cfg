SPECIFICATION Spec
CONSTANTS
  Operators = {o1, o2}
  Trains = {"t1", "t2"}
  Current = "t2"
  Hosts <- MCHosts
  MaxCommands = 3
  MaxFaults = 1
  Repos = {"group"}
  Served = {"group"}
  MaxMoves = 3
  MaxSmokes = 1
  MaxTrains = 2
INVARIANTS TypeOK TierServedOnce TrainIsCovered
CHECK_DEADLOCK FALSE
PROPERTY AlwaysRecoverable
