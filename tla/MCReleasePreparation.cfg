SPECIFICATION FairSpec
CONSTANTS
  Trains <- MCTrains
  Worlds <- MCWorlds
  Acceptances <- MCAcceptances
  MaxFaults = 2
CHECK_DEADLOCK FALSE
INVARIANTS
  TypeOK
  PlanIsProven
  RehearsalAnswers
  SettledInTheFirstMinute
  CommittedIsSealed
PROPERTY
  Prepares
