\* Round robin, up to three processes, in pairs, families and crowds.
CONSTANTS
  Task <- MCTask
  SeedTask = 0
  Null = Null
  N = 3
  Profiles <- PairsAndFamilies
  EndTime = 16
  Horizon = 16
  TickLen = 2
  IoDelays = {10, 11}
  WaitDelays = {1, 4}
SPECIFICATION TurnSpec
INVARIANTS
  TypeOK
  TaskPlaced
  FamilyIntact
  SleeperWillWake
  NoStaleRequest
  OvertakenOnce
  TurnsSound
PROPERTIES
  RunQueueContract
  ShutsDownInTurn
\* The machine stops: it halts, or it faults.
CHECK_DEADLOCK FALSE
