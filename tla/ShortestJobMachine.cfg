\* Shortest job, two processes, sleeping and not.
CONSTANTS
  Task <- MCTask
  SeedTask = 0
  Null = Null
  N = 2
  Profiles <- BusyPairs
  EndTime = 12
  Horizon = 12
  TickLen = 2
  IoDelays = {10, 11}
  WaitDelays = {1, 4}
  Scale = 27
  MaxRun = 8
SPECIFICATION JobSpec
INVARIANTS
  JobTypeOK
  MachineSound
PROPERTIES
  ImplementsProcessTree
  ShutsDown
\* The machine stops: it halts, or it faults.
CHECK_DEADLOCK FALSE
