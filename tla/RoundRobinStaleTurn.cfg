\* Round robin: one process goes to sleep as another is born.
CONSTANTS
  Task <- MCTask
  SeedTask = 0
  Null = Null
  N = 2
  Profiles <- Pairs
  EndTime = 16
  Horizon = 16
  TickLen = 2
  IoDelays = {10, 11}
  WaitDelays = {1, 4}
SPECIFICATION Spec
PROPERTY SwitchesToQueued
\* The machine stops: it halts, or it faults.
CHECK_DEADLOCK FALSE
