\* init and three processes, in every family, under either policy.
CONSTANTS
  Task = {init, a, b, c}
  SeedTask = init
  Idle = idle
  Null = Null
SYMMETRY MCSymmetry
SPECIFICATION Spec
INVARIANTS
  RingLinks
  FreedOnce
  NothingLeft
PROPERTIES
  ImplementsTaskOrder
  ImplementsFamilies
\* The program ends.
CHECK_DEADLOCK FALSE
