\* Three hardware queues, the four domains of the code and three requests.
CONSTANTS
  NumHctxs = 3
  NumTokens = 4
  MaxRequests = 3
SPECIFICATION LifecycleSpec
INVARIANTS
  AllOrNothing
  NothingMisused
PROPERTY SwitchEnds
