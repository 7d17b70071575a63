\* Two domains tune their depths; two samples are enough at once.
CONSTANTS
  UIntRange = 16
  NumCpus = 1
  NumDomains = 2
  MaxDepth <- MCMaxDepth
  MinSamples = 2
  HZ = 1
  TimerDelay = 1
  Target <- MCTarget
  NewTargets <- MCNewTargets
  Latencies <- MCLatencies
  MaxSamples = 2
SPECIFICATION HistorySpec
INVARIANTS
  TypeOK
  NoStrandedSample
  SamplesAccounted
PROPERTY ThrottledOnNewData
\* The bound on the samples may be reached in two domains at once.
CHECK_DEADLOCK FALSE
