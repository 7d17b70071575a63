\* One hardware queue serves two domains from two software queues.
CONSTANTS
  h1 = h1
  r1 = r1
  r2 = r2
  r3 = r3
  r4 = r4
  Hctxs = {h1}
  Ctxs = {1, 2}
  Requests = {r1, r2, r3, r4}
  Requeued = {r1}
  NumDomains = 2
  BatchSize <- MCBatchSize
  MaxDepth <- MCMaxDepth
  HctxOf <- MCHctxOf
  CtxOf <- MCCtxOf
  DomainOf <- MCDomainOf
SPECIFICATION TurnSpec
INVARIANTS
  RequestsFindable
  NoDomainStarved
PROPERTIES
  ImplementsStreams
  DomainServed
