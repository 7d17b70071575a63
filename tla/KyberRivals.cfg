\* Two hardware queues compete for the tokens of one domain.
CONSTANTS
  h1 = h1
  h2 = h2
  r1 = r1
  r2 = r2
  r3 = r3
  Hctxs = {h1, h2}
  Ctxs = {1, 2}
  Requests = {r1, r2, r3}
  Requeued = {r3}
  NumDomains = 1
  BatchSize <- MCBatchSize
  MaxDepth <- MCMaxDepth
  HctxOf <- MCHctxOf
  CtxOf <- MCCtxOf
  DomainOf <- MCDomainOf
SPECIFICATION Spec
INVARIANTS
  TypeOK
  TokensOwned
  RestsOnlyThrottled
  NoLostWakeup
PROPERTY DomainServed
