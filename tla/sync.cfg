SPECIFICATION FairSpec
CONSTANTS
  Producers = {p1, p2}
  Agent = agent
  NoThread = noThread
  Busy = {}
  Once = {p1, p2, agent}
  Quota <- MCQuota
  EndsConsume = TRUE
INVARIANTS
  StoreExclusive
  GateDiscipline
  ThreadCount
PROPERTIES
  ProduceReturns
  ConsumeReturns
