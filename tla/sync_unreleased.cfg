SPECIFICATION FairSpec
CONSTANTS
  Producers = {p1, p2}
  Agent = agent
  NoThread = noThread
  Busy = {p1}
  Once = {p2}
  Quota <- MCQuota
  EndsConsume = FALSE
PROPERTIES
  ProduceReturns
CHECK_DEADLOCK FALSE
