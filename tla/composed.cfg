SPECIFICATION Spec
CONSTANTS
  Producers = {p1, p2}
  Agent = agent
  NoThread = noThread
  Once = {p1, p2, agent}
  Quota <- MCQuota
  SocketMsgLimit = 0
  MaxGroups = 6
  SendMayFail = TRUE
INVARIANTS
  SentOnce
  HeldUpOnlyByRace
PROPERTIES
  ImplementsSync
CHECK_DEADLOCK FALSE
