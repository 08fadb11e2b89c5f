SPECIFICATION FairSpec
CONSTANTS
  MaxSessions = 2
  MaxCommands = 1
  MaxBatches = 2
INVARIANTS
  BlockedIsAlertable
  UnloadedAfterExit
  UnloadTellsClient
PROPERTIES
  UnloadReturns
  CommandsAreRead
CHECK_DEADLOCK FALSE
