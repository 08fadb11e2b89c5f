SPECIFICATION Spec
CONSTANTS
  MaxSessions = 1
  MaxCommands = 2
  MaxBatches = 1
INVARIANTS
  EveryCommandPerformed
CHECK_DEADLOCK FALSE
