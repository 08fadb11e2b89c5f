SPECIFICATION FairSpec
CONSTANTS
  SocketMsgLimit = 2
  UsedSpaces = {1}
  MaxLines = 4
  MaxGroups = 9
  SendMayFail = FALSE
INVARIANTS
  ListsWellFormed
  CountsNodes
  BatchWithinLimit
  FirstInFirstOut
  DroppedOnlyByShadow
PROPERTIES
  DrainEnds
