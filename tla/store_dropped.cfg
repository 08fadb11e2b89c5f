SPECIFICATION Spec
CONSTANTS
  SocketMsgLimit = 1
  UsedSpaces = {0}
  MaxLines = 3
  MaxGroups = 9
  SendMayFail = FALSE
INVARIANTS
  NothingDropped
