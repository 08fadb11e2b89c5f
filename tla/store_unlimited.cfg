SPECIFICATION Spec
CONSTANTS
  SocketMsgLimit = 0
  UsedSpaces = {0, 1}
  MaxLines = 2
  MaxGroups = 6
  SendMayFail = TRUE
PROPERTIES
  ImplementsChannel
