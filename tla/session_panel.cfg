SPECIFICATION SerialSpec
CONSTANTS
  c1 = c1
  c2 = c2
  Calls <- TwoCalls
  Methods <- QrOnly
  Requests <- PanelRequests
  RetryLen = 2
  Budget = 7
INVARIANTS
  CodeBelongsToSocket
PROPERTIES
  StoppedStaysStopped
  OwnsOneConnection
CHECK_DEADLOCK FALSE
