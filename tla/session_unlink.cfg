SPECIFICATION Spec
CONSTANTS
  c1 = c1
  c2 = c2
  Calls <- TwoCalls
  Methods <- QrOnly
  Requests <- PanelRequests
  RetryLen = 1
  Budget = 4
INVARIANTS
  UnlinkedIsCutOff
CHECK_DEADLOCK FALSE
