SPECIFICATION FairSpec
CONSTANTS
  c1 = c1
  c2 = c2
  Calls <- TwoCalls
  Methods <- QrOnly
  Requests <- AndroidRequests
  RetryLen = 1
  Budget = 4
PROPERTIES
  PausedUntilOnline
CHECK_DEADLOCK FALSE
