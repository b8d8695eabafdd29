SPECIFICATION FairSpec
CONSTANTS
  c1 = c1
  c2 = c2
  Calls <- OneCall
  Methods <- QrOnly
  Requests <- AndroidRequests
  RetryLen = 1
  Budget = 6
INVARIANTS
  OneLiveSocket
  JobsFollowSocket
  NoLinkComesBack
  NoInheritedData
PROPERTIES
  RequestsReturn
  RetryHappens
  PausedUntilOnline
  AcceptanceIsNoticed
CHECK_DEADLOCK FALSE
