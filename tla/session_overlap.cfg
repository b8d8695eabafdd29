SPECIFICATION Spec
CONSTANTS
  c1 = c1
  c2 = c2
  Calls <- TwoCalls
  Methods <- AllMethods
  Requests <- AndroidRequests
  RetryLen = 1
  Budget = 4
INVARIANTS
  HeldBackIsWatched
  NoSocketWithoutTerms
PROPERTIES
  ShutdownIsFinal
CHECK_DEADLOCK FALSE
