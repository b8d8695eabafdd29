SPECIFICATION Spec
CONSTANTS
  c1 = c1
  c2 = c2
  Calls <- OneCall
  Methods <- AllMethods
  Requests <- PanelRequests
  RetryLen = 1
  Budget = 4
PROPERTIES
  StartIsIdempotent
CHECK_DEADLOCK FALSE
