SPECIFICATION FairSpec
CONSTANTS
  first = first
  second = second
  unpaired = unpaired
  Restores <- TheRestores
  Accounts <- Paired
  Order <- TwoFolders
  Holds <- Contents
  OwnFolders <- MemoryOnly
  MaxFaults = 1
  MaxCrashes = 2
INVARIANTS
  AccountIsWhole
  NothingIsLost
  PersonaFollows
  WaitingIsComplete
PROPERTIES
  SwapsAtOnce
  JobsEnd
CHECK_DEADLOCK FALSE
