SPECIFICATION FairSpec
CONSTANTS
  voice = voice
  note = note
  weekly = weekly
  Jobs <- AllJobs
  OneOff <- OneOffs
  HasMedia <- FileOnly
  Creators <- Everyone
  Routes <- AllRoutes
  Budget = 6
PROPERTY DueIsSettled
CHECK_DEADLOCK FALSE
