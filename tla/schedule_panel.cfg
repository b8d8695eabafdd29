SPECIFICATION SteadySpec
CONSTANTS
  voice = voice
  note = note
  weekly = weekly
  Jobs <- AllJobs
  OneOff <- OneOffs
  HasMedia <- FileOnly
  Creators <- Everyone
  Routes <- ChatOnly
  Budget = 7
INVARIANTS
  OneSendAtATime
  MediaKept
  TasksFollowSocket
  SentWasDelivered
  NeverForNewAccount
PROPERTIES
  ResentByHandOnly
  StaleIsSilent
CHECK_DEADLOCK FALSE
