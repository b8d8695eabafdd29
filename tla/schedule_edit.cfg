SPECIFICATION Spec
CONSTANTS
  voice = voice
  note = note
  weekly = weekly
  Jobs <- TextAndCron
  OneOff <- TextOnly
  HasMedia <- None
  Creators <- ByCommand
  Routes <- ChatOnly
  Budget = 5
INVARIANT SentWasDelivered
CHECK_DEADLOCK FALSE
