SPECIFICATION Spec
CONSTANTS
  voice = voice
  note = note
  weekly = weekly
  Jobs <- TextAndCron
  OneOff <- TextOnly
  HasMedia <- None
  Creators <- ByCommand
  Routes <- ChatOnly
  Budget = 7
INVARIANT NeverForNewAccount
CHECK_DEADLOCK FALSE
