\* Two history choices, two failing steps and two crashes.
SPECIFICATION PersistentSpec
CONSTANTS
  None = None
  MaxOps = 2
  MaxFaults = 2
  MaxCrashes = 2
INVARIANTS
  TypeOK
  TornIsJournaled
  JournalIsTrue
  AnswersAreTrue
PROPERTIES
  WritesUnderQuiescence
  JournalSettles
