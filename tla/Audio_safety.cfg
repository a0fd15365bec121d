SPECIFICATION AudioSpec
CONSTANTS
  MaxClaims = 3
  MaxTries = 2
INVARIANTS
  AudioTypeOK
  OutcomeKnown
  OneOutcome
PROPERTIES
  ImplementsNotePromise
CHECK_DEADLOCK FALSE
