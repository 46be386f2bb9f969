SPECIFICATION Spec
CONSTANTS
  Reader = {ann}
  MaxMails = 2
  MaxLetters = 4
INVARIANTS TypeOK OwnText CleanIsSaved TimersLive
CHECK_DEADLOCK FALSE
