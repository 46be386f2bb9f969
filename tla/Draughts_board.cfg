SPECIFICATION Spec
CONSTANTS
  None = None
  Field = {5, 10, 14, 15, 20, 28}
  Blacks = 1
  Whites = 2
  MaxKings = 1
  Starts <- EndGames
  Exercised = {}
INVARIANTS BoardOK
PROPERTIES PiecesOnlyGo KeepsTheRules
CHECK_DEADLOCK FALSE
