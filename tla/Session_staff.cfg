SPECIFICATION Spec
CONSTANTS
  Player = {p1, p2, p3}
  Conn = {c1, c2}
  Name = {ann}
  Residents = {ann}
  MaxLoggingOn = 2
  Exercised = {"make", "banish", "nuke", "idle"}
  None = None
SYMMETRY Perms
INVARIANTS PresentOnce TimerWhileLoggingOn
CHECK_DEADLOCK FALSE
