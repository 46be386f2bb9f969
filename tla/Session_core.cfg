SPECIFICATION Spec
CONSTANTS
  Player = {p1, p2, p3, p4}
  Conn = {c1, c2}
  Name = {ann, bob}
  Residents = {ann}
  MaxLoggingOn = 2
  Exercised = {"become", "unload"}
  None = None
SYMMETRY Perms
INVARIANTS TypeOK LoggingCounted PointersAgree NoLeak NewbieAlone
CHECK_DEADLOCK FALSE
