SPECIFICATION FairSpec
CONSTANTS
  Player = {p1, p2, p3}
  Conn = {c1, c2}
  Name = {ann, bob}
  Residents = {ann}
  MaxLoggingOn = 1
  Exercised = {}
  None = None
PROPERTIES LogonEnds LeaverGoes PresenceSpec
INVARIANT AdmissionLimit
