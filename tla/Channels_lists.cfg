SPECIFICATION Spec
CONSTANTS
  ann = ann
  bob = bob
  Channel = {1, 2, 3}
  Kept = {3}
  Main = 3
  Player = {ann}
  JoinMax = 1
  Redos = 0
  Interest <- AllInterest
  Exercised = {"stale"}
INVARIANTS NeverAborts
CHECK_DEADLOCK FALSE
