SPECIFICATION FairSpec
CONSTANTS
  ann = ann
  bob = bob
  Channel = {1, 2, 3}
  Kept = {3}
  Main = 3
  Player = {ann, bob}
  JoinMax = 1
  Redos = 1
  Interest <- SomeInterest
  Exercised = {}
INVARIANTS TypeOK ListsAgree NothingLost
PROPERTY Synced
CHECK_DEADLOCK FALSE
