SPECIFICATION FairSpec
CONSTANTS
  b1 = b1
  b2 = b2
  Base <- TwoBases
  MoveWhenEmpty = {b1, b2}
  RunAllBase = {b1}
  FromEnd = {b2}
  Deletable = {}
  Reach <- OwnReach
  Deletes <- NoReach
  Node = {n1, n2}
  MaxTime = 3
  MaxWalk = 2
  NoNode = NoNode
INVARIANT FirstIsLowest
PROPERTIES DueLeaves
