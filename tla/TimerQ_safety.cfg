SPECIFICATION Spec
CONSTANTS
  b1 = b1
  b2 = b2
  Base <- TwoBases
  MoveWhenEmpty = {b1, b2}
  RunAllBase = {}
  FromEnd = {b2}
  Deletable = {b1, b2}
  Reach <- AnyReach
  Deletes <- AnyReach
  Node = {n1, n2, n3}
  MaxTime = 2
  MaxWalk = 2
  NoNode = NoNode
INVARIANTS Sorted LinkedOnce WalkCoversParked NoCrash
PROPERTY ServiceSpec
SYMMETRY NodePerms
