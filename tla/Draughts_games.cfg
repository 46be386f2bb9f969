SPECIFICATION Spec
CONSTANTS
  Player = {ann, bob, cat, dan}
  Game = {g1, g2}
  None = None
  AutoPrivate = {cat}
  MaxPlayed = 1
  Exercised = {}
SYMMETRY Perms
INVARIANTS PointersAgree ListIsPublic ScoresAddUp OnlyStatisticsCrash
CHECK_DEADLOCK FALSE
