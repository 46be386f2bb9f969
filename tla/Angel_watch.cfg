SPECIFICATION FairSpec
CONSTANTS
  MinTimeHalt = 1
  MaxTimeHalt = 4
  RebootLimit = 2
  TimeoutBoot = 3
  TimeoutAngel = 2
INVARIANT TypeOK
PROPERTIES NobodyKillsTheLiving Replaced TalkerKnows
