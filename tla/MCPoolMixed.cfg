SPECIFICATION FairSpec
CONSTANTS
  t1 = t1  t2 = t2  j1 = j1  j2 = j2  j3 = j3  j4 = j4
  NoTurn = NoTurn  NoJob = NoJob
  Turns = {t1, t2}
  Calls <- SmallCalls
  Tiers <- SmallTiers
  Prefix <- SamePrefix
  Refused = {}
  MaxSize = 2
  MaxTurns = 2
  MaxFaults = 0
PROPERTY
  DelegationsEnd
CHECK_DEADLOCK FALSE
