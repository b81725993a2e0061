SPECIFICATION FairSpec
CONSTANTS
  t1 = t1  t2 = t2  j1 = j1  j2 = j2  j3 = j3  j4 = j4
  NoTurn = NoTurn  NoJob = NoJob
  Turns = {t1}
  Calls <- MCCalls
  Tiers <- FlatTiers
  Prefix <- OwnPrefix
  Refused = {}
  MaxSize = 2
  MaxTurns = 1
  MaxFaults = 0
PROPERTY
  OrchestratorReengaged
CHECK_DEADLOCK FALSE
