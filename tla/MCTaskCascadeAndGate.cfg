SPECIFICATION Spec
CONSTANTS
  Tasks <- PairTasks
  Info <- PairInfo
  InitState <- PairInit
  PartOf <- PairPartOf
  DependsOn <- PairDependsOn
  Requests <- PairRequests
  Handlers = {h1, h2}
  MaxInFlight = 1
  MayFail = FALSE
  MayMiss = {}
  StorePrincipal = "system"
PROPERTY
  ReleasedAfterAllPredecessors
CHECK_DEADLOCK FALSE
