SPECIFICATION FairSpec
CONSTANTS
  Tasks <- PairTasks
  Info <- StudyInfo
  InitState <- PairInit
  PartOf <- PairPartOf
  DependsOn <- PairDependsOn
  Requests <- StudyRequests
  Handlers = {h1, h2, h3}
  MaxInFlight = 3
  MayFail = FALSE
  MayMiss = {}
  StorePrincipal = "system"
INVARIANT
  LegalHistory
PROPERTIES
  CompositeRollsUp
  SuccessorReleased
  HandlersEnd
CHECK_DEADLOCK FALSE
