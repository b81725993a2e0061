SPECIFICATION Spec
CONSTANTS
  Tasks <- TreeTasks
  Info <- TreeInfo
  InitState <- TreeInit
  PartOf <- TreePartOf
  DependsOn <- TreeDependsOn
  Requests <- TreeRequests
  Handlers = {h1, h2, h3}
  MaxInFlight = 1
  MayFail = TRUE
  MayMiss = {"e", "p"}
  StorePrincipal = "system"
SYMMETRY HandlerSymmetry
INVARIANTS
  NotifiedOncePerCompletion
PROPERTIES
  ImplementsCompletionRules
CHECK_DEADLOCK FALSE
