SPECIFICATION DSpec
CONSTANTS
  Tasks <- MCTasks
  Info <- MCInfo
  InitState <- MCInit
  PartOf <- MCPartOf
  DependsOn = {}
  Requests <- MCRequests
  Handlers = {h1, h2}
  MaxInFlight = 2
  MayFail = FALSE
  MayMiss = {}
  StorePrincipal = "system"
  Delegations = {"a", "b"}
  DelegatedTask <- MCDelegatedTask
SYMMETRY HandlerSymmetry
INVARIANTS
  CompletionIsAccounted
CHECK_DEADLOCK FALSE
