SPECIFICATION ServicesSpec
CONSTANTS
  propose = propose  edit = edit  approve1 = approve1  approve2 = approve2
  execute1 = execute1  execute2 = execute2  None = None
  Requests = {propose, edit, approve1, approve2, execute1, execute2}
  Op <- MCOp
  TaskCount = 2
  Delegated = {1}
  Faults = {"create", "followup", "delete", "save", "cancel", "crash"}
  MaxFaults = 2
  MaxActive = 1
  Briefing = briefing
  BriefingAt = 0
  CronTimes = {0, 1}
  Day = 2
  MaxTime = 2
  Calls = {c1, c2}
  SeenMax = 2
  SeenTrim = 1
  Glitches = {"publish", "refused", "error", "restart"}
  MaxGlitches = 1
  Nothing = Nothing
  Jobs = {"a", "b", "c"}
  TaskOf <- MCTaskOf
  SignIns = {1, 2, 3}
  Subject <- MCSubject
  Email <- MCEmail
  Nobody = Nobody
  Upsets = {"step", "undo", "crash"}
  MaxUpsets = 2
  Answers = {1, 2, 3}
  Polls = 2
  Failures = {"store", "parse", "crash"}
SYMMETRY Symmetry
INVARIANTS
  OnlyApprovedTasks
  AllOrNothing
  ExecutedOnce
  FiredOncePerDay
  SavedAsRegistered
  ProvisionedWhole
  OneUserPerIdentity
  CalledAsApproved
  EachJobInOneTier
  TiersRespectEdges
  TiersAreTight
PROPERTY
  ExecutedIsFinal
\* Every part may come to rest: the plan is executed, the clock ends, every sign-in and
\* every write is done.
CHECK_DEADLOCK FALSE
