SPECIFICATION Spec
CONSTANTS
  propose = propose  edit = edit  approve1 = approve1  approve2 = approve2
  execute1 = execute1  execute2 = execute2  None = None
  Requests = {propose, edit, approve1, approve2, execute1, execute2}
  Op <- MCOp
  TaskCount = 2
  Delegated = {1}
  Faults = {}
  MaxFaults = 0
  MaxActive = 2
INVARIANT
  OnlyApprovedTasks
CHECK_DEADLOCK FALSE
