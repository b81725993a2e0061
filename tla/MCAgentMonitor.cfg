SPECIFICATION FairSpec
CONSTANTS
  r1 = r1  r2 = r2  a1 = a1  a2 = a2  None = None
  Runs = {r1, r2}
  AgentOf <- OwnAgent
  Faults = {"report", "escalation", "consume", "store", "crash"}
  MaxFaults = 2
  MaxBeats <- OneBeat
INVARIANTS
  RecordsOfOpenRuns
  RunningIsWatched
PROPERTIES
  NoTaskForgotten
  AgentsForgotten
CHECK_DEADLOCK FALSE
