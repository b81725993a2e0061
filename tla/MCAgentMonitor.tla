--------------------------- MODULE MCAgentMonitor ---------------------------
(***************************************************************************)
(* Two runs, of two agents.  With SameAgent they share one record.          *)
(***************************************************************************)
EXTENDS AgentMonitor

CONSTANTS r1, r2, a1, a2

OwnAgent == [r \in Runs |-> IF r = r1 THEN a1 ELSE a2]
SameAgent == [r \in Runs |-> a1]

\* One run sends a heartbeat, the other is shorter.
OneBeat == [r \in Runs |-> IF r = r1 THEN 1 ELSE 0]

-----------------------------------------------------------------------------
(* Promises the code does not keep.  RunningIsWatched, "agent not currently     *)
(* tracked (not running)", fails with AgentOf <- SameAgent: records are kept by *)
(* agent, and the first run to end takes the record of the other.               *)

\* A task whose agent delivered its result is not blocked for a timeout afterwards.
\* The monitor's event queues up behind the result: fails with Faults = {}.
ResultStands ==
  [][\A r \in Runs : state[r] = "NEEDS_REVIEW" => state'[r] = "NEEDS_REVIEW"]_vars

\* "When a sub-agent's heartbeat goes stale beyond the configured timeout", the monitor
\* "transitions the associated task to BLOCKED" (health_monitor.py), or its result does more.
\* _check_timeouts drops the record also when its event could not be published: fails with
\* Faults = {"report", "escalation"}, MaxFaults = 2.  So does a run of which every report
\* is lost: Faults = {"report"}.
StuckAreBlocked ==
  \A r \in Runs : (runner[r] = "over") ~> state[r] # "IN_PROGRESS"
=============================================================================
