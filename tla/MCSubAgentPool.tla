--------------------------- MODULE MCSubAgentPool ---------------------------
(***************************************************************************)
(* Two turns, with two calls each; plans with one tier, which is what the   *)
(* planner returns when the query engine finds no edge, and with two;       *)
(* session prefixes that differ, as those of UUID sessions do, and that are *)
(* equal, as those of the sessions ses-000000 to ses-009999 are.            *)
(***************************************************************************)
EXTENDS SubAgentPool

CONSTANTS t1, t2, j1, j2, j3, j4

MCCalls == [t \in Turns |-> IF t = t1 THEN <<j1, j2>> ELSE <<j3, j4>>]
FlatTiers == [t \in Turns |-> IF t = t1 THEN <<{j1, j2}>> ELSE <<{j3, j4}>>]
OrderedTiers == [t \in Turns |-> IF t = t1 THEN <<{j1}, {j2}>> ELSE <<{j3, j4}>>]
SmallCalls == [t \in Turns |-> IF t = t1 THEN <<j1, j2>> ELSE <<j3>>]
SmallTiers == [t \in Turns |-> IF t = t1 THEN <<{j1}, {j2}>> ELSE <<{j3}>>]
OwnPrefix == [t \in Turns |-> t]
SamePrefix == [t \in Turns |-> "ses-0000"]

-----------------------------------------------------------------------------
(* Promises the code does not keep: each fails in the setting named, and       *)
(* every other constant as in MCPoolFlat.cfg.  So do four of SubAgentPool:       *)
(* RunAtMostOnce with Tiers <- OrderedTiers, because the coordinator publishes   *)
(* the next tier again; RefusedNeverRun with Tiers <- OrderedTiers and           *)
(* Refused = {j2}, because the stubs of all calls are registered;                *)
(* AnnouncedAfterAll with Prefix <- SamePrefix, because plans overwrite each     *)
(* other's batch; JobKeepsSession with MaxTurns = 2, because the session is read *)
(* from the orchestrator.  EndAnnounced fails with Refused = {j2}: the batch     *)
(* counts the call.                                                              *)

\* "tier N+1 starts after all jobs in tier N complete": a job is given to a runner
\* only when the jobs of the tiers before its own have ended.  The turn publishes
\* the jobs of every tier: fails with Tiers <- OrderedTiers.
TierOrder ==
  \A t \in Turns : \A i, k \in DOMAIN Tiers[t] :
    i < k => \A j \in Tiers[t][i], l \in Tiers[t][k] : RunsOf(l) # {} => Ended(j)

\* "overflow stays queued": a job that no slot is free for is in the broker, where
\* it survives a restart.  Fails with MaxSize = 1.
OverflowStaysQueued == permits = 0 => popped = NoJob

\* "DELEGATION_COMPLETE trigger -> process_chat_message()": the orchestrator is
\* woken up for every announcement.
OrchestratorReengaged == \A t \in Turns : (announced[t] > 0) ~> (t \in reengaged)
=============================================================================
