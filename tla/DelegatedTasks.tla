--------------------------- MODULE DelegatedTasks ---------------------------
(***************************************************************************)
(* TaskCascade together with the code that writes task rows without going  *)
(* through the state machine: the delegate_to_agent tool of the            *)
(* orchestrator and the handlers of a sub-agent's events, which set the    *)
(* state with a partial update_node.  What happens to a delegated job      *)
(* between the two is in modules SubAgentPool and AgentMonitor.            *)
(***************************************************************************)
EXTENDS TaskCascade

CONSTANTS
  Delegations,     \* delegate_to_agent calls
  DelegatedTask    \* DelegatedTask[g]: the task that g hands to an agent

ASSUME DelegationsAssumption ==
  /\ DelegatedTask \in [Delegations -> Tasks]
  /\ \A t \in Tasks : InitState[t] # "COMPLETE"

VARIABLES
  stage,   \* stage[g]: how far the delegation is
  seen     \* seen[g]: the copy of its task the tool read

dvars == <<stage, seen>>

Stage == {"none", "read", "running", "blocked", "ended"}

DTypeOK ==
  /\ TypeOK
  /\ stage \in [Delegations -> Stage]
  /\ seen \in [Delegations -> TaskRecord]

DInit ==
  /\ Init
  /\ stage = [g \in Delegations |-> "none"]
  /\ seen = [g \in Delegations |-> node[DelegatedTask[g]]]

Advance(g, from, to) == stage[g] = from /\ stage' = [stage EXCEPT ![g] = to]

\* Mutant: a result needs no review.
SetStateUnreviewed(t, s) ==
  node' = [node EXCEPT ![t].state = IF s = "BLOCKED" THEN s ELSE "COMPLETE"]

\* A partial update_node: only the named keys of the row change.
SetState(t, s) == node' = [node EXCEPT ![t].state = s]

OthersUnchanged == UNCHANGED <<pc, req, snap, todo, writes, parent, loaded, stack, notified>>

\* _tool_delegate_to_agent reads the task; the catalogue and manifest lookups
\* that follow are awaits.
ReadForDelegation(g) ==
  /\ Advance(g, "none", "read")
  /\ seen' = [seen EXCEPT ![g] = node[DelegatedTask[g]]]
  /\ UNCHANGED node
  /\ OthersUnchanged

\* It then sets IN_PROGRESS whatever the task's state, with the history it
\* read plus one entry.  No guard of the state machine is asked.
Delegate(g) ==
  LET t == DelegatedTask[g] IN
  /\ Advance(g, "read", "running")
  /\ node' = [node EXCEPT ![t] =
       [state |-> "IN_PROGRESS",
        hist  |-> Append(seen[g].hist, [from |-> seen[g].state,
                                        to |-> "IN_PROGRESS", by |-> "AGENT"])]]
  /\ UNCHANGED seen
  /\ OthersUnchanged

\* _handle_agent_blocked: a failed run first announces that it is blocked.
AgentBlocked(g) ==
  /\ Advance(g, "running", "blocked")
  /\ SetState(DelegatedTask[g], "BLOCKED")
  /\ UNCHANGED seen
  /\ OthersUnchanged

\* process_agent_result for a run that failed, after its BLOCKED event.
AgentFailed(g) ==
  /\ Advance(g, "blocked", "ended")
  /\ SetState(DelegatedTask[g], "BLOCKED")
  /\ UNCHANGED seen
  /\ OthersUnchanged

\* process_agent_result for a run that completed.
AgentCompleted(g) ==
  /\ Advance(g, "running", "ended")
  /\ SetState(DelegatedTask[g], "NEEDS_REVIEW")
  /\ UNCHANGED seen
  /\ OthersUnchanged

DNext ==
  \/ Next /\ UNCHANGED dvars
  \/ \E g \in Delegations : \/ ReadForDelegation(g)
                            \/ Delegate(g)
                            \/ AgentBlocked(g)
                            \/ AgentFailed(g)
                            \/ AgentCompleted(g)

DSpec == DInit /\ [][DNext]_<<vars, dvars>>

-----------------------------------------------------------------------------
Last(hist) == hist[Len(hist)]

\* Whatever agents, overlapping handlers and stale rows do to a task, it never
\* stands as COMPLETE without a last history entry saying who completed it, and
\* an APPROVAL task never without a person (_guard_approval_auto_resolve).
CompletionIsAccounted ==
  \A t \in Tasks : node[t].state = "COMPLETE" =>
    /\ node[t].hist # <<>>
    /\ Last(node[t].hist).to = "COMPLETE"
    /\ Last(node[t].hist).by \in {"HUMAN", "CASCADE"}
    /\ Info[t].type = "APPROVAL" => Last(node[t].hist).by = "HUMAN"
=============================================================================
