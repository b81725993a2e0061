---------------------------- MODULE AgentMonitor ----------------------------
(***************************************************************************)
(* What becomes of a delegated task while and after a sub-agent runs it:   *)
(* SubAgentRunner.execute reports to the AGENT_UPDATES queue, the          *)
(* AgentEventConsumer takes the reports one after the other, and the       *)
(* AgentHealthMonitor blocks the task of an agent it has not heard of for   *)
(* heartbeat_timeout seconds.                                              *)
(***************************************************************************)
EXTENDS Integers, Sequences, FiniteSets

CONSTANTS
  Runs,       \* the jobs that the pool runs, each once, for a task of its own
  AgentOf,    \* AgentOf[r]: its agent, under which the monitor keeps its record
  Faults,     \* what may fail, of FaultKinds
  MaxFaults,  \* bound: how often
  MaxBeats,   \* bound, for each run: its heartbeats and progress reports
  None

Agents == {AgentOf[r] : r \in Runs}

\* A report of a run or an escalation of the monitor cannot be published; the consumer
\* cannot wait for its queue; the store refuses an update; the process stops.
FaultKinds == {"report", "escalation", "consume", "store", "crash"}

ASSUME MonitorAssumption ==
  /\ DOMAIN AgentOf = Runs /\ None \notin Runs
  /\ Faults \subseteq FaultKinds
  /\ MaxFaults \in Nat /\ MaxBeats \in [Runs -> Nat]

VARIABLES
  runner,     \* where execute is
  beats,      \* the heartbeats each run has sent
  updates,    \* AGENT_UPDATES, oldest first
  handling,   \* the update whose store call the consumer awaits
  records,    \* AgentHealthMonitor._records, by agent
  sweep,      \* the records that _check_timeouts has still to escalate
  escalating, \* the one whose BLOCKED event has been published
  state,      \* the state of the task of each run
  reported,   \* the runs whose COMPLETED has been taken
  listening,  \* the consumer's loop has not ended
  faults      \* what has failed, and how much more may

vars == <<runner, beats, updates, handling, records, sweep, escalating, state, reported,
          listening, faults>>

Update == [type : {"started", "heartbeat", "blocked", "completed"}, run : Runs,
           status : {"COMPLETED", "FAILED", "none"}]

ASSUME NoneAssumption == None \notin Update

\* A record names the run that was heard of last; silent: longer ago than the timeout.
Record == [run : Runs, silent : BOOLEAN]

Fault(kind) == /\ kind \in Faults /\ faults.left > 0
               /\ faults' = [kinds |-> faults.kinds \cup {kind}, left |-> faults.left - 1]

Happened(kinds) == faults.kinds \cap kinds # {}

\* Mutant: the record is kept under the run.
HeardByRun(r) == [a \in DOMAIN records \cup {r} |->
                    IF a = r THEN [run |-> r, silent |-> FALSE] ELSE records[a]]

\* remove_agent and record_heartbeat.
Forget(a) == [b \in DOMAIN records \ {a} |-> records[b]]
Heard(r) == [a \in DOMAIN records \cup {AgentOf[r]} |->
               IF a = AgentOf[r] THEN [run |-> r, silent |-> FALSE] ELSE records[a]]

Init ==
  /\ runner = [r \in Runs |-> "queued"]
  /\ beats = [r \in Runs |-> 0]
  /\ updates = <<>>
  /\ handling = None
  /\ records = [a \in {} |-> None]
  /\ sweep = {} /\ escalating = None
  /\ state = [r \in Runs |-> "IN_PROGRESS"]
  /\ reported = {}
  /\ listening = TRUE
  /\ faults = [kinds |-> {}, left |-> MaxFaults]

\* An update is published; one that cannot be is logged.
Publish(type, r, status, fault) ==
  \/ updates' = Append(updates, [type |-> type, run |-> r, status |-> status]) /\ UNCHANGED faults
  \/ Fault(fault) /\ UNCHANGED updates

\* _emit_update of the runner.
Emit(type, r, status) == Publish(type, r, status, "report")

-----------------------------------------------------------------------------
(* SubAgentRunner.execute *)

Start(r) ==
  /\ runner[r] = "queued"
  /\ runner' = [runner EXCEPT ![r] = "running"]
  /\ Emit("started", r, "none")
  /\ UNCHANGED <<beats, handling, records, sweep, escalating, state, reported, listening>>

\* Mutant: the heartbeat task is not cancelled when the work has ended.
BeatOn(r) ==
  /\ runner[r] \in {"running", "over"} /\ beats[r] < MaxBeats[r]
  /\ beats' = [beats EXCEPT ![r] = @ + 1]
  /\ Emit("heartbeat", r, "none")
  /\ UNCHANGED <<runner, handling, records, sweep, escalating, state, reported, listening>>

\* _heartbeat_loop; a progress report has the same effect.
Beat(r) ==
  /\ runner[r] = "running" /\ beats[r] < MaxBeats[r]
  /\ beats' = [beats EXCEPT ![r] = @ + 1]
  /\ Emit("heartbeat", r, "none")
  /\ UNCHANGED <<runner, handling, records, sweep, escalating, state, reported, listening>>

\* The work ends, or fails or times out; the heartbeat task has been cancelled.
EndWork(r) ==
  /\ runner[r] = "running"
  /\ \E end \in {"succeeded", "failed"} : runner' = [runner EXCEPT ![r] = end]
  /\ UNCHANGED <<beats, updates, handling, records, sweep, escalating, state, reported,
                 listening, faults>>

\* A failure is reported as BLOCKED first.
ReportBlocked(r) ==
  /\ runner[r] = "failed"
  /\ runner' = [runner EXCEPT ![r] = "blocked"]
  /\ Emit("blocked", r, "none")
  /\ UNCHANGED <<beats, handling, records, sweep, escalating, state, reported, listening>>

ReportCompleted(r) ==
  /\ runner[r] \in {"succeeded", "blocked"}
  /\ runner' = [runner EXCEPT ![r] = "over"]
  /\ Emit("completed", r, IF runner[r] = "succeeded" THEN "COMPLETED" ELSE "FAILED")
  /\ UNCHANGED <<beats, handling, records, sweep, escalating, state, reported, listening>>

-----------------------------------------------------------------------------
(* AgentEventConsumer._consume_agent_updates_loop *)

\* Mutant: a BLOCKED update is only acted on when the agent is tracked.
TakeTrackedUpdate ==
  LET u == Head(updates) IN
  /\ listening /\ handling = None /\ updates # <<>>
  /\ updates' = Tail(updates)
  /\ IF u.type \in {"started", "heartbeat"}
     THEN records' = Heard(u.run) /\ UNCHANGED <<handling, reported>>
     ELSE /\ records' = Forget(AgentOf[u.run])
          /\ handling' = IF AgentOf[u.run] \in DOMAIN records THEN u ELSE None
          /\ reported' = IF u.type = "completed" THEN reported \cup {u.run} ELSE reported
  /\ UNCHANGED <<runner, beats, sweep, escalating, state, listening, faults>>

\* _handle_agent_update: a sign of life renews the agent's record; the end of a run,
\* or a block, drops it and goes on to the task.
TakeUpdate ==
  LET u == Head(updates) IN
  /\ listening /\ handling = None /\ updates # <<>>
  /\ updates' = Tail(updates)
  /\ IF u.type \in {"started", "heartbeat"}
     THEN records' = Heard(u.run) /\ UNCHANGED <<handling, reported>>
     ELSE /\ records' = Forget(AgentOf[u.run])
          /\ handling' = u
          /\ reported' = IF u.type = "completed" THEN reported \cup {u.run} ELSE reported
  /\ UNCHANGED <<runner, beats, sweep, escalating, state, listening, faults>>

\* process_agent_result, and the update of _handle_agent_blocked; an error of the
\* store is logged.
ApplyUpdate ==
  /\ handling # None
  /\ handling' = None
  /\ \/ /\ state' = [state EXCEPT ![handling.run] =
                       IF handling.status = "COMPLETED" THEN "NEEDS_REVIEW" ELSE "BLOCKED"]
        /\ UNCHANGED faults
     \/ Fault("store") /\ UNCHANGED state
  /\ UNCHANGED <<runner, beats, updates, records, sweep, escalating, reported, listening>>

\* An error of the broker while the loop waits for its next update ends the loop.
LoopFails ==
  /\ Fault("consume")
  /\ listening /\ handling = None
  /\ listening' = FALSE
  /\ UNCHANGED <<runner, beats, updates, handling, records, sweep, escalating, state, reported>>

-----------------------------------------------------------------------------
(* AgentHealthMonitor *)

\* heartbeat_timeout seconds go by without an update from the agent.
Silence(a) ==
  /\ a \in DOMAIN records /\ ~records[a].silent
  /\ records' = [records EXCEPT ![a].silent = TRUE]
  /\ UNCHANGED <<runner, beats, updates, handling, sweep, escalating, state, reported,
                 listening, faults>>

\* _check_timeouts picks the silent records.  (escalated is set on them and never
\* read: this sweep drops them before the next begins.)
Check ==
  /\ sweep = {} /\ escalating = None
  /\ sweep' = {records[a].run : a \in {b \in DOMAIN records : records[b].silent}}
  /\ sweep' # {}
  /\ UNCHANGED <<runner, beats, updates, handling, records, escalating, state, reported,
                 listening, faults>>

\* The call of the state machine does not fit its signature and its error is
\* logged; the BLOCKED event is published, or not: either way the record goes next.
Escalate(r) ==
  /\ r \in sweep /\ escalating = None
  /\ escalating' = r
  /\ sweep' = sweep \ {r}
  /\ Publish("blocked", r, "none", "escalation")
  /\ UNCHANGED <<runner, beats, handling, records, state, reported, listening>>

\* The agent's record is dropped, whichever it is by now.
Drop ==
  /\ escalating # None
  /\ records' = Forget(AgentOf[escalating])
  /\ escalating' = None
  /\ UNCHANGED <<runner, beats, updates, handling, sweep, state, reported, listening, faults>>

\* The process stops; the queue and the tasks stay.
Crash ==
  /\ Fault("crash")
  /\ runner' = [r \in Runs |-> IF runner[r] = "queued" THEN "queued" ELSE "over"]
  /\ handling' = None
  /\ records' = [a \in {} |-> None]
  /\ sweep' = {} /\ escalating' = None
  /\ listening' = TRUE
  /\ UNCHANGED <<beats, updates, state, reported>>

-----------------------------------------------------------------------------
RunStep(r) == Start(r) \/ EndWork(r) \/ ReportBlocked(r) \/ ReportCompleted(r)
MonitorStep == Check \/ (\E r \in Runs : Escalate(r)) \/ Drop

Next == \/ \E r \in Runs : RunStep(r) \/ Beat(r)
        \/ TakeUpdate \/ ApplyUpdate \/ LoopFails
        \/ \E a \in Agents : Silence(a)
        \/ MonitorStep
        \/ Crash

Spec == Init /\ [][Next]_vars

\* execute is bounded by its timeout; the consumer and the monitor are loops; time
\* goes by for an agent that says nothing.
FairSpec == /\ Spec
            /\ \A r \in Runs : WF_vars(RunStep(r))
            /\ WF_vars(TakeUpdate) /\ WF_vars(ApplyUpdate)
            /\ \A a \in Agents : WF_vars(Silence(a))
            /\ WF_vars(MonitorStep)

-----------------------------------------------------------------------------
TypeOK ==
  /\ runner \in [Runs -> {"queued", "running", "succeeded", "failed", "blocked", "over"}]
  /\ beats \in [Runs -> Nat] /\ \A r \in Runs : beats[r] <= MaxBeats[r]
  /\ updates \in Seq(Update)
  /\ handling \in Update \cup {None}
  /\ DOMAIN records \subseteq Agents
  /\ \A a \in DOMAIN records : records[a] \in Record /\ AgentOf[records[a].run] = a
  /\ sweep \subseteq Runs
  /\ escalating \in Runs \cup {None}
  /\ state \in [Runs -> {"IN_PROGRESS", "NEEDS_REVIEW", "BLOCKED"}]
  /\ reported \subseteq Runs
  /\ listening \in BOOLEAN
  /\ faults \in [kinds : SUBSET Faults, left : 0..MaxFaults]

\* No agent is brought back into monitoring by a late sign of life: a record is of
\* an agent with a run that was started and whose end has not been taken.
RecordsOfOpenRuns ==
  \A a \in DOMAIN records :
    \E r \in Runs : AgentOf[r] = a /\ runner[r] # "queued" /\ r \notin reported

\* A run under way is never given up in silence: its agent has a record, or an update
\* of it is on its way to the consumer, or its task has been blocked; unless an
\* update was lost, the store failed or the process stopped.  Agents run one job at a time.
RunningIsWatched ==
  \A r \in Runs : runner[r] = "running" =>
    \/ AgentOf[r] \in DOMAIN records
    \/ \E i \in DOMAIN updates : updates[i].run = r
    \/ handling # None /\ handling.run = r
    \/ state[r] = "BLOCKED"
    \/ Happened({"report", "escalation", "store", "crash"})

Heeded(r) == AgentOf[r] \in DOMAIN records \/ \E i \in DOMAIN updates : updates[i].run = r

\* The task of a run of which one update has reached the queue does not stay IN_PROGRESS,
\* whichever other reports of the run are lost: then the monitor notices.  (Not so when the
\* escalation is lost too, when the store refuses the update, when the consumer's loop has
\* ended, or after a restart, which forgets the records.)
NoTaskForgotten ==
  \A r \in Runs : Heeded(r) ~> \/ state[r] # "IN_PROGRESS"
                               \/ Happened({"escalation", "store", "consume", "crash"})

\* No record outlives its agent's runs.
AgentsForgotten ==
  (\A r \in Runs : runner[r] = "over") ~> (DOMAIN records = {} /\ sweep = {})
=============================================================================
