# Verification of graphclaw

TLA+ models of the core of graphclaw: the task graph and its state machine, chat turns in the
shared orchestrator, the delegation of tasks to sub-agents, the plans an agent proposes and
executes, what an agent keeps in files, and the services around them: triggers, sign-in, the
distillation outbox, gated tools.
TLC checks them on small instances; TLAPS proves the theorems listed below for every value of
the constants.

Source paths are relative to `src/src/graphclaw/` unless they start with `src/`.

- [The system](#the-system)
- [What is hard](#what-is-hard)
- [Modules](#modules)
- [Runs](#runs)
- [Bounds](#bounds)
- [Fairness](#fairness)
- [Proofs](#proofs)
- [Findings](#findings)
- [Known counterexamples](#known-counterexamples)
- [Not modelled](#not-modelled)
- [Plan](#plan)

## The system

One gateway process (`gateway/app.py`) hosts everything: HTTP routes, one `MainOrchestrator`
that serves every chat turn, a pool of sub-agent runners, background loops. All of it is
asyncio code on one event loop, so an action in these models is what the code does between two
awaits, and everything else may happen at an await. State is in four places: the graph store
(PostgreSQL with AGE), the Redis lists used as queues (`AGENT_JOBS`, `AGENT_UPDATES`,
`TRIGGER_EVENTS`), the object storage, and fields of the long-lived Python objects, which a
restart loses.

| Component | State | Operations | Must be true |
|---|---|---|---|
| Task state machine (`state/machine.py`, `state/transitions.py`) | none; a task's `state` and `state_history` | `transition` with its guards | the history is a chain of permitted transitions |
| Lifecycle API and cascade (`api/state.py`, `api/approvals.py`, `state/cascade.py`) | task rows; copies in handlers | transition, approve, deny, `update_task_state`; activation of successors, roll-up of parents, notification | what is stored is a life the machine permits; a composite completes when its gate says so, once; a successor is released when all it waits for is complete; handlers end |
| Delegated results (`agent/result_collector.py`, `agent/delegation.py`, `agent/event_consumer.py`) | task rows | delegate, blocked, completed | nobody but a person or the cascade completes a task |
| Dispatch planner (`agent/dispatch_planner.py`) | local | edge query, Kahn's tiers, cycle remainder | each job in one tier, behind what it depends on |
| Sub-agent pool, batch coordinator (`agent/sub_agent_pool.py`) | semaphore, counters, batches | register, consume, run, count, publish the next tier or `DELEGATION_COMPLETE` | no slot is lost; a job runs once; the end is announced once, after the last job |
| Runner, updates consumer, health monitor (`agent/sub_agent_runner.py`, `agent/event_consumer.py`, `agent/health_monitor.py`) | records of agents heard of | started, heartbeat, blocked, completed; sweep, escalate | a lost report does not leave a task `IN_PROGRESS`; a dead record stays dead |
| Plan tools (`agent/main_orchestrator.py`) | `_pending_plans`, plan files, nodes | propose, edit, approve, execute with rollback | only approved tasks are created, all or none, once; a cancelled call does not spoil the next |
| Chat API and turns (`api/chat.py`, `api/chat_streaming.py`, `agent/main_orchestrator.py`, `agent/tool_registry.py`) | history objects; session, caller, tool sets and planned calls of the orchestrator | send, stream, clear; the tool loop; channel messages; scoring cycles | a turn acts as itself; the history keeps whole exchanges; a stream ends with one terminal event; every turn ends |
| Trigger engine (`triggers/`, `api/agent.py`) | registry, dedup keys, saved schedule | due check, publish, advance; create, update, snooze, resume, delete, save; load | each due trigger once a day and none skipped; what is registered is what is saved, and what is saved for the gateway's user and agent is what a restart loads |
| User provisioning (`auth/provisioning.py`) | users, markers, workspaces, edges, profiles | find, create, roll back | a whole user or nothing; one user for an account or address |
| Distillation (`distillation/`, `workers/distillation_worker.py`) | outbox rows, nodes, files | enqueue, apply, mark, retry | each line applied once, none starved |
| Gated approval (`mcp/approval.py`, `mcp/client.py`, `agent/escalation.py`) | approval task | ask, poll, time out, answer, escalate | an approved call is made, a refused one is not |
| Purge worker, storage locks (`workers/purge_worker.py`, `infra/storage_locks.py`) | lock rows and files | acquire, purge, cancel, release | one owner; a cancelled purge does not happen |
| Skill worker pool (`skills/`) | worker states | choose, call, heartbeat | a worker serves one call; failed ones come back |
| Working memory (`agent/compaction.py`, `agent/distillation.py`, `inbound/intelligence_agent.py`, `api/intelligence.py`) | `context.md` and its archive, the intelligence of a node, semantic topics and their index | append, replace, compact; write, rename, delete a topic, add a fact | no update loses another's note; the index names the topics there are |
| Agent definitions (`api/agents.py`, `agent/main_orchestrator.py`) | definition, versions, runtime files | create, patch, delete, configure | what a patch replaces is kept, and nothing of an agent that is gone |
| Inbound, outbound, escalation (`inbound/`, `agent/`) | channels | LLM calls around single store calls | - |
| Graph store, broker, object storage, secrets (`db/`, `infra/`) | external systems | clients | as the handlers meet them |
| Scoring, identity, cross-tenant index, compliance, migrations, auth, A2A, connectors, CLI, admin, notifications | see `PROJECT.json` | | |

How they meet. A chat turn (`process_chat_message`) asks the LLM, which may call
`delegate_to_agent` several times: the planner tiers the calls, the coordinator registers the
tiers as batches, each call sets its task `IN_PROGRESS` and publishes a job. The pool pops jobs,
runs `max_size` of them, and counts their ends by batch; the last end of a tier publishes the
next tier or `DELEGATION_COMPLETE`. While it runs, a sub-agent reports to `AGENT_UPDATES`; the
consumer feeds the health monitor and writes the task's state through the result collector. The
monitor publishes `BLOCKED` for agents it has not heard of. People complete and approve tasks
through the API at the same time, which runs the cascade on the same rows. Before its turn a
request reads the user's chat history, after it it writes it back; between the two other turns
of the same and of other users run in the same orchestrator object. The trigger engine publishes
what starts turns by itself. A gated tool of an MCP server makes its caller wait for a person's
answer, which is an approval task like any other. The sign-in, the outbox and the trigger
registry share no state with these. What agents learn on the way goes to objects that the consumer,
the runners, the result collector, the orchestrator's tools and the routes read and write whole.

## What is hard

`PROJECT.json` lists 40 hazards, each at its line. The kinds that shape the models:

- **Stale copies.** Handlers read a row, await, and write the whole row back without a version
  check (`db/age/repository.py:256`). The plan tools share one dict that others change in place.
  The memory files of an agent have several writers, and the one lock there is holds one kind apart.
- **One thing in several objects.** A topic and its index, a definition and its versions are written
  one after the other, by calls that overlap.
- **State of one turn on a shared object.** `MainOrchestrator._current_session_id`,
  `_current_caller_context`, `_turn_delegation_calls` and the active tool sets are fields of the
  object that serves all turns.
- **Memory ahead of storage.** The trigger registry changes, then the save is awaited, and may be
  refused while the scheduled loop reschedules the same trigger; a dedup key is remembered before
  the publish.
- **Doing and undoing in steps.** A sign-in writes a user, a marker, a workspace and an edge, and
  undoes them last first; a worker writes a line and then marks its row.
- **Late and reordered reports.** Results, heartbeats and the monitor's own events queue up
  behind one another; records are kept by agent although runs are what reports are about.
- **Partial failure.** A store call fails in mid-cascade, a create in mid-plan, a publish after
  the batch was counted, a broker connection under a loop that nothing restarts.
- **Cancellation.** A streamed turn whose client goes away is cancelled at an await; `CancelledError`
  passes the handlers that catch `Exception`, and what they would undo stays.
- **Restart.** Jobs popped and waiting for a slot, batches, records and running plans are in
  memory only.

## Modules

| Module | Models | Notes |
|---|---|---|
| `StateMachine` | `VALID_TRANSITIONS`, the guards, `transition`, the in-memory drives of a task along a path | pure operators; `LegalRecord` is the reference for what a history may be |
| `CompletionRules` | abstract: who may complete what, and what may be released | no handlers, no copies |
| `TaskCascade` | the handlers of transition, approve, deny and the agent's tool, `persist_transition_and_cascade`, the nested `run_post_transition_cascade` | `Begin` reads, `Apply` parses the row, walks the state machine and writes; one action per awaited read or write of the cascade; `stack` is the recursion; `Fail` is an exception or a stop at any await; a dependent, a child or a parent that is missing or does not parse (`MayMiss`) is passed over |
| `DelegatedTasks` | the writes that go round the state machine: `delegate_to_agent`, blocked, failed and completed results | extends `TaskCascade` and interleaves with all of it |
| `DispatchPlanner` | `AgentDispatchPlanner.plan` | one action per edge query and per tier |
| `FanIn` | abstract: a job at most once, the announcement once and last | |
| `SubAgentPool` | turns of the orchestrator, `BatchCoordinator`, `SubAgentPool`, the two queues, the consumer of `TRIGGER_EVENTS`, failing publishes, loops ended by a broker error, restarts | `Tiers` is what the planner returns, checked in `DispatchPlanner` |
| `AgentMonitor` | the reports of `SubAgentRunner.execute`, `AgentEventConsumer._handle_agent_update`, `AgentHealthMonitor` | time is one bit per record: silent for longer than the timeout |
| `PlanLifecycle` | `propose_plan`, `edit_plan`, `approve_plan`, `execute_plan` with `create_goal`, `create_task`, the follow-ups and the rollback; the cancellation of a call at any await | a plan's title and tasks are each the request that wrote them; dicts have identity, as in Python; a cancelled or stopped call is `cut` |
| `ChatTurn` | `send_chat_message`, `send_chat_message_stream` with `stream_chat_run`, `clear_chat_history`, and inside the orchestrator `process_chat_message`, its streamed form, `run_cycle`, the planning and the delegation calls, `ToolRegistry` | one action per await; which fields a step takes over is `Claim`, `Plan`, `LoadToolSet` |
| `TriggerEngine` | `TriggerEngine`, `TriggerScheduler`, the trigger routes of `api/agent.py`, `triggers/persistence.py`, the load in `gateway/app.py` | a clock of a few ticks a day; the saved schedule and the follow-up days are one record, as in the user's preferences; `served` says whether the user is the one whose triggers the gateway loads, `own` whether a trigger is of its agent |
| `Provisioning` | `UserProvisioningService.provision_new_user` and how the OAuth callback ends | what a sign-in creates is named by the sign-in |
| `DistillationOutbox` | `DistillationOutbox`, `DistillationWorker.run_once` | a target is the sequence of lines it was given |
| `GatedApproval` | the gated branch of `MCPClient.call_tool`, `GatedApprovalService`, the approval routes, the route that moves any task, and `EscalationService` on the approval task | extends `StateMachine` for what an answer may do; `BLOCKED` is polled as a refusal; approve, deny and the escalation may fail to parse the row |
| `AgentMemory` | what `InboundIntelligenceAgent.process`, `DistillationHelper`, `_append_outbound_intelligence`, the notes of `SubAgentRunner` and `ResultCollector`, `delegate_to_agent`, the `PUT` route and `compact_working_memory` do to an agent's context, its archive and the intelligence of a node | a note is named by the update that brought it; one action per awaited read or write |
| `SemanticMemory` | the topic routes of `api/intelligence.py` with their index helpers, `_write_semantic_fact`, the stub of `_provision_runtime_agent` | a file is the set of calls whose text it has |
| `AgentCatalog` | create, patch, delete and `PUT` config of `api/agents.py`, `_provision_runtime_agent`, the `create_agent` tool | calls about one agent; a definition is its version and the calls whose values it has, a snapshot is a definition |
| `MC*` | constants for TLC, promises the code does not keep | |
| `TaskCascade_proofs`, `SubAgentPool_proofs`, `AgentMonitor_proofs`, `PlanLifecycle_proofs`, `ChatTurn_proofs`, `DispatchPlanner_proofs`, `Services_proofs`, `AgentFiles_proofs` | TLAPS proofs | the last two of the parts and the compositions that TLC runs (`MCServices`, `MCAgentFiles`); the outbox is in the latter |

`PROJECT.json` maps each definition to its lines. How state corresponds:

- `TaskCascade.node` is the store, `snap[h]` the Python objects handler `h` holds, `todo`,
  `writes` and `parent` the loop variables of `activate_next_in_chain`,
  `run_post_transition_cascade` and `_load_children_for_parent`. A task is its state and its
  history; what guards read besides (`TaskInfo`) does not change here. Every caller passes
  `ChangedBy.HUMAN`, hence `RequestActor`.
- `SubAgentPool.batches` is `_batches`, keyed by `<<session_id[:8], tier>>` as the planner builds
  ids; `popped` is the local `job` of `_consume_loop` while it waits for the semaphore; `runs`
  are the `_run_job` tasks in the order of their runner ids.
- `AgentMonitor.records` is `_records`, by agent; `handling` is the update whose store call the
  consumer is awaiting.
- `ChatTurn.session`, `caller`, `active` and `planned` are `_current_session_id`,
  `_current_caller_context`, `ToolRegistry._active_sets` and `_turn_delegation_calls`, each named by
  the turn it is of; `turn[t]` holds the locals of a request, and `turn[t].job` the last job it
  published, with the fields it was made from. `_load_history` and the turn's first steps are one
  action, because nothing is shared between them. A stream shows text before its answer is whole
  (`Shown`), and what was shown is saved even if the run then fails (`chat_streaming.py:136-171`).
  `_current_conversation_history`, which only the
  onboarding tool reads, is left out.
- `TriggerEngine.loop` are the locals of `_scheduled_trigger_loop` (`now`, the rest of `due`);
  `call[c].undo` is the `cfg` a route restores.
- `Provisioning.signIn[s].undo` is `_rollback_steps`.
- `DistillationOutbox.worker[w].batch` is what `list_pending` has returned, with the retries of then;
  `Pending` is the set of answers the query may give, as rows may have the same `created_at`.
- `AgentMemory.update[u]` holds the locals of an update: the copy of the context or of the archive
  (`read`), of the node's lines, then what is cut from them (`lines`). Words are counted as lines:
  `Cap` stands for 500 words. The agents share no context, so that the kinds that go to the
  communications agent and to the agent of the chat do not meet.
- `SemanticMemory.writer[w].old` is the index as read; `AgentCatalog.client[c].left` and `trash` are
  the keys listed and not yet deleted.
- `PlanLifecycle.objects` are the dicts in memory, `cache` the one `_pending_plans` names, and
  `handler[r].created` is `created_node_ids`.

Choices made for the code as it is, not as documented: the health monitor's call of the
state machine does not fit its signature and only logs an error, so `Escalate` publishes and
changes nothing else; the `escalated` flag of its records is never read when it matters, because
the sweep that sets it drops the record; the query engine in production has no edge query, so
the plans it makes have one tier (the `pool_flat` run), and multi-tier plans are what the planner
would return with one (`pool_mixed` and the counterexamples); `emit_notification` swallows its
errors and the tools' exceptions become results of the tool, so that neither ends a turn;
`process_counterparty_turn` has no caller and is left out; in production nothing starts the
distillation worker or the escalation service, which are modelled as they are written to be run.

Ghost variables keep what a property excepts, and each is the shadow of a counterexample below:
`mixed` (turns that met in the orchestrator), `torn` (calls that overlapped, or a store that raised),
`forgotten` (how often each key was trimmed or lost with the process; what was `published` is kept
across restarts), the calls and requests that are `cut`,
`met` and `halved` (sign-ins that overlapped; that stopped half-way), `unmarked` and `spoilt`
(rows that could not be marked; targets in two workers' hands), `crossed` (decisions that
overlapped), `AgentMemory.stale` (updates whose copy was overtaken), `loose` (topics two calls had
in hand, or a failed one left half done), `holed` (a creation or deletion met, a write failed) and
`overtaken` (a patch replaced a definition it had not read; `past` are those replaced).

## Runs

| Run | Shows |
|---|---|
| `cascade_serial` | One request at a time on a tree (a milestone over a composite over a task and an approval, two dependency edges), the store failing anywhere, a successor and the composite missing or unreadable at any read. The handlers implement `CompletionRules`; a composite is announced at most once for each completion. |
| `cascade_overlap` | Three overlapping requests, each of six, on a composite with a child that can be reopened and a task that waits for both children. Histories stay legal; a composite whose children stay complete is resolved; a successor does not wait for ever once all it waits for is complete; every handler ends. |
| `cascade_and_gate` | Violation: a task with two predecessors is activated after the first (`ReleasedAfterAllPredecessors`). |
| `delegated_tasks` | With agents' writes, overlapping people and cascades: `COMPLETE` is always the last history entry, by a person or the cascade, and by a person for an approval (`CompletionIsAccounted`). The history itself is not legal here; see the counterexamples. |
| `pool_flat` | One turn after another with one-tier plans, two faults among failing publishes, ended loops and restarts: the pool implements `FanIn`, slots add up, and without faults the end is announced. |
| `pool_mixed` | Overlapping turns, a two-tier plan and equal batch ids: every delegated job still ends. |
| `pool_reengage` | Violation: the announcement is dropped by its consumer (`OrchestratorReengaged`). |
| `monitor` | Two agents, two faults of any kind (two lost reports, a lost report and a lost escalation, a failing store, a broken consumer, a restart): records are of open runs, a run under way is watched or its task blocked (`RunningIsWatched`), a run of which one update has reached the queue does not leave its task `IN_PROGRESS` for lost reports alone (`NoTaskForgotten`), records go away. |
| `chat` | A user with an earlier exchange sends a message while a streamed turn or a scoring cycle runs, and then a channel message comes or the history is cleared, with one fault of any kind (a failed read or write of the history, an error of the model, a client that goes away). A turn that is alone in the orchestrator delegates under its own caller, session and plan (`ActsForItself`) and is offered its own tools (`OfferedOwnTools`); the history is made of whole exchanges, partial answers of failed streams among them (`WholeExchanges`); a stream has one terminal event, its last (`OneTerminalEvent`); every turn ends (`TurnsEnd`). |
| `services` | Five parts that share no state, one per behaviour. Plans: one call at a time, two faults, six calls in any order, cancelled at any await: only approved versions are created, all nodes or none by a call that ends by itself, one goal of calls that were not cancelled, `EXECUTED` is final. Triggers: two days, two API calls, one fault or restart, a user whom the gateway serves or one whom it does not, triggers of its agent or another: once a day and once more for each time the key was forgotten, never remembered without being published (`FiredOncePerDay`); registered and saved agree when calls are done (`SavedAsRegistered`). Sign-ins: a whole user or none (`ProvisionedWhole`), one for an identity (`OneUserPerIdentity`). Gated tools: what ran was approved and stays so, what was refused as cancelled stays cancelled (`CalledAsApproved`). Planner: every graph on three tasks, self-loops and cycles included, with a query that may fail at any task: one tier per job (`EachJobInOneTier`), edges respected (`TiersRespectEdges`), no task later than needed (`TiersAreTight`). |
| `agent_files` | Three overlapping calls on the objects of one agent, of every kind, with two failing store calls. Notes: an update on a copy nobody has overtaken takes no note away, what a compaction removes and an inbound message cuts is archived (`KeepsNotes`). Semantic memory: the index names the topics there are (`IndexMatchesTopics`), adding a fact and renaming lose nothing (`FactsKept`). Definitions: a snapshot under every earlier number, what patches replaced in turn kept as it was, nothing of an agent that is gone, and a defined agent has its runtime files (`HistoryWhole`). Outbox, a part of its own: a line once, twice only if it was applied and not marked (`AppliedOnce`), a row tried as often as `run_once` allows (`TypesOK`). |
| `plan_edited` | Violation: an edit during an execution changes what is created (`OnlyApprovedTasks`). |

Each property of a passing run has a mutant: a plausible mistake in one mapped definition, kept
in the module before it and marked `Mutant`, under which the same run fails.

Runs stop the deadlock check because the systems may really stop: requests are finite, and a
pool with an empty queue has nothing to do.

## Bounds

- **Task graphs.** The tree has a chain of three levels, an AND and an OR gate, a child that
  needs a person, a successor of a leaf and one of a composite: a cascade three calls deep. The
  pair has the two children whose handlers must see each other. More siblings repeat these
  relations. Each of the three handlers issues one request of the set, so up to three requests
  meet on a task.
- **`MaxInFlight`** is 1 for the completion rules, which are of one request at a time, and 2 or 3 for
  overlaps. The lost update needs two; three are checked for what survives it.
- **`MayMiss`** is a successor and a composite of the tree, so that rows are missed in each of the
  three loops of the cascade.
- **`MaxFaults`** counts failures, wherever they strike: 2 for the pool, for plans (a failure
  and a failing compensation, a cancelled call and a failing retry) and for the monitor (two lost
  reports of one run, a lost report and a lost escalation).
- **`MaxSize`** is 2 of up to 4 jobs, so jobs run together and one waits in memory.
- **`MaxBeats`** is one heartbeat of one of the two runs: it can be before,
  between and behind the other reports of that run, and the other run is shorter.
- **Planner.** Three tasks give chains, diamonds short of the fourth corner, cycles, tasks behind
  cycles. TLC enumerates all 512 graphs.
- **Plans.** Two tasks, one with a follow-up, and two calls each of approve and execute: a retry
  after every failure.
- **Chat.** A cap of two exchanges, one of which is there at the start, so that the next two reach
  and cut it. Two tool rounds: the second is the last. One fault, of each kind in turn. Two requests
  at a time and a third after either: what a turn leaves in the shared fields for the next is seen.
- **Triggers.** Two days of two ticks, so that a trigger can be moved later the same day, past
  midnight and to the next day; two keys before one is trimmed; two calls that may overlap; one
  failure or restart.
- **Sign-ins.** Three, two of one account and a third of another provider with the same address,
  and two upsets: a step that fails and an undo that fails.
- **Outbox.** Four writes to a node and a file, two with one key, batches of two of them, one
  retry, two workers, two mishaps.
- **Gated tools.** Three answers, so that a decision can be repeated and reversed; two polls.
- **Agent files.** Three calls: two that overlap and one that finds what they have left. A cap of one
  line, so that the second is cut; two names for an archive entry, so that one can be overwritten;
  three topics, so that one can be renamed while others are written; two faults. Three patches: two
  that read one version, and one that finds what they have left.

The parts of `services`, and those of `agent_files`, have no variable in common, so that a behaviour
of all of them is a product of theirs; the run starts one of them and leaves the others at their
initial states.

## Fairness

Every liveness property is checked under weak fairness of steps the program cannot put off:

- a suspended coroutine is resumed when its await returns; every store, LLM and tool call in
  `SubAgentRunner.execute` is bounded by `wait_for`, so a runner ends by result or error
  (`WF(RunStep)`), and a handler goes on (`WF(Proceed)`);
- the consumer loops take what is in their queue (`WF(Pop)`, `WF(TakeUpdate)`,
  `WF(ConsumeTrigger)`), as long as they are alive; a slot that is free is taken (`WF(Spawn)`);
- a chat request that has begun goes on: the model answers or its call fails (`WF` of every step of
  a turn that is not `new`); a client need not stay, and need not send anything;
- time passes: an agent that is not heard of becomes silent (`WF(Silence)`), and the monitor's
  loop runs (`WF(MonitorStep)`).

Nothing is assumed of the environment: no request needs to be sent, no heartbeat needs to come,
no fault needs to stay away. Liveness of handlers is checked with `MayFail = FALSE`; a store that
fails ends a handler, which `cascade_serial` covers.

## Proofs

All proofs are of the specifications TLC runs, for every value of the constants that satisfies the
named assumptions of the modules (`ConstantsAssumption`, `DelegationsAssumption`, `PoolAssumption`,
`MonitorAssumption`, `PlanAssumption`, `NoneAssumption`, `ChatAssumption`, `PlannerAssumption`,
`TriggerAssumption`, `OutboxAssumption`, `MemAssumption`, `SemAssumption`, `CatAssumption`) and, for
the sign-ins and the gate, the hypotheses `ProvAssumption` and `Polls \in Nat`. Each is as weak as
the code allows: types, bounds that are numbers, finite sets where the code counts, an empty value
that is none of the others, that a turn delegates what its tiers contain, that the cap of the history
is positive and even, that beside delegations no task starts `COMPLETE`.

Every safety invariant and action property of the passing runs is a theorem, and one of the two
refinements (`ImplementsCompletionRules`); `ImplementsFanIn` is model-checked only, because what it
needs, batch ids of their own and turns one after the other, is not given by the code. Some theorems
have a hypothesis that names the case in which the code keeps the promise, and the counterexamples
below show that it does not without it:

- `MaxInFlight = 1` (one request at a time), for what the rules say of a whole cascade: what reads a
  row and writes it back loses updates;
- `MaxActive = 1` (one plan tool at a time), and with it `OneProposal` (one call proposes a plan):
  a later proposal for the same thread is a different plan;
- `NoneBornComplete`: the rules know of completions by their history;
- `TaskOf` injective, for `EachJobInOneTier` only: the planner keeps one job of those for one task;
- `OwnAgents`, for `RunsAreWatched`: records are kept by agent;
- `OneTierPlans`, for `NoDelegationRunsTwice`: plans of one tier, which is what production makes, and
  each task delegated by one call. Turns may overlap and batch ids may be equal.

| Theorem | States |
|---|---|
| **`TaskCascade_proofs`** | |
| `WalkedLegal` | A task with a legal history, driven along a path that `CanWalk` accepts, has a legal history. |
| `CascadeInvariant`, `TypeCorrect` | `IInv` and `TypeOK`, for any graph, requests and overlaps. |
| `HistoriesAreLegal` | `LegalHistory`: the store only holds lives the machine permits, although rows are overwritten. |
| `SerialInvariant`, `NotifiedOnce` | `NotifiedOncePerCompletion`, one request at a time, with any failures. |
| `CascadeRefinesRules` | `ImplementsCompletionRules`: each step of a handler, of the recursion and of a failure is one that `CompletionRules` allows, or none. One request at a time, no task born complete. |
| `DelegatedInvariant`, `CompletionsAreAccounted` | `CompletionIsAccounted`, with agents that write round the machine, and any overlaps. |
| **`SubAgentPool_proofs`** | |
| `PoolInvariant`, `TypeCorrect` | `IInv` and `TypeOK`: in particular permits and `_active_count` stay within 0..`max_size`. |
| `SlotsAreAccounted` | `SlotsAccounted`: permits and holders are `max_size` together, `_active_count` is exact. |
| `RefusedIsNeverRun` | `RefusedNeverRun`, for plans of one tier: any overlap of turns, batch ids, failures, restarts. |
| `NoDelegationRunsTwice` | `RunAtMostOnce`, for plans of one tier with each task delegated by one call: any overlap of turns, batch ids, refusals, failures, restarts. |
| **`AgentMonitor_proofs`** | |
| `MonitorInvariant`, `TypeCorrect` | `IInv` and `TypeOK`. |
| `RecordsAreOfOpenRuns` | `RecordsOfOpenRuns`, with any number of runs per agent. |
| `RunsAreWatched` | `RunningIsWatched`, for any number of agents, each with one job at a time. |
| **`PlanLifecycle_proofs`** | |
| `CallsInvariant`, `TypeCorrect` | `BInv` and `TypeOK`, for any overlap of calls. |
| `CreatesAllOrNothing` | `AllOrNothing`, for any overlap, cancellations, plan size and faults. |
| `PlanInvariant`, `SerialCallsCreateApproved` | `OnlyApprovedTasks`, one call at a time. |
| `OnePlanInvariant`, `ExecutesOnce`, `ExecutedStays` | `ExecutedOnce` and `ExecutedIsFinal`, one call at a time and one proposal, whichever calls are cancelled. |
| **`ChatTurn_proofs`** | |
| `ChatTypesHold` | `TypeOK`: in particular a stored history never exceeds the cap. |
| `ActsForItselfHolds` | `ActsForItself`, for any turns, users, kinds of requests, tool calls and faults. |
| `OfferedOwnToolsHolds` | `OfferedOwnTools`. |
| `EventsInvariant`, `OneTerminalEventHolds` | `OneTerminalEvent`, for any number of rounds and tools. |
| `WholeInvariant`, `WholeExchangesHold` | `WholeExchanges`, wherever the cap cuts. |
| **`DispatchPlanner_proofs`** | |
| `PlannerInvariant` | `PlannerInv`, for any jobs, any graph and a query that fails at any task. |
| `EachJobInOneTierHolds` | `EachJobInOneTier`. |
| `TiersRespectEdgesHolds`, `TiersAreTightHolds` | `TiersRespectEdges` and `TiersAreTight`. |
| **`Services_proofs`** | |
| `TriggerInvariant` | `TriggerInv`. |
| `FiredOncePerDayHolds` | `FiredOncePerDay`, for any triggers, calls, days, failures and restarts: what is published more than once a day is published once for each time its key was forgotten. |
| `SavedAsRegisteredHolds` | `SavedAsRegistered`, for a user the gateway serves and for any other. |
| `ProvisionedWholeHolds` | `ProvisionedWhole`, for any number of sign-ins and upsets. |
| `OneUserPerIdentityHolds` | `OneUserPerIdentity`, for any accounts and addresses. |
| `CalledAsApprovedHolds` | `CalledAsApproved`, for any number of answers, of any kind, and polls. |
| `ServicesTypesHold` | `TypesOK` of the composition `MCServices`, whose behaviours are shown to be behaviours of each part. |
| **`AgentFiles_proofs`** | |
| `NotesInvariant`, `KeepsNotesHolds` | `KeepsNotes`, for any updates, kinds, labels and faults. |
| `SemanticInvariant`, `IndexMatchesTopicsHolds`, `FactsKeptHolds` | `IndexMatchesTopics` and `FactsKept`, for any calls and topics. |
| `CatalogInvariant`, `HistoryWholeHolds` | `HistoryWhole`, for any calls. |
| `OutboxInvariant`, `AppliedOnceHolds` | `AppliedOnce`, for any writes, keys, targets, workers and limits. |
| `FilesTypesHold` | `TypesOK` of the composition `MCAgentFiles`: in particular a node's text stays within its cap, and a row is not tried too often. |

Hardly any of these properties is inductive by itself. The strengthenings:

- **Cascade** (`IInv`). The store is overwritten with copies, so the copies must be legal too, the
  activated ones not yet written included. A handler past `Begin` serves a request
  of the set, and one in its cascade has an open call. `WalkedLegal` gives the step of `Apply`, and
  a path of length one the steps of the cascade.
- **Cascade, serial** (`SInv`). One handler runs, so its copies are what is stored (`FreshAt`), and
  of each parent it is about to notify one more completion is recorded than was told (`DueAt`).
- **Completion rules** (`RInv`). The abstract state is read off the histories: who has completed a
  task, and whether the cascade released it. A call of the recursion is of a task that is finished,
  what it is about to write is among its successors or parents (`CallAt`), and a child that stands as
  `COMPLETE` has a completion in its history, because histories are legal.
- **Delegated tasks** (`DInv`). Histories are not legal here, but a life in which the last entry of a
  `COMPLETE` task is the completion of who may complete it (`AccountedLife`) is kept by the machine
  and by the agents' writes, none of which sets `COMPLETE`.
- **Pool** (`IInv`). To count who holds a slot one needs that runner ids are finitely many and that a step
  changes one runner's place (`RunChanges`); to know that a published message is well-formed, that
  next tiers are finite, that an outbox under way is not empty, and that the orchestrator has a
  session while a turn is handled. Counting then is adding or removing one element of a finite
  set; `max(0, count - 1)` never meets 0 because a runner that ends is among those counted.
- **Jobs** (`OnceInv`). A job is among the calls of its turn, in its hand, in the queue, popped or in
  one run, and nowhere twice (`TurnsUnsent`, `SentOnce`). It takes the coordinator to copy it: so no batch
  has a next tier (`NoNextTier`) and runners publish announcements only (`OnlyAnnounces`), whichever
  batch they count for.
- **Monitor** (`IInv`). A record can only be revived by a sign of life in the queue. So: no sign of life in
  the queue is of a reported run, and none stands behind the completion of its own run, which
  holds because `execute` cancels its heartbeats before it reports. The sweep may publish a
  `BLOCKED` for a run that has ended, which revives nothing.
  For `RunningIsWatched` (`WatchInv`): a success that the consumer handles is of a run that is over
  (`SuccessIsOver`), so only a timeout takes the record of a run under way, and the run whose record
  the monitor is about to drop has been reported as blocked (`DroppedIsBlocked`).
- **Plans.** (`IInv`) Whatever is past `DRAFT`, in memory, in storage or in the hands of a tool, is of an
  approved version, and a call that creates nodes works on a plan that is still approved. The last
  part is where one call at a time is needed: between `execute_plan`'s check and its creates no
  other call runs. With two it is false, which is `plan_edited`. (`BInv`) While a
  call creates or undoes, its nodes in the graph are among its `created`; when it saves or is done,
  they are the goal and all the tasks, or nothing (`Tracked`), unless an undo or a follow-up failed; a call
  that was cut is not spoken of. (`PInv`) A call that writes has the cached plan, one that
  creates executes the cached approved one, and what is stored as `EXECUTED` is so in the cache, with
  nobody writing or executing it (`OnePlan`); but for the calls that were cut there is one goal in the
  graph, of that plan or of the call that is under way (`OneGoal`).
- **Chat** (`ChatInv`). A turn that is not `mixed` and is inside the orchestrator is alone there, so
  nobody has written the fields since it claimed them: `session`, `caller` and, once it has planned,
  `planned` are its own, and `active` is the core set and what it has loaded itself (`TurnInv`). The
  proof needs that every step that enters the orchestrator marks all who are inside (`Meet`,
  `Cycle`). (`EventsInv`) Before
  a run is over its events have no terminal one, tools start and end in turn, and one is open only
  while its call runs. (`WholeInv`) The stored history and all copies are pairs of a
  question and its answer, each exchange once, and only of turns that are done: so a turn that
  saves adds one that is not there. An even cap cuts between exchanges.
- **Planner** (`PlannerInv`). `in_degree` counts the edges to tasks without a tier, the queue is the
  tasks whose count is zero, and a task has a tier when all it depends on has an earlier one, and one
  of these is just before it. When the queue is empty, the tasks without a tier are closed under
  having a dependency among themselves, which makes each of them depend on itself or on such a one.
- **Triggers** (`TriggerInv`). A key has been published, or is being published, at most as often as it
  was forgotten, and once more if it is in `_seen_keys`: it is remembered before it is published
  (`Fired`, `Remembered`).
  For the saves: while calls do not overlap, the stored schedule is the registered one but for
  `next_fire`, and the one call under way knows what it changed and would restore (`OneCallAtATime`,
  `Meant`).
- **Provisioning.** What a sign-in has created so far is determined by where it stands, and
  `_rollback_steps` lists exactly what is left to undo (`WholeInv`). Two users of one identity need
  two sign-ins of which neither saw the other's user, and a sign-in that is not `met` runs alone from
  its look-ups to its end (`UniqueInv`).
- **Gated tools** (`GateInv`). An answer that has been read and not written, and is not crossed, has read
  the state the task is in (`DecisionIsFresh`); a task that is `COMPLETE` or `CANCELLED` stays so under
  `MayBecome`, because `CANCELLED` is terminal and a completed approval may not be moved.
- **Notes** (`MemInv`). What an update that is not `stale` has read is what is stored (`Current`); that
  needs that a step marks every other holder of a copy, and that who writes under the lock holds it.
- **Semantic memory** (`SemInv`). A topic that is not `loose` is in one call's hands (`OneHand`), and
  that call finds the file and the entry as it left them (`InHands`).
- **Definitions** (`CatInv`). Until two calls meet over a creation or a deletion (`holed`), who makes or
  ends the agent is alone at it (`AloneAtIt`), a call knows what is stored as far as it has read it
  (`Knows`), and while nobody makes or ends the agent there is a snapshot under every earlier number
  (`Whole`). Until a patch overtakes another, the replaced definitions have numbers of their own below the
  current one, and all are kept (`Lineage`); so a snapshot overwrites none but itself.
- **Outbox** (`OutInv`). A target that is not `spoilt` is in one worker's batch (`Alone`), what that
  worker has read of it is what is there (`Fresh`, `UpToDate`), and an entry has one line in its target
  when it is processed or about to be marked, none before, and at least one if it was applied and not marked
  (`InText`). The retries in a row, with those that workers may still add, exceed the limit by
  less than the number of workers (`RetriesBounded`).

Model-checked only: `ImplementsFanIn`, as said, and liveness (`CompositeRollsUp`, `SuccessorReleased`, `HandlersEnd`, `EndAnnounced`,
`DelegationsEnd`, `NoTaskForgotten`, `AgentsForgotten`, `TurnsEnd`), because the prover has neither
`ENABLED` nor fairness. The type invariants of `TaskCascade`, `SubAgentPool`, `AgentMonitor`,
`ChatTurn` and the agent files are proved and need no run.

## Findings

1. **AND gate** (`state/cascade.py:249`). `activate_next_in_chain` ignores `gate_type`, AND by
   default (`models/edges.py:57`).
2. **Re-engagement** (`agent/event_consumer.py:213`). `DELEGATION_COMPLETE` does not parse as a
   `TriggerEvent` and is dropped, against `agent/event_consumer.py:341`.
3. **Edit during execution** (`agent/main_orchestrator.py:4155`). The tasks created are those of
   the dict after the goal was created, against `agent/main_orchestrator.py:4053`.

## Known counterexamples

Promises of docs, comments or the design that fail in the setting named, with every other constant
as in the configuration of the module's passing run (for `TaskCascade`, `MCTaskCascadeAndGate.cfg`).
The properties are defined in the modules; give TLC the setting and the property to see the trace.

| Property | Module | Fails with | Why |
|---|---|---|---|
| `TierOrder` | `MCSubAgentPool` | `Tiers <- OrderedTiers` | the turn publishes the jobs of every tier at once |
| `RunAtMostOnce` | `SubAgentPool` | `Tiers <- OrderedTiers` | and the coordinator publishes the next tier again |
| `RefusedNeverRun` | `SubAgentPool` | `Tiers <- OrderedTiers`, `Refused = {j2}` | the stub of a refused call is registered, and published by the coordinator |
| `EndAnnounced` | `SubAgentPool` | `Refused = {j2}` | the batch waits for the end of a call that was refused |
| `AnnouncedAfterAll` | `SubAgentPool` | `Prefix <- SamePrefix` | batch ids are made of eight characters of the session |
| `JobKeepsSession` | `SubAgentPool` | `MaxTurns = 2` | the session is a field of the shared orchestrator |
| `ImplementsFanIn` | `SubAgentPool` | `Prefix <- SamePrefix`, or `MaxTurns = 2`, or `Tiers <- OrderedTiers` | the three above |
| `OverflowStaysQueued` | `MCSubAgentPool` | `MaxSize = 1` | a job leaves the queue before it has a slot, and is lost with the process |
| `RunningIsWatched` | `AgentMonitor` | `AgentOf <- SameAgent` | two runs of one agent share a record, and the first to end takes it |
| `ResultStands` | `MCAgentMonitor` | `Faults = {}` | the monitor's `BLOCKED` is applied after the result |
| `AgentNeedsAutonomy` | `MCTaskCascade` | `Info <- GuardedInfo`, `Requests <- ToolRequests` | the agent's tool passes `HUMAN` |
| `StoreAcceptsLegalRequests` | `MCTaskCascade` | `StorePrincipal = "agent_principal"` | the store raises on full-row dumps instead of stripping keys |
| `CompositeRollsUp` | `TaskCascade` | `InitState <- PairInitPending`, `FairSpec` | `PENDING -> COMPLETE` is not in the table: the roll-up raises |
| `FailureMeansNoDependencies` | `MCServices` | as it is | the edges fetched before the failure are kept |
| `ExecutedOnce`, `ExecutedIsFinal` | `PlanLifecycle` | `MaxActive = 2` | two calls execute one plan; the older save arrives last |
| `ExecutedOnce` | `PlanLifecycle` | a `"cancel"` or a `"crash"` (excepted in the property) | the plan is `EXECUTED` only after its last task; `CancelledError` passes the `except Exception` of `agent/main_orchestrator.py:4219`, and a retry makes a second goal |
| `AllOrNothing` | `PlanLifecycle` | a `"followup"` fault, a `"cancel"` or a `"crash"` (excepted in the property) | the id of a follow-up whose edge fails is not returned and not rolled back; nothing rolls back for a cancelled call |
| `LegalHistory` (and `CancelledIsFinal`, there) | `DelegatedTasks` | `SPECIFICATION DSpec` | delegation and results set the state without the machine |
| `NoTaskForgotten` | `AgentMonitor` | an `"escalation"`, `"store"`, `"consume"` or `"crash"` fault (excepted in the property) | errors are logged, records are in memory and dropped whether or not the event was published (`agent/health_monitor.py:225-242`) |
| `StuckAreBlocked` | `MCAgentMonitor` | `Faults = {"report", "escalation"}`, or `{"report"}` | a lost result and a lost escalation, or no report at all: the task stays `IN_PROGRESS` for ever |
| `HistoryAppendOnly`, `CancelledIsFinal` | `MCTaskCascade` | `MaxInFlight = 2` | `update_node` (`db/age/repository.py:256`) never compares the version that `models/base.py:317` says rejects stale writes |
| `ActsForItself`, `OfferedOwnTools` | `ChatTurn` | `mixed` not excepted | a turn that begins while another waits takes over its session, caller, plan and tool sets |
| `FiredOncePerDay` | `TriggerEngine` | `forgotten` not excepted | the dedup keys are trimmed to an arbitrary half, and lost with the process, although `triggers/engine.py:24` says they prevent "double-firing of daily cron triggers across restarts"; the advance of a fired trigger is not saved either |
| `SavedAsRegistered` | `TriggerEngine` | `torn`, `served` or `own` not excepted | overlapping saves end in the wrong order; only `TriggerPersistenceError` restores the registry; triggers of another user or agent are saved, never loaded, and erased by the next save or by the fallback (`gateway/app.py:720`) |
| `OneUserPerIdentity` | `Provisioning` | `met` not excepted | two first sign-ins both find nobody; a sign-in is given a user that is rolled back later |
| `ProvisionedWhole` | `Provisioning` | `halved` not excepted | after a stop half-way the user is found and never completed |
| `AppliedOnce` | `DistillationOutbox` | `unmarked`, `spoilt` not excepted | a line is applied before its row is marked, and a write that raises may have been applied; two workers read the same rows; a file that cannot be read is taken for empty and rewritten |
| `CalledAsApproved` | `GatedApproval` | `crossed`, or a poll that saw `BLOCKED`, not excepted | an approval and a refusal that overlap: the tool ran and the task is `CANCELLED`; an escalation overwrites a fresh decision; a task that is blocked is refused (`mcp/approval.py:195`) and can be approved later |
| `KeepsNotes` | `AgentMemory` | `stale` not excepted | a runner, the result collector, distillation and the intelligence agent overwrite one another's notes: the lock of `agent/event_consumer.py:110` goes to the last only; a context that cannot be read is taken for empty |
| `KeepsNotes` | `AgentMemory` | the cut of other kinds not excepted | `agent/event_consumer.py:602` writes "words archived" and archives nothing |
| `TimelineKept` | `AgentMemory` | as it is | the next delegation to the agent (`agent/main_orchestrator.py:4705`) replaces the file of which `agent/sub_agent_runner.py:571` says "Keeps a rolling timeline" |
| `IndexMatchesTopics` | `SemanticMemory` | `loose` not excepted | two calls read one index, the later write drops the other's entry; a failure leaves file and index apart; "Guarded by the shared memory lock" (`agent/distillation.py:380`) is a lock that each turn's helper makes for itself |
| `FactsKept` | `SemanticMemory` | `loose` not excepted | a fact is added to an old copy, a rename copies one; a file that cannot be read is taken for new |
| `HistoryWhole` | `AgentCatalog` | `holed` not excepted | a patch under way writes back the definition that was deleted; what was not listed stays |
| `ReplacedIsKept` | `AgentCatalog` | as it is | two patches that have read the same version both write the next one: the first is replaced without a snapshot, although `api/agents.py:537` says "The previous version is automatically snapshotted before the update is written" |
| `ConfigKept` | `AgentCatalog` | as it is | a patch of the name writes the default `config.json` over the one that was put (`api/agents.py:1077`) |

A property that excepts a case has a ghost for it; "not excepted" means without that conjunct.
For `RunAtMostOnce`, `RefusedNeverRun` and `RunningIsWatched` a theorem says where the code does keep
them, for every value of the other constants.

Also met while modelling, and outside the properties:

- *Planner and pool.* When two calls of a turn delegate the same task and the plan has edges, the
  planner keeps one job per task (`TaskOf` is injective in the `services` run for that reason).
  `session_id[:8]` of the generated sessions starts with the constant part of the id.
- *Chat.* Message ids are made of the length of the history and repeat once it is at its cap. A
  streamed run that fails before any text saves nothing, not even the question; one that fails later
  saves its partial text as the answer. Of two overlapping turns one exchange is lost; a history that
  cannot be read is taken for empty and then saved (`api/chat.py:88`); a cleared history comes back with
  the turn that had read it.
- *Plans.* An edit that is refused has already changed the title of the cached, perhaps approved
  plan (`agent/main_orchestrator.py:4024-4036`).
- *Triggers.* A firing that is late past midnight takes the next day's key. If the
  publish fails, the key is there already and the day's trigger is never sent. Restoring after a
  refused save can bring back a trigger deleted meanwhile. `PATCH` with `enabled = true` does not
  recompute `next_fire`. `api/admin/triggers.py:146` and `:164` publish to a queue made for the request.
- *Provisioning.* `_find_default_workspace` reads keys that the edges of the store do not have, so a
  returning user has the empty workspace id.
- *Outbox.* Rows that keep failing are the oldest and fill the `LIMIT`, so newer ones wait behind
  them. A line for a node deleted meanwhile is marked processed. Without a database the entries
  collect in `_memory`, which nothing empties. Others cut a node's text to 500 words while a worker
  has it in hand (`AgentMemory`); a target of `DistillationOutbox` is written by its workers only.
- *Gated tools.* An approval after the time-out completes the task, and the tool is not called.

## Not modelled

Within the modelled parts: a storage write that lands after the call that awaits it was cancelled;
LLM calls and their text; confidence feedback and audit of the cascade
(logged only); access checks; metrics; the decision files of the result collector; the
planner's edge properties; episodes and authored skills. Node contents other than what guards read are constants.

Of components that are otherwise modelled: `fire_on_demand`, the cron forms other than a daily
time, and the import of the legacy schedule file (trigger engine); the consumer of trigger events
is only in `SubAgentPool`, for what it drops; `deprovision_user`, which nothing calls; the outbox
without a database; the `REASSIGN` and `AUTO_APPROVE` escalations, because a gated task is made
with `CANCEL`; `api/conversations`.

With a protocol of their own, and not modelled: the purge worker (its candidates are dicts that it
reads as objects, so that nothing is ever purged, and nothing starts it), the storage locks
(nothing takes one), and the skill worker pool (in the plan).

Left out altogether, with the reason in `PROJECT.json`: thin clients of external systems (object
storage, secrets, channels, LLMs), text processing (inbound, templates),
single-statement database code (identity, directory, migrations), floating-point scoring, and
wiring (gateway, auth, CLI, admin). That is most of the repository by lines: what is modelled is the
code with state that more than one step, request or loop shares.

## Plan

Done, in this order, the most important behaviour first: `StateMachine`, `TaskCascade` with
`CompletionRules`, `DelegatedTasks`; `DispatchPlanner`, `SubAgentPool` with `FanIn`;
`AgentMonitor`; `PlanLifecycle`; then `ChatTurn`, `TriggerEngine`, `Provisioning`,
`DistillationOutbox`, `GatedApproval`; then `AgentMemory`, `SemanticMemory`, `AgentCatalog`; and proofs
of all safety properties and of the refinement of `CompletionRules`.

Next modules:

1. `SkillPool`: an idle worker chosen before an await.
2. Authored skills (`api/intelligence.py`), a skill and its copies, beside `SemanticMemory`.
3. A composition of `SubAgentPool` and `AgentMonitor`, so that a job run twice is seen by the
   monitor.
4. An abstract outbox (a set of entries, each applied at least once) that `DistillationOutbox`
   implements.
5. `StorageLock` and `PurgeWorker`, once they are in use: a lock with a time to live, two
   instances, a cancel racing a purge.

Next theorems: of the modules above once they are written; that `DistillationOutbox` implements
the abstract outbox; `DelegatedTasks` against rules of its own, with agents that block and fail;
that `SubAgentPool` implements `FanIn` for every plan, once the code gives each batch an id of its
own (`ImplementsFanIn` is model-checked on distinct ids only).
