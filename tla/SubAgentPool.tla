---------------------------- MODULE SubAgentPool ----------------------------
(***************************************************************************)
(* Delegation to sub-agents, from the turn of the one MainOrchestrator that *)
(* asks for it to the DELEGATION_COMPLETE event: the plan is registered     *)
(* with the BatchCoordinator, the jobs go through the AGENT_JOBS queue to   *)
(* the SubAgentPool, which runs max_size of them at a time, and the         *)
(* coordinator counts completions batch by batch.  The orchestrator's       *)
(* handlers, the pool's consumer and the runners interleave at each await.  *)
(***************************************************************************)
EXTENDS Integers, Sequences, FiniteSets

CONSTANTS
  Turns,      \* chat turns; the session of a turn is the turn itself
  Calls,      \* Calls[t]: its delegate_to_agent calls, in the LLM's order
  Tiers,      \* Tiers[t]: what AgentDispatchPlanner.plan returns for them
  Prefix,     \* Prefix[t]: session_id[:8], from which batch ids are made
  Refused,    \* calls whose task or agent does not exist
  MaxSize,    \* runner slots
  MaxTurns,   \* bound: turns the orchestrator handles at a time
  MaxFaults,  \* bound: failing publishes, broken connections and crashes
  NoTurn, NoJob

AllJobs == UNION {{Calls[t][i] : i \in DOMAIN Calls[t]} : t \in Turns}

JobsIn(t) == {Calls[t][i] : i \in DOMAIN Calls[t]}

\* A turn delegates something; the tiers of its plan share out its calls.
ASSUME PoolAssumption ==
  /\ MaxSize \in Nat \ {0} /\ MaxTurns \in Nat \ {0} /\ MaxFaults \in Nat
  /\ NoTurn \notin Turns
  /\ IsFiniteSet(AllJobs)
  /\ Calls \in [Turns -> Seq(AllJobs) \ {<<>>}]
  /\ Tiers \in [Turns -> Seq(SUBSET AllJobs)]
  /\ \A t \in Turns : /\ JobsIn(t) = UNION {Tiers[t][i] : i \in DOMAIN Tiers[t]}
                      /\ Len(Tiers[t]) <= Cardinality(AllJobs)

VARIABLES
  turn,         \* where the handler of each turn is
  calls,        \* the calls it has still to make
  holding,      \* the job it is about to publish
  current,      \* MainOrchestrator._current_session_id
  delegations,  \* MainOrchestrator._turn_delegation_calls: job -> batch
  jobs,         \* the AGENT_JOBS queue, oldest first
  triggers,     \* the TRIGGER_EVENTS queue
  batches,      \* BatchCoordinator._batches
  popped,       \* the job taken from the queue, waiting for a slot
  permits,      \* the semaphore
  activeCount,  \* _active_count
  runs,         \* the _run_job tasks, one per runner id
  announced,    \* how often DELEGATION_COMPLETE was published, by session
  reengaged,    \* the sessions the orchestrator was woken up for
  alive,        \* the consumer loops that have not ended
  faults

orchestrator == <<turn, calls, holding, current, delegations>>
pool == <<batches, popped, permits, activeCount, runs>>
vars == <<turn, calls, holding, current, delegations, jobs, triggers, batches,
          popped, permits, activeCount, runs, announced, reengaged, alive, faults>>

BatchId(t, i) == <<Prefix[t], i>>
BatchIds == {BatchId(t, i) : t \in Turns, i \in 0..Cardinality(AllJobs)}

\* AgentJobEvent.
JobEvent == [job : AllJobs, session : Turns, batch : BatchIds]

\* _BatchState; the jobs of the next tier are events already.
Batch == [total : Nat, done : Nat, next : SUBSET JobEvent, session : Turns, final : BOOLEAN]

\* The trigger event that announces the end of a turn's delegations.
Delegation == [type : {"DELEGATION_COMPLETE"}, session_id : Turns, final_batch_id : BatchIds]

\* A _run_job task; outbox holds what it has still to publish.
Run == [event : JobEvent, pc : {"spawned", "running", "publishing", "ended", "killed"},
        outbox : Seq(JobEvent \cup Delegation)]

TriggerEventFields == {"trigger_id", "trigger_type", "user_id"}

Loops == {"jobs", "triggers"}

NoDelegations == [j \in {} |-> NoTurn]

Orders(S) == {s \in [1..Cardinality(S) -> S] : {s[i] : i \in DOMAIN s} = S}

Init ==
  /\ turn = [t \in Turns |-> "waiting"]
  /\ calls = Calls
  /\ holding = [t \in Turns |-> NoJob]
  /\ current = NoTurn
  /\ delegations = NoDelegations
  /\ jobs = <<>> /\ triggers = <<>>
  /\ batches = [b \in {} |-> NoTurn]
  /\ popped = NoJob
  /\ permits = MaxSize
  /\ activeCount = 0
  /\ runs = <<>>
  /\ announced = [t \in Turns |-> 0]
  /\ reengaged = {}
  /\ alive = Loops
  /\ faults = 0

-----------------------------------------------------------------------------
(* MainOrchestrator *)

\* process_chat_message: the session is stored on the one orchestrator, and the
\* LLM is asked.
Begin(t) ==
  /\ turn[t] = "waiting"
  /\ Cardinality({u \in Turns : turn[u] \notin {"waiting", "done"}}) < MaxTurns
  /\ turn' = [turn EXCEPT ![t] = "asking"]
  /\ current' = t
  /\ UNCHANGED <<calls, holding, delegations, jobs, triggers, pool, announced, reengaged,
                 alive, faults>>

\* The LLM answered with delegate_to_agent calls; plan() is awaited.
Plan(t) ==
  /\ turn[t] = "asking"
  /\ turn' = [turn EXCEPT ![t] = "planning"]
  /\ delegations' = NoDelegations
  /\ UNCHANGED <<calls, holding, current, jobs, triggers, pool, announced, reengaged, alive,
                 faults>>

TierEvents(t, i) == {[job |-> j, session |-> t, batch |-> BatchId(t, i - 1)] : j \in Tiers[t][i]}

Planned(t) ==
  [b \in {BatchId(t, i - 1) : i \in DOMAIN Tiers[t]} |->
     LET i == b[2] + 1
         last == i = Len(Tiers[t])
     IN [total |-> Cardinality(Tiers[t][i]), done |-> 0, session |-> t, final |-> last,
         next |-> IF last THEN {} ELSE TierEvents(t, i + 1)]]

TierOf(t, j) == CHOOSE i \in DOMAIN Tiers[t] : j \in Tiers[t][i]

\* register_dispatch_plan replaces the batches of the same id; the batch of each
\* call is kept for _tool_delegate_to_agent.
Register(t) ==
  /\ turn[t] = "planning"
  /\ turn' = [turn EXCEPT ![t] = "delegating"]
  /\ batches' = [b \in DOMAIN batches \cup DOMAIN Planned(t) |->
                   IF b \in DOMAIN Planned(t) THEN Planned(t)[b] ELSE batches[b]]
  /\ delegations' = [j \in JobsIn(t) |-> BatchId(t, TierOf(t, j) - 1)]
  /\ UNCHANGED <<calls, holding, current, jobs, triggers, popped, permits, activeCount, runs,
                 announced, reengaged, alive, faults>>

\* _tool_delegate_to_agent up to its publish: a call for an unknown task or agent
\* returns an error; else the batch and the session are what the orchestrator
\* holds at this moment.
Delegate(t) ==
  LET j == Head(calls[t]) IN
  /\ turn[t] = "delegating" /\ calls[t] # <<>> /\ holding[t] = NoJob
  /\ calls' = [calls EXCEPT ![t] = Tail(@)]
  /\ holding' = [holding EXCEPT ![t] =
                   IF j \in Refused THEN NoJob
                   ELSE [job |-> j, session |-> current,
                         batch |-> IF j \in DOMAIN delegations THEN delegations[j]
                                   ELSE BatchId(current, 0)]]
  /\ UNCHANGED <<turn, current, delegations, jobs, triggers, pool, announced, reengaged, alive,
                 faults>>

\* Mutant: only the jobs of the first tier are published by the turn.
PublishFirstTier(t) ==
  /\ holding[t] # NoJob
  /\ holding' = [holding EXCEPT ![t] = NoJob]
  /\ jobs' = IF holding[t].batch[2] = 0 THEN Append(jobs, holding[t]) ELSE jobs
  /\ UNCHANGED <<turn, calls, current, delegations, triggers, pool, announced, reengaged,
                 alive, faults>>

\* The job goes to the queue, whatever its tier; a publish that fails is logged.
PublishJob(t) ==
  /\ holding[t] # NoJob
  /\ holding' = [holding EXCEPT ![t] = NoJob]
  /\ \/ jobs' = Append(jobs, holding[t]) /\ UNCHANGED faults
     \/ faults < MaxFaults /\ faults' = faults + 1 /\ UNCHANGED jobs
  /\ UNCHANGED <<turn, calls, current, delegations, triggers, pool, announced, reengaged, alive>>

EndTurn(t) ==
  /\ turn[t] = "delegating" /\ calls[t] = <<>> /\ holding[t] = NoJob
  /\ turn' = [turn EXCEPT ![t] = "done"]
  /\ delegations' = NoDelegations
  /\ UNCHANGED <<calls, holding, current, jobs, triggers, pool, announced, reengaged, alive,
                 faults>>

-----------------------------------------------------------------------------
(* SubAgentPool and BatchCoordinator *)

\* _consume_loop: the next job is taken off the queue before a slot is asked for.
Pop ==
  /\ "jobs" \in alive /\ popped = NoJob /\ jobs # <<>>
  /\ popped' = Head(jobs)
  /\ jobs' = Tail(jobs)
  /\ UNCHANGED <<orchestrator, triggers, batches, permits, activeCount, runs, announced,
                 reengaged, alive, faults>>

\* semaphore.acquire, then a task for the job.
Spawn ==
  /\ popped # NoJob /\ permits > 0
  /\ permits' = permits - 1
  /\ runs' = Append(runs, [event |-> popped, pc |-> "spawned", outbox |-> <<>>])
  /\ popped' = NoJob
  /\ UNCHANGED <<orchestrator, jobs, triggers, batches, activeCount, announced, reengaged,
                 alive, faults>>

\* _run_job up to the first await of SubAgentRunner.execute.
StartRun(r) ==
  /\ runs[r].pc = "spawned"
  /\ runs' = [runs EXCEPT ![r].pc = "running"]
  /\ activeCount' = activeCount + 1
  /\ UNCHANGED <<orchestrator, jobs, triggers, batches, popped, permits, announced, reengaged,
                 alive,
                 faults>>

\* Mutants: the tier is done one job early; one job late.
ToPublishEarly(b) ==
  IF batches[b].done + 2 < batches[b].total THEN {<<>>}
  ELSE IF batches[b].final
       THEN {<<[type |-> "DELEGATION_COMPLETE", session_id |-> batches[b].session,
                final_batch_id |-> b]>>}
       ELSE Orders(batches[b].next)

ToPublishLate(b) ==
  IF batches[b].done < batches[b].total THEN {<<>>}
  ELSE IF batches[b].final
       THEN {<<[type |-> "DELEGATION_COMPLETE", session_id |-> batches[b].session,
                final_batch_id |-> b]>>}
       ELSE Orders(batches[b].next)

\* record_completion: what the end of a job of this batch has published.
ToPublish(b) ==
  IF batches[b].done + 1 < batches[b].total THEN {<<>>}
  ELSE IF batches[b].final
       THEN {<<[type |-> "DELEGATION_COMPLETE", session_id |-> batches[b].session,
                final_batch_id |-> b]>>}
       ELSE Orders(batches[b].next)

\* Mutant: the slot is given back only when the batch is known.
FinishRunOfBatch(r) ==
  LET b == runs[r].event.batch IN
  /\ runs[r].pc = "running"
  /\ activeCount' = IF activeCount > 0 THEN activeCount - 1 ELSE 0
  /\ IF b \in DOMAIN batches
     THEN /\ permits' = permits + 1
          /\ batches' = [batches EXCEPT ![b].done = @ + 1]
          /\ \E out \in ToPublish(b) :
               runs' = [runs EXCEPT ![r].outbox = out,
                                    ![r].pc = IF out = <<>> THEN "ended" ELSE "publishing"]
     ELSE runs' = [runs EXCEPT ![r].pc = "ended"] /\ UNCHANGED <<batches, permits>>
  /\ UNCHANGED <<orchestrator, jobs, triggers, popped, announced, reengaged, alive, faults>>

\* execute returned, by its result, an exception or its timeout: the slot is
\* given back and the batch counts the job, if it knows the batch.
FinishRun(r) ==
  LET b == runs[r].event.batch IN
  /\ runs[r].pc = "running"
  /\ activeCount' = IF activeCount > 0 THEN activeCount - 1 ELSE 0
  /\ permits' = permits + 1
  /\ IF b \in DOMAIN batches
     THEN /\ batches' = [batches EXCEPT ![b].done = @ + 1]
          /\ \E out \in ToPublish(b) :
               runs' = [runs EXCEPT ![r].outbox = out,
                                    ![r].pc = IF out = <<>> THEN "ended" ELSE "publishing"]
     ELSE runs' = [runs EXCEPT ![r].pc = "ended"] /\ UNCHANGED batches
  /\ UNCHANGED <<orchestrator, jobs, triggers, popped, announced, reengaged, alive, faults>>

Deliver(m) ==
  IF "type" \in DOMAIN m
  THEN /\ triggers' = Append(triggers, m)
       /\ announced' = [announced EXCEPT ![m.session_id] = @ + 1]
       /\ UNCHANGED jobs
  ELSE jobs' = Append(jobs, m) /\ UNCHANGED <<triggers, announced>>

\* The runner publishes the event, or the jobs of the next tier, one by one; a
\* publish that fails is logged.
PublishNext(r) ==
  LET rest == Tail(runs[r].outbox) IN
  /\ runs[r].pc = "publishing"
  /\ runs' = [runs EXCEPT ![r].outbox = rest, ![r].pc = IF rest = <<>> THEN "ended" ELSE @]
  /\ \/ Deliver(Head(runs[r].outbox)) /\ UNCHANGED faults
     \/ /\ faults < MaxFaults /\ faults' = faults + 1
        /\ UNCHANGED <<jobs, triggers, announced>>
  /\ UNCHANGED <<orchestrator, batches, popped, permits, activeCount, reengaged, alive>>

\* AgentEventConsumer._consume_loop: what does not parse as a TriggerEvent is
\* logged and dropped.
ConsumeTrigger ==
  /\ "triggers" \in alive /\ triggers # <<>>
  /\ triggers' = Tail(triggers)
  /\ reengaged' = IF TriggerEventFields \subseteq DOMAIN Head(triggers)
                  THEN reengaged \cup {Head(triggers).session_id} ELSE reengaged
  /\ UNCHANGED <<orchestrator, jobs, pool, announced, alive, faults>>

\* An error of the broker while a loop waits for its next message ends the loop;
\* nothing starts it again before the process is restarted.
LoopFails(l) ==
  /\ faults < MaxFaults /\ faults' = faults + 1
  /\ l \in alive /\ (l = "jobs" => popped = NoJob)
  /\ alive' = alive \ {l}
  /\ UNCHANGED <<orchestrator, jobs, triggers, pool, announced, reengaged>>

\* The process stops and starts again: only the broker's queues survive.
Crash ==
  /\ faults < MaxFaults /\ faults' = faults + 1
  /\ turn' = [t \in Turns |-> IF turn[t] = "waiting" THEN "waiting" ELSE "done"]
  /\ calls' = [t \in Turns |-> IF turn[t] = "waiting" THEN calls[t] ELSE <<>>]
  /\ holding' = [t \in Turns |-> NoJob]
  /\ current' = NoTurn
  /\ delegations' = NoDelegations
  /\ batches' = [b \in {} |-> NoTurn]
  /\ popped' = NoJob
  /\ permits' = MaxSize
  /\ activeCount' = 0
  /\ runs' = [r \in DOMAIN runs |->
                [runs[r] EXCEPT !.outbox = <<>>,
                                !.pc = IF @ \in {"publishing", "ended"} THEN "ended"
                                       ELSE "killed"]]
  /\ alive' = Loops
  /\ UNCHANGED <<jobs, triggers, announced, reengaged>>

-----------------------------------------------------------------------------
TurnStep(t) == \/ Begin(t) \/ Plan(t) \/ Register(t) \/ Delegate(t) \/ PublishJob(t) \/ EndTurn(t)
RunStep(r) == StartRun(r) \/ FinishRun(r) \/ PublishNext(r)

Next == \/ \E t \in Turns : TurnStep(t)
        \/ Pop \/ Spawn
        \/ \E r \in DOMAIN runs : RunStep(r)
        \/ ConsumeTrigger
        \/ \E l \in Loops : LoopFails(l)
        \/ Crash

Spec == Init /\ [][Next]_vars

\* asyncio runs every task that can go on; a runner ends because execute bounds
\* the LLM loop with wait_for.
MaxRuns == 2 * Cardinality(AllJobs)
FairSpec == /\ Spec
            /\ \A t \in Turns : WF_vars(TurnStep(t))
            /\ WF_vars(Pop) /\ WF_vars(Spawn) /\ WF_vars(ConsumeTrigger)
            /\ \A r \in 1..MaxRuns : WF_vars(r \in DOMAIN runs /\ RunStep(r))

-----------------------------------------------------------------------------
RunsAt(pcs) == {r \in DOMAIN runs : runs[r].pc \in pcs}

RunsOf(j) == {r \in DOMAIN runs : runs[r].event.job = j}

Ended(j) == \E r \in RunsOf(j) : runs[r].pc \in {"publishing", "ended"}

TypeOK ==
  /\ turn \in [Turns -> {"waiting", "asking", "planning", "delegating", "done"}]
  /\ calls \in [Turns -> Seq(AllJobs)]
  /\ holding \in [Turns -> JobEvent \cup {NoJob}]
  /\ current \in Turns \cup {NoTurn}
  /\ DOMAIN delegations \subseteq AllJobs
  /\ \A j \in DOMAIN delegations : delegations[j] \in BatchIds
  /\ jobs \in Seq(JobEvent)
  /\ triggers \in Seq(Delegation)
  /\ DOMAIN batches \subseteq BatchIds
  /\ \A b \in DOMAIN batches : batches[b] \in Batch
  /\ popped \in JobEvent \cup {NoJob}
  /\ permits \in 0..MaxSize
  /\ activeCount \in 0..MaxSize
  /\ runs \in Seq(Run)
  /\ announced \in [Turns -> Nat]
  /\ reengaged \subseteq Turns
  /\ alive \subseteq Loops
  /\ faults \in 0..MaxFaults

\* No slot is lost or given back twice: the semaphore's permits and the jobs that
\* hold one are max_size together, and active_count is the runners at work.
SlotsAccounted ==
  /\ permits + Cardinality(RunsAt({"spawned", "running"})) = MaxSize
  /\ activeCount = Cardinality(RunsAt({"running"}))

\* The pool and the coordinator implement FanIn.
Promise == INSTANCE FanIn WITH
  JobsOf <- [t \in Turns |-> JobsIn(t)],
  begun <- [j \in AllJobs |-> Cardinality(RunsOf(j))],
  ended <- [j \in AllJobs |->
              Cardinality({r \in RunsOf(j) : runs[r].pc \in {"publishing", "ended"}})]

ImplementsFanIn == Promise!Spec

\* Four promises that depend on the plans, the batch ids and the turns.

\* No delegation is run twice: a run may already have sent a mail.
RunAtMostOnce == \A j \in AllJobs : Cardinality(RunsOf(j)) <= 1

\* DELEGATION_COMPLETE is published for a session only when every job of its turn
\* has ended.
AnnouncedAfterAll ==
  \A t \in Turns : announced[t] > 0 => \A j \in JobsIn(t) : Ended(j)

\* AgentJobEvent carries the session of the turn that made the delegation, in the
\* queue and in the runners.
JobKeepsSession ==
  /\ \A i \in DOMAIN jobs : jobs[i].job \in JobsIn(jobs[i].session)
  /\ \A r \in DOMAIN runs : runs[r].event.job \in JobsIn(runs[r].event.session)

\* A call that delegate_to_agent answered with an error is never run.
RefusedNeverRun == \A r \in DOMAIN runs : runs[r].event.job \notin Refused

\* Every delegation that was accepted is run to its end.
DelegationsEnd ==
  \A t \in Turns : \A j \in JobsIn(t) \ Refused : (turn[t] = "done") ~> Ended(j)

\* The end of every turn's delegations is announced, unless a publish or a
\* consumer loop fails or the process stops.
EndAnnounced == \A t \in Turns : (turn[t] = "done") ~> (announced[t] > 0 \/ faults > 0)
=============================================================================
