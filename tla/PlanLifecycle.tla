---------------------------- MODULE PlanLifecycle ----------------------------
(***************************************************************************)
(* One plan of the agent, from propose_plan through edit_plan and          *)
(* approve_plan to execute_plan, which creates its goal and tasks in the    *)
(* graph (agent/main_orchestrator.py).  The tools run in chat turns that    *)
(* interleave at each await; they share the plan's dict through the         *)
(* _pending_plans cache, and save it to storage.                            *)
(***************************************************************************)
EXTENDS Integers, Sequences, FiniteSets, SequencesExt

CONSTANTS
  Requests,    \* the tool calls
  Op,          \* Op[r]: "propose", "edit", "approve" or "execute"
  TaskCount,   \* tasks of every version of the plan
  Delegated,   \* the indices of those that are DELEGATED, with a follow-up task
  Faults,      \* what may go wrong: "create", "followup", "delete" and "save" fail,
               \* "cancel" ends one call at an await, "crash" the process
  MaxFaults,   \* bound: how often
  MaxActive,   \* bound: tool calls under way at a time
  None

ASSUME PlanAssumption ==
  /\ Op \in [Requests -> {"propose", "edit", "approve", "execute"}]
  /\ TaskCount \in Nat \ {0} /\ Delegated \subseteq 1..TaskCount
  /\ Faults \subseteq {"create", "followup", "delete", "save", "cancel", "crash"}
  /\ MaxFaults \in Nat /\ MaxActive \in Nat \ {0}
  /\ IsFiniteSet(Requests) /\ None \notin Requests

VARIABLES
  objects,    \* the plan dicts in memory, by the request that made them
  cache,      \* _pending_plans: the request whose dict is cached
  stored,     \* the plan in storage
  handler,    \* the tool calls
  nodes,      \* the goal and task nodes in the graph
  approved,   \* the task lists the user has approved
  faults      \* what has failed, oldest first

vars == <<objects, cache, stored, handler, nodes, approved, faults>>

\* The requests that wrote a plan's title and its tasks.
Plan == [status : {"DRAFT", "APPROVED", "EXECUTED"}, title : Requests, version : Requests]

ASSUME NoneAssumption == None \notin Plan

Indices == 1..TaskCount

\* The version of a goal is whose title it has, of the others whose task they are.
Node == [kind : {"goal", "task", "followup"}, by : Requests, index : 0..TaskCount,
         version : Requests]

\* A tool call: the plan dict it works on, the plan it has read or writes, the tasks
\* it was asked for, the version it creates, the nodes created so far.  One that is
\* "cut" was cancelled, or stopped with the process.
Call == [pc : {"new", "loaded", "saving", "goal", "tasks", "followup", "rollback", "done",
               "cut"},
         dict : Requests \cup {None}, read : Plan \cup {None}, picked : SUBSET Indices,
         version : Requests \cup {None}, created : Seq(Node)]

Fault(kind) == /\ kind \in Faults /\ Len(faults) < MaxFaults
               /\ faults' = Append(faults, kind)

Happened(kinds) == \E i \in DOMAIN faults : faults[i] \in kinds

Idle == [pc |-> "new", dict |-> None, read |-> None, picked |-> {}, version |-> None,
         created |-> <<>>]

At(r, pc) == handler[r].pc = pc

Active == {r \in Requests : handler[r].pc \notin {"new", "done", "cut"}}

Init ==
  /\ objects = [r \in Requests |-> None]
  /\ cache = None
  /\ stored = None
  /\ handler = [r \in Requests |-> Idle]
  /\ nodes = {}
  /\ approved = {}
  /\ faults = <<>>

\* _load_pending_plan has given r the dict, which is the cached one from now on.
Take(r, dict, plan, pc) ==
  /\ objects' = [objects EXCEPT ![dict] = plan]
  /\ cache' = dict
  /\ handler' = [handler EXCEPT ![r].pc = pc, ![r].dict = dict, ![r].read = plan]

\* _persist_pending_plan: the dict is cached and serialized as it is now; the
\* write is awaited.
Persist(r, dict, plan) == Take(r, dict, plan, "saving")

-----------------------------------------------------------------------------
\* The planning call to the LLM has returned the tasks.
ProposePlan(r) ==
  /\ Op[r] = "propose" /\ At(r, "new") /\ Cardinality(Active) < MaxActive
  /\ Persist(r, r, [status |-> "DRAFT", title |-> r, version |-> r])
  /\ UNCHANGED <<stored, nodes, approved, faults>>

\* Mutant: an edit keeps the approval.
EditKeepsApproval(r, dict, plan) ==
  IF plan.status = "EXECUTED" THEN Take(r, dict, plan, "done")
  ELSE Persist(r, dict, [plan EXCEPT !.version = r])

\* The title is written into the dict before the tasks are looked at: an edit that is
\* refused for its tasks, or has nothing to change, leaves the status as it was.
EditPlan(r, dict, plan) ==
  IF plan.status = "EXECUTED" THEN Take(r, dict, plan, "done")
  ELSE \E title \in {plan.title, r}, version \in {plan.version, r} :
         \/ /\ r \in {title, version}
            /\ Persist(r, dict, [status |-> "DRAFT", title |-> title, version |-> version])
         \/ Take(r, dict, [plan EXCEPT !.title = title], "done")

\* Mutant: an executed plan can be approved.
ApproveAnyPlan(r, dict, plan) ==
  IF plan.status = "APPROVED" THEN Take(r, dict, plan, "done")
  ELSE Persist(r, dict, [plan EXCEPT !.status = "APPROVED"])

ApprovePlan(r, dict, plan) ==
  IF plan.status # "DRAFT" THEN Take(r, dict, plan, "done")
  ELSE Persist(r, dict, [plan EXCEPT !.status = "APPROVED"])

ExecutePlan(r, dict, plan) ==
  Take(r, dict, plan, IF plan.status = "APPROVED" THEN "goal" ELSE "done")

\* The tool up to its next await, once it has the plan.
Work(r, dict, plan) ==
  /\ \/ Op[r] = "edit" /\ EditPlan(r, dict, plan)
     \/ Op[r] = "approve" /\ ApprovePlan(r, dict, plan)
     \/ Op[r] = "execute" /\ ExecutePlan(r, dict, plan)
  /\ approved' = IF Op[r] = "approve" /\ plan.status = "DRAFT"
                 THEN approved \cup {plan.version} ELSE approved

\* The cached dict is used as it is; without one, storage is read.
Begin(r) ==
  /\ Op[r] # "propose" /\ At(r, "new") /\ Cardinality(Active) < MaxActive
  /\ \/ cache # None /\ Work(r, cache, objects[cache])
     \/ /\ cache = None
        /\ handler' = IF stored = None THEN [handler EXCEPT ![r].pc = "done"]
                      ELSE [handler EXCEPT ![r].pc = "loaded", ![r].read = stored]
        /\ UNCHANGED <<objects, cache, approved>>
  /\ UNCHANGED <<stored, nodes, faults>>

Resume(r) ==
  /\ At(r, "loaded")
  /\ Work(r, r, handler[r].read)
  /\ UNCHANGED <<stored, nodes, faults>>

\* The write ends; one that fails is logged.
Save(r) ==
  /\ At(r, "saving")
  /\ \/ stored' = handler[r].read /\ UNCHANGED faults
     \/ Fault("save") /\ UNCHANGED stored
  /\ handler' = [handler EXCEPT ![r].pc = "done"]
  /\ UNCHANGED <<objects, cache, nodes, approved>>

-----------------------------------------------------------------------------
\* execute_plan.  The title is that of the dict when the plan was found approved; the
\* tasks, all or those of approved_task_ids (none, when the ids
\* are of another version), are read from the dict when the goal has been created.
CreateGoal(r) ==
  LET version == objects[handler[r].dict].version
      goal == [kind |-> "goal", by |-> r, index |-> 0, version |-> handler[r].read.title]
  IN /\ At(r, "goal")
     /\ \/ \E picked \in SUBSET Indices :
             /\ nodes' = nodes \cup {goal}
             /\ handler' = [handler EXCEPT ![r].pc = "tasks", ![r].version = version,
                                           ![r].picked = picked, ![r].created = <<goal>>]
             /\ UNCHANGED faults
        \/ /\ Fault("create")
           /\ handler' = [handler EXCEPT ![r].pc = "done"]
           /\ UNCHANGED nodes
     /\ UNCHANGED <<objects, cache, stored, approved>>

Created(r, i) == \E n \in nodes : n.by = r /\ n.kind = "task" /\ n.index = i

ToCreate(r) == {i \in handler[r].picked : ~Created(r, i)}

CreateTask(r) ==
  /\ At(r, "tasks")
  /\ \E i \in ToCreate(r) :
       LET task == [kind |-> "task", by |-> r, index |-> i, version |-> handler[r].version] IN
       /\ \A k \in ToCreate(r) : i <= k
       /\ \/ /\ nodes' = nodes \cup {task}
             /\ handler' = [handler EXCEPT ![r].created = Append(@, task),
                              ![r].pc = IF i \in Delegated THEN "followup" ELSE "tasks"]
             /\ UNCHANGED faults
          \/ /\ Fault("create")
             /\ handler' = [handler EXCEPT ![r].pc = "rollback"]
             /\ UNCHANGED nodes
  /\ UNCHANGED <<objects, cache, stored, approved>>

\* The follow-up of a delegated task.  A failure, of its creation or of the edge that
\* comes after it, is logged and its id is not returned.
SpawnFollowUp(r) ==
  LET task == Last(handler[r].created)
      followup == [task EXCEPT !.kind = "followup"]
  IN /\ At(r, "followup")
     /\ \/ /\ nodes' = nodes \cup {followup}
           /\ handler' = [handler EXCEPT ![r].created = Append(@, followup), ![r].pc = "tasks"]
           /\ UNCHANGED faults
        \/ /\ Fault("followup")
           /\ nodes' \in {nodes, nodes \cup {followup}}
           /\ handler' = [handler EXCEPT ![r].pc = "tasks"]
     /\ UNCHANGED <<objects, cache, stored, approved>>

\* Every task was created: the plan is marked and saved.
FinishExecute(r) ==
  /\ At(r, "tasks") /\ ToCreate(r) = {}
  /\ Persist(r, handler[r].dict, [objects[handler[r].dict] EXCEPT !.status = "EXECUTED"])
  /\ UNCHANGED <<stored, nodes, approved, faults>>

\* Mutant: the goal is not among the nodes to delete.
RollbackTasks(r) ==
  LET n == Last(handler[r].created) IN
  /\ At(r, "rollback")
  /\ \/ nodes' = (IF n.kind = "goal" THEN nodes ELSE nodes \ {n}) /\ UNCHANGED faults
     \/ Fault("delete") /\ UNCHANGED nodes
  /\ handler' = [handler EXCEPT ![r].created = Front(@),
                                ![r].pc = IF Len(handler[r].created) = 1 THEN "done" ELSE @]
  /\ UNCHANGED <<objects, cache, stored, approved>>

\* The nodes created are deleted, the last one first; a delete that fails is logged.
Rollback(r) ==
  LET n == Last(handler[r].created) IN
  /\ At(r, "rollback")
  /\ \/ nodes' = nodes \ {n} /\ UNCHANGED faults
     \/ Fault("delete") /\ UNCHANGED nodes
  /\ handler' = [handler EXCEPT ![r].created = Front(@),
                                ![r].pc = IF Len(handler[r].created) = 1 THEN "done" ELSE @]
  /\ UNCHANGED <<objects, cache, stored, approved>>

\* The client of a streamed turn goes away: the call is cancelled at its await, before or
\* after what it awaited took effect.  CancelledError is no Exception: nothing is rolled
\* back, the plan in memory is as it was, and the process goes on.
Cancel(r) ==
  /\ r \in Active /\ Fault("cancel")
  /\ handler' = [handler EXCEPT ![r].pc = "cut"]
  /\ UNCHANGED <<objects, cache, stored, nodes, approved>>

\* The process stops: storage and the graph stay.
Crash ==
  /\ Fault("crash")
  /\ objects' = [r \in Requests |-> None]
  /\ cache' = None
  /\ handler' = [r \in Requests |-> IF r \in Active THEN [handler[r] EXCEPT !.pc = "cut"]
                                    ELSE handler[r]]
  /\ UNCHANGED <<stored, nodes, approved>>

Next == \/ \E r \in Requests : \/ ProposePlan(r) \/ Begin(r) \/ Resume(r) \/ Save(r)
                               \/ CreateGoal(r) \/ CreateTask(r) \/ SpawnFollowUp(r)
                               \/ FinishExecute(r) \/ Rollback(r) \/ Cancel(r)
        \/ Crash

Spec == Init /\ [][Next]_vars

-----------------------------------------------------------------------------
TypeOK ==
  /\ objects \in [Requests -> Plan \cup {None}]
  /\ cache \in Requests \cup {None}
  /\ cache # None => objects[cache] # None
  /\ stored \in Plan \cup {None}
  /\ handler \in [Requests -> Call]
  /\ nodes \subseteq Node
  /\ approved \subseteq Requests
  /\ faults \in Seq(Faults) /\ Len(faults) <= MaxFaults

\* "Any edit after approval requires re-approval before execution": the tasks in
\* the graph are those of a version of the plan that was approved.
OnlyApprovedTasks == \A n \in nodes : n.kind = "task" => n.version \in approved

\* "Create the goal/tasks atomically": when execute_plan has ended by itself, its goal
\* and all the tasks it was to create are in the graph, or nothing of it is.  (A node
\* whose delete fails stays, and so does a follow-up that was forgotten; a call that was
\* cut leaves what it has made.)
AllOrNothing ==
  Happened({"delete", "followup"}) \/
  \A r \in Requests :
    At(r, "done") => \/ \A n \in nodes : n.by # r
                     \/ \E n \in nodes : n.by = r /\ n.kind = "goal" /\ ToCreate(r) = {}

\* "Plan has already been executed": however often creates and saves fail, calls are
\* cancelled and the tools are called again, the calls that were not cancelled bring one
\* goal into the graph.  (The plan is EXECUTED only after its last task: the goal of a
\* cancelled call is no bar to the next one, and a restart forgets the goal.)
ExecutedOnce ==
  \/ Happened({"delete", "crash"})
  \/ Cardinality({n \in nodes : n.kind = "goal" /\ ~At(n.by, "cut")}) <= 1

\* The plan in storage, once EXECUTED, is never edited or approved again.
ExecutedIsFinal ==
  [][stored # None /\ stored.status = "EXECUTED" => stored' = stored]_vars
=============================================================================
