--------------------------- MODULE DispatchPlanner ---------------------------
(***************************************************************************)
(* AgentDispatchPlanner.plan (agent/dispatch_planner.py): the dependency   *)
(* edges among the delegated tasks are fetched task by task, and Kahn's    *)
(* algorithm turns them into tiers of jobs.                                *)
(***************************************************************************)
EXTENDS Integers, Sequences, FiniteSets

CONSTANTS
  Jobs,        \* the delegate_to_agent calls of one turn, one at least
  TaskOf       \* TaskOf[j]: the task that call j delegates

ASSUME PlannerAssumption == Jobs # {} /\ IsFiniteSet(Jobs)

TaskIds == {TaskOf[j] : j \in Jobs}

VARIABLES
  depends,   \* <<t, d>>: what the graph says, t depends on d
  phase,     \* "fetch", "sort" or "planned"
  unread,    \* tasks whose edges have still to be fetched
  edges,     \* the edges fetched
  degree,    \* in_degree
  queue,     \* the tasks that are ready
  tiers,     \* the tiers of tasks so far
  plan,      \* what plan() returns: the jobs of each tier
  faulted    \* the edge query raised

plannerVars == <<depends, phase, unread, edges, degree, queue, tiers, plan, faulted>>

\* One job needs no planning.
Single == Cardinality(Jobs) = 1

PlannerInit ==
  /\ depends \in SUBSET (TaskIds \X TaskIds)
  /\ phase = IF Single THEN "planned" ELSE "fetch"
  /\ unread = TaskIds
  /\ edges = {}
  /\ degree = [t \in TaskIds |-> 0]
  /\ queue = {}
  /\ tiers = <<>>
  /\ plan = IF Single THEN <<Jobs>> ELSE <<>>
  /\ faulted = FALSE

InDegree(es) == [t \in TaskIds |-> Cardinality({e \in es : e[1] = t})]

\* task_id_to_job keeps one job per task.
JobsKept == {k \in SUBSET Jobs : /\ {TaskOf[j] : j \in k} = TaskIds
                                 /\ Cardinality(k) = Cardinality(TaskIds)}

\* Without edges there is a single tier of all the jobs; else the sort begins.
AfterFetch(es) ==
  /\ edges' = es
  /\ IF es = {}
     THEN /\ plan' = <<Jobs>>
          /\ phase' = "planned"
          /\ UNCHANGED <<degree, queue>>
     ELSE /\ degree' = InDegree(es)
          /\ queue' = {t \in TaskIds : InDegree(es)[t] = 0}
          /\ phase' = "sort"
          /\ UNCHANGED plan

\* _fetch_dependency_edges: the outgoing DEPENDS_ON edges of one more task.
FetchEdges ==
  /\ phase = "fetch"
  /\ \E t \in unread :
       LET es == edges \cup {e \in depends : e[1] = t} IN
       /\ unread' = unread \ {t}
       /\ IF unread = {t}
          THEN AfterFetch(es)
          ELSE edges' = es /\ UNCHANGED <<phase, degree, queue, plan>>
  /\ UNCHANGED <<depends, tiers, faulted>>

\* The query raises: the edges fetched so far are returned.
FetchFails ==
  /\ phase = "fetch"
  /\ faulted' = TRUE
  /\ unread' = {}
  /\ AfterFetch(edges)
  /\ UNCHANGED <<depends, tiers>>

\* Mutants: a dependent is ready when its first dependency is placed; the ready
\* tasks are placed one by one.
SortTierEagerly ==
  LET placed == [t \in TaskIds |-> Cardinality({e \in edges : e[1] = t /\ e[2] \in queue})]
  IN /\ phase = "sort" /\ queue # {}
     /\ tiers' = Append(tiers, queue)
     /\ degree' = [t \in TaskIds |-> IF placed[t] > 0 THEN 0 ELSE degree[t]]
     /\ queue' = {t \in TaskIds : degree[t] > 0 /\ placed[t] > 0}
     /\ UNCHANGED <<depends, phase, unread, edges, plan, faulted>>

SortOneByOne ==
  /\ phase = "sort"
  /\ \E q \in queue :
       LET placed == [t \in TaskIds |-> Cardinality({e \in edges : e = <<t, q>>})]
       IN /\ tiers' = Append(tiers, {q})
          /\ degree' = [t \in TaskIds |-> degree[t] - placed[t]]
          /\ queue' = (queue \ {q}) \cup {t \in TaskIds : degree[t] > 0 /\ degree'[t] = 0}
  /\ UNCHANGED <<depends, phase, unread, edges, plan, faulted>>

\* _topological_sort: the whole queue is one tier; a task whose last dependency
\* is in it is queued for the next.
SortTier ==
  LET placed == [t \in TaskIds |-> Cardinality({e \in edges : e[1] = t /\ e[2] \in queue})]
  IN /\ phase = "sort" /\ queue # {}
     /\ tiers' = Append(tiers, queue)
     /\ degree' = [t \in TaskIds |-> degree[t] - placed[t]]
     /\ queue' = {t \in TaskIds : degree[t] > 0 /\ degree[t] = placed[t]}
     /\ UNCHANGED <<depends, phase, unread, edges, plan, faulted>>

CycleRemainder == {t \in TaskIds : degree[t] > 0}

\* Mutant: the tasks of a cycle are left out of the plan.
FinishWithoutCycle ==
  /\ phase = "sort" /\ queue = {}
  /\ \E kept \in JobsKept :
       plan' = [i \in 1..Len(tiers) |-> {j \in kept : TaskOf[j] \in tiers[i]}]
  /\ phase' = "planned"
  /\ UNCHANGED <<depends, unread, edges, degree, queue, tiers, faulted>>

\* The tasks of a cycle, and those behind one, are a last tier; tasks are
\* mapped back to jobs.
FinishPlan ==
  LET all == IF CycleRemainder = {} THEN tiers ELSE Append(tiers, CycleRemainder)
  IN /\ phase = "sort" /\ queue = {}
     /\ \E kept \in JobsKept :
          plan' = [i \in 1..Len(all) |-> {j \in kept : TaskOf[j] \in all[i]}]
     /\ phase' = "planned"
     /\ UNCHANGED <<depends, unread, edges, degree, queue, tiers, faulted>>

PlannerNext == FetchEdges \/ FetchFails \/ SortTier \/ FinishPlan

PlannerSpec == PlannerInit /\ [][PlannerNext]_plannerVars

-----------------------------------------------------------------------------
PlannerTypeOK ==
  /\ depends \subseteq TaskIds \X TaskIds
  /\ phase \in {"fetch", "sort", "planned"}
  /\ unread \subseteq TaskIds
  /\ edges \subseteq depends
  /\ degree \in [TaskIds -> Nat]
  /\ queue \subseteq TaskIds
  /\ tiers \in Seq(SUBSET TaskIds)
  /\ plan \in Seq(SUBSET Jobs)
  /\ faulted \in BOOLEAN

Planned == phase = "planned"

TierOf(t) == CHOOSE i \in 1..Len(plan) : \E j \in plan[i] : TaskOf[j] = t

\* Reference: t can be ordered when the fetched edges lead from it to no cycle: of the tasks
\* they lead to, each group has one that depends on none of the group.
Orderable(t) ==
  \E reach \in SUBSET TaskIds :
    /\ t \in reach /\ \A e \in edges : e[1] \in reach => e[2] \in reach
    /\ \A group \in SUBSET reach \ {{}} :
         \E s \in group : \A e \in edges : e[1] = s => e[2] \notin group

\* Every delegated task has its jobs in exactly one tier, and no tier is empty:
\* neither a cycle nor a failed query loses a delegation.
EachJobInOneTier ==
  Planned => /\ \A j \in Jobs : Cardinality({i \in 1..Len(plan) : j \in plan[i]}) = 1
             /\ \A i \in 1..Len(plan) : plan[i] # {}

\* A task is in a later tier than everything it depends on, unless it is in a
\* cycle or behind one.
TiersRespectEdges ==
  Planned /\ Len(plan) > 1 =>
    \A e \in edges : Orderable(e[1]) => TierOf(e[2]) < TierOf(e[1])

\* No task waits longer than its dependencies make it: an orderable task after
\* the first tier depends on one in the tier just before its own.
TiersAreTight ==
  Planned /\ Len(plan) > 1 =>
    \A t \in TaskIds : Orderable(t) /\ TierOf(t) > 1 =>
      \E e \in edges : e[1] = t /\ TierOf(e[2]) = TierOf(t) - 1
=============================================================================
