----------------------------- MODULE TaskCascade -----------------------------
(***************************************************************************)
(* The handlers that move tasks through the state machine and the cascade  *)
(* of state/cascade.py they run when a task completes: activation of the   *)
(* tasks that depend on it, completion of the composites it is part of,    *)
(* and so on upwards.                                                      *)
(*                                                                         *)
(* Handlers are coroutines over one graph store.  Every get_node and every *)
(* update_node is an await, so a handler works on copies that other        *)
(* handlers may have overtaken, and update_node writes the whole copy      *)
(* back (model_dump) with no version check.  One action here is the code   *)
(* between two awaits.                                                     *)
(***************************************************************************)
EXTENDS StateMachine, FiniteSets

CONSTANTS
  Tasks,           \* the task nodes
  Info,            \* Info[t]: the properties of t the guards read
  InitState,       \* InitState[t]: the state t was created in
  PartOf,          \* <<child, parent>>: PART_OF edges
  DependsOn,       \* <<dependent, predecessor>>: DEPENDS_ON edges
  Handlers,        \* the requests; each is issued at most once
  Requests,        \* what a request may ask for
  MaxInFlight,     \* how many requests may overlap
  MayFail,         \* whether a store call may raise (or the process stop)
  MayMiss,         \* the tasks that a read may not give: no node, or a row that does not parse
  StorePrincipal   \* the principal the graph store is bound to

RequestKind == {"transition", "tool", "approve", "deny"}

\* transition is POST /tasks/{id}/transition and `graphclaw task`, tool is the
\* agent's update_task_state, approve and deny are the routes for APPROVAL
\* tasks.  target is the state the first two ask for.
Request == [kind : RequestKind, task : Tasks, target : TaskState]

ASSUME ConstantsAssumption ==
  /\ Info \in [Tasks -> TaskInfo]
  /\ InitState \in [Tasks -> TaskState]
  /\ PartOf \subseteq Tasks \X Tasks
  /\ DependsOn \subseteq Tasks \X Tasks
  /\ Requests \subseteq Request
  /\ \A r \in Requests : r.kind \in {"approve", "deny"}
                           => Info[r.task].type = "APPROVAL"
  /\ MaxInFlight \in Nat
  /\ MayFail \in BOOLEAN
  /\ MayMiss \subseteq Tasks

Children(p)   == {c \in Tasks : <<c, p>> \in PartOf}
Parents(c)    == {p \in Tasks : <<c, p>> \in PartOf}
Dependents(t) == {d \in Tasks : <<d, t>> \in DependsOn}

VARIABLES
  node,      \* node[t]: the record of t in the graph store
  pc,        \* pc[h]: where handler h is suspended
  req,       \* req[h]: the request h serves
  snap,      \* snap[h][t]: the copy of t that h read last
  todo,      \* todo[h]: nodes that the loop h is in has still to read
  writes,    \* writes[h]: activated copies that h has still to persist
  parent,    \* parent[h]: the composite whose children h reads
  loaded,    \* loaded[h]: the children it has read
  stack,     \* stack[h]: the nested run_post_transition_cascade calls
  notified   \* notified[t]: TASK_CASCADE_COMPLETE notifications for t

vars == <<node, pc, req, snap, todo, writes, parent, loaded, stack, notified>>

\* One call of run_post_transition_cascade: the task it was called for and the
\* parents its loop has still to visit.
Frame == [task : Tasks, parents : SUBSET Tasks]

PC == {"idle", "apply", "cascade", "children", "notify",
       "done", "rejected", "failed"}

NoRequest == [kind |-> "none"]

InFlight == {h \in Handlers : pc[h] \in {"apply", "cascade", "children", "notify"}}

-----------------------------------------------------------------------------
\* The states approve drives its task through (_drive_to_complete).
ApprovePath(s) ==
  CASE s = "PENDING"  -> <<"ACTIVE", "IN_PROGRESS", "COMPLETE">>
    [] s = "ACTIVE"   -> <<"IN_PROGRESS", "COMPLETE">>
    [] s = "COMPLETE" -> <<>>
    [] OTHER          -> <<"COMPLETE">>

\* The transitions a request applies in memory before it persists its task.
RequestPath(r, s) ==
  CASE r.kind = "approve" -> ApprovePath(s)
    [] r.kind = "deny"    -> <<"CANCELLED">>
    [] OTHER              -> <<r.target>>

\* Every caller passes HUMAN, the agent's own tool included.
RequestActor(r) == "HUMAN"

\* Every caller but deny goes on with run_post_transition_cascade.
Cascades(r, rec) == rec.state = "COMPLETE" /\ r.kind # "deny"

\* update_node(id, task.model_dump()) carries lifecycle fields, which the store
\* refuses when it is bound to the agent principal.
FullDumpAllowed == StorePrincipal # "agent_principal"

-----------------------------------------------------------------------------
\* check_composite_completion, on the copies of a parent and of the children that were read.
OpenOf(copy, children) == {c \in children : copy[c].state # "COMPLETE"}

AutoCompletable(copy, p) ==
  /\ copy[p].state \notin {"COMPLETE", "CANCELLED"}
  /\ Info[p].type \in {"COMPOSITE", "MILESTONE"}
  /\ Info[p].autoComplete

HumanChildOpen(copy, children) ==
  \E c \in OpenOf(copy, children) : Info[c].type \in {"REVIEW", "APPROVAL"}

\* Mutant: an AND gate opens with the first child.
GateOpensEarly(copy, p, children) == OpenOf(copy, children) # children

GateSatisfied(copy, p, children) == Info[p].gate = "AND" => OpenOf(copy, children) = {}

LowConfidenceChild(children) ==
  \E c \in children : Info[c].type \in {"RESEARCH", "REVIEW"} /\ Info[c].lowConf

ParentResolves(copy, p, children) ==
  /\ AutoCompletable(copy, p)
  /\ ~HumanChildOpen(copy, children)
  /\ GateSatisfied(copy, p, children)

ParentTarget(children) == IF LowConfidenceChild(children) THEN "NEEDS_REVIEW" ELSE "COMPLETE"

-----------------------------------------------------------------------------
Init ==
  /\ node = [t \in Tasks |-> [state |-> InitState[t], hist |-> <<>>]]
  /\ pc = [h \in Handlers |-> "idle"]
  /\ req = [h \in Handlers |-> NoRequest]
  /\ snap = [h \in Handlers |-> node]
  /\ todo = [h \in Handlers |-> {}]
  /\ writes = [h \in Handlers |-> {}]
  /\ parent = [h \in Handlers |-> {}]
  /\ loaded = [h \in Handlers |-> {}]
  /\ stack = [h \in Handlers |-> <<>>]
  /\ notified = [t \in Tasks |-> 0]

Goto(h, label) == pc' = [pc EXCEPT ![h] = label]

\* get_node: h now holds a copy of t, which others may overtake.
Read(h, t) == snap' = [snap EXCEPT ![h][t] = node[t]]

\* update_node(t, copy.model_dump()): the whole copy, no version check.
Write(h, t, copy) == /\ node' = [node EXCEPT ![t] = copy]
                     /\ snap' = [snap EXCEPT ![h][t] = copy]

\* run_post_transition_cascade(t) starts with the dependents of t.
StartCascade(h, t) ==
  /\ stack' = [stack EXCEPT ![h] = <<[task |-> t, parents |-> Parents(t)]>> \o @]
  /\ todo' = [todo EXCEPT ![h] = Dependents(t)]
  /\ Goto(h, "cascade")

\* A request arrives and its handler reads the task.
Begin(h) ==
  /\ pc[h] = "idle"
  /\ Cardinality(InFlight) < MaxInFlight
  /\ \E r \in Requests :
       /\ req' = [req EXCEPT ![h] = r]
       /\ Read(h, r.task)
  /\ Goto(h, "apply")
  /\ UNCHANGED <<node, todo, writes, parent, loaded, stack, notified>>

\* The row as the store has it may not validate: approve and deny do not parse its
\* JSON fields first.
Unparsed(r) == r.kind \in {"approve", "deny"} \/ r.task \in MayMiss

\* The handler applies its transitions to the copy it read: the state machine
\* rejects one of them, or the store refuses the write, or it is persisted.
Apply(h) ==
  LET r     == req[h]
      old   == snap[h][r.task]
      path  == RequestPath(r, old.state)
      new   == Walked(old, path, RequestActor(r))
      legal == CanWalk(Info[r.task], old, path, RequestActor(r))
  IN /\ pc[h] = "apply"
     /\ UNCHANGED <<req, writes, parent, loaded, notified>>
     /\ \/ /\ Unparsed(r)
           /\ Goto(h, "failed")
           /\ UNCHANGED <<node, snap, todo, stack>>
        \/ /\ ~(legal /\ FullDumpAllowed)
           /\ Goto(h, IF legal THEN "failed" ELSE "rejected")
           /\ UNCHANGED <<node, snap, todo, stack>>
        \/ /\ legal /\ FullDumpAllowed
           /\ Write(h, r.task, new)
           /\ IF Cascades(r, new)
              THEN StartCascade(h, r.task)
              ELSE Goto(h, "done") /\ UNCHANGED <<todo, stack>>

\* Mutant: the activated copies are not handed on to be persisted.
ReadDependentOnly(h) ==
  /\ pc[h] = "cascade"
  /\ \E d \in todo[h] : Read(h, d) /\ todo' = [todo EXCEPT ![h] = @ \ {d}]
  /\ UNCHANGED <<node, pc, req, writes, parent, loaded, stack, notified>>

\* activate_next_in_chain reads one dependent and activates its copy, or leaves out one that
\* it cannot read.
ReadDependent(h) ==
  /\ pc[h] = "cascade"
  /\ \E d \in todo[h] :
       /\ todo' = [todo EXCEPT ![h] = @ \ {d}]
       /\ \/ /\ node[d].state = "INACTIVE_PENDING"
             /\ snap' = [snap EXCEPT ![h][d] = Transitioned(node[d], "ACTIVE", "CASCADE")]
             /\ writes' = [writes EXCEPT ![h] = @ \cup {d}]
          \/ node[d].state # "INACTIVE_PENDING" /\ Read(h, d) /\ UNCHANGED writes
          \/ d \in MayMiss /\ UNCHANGED <<snap, writes>>
  /\ UNCHANGED <<node, pc, req, parent, loaded, stack, notified>>

\* Only when every dependent has been read are the activated ones persisted.
WriteActivated(h) ==
  /\ pc[h] = "cascade" /\ todo[h] = {}
  /\ \E d \in writes[h] :
       /\ Write(h, d, snap[h][d])
       /\ writes' = [writes EXCEPT ![h] = @ \ {d}]
  /\ UNCHANGED <<pc, req, todo, parent, loaded, stack, notified>>

\* Mutants: the children are taken from the copies the handler has (they are
\* not read again); the loop does not move on to its next parent.
LoadParentCached(h) ==
  /\ pc[h] = "cascade" /\ todo[h] = {} /\ writes[h] = {}
  /\ \E p \in Head(stack[h]).parents :
       /\ Read(h, p)
       /\ stack' = [stack EXCEPT ![h][1].parents = @ \ {p}]
       /\ parent' = [parent EXCEPT ![h] = {p}]
       /\ loaded' = [loaded EXCEPT ![h] = Children(p)]
  /\ Goto(h, "children")
  /\ UNCHANGED <<node, req, todo, writes, notified>>

LoadParentAgain(h) ==
  /\ pc[h] = "cascade" /\ todo[h] = {} /\ writes[h] = {}
  /\ \E p \in Head(stack[h]).parents :
       /\ Read(h, p)
       /\ parent' = [parent EXCEPT ![h] = {p}]
       /\ todo' = [todo EXCEPT ![h] = Children(p)]
  /\ Goto(h, "children")
  /\ UNCHANGED <<node, req, writes, loaded, stack, notified>>

\* The loop over PART_OF edges reads its next parent.
LoadParent(h) ==
  /\ pc[h] = "cascade" /\ todo[h] = {} /\ writes[h] = {}
  /\ \E p \in Head(stack[h]).parents :
       /\ Read(h, p)
       /\ stack' = [stack EXCEPT ![h][1].parents = @ \ {p}]
       /\ parent' = [parent EXCEPT ![h] = {p}]
       /\ todo' = [todo EXCEPT ![h] = Children(p)]
  /\ Goto(h, "children")
  /\ UNCHANGED <<node, req, writes, loaded, notified>>

\* Or goes on without a parent that it cannot read.
MissParent(h) ==
  /\ pc[h] = "cascade" /\ todo[h] = {} /\ writes[h] = {}
  /\ \E p \in Head(stack[h]).parents \cap MayMiss :
       stack' = [stack EXCEPT ![h][1].parents = @ \ {p}]
  /\ UNCHANGED <<node, pc, req, snap, todo, writes, parent, loaded, notified>>

\* _load_children_for_parent reads the children one after the other; one that it cannot read
\* is left out, as if the parent did not have it.
ReadChild(h) ==
  /\ pc[h] = "children"
  /\ \E c \in todo[h] :
       /\ todo' = [todo EXCEPT ![h] = @ \ {c}]
       /\ \/ Read(h, c) /\ loaded' = [loaded EXCEPT ![h] = @ \cup {c}]
          \/ c \in MayMiss /\ UNCHANGED <<snap, loaded>>
  /\ UNCHANGED <<node, pc, req, writes, parent, stack, notified>>

\* Mutant: the cascade goes on without asking whether the parent just moved.
ResolveParentUnasked(h) ==
  /\ pc[h] = "children" /\ todo[h] = {}
  /\ \E p \in parent[h] :
       IF ParentResolves(snap[h], p, loaded[h])
       THEN /\ Write(h, p, Transitioned(snap[h][p], ParentTarget(loaded[h]), "CASCADE"))
            /\ Goto(h, "notify")
       ELSE /\ Goto(h, IF snap[h][p].state = "COMPLETE" THEN "notify" ELSE "cascade")
            /\ UNCHANGED <<node, snap>>
  /\ loaded' = [loaded EXCEPT ![h] = {}]
  /\ UNCHANGED <<req, todo, writes, parent, stack, notified>>

\* check_composite_completion on the copies and, when it moved the parent, the
\* write of the parent.  A transition the machine does not permit raises out of
\* the cascade: the child stays persisted, the rest of the cascade is lost.
ResolveParent(h) ==
  /\ pc[h] = "children" /\ todo[h] = {}
  /\ \E p \in parent[h] :
       LET old == snap[h][p]
           to  == ParentTarget(loaded[h])
       IN \/ /\ ~ParentResolves(snap[h], p, loaded[h])
             /\ Goto(h, "cascade")
             /\ UNCHANGED <<node, snap>>
          \/ /\ ParentResolves(snap[h], p, loaded[h])
             /\ ~CanTransition(Info[p], old.state, to, "CASCADE")
             /\ Goto(h, "failed")
             /\ UNCHANGED <<node, snap>>
          \/ /\ ParentResolves(snap[h], p, loaded[h])
             /\ CanTransition(Info[p], old.state, to, "CASCADE")
             /\ Write(h, p, Transitioned(old, to, "CASCADE"))
             /\ Goto(h, IF to = "COMPLETE" THEN "notify" ELSE "cascade")
  /\ loaded' = [loaded EXCEPT ![h] = {}]
  /\ UNCHANGED <<req, todo, writes, parent, stack, notified>>

\* A parent that completed is announced and its own cascade runs, nested.
NotifyAndRecurse(h) ==
  /\ pc[h] = "notify"
  /\ \E p \in parent[h] :
       /\ notified' = [notified EXCEPT ![p] = @ + 1]
       /\ StartCascade(h, p)
  /\ UNCHANGED <<node, req, snap, writes, parent, loaded>>

\* A run_post_transition_cascade call returns to its caller.
FinishCascade(h) ==
  /\ pc[h] = "cascade" /\ todo[h] = {} /\ writes[h] = {}
  /\ Head(stack[h]).parents = {}
  /\ stack' = [stack EXCEPT ![h] = Tail(@)]
  /\ Goto(h, IF Len(stack[h]) = 1 THEN "done" ELSE "cascade")
  /\ UNCHANGED <<node, req, snap, todo, writes, parent, loaded, notified>>

\* A store call raises, or the process stops: nothing resumes the handler.
Fail(h) ==
  /\ MayFail
  /\ h \in InFlight
  /\ Goto(h, "failed")
  /\ UNCHANGED <<node, req, snap, todo, writes, parent, loaded, stack, notified>>

Proceed(h) ==
  \/ Apply(h)
  \/ ReadDependent(h)
  \/ WriteActivated(h)
  \/ LoadParent(h)
  \/ MissParent(h)
  \/ ReadChild(h)
  \/ ResolveParent(h)
  \/ NotifyAndRecurse(h)
  \/ FinishCascade(h)

Next == \E h \in Handlers : Begin(h) \/ Proceed(h) \/ Fail(h)

Spec == Init /\ [][Next]_vars

\* A handler that runs is resumed by the event loop until it ends; nobody has
\* to send a request.
FairSpec == Spec /\ \A h \in Handlers : WF_vars(Proceed(h))

-----------------------------------------------------------------------------
TypeOK ==
  /\ node \in [Tasks -> TaskRecord]
  /\ pc \in [Handlers -> PC]
  /\ req \in [Handlers -> Request \cup {NoRequest}]
  /\ snap \in [Handlers -> [Tasks -> TaskRecord]]
  /\ todo \in [Handlers -> SUBSET Tasks]
  /\ writes \in [Handlers -> SUBSET Tasks]
  /\ parent \in [Handlers -> SUBSET Tasks]
  /\ loaded \in [Handlers -> SUBSET Tasks]
  /\ stack \in [Handlers -> Seq(Frame)]
  /\ notified \in [Tasks -> Nat]

\* Every task in the store has a history the state machine could have written:
\* a chain of permitted transitions from the state it was created in to the
\* state it is in.  Handlers overwrite each other's rows (no version check in
\* update_node), yet each row written is a whole legal life of its task.
LegalHistory == \A t \in Tasks : LegalRecord(Info[t], InitState[t], node[t])

CompletedBy(t, by) ==
  {i \in 1..Len(node[t].hist) : node[t].hist[i].to = "COMPLETE" /\ node[t].hist[i].by = by}

\* A composite is announced at most once for each time the cascade completed
\* it, however the handlers that complete its children fail on the way.
NotifiedOncePerCompletion ==
  \A t \in Tasks : notified[t] <= Cardinality(CompletedBy(t, "CASCADE"))

Resolved(p) == node[p].state \in {"COMPLETE", "NEEDS_REVIEW"}

AllChildrenComplete(p) == \A c \in Children(p) : node[c].state = "COMPLETE"

\* The default gate of DEPENDS_ON edges is AND: the cascade activates a task
\* that waits for several predecessors only when all of them are complete.
ReleasedAfterAllPredecessors ==
  [][\A d \in Tasks :
       node[d].state = "INACTIVE_PENDING" /\ node'[d].state = "ACTIVE" =>
         \A e \in DependsOn : e[1] = d => node[e[2]].state = "COMPLETE"]_node

\* If the children of a composite with an AND gate stay complete, the composite
\* is eventually completed, or put to review: of two handlers that complete the
\* last children at the same time, at least one sees all of them.  (A row that
\* cannot be read is not rolled up.)
CompositeRollsUp ==
  \A p \in {q \in Tasks \ MayMiss : Info[q].type = "COMPOSITE" /\ Info[q].autoComplete} :
    <>[]AllChildrenComplete(p) => <>Resolved(p)

Predecessors(d) == {t \in Tasks : <<d, t>> \in DependsOn}

\* A task that waits for others does not wait for ever once all of them are complete, even if
\* another handler overwrites the row of one of them, or the task's own.
SuccessorReleased ==
  \A d \in {e \in Tasks \ MayMiss : Predecessors(e) # {}} :
    (\A t \in Predecessors(d) : node[t].state = "COMPLETE") ~> node[d].state # "INACTIVE_PENDING"

\* A handler that has read its task ends: nested cascades terminate.
HandlersEnd == \A h \in Handlers : h \in InFlight ~> h \notin InFlight

-----------------------------------------------------------------------------
\* With requests one at a time, the handlers implement the completion rules.
DoneOf == {e \in Tasks \X ChangedBy : CompletedBy(e[1], e[2]) # {}}

ReleasedOf ==
  {t \in Tasks : \E i \in 1..Len(node[t].hist) :
                   /\ node[t].hist[i].from = "INACTIVE_PENDING"
                   /\ node[t].hist[i].by = "CASCADE"}

Rules == INSTANCE CompletionRules WITH done <- DoneOf, released <- ReleasedOf

\* Each persisted step of the cascade is one the rules allow: the handlers'
\* reads, loops and recursion complete and release nothing else.
ImplementsCompletionRules == Rules!Spec
=============================================================================
