-------------------------- MODULE TaskCascade_proofs --------------------------
(***************************************************************************)
(* Proofs about StateMachine, TaskCascade and DelegatedTasks.              *)
(*                                                                         *)
(*   For any task graph, any set of requests and any number of overlapping *)
(*   handlers: types, and that the store only ever holds tasks whose       *)
(*   history the state machine permits.                                    *)
(*   With agents delegated to as well: a completed task says who completed *)
(*   it.                                                                   *)
(*   For requests one at a time: a completion is announced at most once,   *)
(*   and the handlers implement CompletionRules.                           *)
(***************************************************************************)
EXTENDS DelegatedTasks, FiniteSetTheorems, TLAPS

-----------------------------------------------------------------------------
(***************************************************************************)
(* What a transition, and a chain of them, does to a task: it keeps the    *)
(* task well typed and its history legal.                                  *)
(***************************************************************************)
\* The machine returns a well-typed task.
LEMMA TransitionedType ==
  ASSUME NEW rec \in TaskRecord, NEW to \in TaskState, NEW by \in ChangedBy
  PROVE  Transitioned(rec, to, by) \in TaskRecord
<1> DEFINE entry == [from |-> rec.state, to |-> to, by |-> by]
<1>1. entry \in HistoryEntry
  BY DEF HistoryEntry, TaskRecord
<1>2. Append(rec.hist, entry) \in Seq(HistoryEntry)
  BY <1>1 DEF TaskRecord
<1> QED BY <1>2 DEF Transitioned, TaskRecord

\* The states a walk visits are task states.
LEMMA PathSourceType ==
  ASSUME NEW rec \in TaskRecord, NEW path \in Seq(TaskState),
         NEW i \in 1..(Len(path) + 1)
  PROVE  PathSource(rec, path, i) \in TaskState
<1>1. CASE i = 1 BY <1>1 DEF PathSource, TaskRecord
<1>2. CASE i # 1
  <2>1. i - 1 \in 1..Len(path) BY <1>2
  <2> QED BY <1>2, <2>1 DEF PathSource
<1> QED BY <1>1, <1>2

\* The entries a walk appends are history entries.
LEMMA WalkEntriesType ==
  ASSUME NEW rec \in TaskRecord, NEW path \in Seq(TaskState), NEW by \in ChangedBy
  PROVE  [i \in 1..Len(path) |->
            [from |-> PathSource(rec, path, i), to |-> path[i], by |-> by]]
           \in Seq(HistoryEntry)
<1> DEFINE e(i) == [from |-> PathSource(rec, path, i), to |-> path[i], by |-> by]
<1>1. \A i \in 1..Len(path) : e(i) \in HistoryEntry
  <2> TAKE i \in 1..Len(path)
  <2>1. PathSource(rec, path, i) \in TaskState
    BY PathSourceType
  <2>2. path[i] \in TaskState OBVIOUS
  <2> QED BY <2>1, <2>2 DEF HistoryEntry
<1>2. Len(path) \in Nat OBVIOUS
<1> HIDE DEF e
<1>3. [i \in 1..Len(path) |-> e(i)] \in Seq(HistoryEntry)
  BY <1>1, <1>2
<1> QED BY <1>3 DEF e

\* A walk returns a well-typed task.
LEMMA WalkedType ==
  ASSUME NEW rec \in TaskRecord, NEW path \in Seq(TaskState), NEW by \in ChangedBy
  PROVE  Walked(rec, path, by) \in TaskRecord
<1>1. PathSource(rec, path, Len(path) + 1) \in TaskState
  BY PathSourceType
<1>2. [i \in 1..Len(path) |->
         [from |-> PathSource(rec, path, i), to |-> path[i], by |-> by]]
        \in Seq(HistoryEntry)
  BY WalkEntriesType
<1>3. rec.hist \in Seq(HistoryEntry) BY DEF TaskRecord
<1>4. rec.hist \o [i \in 1..Len(path) |->
         [from |-> PathSource(rec, path, i), to |-> path[i], by |-> by]]
        \in Seq(HistoryEntry)
  BY <1>2, <1>3
<1> QED BY <1>1, <1>4 DEF Walked, TaskRecord

\* A permitted transition of a task with a legal history leaves it legal.
LEMMA TransitionedLegal ==
  ASSUME NEW info \in TaskInfo, NEW init \in TaskState, NEW rec \in TaskRecord,
         NEW to \in TaskState, NEW by \in ChangedBy,
         LegalRecord(info, init, rec), CanTransition(info, rec.state, to, by)
  PROVE  LegalRecord(info, init, Transitioned(rec, to, by))
<1> DEFINE entry == [from |-> rec.state, to |-> to, by |-> by]
           new == Append(rec.hist, entry)
           n == Len(rec.hist)
<1>1. rec.hist \in Seq(HistoryEntry) /\ n \in Nat
  BY DEF TaskRecord
<1>2. Len(new) = n + 1 /\ new[n + 1] = entry /\ \A i \in 1..n : new[i] = rec.hist[i]
  BY <1>1
<1>3. Transitioned(rec, to, by) = [state |-> to, hist |-> new]
  BY DEF Transitioned
<1> HIDE DEF new, n
<1>4. \A i \in 1..n + 1 : StateBefore(init, new, i) = StateBefore(init, rec.hist, i)
  BY <1>1, <1>2 DEF StateBefore
<1>5. StateBefore(init, new, n + 2) = to
  BY <1>1, <1>2 DEF StateBefore
<1>6. rec.state = StateBefore(init, rec.hist, n + 1)
  BY DEF LegalRecord, n
<1>7. ASSUME NEW i \in 1..n + 1
      PROVE  /\ new[i].from = StateBefore(init, new, i)
             /\ CanTransition(info, new[i].from, new[i].to, new[i].by)
  <2>1. CASE i \in 1..n
    BY <2>1, <1>2, <1>4 DEF LegalRecord, n
  <2>2. CASE i = n + 1
    BY <2>2, <1>1, <1>2, <1>4, <1>6
  <2> QED BY <2>1, <2>2, <1>1
<1> QED BY <1>1, <1>2, <1>3, <1>5, <1>7 DEF LegalRecord

\* Where the elements of a concatenation come from.
LEMMA Concatenated ==
  ASSUME NEW S, NEW a \in Seq(S), NEW b \in Seq(S)
  PROVE  /\ Len(a \o b) = Len(a) + Len(b)
         /\ \A i \in 1..Len(a) : (a \o b)[i] = a[i]
         /\ \A i \in 1..Len(b) : (a \o b)[Len(a) + i] = b[i]
OBVIOUS

\* So does a permitted walk.
LEMMA WalkedLegal ==
  ASSUME NEW info \in TaskInfo, NEW init \in TaskState, NEW rec \in TaskRecord,
         NEW path \in Seq(TaskState), NEW by \in ChangedBy,
         LegalRecord(info, init, rec), CanWalk(info, rec, path, by)
  PROVE  LegalRecord(info, init, Walked(rec, path, by))
<1> DEFINE added == [i \in 1..Len(path) |->
             [from |-> PathSource(rec, path, i), to |-> path[i], by |-> by]]
           new == rec.hist \o added
           n == Len(rec.hist)
           m == Len(path)
<1>1. /\ rec.hist \in Seq(HistoryEntry) /\ n \in Nat /\ m \in Nat
      /\ added \in Seq(HistoryEntry) /\ Len(added) = m
  <2>1. added \in Seq(HistoryEntry) BY WalkEntriesType
  <2>2. Len(added) = m OBVIOUS
  <2> QED BY <2>1, <2>2 DEF TaskRecord
<1>2. \A i \in 1..m : /\ added[i] = [from |-> PathSource(rec, path, i),
                                   to |-> path[i], by |-> by]
                       /\ added[i].to = path[i]
  OBVIOUS
<1>3. Walked(rec, path, by) = [state |-> PathSource(rec, path, m + 1), hist |-> new]
  BY DEF Walked
<1> HIDE DEF added
<1>4. /\ Len(new) = n + m
      /\ \A i \in 1..n : new[i] = rec.hist[i]
      /\ \A i \in 1..m : new[n + i] = added[i]
  <2> DEFINE hist == rec.hist
  <2>1. hist \in Seq(HistoryEntry) /\ added \in Seq(HistoryEntry)
    BY <1>1
  <2>2. new = hist \o added /\ n = Len(hist) /\ m = Len(added)
    BY <1>1
  <2> HIDE DEF new, n, m, hist
  <2>3. /\ Len(hist \o added) = Len(hist) + Len(added)
        /\ \A i \in 1..Len(hist) : (hist \o added)[i] = hist[i]
        /\ \A i \in 1..Len(added) : (hist \o added)[Len(hist) + i] = added[i]
    BY <2>1, Concatenated
  <2>4. /\ Len(new) = n + m
        /\ \A i \in 1..n : new[i] = hist[i]
        /\ \A i \in 1..m : new[n + i] = added[i]
    BY <2>2, <2>3
  <2> QED BY <2>4 DEF hist
<1> HIDE DEF new, n, m
<1>5. rec.state = StateBefore(init, rec.hist, n + 1)
  BY DEF LegalRecord, n
<1>6. \A i \in 1..n + 1 : StateBefore(init, new, i) = StateBefore(init, rec.hist, i)
  BY <1>1, <1>4 DEF StateBefore
<1>7. \A j \in 1..m + 1 : StateBefore(init, new, n + j) = PathSource(rec, path, j)
  <2> TAKE j \in 1..m + 1
  <2>1. CASE j = 1
    BY <2>1, <1>1, <1>5, <1>6 DEF PathSource
  <2>2. CASE j # 1
    <3>1. PICK k \in 1..m : k = j - 1
      BY <2>2, <1>1
    <3>2. n + j # 1 /\ (n + j) - 1 = n + k
      BY <3>1, <1>1
    <3>3. new[n + k].to = path[k]
      BY <3>1, <1>2, <1>4
    <3>4. StateBefore(init, new, n + j) = new[(n + j) - 1].to
      BY <3>2 DEF StateBefore
    <3>5. PathSource(rec, path, j) = path[k]
      BY <2>2, <3>1 DEF PathSource
    <3> QED BY <3>2, <3>3, <3>4, <3>5
  <2> QED BY <2>1, <2>2
<1>8. ASSUME NEW i \in 1..n + m
      PROVE  /\ new[i].from = StateBefore(init, new, i)
             /\ CanTransition(info, new[i].from, new[i].to, new[i].by)
  <2>1. CASE i \in 1..n
    <3>1. i \in 1..n + 1 /\ new[i] = rec.hist[i] BY <2>1, <1>1, <1>4
    <3> QED BY <2>1, <3>1, <1>6 DEF LegalRecord, n
  <2>2. CASE i \notin 1..n
    <3>1. i - n \in 1..m /\ i - n \in 1..m + 1 /\ n + (i - n) = i
      BY <2>2, <1>1
    <3>2. new[i] = [from |-> PathSource(rec, path, i - n), to |-> path[i - n], by |-> by]
      BY <3>1, <1>2, <1>4
    <3>3. StateBefore(init, new, i) = PathSource(rec, path, i - n)
      BY <3>1, <1>7
    <3>4. CanTransition(info, PathSource(rec, path, i - n), path[i - n], by)
      BY <3>1 DEF CanWalk, m
    <3> QED BY <3>2, <3>3, <3>4
  <2> QED BY <2>1, <2>2
<1>9. StateBefore(init, new, Len(new) + 1) = PathSource(rec, path, m + 1)
  <2>1. Len(new) + 1 = n + (m + 1) /\ m + 1 \in 1..m + 1 BY <1>1, <1>4
  <2> QED BY <2>1, <1>7
<1> QED BY <1>3, <1>4, <1>8, <1>9 DEF LegalRecord

Running == {"cascade", "children", "notify"}

\* A handler past Begin serves one of the requests.
RequestsServed == \A h \in Handlers : pc[h] # "idle" => req[h] \in Requests

\* A handler in its cascade has a call of run_post_transition_cascade open.
CallOpen == \A h \in Handlers : pc[h] \in Running => stack[h] # <<>>

TInv == TypeOK /\ RequestsServed /\ CallOpen

-----------------------------------------------------------------------------
(***************************************************************************)
(* Sets of records that the machine does not lead out of.  G[t] is such a  *)
(* set for task t: handlers only write what the machine made of a copy, so *)
(* if the rows and the copies are in G they stay there, however handlers   *)
(* overlap and overwrite each other.                                       *)
(***************************************************************************)
Closed(G) ==
  \A t \in Tasks : \A rec \in G[t] :
    /\ rec \in TaskRecord
    /\ \A path \in Seq(TaskState) :
         CanWalk(Info[t], rec, path, "HUMAN") => Walked(rec, path, "HUMAN") \in G[t]
    /\ \A to \in TaskState :
         CanTransition(Info[t], rec.state, to, "CASCADE")
           => Transitioned(rec, to, "CASCADE") \in G[t]

RowsIn(G) ==
  node \in [Tasks -> TaskRecord] /\ \A t \in Tasks : node[t] \in G[t]

CopiesIn(G) ==
  /\ snap \in [Handlers -> [Tasks -> TaskRecord]]
  /\ \A h \in Handlers : \A t \in Tasks : snap[h][t] \in G[t]

\* All records; the records with a legal history; the records that say who
\* completed them.
AnyLife == [t \in Tasks |-> TaskRecord]

LegalLife == [t \in Tasks |-> {rec \in TaskRecord : LegalRecord(Info[t], InitState[t], rec)}]

Accounted(t, rec) ==
  rec.state = "COMPLETE" =>
    /\ rec.hist # <<>>
    /\ Last(rec.hist).to = "COMPLETE"
    /\ Last(rec.hist).by \in {"HUMAN", "CASCADE"}
    /\ Info[t].type = "APPROVAL" => Last(rec.hist).by = "HUMAN"

AccountedLife == [t \in Tasks |-> {rec \in TaskRecord : Accounted(t, rec)}]

\* The copies handlers hold are legal too, the activated ones included: the
\* store is overwritten with them.
IInv == TInv /\ RowsIn(LegalLife) /\ CopiesIn(LegalLife)

-----------------------------------------------------------------------------
\* The path of a request is a sequence of task states.
LEMMA RequestPathType ==
  ASSUME NEW r \in Request, NEW s \in TaskState
  PROVE  RequestPath(r, s) \in Seq(TaskState)
<1>1. /\ "ACTIVE" \in TaskState /\ "IN_PROGRESS" \in TaskState
      /\ "COMPLETE" \in TaskState /\ "CANCELLED" \in TaskState
  BY DEF TaskState
<1>2. ApprovePath(s) \in Seq(TaskState)
  BY <1>1 DEF ApprovePath
<1>3. r.target \in TaskState
  BY DEF Request
<1>4. <<"CANCELLED">> \in Seq(TaskState) /\ <<r.target>> \in Seq(TaskState)
  BY <1>1, <1>3
<1> QED BY <1>2, <1>4 DEF RequestPath

\* Writing a copy that is in G keeps the store and the copies in G.
LEMMA WriteIn ==
  ASSUME NEW G, Closed(G), RowsIn(G), CopiesIn(G),
         NEW h \in Handlers, NEW t \in Tasks, NEW copy \in G[t], Write(h, t, copy)
  PROVE  RowsIn(G)' /\ CopiesIn(G)'
<1>0. copy \in TaskRecord
  BY DEF Closed
<1>1. RowsIn(G)'
  BY <1>0 DEF Write, RowsIn
<1>2. CopiesIn(G)'
  BY <1>0 DEF Write, CopiesIn
<1> QED BY <1>1, <1>2

\* Reading a task keeps the copies in G.
LEMMA ReadIn ==
  ASSUME NEW G, RowsIn(G), CopiesIn(G), NEW h \in Handlers, NEW t \in Tasks, Read(h, t)
  PROVE  CopiesIn(G)'
BY DEF Read, RowsIn, CopiesIn

\* A cascade activates only copies the machine lets it activate.
LEMMA ActivationPermitted ==
  ASSUME NEW info \in TaskInfo
  PROVE  CanTransition(info, "INACTIVE_PENDING", "ACTIVE", "CASCADE")
BY DEF CanTransition, InTransitionTable, VALID_TRANSITIONS, GuardTerminalCancelled,
       GuardTerminalComplete, GuardApprovalAutoResolve, GuardActivation, GuardAutonomy

\* What Apply does, by cases: refused, or persisted with or without a cascade.
LEMMA ApplyCases ==
  ASSUME TInv, NEW h \in Handlers, Apply(h)
  PROVE  LET t    == req[h].task
             path == RequestPath(req[h], snap[h][t].state)
             new  == Walked(snap[h][t], path, "HUMAN")
         IN /\ t \in Tasks /\ req[h] \in Requests /\ path \in Seq(TaskState)
            /\ pc[h] = "apply"
            /\ UNCHANGED <<req, writes, parent, loaded, notified>>
            /\ \/ /\ \E l \in {"rejected", "failed"} : pc' = [pc EXCEPT ![h] = l]
                  /\ UNCHANGED <<node, snap, todo, stack>>
               \/ /\ CanWalk(Info[t], snap[h][t], path, "HUMAN")
                  /\ Write(h, t, new)
                  /\ \/ new.state = "COMPLETE" /\ StartCascade(h, t)
                     \/ pc' = [pc EXCEPT ![h] = "done"] /\ UNCHANGED <<todo, stack>>
<1>1. req[h] \in Requests /\ req[h] \in Request /\ req[h].task \in Tasks
  BY ConstantsAssumption DEF TInv, RequestsServed, Apply, Request
<1>2. snap[h][req[h].task].state \in TaskState
  BY <1>1 DEF TInv, TypeOK, TaskRecord
<1>3. RequestPath(req[h], snap[h][req[h].task].state) \in Seq(TaskState)
  BY <1>1, <1>2, RequestPathType
<1> QED BY <1>1, <1>3 DEF Apply, Goto, RequestActor, Cascades

\* What ResolveParent does, by cases: left alone or raised, or moved.
LEMMA ResolveCases ==
  ASSUME TInv, NEW h \in Handlers, ResolveParent(h)
  PROVE  \E p \in parent[h] :
           LET to == ParentTarget(loaded[h]) IN
           /\ p \in Tasks /\ to \in TaskState
           /\ pc[h] = "children" /\ todo[h] = {}
           /\ loaded' = [loaded EXCEPT ![h] = {}]
           /\ UNCHANGED <<req, todo, writes, parent, stack, notified>>
           /\ \/ /\ \E l \in {"cascade", "failed"} : pc' = [pc EXCEPT ![h] = l]
                 /\ UNCHANGED <<node, snap>>
              \/ /\ ParentResolves(snap[h], p, loaded[h])
                 /\ CanTransition(Info[p], snap[h][p].state, to, "CASCADE")
                 /\ Write(h, p, Transitioned(snap[h][p], to, "CASCADE"))
                 /\ pc' = [pc EXCEPT ![h] = IF to = "COMPLETE" THEN "notify" ELSE "cascade"]
<1>1. ParentTarget(loaded[h]) \in TaskState /\ \A p \in parent[h] : p \in Tasks
  BY DEF TInv, TypeOK, ParentTarget, TaskState
<1> QED BY <1>1 DEF ResolveParent, Goto

\* Whatever handler steps, rows and copies stay in a set the machine keeps to.
LEMMA HandlersKeep ==
  ASSUME TInv, NEW G, Closed(G), RowsIn(G), CopiesIn(G),
         NEW h \in Handlers, Begin(h) \/ Proceed(h) \/ Fail(h)
  PROVE  RowsIn(G)' /\ CopiesIn(G)'
<1>0. TypeOK
  BY DEF TInv
<1>1. CASE Begin(h)
  <2>1. PICK r \in Requests : Read(h, r.task)
    BY <1>1 DEF Begin
  <2>2. r.task \in Tasks
    BY <2>1, ConstantsAssumption DEF Request
  <2> QED BY <1>0, <1>1, <2>1, <2>2, ReadIn DEF Begin, RowsIn
<1>2. CASE Apply(h)
  <2> DEFINE t    == req[h].task
             path == RequestPath(req[h], snap[h][t].state)
             new  == Walked(snap[h][t], path, "HUMAN")
  <2>1. /\ t \in Tasks /\ path \in Seq(TaskState)
        /\ \/ UNCHANGED <<node, snap>>
           \/ CanWalk(Info[t], snap[h][t], path, "HUMAN") /\ Write(h, t, new)
    BY <1>2, ApplyCases
  <2>2. CASE UNCHANGED <<node, snap>>
    BY <2>2 DEF RowsIn, CopiesIn
  <2>3. CASE CanWalk(Info[t], snap[h][t], path, "HUMAN") /\ Write(h, t, new)
    <3>1. new \in G[t]
      BY <2>1, <2>3 DEF Closed, CopiesIn
    <3> HIDE DEF new
    <3> QED BY <1>0, <2>1, <2>3, <3>1, WriteIn
  <2> QED BY <2>1, <2>2, <2>3
<1>3. CASE ReadDependent(h)
  <2>1. PICK d \in todo[h] :
          \/ /\ node[d].state = "INACTIVE_PENDING"
             /\ snap' = [snap EXCEPT ![h][d] = Transitioned(node[d], "ACTIVE", "CASCADE")]
          \/ Read(h, d)
          \/ UNCHANGED snap
    BY <1>3 DEF ReadDependent
  <2>2. d \in Tasks
    BY <1>0 DEF TypeOK
  <2>3. RowsIn(G)'
    BY <1>3 DEF ReadDependent, RowsIn
  <2>4. CASE Read(h, d)
    BY <1>0, <2>2, <2>3, <2>4, ReadIn
  <2>5. CASE /\ node[d].state = "INACTIVE_PENDING"
             /\ snap' = [snap EXCEPT ![h][d] = Transitioned(node[d], "ACTIVE", "CASCADE")]
    <3> DEFINE copy == Transitioned(node[d], "ACTIVE", "CASCADE")
    <3>1. "ACTIVE" \in TaskState /\ Info[d] \in TaskInfo
      BY <2>2, ConstantsAssumption DEF TaskState
    <3>2. copy \in G[d]
      BY <2>2, <2>5, <3>1, ActivationPermitted DEF Closed, RowsIn
    <3>3. snap' = [snap EXCEPT ![h][d] = copy]
      BY <2>5
    <3> HIDE DEF copy
    <3>4. copy \in TaskRecord
      BY <2>2, <3>2 DEF Closed
    <3>5. CopiesIn(G)'
      BY <2>2, <3>2, <3>3, <3>4 DEF CopiesIn
    <3> QED BY <2>3, <3>5
  <2>6. CASE UNCHANGED snap
    BY <2>3, <2>6 DEF CopiesIn
  <2> QED BY <2>1, <2>4, <2>5, <2>6
<1>4. CASE WriteActivated(h)
  <2>1. PICK d \in writes[h] : Write(h, d, snap[h][d])
    BY <1>4 DEF WriteActivated
  <2>2. d \in Tasks /\ snap[h][d] \in G[d]
    BY <1>0 DEF TypeOK, CopiesIn
  <2> QED BY <1>0, <2>1, <2>2, WriteIn
<1>5. CASE LoadParent(h)
  <2>1. PICK p \in Head(stack[h]).parents : Read(h, p)
    BY <1>5 DEF LoadParent
  <2>2. stack[h] \in Seq(Frame) /\ stack[h] # <<>>
    BY <1>5 DEF TInv, TypeOK, CallOpen, Running, LoadParent
  <2>3. Head(stack[h]) \in Frame
    BY <2>2
  <2>4. p \in Tasks
    BY <2>1, <2>3 DEF Frame
  <2> QED BY <1>0, <1>5, <2>1, <2>4, ReadIn DEF LoadParent, RowsIn
<1>6. CASE ReadChild(h)
  <2>1. PICK c \in todo[h] : Read(h, c) \/ UNCHANGED snap
    BY <1>6 DEF ReadChild
  <2>2. c \in Tasks
    BY <1>0 DEF TypeOK
  <2>3. RowsIn(G)'
    BY <1>6 DEF ReadChild, RowsIn
  <2>4. CASE UNCHANGED snap
    BY <2>3, <2>4 DEF CopiesIn
  <2> QED BY <2>1, <2>2, <2>3, <2>4, ReadIn
<1>7. CASE ResolveParent(h)
  <2>1. PICK p \in Tasks :
          /\ ParentTarget(loaded[h]) \in TaskState
          /\ \/ UNCHANGED <<node, snap>>
             \/ /\ CanTransition(Info[p], snap[h][p].state, ParentTarget(loaded[h]), "CASCADE")
                /\ Write(h, p, Transitioned(snap[h][p], ParentTarget(loaded[h]), "CASCADE"))
    BY <1>7, ResolveCases
  <2>2. CASE UNCHANGED <<node, snap>>
    BY <2>2 DEF RowsIn, CopiesIn
  <2>3. CASE /\ CanTransition(Info[p], snap[h][p].state, ParentTarget(loaded[h]), "CASCADE")
             /\ Write(h, p, Transitioned(snap[h][p], ParentTarget(loaded[h]), "CASCADE"))
    <3>1. Transitioned(snap[h][p], ParentTarget(loaded[h]), "CASCADE") \in G[p]
      BY <2>1, <2>3 DEF Closed, CopiesIn
    <3> QED BY <1>0, <2>3, <3>1, WriteIn
  <2> QED BY <2>1, <2>2, <2>3
<1>8. CASE NotifyAndRecurse(h) \/ FinishCascade(h) \/ MissParent(h) \/ Fail(h)
  BY <1>8 DEF NotifyAndRecurse, FinishCascade, MissParent, Fail, RowsIn, CopiesIn
<1> QED BY <1>1, <1>2, <1>3, <1>4, <1>5, <1>6, <1>7, <1>8 DEF Proceed

-----------------------------------------------------------------------------
\* The machine leads no task out of the three sets.
LEMMA AnyLifeClosed == Closed(AnyLife)
<1> SUFFICES ASSUME NEW t \in Tasks, NEW rec \in TaskRecord
             PROVE  /\ \A path \in Seq(TaskState) : Walked(rec, path, "HUMAN") \in TaskRecord
                    /\ \A to \in TaskState : Transitioned(rec, to, "CASCADE") \in TaskRecord
  BY DEF Closed, AnyLife
<1>1. "HUMAN" \in ChangedBy /\ "CASCADE" \in ChangedBy
  BY DEF ChangedBy
<1> QED BY <1>1, WalkedType, TransitionedType

LEMMA LegalLifeClosed == Closed(LegalLife)
<1> SUFFICES ASSUME NEW t \in Tasks, NEW rec \in TaskRecord,
                    LegalRecord(Info[t], InitState[t], rec)
             PROVE  /\ \A path \in Seq(TaskState) :
                         CanWalk(Info[t], rec, path, "HUMAN") =>
                           /\ Walked(rec, path, "HUMAN") \in TaskRecord
                           /\ LegalRecord(Info[t], InitState[t], Walked(rec, path, "HUMAN"))
                    /\ \A to \in TaskState :
                         CanTransition(Info[t], rec.state, to, "CASCADE") =>
                           /\ Transitioned(rec, to, "CASCADE") \in TaskRecord
                           /\ LegalRecord(Info[t], InitState[t],
                                          Transitioned(rec, to, "CASCADE"))
  BY DEF Closed, LegalLife
<1>1. "HUMAN" \in ChangedBy /\ "CASCADE" \in ChangedBy
  BY DEF ChangedBy
<1>2. Info[t] \in TaskInfo /\ InitState[t] \in TaskState
  BY ConstantsAssumption
<1>3. ASSUME NEW path \in Seq(TaskState), CanWalk(Info[t], rec, path, "HUMAN")
      PROVE  /\ Walked(rec, path, "HUMAN") \in TaskRecord
             /\ LegalRecord(Info[t], InitState[t], Walked(rec, path, "HUMAN"))
  BY <1>1, <1>2, <1>3, WalkedType, WalkedLegal
<1>4. ASSUME NEW to \in TaskState, CanTransition(Info[t], rec.state, to, "CASCADE")
      PROVE  /\ Transitioned(rec, to, "CASCADE") \in TaskRecord
             /\ LegalRecord(Info[t], InitState[t], Transitioned(rec, to, "CASCADE"))
  BY <1>1, <1>2, <1>4, TransitionedType, TransitionedLegal
<1> QED BY <1>3, <1>4

\* A person's walk that ends in COMPLETE records it last, and the cascade
\* completes no APPROVAL task.
LEMMA AccountedLifeClosed == Closed(AccountedLife)
<1> SUFFICES ASSUME NEW t \in Tasks, NEW rec \in TaskRecord, Accounted(t, rec)
             PROVE  /\ \A path \in Seq(TaskState) :
                         /\ Walked(rec, path, "HUMAN") \in TaskRecord
                         /\ Accounted(t, Walked(rec, path, "HUMAN"))
                    /\ \A to \in TaskState :
                         CanTransition(Info[t], rec.state, to, "CASCADE") =>
                           /\ Transitioned(rec, to, "CASCADE") \in TaskRecord
                           /\ Accounted(t, Transitioned(rec, to, "CASCADE"))
  BY DEF Closed, AccountedLife
<1>1. "HUMAN" \in ChangedBy /\ "CASCADE" \in ChangedBy
  BY DEF ChangedBy
<1>2. rec.hist \in Seq(HistoryEntry)
  BY DEF TaskRecord
<1>3. ASSUME NEW path \in Seq(TaskState)
      PROVE  Accounted(t, Walked(rec, path, "HUMAN"))
  <2> DEFINE n == Len(path)
             added == [i \in 1..n |-> [from |-> PathSource(rec, path, i),
                                       to |-> path[i], by |-> "HUMAN"]]
             new == rec.hist \o added
  <2>1. added \in Seq(HistoryEntry) /\ Len(added) = n /\ n \in Nat
    BY <1>1, WalkEntriesType
  <2>2. Walked(rec, path, "HUMAN") = [state |-> PathSource(rec, path, n + 1), hist |-> new]
    BY DEF Walked
  <2>3. n \in 1..n => added[n] = [from |-> PathSource(rec, path, n),
                                  to |-> path[n], by |-> "HUMAN"]
    OBVIOUS
  <2> HIDE DEF added
  <2>4. CASE n = 0
    <3>1. new = rec.hist
      BY <1>2, <2>1, <2>4
    <3>2. PathSource(rec, path, n + 1) = rec.state
      BY <2>4 DEF PathSource
    <3> QED BY <2>2, <3>1, <3>2 DEF Accounted
  <2>5. CASE n # 0
    <3>1. n \in 1..n /\ n + 1 # 1
      BY <2>1, <2>5
    <3>2. PathSource(rec, path, n + 1) = path[n]
      BY <2>1, <3>1 DEF PathSource
    <3>3. new # <<>> /\ new[Len(new)] = added[n]
      BY <1>2, <2>1, <3>1
    <3>4. new[Len(new)].to = path[n] /\ new[Len(new)].by = "HUMAN"
      BY <2>3, <3>1, <3>3
    <3> HIDE DEF new
    <3> QED BY <2>2, <3>2, <3>3, <3>4 DEF Accounted, Last
  <2> QED BY <2>4, <2>5
<1>4. ASSUME NEW to \in TaskState, CanTransition(Info[t], rec.state, to, "CASCADE")
      PROVE  Accounted(t, Transitioned(rec, to, "CASCADE"))
  <2> DEFINE entry == [from |-> rec.state, to |-> to, by |-> "CASCADE"]
             new == Append(rec.hist, entry)
  <2>1. new # <<>> /\ new[Len(new)] = entry
    BY <1>2
  <2>2. Transitioned(rec, to, "CASCADE") = [state |-> to, hist |-> new]
    BY DEF Transitioned
  <2>3. to = "COMPLETE" => Info[t].type # "APPROVAL"
    BY <1>4 DEF CanTransition, GuardApprovalAutoResolve
  <2> HIDE DEF new
  <2> QED BY <2>1, <2>2, <2>3 DEF Accounted, Last
<1> QED BY <1>1, <1>3, <1>4, WalkedType, TransitionedType

-----------------------------------------------------------------------------
\* Starting a cascade opens a call.
LEMMA StartCascadeTypes ==
  ASSUME TypeOK, NEW h \in Handlers, NEW t \in Tasks, StartCascade(h, t)
  PROVE  /\ pc' \in [Handlers -> PC] /\ stack' \in [Handlers -> Seq(Frame)]
         /\ todo' \in [Handlers -> SUBSET Tasks]
         /\ stack'[h] # <<>>
         /\ \A g \in Handlers \ {h} : stack'[g] = stack[g] /\ pc'[g] = pc[g]
         /\ pc'[h] = "cascade"
<1> DEFINE f == [task |-> t, parents |-> Parents(t)]
<1>1. f \in Frame
  BY DEF Frame, Parents
<1>2. stack[h] \in Seq(Frame)
  BY DEF TypeOK
<1>3. <<f>> \o stack[h] \in Seq(Frame) /\ <<f>> \o stack[h] # <<>>
  BY <1>1, <1>2
<1> HIDE DEF f
<1>4. stack' = [stack EXCEPT ![h] = <<f>> \o @]
  BY DEF StartCascade, f
<1>5. stack' \in [Handlers -> Seq(Frame)] /\ stack'[h] # <<>>
      /\ \A g \in Handlers \ {h} : stack'[g] = stack[g]
  BY <1>3, <1>4 DEF TypeOK
<1>6. pc' \in [Handlers -> PC] /\ pc'[h] = "cascade"
      /\ \A g \in Handlers \ {h} : pc'[g] = pc[g]
  BY DEF StartCascade, Goto, TypeOK, PC
<1>7. todo' \in [Handlers -> SUBSET Tasks]
  BY DEF StartCascade, TypeOK, Dependents
<1> QED BY <1>5, <1>6, <1>7

\* The call that LoadParent works for, without the parent it takes.
LEMMA LoadParentStack ==
  ASSUME TInv, NEW h \in Handlers, pc[h] = "cascade", NEW p \in Head(stack[h]).parents,
         stack' = [stack EXCEPT ![h][1].parents = @ \ {p}]
  PROVE  /\ p \in Tasks /\ Head(stack[h]) = stack[h][1]
         /\ stack' \in [Handlers -> Seq(Frame)]
         /\ \A g \in Handlers \ {h} : stack'[g] = stack[g]
         /\ Len(stack'[h]) = Len(stack[h]) /\ stack'[h] # <<>>
         /\ Head(stack'[h]).task = Head(stack[h]).task
         /\ \A i \in 1..Len(stack[h]) : /\ stack'[h][i].task = stack[h][i].task
                                        /\ stack'[h][i].parents \subseteq stack[h][i].parents
<1> DEFINE s == stack[h]
           f == [s[1] EXCEPT !.parents = @ \ {p}]
           t == [s EXCEPT ![1] = f]
<1>1. s \in Seq(Frame) /\ s # <<>> /\ Len(s) \in Nat /\ 1 \in 1..Len(s) /\ DOMAIN s = 1..Len(s)
  BY DEF TInv, TypeOK, CallOpen, Running
<1>2. s[1] \in Frame /\ Head(s) = s[1] /\ p \in Tasks
  <2>1. s[1] \in Frame /\ Head(s) = s[1]
    BY <1>1
  <2>2. s[1].parents \in SUBSET Tasks
    BY <2>1 DEF Frame
  <2> QED BY <2>1, <2>2
<1>3. stack' = [stack EXCEPT ![h] = t]
  BY DEF TInv, TypeOK
<1>4. f \in Frame /\ f.task = s[1].task /\ f.parents \subseteq s[1].parents
  <2> HIDE DEF s
  <2> QED BY <1>2 DEF Frame
<1> HIDE DEF f
<1>5. t \in [1..Len(s) -> Frame]
  BY <1>1, <1>4
<1>6. t \in Seq(Frame) /\ t # <<>> /\ Len(t) = Len(s) /\ Head(t) = f
  BY <1>1, <1>5
<1>7. \A i \in 1..Len(s) : t[i].task = s[i].task /\ t[i].parents \subseteq s[i].parents
  BY <1>1, <1>4
<1> HIDE DEF t
<1>8. stack' \in [Handlers -> Seq(Frame)] /\ stack'[h] = t
      /\ \A g \in Handlers \ {h} : stack'[g] = stack[g]
  <2>1. stack \in [Handlers -> Seq(Frame)]
    BY DEF TInv, TypeOK
  <2> QED BY <1>3, <1>6, <2>1
<1> QED BY <1>2, <1>4, <1>6, <1>7, <1>8

\* A handler's step keeps the types, given that it keeps those of the records.
LEMMA StepTypes ==
  ASSUME TInv, NEW h \in Handlers, Begin(h) \/ Proceed(h) \/ Fail(h),
         node' \in [Tasks -> TaskRecord], snap' \in [Handlers -> [Tasks -> TaskRecord]]
  PROVE  TInv'
<1>0. TypeOK
  BY DEF TInv
<1>1. CASE Begin(h)
  <2>1. PICK r \in Requests : req' = [req EXCEPT ![h] = r] /\ r \in Request
    BY <1>1, ConstantsAssumption DEF Begin
  <2>2. TypeOK'
    BY <1>1, <2>1 DEF TInv, TypeOK, Begin, Goto, PC
  <2>3. RequestsServed' /\ CallOpen'
    BY <1>1, <2>1 DEF TInv, TypeOK, RequestsServed, CallOpen, Begin, Goto, Running
  <2> QED BY <2>2, <2>3 DEF TInv
<1>2. CASE Apply(h)
  <2> DEFINE t == req[h].task
  <2>1. /\ t \in Tasks /\ req[h] \in Requests
        /\ UNCHANGED <<req, writes, parent, loaded, notified>>
        /\ \/ /\ \E l \in {"rejected", "failed", "done"} : pc' = [pc EXCEPT ![h] = l]
              /\ UNCHANGED <<todo, stack>>
           \/ StartCascade(h, t)
    BY <1>2, ApplyCases
  <2> HIDE DEF t
  <2>2. CASE /\ \E l \in {"rejected", "failed", "done"} : pc' = [pc EXCEPT ![h] = l]
             /\ UNCHANGED <<todo, stack>>
    <3>1. TypeOK'
      BY <2>1, <2>2 DEF TInv, TypeOK, PC
    <3>2. RequestsServed' /\ CallOpen'
      BY <2>1, <2>2 DEF TInv, TypeOK, RequestsServed, CallOpen, Running
    <3> QED BY <3>1, <3>2 DEF TInv
  <2>3. CASE StartCascade(h, t)
    <3>1. /\ pc' \in [Handlers -> PC] /\ stack' \in [Handlers -> Seq(Frame)]
          /\ todo' \in [Handlers -> SUBSET Tasks] /\ stack'[h] # <<>>
          /\ \A g \in Handlers \ {h} : stack'[g] = stack[g] /\ pc'[g] = pc[g]
      BY <1>0, <2>1, <2>3, StartCascadeTypes
    <3>2. TypeOK'
      BY <2>1, <3>1 DEF TInv, TypeOK
    <3>3. RequestsServed' /\ CallOpen'
      BY <2>1, <3>1 DEF TInv, RequestsServed, CallOpen
    <3> QED BY <3>2, <3>3 DEF TInv
  <2> QED BY <2>1, <2>2, <2>3
<1>3. CASE ReadDependent(h)
  <2>1. PICK d \in todo[h] :
          /\ todo' = [todo EXCEPT ![h] = @ \ {d}]
          /\ writes' = [writes EXCEPT ![h] = @ \cup {d}] \/ UNCHANGED writes
    BY <1>3 DEF ReadDependent
  <2>2. writes[h] \cup {d} \in SUBSET Tasks /\ todo[h] \ {d} \in SUBSET Tasks
    BY <1>0 DEF TypeOK
  <2>3. writes' \in [Handlers -> SUBSET Tasks] /\ todo' \in [Handlers -> SUBSET Tasks]
    <3>1. writes \in [Handlers -> SUBSET Tasks] /\ todo \in [Handlers -> SUBSET Tasks]
      BY <1>0 DEF TypeOK
    <3> QED BY <2>1, <2>2, <3>1
  <2>4. TypeOK'
    BY <1>0, <1>3, <2>3 DEF TypeOK, ReadDependent
  <2> QED BY <1>3, <2>4 DEF TInv, RequestsServed, CallOpen, ReadDependent
<1>4. CASE WriteActivated(h)
  <2>1. PICK d \in writes[h] : writes' = [writes EXCEPT ![h] = @ \ {d}]
    BY <1>4 DEF WriteActivated
  <2>2. TypeOK'
    BY <1>0, <1>4, <2>1 DEF TypeOK, WriteActivated
  <2> QED BY <1>4, <2>2 DEF TInv, RequestsServed, CallOpen, WriteActivated
<1>5. CASE LoadParent(h)
  <2>1. PICK p \in Head(stack[h]).parents :
          /\ stack' = [stack EXCEPT ![h][1].parents = @ \ {p}]
          /\ parent' = [parent EXCEPT ![h] = {p}]
          /\ todo' = [todo EXCEPT ![h] = Children(p)]
    BY <1>5 DEF LoadParent
  <2>2. /\ p \in Tasks /\ stack' \in [Handlers -> Seq(Frame)] /\ stack'[h] # <<>>
        /\ \A g \in Handlers \ {h} : stack'[g] = stack[g]
    BY <1>5, <2>1, LoadParentStack DEF LoadParent
  <2>3. /\ pc' = [pc EXCEPT ![h] = "children"] /\ pc[h] = "cascade"
        /\ UNCHANGED <<node, req, writes, loaded, notified>>
    BY <1>5 DEF LoadParent, Goto
  <2>4. parent' \in [Handlers -> SUBSET Tasks] /\ todo' \in [Handlers -> SUBSET Tasks]
    BY <1>0, <2>1, <2>2 DEF TypeOK, Children
  <2>5. TypeOK'
    BY <1>0, <2>2, <2>3, <2>4 DEF TypeOK, PC
  <2>6. RequestsServed' /\ CallOpen'
    BY <2>2, <2>3 DEF TInv, TypeOK, RequestsServed, CallOpen
  <2> QED BY <2>5, <2>6 DEF TInv
<1>6. CASE ReadChild(h)
  <2>1. PICK c \in todo[h] :
          /\ todo' = [todo EXCEPT ![h] = @ \ {c}]
          /\ loaded' = [loaded EXCEPT ![h] = @ \cup {c}] \/ UNCHANGED loaded
    BY <1>6 DEF ReadChild
  <2>2. loaded[h] \cup {c} \in SUBSET Tasks /\ todo[h] \ {c} \in SUBSET Tasks
    BY <1>0 DEF TypeOK
  <2>3. loaded' \in [Handlers -> SUBSET Tasks] /\ todo' \in [Handlers -> SUBSET Tasks]
    <3>1. loaded \in [Handlers -> SUBSET Tasks] /\ todo \in [Handlers -> SUBSET Tasks]
      BY <1>0 DEF TypeOK
    <3> QED BY <2>1, <2>2, <3>1
  <2>4. TypeOK'
    BY <1>0, <1>6, <2>3 DEF TypeOK, ReadChild
  <2> QED BY <1>6, <2>4 DEF TInv, RequestsServed, CallOpen, ReadChild
<1>7. CASE ResolveParent(h)
  <2>1. /\ pc[h] = "children" /\ UNCHANGED <<req, todo, writes, parent, stack, notified>>
        /\ loaded' = [loaded EXCEPT ![h] = {}]
        /\ \E l \in {"cascade", "failed", "notify"} : pc' = [pc EXCEPT ![h] = l]
    BY <1>7, ResolveCases
  <2>2. TypeOK'
    BY <1>0, <2>1 DEF TypeOK, PC
  <2>3. RequestsServed' /\ CallOpen'
    BY <2>1 DEF TInv, TypeOK, RequestsServed, CallOpen, Running
  <2> QED BY <2>2, <2>3 DEF TInv
<1>8. CASE NotifyAndRecurse(h)
  <2>1. PICK p \in parent[h] : /\ notified' = [notified EXCEPT ![p] = @ + 1]
                               /\ StartCascade(h, p)
    BY <1>8 DEF NotifyAndRecurse
  <2>2. p \in Tasks /\ pc[h] = "notify"
    BY <1>0, <1>8 DEF TypeOK, NotifyAndRecurse
  <2>3. /\ pc' \in [Handlers -> PC] /\ stack' \in [Handlers -> Seq(Frame)]
        /\ todo' \in [Handlers -> SUBSET Tasks] /\ stack'[h] # <<>>
        /\ \A g \in Handlers \ {h} : stack'[g] = stack[g] /\ pc'[g] = pc[g]
    BY <1>0, <2>1, <2>2, StartCascadeTypes
  <2>4. TypeOK'
    BY <1>0, <1>8, <2>1, <2>2, <2>3 DEF TypeOK, NotifyAndRecurse
  <2>5. RequestsServed' /\ CallOpen'
    BY <1>8, <2>2, <2>3 DEF TInv, RequestsServed, CallOpen, NotifyAndRecurse
  <2> QED BY <2>4, <2>5 DEF TInv
<1>9. CASE FinishCascade(h)
  <2>1. stack[h] \in Seq(Frame) /\ stack[h] # <<>> /\ pc[h] = "cascade"
    BY <1>9 DEF TInv, TypeOK, CallOpen, Running, FinishCascade
  <2>2. Tail(stack[h]) \in Seq(Frame) /\ (Len(stack[h]) # 1 => Tail(stack[h]) # <<>>)
    <3>1. ASSUME NEW s \in Seq(Frame), s # <<>>
          PROVE  Tail(s) \in Seq(Frame) /\ (Len(s) # 1 => Tail(s) # <<>>)
      <4>1. Tail(s) \in Seq(Frame) /\ Len(Tail(s)) = Len(s) - 1 /\ Len(s) \in Nat
        BY <3>1
      <4>2. Len(s) # 1 => Len(Tail(s)) # 0
        BY <4>1
      <4>3. Len(<<>>) = 0
        OBVIOUS
      <4> QED BY <4>1, <4>2, <4>3
    <3> QED BY <2>1, <3>1
  <2>3. /\ stack' = [stack EXCEPT ![h] = Tail(@)]
        /\ pc' = [pc EXCEPT ![h] = IF Len(stack[h]) = 1 THEN "done" ELSE "cascade"]
    BY <1>9 DEF FinishCascade, Goto
  <2>4. TypeOK'
    BY <1>0, <1>9, <2>2, <2>3 DEF TypeOK, FinishCascade, PC
  <2>5. RequestsServed' /\ CallOpen'
    BY <1>9, <2>1, <2>2, <2>3
       DEF TInv, TypeOK, RequestsServed, CallOpen, FinishCascade, Running
  <2> QED BY <2>4, <2>5 DEF TInv
<1>10. CASE Fail(h)
  <2>1. TypeOK'
    BY <1>0, <1>10 DEF TypeOK, Fail, Goto, PC
  <2>2. RequestsServed' /\ CallOpen'
    BY <1>10 DEF TInv, TypeOK, RequestsServed, CallOpen, Fail, Goto, Running, InFlight
  <2> QED BY <2>1, <2>2 DEF TInv
<1>11. CASE MissParent(h)
  <2>1. PICK p \in Head(stack[h]).parents : stack' = [stack EXCEPT ![h][1].parents = @ \ {p}]
    BY <1>11 DEF MissParent
  <2>2. /\ stack' \in [Handlers -> Seq(Frame)] /\ stack'[h] # <<>>
        /\ \A g \in Handlers \ {h} : stack'[g] = stack[g]
    BY <1>11, <2>1, LoadParentStack DEF MissParent
  <2>3. UNCHANGED <<node, pc, req, snap, todo, writes, parent, loaded, notified>>
    BY <1>11 DEF MissParent
  <2>4. TypeOK'
    BY <1>0, <2>2, <2>3 DEF TypeOK
  <2>5. RequestsServed' /\ CallOpen'
    BY <2>2, <2>3 DEF TInv, RequestsServed, CallOpen
  <2> QED BY <2>4, <2>5 DEF TInv
<1> QED BY <1>1, <1>2, <1>3, <1>4, <1>5, <1>6, <1>7, <1>8, <1>9, <1>10, <1>11 DEF Proceed

\* Rows and copies have types when they are lives of any kind.
LEMMA LivesAreTyped ==
  TypeOK => RowsIn(AnyLife) /\ CopiesIn(AnyLife)
BY DEF TypeOK, RowsIn, CopiesIn, AnyLife

\* The types are kept by every step.
LEMMA NextTypes == TInv /\ [Next]_vars => TInv'
<1> SUFFICES ASSUME TInv, [Next]_vars PROVE TInv'
  OBVIOUS
<1>1. ASSUME NEW h \in Handlers, Begin(h) \/ Proceed(h) \/ Fail(h) PROVE TInv'
  <2>1. RowsIn(AnyLife)' /\ CopiesIn(AnyLife)'
    <3>1. RowsIn(AnyLife) /\ CopiesIn(AnyLife)
      BY LivesAreTyped DEF TInv
    <3> QED BY <1>1, <3>1, AnyLifeClosed, HandlersKeep
  <2> QED BY <1>1, <2>1, StepTypes DEF RowsIn, CopiesIn
<1>2. CASE UNCHANGED vars
  BY <1>2 DEF vars, TInv, TypeOK, RequestsServed, CallOpen
<1> QED BY <1>1, <1>2 DEF Next

-----------------------------------------------------------------------------
\* A task just created has a legal, empty history.
LEMMA FreshLegal ==
  ASSUME NEW info, NEW init
  PROVE  LegalRecord(info, init, [state |-> init, hist |-> <<>>])
BY DEF LegalRecord, StateBefore

LEMMA InitTypes == Init => TInv
<1> SUFFICES ASSUME Init PROVE TInv
  OBVIOUS
<1>1. \A t \in Tasks : [state |-> InitState[t], hist |-> <<>>] \in TaskRecord
  BY ConstantsAssumption DEF TaskRecord
<1>2. node \in [Tasks -> TaskRecord] /\ snap \in [Handlers -> [Tasks -> TaskRecord]]
  BY <1>1 DEF Init
<1>3. TypeOK
  <2>1. <<>> \in Seq(Frame)
    OBVIOUS
  <2>2. stack \in [Handlers -> Seq(Frame)]
    BY <2>1 DEF Init
  <2>3. /\ pc \in [Handlers -> PC]
        /\ req \in [Handlers -> Request \cup {NoRequest}]
        /\ notified \in [Tasks -> Nat]
    BY DEF Init, PC
  <2>4. /\ todo \in [Handlers -> SUBSET Tasks]
        /\ writes \in [Handlers -> SUBSET Tasks]
        /\ parent \in [Handlers -> SUBSET Tasks]
        /\ loaded \in [Handlers -> SUBSET Tasks]
    BY DEF Init
  <2> QED BY <1>2, <2>2, <2>3, <2>4 DEF TypeOK
<1>4. RequestsServed /\ CallOpen
  BY DEF Init, RequestsServed, CallOpen, Running
<1> QED BY <1>3, <1>4 DEF TInv

LEMMA InitIInv == Init => IInv
<1> SUFFICES ASSUME Init PROVE IInv
  OBVIOUS
<1>1. TInv
  BY InitTypes
<1>2. RowsIn(LegalLife) /\ CopiesIn(LegalLife)
  <2>1. \A t \in Tasks : LegalRecord(Info[t], InitState[t], node[t])
    BY FreshLegal DEF Init
  <2>2. \A h \in Handlers : snap[h] = node
    BY DEF Init
  <2> QED BY <1>1, <2>1, <2>2 DEF TInv, TypeOK, RowsIn, CopiesIn, LegalLife
<1> QED BY <1>1, <1>2 DEF IInv

LEMMA NextIInv == IInv /\ [Next]_vars => IInv'
<1> SUFFICES ASSUME IInv, [Next]_vars PROVE IInv'
  OBVIOUS
<1>1. TInv'
  BY NextTypes DEF IInv
<1>2. ASSUME NEW h \in Handlers, Begin(h) \/ Proceed(h) \/ Fail(h)
      PROVE  RowsIn(LegalLife)' /\ CopiesIn(LegalLife)'
  BY <1>2, LegalLifeClosed, HandlersKeep DEF IInv
<1>3. CASE UNCHANGED vars
  BY <1>1, <1>3 DEF vars, IInv, RowsIn, CopiesIn
<1> QED BY <1>1, <1>2, <1>3 DEF Next, IInv

\* The inductive invariant holds in every reachable state.
THEOREM CascadeInvariant == Spec => []IInv
<1> QED BY InitIInv, NextIInv, PTL DEF Spec

\* Type correctness.
THEOREM TypeCorrect == Spec => []TypeOK
<1>1. IInv => TypeOK BY DEF IInv, TInv
<1> QED BY <1>1, CascadeInvariant, PTL

\* However handlers overlap and fail, every stored task has a history the state
\* machine permits, from the state it was created in to the state it is in.
THEOREM HistoriesAreLegal == Spec => []LegalHistory
<1>1. IInv => LegalHistory BY DEF IInv, RowsIn, LegalLife, LegalHistory
<1> QED BY <1>1, CascadeInvariant, PTL

-----------------------------------------------------------------------------
(***************************************************************************)
(* With agents: process_agent_result and its like set the state and leave  *)
(* the history, so histories are not legal any more.  What is left of them *)
(* is that a task that stands as COMPLETE got there through the machine.   *)
(***************************************************************************)
DInv == /\ TInv /\ RowsIn(AccountedLife) /\ CopiesIn(AccountedLife)
        /\ stage \in [Delegations -> Stage]
        /\ seen \in [Delegations -> TaskRecord]

\* A step of an agent puts a task in a state that is not COMPLETE.
LEMMA AgentStep ==
  ASSUME DInv, NEW g \in Delegations,
         \/ ReadForDelegation(g) \/ Delegate(g) \/ AgentBlocked(g)
         \/ AgentFailed(g) \/ AgentCompleted(g)
  PROVE  DInv'
<1> DEFINE t == DelegatedTask[g]
<1>0. t \in Tasks /\ node \in [Tasks -> TaskRecord]
  BY DelegationsAssumption DEF DInv, TInv, TypeOK
<1>1. stage' \in [Delegations -> Stage] /\ OthersUnchanged
  BY DEF DInv, ReadForDelegation, Delegate, AgentBlocked, AgentFailed, AgentCompleted,
         Advance, Stage
<1>2. seen' \in [Delegations -> TaskRecord]
  BY <1>0 DEF DInv, ReadForDelegation, Delegate, AgentBlocked, AgentFailed,
              AgentCompleted
<1>3. \/ UNCHANGED node
      \/ \E rec \in TaskRecord : /\ rec.state # "COMPLETE"
                                 /\ node' = [node EXCEPT ![t] = rec]
  <2>1. CASE ReadForDelegation(g)
    BY <2>1 DEF ReadForDelegation
  <2>2. CASE Delegate(g)
    <3> DEFINE entry == [from |-> seen[g].state, to |-> "IN_PROGRESS", by |-> "AGENT"]
               rec == [state |-> "IN_PROGRESS", hist |-> Append(seen[g].hist, entry)]
    <3>1. seen[g] \in TaskRecord
      BY DEF DInv
    <3>2. entry \in HistoryEntry
      BY <3>1 DEF HistoryEntry, TaskRecord, TaskState, ChangedBy
    <3>3. Append(seen[g].hist, entry) \in Seq(HistoryEntry)
      BY <3>1, <3>2 DEF TaskRecord
    <3>4. rec \in TaskRecord /\ rec.state # "COMPLETE"
      BY <3>3 DEF TaskRecord, TaskState
    <3>5. node' = [node EXCEPT ![t] = rec]
      BY <2>2 DEF Delegate
    <3> HIDE DEF rec, t
    <3> QED BY <3>4, <3>5
  <2>3. CASE AgentBlocked(g) \/ AgentFailed(g) \/ AgentCompleted(g)
    <3>1. PICK s \in {"BLOCKED", "NEEDS_REVIEW"} : SetState(t, s)
      BY <2>3 DEF AgentBlocked, AgentFailed, AgentCompleted
    <3> DEFINE rec == [node[t] EXCEPT !.state = s]
    <3>2. rec \in TaskRecord /\ rec.state # "COMPLETE"
      BY <1>0 DEF TaskRecord, TaskState
    <3>3. node' = [node EXCEPT ![t] = rec]
      BY <1>0, <3>1 DEF SetState
    <3> HIDE DEF rec, t
    <3> QED BY <3>2, <3>3
  <2> QED BY <2>1, <2>2, <2>3
<1> HIDE DEF t
<1>4. node' \in [Tasks -> TaskRecord]
  BY <1>0, <1>3
<1>5. RowsIn(AccountedLife)'
  <2>1. \A u \in Tasks : node[u] \in TaskRecord /\ Accounted(u, node[u])
    BY DEF DInv, RowsIn, AccountedLife
  <2>2. \A u \in Tasks : node'[u] \in TaskRecord /\ Accounted(u, node'[u])
    BY <1>0, <1>3, <2>1 DEF Accounted
  <2> QED BY <1>4, <2>2 DEF RowsIn, AccountedLife
<1>6. TInv' /\ CopiesIn(AccountedLife)'
  BY <1>1, <1>4 DEF DInv, TInv, TypeOK, RequestsServed, CallOpen, CopiesIn, OthersUnchanged
<1> QED BY <1>1, <1>2, <1>5, <1>6 DEF DInv

\* The inductive invariant with agents, for any handlers that overlap with them.
THEOREM DelegatedInvariant == DSpec => []DInv
<1>1. DInit => DInv
  <2> SUFFICES ASSUME DInit PROVE DInv
    OBVIOUS
  <2>1. TInv
    BY InitTypes DEF DInit
  <2>2. \A t \in Tasks : node[t] \in TaskRecord /\ Accounted(t, node[t])
    BY <2>1, DelegationsAssumption DEF DInit, Init, TInv, TypeOK, Accounted
  <2>3. \A h \in Handlers : snap[h] = node
    BY DEF DInit, Init
  <2>4. RowsIn(AccountedLife) /\ CopiesIn(AccountedLife)
    BY <2>1, <2>2, <2>3 DEF TInv, TypeOK, RowsIn, CopiesIn, AccountedLife
  <2>5. stage \in [Delegations -> Stage] /\ seen \in [Delegations -> TaskRecord]
    BY <2>1, DelegationsAssumption DEF DInit, Stage, TInv, TypeOK
  <2> QED BY <2>1, <2>4, <2>5 DEF DInv
<1>2. DInv /\ [DNext]_<<vars, dvars>> => DInv'
  <2> SUFFICES ASSUME DInv, [DNext]_<<vars, dvars>> PROVE DInv'
    OBVIOUS
  <2>1. CASE Next /\ UNCHANGED dvars
    <3>1. PICK h \in Handlers : Begin(h) \/ Proceed(h) \/ Fail(h)
      BY <2>1 DEF Next
    <3>2. RowsIn(AccountedLife)' /\ CopiesIn(AccountedLife)'
      BY <3>1, AccountedLifeClosed, HandlersKeep DEF DInv
    <3>3. TInv'
      BY <2>1, NextTypes DEF DInv
    <3> QED BY <2>1, <3>2, <3>3 DEF DInv, dvars
  <2>2. ASSUME NEW g \in Delegations,
               \/ ReadForDelegation(g) \/ Delegate(g) \/ AgentBlocked(g)
               \/ AgentFailed(g) \/ AgentCompleted(g)
        PROVE  DInv'
    BY <2>2, AgentStep
  <2>3. CASE UNCHANGED <<vars, dvars>>
    BY <2>3 DEF vars, dvars, DInv, TInv, TypeOK, RequestsServed, CallOpen, RowsIn, CopiesIn
  <2> QED BY <2>1, <2>2, <2>3 DEF DNext
<1> QED BY <1>1, <1>2, PTL DEF DSpec

\* Whatever agents, overlapping handlers and stale rows do to a task, it never
\* stands as COMPLETE without a last entry that says who completed it, and an
\* APPROVAL task never without a person.
THEOREM CompletionsAreAccounted == DSpec => []CompletionIsAccounted
<1>1. DInv => CompletionIsAccounted
  BY DEF DInv, RowsIn, AccountedLife, Accounted, CompletionIsAccounted
<1> QED BY <1>1, DelegatedInvariant, PTL

-----------------------------------------------------------------------------
(***************************************************************************)
(* Requests one at a time.  With MaxInFlight = 1 the copies a handler      *)
(* works on are what the store holds, also when earlier handlers died in   *)
(* mid-cascade.                                                            *)
(***************************************************************************)
Alone == \A g, h \in InFlight : g = h

\* Of the children of p, handler h has the copies of those it read, which are all but some
\* that may be missing.
LoadedAt(h, p) ==
  /\ loaded[h] \subseteq Children(p)
  /\ Children(p) \ MayMiss \subseteq loaded[h] \cup todo[h]
  /\ \A c \in {p} \cup loaded[h] : snap[h][c] = node[c]

\* What handler h knows of the store: nothing has changed since it read.
FreshAt(h) ==
  /\ pc[h] \in {"idle", "apply", "children", "notify"} => writes[h] = {}
  /\ pc[h] \in {"children", "notify"} => \E p \in Tasks : parent[h] = {p}
  /\ pc[h] = "apply" => snap[h][req[h].task] = node[req[h].task]
  /\ pc[h] = "cascade" => \A d \in writes[h] :
       /\ d \notin todo[h]
       /\ node[d].state = "INACTIVE_PENDING"
       /\ snap[h][d] = Transitioned(node[d], "ACTIVE", "CASCADE")
  /\ pc[h] \in {"idle", "apply", "cascade", "notify"} => loaded[h] = {}
  /\ pc[h] = "children" =>
       \A p \in parent[h] : LoadedAt(h, p) /\ todo[h] \subseteq Children(p)

\* A composite about to be announced has been completed once more than it has
\* been announced.
DueAt(h) ==
  pc[h] = "notify" =>
    \A p \in parent[h] : notified[p] < Cardinality(CompletedBy(p, "CASCADE"))

SInv == /\ IInv /\ Alone /\ NotifiedOncePerCompletion
        /\ \A h \in Handlers : FreshAt(h) /\ DueAt(h)

Completed(rec, by) ==
  {i \in 1..Len(rec.hist) : rec.hist[i].to = "COMPLETE" /\ rec.hist[i].by = by}

ReleasedIn(rec) ==
  \E i \in 1..Len(rec.hist) :
    rec.hist[i].from = "INACTIVE_PENDING" /\ rec.hist[i].by = "CASCADE"

\* new is old with entries added to its history.
Grown(old, new) ==
  /\ Len(old.hist) <= Len(new.hist)
  /\ old.hist = SubSeq(new.hist, 1, Len(old.hist))

\* A transition adds one entry to the history.
LEMMA TransitionedGrown ==
  ASSUME NEW rec \in TaskRecord, NEW to \in TaskState, NEW by \in ChangedBy
  PROVE  LET new == Transitioned(rec, to, by)
             n   == Len(rec.hist) + 1
         IN /\ Grown(rec, new)
            /\ n \notin Completed(rec, by)
            /\ \A b : Completed(new, b) = IF to = "COMPLETE" /\ b = by
                                          THEN Completed(rec, b) \cup {n}
                                          ELSE Completed(rec, b)
            /\ ReleasedIn(new) <=>
                 \/ ReleasedIn(rec)
                 \/ rec.state = "INACTIVE_PENDING" /\ by = "CASCADE"
<1> DEFINE entry == [from |-> rec.state, to |-> to, by |-> by]
           hist == rec.hist
           grown == Append(hist, entry)
           new == [state |-> to, hist |-> grown]
           n == Len(hist) + 1
<1>1. hist \in Seq(HistoryEntry) /\ entry \in HistoryEntry
  BY DEF TaskRecord, HistoryEntry
<1>2. Len(hist) \in Nat /\ Len(grown) = n /\ grown[n] = entry
      /\ \A i \in 1..Len(hist) : grown[i] = hist[i]
  BY <1>1
<1>3. SubSeq(grown, 1, Len(hist)) = hist
  BY <1>1
<1>4. entry.from = rec.state /\ entry.to = to /\ entry.by = by
  OBVIOUS
<1>5. Transitioned(rec, to, by) = new /\ new.hist = grown /\ rec.hist = hist
  BY DEF Transitioned
<1> HIDE DEF entry, grown, hist, new
<1>6. Grown(rec, new)
  BY <1>2, <1>3, <1>5 DEF Grown
<1>7. n \notin Completed(rec, by)
  BY <1>2, <1>5 DEF Completed
<1>8. ASSUME NEW b
      PROVE  Completed(new, b) = IF to = "COMPLETE" /\ b = by
                                 THEN Completed(rec, b) \cup {n} ELSE Completed(rec, b)
  BY <1>2, <1>4, <1>5 DEF Completed
<1>9. ReleasedIn(new) <=>
        ReleasedIn(rec) \/ (rec.state = "INACTIVE_PENDING" /\ by = "CASCADE")
  BY <1>2, <1>4, <1>5 DEF ReleasedIn
<1> QED BY <1>5, <1>6, <1>7, <1>8, <1>9 DEF hist

\* A person's walk adds entries that are a person's.
LEMMA WalkedGrown ==
  ASSUME NEW rec \in TaskRecord, NEW path \in Seq(TaskState)
  PROVE  LET new == Walked(rec, path, "HUMAN")
         IN /\ Grown(rec, new)
            /\ Completed(rec, "HUMAN") \subseteq Completed(new, "HUMAN")
            /\ \A b : b # "HUMAN" => Completed(new, b) = Completed(rec, b)
            /\ ReleasedIn(new) <=> ReleasedIn(rec)
<1> DEFINE added == [i \in 1..Len(path) |->
             [from |-> PathSource(rec, path, i), to |-> path[i], by |-> "HUMAN"]]
           hist == rec.hist
           grown == hist \o added
           new == Walked(rec, path, "HUMAN")
<1>1. "HUMAN" \in ChangedBy /\ hist \in Seq(HistoryEntry)
  BY DEF ChangedBy, TaskRecord
<1>2. added \in Seq(HistoryEntry) /\ \A i \in 1..Len(added) : added[i].by = "HUMAN"
  BY <1>1, WalkEntriesType
<1>3. new.hist = grown /\ rec.hist = hist
  BY DEF Walked
<1> HIDE DEF added, new, hist
<1>4. /\ Len(hist) \in Nat /\ Len(grown) \in Nat /\ Len(hist) <= Len(grown)
      /\ SubSeq(grown, 1, Len(hist)) = hist
      /\ \A i \in 1..Len(hist) : i \in 1..Len(grown) /\ grown[i] = hist[i]
  BY <1>1, <1>2
<1>5. \A i \in 1..Len(grown) : i \notin 1..Len(hist) => grown[i].by = "HUMAN"
  BY <1>1, <1>2
<1> HIDE DEF grown
<1>6. Grown(rec, new)
  BY <1>3, <1>4 DEF Grown
<1>7. /\ Completed(rec, "HUMAN") \subseteq Completed(new, "HUMAN")
      /\ \A b : b # "HUMAN" => Completed(new, b) = Completed(rec, b)
  BY <1>3, <1>4, <1>5 DEF Completed
<1>8. ReleasedIn(new) <=> ReleasedIn(rec)
  BY <1>3, <1>4, <1>5 DEF ReleasedIn
<1> QED BY <1>6, <1>7, <1>8 DEF new

\* A record left as it is has grown by nothing.
LEMMA UnchangedGrown ==
  ASSUME NEW rec \in TaskRecord
  PROVE  Grown(rec, rec)
<1> DEFINE hist == rec.hist
<1>1. hist \in Seq(HistoryEntry)
  BY DEF TaskRecord
<1>2. SubSeq(hist, 1, Len(hist)) = hist /\ Len(hist) <= Len(hist)
  BY <1>1
<1> QED BY <1>2 DEF Grown

\* The completions of a record are finitely many.
LEMMA CompletedFinite ==
  ASSUME NEW rec \in TaskRecord, NEW by
  PROVE  IsFiniteSet(Completed(rec, by)) /\ Cardinality(Completed(rec, by)) \in Nat
<1>1. Len(rec.hist) \in Nat
  BY DEF TaskRecord
<1>2. IsFiniteSet(1..Len(rec.hist))
  BY <1>1, FS_Interval
<1>3. IsFiniteSet(Completed(rec, by))
  BY <1>2, FS_Subset DEF Completed
<1> QED BY <1>3, FS_CardinalityType

\* Completions that are kept are at least as many.
LEMMA CompletionsCount ==
  ASSUME NEW rec \in TaskRecord, NEW new \in TaskRecord, NEW by,
         Completed(rec, by) \subseteq Completed(new, by)
  PROVE  /\ Cardinality(Completed(rec, by)) \in Nat
         /\ Cardinality(Completed(new, by)) \in Nat
         /\ Cardinality(Completed(rec, by)) <= Cardinality(Completed(new, by))
BY CompletedFinite, FS_Subset

LEMMA CompletedByIs ==
  /\ \A t, by : CompletedBy(t, by) = Completed(node[t], by)
  /\ \A t, by : CompletedBy(t, by)' = Completed(node'[t], by)
BY DEF CompletedBy, Completed

-----------------------------------------------------------------------------
\* A request begins only when no handler is in flight.
LEMMA NobodyInFlight ==
  ASSUME MaxInFlight = 1, Alone, Cardinality(InFlight) < MaxInFlight
  PROVE  InFlight = {}
<1> SUFFICES ASSUME NEW h \in InFlight PROVE FALSE
  OBVIOUS
<1>1. InFlight = {h}
  BY DEF Alone
<1>2. Cardinality(InFlight) = 1
  BY <1>1, FS_Singleton
<1> QED BY <1>2

\* A step of a handler in flight leaves the others, which are at rest, alone.
LEMMA OthersAtRest ==
  ASSUME SInv, NEW h \in Handlers, Proceed(h) \/ Fail(h)
  PROVE  /\ h \in InFlight /\ pc'[h] # "idle"
         /\ \A g \in Handlers \ {h} :
              /\ pc[g] \in {"idle", "done", "rejected", "failed"}
              /\ pc'[g] = pc[g] /\ writes'[g] = writes[g] /\ loaded'[g] = loaded[g]
         /\ Alone'
<1>0. TInv /\ TypeOK
  BY DEF SInv, IInv, TInv
<1>1. h \in InFlight
  BY DEF Proceed, Apply, ReadDependent, WriteActivated, LoadParent, MissParent,
         ReadChild, ResolveParent, NotifyAndRecurse, FinishCascade, Fail, InFlight
<1>2. \A g \in Handlers \ {h} : pc[g] \in {"idle", "done", "rejected", "failed"}
  BY <1>0, <1>1 DEF SInv, Alone, InFlight, TypeOK, PC
<1>3. /\ pc'[h] # "idle"
      /\ \A g \in Handlers \ {h} :
           pc'[g] = pc[g] /\ writes'[g] = writes[g] /\ loaded'[g] = loaded[g]
  <2>1. CASE Apply(h)
    <3>1. /\ writes' = writes /\ loaded' = loaded
          /\ \/ \E l \in {"rejected", "failed", "done"} : pc' = [pc EXCEPT ![h] = l]
             \/ pc' = [pc EXCEPT ![h] = "cascade"]
      BY <1>0, <2>1, ApplyCases DEF StartCascade, Goto
    <3> QED BY <1>0, <3>1 DEF TypeOK
  <2>2. CASE ReadDependent(h)
    <3>1. /\ pc' = pc /\ pc[h] = "cascade" /\ loaded' = loaded
          /\ \E d : writes' = [writes EXCEPT ![h] = @ \cup {d}] \/ writes' = writes
      BY <2>2 DEF ReadDependent
    <3> QED BY <1>0, <3>1 DEF TypeOK
  <2>3. CASE WriteActivated(h)
    <3>1. /\ pc' = pc /\ pc[h] = "cascade" /\ loaded' = loaded
          /\ \E d : writes' = [writes EXCEPT ![h] = @ \ {d}]
      BY <2>3 DEF WriteActivated
    <3> QED BY <1>0, <3>1 DEF TypeOK
  <2>4. CASE LoadParent(h)
    <3>1. pc' = [pc EXCEPT ![h] = "children"] /\ writes' = writes /\ loaded' = loaded
      BY <2>4 DEF LoadParent, Goto
    <3> QED BY <1>0, <3>1 DEF TypeOK
  <2>5. CASE ReadChild(h)
    <3>1. /\ pc' = pc /\ pc[h] = "children" /\ writes' = writes
          /\ \E c : loaded' = [loaded EXCEPT ![h] = @ \cup {c}] \/ loaded' = loaded
      BY <2>5 DEF ReadChild
    <3> QED BY <1>0, <3>1 DEF TypeOK
  <2>6. CASE ResolveParent(h)
    <3>1. /\ writes' = writes /\ loaded' = [loaded EXCEPT ![h] = {}]
          /\ \E l \in {"cascade", "failed", "notify"} : pc' = [pc EXCEPT ![h] = l]
      BY <1>0, <2>6, ResolveCases
    <3> QED BY <1>0, <3>1 DEF TypeOK
  <2>7. CASE NotifyAndRecurse(h)
    <3>1. pc' = [pc EXCEPT ![h] = "cascade"] /\ writes' = writes /\ loaded' = loaded
      BY <2>7 DEF NotifyAndRecurse, StartCascade, Goto
    <3> QED BY <1>0, <3>1 DEF TypeOK
  <2>8. CASE FinishCascade(h)
    <3>1. /\ writes' = writes /\ loaded' = loaded
          /\ \E l \in {"cascade", "done"} : pc' = [pc EXCEPT ![h] = l]
      BY <2>8 DEF FinishCascade, Goto
    <3> QED BY <1>0, <3>1 DEF TypeOK
  <2>9. CASE Fail(h)
    <3>1. pc' = [pc EXCEPT ![h] = "failed"] /\ writes' = writes /\ loaded' = loaded
      BY <2>9 DEF Fail, Goto
    <3> QED BY <1>0, <3>1 DEF TypeOK
  <2>10. CASE MissParent(h)
    BY <1>0, <2>10 DEF TypeOK, MissParent
  <2> QED BY <2>1, <2>2, <2>3, <2>4, <2>5, <2>6, <2>7, <2>8, <2>9, <2>10 DEF Proceed
<1>4. Alone'
  BY <1>1, <1>2, <1>3 DEF SInv, Alone, InFlight
<1> QED BY <1>1, <1>2, <1>3, <1>4

\* What a step may do to the store: nothing, a person's walk of one task, or
\* one transition of one task by the cascade, each from what the store holds.
Effect(h) ==
  \/ UNCHANGED node
  \/ \E t \in Tasks : \E path \in Seq(TaskState) :
       /\ pc[h] = "apply" /\ t = req[h].task
       /\ node' = [node EXCEPT ![t] = Walked(node[t], path, "HUMAN")]
  \/ \E t \in Tasks : \E to \in TaskState :
       /\ CanTransition(Info[t], node[t].state, to, "CASCADE")
       /\ node' = [node EXCEPT ![t] = Transitioned(node[t], to, "CASCADE")]

\* Whatever the effect, every history grows and no completion is lost.
LEMMA EffectGrows ==
  ASSUME node \in [Tasks -> TaskRecord], NEW h \in Handlers, Effect(h)
  PROVE  \A t \in Tasks :
           /\ Grown(node[t], node'[t])
           /\ \A by \in ChangedBy : Completed(node[t], by) \subseteq Completed(node'[t], by)
<1>0. /\ \A t \in Tasks : node[t] \in TaskRecord
      /\ "HUMAN" \in ChangedBy /\ "CASCADE" \in ChangedBy
  BY DEF ChangedBy
<1>1. CASE UNCHANGED node
  BY <1>0, <1>1, UnchangedGrown
<1>2. ASSUME NEW u \in Tasks, NEW path \in Seq(TaskState),
             node' = [node EXCEPT ![u] = Walked(node[u], path, "HUMAN")]
      PROVE  \A t \in Tasks :
               /\ Grown(node[t], node'[t])
               /\ \A by \in ChangedBy :
                    Completed(node[t], by) \subseteq Completed(node'[t], by)
  <2> DEFINE new == Walked(node[u], path, "HUMAN")
  <2>1. Grown(node[u], new)
        /\ \A by \in ChangedBy : Completed(node[u], by) \subseteq Completed(new, by)
    BY <1>0, WalkedGrown
  <2>2. node'[u] = new /\ \A t \in Tasks \ {u} : node'[t] = node[t]
    BY <1>2
  <2> HIDE DEF new
  <2> QED BY <1>0, <2>1, <2>2, UnchangedGrown
<1>3. ASSUME NEW u \in Tasks, NEW to \in TaskState,
             node' = [node EXCEPT ![u] = Transitioned(node[u], to, "CASCADE")]
      PROVE  \A t \in Tasks :
               /\ Grown(node[t], node'[t])
               /\ \A by \in ChangedBy :
                    Completed(node[t], by) \subseteq Completed(node'[t], by)
  <2> DEFINE new == Transitioned(node[u], to, "CASCADE")
  <2>1. Grown(node[u], new)
        /\ \A by \in ChangedBy : Completed(node[u], by) \subseteq Completed(new, by)
    BY <1>0, TransitionedGrown
  <2>2. node'[u] = new /\ \A t \in Tasks \ {u} : node'[t] = node[t]
    BY <1>3
  <2> HIDE DEF new
  <2> QED BY <1>0, <2>1, <2>2, UnchangedGrown
<1> QED BY <1>1, <1>2, <1>3 DEF Effect

\* Announcements stay covered when nothing is announced.
LEMMA NotifiedKeeps ==
  ASSUME SInv, TypeOK', UNCHANGED notified,
         \A t \in Tasks : Completed(node[t], "CASCADE") \subseteq Completed(node'[t], "CASCADE")
  PROVE  NotifiedOncePerCompletion'
<1> SUFFICES ASSUME NEW t \in Tasks
             PROVE  notified'[t] <= Cardinality(CompletedBy(t, "CASCADE"))'
  BY DEF NotifiedOncePerCompletion
<1>1. node[t] \in TaskRecord /\ node'[t] \in TaskRecord /\ notified[t] \in Nat
  BY DEF SInv, IInv, TInv, TypeOK
<1>2. notified[t] <= Cardinality(Completed(node[t], "CASCADE"))
  BY CompletedByIs DEF SInv, NotifiedOncePerCompletion
<1>3. Cardinality(CompletedBy(t, "CASCADE"))' = Cardinality(Completed(node'[t], "CASCADE"))
  BY CompletedByIs
<1> QED BY <1>1, <1>2, <1>3, CompletionsCount

-----------------------------------------------------------------------------
\* Each step of a handler in flight: its effect on the store, what the handler
\* knows afterwards, and that announcements stay covered.
Serial(h) == Effect(h) /\ FreshAt(h)' /\ DueAt(h)' /\ NotifiedOncePerCompletion'

LEMMA ApplySerial ==
  ASSUME SInv, TInv', NEW h \in Handlers, Apply(h) PROVE Serial(h)
<1> DEFINE t    == req[h].task
           path == RequestPath(req[h], snap[h][t].state)
           new  == Walked(node[t], path, "HUMAN")
<1>0. TInv /\ TypeOK /\ TypeOK' /\ pc[h] = "apply" /\ snap[h][t] = node[t] /\ writes[h] = {}
      /\ loaded[h] = {}
  BY DEF SInv, IInv, TInv, FreshAt, Apply
<1>1. /\ t \in Tasks /\ path \in Seq(TaskState)
      /\ UNCHANGED <<req, writes, parent, loaded, notified>>
      /\ \/ /\ \E l \in {"rejected", "failed"} : pc' = [pc EXCEPT ![h] = l]
            /\ UNCHANGED <<node, snap, todo, stack>>
         \/ /\ Write(h, t, new)
            /\ \E l \in {"cascade", "done"} : pc' = [pc EXCEPT ![h] = l]
  BY <1>0, ApplyCases DEF StartCascade, Goto
<1>2. Effect(h)
  <2>1. UNCHANGED node \/ node' = [node EXCEPT ![t] = new]
    BY <1>1 DEF Write
  <2> QED BY <1>0, <1>1, <2>1 DEF Effect
<1>3. pc'[h] \in {"rejected", "failed", "cascade", "done"} /\ writes'[h] = {} /\ loaded'[h] = {}
  BY <1>0, <1>1 DEF TypeOK
<1>4. FreshAt(h)' /\ DueAt(h)'
  BY <1>3 DEF FreshAt, DueAt
<1>5. NotifiedOncePerCompletion'
  BY <1>0, <1>1, <1>2, EffectGrows, NotifiedKeeps DEF TypeOK, ChangedBy
<1> QED BY <1>2, <1>4, <1>5 DEF Serial

LEMMA ReadDependentSerial ==
  ASSUME SInv, TInv', NEW h \in Handlers, ReadDependent(h) PROVE Serial(h)
<1>0. TypeOK /\ TypeOK' /\ FreshAt(h)
  BY DEF SInv, IInv, TInv
<1>1. PICK d \in todo[h] :
        /\ todo' = [todo EXCEPT ![h] = @ \ {d}]
        /\ \/ /\ node[d].state = "INACTIVE_PENDING"
              /\ snap' = [snap EXCEPT ![h][d] = Transitioned(node[d], "ACTIVE", "CASCADE")]
              /\ writes' = [writes EXCEPT ![h] = @ \cup {d}]
           \/ Read(h, d) /\ UNCHANGED writes
           \/ UNCHANGED <<snap, writes>>
  BY DEF ReadDependent
<1>2. pc[h] = "cascade" /\ UNCHANGED <<node, pc, loaded, notified>> /\ d \in Tasks
      /\ loaded[h] = {}
  BY <1>0 DEF ReadDependent, TypeOK, FreshAt
<1>3. \A e \in writes[h] : /\ e \notin todo[h] /\ e \in Tasks /\ e # d
                           /\ node[e].state = "INACTIVE_PENDING"
                           /\ snap[h][e] = Transitioned(node[e], "ACTIVE", "CASCADE")
  BY <1>0, <1>2 DEF FreshAt, TypeOK
<1>4. \A e \in Tasks \ {d} : snap'[h][e] = snap[h][e]
  BY <1>0, <1>1, <1>2 DEF TypeOK, Read
<1>5. todo'[h] = todo[h] \ {d}
  BY <1>0, <1>1 DEF TypeOK
<1>6. ASSUME NEW e \in writes'[h]
      PROVE  /\ e \notin todo'[h]
             /\ node[e].state = "INACTIVE_PENDING"
             /\ snap'[h][e] = Transitioned(node[e], "ACTIVE", "CASCADE")
  <2>1. CASE e \in writes[h]
    BY <2>1, <1>3, <1>4, <1>5
  <2>2. CASE e \notin writes[h]
    <3>1. writes' # writes
      BY <2>2, <1>6
    <3>2. /\ node[d].state = "INACTIVE_PENDING"
          /\ snap' = [snap EXCEPT ![h][d] = Transitioned(node[d], "ACTIVE", "CASCADE")]
          /\ writes' = [writes EXCEPT ![h] = @ \cup {d}]
      BY <1>1, <3>1
    <3>3. e = d
      BY <1>0, <1>6, <2>2, <3>2 DEF TypeOK
    <3>4. snap'[h][d] = Transitioned(node[d], "ACTIVE", "CASCADE")
      BY <1>0, <1>2, <3>2 DEF TypeOK
    <3> QED BY <1>5, <3>2, <3>3, <3>4
  <2> QED BY <2>1, <2>2
<1>7. FreshAt(h)' /\ DueAt(h)'
  BY <1>2, <1>6 DEF FreshAt, DueAt
<1>8. NotifiedOncePerCompletion'
  BY <1>2 DEF SInv, NotifiedOncePerCompletion, CompletedBy
<1> QED BY <1>2, <1>7, <1>8 DEF Serial, Effect

LEMMA WriteActivatedSerial ==
  ASSUME SInv, TInv', NEW h \in Handlers, WriteActivated(h) PROVE Serial(h)
<1>0. TypeOK /\ TypeOK' /\ FreshAt(h)
  BY DEF SInv, IInv, TInv
<1>1. PICK d \in writes[h] : /\ Write(h, d, snap[h][d])
                             /\ writes' = [writes EXCEPT ![h] = @ \ {d}]
  BY DEF WriteActivated
<1>2. /\ pc[h] = "cascade" /\ UNCHANGED <<pc, todo, loaded, notified>> /\ d \in Tasks
      /\ writes[h] \subseteq Tasks /\ loaded[h] = {}
  BY <1>0 DEF WriteActivated, TypeOK, FreshAt
<1>3. \A e \in writes[h] : /\ e \notin todo[h]
                           /\ node[e].state = "INACTIVE_PENDING"
                           /\ snap[h][e] = Transitioned(node[e], "ACTIVE", "CASCADE")
  BY <1>0, <1>2 DEF FreshAt
<1>4. Effect(h)
  <2>1. CanTransition(Info[d], node[d].state, "ACTIVE", "CASCADE")
    BY <1>2, <1>3, ConstantsAssumption, ActivationPermitted
  <2>2. node' = [node EXCEPT ![d] = Transitioned(node[d], "ACTIVE", "CASCADE")]
    BY <1>1, <1>3 DEF Write
  <2>3. "ACTIVE" \in TaskState
    BY DEF TaskState
  <2> QED BY <1>2, <2>1, <2>2, <2>3 DEF Effect
<1>5. \A e \in Tasks \ {d} : node'[e] = node[e] /\ snap'[h][e] = snap[h][e]
  <2> DEFINE copy == snap[h][d]
  <2>1. node' = [node EXCEPT ![d] = copy] /\ snap' = [snap EXCEPT ![h][d] = copy]
    BY <1>1 DEF Write
  <2> HIDE DEF copy
  <2> QED BY <1>0, <1>2, <2>1 DEF TypeOK
<1>6. writes'[h] = writes[h] \ {d}
  BY <1>0, <1>1 DEF TypeOK
<1>7. FreshAt(h)' /\ DueAt(h)'
  BY <1>2, <1>3, <1>5, <1>6 DEF FreshAt, DueAt
<1>8. NotifiedOncePerCompletion'
  BY <1>0, <1>2, <1>4, EffectGrows, NotifiedKeeps DEF TypeOK, ChangedBy
<1> QED BY <1>4, <1>7, <1>8 DEF Serial

LEMMA LoadParentSerial ==
  ASSUME SInv, TInv', NEW h \in Handlers, LoadParent(h) PROVE Serial(h)
<1>0. TInv /\ TypeOK
  BY DEF SInv, IInv, TInv
<1>1. PICK p \in Head(stack[h]).parents :
        /\ Read(h, p)
        /\ stack' = [stack EXCEPT ![h][1].parents = @ \ {p}]
        /\ parent' = [parent EXCEPT ![h] = {p}]
        /\ todo' = [todo EXCEPT ![h] = Children(p)]
  BY DEF LoadParent
<1>2. /\ pc[h] = "cascade" /\ writes[h] = {} /\ UNCHANGED <<node, writes, loaded, notified>>
      /\ pc' = [pc EXCEPT ![h] = "children"] /\ loaded[h] = {}
  BY DEF LoadParent, Goto, SInv, FreshAt
<1>3. p \in Tasks
  BY <1>0, <1>1, <1>2, LoadParentStack
<1>4. pc'[h] = "children" /\ parent'[h] = {p} /\ todo'[h] = Children(p)
  BY <1>0, <1>1, <1>2 DEF TypeOK
<1>5. snap'[h][p] = node[p]
  BY <1>0, <1>1, <1>3 DEF TypeOK, Read
<1>6. FreshAt(h)' /\ DueAt(h)'
  <2>1. Children(p)' = Children(p)
    BY DEF Children
  <2>2. LoadedAt(h, p)'
    BY <1>2, <1>4, <1>5, <2>1 DEF LoadedAt
  <2> QED BY <1>2, <1>3, <1>4, <2>2 DEF FreshAt, DueAt
<1>7. NotifiedOncePerCompletion'
  BY <1>2 DEF SInv, NotifiedOncePerCompletion, CompletedBy
<1> QED BY <1>2, <1>6, <1>7 DEF Serial, Effect

LEMMA MissParentSerial ==
  ASSUME SInv, TInv', NEW h \in Handlers, MissParent(h) PROVE Serial(h)
<1>1. pc[h] = "cascade" /\ UNCHANGED <<node, pc, snap, todo, writes, loaded, notified>>
  BY DEF MissParent
<1>2. FreshAt(h)' /\ DueAt(h)'
  BY <1>1 DEF SInv, FreshAt, DueAt
<1>3. NotifiedOncePerCompletion'
  BY <1>1 DEF SInv, NotifiedOncePerCompletion, CompletedBy
<1> QED BY <1>1, <1>2, <1>3 DEF Serial, Effect

LEMMA ReadChildSerial ==
  ASSUME SInv, TInv', NEW h \in Handlers, ReadChild(h) PROVE Serial(h)
<1>0. TypeOK /\ FreshAt(h)
  BY DEF SInv, IInv, TInv
<1>1. PICK c \in todo[h] :
        /\ todo' = [todo EXCEPT ![h] = @ \ {c}]
        /\ \/ Read(h, c) /\ loaded' = [loaded EXCEPT ![h] = @ \cup {c}]
           \/ c \in MayMiss /\ UNCHANGED <<snap, loaded>>
  BY DEF ReadChild
<1>2. /\ pc[h] = "children" /\ c \in Tasks
      /\ UNCHANGED <<node, pc, writes, parent, notified>>
  BY <1>0 DEF ReadChild, TypeOK
<1>3. todo'[h] = todo[h] \ {c}
  BY <1>0, <1>1 DEF TypeOK
<1>4. PICK p \in Tasks : parent[h] = {p}
  BY <1>0, <1>2 DEF FreshAt
<1>5. LoadedAt(h, p) /\ todo[h] \subseteq Children(p) /\ writes[h] = {}
  BY <1>0, <1>2, <1>4 DEF FreshAt
<1>6. LoadedAt(h, p)' /\ todo'[h] \subseteq Children(p)
  <2>1. Children(p)' = Children(p) /\ loaded[h] \subseteq Tasks
    BY <1>0 DEF Children, TypeOK
  <2>2. CASE Read(h, c) /\ loaded' = [loaded EXCEPT ![h] = @ \cup {c}]
    <3>1. loaded'[h] = loaded[h] \cup {c}
      BY <1>0, <2>2 DEF TypeOK
    <3>2. /\ snap'[h][c] = node[c]
          /\ \A e \in Tasks \ {c} : snap'[h][e] = snap[h][e]
      BY <1>0, <1>2, <2>2 DEF TypeOK, Read
    <3> QED BY <1>1, <1>2, <1>3, <1>4, <1>5, <2>1, <3>1, <3>2 DEF LoadedAt
  <2>3. CASE c \in MayMiss /\ UNCHANGED <<snap, loaded>>
    BY <1>2, <1>3, <1>5, <2>1, <2>3 DEF LoadedAt
  <2> QED BY <1>1, <2>2, <2>3
<1>7. FreshAt(h)' /\ DueAt(h)'
  BY <1>2, <1>4, <1>5, <1>6 DEF FreshAt, DueAt, Children
<1>8. NotifiedOncePerCompletion'
  BY <1>2 DEF SInv, NotifiedOncePerCompletion, CompletedBy
<1> QED BY <1>2, <1>7, <1>8 DEF Serial, Effect

LEMMA ResolveParentSerial ==
  ASSUME SInv, TInv', NEW h \in Handlers, ResolveParent(h) PROVE Serial(h)
<1>0. TInv /\ TypeOK /\ TypeOK' /\ FreshAt(h)
  BY DEF SInv, IInv, TInv
<1>1. PICK p \in parent[h] :
        LET to == ParentTarget(loaded[h]) IN
        /\ p \in Tasks /\ to \in TaskState
        /\ pc[h] = "children" /\ todo[h] = {}
        /\ loaded' = [loaded EXCEPT ![h] = {}]
        /\ UNCHANGED <<req, todo, writes, parent, stack, notified>>
        /\ \/ /\ \E l \in {"cascade", "failed"} : pc' = [pc EXCEPT ![h] = l]
              /\ UNCHANGED <<node, snap>>
           \/ /\ CanTransition(Info[p], snap[h][p].state, to, "CASCADE")
              /\ Write(h, p, Transitioned(snap[h][p], to, "CASCADE"))
              /\ pc' = [pc EXCEPT ![h] = IF to = "COMPLETE" THEN "notify" ELSE "cascade"]
  BY <1>0, ResolveCases
<1>2. /\ snap[h][p] = node[p] /\ writes[h] = {} /\ writes'[h] = {}
      /\ parent[h] = {p} /\ parent'[h] = {p} /\ notified' = notified /\ loaded'[h] = {}
  BY <1>0, <1>1 DEF FreshAt, LoadedAt, TypeOK
<1> DEFINE to  == ParentTarget(loaded[h])
           new == Transitioned(node[p], to, "CASCADE")
<1>3. CASE /\ \E l \in {"cascade", "failed"} : pc' = [pc EXCEPT ![h] = l]
           /\ UNCHANGED <<node, snap>>
  <2>1. pc'[h] \in {"cascade", "failed"}
    BY <1>0, <1>3 DEF TypeOK
  <2>2. FreshAt(h)' /\ DueAt(h)'
    BY <1>2, <2>1 DEF FreshAt, DueAt
  <2>3. NotifiedOncePerCompletion'
    BY <1>2, <1>3 DEF SInv, NotifiedOncePerCompletion, CompletedBy
  <2> QED BY <1>3, <2>2, <2>3 DEF Serial, Effect
<1>4. CASE /\ CanTransition(Info[p], node[p].state, to, "CASCADE")
           /\ Write(h, p, new)
           /\ pc' = [pc EXCEPT ![h] = IF to = "COMPLETE" THEN "notify" ELSE "cascade"]
  <2>1. Effect(h)
    BY <1>1, <1>4 DEF Effect, Write
  <2>2. pc'[h] = (IF to = "COMPLETE" THEN "notify" ELSE "cascade")
    BY <1>0, <1>4 DEF TypeOK
  <2>3. FreshAt(h)'
    BY <1>1, <1>2, <2>2 DEF FreshAt
  <2>4. node'[p] = new /\ node[p] \in TaskRecord /\ node'[p] \in TaskRecord
    <3>1. node' = [node EXCEPT ![p] = new]
      BY <1>4 DEF Write
    <3> HIDE DEF new
    <3> QED BY <1>0, <1>1, <3>1 DEF TypeOK
  <2>5. ASSUME to = "COMPLETE"
        PROVE  notified[p] < Cardinality(Completed(new, "CASCADE"))
    <3> DEFINE n   == Len(node[p].hist) + 1
               old == Completed(node[p], "CASCADE")
    <3>1. Completed(new, "CASCADE") = old \cup {n} /\ n \notin old
      BY <1>1, <2>4, <2>5, TransitionedGrown DEF ChangedBy
    <3>2. IsFiniteSet(old) /\ Cardinality(old) \in Nat
      BY <2>4, CompletedFinite
    <3> HIDE DEF old, n, new
    <3>3. Cardinality(Completed(new, "CASCADE")) = Cardinality(old) + 1
      BY <3>1, <3>2, FS_AddElement
    <3>4. notified[p] <= Cardinality(old) /\ notified[p] \in Nat
      BY <1>0, <1>1, CompletedByIs DEF SInv, NotifiedOncePerCompletion, old, TypeOK
    <3> QED BY <3>2, <3>3, <3>4
  <2>6. DueAt(h)'
    <3> SUFFICES ASSUME pc'[h] = "notify"
                 PROVE  notified'[p] < Cardinality(CompletedBy(p, "CASCADE"))'
      BY <1>2 DEF DueAt
    <3>1. to = "COMPLETE"
      BY <2>2
    <3>2. CompletedBy(p, "CASCADE")' = Completed(new, "CASCADE")
      BY <2>4, CompletedByIs
    <3> QED BY <1>2, <2>5, <3>1, <3>2
  <2>7. NotifiedOncePerCompletion'
    BY <1>0, <1>2, <2>1, EffectGrows, NotifiedKeeps DEF TypeOK, ChangedBy
  <2> QED BY <2>1, <2>3, <2>6, <2>7 DEF Serial
<1> QED BY <1>1, <1>2, <1>3, <1>4

LEMMA NotifySerial ==
  ASSUME SInv, TInv', NEW h \in Handlers, NotifyAndRecurse(h) PROVE Serial(h)
<1>0. TypeOK /\ FreshAt(h) /\ DueAt(h)
  BY DEF SInv, IInv, TInv
<1>1. PICK p \in parent[h] : notified' = [notified EXCEPT ![p] = @ + 1]
  BY DEF NotifyAndRecurse
<1>2. /\ p \in Tasks /\ pc[h] = "notify" /\ UNCHANGED <<node, writes, loaded>>
      /\ pc' = [pc EXCEPT ![h] = "cascade"]
  BY <1>0 DEF NotifyAndRecurse, StartCascade, Goto, TypeOK
<1>3. pc'[h] = "cascade" /\ writes'[h] = {} /\ loaded'[h] = {}
  BY <1>0, <1>2 DEF TypeOK, FreshAt
<1>4. FreshAt(h)' /\ DueAt(h)'
  BY <1>3 DEF FreshAt, DueAt
<1>5. NotifiedOncePerCompletion'
  <2> SUFFICES ASSUME NEW t \in Tasks
               PROVE  notified'[t] <= Cardinality(CompletedBy(t, "CASCADE"))'
    BY DEF NotifiedOncePerCompletion
  <2>1. CompletedBy(t, "CASCADE")' = CompletedBy(t, "CASCADE")
    BY <1>2, CompletedByIs
  <2>2. notified[t] <= Cardinality(CompletedBy(t, "CASCADE")) /\ notified[t] \in Nat
    BY <1>0 DEF SInv, NotifiedOncePerCompletion, TypeOK
  <2>3. Cardinality(CompletedBy(t, "CASCADE")) \in Nat
    BY <1>0, CompletedFinite, CompletedByIs DEF TypeOK
  <2>4. CASE t = p
    <3>1. notified[t] < Cardinality(CompletedBy(t, "CASCADE"))
      BY <1>0, <1>2, <2>4 DEF DueAt
    <3>2. notified'[t] = notified[t] + 1
      BY <1>0, <1>1, <2>4 DEF TypeOK
    <3> QED BY <2>1, <2>2, <2>3, <3>1, <3>2
  <2>5. CASE t # p
    <3>1. notified'[t] = notified[t]
      BY <1>0, <1>1, <2>5 DEF TypeOK
    <3> QED BY <2>1, <2>2, <3>1
  <2> QED BY <2>4, <2>5
<1> QED BY <1>2, <1>4, <1>5 DEF Serial, Effect

LEMMA EndSerial ==
  ASSUME SInv, TInv', NEW h \in Handlers, FinishCascade(h) \/ Fail(h) PROVE Serial(h)
<1>0. TypeOK /\ FreshAt(h)
  BY DEF SInv, IInv, TInv
<1>1. UNCHANGED <<node, writes, loaded, notified>>
  BY DEF FinishCascade, Fail
<1>2. pc'[h] = "failed" \/ pc'[h] = "done" \/ (pc'[h] = "cascade" /\ writes'[h] = {} /\ loaded'[h] = {})
  <2>1. CASE FinishCascade(h)
    <3>1. /\ pc' = [pc EXCEPT ![h] = IF Len(stack[h]) = 1 THEN "done" ELSE "cascade"]
          /\ writes[h] = {} /\ loaded[h] = {}
      BY <1>0, <2>1 DEF FinishCascade, Goto, FreshAt
    <3> QED BY <1>0, <1>1, <3>1 DEF TypeOK
  <2>2. CASE Fail(h)
    BY <1>0, <2>2 DEF Fail, Goto, TypeOK
  <2> QED BY <2>1, <2>2
<1>3. FreshAt(h)' /\ DueAt(h)'
  BY <1>2 DEF FreshAt, DueAt
<1>4. NotifiedOncePerCompletion'
  BY <1>1 DEF SInv, NotifiedOncePerCompletion, CompletedBy
<1> QED BY <1>1, <1>3, <1>4 DEF Serial, Effect

\* A request that begins is alone and reads what the store holds.
LEMMA BeginSerial ==
  ASSUME MaxInFlight = 1, SInv, TInv', NEW h \in Handlers, Begin(h)
  PROVE  /\ UNCHANGED node /\ Alone' /\ NotifiedOncePerCompletion'
         /\ \A g \in Handlers : FreshAt(g)' /\ DueAt(g)'
<1>0. TypeOK
  BY DEF SInv, IInv, TInv
<1>1. PICK r \in Requests : req' = [req EXCEPT ![h] = r] /\ Read(h, r.task)
  BY DEF Begin
<1>2. /\ pc[h] = "idle" /\ pc' = [pc EXCEPT ![h] = "apply"]
      /\ UNCHANGED <<node, todo, writes, parent, loaded, stack, notified>>
      /\ r.task \in Tasks /\ InFlight = {}
  BY ConstantsAssumption, NobodyInFlight DEF Begin, Goto, Request, SInv
<1>3. pc'[h] = "apply" /\ \A g \in Handlers \ {h} : pc'[g] = pc[g]
  BY <1>0, <1>2 DEF TypeOK
<1>4. \A g \in Handlers : pc[g] \in {"idle", "done", "rejected", "failed"}
  BY <1>0, <1>2 DEF InFlight, TypeOK, PC
<1>5. Alone'
  BY <1>3, <1>4 DEF Alone, InFlight
<1>6. ASSUME NEW g \in Handlers PROVE FreshAt(g)' /\ DueAt(g)'
  <2>1. CASE g = h
    <3>1. req'[h] = r /\ snap'[h][r.task] = node[r.task]
      BY <1>0, <1>1, <1>2 DEF TypeOK, Read
    <3>2. writes'[h] = {} /\ loaded'[h] = {}
      BY <1>2 DEF SInv, FreshAt
    <3> QED BY <1>2, <1>3, <2>1, <3>1, <3>2 DEF FreshAt, DueAt
  <2>2. CASE g # h
    <3>1. pc'[g] \in {"idle", "done", "rejected", "failed"} /\ pc'[g] = pc[g]
          /\ writes'[g] = writes[g] /\ loaded'[g] = loaded[g]
      BY <1>2, <1>3, <1>4, <2>2
    <3> QED BY <3>1 DEF SInv, FreshAt, DueAt
  <2> QED BY <2>1, <2>2
<1>7. NotifiedOncePerCompletion'
  BY <1>2 DEF SInv, NotifiedOncePerCompletion, CompletedBy
<1> QED BY <1>2, <1>5, <1>6, <1>7

\* Every step, with requests one at a time, keeps the invariant, and its effect on
\* the store is that of Effect.
LEMMA StepSerial ==
  ASSUME MaxInFlight = 1, SInv, [Next]_vars
  PROVE  SInv' /\ (UNCHANGED node \/ \E h \in Handlers : Effect(h))
<1>0. IInv' /\ TInv'
  BY NextIInv DEF SInv, IInv
<1>1. ASSUME NEW h \in Handlers, Proceed(h) \/ Fail(h)
      PROVE  SInv' /\ Effect(h)
  <2>1. Serial(h)
    BY <1>0, <1>1, ApplySerial, ReadDependentSerial, WriteActivatedSerial, LoadParentSerial,
       MissParentSerial, ReadChildSerial, ResolveParentSerial, NotifySerial, EndSerial DEF Proceed
  <2>2. /\ Alone'
        /\ \A g \in Handlers \ {h} :
             /\ pc'[g] \in {"idle", "done", "rejected", "failed"}
             /\ pc'[g] = pc[g] /\ writes'[g] = writes[g] /\ loaded'[g] = loaded[g]
    BY <1>1, OthersAtRest
  <2>3. \A g \in Handlers \ {h} : FreshAt(g)' /\ DueAt(g)'
    BY <2>2 DEF SInv, FreshAt, DueAt
  <2> QED BY <1>0, <2>1, <2>2, <2>3 DEF SInv, Serial
<1>2. ASSUME NEW h \in Handlers, Begin(h)
      PROVE  SInv' /\ UNCHANGED node
  BY <1>0, <1>2, BeginSerial DEF SInv
<1>3. CASE UNCHANGED vars
  BY <1>0, <1>3 DEF vars, SInv, Alone, InFlight, FreshAt, LoadedAt, DueAt, NotifiedOncePerCompletion,
     CompletedBy
<1> QED BY <1>1, <1>2, <1>3 DEF Next

LEMMA InitSInv == Init => SInv
<1> SUFFICES ASSUME Init PROVE SInv
  OBVIOUS
<1>1. IInv
  BY InitIInv
<1>2. \A h \in Handlers : pc[h] = "idle" /\ writes[h] = {} /\ loaded[h] = {}
  BY DEF Init
<1>3. Alone /\ \A h \in Handlers : FreshAt(h) /\ DueAt(h)
  BY <1>2 DEF Alone, InFlight, FreshAt, DueAt
<1>4. ASSUME NEW t \in Tasks PROVE notified[t] <= Cardinality(CompletedBy(t, "CASCADE"))
  <2>1. notified[t] = 0 /\ node[t].hist = <<>>
    BY DEF Init
  <2>2. CompletedBy(t, "CASCADE") = {}
    BY <2>1 DEF CompletedBy
  <2>3. Cardinality(CompletedBy(t, "CASCADE")) = 0
    BY <2>2, FS_EmptySet
  <2> QED BY <2>1, <2>3
<1> QED BY <1>1, <1>3, <1>4 DEF SInv, NotifiedOncePerCompletion

\* The inductive invariant of requests one at a time.
THEOREM SerialInvariant ==
  ASSUME MaxInFlight = 1
  PROVE  Spec => []SInv
<1>1. SInv /\ [Next]_vars => SInv'
  BY StepSerial
<1> QED BY <1>1, InitSInv, PTL DEF Spec

\* A composite is announced at most once for each time the cascade completed it,
\* wherever the handlers before have died, if requests do not overlap.
THEOREM NotifiedOnce ==
  ASSUME MaxInFlight = 1
  PROVE  Spec => []NotifiedOncePerCompletion
<1>1. SInv => NotifiedOncePerCompletion
  BY DEF SInv
<1> QED BY <1>1, SerialInvariant, PTL

-----------------------------------------------------------------------------
(***************************************************************************)
(* The handlers implement CompletionRules, requests one at a time and no   *)
(* task created as COMPLETE: whoever is completed or released is so by a   *)
(* step the rules allow.                                                   *)
(***************************************************************************)
FinishedTasks == {t \in Tasks : \E by \in ChangedBy : Completed(node[t], by) # {}}

\* The calls that handler h has open are for finished tasks, and what it reads
\* and activates belongs to the innermost one.
CallAt(h) ==
  /\ pc[h] \in {"idle", "apply"} => stack[h] = <<>>
  /\ pc[h] \in Running => \A i \in 1..Len(stack[h]) :
       /\ stack[h][i].task \in FinishedTasks
       /\ stack[h][i].parents \subseteq Parents(stack[h][i].task)
  /\ pc[h] = "cascade" => todo[h] \cup writes[h] \subseteq Dependents(stack[h][1].task)
  /\ pc[h] \in {"children", "notify"} => parent[h] \subseteq Parents(stack[h][1].task)
  /\ pc[h] = "notify" => parent[h] \subseteq FinishedTasks

RInv == SInv /\ \A h \in Handlers : CallAt(h)

NoneBornComplete == \A t \in Tasks : InitState[t] # "COMPLETE"

\* A task with a legal history that is COMPLETE has been completed by somebody.
LEMMA CompleteIsFinished ==
  ASSUME NoneBornComplete, NEW t \in Tasks, NEW rec \in TaskRecord,
         LegalRecord(Info[t], InitState[t], rec), rec.state = "COMPLETE"
  PROVE  \E by \in ChangedBy : Completed(rec, by) # {}
<1> DEFINE hist == rec.hist
           n == Len(hist)
<1>1. hist \in Seq(HistoryEntry) /\ n \in Nat
  BY DEF TaskRecord
<1>2. "COMPLETE" = StateBefore(InitState[t], hist, n + 1)
  BY DEF LegalRecord
<1>3. n # 0
  BY <1>2 DEF StateBefore, NoneBornComplete
<1>4. n \in 1..n /\ hist[n] \in HistoryEntry /\ hist[n].to = "COMPLETE"
  BY <1>1, <1>2, <1>3 DEF StateBefore
<1>5. hist[n].by \in ChangedBy
  BY <1>4 DEF HistoryEntry
<1>6. n \in Completed(rec, hist[n].by)
  BY <1>4 DEF Completed
<1> QED BY <1>5, <1>6

\* The abstract state in terms of the rows.
LEMMA RulesState ==
  /\ DoneOf = {e \in Tasks \X ChangedBy : Completed(node[e[1]], e[2]) # {}}
  /\ DoneOf' = {e \in Tasks \X ChangedBy : Completed(node'[e[1]], e[2]) # {}}
  /\ ReleasedOf = {t \in Tasks : ReleasedIn(node[t])}
  /\ ReleasedOf' = {t \in Tasks : ReleasedIn(node'[t])}
  /\ Rules!Finished = FinishedTasks
<1>1. /\ DoneOf = {e \in Tasks \X ChangedBy : Completed(node[e[1]], e[2]) # {}}
      /\ DoneOf' = {e \in Tasks \X ChangedBy : Completed(node'[e[1]], e[2]) # {}}
  BY CompletedByIs DEF DoneOf
<1>2. /\ ReleasedOf = {t \in Tasks : ReleasedIn(node[t])}
      /\ ReleasedOf' = {t \in Tasks : ReleasedIn(node'[t])}
  BY DEF ReleasedOf, ReleasedIn
<1>3. \A t \in Tasks : \A by \in ChangedBy : <<t, by>> \in DoneOf <=> Completed(node[t], by) # {}
  BY <1>1
<1>4. Rules!Finished = FinishedTasks
  BY <1>3 DEF Rules!Finished, FinishedTasks, Rules!ChangedBy, ChangedBy
<1> QED BY <1>1, <1>2, <1>4

\* A person's walk completes its task in that person's name, or nothing.
LEMMA WalkEffect ==
  ASSUME node \in [Tasks -> TaskRecord], NEW u \in Tasks, NEW path \in Seq(TaskState),
         node' = [node EXCEPT ![u] = Walked(node[u], path, "HUMAN")]
  PROVE  /\ DoneOf' = DoneOf \/ DoneOf' = DoneOf \cup {<<u, "HUMAN">>}
         /\ ReleasedOf' = ReleasedOf
<1> DEFINE new == Walked(node[u], path, "HUMAN")
<1>1. /\ Completed(node[u], "HUMAN") \subseteq Completed(new, "HUMAN")
      /\ \A b : b # "HUMAN" => Completed(new, b) = Completed(node[u], b)
      /\ ReleasedIn(new) <=> ReleasedIn(node[u])
  BY WalkedGrown
<1>2. node'[u] = new /\ \A t \in Tasks \ {u} : node'[t] = node[t]
  OBVIOUS
<1> HIDE DEF new
<1>3. ReleasedOf' = ReleasedOf
  BY <1>1, <1>2, RulesState
<1>4. CASE Completed(new, "HUMAN") = {}
  <2>1. \A t \in Tasks : \A by \in ChangedBy :
          Completed(node'[t], by) # {} <=> Completed(node[t], by) # {}
    BY <1>1, <1>2, <1>4
  <2> QED BY <1>3, <2>1, RulesState
<1>5. CASE Completed(new, "HUMAN") # {}
  <2>1. \A t \in Tasks : \A by \in ChangedBy :
          Completed(node'[t], by) # {}
            <=> (Completed(node[t], by) # {} \/ <<t, by>> = <<u, "HUMAN">>)
    BY <1>1, <1>2, <1>5
  <2>2. <<u, "HUMAN">> \in Tasks \X ChangedBy
    BY DEF ChangedBy
  <2>3. \A e \in Tasks \X ChangedBy :
          Completed(node'[e[1]], e[2]) # {}
            <=> (Completed(node[e[1]], e[2]) # {} \/ e = <<u, "HUMAN">>)
    <3> TAKE e \in Tasks \X ChangedBy
    <3>1. PICK t \in Tasks, by \in ChangedBy : e = <<t, by>>
      OBVIOUS
    <3>2. e[1] = t /\ e[2] = by
      BY <3>1
    <3> QED BY <2>1, <3>1, <3>2
  <2>4. DoneOf' = DoneOf \cup {<<u, "HUMAN">>}
    BY <2>2, <2>3, RulesState
  <2> QED BY <1>3, <2>4
<1> QED BY <1>4, <1>5

\* A transition by the cascade completes or releases its task, or neither.
LEMMA CascadeEffect ==
  ASSUME node \in [Tasks -> TaskRecord], NEW u \in Tasks, NEW to \in TaskState,
         node' = [node EXCEPT ![u] = Transitioned(node[u], to, "CASCADE")]
  PROVE  /\ DoneOf' = IF to = "COMPLETE" THEN DoneOf \cup {<<u, "CASCADE">>} ELSE DoneOf
         /\ ReleasedOf' = IF node[u].state = "INACTIVE_PENDING"
                          THEN ReleasedOf \cup {u} ELSE ReleasedOf
<1> DEFINE new == Transitioned(node[u], to, "CASCADE")
           n == Len(node[u].hist) + 1
<1>0. "CASCADE" \in ChangedBy
  BY DEF ChangedBy
<1>1. /\ \A b : Completed(new, b) = IF to = "COMPLETE" /\ b = "CASCADE"
                                    THEN Completed(node[u], b) \cup {n}
                                    ELSE Completed(node[u], b)
      /\ ReleasedIn(new) <=> ReleasedIn(node[u]) \/ node[u].state = "INACTIVE_PENDING"
  BY <1>0, TransitionedGrown
<1>2. node'[u] = new /\ \A t \in Tasks \ {u} : node'[t] = node[t]
  OBVIOUS
<1> HIDE DEF new, n
<1>3. \A t \in Tasks : \A by \in ChangedBy :
        Completed(node'[t], by) # {}
          <=> \/ Completed(node[t], by) # {}
              \/ to = "COMPLETE" /\ <<t, by>> = <<u, "CASCADE">>
  BY <1>1, <1>2
<1>4. DoneOf' = IF to = "COMPLETE" THEN DoneOf \cup {<<u, "CASCADE">>} ELSE DoneOf
  BY <1>0, <1>3, RulesState
<1>5. ReleasedOf' = IF node[u].state = "INACTIVE_PENDING"
                    THEN ReleasedOf \cup {u} ELSE ReleasedOf
  BY <1>1, <1>2, RulesState
<1> QED BY <1>4, <1>5

\* A handler's step leaves the calls of the others alone.
LEMMA OtherStacks ==
  ASSUME TInv, NEW h \in Handlers, Proceed(h) \/ Fail(h)
  PROVE  \A g \in Handlers \ {h} : stack'[g] = stack[g]
<1>0. TypeOK
  BY DEF TInv
<1>1. CASE Apply(h)
  BY <1>0, <1>1, ApplyCases, StartCascadeTypes
<1>2. CASE LoadParent(h)
  <2>1. PICK p \in Head(stack[h]).parents :
          stack' = [stack EXCEPT ![h][1].parents = @ \ {p}]
    BY <1>2 DEF LoadParent
  <2>2. pc[h] = "cascade"
    BY <1>2 DEF LoadParent
  <2> QED BY <2>1, <2>2, LoadParentStack
<1>3. CASE NotifyAndRecurse(h)
  <2>1. PICK p \in parent[h] : p \in Tasks /\ StartCascade(h, p)
    BY <1>0, <1>3 DEF NotifyAndRecurse, TypeOK
  <2> QED BY <1>0, <2>1, StartCascadeTypes
<1>4. CASE FinishCascade(h)
  BY <1>0, <1>4 DEF FinishCascade, TypeOK
<1>5. CASE ReadDependent(h) \/ WriteActivated(h) \/ ReadChild(h) \/ ResolveParent(h) \/ Fail(h)
  BY <1>5 DEF ReadDependent, WriteActivated, ReadChild, ResolveParent, Fail
<1>6. CASE MissParent(h)
  <2>1. PICK p \in Head(stack[h]).parents :
          stack' = [stack EXCEPT ![h][1].parents = @ \ {p}]
    BY <1>6 DEF MissParent
  <2>2. pc[h] = "cascade"
    BY <1>6 DEF MissParent
  <2> QED BY <2>1, <2>2, LoadParentStack
<1> QED BY <1>1, <1>2, <1>3, <1>4, <1>5, <1>6 DEF Proceed

\* Who is finished stays so.
LEMMA FinishedGrows ==
  ASSUME SInv, NEW h \in Handlers, Effect(h)
  PROVE  FinishedTasks \subseteq FinishedTasks'
<1>1. \A t \in Tasks : \A by \in ChangedBy :
        Completed(node[t], by) \subseteq Completed(node'[t], by)
  BY EffectGrows DEF SInv, IInv, TInv, TypeOK
<1> QED BY <1>1 DEF FinishedTasks

\* A call for a finished task, on top of calls for finished tasks.
LEMMA StartCascadeCalls ==
  ASSUME TypeOK, NEW h \in Handlers, NEW t \in Tasks, StartCascade(h, t),
         FinishedTasks \subseteq FinishedTasks', t \in FinishedTasks', writes'[h] = {},
         \A i \in 1..Len(stack[h]) : /\ stack[h][i].task \in FinishedTasks
                                     /\ stack[h][i].parents \subseteq Parents(stack[h][i].task)
  PROVE  CallAt(h)'
<1> DEFINE f == [task |-> t, parents |-> Parents(t)]
           s == stack[h]
           new == <<f>> \o s
<1>1. f \in Frame /\ f.task = t /\ f.parents = Parents(t) /\ s \in Seq(Frame)
  BY DEF Frame, Parents, TypeOK
<1>2. pc'[h] = "cascade" /\ todo'[h] = Dependents(t) /\ stack'[h] = new
  BY DEF StartCascade, Goto, TypeOK
<1> HIDE DEF f, s
<1>3. Len(new) = Len(s) + 1 /\ Len(s) \in Nat /\ new[1] = f
      /\ \A i \in 1..Len(new) : i # 1 => i - 1 \in 1..Len(s) /\ new[i] = s[i - 1]
  BY <1>1
<1> HIDE DEF new
<1>4. \A i \in 1..Len(new) : /\ new[i].task \in FinishedTasks'
                             /\ new[i].parents \subseteq Parents(new[i].task)
  <2> TAKE i \in 1..Len(new)
  <2>1. CASE i = 1
    BY <1>1, <1>3, <2>1
  <2>2. CASE i # 1
    BY <1>3, <2>2 DEF s
  <2> QED BY <2>1, <2>2
<1> QED BY <1>1, <1>2, <1>3, <1>4 DEF CallAt, Parents, Dependents

\* What the handlers do is, to the rules, a step they allow or none.
RulesStep == [Rules!Next]_<<DoneOf, ReleasedOf>>

LEMMA SameRows == UNCHANGED node => RulesStep
BY RulesState DEF RulesStep

LEMMA ApplyRefines ==
  ASSUME NoneBornComplete, RInv, RInv', NEW h \in Handlers, Apply(h)
  PROVE  RulesStep
<1>1. SInv /\ TInv /\ TypeOK /\ FreshAt(h) /\ pc[h] = "apply"
  BY DEF RInv, SInv, IInv, TInv, Apply
<1>2. UNCHANGED node \/ \E t \in Tasks : \E path \in Seq(TaskState) :
                           node' = [node EXCEPT ![t] = Walked(node[t], path, "HUMAN")]
  <2> DEFINE u == req[h].task
             path == RequestPath(req[h], snap[h][u].state)
  <2>1. /\ u \in Tasks /\ path \in Seq(TaskState)
        /\ UNCHANGED node \/ Write(h, u, Walked(snap[h][u], path, "HUMAN"))
    BY <1>1, ApplyCases
  <2>2. snap[h][u] = node[u]
    BY <1>1 DEF FreshAt
  <2> HIDE DEF path, u
  <2> QED BY <2>1, <2>2 DEF Write
<1>3. ASSUME NEW t \in Tasks, NEW path \in Seq(TaskState),
             node' = [node EXCEPT ![t] = Walked(node[t], path, "HUMAN")]
      PROVE  RulesStep
  <2>1. /\ DoneOf' = DoneOf \/ DoneOf' = DoneOf \cup {<<t, "HUMAN">>}
        /\ ReleasedOf' = ReleasedOf
    BY <1>1, <1>3, WalkEffect DEF TypeOK
  <2> QED BY <2>1 DEF RulesStep, Rules!Next, Rules!Complete
<1> QED BY <1>2, <1>3, SameRows

\* The cascade releases a task that waits for a finished one.
LEMMA WriteActivatedRefines ==
  ASSUME RInv, NEW h \in Handlers, WriteActivated(h)
  PROVE  RulesStep
<1>1. SInv /\ TypeOK /\ FreshAt(h) /\ CallAt(h) /\ CallOpen /\ pc[h] = "cascade"
  BY DEF RInv, SInv, IInv, TInv, WriteActivated
<1>2. PICK d \in writes[h] : Write(h, d, snap[h][d])
  BY DEF WriteActivated
<1> DEFINE t == stack[h][1].task
<1>3. d \in Tasks /\ t \in FinishedTasks /\ d \in Dependents(t)
  <2>1. stack[h] # <<>> /\ stack[h] \in Seq(Frame)
    BY <1>1 DEF CallOpen, Running, TypeOK
  <2>2. 1 \in 1..Len(stack[h])
    BY <2>1
  <2> QED BY <1>1, <2>2 DEF CallAt, Running, TypeOK
<1>4. /\ node[d].state = "INACTIVE_PENDING"
      /\ node' = [node EXCEPT ![d] = Transitioned(node[d], "ACTIVE", "CASCADE")]
  BY <1>1, <1>2 DEF FreshAt, Write
<1>5. DoneOf' = DoneOf /\ ReleasedOf' = ReleasedOf \cup {d}
  <2>1. "ACTIVE" \in TaskState
    BY DEF TaskState
  <2> QED BY <1>1, <1>3, <1>4, <2>1, CascadeEffect DEF TypeOK
<1>6. Rules!PredecessorsOf(d) \cap Rules!Finished # {}
  <2>1. t \in Tasks /\ <<d, t>> \in DependsOn
    BY <1>3 DEF FinishedTasks, Dependents
  <2> QED BY <1>3, <2>1, RulesState DEF Rules!PredecessorsOf
<1> QED BY <1>3, <1>5, <1>6 DEF RulesStep, Rules!Next, Rules!Release

\* The cascade completes a composite only when its gate and its children let it.
LEMMA ResolveParentRefines ==
  ASSUME NoneBornComplete, RInv, NEW h \in Handlers, ResolveParent(h)
  PROVE  /\ RulesStep
         /\ \A p \in parent[h] : pc'[h] = "notify" => p \in FinishedTasks'
<1>1. SInv /\ TInv /\ TypeOK /\ FreshAt(h) /\ CallAt(h) /\ CallOpen
  BY DEF RInv, SInv, IInv, TInv
<1>2. PICK p \in parent[h] :
        LET to == ParentTarget(loaded[h]) IN
        /\ p \in Tasks /\ to \in TaskState
        /\ pc[h] = "children" /\ todo[h] = {}
        /\ UNCHANGED <<req, todo, writes, parent, stack, notified>>
        /\ \/ /\ \E l \in {"cascade", "failed"} : pc' = [pc EXCEPT ![h] = l]
              /\ UNCHANGED <<node, snap>>
           \/ /\ ParentResolves(snap[h], p, loaded[h])
              /\ CanTransition(Info[p], snap[h][p].state, to, "CASCADE")
              /\ Write(h, p, Transitioned(snap[h][p], to, "CASCADE"))
              /\ pc' = [pc EXCEPT ![h] = IF to = "COMPLETE" THEN "notify" ELSE "cascade"]
  BY <1>1, ResolveCases
<1> DEFINE to  == ParentTarget(loaded[h])
           t   == stack[h][1].task
<1>3. /\ parent[h] = {p} /\ snap[h][p] = node[p]
      /\ loaded[h] \subseteq Children(p) /\ Children(p) \ MayMiss \subseteq loaded[h]
      /\ \A c \in loaded[h] : c \in Tasks /\ snap[h][c] = node[c]
  BY <1>1, <1>2 DEF FreshAt, LoadedAt, Children
<1>4. t \in FinishedTasks /\ p \in Parents(t)
  <2>1. stack[h] # <<>> /\ stack[h] \in Seq(Frame)
    BY <1>1, <1>2 DEF CallOpen, Running, TypeOK
  <2>2. 1 \in 1..Len(stack[h])
    BY <2>1
  <2> QED BY <1>1, <1>2, <2>2 DEF CallAt, Running
<1>5. CASE UNCHANGED node /\ pc'[h] # "notify"
  BY <1>5, SameRows
<1>6. CASE /\ ParentResolves(snap[h], p, loaded[h])
           /\ CanTransition(Info[p], node[p].state, to, "CASCADE")
           /\ Write(h, p, Transitioned(node[p], to, "CASCADE"))
           /\ pc' = [pc EXCEPT ![h] = IF to = "COMPLETE" THEN "notify" ELSE "cascade"]
  <2>1. node' = [node EXCEPT ![p] = Transitioned(node[p], to, "CASCADE")]
    BY <1>6 DEF Write
  <2>2. node[p].state # "INACTIVE_PENDING"
    BY <1>6 DEF CanTransition, InTransitionTable, VALID_TRANSITIONS, ParentTarget
  <2>3. /\ DoneOf' = IF to = "COMPLETE" THEN DoneOf \cup {<<p, "CASCADE">>} ELSE DoneOf
        /\ ReleasedOf' = ReleasedOf
    BY <1>1, <1>2, <2>1, <2>2, CascadeEffect DEF TypeOK
  <2>4. ASSUME to = "COMPLETE" PROVE Rules!RollUp(p)
    <3>1. \A c \in loaded[h] : c \notin FinishedTasks => node[c].state # "COMPLETE"
      <4> SUFFICES ASSUME NEW c \in loaded[h], node[c].state = "COMPLETE"
                   PROVE  c \in FinishedTasks
        OBVIOUS
      <4>1. c \in Tasks /\ node[c] \in TaskRecord
            /\ LegalRecord(Info[c], InitState[c], node[c])
        BY <1>3 DEF RInv, SInv, IInv, RowsIn, LegalLife
      <4> QED BY <4>1, CompleteIsFinished DEF FinishedTasks
    <3>2. OpenOf(snap[h], loaded[h]) = {c \in loaded[h] : node[c].state # "COMPLETE"}
      BY <1>3 DEF OpenOf
    <3>3. Rules!ChildrenOf(p) = Children(p)
      BY DEF Rules!ChildrenOf, Children
    <3>4. t \in Children(p)
      BY <1>4 DEF Parents, Children, FinishedTasks
    <3>5. Info[p].type \in {"COMPOSITE", "MILESTONE"} /\ Info[p].autoComplete
      BY <1>6 DEF ParentResolves, AutoCompletable
    <3>6. Info[p].gate = "AND" => Children(p) \ MayMiss \subseteq FinishedTasks
      BY <1>3, <1>6, <3>1, <3>2 DEF ParentResolves, GateSatisfied
    <3>7. \A c \in (Children(p) \ MayMiss) \ FinishedTasks :
            Info[c].type \notin {"REVIEW", "APPROVAL"}
      BY <1>3, <1>6, <3>1, <3>2 DEF ParentResolves, HumanChildOpen
    <3>8. \A c \in Children(p) \ MayMiss :
            Info[c].type \in {"RESEARCH", "REVIEW"} => ~Info[c].lowConf
      BY <1>3, <2>4 DEF ParentTarget, LowConfidenceChild
    <3> QED BY <1>4, <2>3, <2>4, <3>3, <3>4, <3>5, <3>6, <3>7, <3>8, RulesState
            DEF Rules!RollUp
  <2>5. RulesStep
    BY <1>2, <2>3, <2>4 DEF RulesStep, Rules!Next
  <2>6. ASSUME pc'[h] = "notify" PROVE p \in FinishedTasks'
    <3>1. to = "COMPLETE"
      BY <1>1, <1>6, <2>6 DEF TypeOK
    <3>2. "CASCADE" \in ChangedBy
      BY DEF ChangedBy
    <3>3. <<p, "CASCADE">> \in DoneOf'
      BY <2>3, <3>1
    <3>4. Completed(node'[p], "CASCADE") # {}
      BY <3>3, RulesState
    <3> QED BY <1>2, <3>2, <3>4 DEF FinishedTasks
  <2> QED BY <1>3, <2>5, <2>6
<1> QED BY <1>1, <1>2, <1>3, <1>5, <1>6 DEF TypeOK

\* The calls stay those of finished tasks, and every step is one of the rules.
LEMMA StepRefines ==
  ASSUME MaxInFlight = 1, NoneBornComplete, RInv, [Next]_vars
  PROVE  RInv' /\ RulesStep
<1>0. SInv /\ TInv /\ TypeOK /\ SInv' /\ TInv' /\ TypeOK' /\ \A h \in Handlers : CallAt(h)
  BY StepSerial DEF RInv, SInv, IInv, TInv
<1>1. ASSUME NEW h \in Handlers, Begin(h)
      PROVE  RInv' /\ RulesStep
  <2>1. UNCHANGED <<node, stack>>
    BY <1>1 DEF Begin
  <2>2. \A g \in Handlers \ {h} : pc'[g] \in {"idle", "done", "rejected", "failed"}
                                  /\ pc'[g] = pc[g]
    <3>1. InFlight = {}
      BY <1>0, <1>1, NobodyInFlight DEF Begin, SInv
    <3>2. \A g \in Handlers : pc[g] \in {"idle", "done", "rejected", "failed"}
      BY <1>0, <3>1 DEF InFlight, TypeOK, PC
    <3>3. pc' = [pc EXCEPT ![h] = "apply"]
      BY <1>1 DEF Begin, Goto
    <3> QED BY <1>0, <3>2, <3>3 DEF TypeOK
  <2>3. pc'[h] = "apply" /\ pc[h] = "idle"
    BY <1>0, <1>1 DEF Begin, Goto, TypeOK
  <2>4. \A g \in Handlers : CallAt(g)'
    BY <1>0, <2>1, <2>2, <2>3 DEF CallAt, Running
  <2> QED BY <1>0, <2>1, <2>4, SameRows DEF RInv
<1>2. ASSUME NEW h \in Handlers, Proceed(h) \/ Fail(h)
      PROVE  RInv' /\ RulesStep
  <2>1. Serial(h)
    BY <1>0, <1>2, ApplySerial, ReadDependentSerial, WriteActivatedSerial, LoadParentSerial,
       MissParentSerial, ReadChildSerial, ResolveParentSerial, NotifySerial, EndSerial DEF Proceed
  <2>2. FinishedTasks \subseteq FinishedTasks'
    BY <1>0, <2>1, FinishedGrows DEF Serial
  <2>3. \A g \in Handlers \ {h} :
          /\ pc'[g] \in {"idle", "done", "rejected", "failed"}
          /\ pc'[g] = pc[g] /\ stack'[g] = stack[g]
    BY <1>0, <1>2, OthersAtRest, OtherStacks
  <2>4. \A g \in Handlers \ {h} : CallAt(g)'
    BY <1>0, <2>3 DEF CallAt, Running
  <2>5. stack[h] \in Seq(Frame)
    BY <1>0 DEF TypeOK
  <2>6. /\ pc[h] \in Running => \A i \in 1..Len(stack[h]) :
             /\ stack[h][i].task \in FinishedTasks
             /\ stack[h][i].parents \subseteq Parents(stack[h][i].task)
        /\ pc[h] \in Running => 1 \in 1..Len(stack[h])
    <3>1. pc[h] \in Running => stack[h] # <<>>
      BY <1>0 DEF TInv, CallOpen
    <3> QED BY <1>0, <2>5, <3>1 DEF CallAt
  <2>7. CASE Apply(h)
    <3> DEFINE t    == req[h].task
               path == RequestPath(req[h], snap[h][t].state)
               new  == Walked(snap[h][t], path, "HUMAN")
    <3>1. /\ t \in Tasks /\ pc[h] = "apply" /\ UNCHANGED writes
          /\ \/ \E l \in {"rejected", "failed", "done"} : pc' = [pc EXCEPT ![h] = l]
             \/ Write(h, t, new) /\ new.state = "COMPLETE" /\ StartCascade(h, t)
      BY <1>0, <2>7, ApplyCases
    <3>2. CASE \E l \in {"rejected", "failed", "done"} : pc' = [pc EXCEPT ![h] = l]
      <4>1. pc'[h] \in {"rejected", "failed", "done"}
        BY <1>0, <3>2 DEF TypeOK
      <4>2. CallAt(h)'
        BY <4>1 DEF CallAt, Running
      <4> QED BY <1>0, <2>4, <2>7, <4>2, ApplyRefines DEF RInv
    <3>3. CASE Write(h, t, new) /\ new.state = "COMPLETE" /\ StartCascade(h, t)
      <4>1. node'[t].state = "COMPLETE" /\ node'[t] \in TaskRecord
            /\ LegalRecord(Info[t], InitState[t], node'[t])
        <5>1. node' = [node EXCEPT ![t] = new]
          BY <3>3 DEF Write
        <5> HIDE DEF new
        <5>2. node'[t] = new
          BY <1>0, <3>1, <5>1 DEF TypeOK
        <5> QED BY <1>0, <3>1, <3>3, <5>2 DEF SInv, IInv, RowsIn, LegalLife
      <4>2. t \in FinishedTasks'
        BY <3>1, <4>1, CompleteIsFinished DEF FinishedTasks
      <4>3. stack[h] = <<>> /\ writes'[h] = {}
        BY <1>0, <3>1 DEF CallAt, SInv, FreshAt
      <4>4. \A i \in 1..Len(stack[h]) :
              /\ stack[h][i].task \in FinishedTasks
              /\ stack[h][i].parents \subseteq Parents(stack[h][i].task)
        BY <4>3
      <4>5. CallAt(h)'
        BY <1>0, <2>2, <3>1, <3>3, <4>2, <4>3, <4>4, StartCascadeCalls
      <4> QED BY <1>0, <2>4, <2>7, <4>5, ApplyRefines DEF RInv
    <3> QED BY <3>1, <3>2, <3>3
  <2>8. CASE ReadDependent(h)
    <3>1. PICK d \in todo[h] :
            /\ todo' = [todo EXCEPT ![h] = @ \ {d}]
            /\ writes' = [writes EXCEPT ![h] = @ \cup {d}] \/ UNCHANGED writes
      BY <2>8 DEF ReadDependent
    <3>2. pc[h] = "cascade" /\ UNCHANGED <<node, pc, parent, stack>>
      BY <2>8 DEF ReadDependent
    <3>3. todo'[h] \cup writes'[h] \subseteq todo[h] \cup writes[h]
      BY <1>0, <3>1 DEF TypeOK
    <3>4. CallAt(h)'
      BY <1>0, <2>2, <2>6, <3>2, <3>3 DEF CallAt, Running, Parents, Dependents
    <3> QED BY <1>0, <2>4, <3>2, <3>4, SameRows DEF RInv
  <2>9. CASE WriteActivated(h)
    <3>1. PICK d \in writes[h] : writes' = [writes EXCEPT ![h] = @ \ {d}]
      BY <2>9 DEF WriteActivated
    <3>2. pc[h] = "cascade" /\ UNCHANGED <<pc, todo, parent, stack>>
      BY <2>9 DEF WriteActivated
    <3>3. todo'[h] \cup writes'[h] \subseteq todo[h] \cup writes[h]
      BY <1>0, <3>1, <3>2 DEF TypeOK
    <3>4. CallAt(h)'
      BY <1>0, <2>2, <2>6, <3>2, <3>3 DEF CallAt, Running, Parents, Dependents
    <3> QED BY <1>0, <2>4, <2>9, <3>4, WriteActivatedRefines DEF RInv
  <2>10. CASE LoadParent(h)
    <3>1. PICK p \in Head(stack[h]).parents :
            /\ stack' = [stack EXCEPT ![h][1].parents = @ \ {p}]
            /\ parent' = [parent EXCEPT ![h] = {p}]
      BY <2>10 DEF LoadParent
    <3>2. pc[h] = "cascade" /\ UNCHANGED node /\ pc' = [pc EXCEPT ![h] = "children"]
      BY <2>10 DEF LoadParent, Goto
    <3>3. /\ Head(stack[h]) = stack[h][1] /\ Len(stack'[h]) = Len(stack[h])
          /\ \A i \in 1..Len(stack[h]) :
               /\ stack'[h][i].task = stack[h][i].task
               /\ stack'[h][i].parents \subseteq stack[h][i].parents
      BY <1>0, <3>1, <3>2, LoadParentStack
    <3>4. pc'[h] = "children" /\ parent'[h] = {p}
      BY <1>0, <3>1, <3>2 DEF TypeOK
    <3>5. p \in Parents(stack'[h][1].task)
      BY <2>6, <3>1, <3>2, <3>3 DEF Running
    <3>6. \A i \in 1..Len(stack'[h]) :
            /\ stack'[h][i].task \in FinishedTasks'
            /\ stack'[h][i].parents \subseteq Parents(stack'[h][i].task)
      BY <2>2, <2>6, <3>2, <3>3 DEF Running
    <3>7. CallAt(h)'
      BY <3>4, <3>5, <3>6 DEF CallAt, Parents
    <3> QED BY <1>0, <2>4, <3>2, <3>7, SameRows DEF RInv
  <2>11. CASE ReadChild(h)
    <3>1. pc[h] = "children" /\ UNCHANGED <<node, pc, parent, stack>>
      BY <2>11 DEF ReadChild
    <3>2. CallAt(h)'
      BY <1>0, <2>2, <2>6, <3>1 DEF CallAt, Running, Parents
    <3> QED BY <1>0, <2>4, <3>1, <3>2, SameRows DEF RInv
  <2>12. CASE ResolveParent(h)
    <3>1. /\ pc[h] = "children" /\ todo[h] = {} /\ UNCHANGED <<todo, writes, parent, stack>>
          /\ \E l \in {"cascade", "failed", "notify"} : pc' = [pc EXCEPT ![h] = l]
      BY <1>0, <2>12, ResolveCases
    <3>2. RulesStep /\ \A p \in parent[h] : pc'[h] = "notify" => p \in FinishedTasks'
      BY <2>12, ResolveParentRefines
    <3>3. writes[h] = {}
      BY <1>0, <3>1 DEF SInv, FreshAt
    <3>4. pc'[h] \in {"cascade", "failed", "notify"}
      BY <1>0, <3>1 DEF TypeOK
    <3>5. CallAt(h)'
      BY <1>0, <2>2, <2>6, <3>1, <3>2, <3>3, <3>4 DEF CallAt, Running, Parents
    <3> QED BY <1>0, <2>4, <3>2, <3>5 DEF RInv
  <2>13. CASE NotifyAndRecurse(h)
    <3>1. PICK p \in parent[h] : p \in Tasks /\ StartCascade(h, p)
      BY <1>0, <2>13 DEF NotifyAndRecurse, TypeOK
    <3>2. pc[h] = "notify" /\ UNCHANGED <<node, writes>>
      BY <2>13 DEF NotifyAndRecurse
    <3>3. p \in FinishedTasks' /\ writes'[h] = {}
      BY <1>0, <2>2, <3>1, <3>2 DEF CallAt, SInv, FreshAt
    <3>4. CallAt(h)'
      BY <1>0, <2>2, <2>6, <3>1, <3>2, <3>3, StartCascadeCalls DEF Running
    <3> QED BY <1>0, <2>4, <3>2, <3>4, SameRows DEF RInv
  <2>14. CASE FinishCascade(h)
    <3> DEFINE s == stack[h]
    <3>1. /\ pc[h] = "cascade" /\ todo[h] = {} /\ writes[h] = {} /\ UNCHANGED node
          /\ UNCHANGED <<todo, writes>>
          /\ stack' = [stack EXCEPT ![h] = Tail(@)]
          /\ pc' = [pc EXCEPT ![h] = IF Len(s) = 1 THEN "done" ELSE "cascade"]
      BY <2>14 DEF FinishCascade, Goto
    <3>2. pc'[h] \in {"done", "cascade"} /\ stack'[h] = Tail(s)
      BY <1>0, <3>1 DEF TypeOK
    <3>3. s # <<>> /\ s \in Seq(Frame)
      BY <1>0, <3>1 DEF TInv, TypeOK, CallOpen, Running
    <3>4. \A i \in 1..Len(Tail(s)) : i + 1 \in 1..Len(s) /\ Tail(s)[i] = s[i + 1]
      BY <3>3
    <3>5. \A i \in 1..Len(Tail(s)) :
            /\ Tail(s)[i].task \in FinishedTasks
            /\ Tail(s)[i].parents \subseteq Parents(Tail(s)[i].task)
      BY <2>6, <3>1, <3>4 DEF Running
    <3> HIDE DEF s
    <3>6. CallAt(h)'
      BY <2>2, <3>1, <3>2, <3>5 DEF CallAt, Running, Parents
    <3> QED BY <1>0, <2>4, <3>1, <3>6, SameRows DEF RInv
  <2>15. CASE Fail(h)
    <3>1. pc'[h] = "failed" /\ UNCHANGED node
      BY <1>0, <2>15 DEF Fail, Goto, TypeOK
    <3>2. CallAt(h)'
      BY <3>1 DEF CallAt, Running
    <3> QED BY <1>0, <2>4, <3>1, <3>2, SameRows DEF RInv
  <2>16. CASE MissParent(h)
    <3>1. PICK p \in Head(stack[h]).parents : stack' = [stack EXCEPT ![h][1].parents = @ \ {p}]
      BY <2>16 DEF MissParent
    <3>2. pc[h] = "cascade" /\ UNCHANGED <<node, pc, todo, writes, parent>>
      BY <2>16 DEF MissParent
    <3>3. /\ Len(stack'[h]) = Len(stack[h])
          /\ \A i \in 1..Len(stack[h]) :
               /\ stack'[h][i].task = stack[h][i].task
               /\ stack'[h][i].parents \subseteq stack[h][i].parents
      BY <1>0, <3>1, <3>2, LoadParentStack
    <3>4. \A i \in 1..Len(stack'[h]) :
            /\ stack'[h][i].task \in FinishedTasks'
            /\ stack'[h][i].parents \subseteq Parents(stack'[h][i].task)
      BY <2>2, <2>6, <3>2, <3>3 DEF Running
    <3>5. stack'[h][1].task = stack[h][1].task
      BY <2>6, <3>2, <3>3 DEF Running
    <3>6. CallAt(h)'
      BY <1>0, <3>2, <3>4, <3>5 DEF CallAt, Running, Parents, Dependents
    <3> QED BY <1>0, <2>4, <3>2, <3>6, SameRows DEF RInv
  <2> QED BY <1>2, <2>7, <2>8, <2>9, <2>10, <2>11, <2>12, <2>13, <2>14, <2>15, <2>16
          DEF Proceed
<1>3. CASE UNCHANGED vars
  <2>1. UNCHANGED node /\ \A h \in Handlers : CallAt(h)'
    BY <1>0, <1>3 DEF vars, CallAt, FinishedTasks, Parents, Dependents
  <2> QED BY <1>0, <2>1, SameRows DEF RInv
<1> QED BY <1>1, <1>2, <1>3 DEF Next

\* With requests one at a time, and no task created as COMPLETE, the handlers with
\* their reads, loops, recursion and failures implement the completion rules: what
\* they persist completes and releases nothing that the rules do not allow.
THEOREM CascadeRefinesRules ==
  ASSUME MaxInFlight = 1, NoneBornComplete
  PROVE  Spec => ImplementsCompletionRules
<1>1. Init => RInv /\ Rules!Init
  <2> SUFFICES ASSUME Init PROVE RInv /\ Rules!Init
    OBVIOUS
  <2>1. SInv
    BY InitSInv
  <2>2. \A h \in Handlers : CallAt(h)
    BY DEF Init, CallAt, Running
  <2>3. \A t \in Tasks : node[t].hist = <<>>
    BY DEF Init
  <2>4. \A t \in Tasks : \A by : Completed(node[t], by) = {}
    BY <2>3 DEF Completed
  <2>5. \A t \in Tasks : ~ReleasedIn(node[t])
    BY <2>3 DEF ReleasedIn
  <2>6. DoneOf = {} /\ ReleasedOf = {}
    BY <2>4, <2>5, RulesState
  <2> QED BY <2>1, <2>2, <2>6 DEF RInv, Rules!Init
<1>2. RInv /\ [Next]_vars => RInv' /\ [Rules!Next]_<<DoneOf, ReleasedOf>>
  BY StepRefines DEF RulesStep
<1> QED BY <1>1, <1>2, PTL DEF Spec, ImplementsCompletionRules, Rules!Spec
=============================================================================
