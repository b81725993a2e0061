------------------------ MODULE DispatchPlanner_proofs ------------------------
(***************************************************************************)
(* Proofs about DispatchPlanner for any jobs and any dependency graph, with *)
(* cycles, self-loops and failing queries: the tiers Kahn's algorithm       *)
(* makes lose no delegation, respect the dependencies and are tight.        *)
(***************************************************************************)
EXTENDS DispatchPlanner, FunctionTheorems, FiniteSetTheorems, TLAPS

\* The tasks that have a tier, and the edges of t that still count.
Placed == UNION {tiers[i] : i \in DOMAIN tiers}

Waiting(t) == {e \in edges : e[1] = t /\ e[2] \notin Placed}

\* in_degree counts those edges; the queue holds the tasks that have none, and after the
\* first tier each of them waited for the tier before.
Counted ==
  /\ \A t \in TaskIds : degree[t] = Cardinality(Waiting(t))
  /\ queue = {t \in TaskIds : t \notin Placed /\ Waiting(t) = {}}
  /\ tiers # <<>> => \A t \in queue : \E e \in edges : e[1] = t /\ e[2] \in tiers[Len(tiers)]

\* The tiers so far: a task is in one of them at most, with all it depends on before it and
\* something just before it.
Layered ==
  /\ \A i \in DOMAIN tiers : tiers[i] # {}
  /\ \A i, j \in DOMAIN tiers : i # j => tiers[i] \cap tiers[j] = {}
  /\ \A i \in DOMAIN tiers, e \in edges : e[1] \in tiers[i] =>
       \E k \in DOMAIN tiers : k < i /\ e[2] \in tiers[k]
  /\ \A i \in DOMAIN tiers : i > 1 =>
       \A t \in tiers[i] : \E e \in edges : e[1] = t /\ e[2] \in tiers[i - 1]

Sorted == Counted /\ Layered

\* The tiers with the tasks of the cycles, and a plan made of them.
AllTiers == IF CycleRemainder = {} THEN tiers ELSE Append(tiers, CycleRemainder)

PlanOf(kept) == [i \in 1..Len(AllTiers) |-> {j \in kept : TaskOf[j] \in AllTiers[i]}]

PlannerInv ==
  /\ PlannerTypeOK
  /\ phase = "fetch" => tiers = <<>>
  /\ phase = "sort" => Sorted
  /\ phase = "planned" => \/ plan = <<Jobs>>
                          \/ Sorted /\ queue = {} /\ \E kept \in JobsKept : plan = PlanOf(kept)

-----------------------------------------------------------------------------
LEMMA TaskIdsFinite == IsFiniteSet(TaskIds)
<1> DEFINE f == [j \in Jobs |-> TaskOf[j]]
<1>1. f \in Surjection(Jobs, TaskIds)
  BY DEF Surjection, TaskIds
<1> QED
  BY <1>1, FS_Surjection, PlannerAssumption

LEMMA EdgesFinite ==
  ASSUME NEW es \in SUBSET (TaskIds \X TaskIds)
  PROVE  IsFiniteSet(es) /\ Cardinality(es) \in Nat
<1>1. IsFiniteSet(es)
  BY TaskIdsFinite, FS_Product, FS_Subset
<1> QED
  BY <1>1, FS_CardinalityType

\* in_degree counts all the edges when none of the tasks is placed.
LEMMA InDegreeCounts ==
  ASSUME NEW es \in SUBSET (TaskIds \X TaskIds)
  PROVE  /\ InDegree(es) \in [TaskIds -> Nat]
         /\ \A t \in TaskIds : InDegree(es)[t] = Cardinality({e \in es : e[1] = t})
         /\ \A t \in TaskIds : InDegree(es)[t] = 0 <=> {e \in es : e[1] = t} = {}
<1>1. ASSUME NEW t \in TaskIds
      PROVE  /\ Cardinality({e \in es : e[1] = t}) \in Nat
             /\ Cardinality({e \in es : e[1] = t}) = 0 <=> {e \in es : e[1] = t} = {}
  <2>1. {e \in es : e[1] = t} \in SUBSET (TaskIds \X TaskIds)
    OBVIOUS
  <2> QED
    BY <2>1, EdgesFinite, FS_EmptySet
<1> QED
  BY <1>1 DEF InDegree

\* Without tiers every edge counts.
LEMMA NonePlaced == tiers = <<>> => Placed = {}
BY DEF Placed

\* The sort begins with what is fetched.
LEMMA FetchedSorted ==
  ASSUME NEW es \in SUBSET (TaskIds \X TaskIds), PlannerTypeOK, phase = "fetch", tiers = <<>>,
         es \subseteq depends, AfterFetch(es), UNCHANGED <<depends, tiers>>,
         unread' \in SUBSET TaskIds, faulted' \in BOOLEAN
  PROVE  PlannerInv'
<1>1. CASE es = {}
  <2>1. plan' = <<Jobs>> /\ phase' = "planned" /\ UNCHANGED <<degree, queue>> /\ edges' = es
    BY <1>1 DEF AfterFetch
  <2>2. <<Jobs>> \in Seq(SUBSET Jobs)
    OBVIOUS
  <2> QED
    BY <2>1, <2>2 DEF PlannerInv, PlannerTypeOK
<1>2. CASE es # {}
  <2>1. /\ edges' = es /\ degree' = InDegree(es) /\ phase' = "sort" /\ UNCHANGED plan
        /\ queue' = {t \in TaskIds : InDegree(es)[t] = 0}
    BY <1>2 DEF AfterFetch
  <2>2. tiers' = <<>> /\ Placed' = {}
    BY DEF Placed
  <2>3. \A t \in TaskIds : Waiting(t)' = {e \in es : e[1] = t}
    BY <2>1, <2>2 DEF Waiting
  <2>4. Counted'
    BY <2>1, <2>2, <2>3, InDegreeCounts DEF Counted
  <2>5. Layered'
    BY <2>2 DEF Layered
  <2>6. PlannerTypeOK'
    BY <2>1, InDegreeCounts DEF PlannerTypeOK
  <2> QED
    BY <2>1, <2>2, <2>4, <2>5, <2>6 DEF PlannerInv, Sorted
<1> QED
  BY <1>1, <1>2

LEMMA PlannerInitInv == PlannerInit => PlannerInv
<1> SUFFICES ASSUME PlannerInit PROVE PlannerInv
  OBVIOUS
<1>0. /\ plan \in Seq(SUBSET Jobs) /\ tiers \in Seq(SUBSET TaskIds) /\ degree \in [TaskIds -> Nat]
      /\ phase \in {"fetch", "sort", "planned"}
  BY DEF PlannerInit
<1>1. PlannerTypeOK
  BY <1>0 DEF PlannerInit, PlannerTypeOK
<1> QED
  BY <1>1 DEF PlannerInit, PlannerInv

-----------------------------------------------------------------------------
\* One more tier: every task of the queue, and the edges to it do not count any more.
LEMMA SortTierKeeps ==
  ASSUME PlannerInv, SortTier
  PROVE  PlannerInv'
<1> DEFINE hit(t) == {e \in edges : e[1] = t /\ e[2] \in queue}
           n == Len(tiers)
<1>0. /\ PlannerTypeOK /\ Sorted /\ phase = "sort"
      /\ edges \in SUBSET (TaskIds \X TaskIds)
  BY DEF PlannerInv, SortTier, PlannerTypeOK
<1>1. /\ queue # {} /\ tiers' = Append(tiers, queue)
      /\ degree' = [t \in TaskIds |-> degree[t] - Cardinality(hit(t))]
      /\ queue' = {t \in TaskIds : degree[t] > 0 /\ degree[t] = Cardinality(hit(t))}
      /\ UNCHANGED <<depends, phase, unread, edges, plan, faulted>>
  BY DEF SortTier
<1>2. /\ n \in Nat /\ DOMAIN tiers = 1..n /\ DOMAIN tiers' = 1..(n + 1)
      /\ tiers'[n + 1] = queue /\ \A i \in 1..n : tiers'[i] = tiers[i]
      /\ tiers' \in Seq(SUBSET TaskIds) /\ Len(tiers') = n + 1
  BY <1>0, <1>1 DEF PlannerTypeOK
<1>3. Placed' = Placed \cup queue
  <2>1. \A t : t \in Placed' <=> \E i \in 1..(n + 1) : t \in tiers'[i]
    BY <1>2 DEF Placed
  <2>2. \A t : t \in Placed <=> \E i \in 1..n : t \in tiers[i]
    BY <1>2 DEF Placed
  <2>3. \A i \in 1..(n + 1) : i \in 1..n \/ i = n + 1
    BY <1>2
  <2>4. 1..n \subseteq 1..(n + 1) /\ n + 1 \in 1..(n + 1)
    BY <1>2
  <2> HIDE DEF n
  <2> QED
    BY <1>2, <2>1, <2>2, <2>3, <2>4
<1>4. ASSUME NEW t \in TaskIds
      PROVE  /\ Waiting(t) = hit(t) \cup Waiting(t)' /\ hit(t) \cap Waiting(t)' = {}
             /\ hit(t) \in SUBSET (TaskIds \X TaskIds)
             /\ Waiting(t)' \in SUBSET (TaskIds \X TaskIds)
  <2>1. queue \cap Placed = {}
    BY <1>0 DEF Sorted, Counted
  <2>2. Waiting(t)' = {e \in edges : e[1] = t /\ e[2] \notin Placed \cup queue}
    BY <1>1, <1>3 DEF Waiting
  <2> QED
    BY <1>0, <2>1, <2>2 DEF Waiting
<1>5. ASSUME NEW t \in TaskIds
      PROVE  /\ Cardinality(hit(t)) \in Nat /\ Cardinality(Waiting(t)') \in Nat
             /\ Cardinality(Waiting(t)) = Cardinality(hit(t)) + Cardinality(Waiting(t)')
             /\ Cardinality(Waiting(t)') = 0 <=> Waiting(t)' = {}
             /\ Cardinality(Waiting(t)) = 0 <=> Waiting(t) = {}
  <2> DEFINE a == hit(t)
             b == Waiting(t)'
  <2>1. /\ a \in SUBSET (TaskIds \X TaskIds) /\ b \in SUBSET (TaskIds \X TaskIds)
        /\ Waiting(t) = a \cup b /\ a \cap b = {}
    BY <1>4
  <2> HIDE DEF a, b
  <2>2. IsFiniteSet(a) /\ IsFiniteSet(b) /\ Cardinality(a) \in Nat /\ Cardinality(b) \in Nat
    BY <2>1, EdgesFinite
  <2>3. IsFiniteSet(a \cup b) /\ Cardinality(a \cup b) = Cardinality(a) + Cardinality(b) - Cardinality(a \cap b)
    BY <2>2, FS_Union
  <2>4. Cardinality(a \cap b) = 0
    BY <2>1, FS_EmptySet
  <2>5. Cardinality(a \cup b) = Cardinality(a) + Cardinality(b)
    BY <2>2, <2>3, <2>4
  <2>6. /\ Cardinality(b) = 0 <=> b = {}
        /\ Cardinality(a \cup b) = 0 <=> a \cup b = {}
    BY <2>2, <2>3, FS_EmptySet
  <2>7. /\ Cardinality(a) \in Nat /\ Cardinality(b) \in Nat
        /\ Cardinality(Waiting(t)) = Cardinality(a) + Cardinality(b)
        /\ Cardinality(b) = 0 <=> b = {}
        /\ Cardinality(Waiting(t)) = 0 <=> Waiting(t) = {}
    BY <2>1, <2>2, <2>5, <2>6
  <2> QED
    BY <2>7 DEF a, b
<1>6. \A t \in TaskIds : degree[t] = Cardinality(Waiting(t))
  BY <1>0 DEF Sorted, Counted
<1>7. \A t \in TaskIds : degree'[t] = Cardinality(Waiting(t)')
  BY <1>1, <1>5, <1>6
<1>8. degree' \in [TaskIds -> Nat] /\ queue' \subseteq TaskIds
  <2>1. ASSUME NEW t \in TaskIds PROVE degree[t] - Cardinality(hit(t)) \in Nat
    <3> DEFINE a == Cardinality(hit(t))
               b == Cardinality(Waiting(t)')
    <3>1. a \in Nat /\ b \in Nat /\ degree[t] = a + b
      BY <1>5, <1>6
    <3> HIDE DEF a, b
    <3>2. degree[t] - a \in Nat
      BY <3>1
    <3> QED
      BY <3>2 DEF a
  <2> QED
    BY <1>1, <2>1
\* A placed task has no edge that counts.
<1>9. \A t \in Placed : Waiting(t) = {}
  <2>1. ASSUME NEW t \in Placed, NEW e \in Waiting(t) PROVE FALSE
    <3>1. PICK i \in DOMAIN tiers : t \in tiers[i]
      BY DEF Placed
    <3>2. e \in edges /\ e[1] = t /\ e[2] \notin Placed
      BY DEF Waiting
    <3>3. \E k \in DOMAIN tiers : e[2] \in tiers[k]
      BY <1>0, <3>1, <3>2 DEF Sorted, Layered
    <3> QED
      BY <3>2, <3>3 DEF Placed
  <2> QED
    BY <2>1
<1>10. \A t \in TaskIds : t \in queue' <=> Waiting(t) # {} /\ Waiting(t)' = {}
  <2> TAKE t \in TaskIds
  <2> DEFINE a == Cardinality(hit(t))
             b == Cardinality(Waiting(t)')
  <2>1. /\ t \in queue' <=> degree[t] > 0 /\ degree[t] = a
        /\ a \in Nat /\ b \in Nat /\ degree[t] = a + b
        /\ b = 0 <=> Waiting(t)' = {}
        /\ degree[t] = 0 <=> Waiting(t) = {}
    BY <1>1, <1>5, <1>6
  <2> HIDE DEF a, b
  <2> QED
    BY <2>1
<1>11. queue' = {t \in TaskIds : t \notin Placed' /\ Waiting(t)' = {}}
  <2>1. ASSUME NEW t \in TaskIds PROVE Waiting(t) = {} <=> t \in Placed \cup queue
    BY <1>0, <1>9 DEF Sorted, Counted
  <2> QED
    BY <1>3, <1>4, <1>8, <1>10, <2>1
<1>12. \A t \in queue' : \E e \in edges : e[1] = t /\ e[2] \in queue
  <2> TAKE t \in queue'
  <2>1. t \in TaskIds /\ Waiting(t) # {} /\ Waiting(t)' = {}
    BY <1>8, <1>10
  <2>2. hit(t) # {}
    BY <1>4, <2>1
  <2> QED
    BY <2>2
<1>13. Counted'
  BY <1>1, <1>2, <1>7, <1>11, <1>12 DEF Counted
<1>14. \A t \in queue : Waiting(t) = {} /\ t \notin Placed /\ t \in TaskIds
  BY <1>0 DEF Sorted, Counted
<1>15. Layered'
  <2> HIDE DEF n
  <2>0. \A i \in 1..(n + 1) : i \in 1..n \/ i = n + 1
    BY <1>2
  <2>1. \A i \in DOMAIN tiers' : tiers'[i] # {}
    BY <1>0, <1>1, <1>2, <2>0 DEF Sorted, Layered
  <2>2. ASSUME NEW i \in DOMAIN tiers', NEW j \in DOMAIN tiers', i # j
        PROVE  tiers'[i] \cap tiers'[j] = {}
    <3>1. \A k \in 1..n : tiers[k] \cap queue = {}
      BY <1>2, <1>14 DEF Placed
    <3> QED
      BY <1>0, <1>2, <2>0, <2>2, <3>1 DEF Sorted, Layered
  <2>3. ASSUME NEW i \in DOMAIN tiers', NEW e \in edges, e[1] \in tiers'[i]
        PROVE  \E k \in DOMAIN tiers' : k < i /\ e[2] \in tiers'[k]
    <3>1. CASE i \in 1..n
      <4>1. PICK k \in 1..n : k < i /\ e[2] \in tiers[k]
        BY <1>0, <1>2, <2>3, <3>1 DEF Sorted, Layered
      <4>2. k \in 1..(n + 1) /\ tiers'[k] = tiers[k]
        BY <1>2
      <4> QED
        BY <1>2, <4>1, <4>2
    <3>2. CASE i = n + 1
      <4>1. e[1] \in queue /\ e[2] \in Placed
        BY <1>2, <1>14, <2>3, <3>2 DEF Waiting
      <4>2. PICK k \in 1..n : e[2] \in tiers[k]
        BY <1>2, <4>1 DEF Placed
      <4>3. k \in 1..(n + 1) /\ tiers'[k] = tiers[k] /\ k < i
        BY <1>2, <3>2
      <4> QED
        BY <1>2, <4>2, <4>3
    <3> QED
      BY <1>2, <2>0, <3>1, <3>2
  <2>4. ASSUME NEW i \in DOMAIN tiers', i > 1, NEW t \in tiers'[i]
        PROVE  \E e \in edges : e[1] = t /\ e[2] \in tiers'[i - 1]
    <3>1. CASE i \in 1..n
      <4>1. i - 1 \in 1..n /\ tiers'[i - 1] = tiers[i - 1]
        BY <1>2, <2>4, <3>1
      <4> QED
        BY <1>0, <1>2, <2>4, <3>1, <4>1 DEF Sorted, Layered
    <3>2. CASE i = n + 1
      <4>1. t \in queue /\ n \in 1..n /\ tiers'[n] = tiers[n] /\ i - 1 = n /\ tiers # <<>>
        BY <1>2, <2>4, <3>2 DEF n
      <4>2. \E e \in edges : e[1] = t /\ e[2] \in tiers[n]
        BY <1>0, <4>1 DEF Sorted, Counted, n
      <4> QED
        BY <4>1, <4>2
    <3> QED
      BY <1>2, <2>0, <3>1, <3>2
  <2>5. edges' = edges
    BY <1>1
  <2>6. \A i, j \in DOMAIN tiers' : i # j => tiers'[i] \cap tiers'[j] = {}
    BY <2>2
  <2>7. \A i \in DOMAIN tiers', e \in edges' : e[1] \in tiers'[i] =>
          \E k \in DOMAIN tiers' : k < i /\ e[2] \in tiers'[k]
    BY <2>3, <2>5
  <2>8. \A i \in DOMAIN tiers' : i > 1 =>
          \A t \in tiers'[i] : \E e \in edges' : e[1] = t /\ e[2] \in tiers'[i - 1]
    BY <2>4, <2>5
  <2> QED
    BY <2>1, <2>6, <2>7, <2>8 DEF Layered
<1>16. PlannerTypeOK'
  BY <1>0, <1>1, <1>2, <1>8 DEF PlannerTypeOK
<1> QED
  BY <1>0, <1>1, <1>13, <1>15, <1>16 DEF PlannerInv, Sorted

\* The plan: every task is in one of the tiers, those of the cycles in the last.
LEMMA FinishPlanKeeps ==
  ASSUME PlannerInv, FinishPlan
  PROVE  PlannerInv'
<1>1. /\ PlannerTypeOK /\ Sorted /\ queue = {}
      /\ \E kept \in JobsKept : plan' = PlanOf(kept)
      /\ phase' = "planned"
      /\ UNCHANGED <<depends, unread, edges, degree, queue, tiers, faulted>>
  BY DEF PlannerInv, FinishPlan, PlanOf, AllTiers
<1>2. PICK kept \in JobsKept : plan' = PlanOf(kept)
  BY <1>1
<1>3. kept \subseteq Jobs
  BY DEF JobsKept
<1>4. Len(AllTiers) \in Nat
  BY <1>1 DEF AllTiers, PlannerTypeOK
<1>5. plan' \in Seq(SUBSET Jobs)
  BY <1>2, <1>3, <1>4 DEF PlanOf
<1>6. PlannerTypeOK'
  BY <1>1, <1>5 DEF PlannerTypeOK
<1>7. Sorted' = Sorted
  BY <1>1 DEF Sorted, Counted, Layered, Waiting, Placed
<1>8. PlanOf(kept)' = PlanOf(kept) /\ JobsKept' = JobsKept
  BY <1>1 DEF PlanOf, AllTiers, CycleRemainder, JobsKept
<1> QED
  BY <1>1, <1>2, <1>6, <1>7, <1>8 DEF PlannerInv

\* The inductive invariant of the planner.
THEOREM PlannerInvariant == PlannerSpec => []PlannerInv
<1>1. PlannerInv /\ [PlannerNext]_plannerVars => PlannerInv'
  <2> SUFFICES ASSUME PlannerInv, [PlannerNext]_plannerVars PROVE PlannerInv'
    OBVIOUS
  <2>0. PlannerTypeOK /\ edges \in SUBSET (TaskIds \X TaskIds)
    BY DEF PlannerInv, PlannerTypeOK
  <2>1. CASE FetchEdges
    <3>1. PICK t \in unread :
            LET es == edges \cup {e \in depends : e[1] = t} IN
            /\ unread' = unread \ {t}
            /\ IF unread = {t} THEN AfterFetch(es)
               ELSE edges' = es /\ UNCHANGED <<phase, degree, queue, plan>>
      BY <2>1 DEF FetchEdges
    <3> DEFINE es == edges \cup {e \in depends : e[1] = t}
    <3>2. phase = "fetch" /\ tiers = <<>> /\ UNCHANGED <<depends, tiers, faulted>>
      BY <2>1 DEF FetchEdges, PlannerInv
    <3>3. es \subseteq depends /\ es \in SUBSET (TaskIds \X TaskIds) /\ unread' \in SUBSET TaskIds
      BY <2>0, <3>1 DEF PlannerTypeOK
    <3> HIDE DEF es
    <3>4. CASE unread = {t}
      <4>1. AfterFetch(es) /\ faulted' \in BOOLEAN
        BY <2>0, <3>1, <3>2, <3>4 DEF es, PlannerTypeOK
      <4> QED
        BY <2>0, <3>2, <3>3, <4>1, FetchedSorted
    <3>5. CASE unread # {t}
      <4>1. edges' = es /\ UNCHANGED <<phase, degree, queue, plan>>
        BY <3>1, <3>5 DEF es
      <4> QED
        BY <2>0, <3>2, <3>3, <4>1 DEF PlannerInv, PlannerTypeOK
    <3> QED
      BY <3>4, <3>5
  <2>2. CASE FetchFails
    <3>1. phase = "fetch" /\ tiers = <<>> /\ UNCHANGED <<depends, tiers>> /\ AfterFetch(edges)
      BY <2>2 DEF FetchFails, PlannerInv
    <3>2. unread' \in SUBSET TaskIds /\ faulted' \in BOOLEAN /\ edges \subseteq depends
      BY <2>0, <2>2 DEF FetchFails, PlannerTypeOK
    <3> QED
      BY <2>0, <3>1, <3>2, FetchedSorted
  <2>3. CASE UNCHANGED plannerVars
    <3>1. /\ UNCHANGED <<depends, phase, unread, edges, degree, queue, tiers, plan, faulted>>
      BY <2>3 DEF plannerVars
    <3>2. Sorted' = Sorted
      BY <3>1 DEF Sorted, Counted, Layered, Waiting, Placed
    <3>3. \A kept : PlanOf(kept)' = PlanOf(kept)
      BY <3>1 DEF PlanOf, AllTiers, CycleRemainder
    <3>4. JobsKept' = JobsKept
      BY DEF JobsKept
    <3>5. PlannerTypeOK'
      BY <2>0, <3>1 DEF PlannerTypeOK
    <3> QED
      BY <3>1, <3>2, <3>3, <3>4, <3>5 DEF PlannerInv
  <2> QED
    BY <2>1, <2>2, <2>3, SortTierKeeps, FinishPlanKeeps DEF PlannerNext
<1> QED
  BY <1>1, PlannerInitInv, PTL DEF PlannerSpec

-----------------------------------------------------------------------------
\* What the tiers of a plan are: each task is in one, an edge leads to an earlier tier unless
\* its task is one of the remainder, and the remainder has an edge into itself.
LEMMA PlannedTiers ==
  ASSUME PlannerTypeOK, Sorted, queue = {}
  PROVE  /\ Len(AllTiers) \in Nat /\ DOMAIN AllTiers = 1..Len(AllTiers)
         /\ Len(tiers) \in Nat /\ DOMAIN tiers = 1..Len(tiers) /\ Len(tiers) <= Len(AllTiers)
         /\ \A i \in 1..Len(AllTiers) : AllTiers[i] # {} /\ AllTiers[i] \subseteq TaskIds
         /\ \A i, k \in 1..Len(AllTiers) : i # k => AllTiers[i] \cap AllTiers[k] = {}
         /\ \A t \in TaskIds : \E i \in 1..Len(AllTiers) : t \in AllTiers[i]
         /\ \A i \in 1..Len(tiers) : AllTiers[i] = tiers[i]
         /\ \A t \in TaskIds : t \in Placed \/ t \in CycleRemainder
         /\ \A t \in CycleRemainder : \E e \in edges : e[1] = t /\ e[2] \in CycleRemainder
<1> DEFINE n == Len(tiers)
           r == CycleRemainder
<1>1. /\ n \in Nat /\ DOMAIN tiers = 1..n /\ edges \in SUBSET (TaskIds \X TaskIds)
      /\ \A i \in 1..n : tiers[i] \subseteq TaskIds
  BY DEF PlannerTypeOK
<1>2. \A t \in TaskIds : t \in r <=> Waiting(t) # {}
  <2>1. \A t \in TaskIds : Waiting(t) \in SUBSET (TaskIds \X TaskIds)
    BY <1>1 DEF Waiting
  <2>2. \A t \in TaskIds : /\ Cardinality(Waiting(t)) \in Nat
                           /\ Cardinality(Waiting(t)) = 0 <=> Waiting(t) = {}
    BY <2>1, EdgesFinite, FS_EmptySet
  <2> QED
    BY <2>2 DEF CycleRemainder, Sorted, Counted
<1>3. \A t \in TaskIds : t \in Placed <=> Waiting(t) = {}
  <2>1. ASSUME NEW t \in TaskIds, Waiting(t) = {} PROVE t \in Placed
    BY <2>1 DEF Sorted, Counted
  <2>2. ASSUME NEW t \in TaskIds, t \in Placed, NEW e \in Waiting(t) PROVE FALSE
    <3>1. PICK i \in DOMAIN tiers : t \in tiers[i]
      BY <2>2 DEF Placed
    <3>2. e \in edges /\ e[1] = t /\ e[2] \notin Placed
      BY DEF Waiting
    <3>3. \E k \in DOMAIN tiers : e[2] \in tiers[k]
      BY <3>1, <3>2 DEF Sorted, Layered
    <3> QED
      BY <3>2, <3>3 DEF Placed
  <2> QED
    BY <2>1, <2>2
<1>4. r \subseteq TaskIds /\ r \cap Placed = {}
  BY <1>2, <1>3 DEF CycleRemainder
<1>5. \A t \in r : \E e \in edges : e[1] = t /\ e[2] \in r
  <2> TAKE t \in r
  <2>1. PICK e \in edges : e[1] = t /\ e[2] \notin Placed
    BY <1>2, <1>4 DEF Waiting
  <2>2. e[2] \in TaskIds
    BY <1>1
  <2> QED
    BY <1>2, <1>3, <2>1, <2>2
<1>6. \A t : t \in Placed <=> \E i \in 1..n : t \in tiers[i]
  BY <1>1 DEF Placed
<1>7. /\ \A i \in 1..n : tiers[i] # {}
      /\ \A i, k \in 1..n : i # k => tiers[i] \cap tiers[k] = {}
  BY <1>1 DEF Sorted, Layered
<1>8. CASE r = {}
  <2>1. AllTiers = tiers
    BY <1>8 DEF AllTiers
  <2> HIDE DEF r, n
  <2> QED
    BY <1>1, <1>2, <1>3, <1>5, <1>6, <1>7, <1>8, <2>1 DEF r, n
<1>9. CASE r # {}
  <2>1. /\ AllTiers = Append(tiers, r)
    BY <1>9 DEF AllTiers
  <2>2. /\ Len(AllTiers) = n + 1 /\ DOMAIN AllTiers = 1..(n + 1)
        /\ AllTiers[n + 1] = r /\ \A i \in 1..n : AllTiers[i] = tiers[i]
    BY <1>1, <2>1 DEF PlannerTypeOK
  <2> HIDE DEF r, n
  <2>3. \A i \in 1..(n + 1) : i \in 1..n \/ i = n + 1
    BY <1>1
  <2>4. 1..n \subseteq 1..(n + 1) /\ n + 1 \in 1..(n + 1) /\ n + 1 \in Nat /\ n <= n + 1
    BY <1>1
  <2>5. \A i \in 1..(n + 1) : AllTiers[i] # {} /\ AllTiers[i] \subseteq TaskIds
    BY <1>1, <1>4, <1>7, <1>9, <2>2, <2>3
  <2>6. \A i, k \in 1..(n + 1) : i # k => AllTiers[i] \cap AllTiers[k] = {}
    <3>1. \A i \in 1..n : tiers[i] \cap r = {}
      BY <1>4, <1>6
    <3> QED
      BY <1>7, <2>2, <2>3, <3>1
  <2>7. \A t \in TaskIds : \E i \in 1..(n + 1) : t \in AllTiers[i]
    BY <1>2, <1>3, <1>6, <2>2, <2>4
  <2> QED
    BY <1>1, <1>2, <1>3, <1>5, <2>2, <2>4, <2>5, <2>6, <2>7 DEF r, n
<1> QED
  BY <1>8, <1>9

\* The tier of a task in a plan of several.
LEMMA TierIs ==
  ASSUME PlannerTypeOK, Sorted, queue = {}, NEW kept \in JobsKept, plan = PlanOf(kept),
         NEW i \in 1..Len(AllTiers), NEW t \in AllTiers[i]
  PROVE  TierOf(t) = i
<1>1. Len(plan) = Len(AllTiers) /\ \A k \in 1..Len(plan) : plan[k] = {j \in kept : TaskOf[j] \in AllTiers[k]}
  BY PlannedTiers DEF PlanOf
<1>2. t \in TaskIds
  BY PlannedTiers
<1>3. PICK j \in kept : TaskOf[j] = t
  BY <1>2 DEF JobsKept
<1>4. \E m \in plan[i] : TaskOf[m] = t
  BY <1>1, <1>3
<1>5. \A k \in 1..Len(plan) : (\E m \in plan[k] : TaskOf[m] = t) => k = i
  BY <1>1, PlannedTiers
<1> QED
  BY <1>1, <1>4, <1>5 DEF TierOf

\* A task that can be ordered is not left to the last tier: the tasks left over that it leads
\* to would have no first one.
LEMMA OrderablePlaced ==
  ASSUME PlannerTypeOK, Sorted, queue = {}, NEW t \in TaskIds, Orderable(t)
  PROVE  t \in Placed
<1>1. SUFFICES ASSUME t \in CycleRemainder PROVE FALSE
  BY PlannedTiers
<1>2. PICK reach \in SUBSET TaskIds :
        /\ t \in reach /\ \A e \in edges : e[1] \in reach => e[2] \in reach
        /\ \A group \in SUBSET reach \ {{}} :
             \E s \in group : \A e \in edges : e[1] = s => e[2] \notin group
  BY DEF Orderable
<1> DEFINE group == reach \cap CycleRemainder
<1>3. group \in SUBSET reach \ {{}}
  BY <1>1, <1>2
<1>4. PICK s \in group : \A e \in edges : e[1] = s => e[2] \notin group
  BY <1>2, <1>3
<1>5. PICK e \in edges : e[1] = s /\ e[2] \in CycleRemainder
  BY PlannedTiers
<1> QED
  BY <1>2, <1>4, <1>5

-----------------------------------------------------------------------------
\* plan() loses no delegation, neither to a cycle nor to a failing query, and gives each one
\* tier, for any jobs that delegate different tasks (agent/dispatch_planner.py).
THEOREM EachJobInOneTierHolds ==
  ASSUME \A i, j \in Jobs : TaskOf[i] = TaskOf[j] => i = j
  PROVE  PlannerSpec => []EachJobInOneTier
<1>1. ASSUME PlannerInv, phase = "planned", plan = <<Jobs>>
      PROVE  /\ \A j \in Jobs : Cardinality({i \in 1..Len(plan) : j \in plan[i]}) = 1
             /\ \A i \in 1..Len(plan) : plan[i] # {}
  <2>1. \A j \in Jobs : {i \in 1..Len(plan) : j \in plan[i]} = {1}
    BY <1>1
  <2>2. \A j \in Jobs : Cardinality({i \in 1..Len(plan) : j \in plan[i]}) = 1
    <3> SUFFICES ASSUME NEW j \in Jobs PROVE Cardinality({i \in 1..Len(plan) : j \in plan[i]}) = 1
      OBVIOUS
    <3>1. Cardinality({1}) = 1
      BY FS_Singleton
    <3> QED
      BY <2>1, <3>1, Zenon
  <2> QED
    BY <1>1, <2>2, PlannerAssumption
<1>2. ASSUME PlannerInv, NEW kept \in JobsKept, Sorted, queue = {}, plan = PlanOf(kept)
      PROVE  /\ \A j \in Jobs : Cardinality({i \in 1..Len(plan) : j \in plan[i]}) = 1
             /\ \A i \in 1..Len(plan) : plan[i] # {}
  <2>0. PlannerTypeOK
    BY <1>2 DEF PlannerInv
  <2>1. kept = Jobs
    BY DEF JobsKept, TaskIds
  <2>2. /\ Len(plan) = Len(AllTiers)
        /\ \A k \in 1..Len(plan) : plan[k] = {j \in Jobs : TaskOf[j] \in AllTiers[k]}
    BY <1>2, <2>0, <2>1, PlannedTiers DEF PlanOf
  <2>3. ASSUME NEW j \in Jobs
        PROVE  Cardinality({i \in 1..Len(plan) : j \in plan[i]}) = 1
    <3>1. PICK k \in 1..Len(AllTiers) : TaskOf[j] \in AllTiers[k]
      BY <1>2, <2>0, PlannedTiers DEF TaskIds
    <3>2. \A i \in 1..Len(AllTiers) : i # k => AllTiers[i] \cap AllTiers[k] = {}
      BY <1>2, <2>0, <3>1, PlannedTiers, Zenon
    <3>3. \A i \in 1..Len(plan) : j \in plan[i] <=> TaskOf[j] \in AllTiers[i]
      BY <2>2
    <3>4. {i \in 1..Len(plan) : j \in plan[i]} = {k}
      BY <2>2, <3>1, <3>2, <3>3
    <3> QED
      BY <3>4, FS_Singleton
  <2>4. ASSUME NEW i \in 1..Len(plan) PROVE plan[i] # {}
    <3>1. PICK t \in AllTiers[i] : t \in TaskIds
      BY <1>2, <2>0, <2>2, PlannedTiers
    <3> QED
      BY <2>2, <3>1 DEF TaskIds
  <2> QED
    BY <2>3, <2>4
<1>3. PlannerInv => EachJobInOneTier
  BY <1>1, <1>2 DEF PlannerInv, EachJobInOneTier, Planned
<1> QED
  BY <1>3, PlannerInvariant, PTL

\* A task is in a later tier than everything it depends on, unless it is in a cycle or behind
\* one, for any graph and any order in which its edges were fetched.
THEOREM TiersRespectEdgesHolds == PlannerSpec => []TiersRespectEdges
<1>1. ASSUME PlannerInv, Planned, Len(plan) > 1, NEW e \in edges, Orderable(e[1])
      PROVE  TierOf(e[2]) < TierOf(e[1])
  <2>a. ASSUME plan = <<Jobs>> PROVE FALSE
    <3>1. Len(plan) = 1
      BY <2>a
    <3> QED
      BY <1>1, <3>1
  <2>c. PlannerTypeOK
    BY <1>1 DEF PlannerInv
  <2>b. PlannerTypeOK /\ plan # <<Jobs>>
    BY <2>a, <2>c
  <2>0. PlannerTypeOK /\ plan # <<Jobs>> /\ e[1] \in TaskIds
    BY <2>b DEF PlannerTypeOK
  <2>1. PICK kept \in JobsKept : Sorted /\ queue = {} /\ plan = PlanOf(kept)
    BY <1>1, <2>0 DEF PlannerInv, Planned
  <2>2. e[1] \in Placed
    BY <1>1, <2>0, <2>1, OrderablePlaced
  <2>3. PICK i \in DOMAIN tiers : e[1] \in tiers[i]
    BY <2>2 DEF Placed
  <2>4. PICK k \in DOMAIN tiers : k < i /\ e[2] \in tiers[k]
    BY <2>1, <2>3 DEF Sorted, Layered
  <2>5. /\ i \in 1..Len(AllTiers) /\ e[1] \in AllTiers[i]
        /\ k \in 1..Len(AllTiers) /\ e[2] \in AllTiers[k]
    <3>1. /\ DOMAIN tiers = 1..Len(tiers) /\ Len(tiers) <= Len(AllTiers)
          /\ Len(tiers) \in Nat /\ Len(AllTiers) \in Nat
          /\ \A l \in 1..Len(tiers) : AllTiers[l] = tiers[l]
      BY <2>0, <2>1, PlannedTiers
    <3> QED
      BY <2>3, <2>4, <3>1
  <2>6. TierOf(e[1]) = i /\ TierOf(e[2]) = k
    BY <2>0, <2>1, <2>5, TierIs
  <2> QED
    BY <2>4, <2>6
<1>2. PlannerInv => TiersRespectEdges
  BY <1>1 DEF TiersRespectEdges
<1> QED
  BY <1>2, PlannerInvariant, PTL

\* No task waits longer than its dependencies make it.
THEOREM TiersAreTightHolds == PlannerSpec => []TiersAreTight
<1>1. ASSUME PlannerInv, Planned, Len(plan) > 1, NEW t \in TaskIds, Orderable(t), TierOf(t) > 1
      PROVE  \E e \in edges : e[1] = t /\ TierOf(e[2]) = TierOf(t) - 1
  <2>a. ASSUME plan = <<Jobs>> PROVE FALSE
    <3>1. Len(plan) = 1
      BY <2>a
    <3> QED
      BY <1>1, <3>1
  <2>c. PlannerTypeOK
    BY <1>1 DEF PlannerInv
  <2>0. PlannerTypeOK /\ plan # <<Jobs>>
    BY <2>a, <2>c
  <2>1. PICK kept \in JobsKept : Sorted /\ queue = {} /\ plan = PlanOf(kept)
    BY <1>1, <2>0 DEF PlannerInv, Planned
  <2>2. t \in Placed
    BY <1>1, <2>0, <2>1, OrderablePlaced
  <2>3. PICK i \in DOMAIN tiers : t \in tiers[i]
    BY <2>2 DEF Placed
  <2>d. /\ DOMAIN tiers = 1..Len(tiers) /\ Len(tiers) <= Len(AllTiers)
        /\ Len(tiers) \in Nat /\ Len(AllTiers) \in Nat
        /\ \A l \in 1..Len(tiers) : AllTiers[l] = tiers[l]
    BY <2>0, <2>1, PlannedTiers
  <2>4. i \in 1..Len(AllTiers) /\ t \in AllTiers[i]
    BY <2>3, <2>d
  <2>5. TierOf(t) = i
    BY <2>0, <2>1, <2>4, TierIs
  <2>6. PICK e \in edges : e[1] = t /\ e[2] \in tiers[i - 1]
    BY <1>1, <2>1, <2>3, <2>5 DEF Sorted, Layered
  <2>7. i - 1 \in 1..Len(tiers)
    BY <1>1, <2>3, <2>5, <2>d
  <2>8. i - 1 \in 1..Len(AllTiers) /\ e[2] \in AllTiers[i - 1]
    BY <2>6, <2>7, <2>d
  <2>9. TierOf(e[2]) = i - 1
    BY <2>0, <2>1, <2>8, TierIs
  <2> QED
    BY <2>5, <2>6, <2>9
<1>2. PlannerInv => TiersAreTight
  BY <1>1 DEF TiersAreTight
<1> QED
  BY <1>2, PlannerInvariant, PTL
=============================================================================
