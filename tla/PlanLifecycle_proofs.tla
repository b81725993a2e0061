------------------------ MODULE PlanLifecycle_proofs ------------------------
(***************************************************************************)
(* Proofs about PlanLifecycle, for any number of calls, any plan size and   *)
(* any faults.  When the tools run one at a time: what execute_plan creates *)
(* was approved (overlapping calls break it: MCPlanEdited.cfg), and one     *)
(* plan is executed once and for good.  However they overlap: execute_plan  *)
(* creates everything or nothing.                                           *)
(***************************************************************************)
EXTENDS PlanLifecycle, FiniteSetTheorems, SequenceTheorems, TLAPS

\* A plan that is not a draft is of a version the user approved.
Sound(plan) == plan # None => plan.status = "DRAFT" \/ plan.version \in approved

\* In memory, in storage and in the hands of the tools.
PlansAreSound ==
  /\ \A r \in Requests : Sound(objects[r]) /\ Sound(handler[r].read)
  /\ Sound(stored)

OneAtATime == \A r, s \in Active : r = s

\* A call that creates nodes does so for a plan that is still approved.
CreatorsAreApproved ==
  \A r \in Requests :
    /\ handler[r].pc \in {"loaded", "goal"} => handler[r].read # None
    /\ handler[r].pc \in {"goal", "tasks", "followup"} =>
         /\ handler[r].dict \in Requests
         /\ objects[handler[r].dict] # None
         /\ objects[handler[r].dict].status = "APPROVED"
    /\ handler[r].pc \in {"tasks", "followup"} => handler[r].version \in approved
    /\ handler[r].pc \in {"tasks", "followup", "rollback"} => handler[r].created # <<>>

IInv == TypeOK /\ PlansAreSound /\ OneAtATime /\ CreatorsAreApproved /\ OnlyApprovedTasks

-----------------------------------------------------------------------------
\* A sequence without its last element is of the same elements, and not empty
\* unless there was only one.
LEMMA FrontLength ==
  ASSUME NEW S, NEW s \in Seq(S), NEW n \in Nat, n = Len(s), n > 1
  PROVE  Len(Front(s)) # 0
<1>1. \A i \in 1..(n - 1) : s[i] \in S
  OBVIOUS
<1>2. Front(s) = SubSeq(s, 1, n - 1)
  BY DEF Front
<1>3. Len(SubSeq(s, 1, n - 1)) = IF 1 <= n - 1 THEN (n - 1) - 1 + 1 ELSE 0
  BY <1>1, SubSeqProperties
<1>4. (IF 1 <= n - 1 THEN (n - 1) - 1 + 1 ELSE 0) # 0
  OBVIOUS
<1> QED BY <1>2, <1>3, <1>4

LEMMA FrontType ==
  ASSUME NEW S, NEW s \in Seq(S), s # <<>>
  PROVE  Front(s) \in Seq(S) /\ (Len(s) # 1 => Front(s) # <<>>)
<1>1. Front(s) \in Seq(S)
  BY DEF Front
<1>2. ASSUME Len(s) # 1 PROVE Front(s) # <<>>
  <2> DEFINE n == Len(s)
  <2>1. n \in Nat /\ n = Len(s) /\ n # 0 /\ n # 1
    BY <1>2
  <2> HIDE DEF n
  <2>2. n > 1
    BY <2>1
  <2>3. Len(Front(s)) # 0
    BY <2>1, <2>2, FrontLength
  <2>4. Len(<<>>) = 0
    OBVIOUS
  <2> QED BY <2>3, <2>4
<1> QED BY <1>1, <1>2

LEMMA InitIInv == Init => IInv
<1> SUFFICES ASSUME Init PROVE IInv
  OBVIOUS
<1>1. Idle \in Call
  BY DEF Idle, Call
<1>2. TypeOK
  BY <1>1, PlanAssumption DEF Init, TypeOK
<1>3. Active = {}
  BY DEF Init, Active, Idle
<1>4. PlansAreSound /\ CreatorsAreApproved
  BY DEF Init, Idle, PlansAreSound, Sound, CreatorsAreApproved
<1> QED BY <1>2, <1>3, <1>4 DEF Init, IInv, OneAtATime, OnlyApprovedTasks

\* With room for one call, a call begins when none is under way.
LEMMA NoneActive ==
  ASSUME MaxActive = 1, Cardinality(Active) < MaxActive
  PROVE  Active = {}
<1>1. Active \in SUBSET Requests
  BY DEF Active
<1>2. IsFiniteSet(Active)
  BY <1>1, FS_Subset, PlanAssumption
<1>3. Cardinality(Active) = 0
  BY <1>2, FS_CardinalityType
<1> QED BY <1>2, <1>3, FS_EmptySet

\* While r is the only call under way, giving it the plan of a dict, or having it
\* write a sound plan, keeps the invariant.
LEMMA WorkKeeps ==
  ASSUME IInv, NEW r \in Requests, \A s \in Active : s = r,
         NEW dict \in Requests, NEW plan \in Plan, Sound(plan), plan # None,
         handler[r].pc \in {"new", "loaded"},
         Work(r, dict, plan), UNCHANGED <<stored, nodes, faults>>
  PROVE  IInv'
<1> USE DEF IInv
<1>1. \A s \in Requests : s # r => handler[s].pc \in {"new", "done", "cut"}
  BY DEF Active
<1>2. approved' \subseteq Requests /\ approved \subseteq approved'
  BY DEF Work, TypeOK, Plan
<1>3. PICK p \in Plan, pc \in {"done", "goal", "saving"} :
        /\ p # None
        /\ p.status = "DRAFT" \/ p.version \in approved'
        /\ pc = "goal" => p.status = "APPROVED"
        /\ objects' = [objects EXCEPT ![dict] = p]
        /\ cache' = dict
        /\ handler' = [handler EXCEPT ![r].pc = pc, ![r].dict = dict, ![r].read = p]
  <2>1. CASE Op[r] = "edit" /\ EditPlan(r, dict, plan)
    <3>1. CASE plan.status = "EXECUTED"
      BY <1>2, <2>1, <3>1 DEF EditPlan, Take, Sound
    <3>2. CASE plan.status # "EXECUTED"
      <4>1. PICK title \in {plan.title, r}, version \in {plan.version, r} :
              \/ Persist(r, dict, [status |-> "DRAFT", title |-> title, version |-> version])
              \/ Take(r, dict, [plan EXCEPT !.title = title], "done")
        BY <2>1, <3>2 DEF EditPlan
      <4>2. title \in Requests /\ version \in Requests
        BY DEF Plan
      <4>3. CASE Persist(r, dict, [status |-> "DRAFT", title |-> title, version |-> version])
        <5> DEFINE p == [status |-> "DRAFT", title |-> title, version |-> version]
        <5>1. p \in Plan /\ p # None /\ p.status = "DRAFT"
          BY <4>2, NoneAssumption DEF Plan
        <5> QED BY <4>3, <5>1 DEF Persist, Take
      <4>4. CASE Take(r, dict, [plan EXCEPT !.title = title], "done")
        <5> DEFINE p == [plan EXCEPT !.title = title]
        <5>1. /\ p \in Plan /\ p # None
              /\ p.status = plan.status /\ p.version = plan.version
          BY <4>2, NoneAssumption DEF Plan
        <5>2. p.status = "DRAFT" \/ p.version \in approved'
          BY <1>2, <5>1 DEF Sound
        <5> QED BY <4>4, <5>1, <5>2 DEF Take
      <4> QED BY <4>1, <4>3, <4>4
    <3> QED BY <3>1, <3>2
  <2>2. CASE Op[r] = "approve" /\ ApprovePlan(r, dict, plan)
    <3> DEFINE p == [plan EXCEPT !.status = "APPROVED"]
    <3>1. p \in Plan /\ p # None /\ p.version = plan.version
      BY NoneAssumption DEF Plan
    <3>2. CASE plan.status # "DRAFT"
      BY <1>2, <2>2, <3>2 DEF ApprovePlan, Take, Sound
    <3>3. CASE plan.status = "DRAFT"
      <4>1. p.version \in approved'
        BY <2>2, <3>1, <3>3 DEF Work
      <4> QED BY <2>2, <3>1, <3>3, <4>1 DEF ApprovePlan, Persist, Take
    <3> QED BY <3>2, <3>3
  <2>3. CASE Op[r] = "execute" /\ ExecutePlan(r, dict, plan)
    BY <1>2, <2>3 DEF ExecutePlan, Take, Sound
  <2> QED BY <2>1, <2>2, <2>3 DEF Work
<1>4. /\ handler' \in [Requests -> Call]
      /\ handler'[r].pc = pc /\ handler'[r].dict = dict
      /\ handler'[r].read = p
      /\ \A s \in Requests : s # r => handler'[s] = handler[s]
  <2>1. handler \in [Requests -> Call] /\ handler[r] \in Call
    BY DEF TypeOK
  <2>2. LET c == [handler[r] EXCEPT !.pc = pc, !.dict = dict, !.read = p]
        IN  c \in Call /\ c.pc = pc /\ c.dict = dict /\ c.read = p
    BY <2>1 DEF Call
  <2>3. handler' = [handler EXCEPT ![r] =
                      [handler[r] EXCEPT !.pc = pc, !.dict = dict, !.read = p]]
    BY <1>3, <2>1
  <2> QED BY <2>1, <2>2, <2>3
<1>5. TypeOK'
  BY <1>2, <1>3, <1>4 DEF TypeOK
<1>6. PlansAreSound'
  <2>1. \A s \in Requests : /\ objects'[s] = IF s = dict THEN p ELSE objects[s]
                            /\ handler'[s].read \in {handler[s].read, p}
    BY <1>3, <1>4 DEF TypeOK
  <2> DEFINE SoundNext(q) == q # None => q.status = "DRAFT" \/ q.version \in approved'
  <2>2. \A q : Sound(q) => SoundNext(q)
    BY <1>2 DEF Sound
  <2>3. SoundNext(p)
    BY <1>3
  <2> HIDE DEF SoundNext
  <2>4. \A s \in Requests : SoundNext(objects'[s]) /\ SoundNext(handler'[s].read)
    BY <2>1, <2>2, <2>3 DEF PlansAreSound
  <2>5. SoundNext(stored')
    BY <2>2 DEF PlansAreSound
  <2> QED BY <2>4, <2>5 DEF PlansAreSound, Sound, SoundNext
<1>7. OneAtATime'
  BY <1>1, <1>4 DEF OneAtATime, Active
<1>8. CreatorsAreApproved'
  <2>1. objects'[dict] = p
    BY <1>3 DEF TypeOK
  <2> QED BY <1>1, <1>3, <1>4, <2>1 DEF CreatorsAreApproved
<1>9. OnlyApprovedTasks'
  BY <1>2 DEF OnlyApprovedTasks
<1> QED BY <1>5, <1>6, <1>7, <1>8, <1>9

\* A call under way that goes on with the plan it has keeps the invariant, if it
\* creates only approved tasks.
LEMMA CallKeeps ==
  ASSUME IInv, NEW r \in Active, NEW c \in Call, handler' = [handler EXCEPT ![r] = c],
         c.dict = handler[r].dict, c.read = handler[r].read,
         c.pc \in {"tasks", "followup", "rollback", "done", "cut"},
         c.pc \in {"tasks", "followup"} => /\ handler[r].pc \in {"goal", "tasks", "followup"}
                                          /\ c.version \in approved,
         c.pc \notin {"done", "cut"} => c.created # <<>>,
         nodes' \subseteq Node, \A n \in nodes' : n.kind = "task" => n.version \in approved,
         stored' \in {stored, handler[r].read},
         faults' \in Seq(Faults), Len(faults') <= MaxFaults,
         UNCHANGED <<objects, cache, approved>>
  PROVE  IInv'
<1> USE DEF IInv
<1>1. r \in Requests /\ handler \in [Requests -> Call] /\ handler[r] \in Call
  BY DEF Active, TypeOK
<1>2. handler[r].read \in Plan \cup {None}
  BY <1>1 DEF Call
<1>3. TypeOK'
  BY <1>1, <1>2 DEF TypeOK
<1>4. PlansAreSound'
  BY <1>1 DEF PlansAreSound, Sound
<1>5. OneAtATime'
  BY <1>1 DEF OneAtATime, Active
<1>6. CreatorsAreApproved'
  BY <1>1 DEF CreatorsAreApproved
<1> QED BY <1>3, <1>4, <1>5, <1>6 DEF OnlyApprovedTasks

\* What has failed, after one more failure or none.
LEMMA FaultType ==
  ASSUME TypeOK, NEW kind, Fault(kind) \/ UNCHANGED faults
  PROVE  faults' \in Seq(Faults) /\ Len(faults') <= MaxFaults
BY PlanAssumption DEF TypeOK, Fault

-----------------------------------------------------------------------------
\* Every step keeps the invariant.
LEMMA StepIInv ==
  ASSUME MaxActive = 1, IInv, [Next]_vars
  PROVE  IInv'
<1> USE DEF IInv
<1>0. handler \in [Requests -> Call] /\ \A r \in Requests : handler[r] \in Call
  BY DEF TypeOK
<1>1. ASSUME NEW r \in Requests, ProposePlan(r) PROVE IInv'
  <2> DEFINE p == [status |-> "DRAFT", title |-> r, version |-> r]
  <2> DEFINE c == [handler[r] EXCEPT !.pc = "saving", !.dict = r, !.read = p]
  <2>1. p \in Plan /\ p # None /\ p.status = "DRAFT"
    BY NoneAssumption DEF Plan
  <2>2. Active = {}
    BY <1>1, NoneActive DEF ProposePlan
  <2>3. c \in Call /\ c.pc = "saving" /\ c.read = p /\ c.dict = r
    BY <1>0, <2>1 DEF Call
  <2>4. /\ objects' = [objects EXCEPT ![r] = p] /\ cache' = r
        /\ handler' = [handler EXCEPT ![r] = c]
        /\ UNCHANGED <<stored, nodes, approved, faults>>
    BY <1>0, <1>1 DEF ProposePlan, Persist, Take
  <2> HIDE DEF p, c
  <2>5. TypeOK'
    BY <2>1, <2>3, <2>4 DEF TypeOK
  <2>6. PlansAreSound'
    BY <1>0, <2>1, <2>3, <2>4 DEF PlansAreSound, Sound, TypeOK
  <2>7. OneAtATime'
    BY <1>0, <2>2, <2>3, <2>4 DEF OneAtATime, Active
  <2>8. CreatorsAreApproved'
    BY <1>0, <2>2, <2>3, <2>4 DEF CreatorsAreApproved, Active
  <2> QED BY <2>4, <2>5, <2>6, <2>7, <2>8 DEF OnlyApprovedTasks
<1>2. ASSUME NEW r \in Requests, Begin(r) PROVE IInv'
  <2>1. Active = {} /\ handler[r].pc = "new"
    BY <1>2, NoneActive DEF Begin, At
  <2>2. CASE cache # None /\ Work(r, cache, objects[cache])
    <3>1. cache \in Requests /\ objects[cache] \in Plan /\ objects[cache] # None
      BY <2>2 DEF TypeOK
    <3>2. Sound(objects[cache])
      BY <3>1 DEF PlansAreSound
    <3> QED BY <1>2, <2>1, <2>2, <3>1, <3>2, WorkKeeps DEF Begin
  <2>3. CASE /\ cache = None
             /\ handler' = IF stored = None THEN [handler EXCEPT ![r].pc = "done"]
                           ELSE [handler EXCEPT ![r].pc = "loaded", ![r].read = stored]
             /\ UNCHANGED <<objects, cache, approved>>
    <3>1. PICK c \in Call : /\ handler' = [handler EXCEPT ![r] = c]
                            /\ c.pc \in {"done", "loaded"}
                            /\ c.pc = "loaded" => c.read # None
                            /\ c.read \in {handler[r].read, stored}
      <4>1. [handler[r] EXCEPT !.pc = "done"] \in Call
        BY <1>0 DEF Call
      <4>2. stored \in Plan \cup {None}
        BY DEF TypeOK
      <4>3. [handler[r] EXCEPT !.pc = "loaded", !.read = stored] \in Call
        BY <1>0, <4>2 DEF Call
      <4>4. CASE stored = None
        <5> DEFINE c == [handler[r] EXCEPT !.pc = "done"]
        <5>1. c.pc = "done" /\ c.read = handler[r].read
          BY <1>0 DEF Call
        <5>2. handler' = [handler EXCEPT ![r] = c]
          BY <1>0, <2>3, <4>4
        <5> QED BY <4>1, <5>1, <5>2
      <4>5. CASE stored # None
        <5> DEFINE c == [handler[r] EXCEPT !.pc = "loaded", !.read = stored]
        <5>1. c.pc = "loaded" /\ c.read = stored
          BY <1>0 DEF Call
        <5>2. handler' = [handler EXCEPT ![r] = c]
          BY <1>0, <2>3, <4>5
        <5> QED BY <4>3, <4>5, <5>1, <5>2
      <4> QED BY <4>4, <4>5
    <3>2. UNCHANGED <<objects, cache, stored, nodes, approved, faults>>
      BY <1>2, <2>3 DEF Begin
    <3>3. TypeOK'
      BY <3>1, <3>2 DEF TypeOK
    <3>4. PlansAreSound'
      BY <1>0, <3>1, <3>2 DEF PlansAreSound, Sound
    <3>5. OneAtATime' /\ CreatorsAreApproved'
      BY <1>0, <2>1, <3>1, <3>2 DEF OneAtATime, Active, CreatorsAreApproved
    <3> QED BY <3>2, <3>3, <3>4, <3>5 DEF OnlyApprovedTasks
  <2> QED BY <1>2, <2>2, <2>3 DEF Begin
<1>3. ASSUME NEW r \in Requests, Resume(r) PROVE IInv'
  <2>1. handler[r].pc = "loaded" /\ handler[r].read \in Plan /\ handler[r].read # None
    BY <1>0, <1>3 DEF Resume, At, CreatorsAreApproved, Call
  <2>2. Sound(handler[r].read) /\ \A s \in Active : s = r
    BY <2>1 DEF PlansAreSound, OneAtATime, Active
  <2> QED BY <1>3, <2>1, <2>2, WorkKeeps DEF Resume
<1>4. ASSUME NEW r \in Requests, Save(r) PROVE IInv'
  <2> DEFINE c == [handler[r] EXCEPT !.pc = "done"]
  <2>1. c \in Call /\ c.pc = "done" /\ c.dict = handler[r].dict /\ c.read = handler[r].read
    BY <1>0 DEF Call
  <2>2. r \in Active
    BY <1>4 DEF Save, At, Active
  <2>3. handler' = [handler EXCEPT ![r] = c]
    BY <1>0, <1>4 DEF Save
  <2>4. faults' \in Seq(Faults) /\ Len(faults') <= MaxFaults
    BY <1>4, FaultType DEF Save
  <2>5. nodes' \subseteq Node /\ \A n \in nodes' : n.kind = "task" => n.version \in approved
    BY <1>4 DEF Save, TypeOK, OnlyApprovedTasks
  <2>6. stored' \in {stored, handler[r].read}
    BY <1>4 DEF Save
  <2> QED BY <1>4, <2>1, <2>2, <2>3, <2>4, <2>5, <2>6, CallKeeps DEF Save
<1>5. ASSUME NEW r \in Requests, CreateGoal(r) PROVE IInv'
  <2> DEFINE version == objects[handler[r].dict].version
             goal == [kind |-> "goal", by |-> r, index |-> 0,
                      version |-> handler[r].read.title]
  <2>1. /\ r \in Active /\ handler[r].pc = "goal"
        /\ handler[r].dict \in Requests /\ objects[handler[r].dict] \in Plan
        /\ version \in Requests /\ version \in approved
        /\ handler[r].read.title \in Requests
    <3>1. handler[r].pc = "goal" /\ r \in Active
      BY <1>5 DEF CreateGoal, At, Active
    <3>2. /\ handler[r].dict \in Requests /\ objects[handler[r].dict] # None
          /\ objects[handler[r].dict].status = "APPROVED"
      BY <3>1 DEF CreatorsAreApproved
    <3>3. objects[handler[r].dict] \in Plan
      BY <3>2 DEF TypeOK
    <3>4. handler[r].read \in Plan
      BY <1>0, <3>1 DEF CreatorsAreApproved, Call
    <3> QED BY <3>1, <3>2, <3>3, <3>4 DEF PlansAreSound, Sound, Plan
  <2>2. goal \in Node /\ goal.kind = "goal"
    BY <2>1, PlanAssumption DEF Node
  <2> HIDE DEF goal, version
  <2>3. faults' \in Seq(Faults) /\ Len(faults') <= MaxFaults
    BY <1>5, FaultType DEF CreateGoal
  <2>4. nodes' \subseteq Node /\ \A n \in nodes' : n.kind = "task" => n.version \in approved
    BY <1>5, <2>2 DEF CreateGoal, TypeOK, OnlyApprovedTasks, goal, version
  <2>5. PICK c \in Call : /\ handler' = [handler EXCEPT ![r] = c]
                          /\ c.dict = handler[r].dict /\ c.read = handler[r].read
                          /\ \/ c.pc = "done"
                             \/ c.pc = "tasks" /\ c.version = version /\ c.created = <<goal>>
    <3>1. CASE handler' = [handler EXCEPT ![r].pc = "done"]
      <4> DEFINE c == [handler[r] EXCEPT !.pc = "done"]
      <4>1. c \in Call /\ c.pc = "done" /\ c.dict = handler[r].dict /\ c.read = handler[r].read
        BY <1>0 DEF Call
      <4>2. handler' = [handler EXCEPT ![r] = c]
        BY <1>0, <3>1
      <4> QED BY <4>1, <4>2
    <3>2. ASSUME NEW picked \in SUBSET Indices,
                 handler' = [handler EXCEPT ![r].pc = "tasks", ![r].version = version,
                                            ![r].picked = picked, ![r].created = <<goal>>]
          PROVE  \E c \in Call : /\ handler' = [handler EXCEPT ![r] = c]
                                 /\ c.dict = handler[r].dict /\ c.read = handler[r].read
                                 /\ c.pc = "tasks" /\ c.version = version
                                 /\ c.created = <<goal>>
      <4> DEFINE c == [handler[r] EXCEPT !.pc = "tasks", !.version = version,
                                         !.picked = picked, !.created = <<goal>>]
      <4>1. <<goal>> \in Seq(Node)
        BY <2>2
      <4>2. /\ c \in Call /\ c.pc = "tasks" /\ c.dict = handler[r].dict
            /\ c.read = handler[r].read /\ c.version = version /\ c.created = <<goal>>
        <5>1. handler[r] \in Call /\ version \in Requests
          BY <1>0, <2>1
        <5> QED BY <4>1, <5>1 DEF Call
      <4>3. handler' = [handler EXCEPT ![r] = c]
        BY <1>0, <3>2
      <4> QED BY <4>2, <4>3
    <3> QED BY <1>5, <3>1, <3>2 DEF CreateGoal, goal, version
  <2>6. <<goal>> # <<>>
    OBVIOUS
  <2> QED BY <1>5, <2>1, <2>3, <2>4, <2>5, <2>6, CallKeeps DEF CreateGoal
<1>6. ASSUME NEW r \in Requests, CreateTask(r) PROVE IInv'
  <2>1. PICK i \in ToCreate(r) :
          LET task == [kind |-> "task", by |-> r, index |-> i, version |-> handler[r].version] IN
          \/ /\ nodes' = nodes \cup {task}
             /\ handler' = [handler EXCEPT ![r].created = Append(@, task),
                              ![r].pc = IF i \in Delegated THEN "followup" ELSE "tasks"]
             /\ UNCHANGED faults
          \/ /\ Fault("create")
             /\ handler' = [handler EXCEPT ![r].pc = "rollback"]
             /\ UNCHANGED nodes
    BY <1>6 DEF CreateTask
  <2> DEFINE task == [kind |-> "task", by |-> r, index |-> i, version |-> handler[r].version]
  <2>2. /\ handler[r].pc = "tasks" /\ r \in Active
        /\ handler[r].version \in approved /\ handler[r].version \in Requests
        /\ handler[r].created # <<>> /\ handler[r].created \in Seq(Node)
    <3>1. handler[r].pc = "tasks" /\ r \in Active
      BY <1>6 DEF CreateTask, At, Active
    <3>2. handler[r].version \in approved /\ handler[r].created # <<>>
      BY <3>1 DEF CreatorsAreApproved
    <3> QED BY <1>0, <3>1, <3>2 DEF TypeOK, Call
  <2>3. i \in 0..TaskCount
    BY <1>0 DEF ToCreate, Call, Indices
  <2>4. task \in Node /\ task.version \in approved
    BY <2>2, <2>3 DEF Node
  <2> HIDE DEF task
  <2>5. CASE /\ nodes' = nodes \cup {task}
             /\ handler' = [handler EXCEPT ![r].created = Append(@, task),
                              ![r].pc = IF i \in Delegated THEN "followup" ELSE "tasks"]
             /\ UNCHANGED faults
    <3> DEFINE c == [handler[r] EXCEPT !.created = Append(@, task),
                                       !.pc = IF i \in Delegated THEN "followup" ELSE "tasks"]
    <3>1. Append(handler[r].created, task) \in Seq(Node) \ {<<>>}
      BY <2>2, <2>4
    <3>2. /\ c \in Call /\ c.dict = handler[r].dict /\ c.read = handler[r].read
          /\ c.pc \in {"tasks", "followup"} /\ c.version \in approved /\ c.created # <<>>
      <4> DEFINE pc == IF i \in Delegated THEN "followup" ELSE "tasks"
                 created == Append(handler[r].created, task)
      <4>1. pc \in {"tasks", "followup"} /\ handler[r] \in Call
        BY <1>0
      <4>2. created \in Seq(Node) /\ created # <<>>
        BY <3>1
      <4> HIDE DEF pc, created
      <4>3. LET d == [handler[r] EXCEPT !.created = created, !.pc = pc] IN
            /\ d \in Call /\ d.dict = handler[r].dict /\ d.read = handler[r].read
            /\ d.pc = pc /\ d.version = handler[r].version /\ d.created = created
        BY <4>1, <4>2 DEF Call
      <4> QED BY <2>2, <4>1, <4>2, <4>3 DEF pc, created
    <3>3. handler' = [handler EXCEPT ![r] = c]
      BY <1>0, <2>5
    <3>4. nodes' \subseteq Node /\ \A n \in nodes' : n.kind = "task" => n.version \in approved
      BY <2>4, <2>5 DEF TypeOK, OnlyApprovedTasks
    <3>5. faults' \in Seq(Faults) /\ Len(faults') <= MaxFaults
      BY <2>5, FaultType
    <3> QED BY <1>6, <2>2, <3>2, <3>3, <3>4, <3>5, CallKeeps DEF CreateTask
  <2>6. CASE /\ Fault("create")
             /\ handler' = [handler EXCEPT ![r].pc = "rollback"]
             /\ UNCHANGED nodes
    <3> DEFINE c == [handler[r] EXCEPT !.pc = "rollback"]
    <3>1. /\ c \in Call /\ c.dict = handler[r].dict /\ c.read = handler[r].read
          /\ c.pc = "rollback" /\ c.created # <<>>
      BY <1>0, <2>2 DEF Call
    <3>2. handler' = [handler EXCEPT ![r] = c]
      BY <1>0, <2>6
    <3>3. nodes' \subseteq Node /\ \A n \in nodes' : n.kind = "task" => n.version \in approved
      BY <2>6 DEF TypeOK, OnlyApprovedTasks
    <3>4. faults' \in Seq(Faults) /\ Len(faults') <= MaxFaults
      BY <2>6, FaultType
    <3> QED BY <1>6, <2>2, <3>1, <3>2, <3>3, <3>4, CallKeeps DEF CreateTask
  <2> QED BY <2>1, <2>5, <2>6 DEF task
<1>7. ASSUME NEW r \in Requests, SpawnFollowUp(r) PROVE IInv'
  <2> DEFINE followup == [Last(handler[r].created) EXCEPT !.kind = "followup"]
  <2>1. /\ handler[r].pc = "followup" /\ r \in Active
        /\ handler[r].version \in approved
        /\ handler[r].created # <<>> /\ handler[r].created \in Seq(Node)
    <3>1. handler[r].pc = "followup" /\ r \in Active
      BY <1>7 DEF SpawnFollowUp, At, Active
    <3>2. handler[r].version \in approved /\ handler[r].created # <<>>
      BY <3>1 DEF CreatorsAreApproved
    <3> QED BY <1>0, <3>1, <3>2 DEF Call
  <2>2. Last(handler[r].created) \in Node
    BY <2>1 DEF Last
  <2>3. followup \in Node /\ followup.kind = "followup"
    BY <2>2 DEF Node
  <2>4. nodes' \in {nodes, nodes \cup {followup}}
    BY <1>7 DEF SpawnFollowUp
  <2>5. nodes' \subseteq Node /\ \A n \in nodes' : n.kind = "task" => n.version \in approved
    <3> HIDE DEF followup
    <3> QED BY <2>3, <2>4 DEF TypeOK, OnlyApprovedTasks
  <2>6. faults' \in Seq(Faults) /\ Len(faults') <= MaxFaults
    BY <1>7, FaultType DEF SpawnFollowUp
  <2>7. PICK c \in Call : /\ handler' = [handler EXCEPT ![r] = c]
                          /\ c.dict = handler[r].dict /\ c.read = handler[r].read
                          /\ c.pc = "tasks" /\ c.version \in approved /\ c.created # <<>>
    <3>1. CASE handler' = [handler EXCEPT ![r].created = Append(@, followup), ![r].pc = "tasks"]
      <4> HIDE DEF followup
      <4> DEFINE c == [handler[r] EXCEPT !.created = Append(@, followup), !.pc = "tasks"]
      <4>1. Append(handler[r].created, followup) \in Seq(Node) \ {<<>>}
        BY <2>1, <2>3
      <4>2. /\ c \in Call /\ c.dict = handler[r].dict /\ c.read = handler[r].read
            /\ c.pc = "tasks" /\ c.version \in approved /\ c.created # <<>>
        BY <1>0, <2>1, <4>1 DEF Call
      <4>3. handler' = [handler EXCEPT ![r] = c]
        BY <1>0, <3>1
      <4> QED BY <4>2, <4>3
    <3>2. CASE handler' = [handler EXCEPT ![r].pc = "tasks"]
      <4> DEFINE c == [handler[r] EXCEPT !.pc = "tasks"]
      <4>1. /\ c \in Call /\ c.dict = handler[r].dict /\ c.read = handler[r].read
            /\ c.pc = "tasks" /\ c.version \in approved /\ c.created # <<>>
        BY <1>0, <2>1 DEF Call
      <4>2. handler' = [handler EXCEPT ![r] = c]
        BY <1>0, <3>2
      <4> QED BY <4>1, <4>2
    <3> QED BY <1>7, <3>1, <3>2 DEF SpawnFollowUp
  <2> QED BY <1>7, <2>1, <2>5, <2>6, <2>7, CallKeeps DEF SpawnFollowUp
<1>8. ASSUME NEW r \in Requests, FinishExecute(r) PROVE IInv'
  <2> DEFINE dict == handler[r].dict
             p == [objects[dict] EXCEPT !.status = "EXECUTED"]
             c == [handler[r] EXCEPT !.pc = "saving", !.dict = dict, !.read = p]
  <2>1. handler[r].pc = "tasks" /\ \A s \in Active : s = r
    BY <1>8 DEF FinishExecute, At, OneAtATime, Active
  <2>2. dict \in Requests /\ objects[dict] # None /\ objects[dict].status = "APPROVED"
    BY <2>1 DEF CreatorsAreApproved
  <2>3. objects[dict] \in Plan /\ objects[dict].version \in approved
    BY <2>2 DEF TypeOK, PlansAreSound, Sound
  <2>4. p \in Plan /\ p # None /\ p.version \in approved
    BY <2>3, NoneAssumption DEF Plan
  <2>5. c \in Call /\ c.pc = "saving" /\ c.read = p
    <3>1. handler[r] \in Call /\ dict \in Requests /\ p \in Plan
      BY <1>0, <2>2, <2>4
    <3> HIDE DEF dict, p
    <3> QED BY <3>1 DEF Call
  <2>6. /\ objects' = [objects EXCEPT ![dict] = p] /\ cache' = dict
        /\ handler' = [handler EXCEPT ![r] = c]
        /\ UNCHANGED <<stored, nodes, approved, faults>>
    BY <1>0, <1>8 DEF FinishExecute, Persist, Take
  <2> HIDE DEF p, c, dict
  <2>7. TypeOK'
    BY <2>2, <2>4, <2>5, <2>6 DEF TypeOK
  <2>8. PlansAreSound'
    <3>1. \A s \in Requests : /\ objects'[s] \in {objects[s], p}
                              /\ handler'[s].read \in {handler[s].read, p}
      BY <1>0, <2>5, <2>6 DEF TypeOK
    <3> QED BY <2>4, <2>6, <3>1 DEF PlansAreSound, Sound
  <2>9. OneAtATime' /\ CreatorsAreApproved'
    BY <1>0, <2>1, <2>5, <2>6 DEF OneAtATime, Active, CreatorsAreApproved
  <2> QED BY <2>6, <2>7, <2>8, <2>9 DEF OnlyApprovedTasks
<1>9. ASSUME NEW r \in Requests, Rollback(r) PROVE IInv'
  <2> DEFINE front == Front(handler[r].created)
             pc == IF Len(handler[r].created) = 1 THEN "done" ELSE handler[r].pc
             c == [handler[r] EXCEPT !.created = front, !.pc = pc]
  <2>1. /\ handler[r].pc = "rollback" /\ r \in Active
        /\ handler[r].created # <<>> /\ handler[r].created \in Seq(Node)
    <3>1. handler[r].pc = "rollback" /\ r \in Active
      BY <1>9 DEF Rollback, At, Active
    <3>2. handler[r].created # <<>>
      BY <3>1 DEF CreatorsAreApproved
    <3> QED BY <1>0, <3>1, <3>2 DEF Call
  <2>2. front \in Seq(Node) /\ (Len(handler[r].created) # 1 => front # <<>>)
    BY <2>1, FrontType
  <2>3. /\ c \in Call /\ c.dict = handler[r].dict /\ c.read = handler[r].read
        /\ c.pc \in {"rollback", "done"} /\ (c.pc # "done" => c.created # <<>>)
    BY <1>0, <2>1, <2>2 DEF Call
  <2>4. handler' = [handler EXCEPT ![r] = c]
    BY <1>0, <1>9 DEF Rollback
  <2>5. nodes' \subseteq Node /\ \A n \in nodes' : n.kind = "task" => n.version \in approved
    BY <1>9 DEF Rollback, TypeOK, OnlyApprovedTasks
  <2>6. faults' \in Seq(Faults) /\ Len(faults') <= MaxFaults
    BY <1>9, FaultType DEF Rollback
  <2>7. UNCHANGED <<objects, cache, stored, approved>>
    BY <1>9 DEF Rollback
  <2> HIDE DEF c
  <2> QED BY <2>1, <2>3, <2>4, <2>5, <2>6, <2>7, CallKeeps
<1>10. ASSUME Crash PROVE IInv'
  <2>1. \A r \in Active : [handler[r] EXCEPT !.pc = "cut"] \in Call
    <3> SUFFICES ASSUME NEW r \in Requests PROVE [handler[r] EXCEPT !.pc = "cut"] \in Call
      BY DEF Active
    <3>1. handler[r] \in Call
      BY <1>0
    <3> QED BY <3>1 DEF Call
  <2>2. /\ handler' \in [Requests -> Call]
        /\ \A r \in Requests : /\ handler'[r].read = handler[r].read
                               /\ handler'[r].pc \in {"new", "done", "cut"}
    BY <1>0, <1>10, <2>1 DEF Crash, Active, Call
  <2>3. faults' \in Seq(Faults) /\ Len(faults') <= MaxFaults
    BY <1>10, FaultType DEF Crash
  <2>4. TypeOK'
    BY <1>10, <2>2, <2>3 DEF Crash, TypeOK
  <2>5. PlansAreSound'
    BY <1>10, <2>2 DEF Crash, PlansAreSound, Sound
  <2>6. OneAtATime' /\ CreatorsAreApproved'
    BY <2>2 DEF OneAtATime, Active, CreatorsAreApproved
  <2> QED BY <1>10, <2>4, <2>5, <2>6 DEF Crash, OnlyApprovedTasks
<1>11. ASSUME NEW r \in Requests, Cancel(r) PROVE IInv'
  <2> DEFINE c == [handler[r] EXCEPT !.pc = "cut"]
  <2>1. c \in Call /\ c.pc = "cut" /\ c.dict = handler[r].dict /\ c.read = handler[r].read
    BY <1>0 DEF Call
  <2>2. handler' = [handler EXCEPT ![r] = c]
    BY <1>0, <1>11 DEF Cancel
  <2>3. faults' \in Seq(Faults) /\ Len(faults') <= MaxFaults
    BY <1>11, FaultType DEF Cancel
  <2>4. nodes' \subseteq Node /\ \A n \in nodes' : n.kind = "task" => n.version \in approved
    BY <1>11 DEF Cancel, TypeOK, OnlyApprovedTasks
  <2>5. r \in Active /\ UNCHANGED <<objects, cache, stored, approved>>
    BY <1>11 DEF Cancel
  <2> HIDE DEF c
  <2> QED BY <2>1, <2>2, <2>3, <2>4, <2>5, CallKeeps
<1>12. CASE UNCHANGED vars
  <2>1. TypeOK' /\ OnlyApprovedTasks'
    BY <1>12 DEF vars, TypeOK, OnlyApprovedTasks
  <2>2. PlansAreSound'
    BY <1>12 DEF vars, PlansAreSound, Sound
  <2>3. OneAtATime' /\ CreatorsAreApproved'
    BY <1>12 DEF vars, OneAtATime, Active, CreatorsAreApproved
  <2> QED BY <2>1, <2>2, <2>3
<1> QED BY <1>1, <1>2, <1>3, <1>4, <1>5, <1>6, <1>7, <1>8, <1>9, <1>10, <1>11, <1>12 DEF Next

-----------------------------------------------------------------------------
\* The inductive invariant of the tools, one call at a time.
THEOREM PlanInvariant ==
  ASSUME MaxActive = 1
  PROVE  Spec => []IInv
<1>1. Init => IInv
  BY InitIInv
<1>2. IInv /\ [Next]_vars => IInv'
  BY StepIInv
<1> QED BY <1>1, <1>2, PTL DEF Spec

\* Tool calls that do not overlap bring only approved tasks into the graph, however
\* plans are edited between them and whatever saves, creates and restarts fail.
THEOREM SerialCallsCreateApproved ==
  ASSUME MaxActive = 1
  PROVE  Spec => []OnlyApprovedTasks
<1>1. IInv => OnlyApprovedTasks
  BY DEF IInv
<1> QED BY <1>1, PlanInvariant, PTL
-----------------------------------------------------------------------------
(***************************************************************************)
(* Calls that overlap in any way: execute_plan creates all or nothing.      *)
(***************************************************************************)

\* What the call c of r has at hand at its next step.
Held(c, r) ==
  /\ c.pc \in {"loaded", "saving", "goal"} => c.read # None
  /\ c.pc \in {"goal", "tasks", "followup"} => c.dict \in Requests /\ objects[c.dict] # None
  /\ c.pc \in {"tasks", "followup"} => c.version \in Requests
  /\ c.pc \in {"tasks", "followup", "rollback"} => c.created # <<>>
  /\ \A i \in DOMAIN c.created : c.created[i].by = r

CallsHoldPlans == \A r \in Requests : Held(handler[r], r)

Mine(r) == {n \in nodes : n.by = r}

\* The goal and all the tasks r was to create are in the graph.
Complete(r) == \E n \in Mine(r) : n.kind = "goal" /\ ToCreate(r) = {}

\* r knows what it has created, and has its goal, until it has all or deletes it.
Tracked(r) ==
  /\ handler[r].pc \in {"new", "loaded", "goal"} => Mine(r) = {}
  /\ handler[r].pc \in {"tasks", "followup", "rollback"} =>
       \A n \in Mine(r) : \E i \in DOMAIN handler[r].created : handler[r].created[i] = n
  /\ handler[r].pc \in {"tasks", "followup"} => \E n \in Mine(r) : n.kind = "goal"
  /\ handler[r].pc \in {"saving", "done"} => Mine(r) = {} \/ Complete(r)

AllTracked == Happened({"delete", "followup"}) \/ \A r \in Requests : Tracked(r)

BInv == TypeOK /\ CallsHoldPlans /\ AllTracked

\* The call of r goes on as c, which has created and is to create what r had.
GoesOn(r, c) ==
  /\ c \in Call /\ handler' = [handler EXCEPT ![r] = c]
  /\ c.created = handler[r].created /\ c.picked = handler[r].picked
  /\ c.version = handler[r].version

\* A tool that has the plan of a dict either ends and leaves it, writes it as a draft or
\* as approved, or starts to execute it as it is.
LEMMA WorkStep ==
  ASSUME TypeOK, NEW r \in Requests, NEW dict \in Requests, NEW plan \in Plan,
         Work(r, dict, plan)
  PROVE  \E c \in Call, p \in Plan :
           /\ GoesOn(r, c) /\ c.dict = dict
           /\ objects' = [objects EXCEPT ![dict] = p] /\ cache' = dict
           /\ approved \subseteq approved' /\ approved' \subseteq Requests
           /\ \/ c.pc = "done" /\ p.status = plan.status
              \/ c.pc = "goal" /\ c.read = p /\ p.status = "APPROVED" /\ plan.status = "APPROVED"
              \/ /\ c.pc = "saving" /\ c.read = p
                 /\ plan.status # "EXECUTED" /\ p.status # "EXECUTED"
<1>1. handler \in [Requests -> Call] /\ handler[r] \in Call
  BY DEF TypeOK
<1>2. approved \subseteq approved' /\ approved' \subseteq Requests
  BY DEF Work, TypeOK, Plan
<1>3. \A p \in Plan, pc \in {"done", "goal", "saving"} : Take(r, dict, p, pc) =>
        \E c \in Call : /\ GoesOn(r, c) /\ c.dict = dict /\ c.pc = pc /\ c.read = p
                        /\ objects' = [objects EXCEPT ![dict] = p] /\ cache' = dict
  <2> TAKE p \in Plan, pc \in {"done", "goal", "saving"}
  <2> HAVE Take(r, dict, p, pc)
  <2> DEFINE c == [handler[r] EXCEPT !.pc = pc, !.dict = dict, !.read = p]
  <2>1. /\ c \in Call /\ c.dict = dict /\ c.pc = pc /\ c.read = p
        /\ c.created = handler[r].created
        /\ c.picked = handler[r].picked /\ c.version = handler[r].version
    BY <1>1 DEF Call
  <2>2. handler' = [handler EXCEPT ![r] = c]
    BY <1>1 DEF Take
  <2>3. objects' = [objects EXCEPT ![dict] = p] /\ cache' = dict
    BY DEF Take
  <2> HIDE DEF c
  <2> QED BY <2>1, <2>2, <2>3 DEF GoesOn
<1>4. \E p \in Plan, pc \in {"done", "goal", "saving"} :
        /\ Take(r, dict, p, pc)
        /\ \/ pc = "done" /\ p.status = plan.status
           \/ pc = "goal" /\ p.status = "APPROVED" /\ plan.status = "APPROVED"
           \/ pc = "saving" /\ plan.status # "EXECUTED" /\ p.status # "EXECUTED"
  <2>1. CASE EditPlan(r, dict, plan)
    <3>1. CASE plan.status = "EXECUTED"
      BY <2>1, <3>1 DEF EditPlan
    <3>2. CASE plan.status # "EXECUTED"
      <4>1. PICK title \in {plan.title, r}, version \in {plan.version, r} :
              \/ Persist(r, dict, [status |-> "DRAFT", title |-> title, version |-> version])
              \/ Take(r, dict, [plan EXCEPT !.title = title], "done")
        BY <2>1, <3>2 DEF EditPlan
      <4> DEFINE p == [status |-> "DRAFT", title |-> title, version |-> version]
                 q == [plan EXCEPT !.title = title]
      <4>2. title \in Requests /\ version \in Requests
        BY DEF Plan
      <4>3. p \in Plan /\ p.status = "DRAFT" /\ q \in Plan /\ q.status = plan.status
        BY <4>2 DEF Plan
      <4> HIDE DEF p, q
      <4> QED BY <3>2, <4>1, <4>3 DEF Persist, p, q
    <3> QED BY <3>1, <3>2
  <2>2. CASE ApprovePlan(r, dict, plan)
    <3> DEFINE p == [plan EXCEPT !.status = "APPROVED"]
    <3>1. p \in Plan /\ p.status = "APPROVED"
      BY DEF Plan
    <3> HIDE DEF p
    <3>2. CASE plan.status # "DRAFT"
      BY <2>2, <3>2 DEF ApprovePlan
    <3>3. CASE plan.status = "DRAFT"
      BY <2>2, <3>1, <3>3 DEF ApprovePlan, Persist, p
    <3> QED BY <3>2, <3>3
  <2>3. CASE ExecutePlan(r, dict, plan)
    <3>1. CASE plan.status = "APPROVED"
      BY <2>3, <3>1 DEF ExecutePlan
    <3>2. CASE plan.status # "APPROVED"
      BY <2>3, <3>2 DEF ExecutePlan
    <3> QED BY <3>1, <3>2
  <2> QED BY <2>1, <2>2, <2>3 DEF Work
<1> QED BY <1>2, <1>3, <1>4

\* propose_plan writes a new plan.
LEMMA ProposeStep ==
  ASSUME TypeOK, NEW r \in Requests, ProposePlan(r)
  PROVE  \E c \in Call, p \in Plan :
           /\ GoesOn(r, c) /\ c.pc = "saving" /\ c.read = p /\ p.status = "DRAFT"
           /\ objects' = [objects EXCEPT ![r] = p] /\ cache' = r
<1> DEFINE p == [status |-> "DRAFT", title |-> r, version |-> r]
           c == [handler[r] EXCEPT !.pc = "saving", !.dict = r, !.read = p]
<1>1. handler \in [Requests -> Call] /\ handler[r] \in Call
  BY DEF TypeOK
<1>2. p \in Plan /\ p.status = "DRAFT"
  BY DEF Plan
<1>3. /\ handler' = [handler EXCEPT ![r] = c]
      /\ objects' = [objects EXCEPT ![r] = p] /\ cache' = r
  BY <1>1 DEF ProposePlan, Persist, Take
<1> HIDE DEF p
<1>4. /\ c \in Call /\ c.pc = "saving" /\ c.read = p /\ c.created = handler[r].created
      /\ c.picked = handler[r].picked /\ c.version = handler[r].version
  BY <1>1, <1>2 DEF Call
<1> HIDE DEF c
<1> QED BY <1>2, <1>3, <1>4 DEF GoesOn

\* A tool that finds no plan in memory ends, or has read the one in storage.
LEMMA LoadStep ==
  ASSUME TypeOK, NEW r \in Requests, Begin(r), cache = None
  PROVE  \E c \in Call :
           /\ GoesOn(r, c) /\ UNCHANGED <<objects, cache, stored, nodes, approved, faults>>
           /\ \/ stored = None /\ c.pc = "done"
              \/ stored # None /\ c.pc = "loaded" /\ c.read = stored
<1>1. handler \in [Requests -> Call] /\ handler[r] \in Call /\ stored \in Plan \cup {None}
  BY DEF TypeOK
<1>2. UNCHANGED <<objects, cache, stored, nodes, approved, faults>>
  BY DEF Begin
<1>3. CASE stored = None
  <2> DEFINE c == [handler[r] EXCEPT !.pc = "done"]
  <2>1. handler' = [handler EXCEPT ![r] = c]
    BY <1>1, <1>3 DEF Begin
  <2>2. /\ c \in Call /\ c.pc = "done" /\ c.created = handler[r].created
        /\ c.picked = handler[r].picked /\ c.version = handler[r].version
    BY <1>1 DEF Call
  <2> HIDE DEF c
  <2> QED BY <1>2, <1>3, <2>1, <2>2 DEF GoesOn
<1>4. CASE stored # None
  <2> DEFINE c == [handler[r] EXCEPT !.pc = "loaded", !.read = stored]
  <2>1. handler' = [handler EXCEPT ![r] = c]
    BY <1>1, <1>4 DEF Begin
  <2>2. /\ c \in Call /\ c.pc = "loaded" /\ c.read = stored /\ c.created = handler[r].created
        /\ c.picked = handler[r].picked /\ c.version = handler[r].version
    BY <1>1 DEF Call
  <2> HIDE DEF c
  <2> QED BY <1>2, <1>4, <2>1, <2>2 DEF GoesOn
<1> QED BY <1>3, <1>4

\* The end of a write.
LEMMA SaveStep ==
  ASSUME TypeOK, NEW r \in Requests, Save(r)
  PROVE  \E c \in Call : GoesOn(r, c) /\ c.pc = "done"
<1> DEFINE c == [handler[r] EXCEPT !.pc = "done"]
<1>1. handler \in [Requests -> Call] /\ handler[r] \in Call
  BY DEF TypeOK
<1>2. handler' = [handler EXCEPT ![r] = c]
  BY <1>1 DEF Save
<1>3. /\ c \in Call /\ c.pc = "done" /\ c.created = handler[r].created
      /\ c.picked = handler[r].picked /\ c.version = handler[r].version
  BY <1>1 DEF Call
<1> HIDE DEF c
<1> QED BY <1>2, <1>3 DEF GoesOn

\* A call that is cancelled.
LEMMA CancelStep ==
  ASSUME TypeOK, NEW r \in Requests, Cancel(r)
  PROVE  \E c \in Call : GoesOn(r, c) /\ c.pc = "cut"
<1> DEFINE c == [handler[r] EXCEPT !.pc = "cut"]
<1>1. handler \in [Requests -> Call] /\ handler[r] \in Call
  BY DEF TypeOK
<1>2. handler' = [handler EXCEPT ![r] = c]
  BY <1>1 DEF Cancel
<1>3. /\ c \in Call /\ c.pc = "cut" /\ c.created = handler[r].created
      /\ c.picked = handler[r].picked /\ c.version = handler[r].version
  BY <1>1 DEF Call
<1> HIDE DEF c
<1> QED BY <1>2, <1>3 DEF GoesOn

\* execute_plan creates the goal, with the title it has read, or ends.
LEMMA GoalStep ==
  ASSUME TypeOK, CallsHoldPlans, NEW r \in Requests, CreateGoal(r)
  PROVE  \E c \in Call :
           /\ handler' = [handler EXCEPT ![r] = c] /\ c.dict = handler[r].dict
           /\ \/ c.pc = "done" /\ GoesOn(r, c) /\ nodes' = nodes
              \/ \E goal \in Node :
                   /\ goal.kind = "goal" /\ goal.by = r /\ nodes' = nodes \cup {goal}
                   /\ c.pc = "tasks" /\ c.version \in Requests /\ c.created = <<goal>>
<1> DEFINE version == objects[handler[r].dict].version
           goal == [kind |-> "goal", by |-> r, index |-> 0, version |-> handler[r].read.title]
<1>1. handler \in [Requests -> Call] /\ handler[r] \in Call
  BY DEF TypeOK
<1>2. handler[r].pc = "goal"
  BY DEF CreateGoal, At
<1>3. handler[r].dict \in Requests /\ objects[handler[r].dict] # None
  BY <1>2 DEF CallsHoldPlans, Held
<1>4. version \in Requests /\ handler[r].read.title \in Requests
  <2>1. handler[r].read \in Plan
    BY <1>1, <1>2 DEF CallsHoldPlans, Held, Call
  <2> QED BY <1>3, <2>1 DEF TypeOK, Plan
<1> HIDE DEF version
<1>5. goal \in Node /\ goal.kind = "goal" /\ goal.by = r
  BY <1>4, PlanAssumption DEF Node
<1> HIDE DEF goal
<1>6. CASE handler' = [handler EXCEPT ![r].pc = "done"] /\ nodes' = nodes
  <2> DEFINE c == [handler[r] EXCEPT !.pc = "done"]
  <2>1. handler' = [handler EXCEPT ![r] = c]
    BY <1>1, <1>6
  <2>2. /\ c \in Call /\ c.pc = "done" /\ c.created = handler[r].created
        /\ c.picked = handler[r].picked /\ c.version = handler[r].version
        /\ c.dict = handler[r].dict
    BY <1>1 DEF Call
  <2> HIDE DEF c
  <2> QED BY <1>6, <2>1, <2>2 DEF GoesOn
<1>7. ASSUME NEW picked \in SUBSET Indices, nodes' = nodes \cup {goal},
             handler' = [handler EXCEPT ![r].pc = "tasks", ![r].version = version,
                                        ![r].picked = picked, ![r].created = <<goal>>]
      PROVE  \E c \in Call :
               /\ handler' = [handler EXCEPT ![r] = c] /\ c.dict = handler[r].dict
               /\ c.pc = "tasks" /\ c.version \in Requests /\ c.created = <<goal>>
  <2> DEFINE c == [handler[r] EXCEPT !.pc = "tasks", !.version = version, !.picked = picked,
                                     !.created = <<goal>>]
  <2>1. <<goal>> \in Seq(Node)
    BY <1>5
  <2>2. /\ c \in Call /\ c.pc = "tasks" /\ c.version = version /\ c.created = <<goal>>
        /\ c.dict = handler[r].dict
    BY <1>1, <1>4, <2>1 DEF Call
  <2>3. handler' = [handler EXCEPT ![r] = c]
    BY <1>1, <1>7
  <2> HIDE DEF c
  <2> QED BY <1>4, <2>2, <2>3
<1>8. \/ handler' = [handler EXCEPT ![r].pc = "done"] /\ nodes' = nodes
      \/ \E picked \in SUBSET Indices :
           /\ nodes' = nodes \cup {goal}
           /\ handler' = [handler EXCEPT ![r].pc = "tasks", ![r].version = version,
                                         ![r].picked = picked, ![r].created = <<goal>>]
  BY DEF CreateGoal, goal, version
<1> QED BY <1>5, <1>6, <1>7, <1>8

\* execute_plan creates the next task or follow-up, or does without it, or turns back.
LEMMA TaskStep ==
  ASSUME TypeOK, CallsHoldPlans, NEW r \in Requests, CreateTask(r) \/ SpawnFollowUp(r)
  PROVE  \E c \in Call :
           /\ handler' = [handler EXCEPT ![r] = c] /\ c.dict = handler[r].dict
           /\ c.version = handler[r].version /\ handler[r].pc \in {"tasks", "followup"}
           /\ \/ \E n \in Node :
                   /\ n.kind # "goal" /\ n.by = r /\ nodes' = nodes \cup {n}
                   /\ c.pc \in {"tasks", "followup"}
                   /\ c.created = Append(handler[r].created, n)
                   /\ UNCHANGED faults
              \/ /\ c.pc = "rollback" /\ nodes' = nodes /\ c.created = handler[r].created
                 /\ Fault("create")
              \/ /\ c.pc = "tasks" /\ c.created = handler[r].created /\ Fault("followup")
                 /\ \E n \in Node : /\ n.kind # "goal" /\ n.by = r
                                    /\ nodes' \in {nodes, nodes \cup {n}}
<1>1. /\ handler \in [Requests -> Call] /\ handler[r] \in Call
      /\ handler[r].created \in Seq(Node)
  BY DEF TypeOK, Call
<1>2. handler[r].pc \in {"tasks", "followup"}
  BY DEF CreateTask, SpawnFollowUp, At
<1>3. /\ handler[r].version \in Requests /\ handler[r].created # <<>>
      /\ \A i \in DOMAIN handler[r].created : handler[r].created[i].by = r
  BY <1>2 DEF CallsHoldPlans, Held
<1>4. \A pc \in {"tasks", "followup"}, n \in Node :
        \E c \in Call : /\ c = [handler[r] EXCEPT !.created = Append(@, n), !.pc = pc]
                        /\ c.pc = pc /\ c.created = Append(handler[r].created, n)
                        /\ c.dict = handler[r].dict /\ c.version = handler[r].version
  <2> TAKE pc \in {"tasks", "followup"}, n \in Node
  <2> DEFINE c == [handler[r] EXCEPT !.created = Append(@, n), !.pc = pc]
  <2>1. Append(handler[r].created, n) \in Seq(Node)
    BY <1>1
  <2>2. /\ c \in Call /\ c.pc = pc /\ c.created = Append(handler[r].created, n)
        /\ c.dict = handler[r].dict /\ c.version = handler[r].version
    BY <1>1, <2>1 DEF Call
  <2> QED BY <2>2
<1>5. \A pc \in {"tasks", "rollback"} :
        \E c \in Call : /\ c = [handler[r] EXCEPT !.pc = pc]
                        /\ c.pc = pc /\ c.created = handler[r].created
                        /\ c.dict = handler[r].dict /\ c.version = handler[r].version
  <2> TAKE pc \in {"tasks", "rollback"}
  <2> DEFINE c == [handler[r] EXCEPT !.pc = pc]
  <2>1. /\ c \in Call /\ c.pc = pc /\ c.created = handler[r].created
        /\ c.dict = handler[r].dict /\ c.version = handler[r].version
    BY <1>1 DEF Call
  <2> QED BY <2>1
<1>6. CASE CreateTask(r)
  <2>1. PICK i \in ToCreate(r) :
          LET task == [kind |-> "task", by |-> r, index |-> i, version |-> handler[r].version] IN
          \/ /\ nodes' = nodes \cup {task}
             /\ handler' = [handler EXCEPT ![r].created = Append(@, task),
                              ![r].pc = IF i \in Delegated THEN "followup" ELSE "tasks"]
             /\ UNCHANGED faults
          \/ /\ Fault("create")
             /\ handler' = [handler EXCEPT ![r].pc = "rollback"]
             /\ UNCHANGED nodes
    BY <1>6 DEF CreateTask
  <2> DEFINE task == [kind |-> "task", by |-> r, index |-> i, version |-> handler[r].version]
             pc == IF i \in Delegated THEN "followup" ELSE "tasks"
  <2>2. i \in 0..TaskCount
    BY <1>1 DEF ToCreate, Call, Indices
  <2>3. task \in Node /\ task.kind # "goal" /\ task.by = r
    BY <1>3, <2>2 DEF Node
  <2> HIDE DEF task
  <2>4. CASE /\ nodes' = nodes \cup {task} /\ UNCHANGED faults
             /\ handler' = [handler EXCEPT ![r].created = Append(@, task), ![r].pc = pc]
    <3>1. pc \in {"tasks", "followup"}
      OBVIOUS
    <3> HIDE DEF pc
    <3>2. handler' = [handler EXCEPT
                        ![r] = [handler[r] EXCEPT !.created = Append(@, task), !.pc = pc]]
      BY <1>1, <2>4
    <3>3. PICK c \in Call : /\ c = [handler[r] EXCEPT !.created = Append(@, task), !.pc = pc]
                            /\ c.pc = pc /\ c.created = Append(handler[r].created, task)
                            /\ c.dict = handler[r].dict /\ c.version = handler[r].version
      BY <1>4, <2>3, <3>1
    <3>4. handler' = [handler EXCEPT ![r] = c]
      BY <3>2, <3>3
    <3> QED BY <1>2, <2>3, <2>4, <3>1, <3>3, <3>4
  <2>5. CASE /\ Fault("create") /\ UNCHANGED nodes
             /\ handler' = [handler EXCEPT ![r].pc = "rollback"]
    <3>1. handler' = [handler EXCEPT ![r] = [handler[r] EXCEPT !.pc = "rollback"]]
      BY <1>1, <2>5
    <3> QED BY <1>2, <1>5, <2>5, <3>1
  <2> QED BY <2>1, <2>4, <2>5 DEF task
<1>7. CASE SpawnFollowUp(r)
  <2> DEFINE n == [Last(handler[r].created) EXCEPT !.kind = "followup"]
  <2>1. Last(handler[r].created) \in Node /\ Last(handler[r].created).by = r
    BY <1>1, <1>3 DEF Last
  <2>2. n \in Node /\ n.kind # "goal" /\ n.by = r
    BY <2>1 DEF Node
  <2> HIDE DEF n
  <2>3. CASE /\ nodes' = nodes \cup {n} /\ UNCHANGED faults
             /\ handler' = [handler EXCEPT ![r].created = Append(@, n), ![r].pc = "tasks"]
    <3>1. handler' = [handler EXCEPT
                        ![r] = [handler[r] EXCEPT !.created = Append(@, n), !.pc = "tasks"]]
      BY <1>1, <2>3
    <3>2. PICK c \in Call : /\ c = [handler[r] EXCEPT !.created = Append(@, n), !.pc = "tasks"]
                            /\ c.pc = "tasks" /\ c.created = Append(handler[r].created, n)
                            /\ c.dict = handler[r].dict /\ c.version = handler[r].version
      BY <1>4, <2>2
    <3>3. handler' = [handler EXCEPT ![r] = c]
      BY <3>1, <3>2
    <3> QED BY <1>2, <2>2, <2>3, <3>2, <3>3
  <2>4. CASE /\ Fault("followup") /\ nodes' \in {nodes, nodes \cup {n}}
             /\ handler' = [handler EXCEPT ![r].pc = "tasks"]
    <3>1. handler' = [handler EXCEPT ![r] = [handler[r] EXCEPT !.pc = "tasks"]]
      BY <1>1, <2>4
    <3>2. PICK c \in Call : /\ c = [handler[r] EXCEPT !.pc = "tasks"]
                            /\ c.pc = "tasks" /\ c.created = handler[r].created
                            /\ c.dict = handler[r].dict /\ c.version = handler[r].version
      BY <1>5
    <3>3. handler' = [handler EXCEPT ![r] = c]
      BY <3>1, <3>2
    <3> QED BY <1>2, <2>2, <2>4, <3>2, <3>3
  <2> QED BY <1>7, <2>3, <2>4 DEF SpawnFollowUp, n
<1> QED BY <1>6, <1>7

\* The plan of the dict is marked and written.
LEMMA FinishStep ==
  ASSUME TypeOK, CallsHoldPlans, NEW r \in Requests, FinishExecute(r)
  PROVE  \E c \in Call, p \in Plan :
           /\ GoesOn(r, c) /\ c.pc = "saving" /\ c.read = p /\ p.status = "EXECUTED"
           /\ handler[r].pc = "tasks" /\ handler[r].dict \in Requests
           /\ objects' = [objects EXCEPT ![handler[r].dict] = p] /\ cache' = handler[r].dict
<1> DEFINE dict == handler[r].dict
           p == [objects[dict] EXCEPT !.status = "EXECUTED"]
           c == [handler[r] EXCEPT !.pc = "saving", !.dict = dict, !.read = p]
<1>1. handler \in [Requests -> Call] /\ handler[r] \in Call
  BY DEF TypeOK
<1>2. handler[r].pc = "tasks"
  BY DEF FinishExecute, At
<1>3. dict \in Requests /\ objects[dict] # None
  BY <1>2 DEF CallsHoldPlans, Held
<1>4. p \in Plan /\ p.status = "EXECUTED"
  BY <1>3 DEF TypeOK, Plan
<1>5. /\ handler' = [handler EXCEPT ![r] = c]
      /\ objects' = [objects EXCEPT ![dict] = p] /\ cache' = dict
  BY <1>1 DEF FinishExecute, Persist, Take
<1> HIDE DEF p
<1>6. /\ c \in Call /\ c.pc = "saving" /\ c.read = p /\ c.created = handler[r].created
      /\ c.picked = handler[r].picked /\ c.version = handler[r].version
  BY <1>1, <1>3, <1>4 DEF Call
<1> HIDE DEF c
<1> QED BY <1>2, <1>3, <1>4, <1>5, <1>6 DEF GoesOn

\* The last node created is deleted; those before it are what is left to delete.
RollsBack(r, c, n) ==
  /\ handler' = [handler EXCEPT ![r] = c] /\ c.dict = handler[r].dict
  /\ handler[r].pc = "rollback" /\ n.by = r
  /\ \/ nodes' = nodes \ {n} /\ UNCHANGED faults
     \/ nodes' = nodes /\ Fault("delete")
  /\ \A i \in DOMAIN c.created : c.created[i].by = r
  /\ \A i \in DOMAIN handler[r].created :
       handler[r].created[i] = n \/ \E k \in DOMAIN c.created :
                                     c.created[k] = handler[r].created[i]
  /\ \/ c.pc = "rollback" /\ c.created # <<>>
     \/ c.pc = "done" /\ DOMAIN c.created = {}

LEMMA RollbackStep ==
  ASSUME TypeOK, CallsHoldPlans, NEW r \in Requests, Rollback(r)
  PROVE  \E c \in Call, n \in Node : RollsBack(r, c, n)
<1> DEFINE s == handler[r].created
           n == Last(s)
           front == Front(s)
           pc == IF Len(s) = 1 THEN "done" ELSE handler[r].pc
           c == [handler[r] EXCEPT !.created = front, !.pc = pc]
<1>1. handler \in [Requests -> Call] /\ handler[r] \in Call /\ s \in Seq(Node)
  BY DEF TypeOK, Call
<1>2. handler[r].pc = "rollback"
  BY DEF Rollback, At
<1>3. s # <<>> /\ \A i \in DOMAIN s : s[i].by = r
  BY <1>2 DEF CallsHoldPlans, Held
<1>4. /\ handler' = [handler EXCEPT ![r] = c]
      /\ \/ nodes' = nodes \ {n} /\ UNCHANGED faults
         \/ nodes' = nodes /\ Fault("delete")
  BY <1>1 DEF Rollback
<1>5. n \in Node /\ n.by = r /\ n = s[Len(s)] /\ Len(s) \in Nat \ {0} /\ DOMAIN s = 1..Len(s)
  BY <1>1, <1>3 DEF Last
<1>6. front \in Seq(Node) /\ (Len(s) # 1 => front # <<>>)
  BY <1>1, <1>3, FrontType
<1>7. front = SubSeq(s, 1, Len(s) - 1)
  BY DEF Front
<1>8. /\ DOMAIN front = 1..(Len(s) - 1)
      /\ \A i \in 1..(Len(s) - 1) : front[i] = s[i]
  BY <1>1, <1>5, <1>7
<1>9. pc \in {"rollback", "done"} /\ (pc = "done" <=> Len(s) = 1)
  BY <1>2
<1> HIDE DEF s, n, front, pc
<1>10. c \in Call /\ c.dict = handler[r].dict /\ c.created = front /\ c.pc = pc
  BY <1>1, <1>6, <1>9 DEF Call
<1> HIDE DEF c
<1>11. \A i \in DOMAIN front : front[i].by = r
  BY <1>3, <1>5, <1>8
<1>12. \A i \in DOMAIN s : s[i] = n \/ \E k \in DOMAIN front : front[k] = s[i]
  BY <1>5, <1>8
<1>13. \/ pc = "rollback" /\ front # <<>>
       \/ pc = "done" /\ DOMAIN front = {}
  BY <1>5, <1>6, <1>8, <1>9
<1> QED BY <1>2, <1>4, <1>5, <1>10, <1>11, <1>12, <1>13 DEF s, RollsBack

\* A call that goes on as c, at hand what it needs, keeps the types and what the others
\* have at hand: no plan in memory is lost.
LEMMA TypesKept ==
  ASSUME TypeOK, CallsHoldPlans, NEW r \in Requests, NEW c \in Call,
         handler' = [handler EXCEPT ![r] = c],
         objects' = objects \/ \E d \in Requests, p \in Plan : objects' = [objects EXCEPT ![d] = p],
         cache' = cache \/ (cache' \in Requests /\ objects'[cache'] # None),
         stored' = stored \/ stored' \in Plan,
         nodes' \subseteq Node, approved' \subseteq Requests,
         faults' \in Seq(Faults) /\ Len(faults') <= MaxFaults,
         Held(c, r)'
  PROVE  TypeOK' /\ CallsHoldPlans'
<1>1. /\ objects' \in [Requests -> Plan \cup {None}]
      /\ \A d \in Requests : objects[d] # None => objects'[d] # None
  <2>1. CASE objects' = objects
    BY <2>1 DEF TypeOK
  <2>2. ASSUME NEW d \in Requests, NEW p \in Plan, objects' = [objects EXCEPT ![d] = p]
        PROVE  /\ objects' \in [Requests -> Plan \cup {None}]
               /\ \A e \in Requests : objects[e] # None => objects'[e] # None
    BY <2>2, NoneAssumption DEF TypeOK
  <2> QED BY <2>1, <2>2
<1>2. cache' \in Requests \cup {None} /\ (cache' # None => objects'[cache'] # None)
  BY <1>1 DEF TypeOK
<1>3. TypeOK'
  BY <1>1, <1>2 DEF TypeOK
<1>4. ASSUME NEW s \in Requests PROVE Held(handler[s], s)'
  <2>1. handler'[s] = IF s = r THEN c ELSE handler[s]
    BY DEF TypeOK
  <2>2. CASE s = r
    BY <2>1, <2>2 DEF Held
  <2>3. CASE s # r
    BY <1>1, <2>1, <2>3 DEF CallsHoldPlans, Held
  <2> QED BY <2>2, <2>3
<1> QED BY <1>3, <1>4 DEF CallsHoldPlans

\* What one call does to its own nodes says nothing of the others'.
LEMMA OthersTracked ==
  ASSUME TypeOK, NEW r \in Requests, NEW s \in Requests, s # r, NEW c \in Call,
         handler' = [handler EXCEPT ![r] = c],
         \A n : n.by # r => (n \in nodes' <=> n \in nodes),
         Tracked(s)
  PROVE  Tracked(s)'
<1>1. handler'[s] = handler[s]
  BY DEF TypeOK
<1>2. Mine(s)' = Mine(s)
  BY DEF Mine
<1>3. ToCreate(s)' = ToCreate(s)
  BY <1>1 DEF ToCreate, Created
<1>4. Complete(s)' = Complete(s)
  BY <1>2, <1>3 DEF Complete
<1> QED BY <1>1, <1>2, <1>4 DEF Tracked

\* What has failed has failed for good.
LEMMA HappenedStays ==
  ASSUME TypeOK, NEW kinds, Happened(kinds),
         faults' = faults \/ \E k : faults' = Append(faults, k)
  PROVE  Happened(kinds)'
<1>1. faults \in Seq(Faults)
  BY DEF TypeOK
<1>2. PICK i \in DOMAIN faults : faults[i] \in kinds
  BY DEF Happened
<1>3. CASE faults' = faults
  BY <1>2, <1>3 DEF Happened
<1>4. ASSUME NEW k, faults' = Append(faults, k) PROVE Happened(kinds)'
  <2>1. i \in DOMAIN faults' /\ faults'[i] = faults[i]
    BY <1>1, <1>2, <1>4
  <2> QED BY <1>2, <2>1 DEF Happened
<1> QED BY <1>3, <1>4

LEMMA FaultHappens ==
  ASSUME TypeOK, NEW kind, NEW kinds, kind \in kinds, Fault(kind)
  PROVE  Happened(kinds)'
<1>1. faults \in Seq(Faults) /\ faults' = Append(faults, kind)
  BY DEF TypeOK, Fault
<1>2. Len(faults) + 1 \in DOMAIN faults' /\ faults'[Len(faults) + 1] = kind
  BY <1>1
<1> QED BY <1>2 DEF Happened

\* A call that leaves the graph as it is and is at a point that asks no more of it.
LEMMA TrackedKept ==
  ASSUME TypeOK, NEW r \in Requests, NEW c \in Call, GoesOn(r, c), nodes' = nodes,
         Tracked(r),
         \/ /\ handler[r].pc \in {"new", "loaded", "goal"}
            /\ c.pc \in {"loaded", "goal", "saving", "done"}
         \/ /\ handler[r].pc \in {"saving", "done"} /\ c.pc = "done"
         \/ /\ handler[r].pc \in {"tasks", "followup", "rollback"} /\ c.pc = "rollback"
         \/ /\ handler[r].pc = "tasks" /\ ToCreate(r) = {} /\ c.pc = "saving"
         \/ c.pc = "cut"
  PROVE  Tracked(r)'
<1>1. handler'[r] = c /\ c.created = handler[r].created /\ c.picked = handler[r].picked
  BY DEF TypeOK, GoesOn
<1>2. Mine(r)' = Mine(r) /\ ToCreate(r)' = ToCreate(r)
  BY <1>1 DEF Mine, ToCreate, Created
<1>3. Complete(r)' = Complete(r)
  BY <1>2 DEF Complete
<1> QED BY <1>1, <1>2, <1>3 DEF Tracked, Complete

LEMMA InitBInv == Init => BInv
<1> SUFFICES ASSUME Init PROVE BInv
  OBVIOUS
<1>1. Idle \in Call
  BY DEF Idle, Call
<1>2. TypeOK
  BY <1>1, PlanAssumption DEF Init, TypeOK
<1>3. CallsHoldPlans
  BY DEF Init, Idle, CallsHoldPlans, Held
<1>4. AllTracked
  BY DEF Init, Idle, AllTracked, Tracked, Mine
<1> QED BY <1>2, <1>3, <1>4 DEF BInv

\* A step of r keeps the invariant when it keeps the types, touches no node of the others
\* and leaves r tracked or reports one of the failures.
LEMMA StepOfOne ==
  ASSUME BInv, NEW r \in Requests, NEW c \in Call, handler' = [handler EXCEPT ![r] = c],
         objects' = objects \/ \E d \in Requests, p \in Plan : objects' = [objects EXCEPT ![d] = p],
         cache' = cache \/ (cache' \in Requests /\ objects'[cache'] # None),
         stored' = stored \/ stored' \in Plan, approved' \subseteq Requests,
         Held(c, r)',
         nodes' \subseteq Node, \A n : n.by # r => (n \in nodes' <=> n \in nodes),
         faults' = faults \/ \E kind : Fault(kind),
         AllTracked => Tracked(r)' \/ Happened({"delete", "followup"})'
                                   \/ Happened({"delete", "followup"})
  PROVE  BInv'
<1> DEFINE Failed == Happened({"delete", "followup"})
<1>1. TypeOK /\ CallsHoldPlans /\ AllTracked
  BY DEF BInv
<1>2. faults' \in Seq(Faults) /\ Len(faults') <= MaxFaults
  <2>1. CASE faults' = faults
    BY <1>1, <2>1 DEF TypeOK
  <2>2. ASSUME NEW kind, Fault(kind) PROVE faults' \in Seq(Faults) /\ Len(faults') <= MaxFaults
    BY <1>1, <2>2, FaultType
  <2> QED BY <2>1, <2>2
<1>3. TypeOK' /\ CallsHoldPlans'
  BY <1>1, <1>2, TypesKept
<1>4. Failed => Failed'
  <2>1. faults' = faults \/ \E k : faults' = Append(faults, k)
    BY DEF Fault
  <2> QED BY <1>1, <2>1, HappenedStays
<1>5. ASSUME ~Failed' PROVE \A s \in Requests : Tracked(s)'
  <2>1. ~Failed
    BY <1>4, <1>5
  <2>2. \A s \in Requests : Tracked(s)
    BY <1>1, <2>1 DEF AllTracked
  <2>3. Tracked(r)'
    BY <1>1, <1>5, <2>1
  <2>4. \A s \in Requests : s # r => Tracked(s)'
    BY <1>1, <2>2, OthersTracked
  <2> QED BY <2>3, <2>4
<1> QED BY <1>3, <1>5 DEF BInv, AllTracked

\* Every step keeps the invariant, however the calls overlap.
LEMMA StepBInv ==
  ASSUME BInv, [Next]_vars
  PROVE  BInv'
<1> DEFINE Failed == Happened({"delete", "followup"})
<1>0. /\ TypeOK /\ CallsHoldPlans /\ AllTracked
      /\ AllTracked => Failed \/ \A r \in Requests : Tracked(r)
      /\ nodes \subseteq Node /\ approved \subseteq Requests
      /\ handler \in [Requests -> Call]
      /\ \A r \in Requests : Held(handler[r], r)
  BY DEF BInv, TypeOK, CallsHoldPlans, AllTracked
<1>1. ASSUME NEW r \in Requests, ProposePlan(r) PROVE BInv'
  <2>1. PICK c \in Call, p \in Plan :
          /\ GoesOn(r, c) /\ c.pc = "saving" /\ c.read = p /\ p.status = "DRAFT"
          /\ objects' = [objects EXCEPT ![r] = p] /\ cache' = r
    BY <1>0, <1>1, ProposeStep
  <2>2. /\ handler[r].pc = "new" /\ p # None
        /\ UNCHANGED <<stored, nodes, approved, faults>>
    BY <1>1, NoneAssumption DEF ProposePlan, At
  <2>3. cache' \in Requests /\ objects'[cache'] # None
    BY <1>0, <2>1, <2>2 DEF TypeOK
  <2>4. Held(c, r)'
    BY <1>0, <2>1, <2>2 DEF Held, GoesOn
  <2>5. AllTracked => Failed \/ Tracked(r)'
    BY <1>0, <2>1, <2>2, TrackedKept
  <2> QED BY <1>0, <2>1, <2>2, <2>3, <2>4, <2>5, StepOfOne DEF GoesOn
<1>2. ASSUME NEW r \in Requests, NEW dict \in Requests, NEW plan \in Plan,
             handler[r].pc \in {"new", "loaded"}, Work(r, dict, plan),
             UNCHANGED <<stored, nodes, faults>>
      PROVE  BInv'
  <2>1. PICK c \in Call, p \in Plan :
          /\ GoesOn(r, c) /\ c.dict = dict
          /\ objects' = [objects EXCEPT ![dict] = p] /\ cache' = dict
          /\ approved \subseteq approved' /\ approved' \subseteq Requests
          /\ \/ c.pc = "done" /\ p.status = plan.status
             \/ c.pc = "goal" /\ c.read = p /\ p.status = "APPROVED" /\ plan.status = "APPROVED"
             \/ /\ c.pc = "saving" /\ c.read = p
                /\ plan.status # "EXECUTED" /\ p.status # "EXECUTED"
    BY <1>0, <1>2, WorkStep
  <2>2. p # None
    BY NoneAssumption
  <2>3. cache' \in Requests /\ objects'[cache'] # None
    BY <1>0, <2>1, <2>2 DEF TypeOK
  <2>4. Held(c, r)'
    BY <1>0, <2>1, <2>2, <2>3 DEF Held, GoesOn
  <2>5. AllTracked => Failed \/ Tracked(r)'
    BY <1>0, <1>2, <2>1, TrackedKept
  <2> QED BY <1>0, <1>2, <2>1, <2>3, <2>4, <2>5, StepOfOne DEF GoesOn
<1>3. ASSUME NEW r \in Requests, Begin(r) PROVE BInv'
  <2>1. handler[r].pc = "new" /\ UNCHANGED <<stored, nodes, faults>>
    BY <1>3 DEF Begin, At
  <2>2. CASE cache # None
    <3>1. cache \in Requests /\ objects[cache] \in Plan
      BY <1>0, <2>2 DEF TypeOK
    <3>2. Work(r, cache, objects[cache])
      BY <1>3, <2>2 DEF Begin
    <3> QED BY <1>2, <2>1, <3>1, <3>2
  <2>3. CASE cache = None
    <3>1. PICK c \in Call :
            /\ GoesOn(r, c) /\ UNCHANGED <<objects, cache, stored, nodes, approved, faults>>
            /\ \/ stored = None /\ c.pc = "done"
               \/ stored # None /\ c.pc = "loaded" /\ c.read = stored
      BY <1>0, <1>3, <2>3, LoadStep
    <3>2. Held(c, r)'
      BY <1>0, <3>1 DEF Held, GoesOn
    <3>3. AllTracked => Failed \/ Tracked(r)'
      BY <1>0, <2>1, <3>1, TrackedKept
    <3> QED BY <1>0, <3>1, <3>2, <3>3, StepOfOne DEF GoesOn
  <2> QED BY <2>2, <2>3
<1>4. ASSUME NEW r \in Requests, Resume(r) PROVE BInv'
  <2>1. handler[r].pc = "loaded" /\ handler[r].read # None
    BY <1>0, <1>4 DEF Resume, At, Held
  <2>2. handler[r].read \in Plan
    BY <1>0, <2>1 DEF Call
  <2>3. Work(r, r, handler[r].read) /\ UNCHANGED <<stored, nodes, faults>>
    BY <1>4 DEF Resume
  <2> QED BY <1>2, <2>1, <2>2, <2>3
<1>5. ASSUME NEW r \in Requests, Save(r) PROVE BInv'
  <2>1. PICK c \in Call : GoesOn(r, c) /\ c.pc = "done"
    BY <1>0, <1>5, SaveStep
  <2>2. /\ handler[r].pc = "saving" /\ UNCHANGED <<objects, cache, nodes, approved>>
        /\ stored' \in {stored, handler[r].read} /\ (faults' = faults \/ Fault("save"))
    BY <1>5 DEF Save, At
  <2>3. handler[r].read \in Plan
    BY <1>0, <2>2 DEF Held, Call
  <2>4. Held(c, r)'
    BY <1>0, <2>1 DEF Held, GoesOn
  <2>5. AllTracked => Failed \/ Tracked(r)'
    BY <1>0, <2>1, <2>2, TrackedKept
  <2> QED BY <1>0, <2>1, <2>2, <2>3, <2>4, <2>5, StepOfOne DEF GoesOn
<1>6. ASSUME NEW r \in Requests, CreateGoal(r) PROVE BInv'
  <2>1. PICK c \in Call :
          /\ handler' = [handler EXCEPT ![r] = c] /\ c.dict = handler[r].dict
          /\ \/ c.pc = "done" /\ GoesOn(r, c) /\ nodes' = nodes
             \/ \E goal \in Node :
                  /\ goal.kind = "goal" /\ goal.by = r /\ nodes' = nodes \cup {goal}
                  /\ c.pc = "tasks" /\ c.version \in Requests /\ c.created = <<goal>>
    BY <1>0, <1>6, GoalStep
  <2>2. /\ handler[r].pc = "goal" /\ UNCHANGED <<objects, cache, stored, approved>>
        /\ faults' = faults \/ Fault("create")
    BY <1>6 DEF CreateGoal, At
  <2>3. CASE c.pc = "done" /\ GoesOn(r, c) /\ nodes' = nodes
    <3>1. Held(c, r)'
      BY <1>0, <2>3 DEF Held, GoesOn
    <3>2. AllTracked => Failed \/ Tracked(r)'
      BY <1>0, <2>2, <2>3, TrackedKept
    <3> QED BY <1>0, <2>1, <2>2, <2>3, <3>1, <3>2, StepOfOne
  <2>4. ASSUME NEW goal \in Node, goal.kind = "goal", goal.by = r, nodes' = nodes \cup {goal},
               c.pc = "tasks", c.version \in Requests, c.created = <<goal>>
        PROVE  BInv'
    <3>1. DOMAIN c.created = {1} /\ c.created[1] = goal /\ c.created # <<>>
      BY <2>4
    <3>2. Held(c, r)'
      BY <1>0, <2>1, <2>2, <2>4, <3>1 DEF Held
    <3>3. handler'[r] = c
      BY <1>0, <2>1
    <3>4. ASSUME Tracked(r) PROVE Tracked(r)'
      <4>1. Mine(r)' = {goal}
        BY <2>2, <2>4, <3>4 DEF Tracked, Mine
      <4> QED BY <2>4, <3>1, <3>3, <4>1 DEF Tracked
    <3>5. \A n : n.by # r => (n \in nodes' <=> n \in nodes)
      BY <2>4
    <3>6. nodes' \subseteq Node
      BY <1>0, <2>4
    <3> QED BY <1>0, <2>1, <2>2, <3>2, <3>4, <3>5, <3>6, StepOfOne
  <2> QED BY <2>1, <2>3, <2>4
<1>7. ASSUME NEW r \in Requests, CreateTask(r) \/ SpawnFollowUp(r) PROVE BInv'
  <2>1. PICK c \in Call :
          /\ handler' = [handler EXCEPT ![r] = c] /\ c.dict = handler[r].dict
          /\ c.version = handler[r].version /\ handler[r].pc \in {"tasks", "followup"}
          /\ \/ \E n \in Node :
                  /\ n.kind # "goal" /\ n.by = r /\ nodes' = nodes \cup {n}
                  /\ c.pc \in {"tasks", "followup"}
                  /\ c.created = Append(handler[r].created, n)
                  /\ UNCHANGED faults
             \/ /\ c.pc = "rollback" /\ nodes' = nodes /\ c.created = handler[r].created
                /\ Fault("create")
             \/ /\ c.pc = "tasks" /\ c.created = handler[r].created /\ Fault("followup")
                /\ \E n \in Node : /\ n.kind # "goal" /\ n.by = r
                                   /\ nodes' \in {nodes, nodes \cup {n}}
    BY <1>0, <1>7, TaskStep
  <2>2. UNCHANGED <<objects, cache, stored, approved>>
    BY <1>7 DEF CreateTask, SpawnFollowUp
  <2>3. Held(handler[r], r) /\ handler[r].created \in Seq(Node) /\ handler'[r] = c
    BY <1>0, <2>1 DEF Call
  <2>4. ASSUME NEW n \in Node, n.by = r, nodes' = nodes \cup {n},
               c.pc \in {"tasks", "followup"}, c.created = Append(handler[r].created, n),
               UNCHANGED faults
        PROVE  BInv'
    <3>1. /\ DOMAIN handler[r].created \subseteq DOMAIN c.created /\ c.created # <<>>
          /\ \A i \in DOMAIN handler[r].created : c.created[i] = handler[r].created[i]
          /\ \E i \in DOMAIN c.created : c.created[i] = n
          /\ \A i \in DOMAIN c.created : c.created[i].by = r
      <4> DEFINE before == handler[r].created
      <4>1. before \in Seq(Node) /\ c.created = Append(before, n) /\ n.by = r
        BY <2>3, <2>4
      <4>2. \A i \in DOMAIN before : before[i].by = r
        BY <2>3 DEF Held
      <4> HIDE DEF before
      <4>3. /\ DOMAIN before \subseteq DOMAIN c.created /\ c.created # <<>>
            /\ \A i \in DOMAIN before : c.created[i] = before[i]
            /\ \E i \in DOMAIN c.created : c.created[i] = n
        BY <4>1
      <4>4. \A i \in DOMAIN c.created : c.created[i] = n \/ (i \in DOMAIN before /\ c.created[i] = before[i])
        BY <4>1
      <4> QED BY <4>1, <4>2, <4>3, <4>4 DEF before
    <3>2. Held(c, r)'
      BY <2>1, <2>2, <2>3, <2>4, <3>1 DEF Held
    <3>3. ASSUME Tracked(r) PROVE Tracked(r)'
      <4>1. Mine(r)' = Mine(r) \cup {n}
        BY <2>4 DEF Mine
      <4>2. handler[r].pc = "tasks" \/ handler[r].pc = "followup"
        BY <2>1
      <4>3. /\ \A m \in Mine(r) : \E i \in DOMAIN handler[r].created : handler[r].created[i] = m
            /\ \E m \in Mine(r) : m.kind = "goal"
        BY <3>3, <4>2 DEF Tracked
      <4>4. \A m \in Mine(r)' : \E i \in DOMAIN c.created : c.created[i] = m
        BY <3>1, <4>1, <4>3
      <4>5. \E m \in Mine(r)' : m.kind = "goal"
        BY <4>1, <4>3
      <4> QED BY <2>3, <2>4, <4>4, <4>5 DEF Tracked
    <3>4. \A m : m.by # r => (m \in nodes' <=> m \in nodes)
      BY <2>4
    <3>5. nodes' \subseteq Node
      BY <1>0, <2>4
    <3> QED BY <1>0, <2>1, <2>2, <2>4, <3>2, <3>3, <3>4, <3>5, StepOfOne
  <2>5. CASE /\ c.pc = "rollback" /\ nodes' = nodes /\ c.created = handler[r].created
             /\ Fault("create")
    <3>1. Held(c, r)'
      BY <2>1, <2>2, <2>3, <2>5 DEF Held
    <3>2. ASSUME Tracked(r) PROVE Tracked(r)'
      <4>1. Mine(r)' = Mine(r)
        BY <2>5 DEF Mine
      <4> QED BY <2>1, <2>3, <2>5, <3>2, <4>1 DEF Tracked
    <3> QED BY <1>0, <2>1, <2>2, <2>5, <3>1, <3>2, StepOfOne
  <2>6. ASSUME NEW n \in Node, n.by = r, nodes' \in {nodes, nodes \cup {n}},
               c.pc = "tasks", c.created = handler[r].created, Fault("followup")
        PROVE  BInv'
    <3>1. Held(c, r)'
      BY <2>1, <2>2, <2>3, <2>6 DEF Held
    <3>2. Failed'
      BY <1>0, <2>6, FaultHappens
    <3>3. \A m : m.by # r => (m \in nodes' <=> m \in nodes)
      BY <2>6
    <3>4. nodes' \subseteq Node
      BY <1>0, <2>6
    <3> QED BY <1>0, <2>1, <2>2, <2>6, <3>1, <3>2, <3>3, <3>4, StepOfOne
  <2> QED BY <2>1, <2>4, <2>5, <2>6
<1>8. ASSUME NEW r \in Requests, FinishExecute(r) PROVE BInv'
  <2>1. PICK c \in Call, p \in Plan :
          /\ GoesOn(r, c) /\ c.pc = "saving" /\ c.read = p /\ p.status = "EXECUTED"
          /\ handler[r].pc = "tasks" /\ handler[r].dict \in Requests
          /\ objects' = [objects EXCEPT ![handler[r].dict] = p] /\ cache' = handler[r].dict
    BY <1>0, <1>8, FinishStep
  <2>2. ToCreate(r) = {} /\ p # None /\ UNCHANGED <<stored, nodes, approved, faults>>
    BY <1>8, NoneAssumption DEF FinishExecute
  <2>3. cache' \in Requests /\ objects'[cache'] # None
    BY <1>0, <2>1, <2>2 DEF TypeOK
  <2>4. Held(c, r)'
    BY <1>0, <2>1, <2>2 DEF Held, GoesOn
  <2>5. AllTracked => Failed \/ Tracked(r)'
    BY <1>0, <2>1, <2>2, TrackedKept
  <2> QED BY <1>0, <2>1, <2>2, <2>3, <2>4, <2>5, StepOfOne DEF GoesOn
<1>9. ASSUME NEW r \in Requests, Rollback(r) PROVE BInv'
  <2>0. PICK c \in Call, n \in Node : RollsBack(r, c, n)
    BY <1>0, <1>9, RollbackStep
  <2>1. /\ handler' = [handler EXCEPT ![r] = c] /\ c.dict = handler[r].dict
        /\ handler[r].pc = "rollback" /\ n.by = r
        /\ \/ nodes' = nodes \ {n} /\ UNCHANGED faults
           \/ nodes' = nodes /\ Fault("delete")
        /\ \A i \in DOMAIN c.created : c.created[i].by = r
        /\ \A i \in DOMAIN handler[r].created :
             handler[r].created[i] = n \/ \E k \in DOMAIN c.created :
                                           c.created[k] = handler[r].created[i]
        /\ \/ c.pc = "rollback" /\ c.created # <<>>
           \/ c.pc = "done" /\ DOMAIN c.created = {}
    BY <2>0 DEF RollsBack
  <2>2. UNCHANGED <<objects, cache, stored, approved>> /\ handler'[r] = c
    BY <1>0, <1>9, <2>1 DEF Rollback
  <2>3. Held(c, r)'
    BY <2>1 DEF Held
  <2>4. AllTracked => Failed \/ Tracked(r)' \/ Failed'
    <3>1. CASE Fault("delete")
      BY <1>0, <3>1, FaultHappens
    <3>2. ASSUME Tracked(r), nodes' = nodes \ {n} PROVE Tracked(r)'
      <4>1. \A m \in Mine(r)' : \E k \in DOMAIN c.created : c.created[k] = m
        BY <2>1, <3>2 DEF Mine, Tracked
      <4> QED BY <2>1, <2>2, <4>1 DEF Tracked
    <3> QED BY <1>0, <2>1, <3>1, <3>2
  <2>5. \A m : m.by # r => (m \in nodes' <=> m \in nodes)
    BY <2>1
  <2>6. nodes' \subseteq Node /\ (faults' = faults \/ Fault("delete"))
    BY <1>0, <2>1
  <2> QED BY <1>0, <2>1, <2>2, <2>3, <2>4, <2>5, <2>6, StepOfOne
<1>10. ASSUME Crash PROVE BInv'
  <2>1. \A r \in Active : [handler[r] EXCEPT !.pc = "cut"] \in Call
    <3> SUFFICES ASSUME NEW r \in Requests PROVE [handler[r] EXCEPT !.pc = "cut"] \in Call
      BY DEF Active
    <3>1. handler[r] \in Call
      BY <1>0
    <3> QED BY <3>1 DEF Call
  <2>2. /\ handler' \in [Requests -> Call]
        /\ \A r \in Requests : /\ handler'[r].pc \in {"new", "done", "cut"}
                               /\ handler'[r].created = handler[r].created
    BY <1>0, <1>10, <2>1 DEF Crash, Active, Call
  <2>3. faults' \in Seq(Faults) /\ Len(faults') <= MaxFaults
    BY <1>0, <1>10, FaultType DEF Crash
  <2>4. TypeOK'
    BY <1>0, <1>10, <2>2, <2>3 DEF Crash, TypeOK
  <2>5. CallsHoldPlans'
    BY <1>0, <2>2 DEF CallsHoldPlans, Held
  <2>6. ASSUME NEW r \in Requests, Tracked(r) PROVE Tracked(r)'
    <3>1. handler'[r] = handler[r] \/ handler'[r].pc = "cut"
      BY <1>0, <1>10 DEF Crash, Call
    <3>2. CASE handler'[r].pc = "cut"
      BY <3>2 DEF Tracked
    <3>3. CASE handler'[r] = handler[r]
      <4>1. Mine(r)' = Mine(r) /\ ToCreate(r)' = ToCreate(r)
        BY <1>10, <3>3 DEF Crash, Mine, ToCreate, Created
      <4>2. Complete(r)' = Complete(r)
        BY <4>1 DEF Complete
      <4> QED BY <2>6, <3>3, <4>1, <4>2 DEF Tracked
    <3> QED BY <3>1, <3>2, <3>3
  <2>7. Failed => Failed'
    <3>1. \E k : faults' = Append(faults, k)
      BY <1>10 DEF Crash, Fault
    <3> QED BY <1>0, <3>1, HappenedStays
  <2> QED BY <1>0, <2>4, <2>5, <2>6, <2>7 DEF BInv, AllTracked
<1>11. ASSUME NEW r \in Requests, Cancel(r) PROVE BInv'
  <2>1. PICK c \in Call : GoesOn(r, c) /\ c.pc = "cut"
    BY <1>0, <1>11, CancelStep
  <2>2. UNCHANGED <<objects, cache, stored, nodes, approved>> /\ Fault("cancel")
    BY <1>11 DEF Cancel
  <2>3. Held(c, r)'
    BY <1>0, <2>1 DEF Held, GoesOn
  <2>4. AllTracked => Failed \/ Tracked(r)'
    BY <1>0, <2>1, <2>2, TrackedKept
  <2> QED BY <1>0, <2>1, <2>2, <2>3, <2>4, StepOfOne DEF GoesOn
<1>12. CASE UNCHANGED vars
  <2>1. TypeOK'
    BY <1>0, <1>12 DEF vars, TypeOK
  <2>2. CallsHoldPlans'
    BY <1>0, <1>12 DEF vars, CallsHoldPlans, Held
  <2>3. Failed' = Failed
    BY <1>12 DEF vars, Happened
  <2>4. \A r \in Requests : Tracked(r)' = Tracked(r)
    BY <1>12 DEF vars, Tracked, Mine, Complete, ToCreate, Created
  <2> QED BY <1>0, <2>1, <2>2, <2>3, <2>4 DEF BInv, AllTracked
<1> QED BY <1>1, <1>3, <1>4, <1>5, <1>6, <1>7, <1>8, <1>9, <1>10, <1>11, <1>12 DEF Next

\* The inductive invariant of the tools, however their calls overlap.
THEOREM CallsInvariant == Spec => []BInv
<1>1. Init => BInv
  BY InitBInv
<1>2. BInv /\ [Next]_vars => BInv'
  BY StepBInv
<1> QED BY <1>1, <1>2, PTL DEF Spec

\* Every reachable state is type-correct: no call works on a plan it has lost.
THEOREM TypeCorrect == Spec => []TypeOK
<1>1. BInv => TypeOK
  BY DEF BInv
<1> QED BY <1>1, CallsInvariant, PTL

\* However calls overlap, are cancelled or stop, and creates and saves fail, an execute_plan
\* that has ended by itself has its goal and all its tasks in the graph, or nothing of it
\* (main_orchestrator.py, execute_plan).
THEOREM CreatesAllOrNothing == Spec => []AllOrNothing
<1>1. BInv => AllOrNothing
  BY DEF BInv, AllTracked, Tracked, Complete, Mine, AllOrNothing, At
<1> QED BY <1>1, CallsInvariant, PTL

-----------------------------------------------------------------------------
(***************************************************************************)
(* One plan, its tools called one at a time: it is executed once.           *)
(***************************************************************************)

\* The calls are about one plan.
OneProposal == \A r, s \in Requests : Op[r] = "propose" /\ Op[s] = "propose" => r = s

Begun == cache # None \/ stored # None \/ nodes # {}

\* The plan is proposed before anything is there.  A call that writes has the plan that is
\* cached, one that creates nodes executes the cached plan; what storage has as executed is
\* executed in the cache, and nobody is about to write or to execute it.
OnePlan ==
  /\ Begun => \A r \in Requests : Op[r] = "propose" => handler[r].pc # "new"
  /\ \A r \in Requests :
       /\ handler[r].pc = "saving" => cache # None /\ objects[cache] = handler[r].read
       /\ handler[r].pc = "loaded" => cache = None /\ handler[r].read = stored
       /\ handler[r].pc \in {"goal", "tasks", "followup", "rollback"} =>
            cache # None /\ cache = handler[r].dict /\ objects[cache].status = "APPROVED"
  /\ stored # None /\ stored.status = "EXECUTED" =>
       /\ cache # None => objects[cache].status = "EXECUTED"
       /\ \A r \in Requests : handler[r].pc \in {"new", "loaded", "done", "cut"}

Creating(r) == handler[r].pc \in {"tasks", "followup", "rollback"}

\* The goals in the graph that are not of a cancelled call.
Goals == {g \in nodes : g.kind = "goal" /\ handler[g.by].pc # "cut"}

\* Such a goal is of the plan, which is executed, or of a call that goes on and
\* knows it; until the process stops, the plan is cached.
OneGoal ==
  \/ Happened({"delete", "crash"})
  \/ /\ cache = None => stored = None /\ nodes = {}
     /\ \A g, h \in Goals : g = h
     /\ \A g \in Goals :
          \/ objects[cache].status = "EXECUTED"
          \/ \E r \in Requests :
               Creating(r) /\ \E i \in DOMAIN handler[r].created : handler[r].created[i] = g

PInv == IInv /\ BInv /\ OnePlan /\ OneGoal

LEMMA InitPInv == Init => PInv
<1> SUFFICES ASSUME Init PROVE PInv
  OBVIOUS
<1>1. IInv /\ BInv
  BY InitIInv, InitBInv
<1>2. OnePlan
  BY DEF Init, Idle, OnePlan, Begun
<1>3. OneGoal
  BY DEF Init, OneGoal, Goals
<1> QED BY <1>1, <1>2, <1>3 DEF PInv

\* A step of the only call under way that leaves it as c.
LEMMA OnePlanKept ==
  ASSUME TypeOK, NEW r \in Requests, NEW c \in Call, handler' = [handler EXCEPT ![r] = c],
         \A s \in Requests : s # r => handler[s].pc \in {"new", "done", "cut"},
         c.pc # "new", Begun \/ ~Begun' \/ (OneProposal /\ Op[r] = "propose"), OnePlan,
         c.pc = "saving" => cache' # None /\ objects'[cache'] = c.read,
         c.pc = "loaded" => cache' = None /\ c.read = stored',
         c.pc \in {"goal", "tasks", "followup", "rollback"} =>
           cache' # None /\ cache' = c.dict /\ objects'[cache'].status = "APPROVED",
         stored' # None /\ stored'.status = "EXECUTED" =>
           /\ cache' # None => objects'[cache'].status = "EXECUTED"
           /\ c.pc \in {"loaded", "done", "cut"}
  PROVE  OnePlan'
<1>1. \A s \in Requests : handler'[s] = IF s = r THEN c ELSE handler[s]
  BY DEF TypeOK
<1>2. ASSUME Begun' PROVE \A s \in Requests : Op[s] = "propose" => handler'[s].pc # "new"
  <2>1. CASE Begun
    BY <1>1, <2>1 DEF OnePlan
  <2>2. CASE OneProposal /\ Op[r] = "propose"
    BY <1>1, <2>2 DEF OneProposal
  <2> QED BY <1>2, <2>1, <2>2
<1>3. \A s \in Requests :
        /\ handler'[s].pc = "saving" => cache' # None /\ objects'[cache'] = handler'[s].read
        /\ handler'[s].pc = "loaded" => cache' = None /\ handler'[s].read = stored'
        /\ handler'[s].pc \in {"goal", "tasks", "followup", "rollback"} =>
             cache' # None /\ cache' = handler'[s].dict /\ objects'[cache'].status = "APPROVED"
  BY <1>1
<1>4. stored' # None /\ stored'.status = "EXECUTED" =>
        /\ cache' # None => objects'[cache'].status = "EXECUTED"
        /\ \A s \in Requests : handler'[s].pc \in {"new", "loaded", "done", "cut"}
  BY <1>1
<1> QED BY <1>2, <1>3, <1>4 DEF OnePlan

\* While one call is under way, the others have ended or not begun.
LEMMA OthersIdle ==
  ASSUME OneAtATime, NEW r \in Active
  PROVE  \A s \in Requests : s # r => handler[s].pc \in {"new", "done", "cut"}
BY DEF OneAtATime, Active

\* Every step keeps to the one plan.
LEMMA StepOnePlan ==
  ASSUME MaxActive = 1, OneProposal, PInv, [Next]_vars
  PROVE  OnePlan'
<1>0. /\ TypeOK /\ CallsHoldPlans /\ OneAtATime /\ OnePlan
      /\ handler \in [Requests -> Call]
      /\ \A r \in Requests : Held(handler[r], r)
  BY DEF PInv, IInv, BInv, TypeOK, CallsHoldPlans
<1>1. ASSUME NEW r \in Requests, ProposePlan(r) PROVE OnePlan'
  <2>1. PICK c \in Call, p \in Plan :
          /\ GoesOn(r, c) /\ c.pc = "saving" /\ c.read = p /\ p.status = "DRAFT"
          /\ objects' = [objects EXCEPT ![r] = p] /\ cache' = r
    BY <1>0, <1>1, ProposeStep
  <2>2. /\ handler[r].pc = "new" /\ Op[r] = "propose" /\ Active = {}
        /\ UNCHANGED <<stored, nodes, approved, faults>>
    BY <1>1, NoneActive DEF ProposePlan, At
  <2>3. ~Begun
    BY <1>0, <2>2 DEF OnePlan
  <2>4. stored' = None /\ objects'[cache'] = p /\ cache' # None
    BY <1>0, <2>1, <2>2, <2>3, PlanAssumption DEF Begun, TypeOK
  <2>5. \A s \in Requests : s # r => handler[s].pc \in {"new", "done", "cut"}
    BY <2>2 DEF Active
  <2> QED BY <1>0, <2>1, <2>2, <2>4, <2>5, OnePlanKept DEF GoesOn
<1>2. ASSUME NEW r \in Requests, NEW dict \in Requests, NEW plan \in Plan,
             \A s \in Requests : s # r => handler[s].pc \in {"new", "done", "cut"},
             \/ dict = cache /\ plan = objects[cache]
             \/ cache = None /\ plan = stored,
             Work(r, dict, plan), UNCHANGED <<stored, nodes, faults>>
      PROVE  OnePlan'
  <2>1. PICK c \in Call, p \in Plan :
          /\ GoesOn(r, c) /\ c.dict = dict
          /\ objects' = [objects EXCEPT ![dict] = p] /\ cache' = dict
          /\ approved \subseteq approved' /\ approved' \subseteq Requests
          /\ \/ c.pc = "done" /\ p.status = plan.status
             \/ c.pc = "goal" /\ c.read = p /\ p.status = "APPROVED" /\ plan.status = "APPROVED"
             \/ /\ c.pc = "saving" /\ c.read = p
                /\ plan.status # "EXECUTED" /\ p.status # "EXECUTED"
    BY <1>0, <1>2, WorkStep
  <2>2. objects'[cache'] = p /\ cache' # None
    BY <1>0, <2>1, PlanAssumption DEF TypeOK
  <2>3. Begun
    BY <1>2, PlanAssumption, NoneAssumption DEF Begun
  <2>4. ASSUME stored # None, stored.status = "EXECUTED"
        PROVE  p.status = "EXECUTED" /\ c.pc = "done"
    <3>1. plan.status = "EXECUTED"
      BY <1>0, <1>2, <2>4, PlanAssumption DEF OnePlan
    <3> QED BY <2>1, <3>1
  <2> QED BY <1>0, <1>2, <2>1, <2>2, <2>3, <2>4, OnePlanKept DEF GoesOn
<1>3. ASSUME NEW r \in Requests, Begin(r) PROVE OnePlan'
  <2>1. handler[r].pc = "new" /\ Active = {} /\ UNCHANGED <<stored, nodes, faults>>
    BY <1>3, NoneActive DEF Begin, At
  <2>2. \A s \in Requests : s # r => handler[s].pc \in {"new", "done", "cut"}
    BY <2>1 DEF Active
  <2>3. CASE cache # None
    <3>1. cache \in Requests /\ objects[cache] \in Plan
      BY <1>0, <2>3 DEF TypeOK
    <3>2. Work(r, cache, objects[cache])
      BY <1>3, <2>3 DEF Begin
    <3> QED BY <1>2, <2>1, <2>2, <3>1, <3>2
  <2>4. CASE cache = None
    <3>1. PICK c \in Call :
            /\ GoesOn(r, c) /\ UNCHANGED <<objects, cache, stored, nodes, approved, faults>>
            /\ \/ stored = None /\ c.pc = "done"
               \/ stored # None /\ c.pc = "loaded" /\ c.read = stored
      BY <1>0, <1>3, <2>4, LoadStep
    <3>2. Begun' = Begun
      BY <3>1 DEF Begun
    <3> QED BY <1>0, <2>2, <2>4, <3>1, <3>2, OnePlanKept DEF GoesOn
  <2> QED BY <2>3, <2>4
<1>4. ASSUME NEW r \in Requests, Resume(r) PROVE OnePlan'
  <2>1. handler[r].pc = "loaded" /\ handler[r].read # None
    BY <1>0, <1>4 DEF Resume, At, Held
  <2>2. handler[r].read \in Plan /\ cache = None /\ handler[r].read = stored
    BY <1>0, <2>1 DEF Call, OnePlan
  <2>3. Work(r, r, handler[r].read) /\ UNCHANGED <<stored, nodes, faults>>
    BY <1>4 DEF Resume
  <2>4. \A s \in Requests : s # r => handler[s].pc \in {"new", "done", "cut"}
    BY <1>0, <2>1, OthersIdle DEF Active
  <2> QED BY <1>2, <2>2, <2>3, <2>4
<1>5. ASSUME NEW r \in Requests, Save(r) PROVE OnePlan'
  <2>1. PICK c \in Call : GoesOn(r, c) /\ c.pc = "done"
    BY <1>0, <1>5, SaveStep
  <2>2. /\ handler[r].pc = "saving" /\ UNCHANGED <<objects, cache, nodes, approved>>
        /\ stored' \in {stored, handler[r].read}
    BY <1>5 DEF Save, At
  <2>3. cache # None /\ objects[cache] = handler[r].read
    BY <1>0, <2>2 DEF OnePlan
  <2>4. \A s \in Requests : s # r => handler[s].pc \in {"new", "done", "cut"}
    BY <1>0, <2>2, OthersIdle DEF Active
  <2>5. stored' # None /\ stored'.status = "EXECUTED" => objects[cache].status = "EXECUTED"
    BY <1>0, <2>2, <2>3 DEF OnePlan
  <2> QED BY <1>0, <2>1, <2>2, <2>3, <2>4, <2>5, OnePlanKept DEF GoesOn, Begun
<1>6. ASSUME NEW r \in Requests, NEW c \in Call, handler' = [handler EXCEPT ![r] = c],
             handler[r].pc \in {"goal", "tasks", "followup", "rollback"},
             c.dict = handler[r].dict,
             c.pc \in {"tasks", "followup", "rollback", "done"},
             UNCHANGED <<objects, cache, stored>>
      PROVE  OnePlan'
  <2>1. /\ cache # None /\ cache = handler[r].dict /\ objects[cache].status = "APPROVED"
        /\ ~(stored # None /\ stored.status = "EXECUTED")
    BY <1>0, <1>6 DEF OnePlan
  <2>2. \A s \in Requests : s # r => handler[s].pc \in {"new", "done", "cut"}
    BY <1>0, <1>6, OthersIdle DEF Active
  <2> QED BY <1>0, <1>6, <2>1, <2>2, OnePlanKept DEF Begun
<1>7. ASSUME NEW r \in Requests, CreateGoal(r) PROVE OnePlan'
  <2>1. PICK c \in Call :
          /\ handler' = [handler EXCEPT ![r] = c] /\ c.dict = handler[r].dict
          /\ c.pc \in {"done", "tasks"}
    BY <1>0, <1>7, GoalStep
  <2> QED BY <1>6, <1>7, <2>1 DEF CreateGoal, At
<1>8. ASSUME NEW r \in Requests, CreateTask(r) \/ SpawnFollowUp(r) PROVE OnePlan'
  <2>1. PICK c \in Call :
          /\ handler' = [handler EXCEPT ![r] = c] /\ c.dict = handler[r].dict
          /\ handler[r].pc \in {"tasks", "followup"}
          /\ c.pc \in {"tasks", "followup", "rollback"}
    <3>1. \E c \in Call :
            /\ handler' = [handler EXCEPT ![r] = c] /\ c.dict = handler[r].dict
            /\ c.version = handler[r].version /\ handler[r].pc \in {"tasks", "followup"}
            /\ \/ \E n \in Node :
                    /\ n.kind # "goal" /\ n.by = r /\ nodes' = nodes \cup {n}
                    /\ c.pc \in {"tasks", "followup"}
                    /\ c.created = Append(handler[r].created, n)
                    /\ UNCHANGED faults
               \/ /\ c.pc = "rollback" /\ nodes' = nodes /\ c.created = handler[r].created
                  /\ Fault("create")
               \/ /\ c.pc = "tasks" /\ c.created = handler[r].created /\ Fault("followup")
                  /\ \E n \in Node : /\ n.kind # "goal" /\ n.by = r
                                     /\ nodes' \in {nodes, nodes \cup {n}}
      BY <1>0, <1>8, TaskStep
    <3> QED BY <3>1
  <2> QED BY <1>6, <1>8, <2>1 DEF CreateTask, SpawnFollowUp
<1>9. ASSUME NEW r \in Requests, FinishExecute(r) PROVE OnePlan'
  <2>1. PICK c \in Call, p \in Plan :
          /\ GoesOn(r, c) /\ c.pc = "saving" /\ c.read = p /\ p.status = "EXECUTED"
          /\ handler[r].pc = "tasks" /\ handler[r].dict \in Requests
          /\ objects' = [objects EXCEPT ![handler[r].dict] = p] /\ cache' = handler[r].dict
    BY <1>0, <1>9, FinishStep
  <2>2. UNCHANGED <<stored, nodes, approved, faults>>
    BY <1>9 DEF FinishExecute
  <2>3. /\ cache # None /\ cache = handler[r].dict /\ objects[cache].status = "APPROVED"
        /\ ~(stored # None /\ stored.status = "EXECUTED")
    BY <1>0, <2>1 DEF OnePlan
  <2>4. objects'[cache'] = p /\ cache' # None
    BY <1>0, <2>1, <2>3 DEF TypeOK
  <2>5. \A s \in Requests : s # r => handler[s].pc \in {"new", "done", "cut"}
    BY <1>0, <2>1, OthersIdle DEF Active
  <2> QED BY <1>0, <2>1, <2>2, <2>3, <2>4, <2>5, OnePlanKept DEF GoesOn, Begun
<1>10. ASSUME NEW r \in Requests, Rollback(r) PROVE OnePlan'
  <2>0. PICK c \in Call, n \in Node : RollsBack(r, c, n)
    BY <1>0, <1>10, RollbackStep
  <2>1. /\ handler' = [handler EXCEPT ![r] = c] /\ c.dict = handler[r].dict
        /\ handler[r].pc = "rollback" /\ c.pc \in {"rollback", "done"}
    BY <2>0 DEF RollsBack
  <2> QED BY <1>6, <1>10, <2>1 DEF Rollback
<1>11. ASSUME Crash PROVE OnePlan'
  <2>1. \A r \in Requests : /\ handler'[r].pc \in {"new", "done", "cut"}
                            /\ handler'[r].pc = "new" => handler[r].pc = "new"
    BY <1>0, <1>11 DEF Crash, Active, Call
  <2>2. cache' = None /\ UNCHANGED <<stored, nodes>>
    BY <1>11 DEF Crash
  <2>3. Begun' => \A r \in Requests : Op[r] = "propose" => handler'[r].pc # "new"
    BY <1>0, <2>1, <2>2 DEF OnePlan, Begun
  <2> QED BY <2>1, <2>2, <2>3 DEF OnePlan
<1>12. ASSUME NEW r \in Requests, Cancel(r) PROVE OnePlan'
  <2>1. PICK c \in Call : GoesOn(r, c) /\ c.pc = "cut"
    BY <1>0, <1>12, CancelStep
  <2>2. r \in Active /\ UNCHANGED <<objects, cache, stored, nodes, approved>>
    BY <1>12 DEF Cancel
  <2>3. \A s \in Requests : s # r => handler[s].pc \in {"new", "done", "cut"}
    BY <1>0, <2>2, OthersIdle
  <2>4. stored # None /\ stored.status = "EXECUTED" /\ cache # None =>
          objects[cache].status = "EXECUTED"
    BY <1>0 DEF OnePlan
  <2> QED BY <1>0, <2>1, <2>2, <2>3, <2>4, OnePlanKept DEF GoesOn, Begun
<1>13. CASE UNCHANGED vars
  BY <1>0, <1>13 DEF vars, OnePlan, Begun
<1> QED BY <1>1, <1>3, <1>4, <1>5, <1>7, <1>8, <1>9, <1>10, <1>11, <1>12, <1>13 DEF Next

\* What has failed before the step has failed after it.
LEMMA FaultsStay ==
  ASSUME TypeOK, NEW kinds, [Next]_vars, Happened(kinds)
  PROVE  Happened(kinds)'
<1>1. faults' = faults \/ \E k : faults' = Append(faults, k)
  BY DEF Next, vars, Fault, ProposePlan, Begin, Resume, Save, CreateGoal, CreateTask,
         SpawnFollowUp, FinishExecute, Rollback, Cancel, Crash
<1> QED BY <1>1, HappenedStays

\* Every step leaves one goal at most, unless the process stops or a delete fails.
LEMMA StepOneGoal ==
  ASSUME MaxActive = 1, PInv, [Next]_vars
  PROVE  OneGoal'
<1> DEFINE Failed == Happened({"delete", "crash"})
           Known(g) == \E r \in Requests : /\ Creating(r)
                                           /\ \E i \in DOMAIN handler[r].created :
                                                handler[r].created[i] = g
<1>0. /\ TypeOK /\ CallsHoldPlans /\ OneAtATime /\ OnePlan
      /\ handler \in [Requests -> Call]
      /\ \A r \in Requests : Held(handler[r], r)
  BY DEF PInv, IInv, BInv, TypeOK, CallsHoldPlans
<1> SUFFICES ASSUME ~Failed' PROVE OneGoal'
  BY DEF OneGoal
<1>a. /\ cache = None => stored = None /\ nodes = {}
      /\ \A g, h \in Goals : g = h
      /\ \A g \in Goals : objects[cache].status = "EXECUTED" \/ Known(g)
  BY <1>0, FaultsStay DEF PInv, OneGoal
<1>b. ASSUME cache' # None,
             \A g, h \in Goals' : g = h,
             \A g \in Goals' : objects'[cache'].status = "EXECUTED" \/ Known(g)'
      PROVE  OneGoal'
  BY <1>b DEF OneGoal
<1>c. ASSUME NEW r \in Requests, NEW c \in Call, handler' = [handler EXCEPT ![r] = c],
             handler[r].pc # "cut"
      PROVE  \A g \in Goals' : g \in Goals \/ (g \notin nodes /\ g \in nodes')
  <2>1. \A g \in Node : handler'[g.by] = IF g.by = r THEN c ELSE handler[g.by]
    BY <1>0, <1>c DEF Node
  <2> QED BY <1>0, <1>c, <2>1 DEF Goals, TypeOK
<1> HIDE DEF Failed
<1>1. ASSUME NEW r \in Requests, ProposePlan(r) PROVE OneGoal'
  <2>1. cache' = r /\ nodes' = nodes /\ Op[r] = "propose" /\ handler[r].pc = "new"
    BY <1>1 DEF ProposePlan, Persist, Take, At
  <2>2. ~Begun
    BY <1>0, <2>1 DEF OnePlan
  <2>3. nodes' = {} /\ cache' # None
    BY <2>1, <2>2, PlanAssumption DEF Begun
  <2> QED BY <2>3 DEF OneGoal, Goals
<1>2. ASSUME NEW r \in Requests, NEW dict \in Requests, NEW plan \in Plan,
             handler[r].pc \in {"new", "loaded"}, Active \subseteq {r},
             dict = cache, plan = objects[cache],
             Work(r, dict, plan), UNCHANGED <<stored, nodes, faults>>
      PROVE  OneGoal'
  <2>1. PICK c \in Call, p \in Plan :
          /\ GoesOn(r, c) /\ c.dict = dict
          /\ objects' = [objects EXCEPT ![dict] = p] /\ cache' = dict
          /\ approved \subseteq approved' /\ approved' \subseteq Requests
          /\ \/ c.pc = "done" /\ p.status = plan.status
             \/ c.pc = "goal" /\ c.read = p /\ p.status = "APPROVED" /\ plan.status = "APPROVED"
             \/ /\ c.pc = "saving" /\ c.read = p
                /\ plan.status # "EXECUTED" /\ p.status # "EXECUTED"
    BY <1>0, <1>2, WorkStep
  <2>2. objects'[cache'] = p /\ cache' # None
    BY <1>0, <2>1, PlanAssumption DEF TypeOK
  <2>3. \A s \in Requests : ~Creating(s)
    BY <1>2 DEF Creating, Active
  <2>4. \A g \in Goals : plan.status = "EXECUTED"
    BY <1>2, <1>a, <2>3
  <2>5. Goals' \subseteq Goals
    BY <1>2, <1>c, <2>1 DEF GoesOn
  <2>6. \A g \in Goals' : objects'[cache'].status = "EXECUTED"
    BY <1>2, <2>1, <2>2, <2>4, <2>5
  <2> HIDE DEF Known
  <2> QED BY <1>a, <1>b, <2>2, <2>5, <2>6
<1>3. ASSUME NEW r \in Requests, Begin(r) PROVE OneGoal'
  <2>1. handler[r].pc = "new" /\ Active = {} /\ UNCHANGED <<stored, nodes, faults>>
    BY <1>3, NoneActive DEF Begin, At
  <2>2. CASE cache # None
    <3>1. cache \in Requests /\ objects[cache] \in Plan
      BY <1>0, <2>2 DEF TypeOK
    <3>2. Work(r, cache, objects[cache])
      BY <1>3, <2>2 DEF Begin
    <3> QED BY <1>2, <2>1, <3>1, <3>2
  <2>3. CASE cache = None
    <3>1. UNCHANGED <<cache, stored, nodes>>
      BY <1>3, <2>3 DEF Begin
    <3> QED BY <1>a, <2>3, <3>1 DEF OneGoal, Goals
  <2> QED BY <2>2, <2>3
<1>4. ASSUME NEW r \in Requests, Resume(r) PROVE FALSE
  <2>1. handler[r].pc = "loaded" /\ handler[r].read # None
    BY <1>0, <1>4 DEF Resume, At, Held
  <2> QED BY <1>0, <1>a, <2>1 DEF OnePlan
<1>5. ASSUME NEW r \in Requests, Save(r) PROVE OneGoal'
  <2>1. PICK c \in Call : GoesOn(r, c) /\ c.pc = "done"
    BY <1>0, <1>5, SaveStep
  <2>2. handler[r].pc = "saving" /\ UNCHANGED <<objects, cache, nodes, approved>>
    BY <1>5 DEF Save, At
  <2>3. cache # None
    BY <1>0, <2>2 DEF OnePlan
  <2>4. \A s \in Requests : Creating(s) => handler'[s] = handler[s]
    BY <1>0, <2>1, <2>2 DEF GoesOn, Creating
  <2>5. ASSUME NEW g, Known(g) PROVE Known(g)'
    BY <2>4, <2>5 DEF Creating
  <2>6. Goals' \subseteq Goals
    BY <1>c, <2>1, <2>2 DEF GoesOn
  <2> HIDE DEF Known
  <2> QED BY <1>a, <1>b, <2>2, <2>3, <2>5, <2>6
<1>6. ASSUME NEW r \in Requests, CreateGoal(r) PROVE OneGoal'
  <2>1. PICK c \in Call :
          /\ handler' = [handler EXCEPT ![r] = c] /\ c.dict = handler[r].dict
          /\ \/ c.pc = "done" /\ GoesOn(r, c) /\ nodes' = nodes
             \/ \E goal \in Node :
                  /\ goal.kind = "goal" /\ goal.by = r /\ nodes' = nodes \cup {goal}
                  /\ c.pc = "tasks" /\ c.version \in Requests /\ c.created = <<goal>>
    BY <1>0, <1>6, GoalStep
  <2>2. handler[r].pc = "goal" /\ UNCHANGED <<objects, cache, stored, approved>>
    BY <1>6 DEF CreateGoal, At
  <2>3. cache # None /\ objects[cache].status = "APPROVED"
    BY <1>0, <2>2 DEF OnePlan
  <2>4. \A s \in Requests : ~Creating(s)
    BY <1>0, <2>2 DEF OneAtATime, Active, Creating
  <2>5. Goals = {}
    BY <1>a, <2>3, <2>4
  <2>6. CASE nodes' = nodes
    <3>1. Goals' = {}
      BY <1>c, <2>1, <2>2, <2>5, <2>6
    <3> QED BY <1>b, <2>2, <2>3, <3>1
  <2>7. ASSUME NEW goal \in Node, nodes' = nodes \cup {goal},
               c.pc = "tasks", c.created = <<goal>>
        PROVE  OneGoal'
    <3>1. handler'[r] = c /\ DOMAIN c.created = {1} /\ c.created[1] = goal
      BY <1>0, <2>1, <2>7
    <3>2. Known(goal)'
      BY <2>7, <3>1 DEF Creating
    <3>3. \A g \in Goals' : g = goal
      BY <1>c, <2>1, <2>2, <2>5, <2>7
    <3> HIDE DEF Known
    <3> QED BY <1>b, <2>2, <2>3, <3>2, <3>3
  <2> QED BY <2>1, <2>6, <2>7
<1>7. ASSUME NEW r \in Requests, CreateTask(r) \/ SpawnFollowUp(r) PROVE OneGoal'
  <2>1. PICK c \in Call :
          /\ handler' = [handler EXCEPT ![r] = c] /\ c.dict = handler[r].dict
          /\ c.version = handler[r].version /\ handler[r].pc \in {"tasks", "followup"}
          /\ \/ \E n \in Node :
                  /\ n.kind # "goal" /\ n.by = r /\ nodes' = nodes \cup {n}
                  /\ c.pc \in {"tasks", "followup"}
                  /\ c.created = Append(handler[r].created, n)
                  /\ UNCHANGED faults
             \/ /\ c.pc = "rollback" /\ nodes' = nodes /\ c.created = handler[r].created
                /\ Fault("create")
             \/ /\ c.pc = "tasks" /\ c.created = handler[r].created /\ Fault("followup")
                /\ \E n \in Node : /\ n.kind # "goal" /\ n.by = r
                                   /\ nodes' \in {nodes, nodes \cup {n}}
    BY <1>0, <1>7, TaskStep
  <2>2. UNCHANGED <<objects, cache, stored, approved>>
    BY <1>7 DEF CreateTask, SpawnFollowUp
  <2>3. cache # None
    BY <1>0, <2>1 DEF OnePlan
  <2>4. Goals' \subseteq Goals
    <3>1. \A g \in nodes' : g.kind = "goal" => g \in nodes
      BY <2>1
    <3> QED BY <1>c, <2>1, <3>1 DEF Goals
  <2>5. /\ c.pc \in {"tasks", "followup", "rollback"} /\ handler[r].created \in Seq(Node)
        /\ \/ c.created = handler[r].created
           \/ \E n \in Node : c.created = Append(handler[r].created, n)
    BY <1>0, <2>1 DEF Call
  <2>6. \A i \in DOMAIN handler[r].created :
          i \in DOMAIN c.created /\ c.created[i] = handler[r].created[i]
    <3> DEFINE s == handler[r].created
    <3>1. s \in Seq(Node) /\ (c.created = s \/ \E n \in Node : c.created = Append(s, n))
      BY <2>5
    <3> HIDE DEF s
    <3>2. \A i \in DOMAIN s : i \in DOMAIN c.created /\ c.created[i] = s[i]
      BY <3>1
    <3> QED BY <3>2 DEF s
  <2>7. ASSUME NEW g, Known(g) PROVE Known(g)'
    <3>1. PICK s \in Requests : /\ Creating(s)
                                /\ \E i \in DOMAIN handler[s].created : handler[s].created[i] = g
      BY <2>7
    <3>2. handler'[s] = IF s = r THEN c ELSE handler[s]
      BY <1>0, <2>1
    <3>3. Creating(s)' /\ \E i \in DOMAIN handler'[s].created : handler'[s].created[i] = g
      BY <2>5, <2>6, <3>1, <3>2 DEF Creating
    <3> QED BY <3>3
  <2> HIDE DEF Known
  <2> QED BY <1>a, <1>b, <2>2, <2>3, <2>4, <2>7
<1>8. ASSUME NEW r \in Requests, FinishExecute(r) PROVE OneGoal'
  <2>1. PICK p \in Plan :
          /\ p.status = "EXECUTED" /\ handler[r].pc = "tasks" /\ handler[r].dict \in Requests
          /\ objects' = [objects EXCEPT ![handler[r].dict] = p] /\ cache' = handler[r].dict
    BY <1>0, <1>8, FinishStep
  <2>2. Goals' \subseteq Goals
    <3>1. PICK c \in Call : GoesOn(r, c)
      BY <1>0, <1>8, FinishStep
    <3> QED BY <1>8, <1>c, <2>1, <3>1 DEF FinishExecute, GoesOn
  <2>3. objects'[cache'].status = "EXECUTED" /\ cache' # None
    BY <1>0, <2>1, PlanAssumption DEF TypeOK
  <2> QED BY <1>a, <1>b, <2>2, <2>3
<1>9. ASSUME NEW r \in Requests, Rollback(r) PROVE OneGoal'
  <2>0. PICK c \in Call, n \in Node : RollsBack(r, c, n)
    BY <1>0, <1>9, RollbackStep
  <2>1. /\ handler' = [handler EXCEPT ![r] = c] /\ c.dict = handler[r].dict
        /\ handler[r].pc = "rollback" /\ n.by = r
        /\ \/ nodes' = nodes \ {n} /\ UNCHANGED faults
           \/ nodes' = nodes /\ Fault("delete")
        /\ \A i \in DOMAIN c.created : c.created[i].by = r
        /\ \A i \in DOMAIN handler[r].created :
             handler[r].created[i] = n \/ \E k \in DOMAIN c.created :
                                           c.created[k] = handler[r].created[i]
        /\ \/ c.pc = "rollback" /\ c.created # <<>>
           \/ c.pc = "done" /\ DOMAIN c.created = {}
    BY <2>0 DEF RollsBack
  <2>2. UNCHANGED <<objects, cache, stored, approved>>
    BY <1>9 DEF Rollback
  <2>3. cache # None /\ objects[cache].status = "APPROVED"
    BY <1>0, <2>1 DEF OnePlan
  <2>4. nodes' = nodes \ {n}
    BY <1>0, <2>1, FaultHappens DEF Failed
  <2>5. \A s \in Requests : Creating(s) => s = r
    BY <1>0, <2>1 DEF OneAtATime, Active, Creating
  <2>7. Goals' \subseteq Goals
    BY <1>c, <2>1, <2>4
  <2>6. ASSUME NEW g \in Goals' PROVE Known(g)'
    <3>1. Known(g) /\ g # n
      BY <1>a, <2>3, <2>4, <2>6, <2>7 DEF Goals
    <3>2. \E i \in DOMAIN handler[r].created : handler[r].created[i] = g
      BY <2>5, <3>1
    <3>3. \E k \in DOMAIN c.created : c.created[k] = g
      BY <2>1, <3>1, <3>2
    <3>4. handler'[r] = c /\ c.pc = "rollback"
      BY <1>0, <2>1, <3>3
    <3> QED BY <3>3, <3>4 DEF Creating
  <2> HIDE DEF Known
  <2> QED BY <1>a, <1>b, <2>2, <2>3, <2>6, <2>7
<1>10. ASSUME Crash PROVE FALSE
  BY <1>0, <1>10, FaultHappens DEF Crash, Failed
<1>11. ASSUME NEW r \in Requests, Cancel(r) PROVE OneGoal'
  <2>1. PICK c \in Call : GoesOn(r, c) /\ c.pc = "cut"
    BY <1>0, <1>11, CancelStep
  <2>2. /\ UNCHANGED <<objects, cache, stored, nodes>>
        /\ handler' = [handler EXCEPT ![r] = c] /\ handler[r].pc # "cut"
    BY <1>11, <2>1 DEF Cancel, Active, GoesOn
  <2>3. CASE cache = None
    BY <1>a, <2>2, <2>3 DEF OneGoal, Goals
  <2>4. CASE cache # None
    <3>1. Goals' \subseteq Goals
      BY <1>c, <2>2
    <3>2. \A g \in Goals' : g.by # r
      BY <1>0, <2>1, <2>2 DEF Goals
    <3>3. ASSUME NEW g \in Goals', Known(g) PROVE Known(g)'
      <4>1. PICK s \in Requests :
              Creating(s) /\ \E i \in DOMAIN handler[s].created : handler[s].created[i] = g
        BY <3>3
      <4>2. g.by = s
        BY <1>0, <4>1 DEF Held
      <4>3. handler'[s] = handler[s]
        BY <1>0, <2>2, <3>2, <4>2
      <4> QED BY <4>1, <4>3 DEF Creating
    <3> HIDE DEF Known
    <3> QED BY <1>a, <1>b, <2>2, <2>4, <3>1, <3>3
  <2> QED BY <2>3, <2>4
<1>12. CASE UNCHANGED vars
  <2>1. UNCHANGED <<cache, stored, nodes, objects, handler>>
    BY <1>12 DEF vars
  <2> QED BY <1>a, <2>1 DEF OneGoal, Goals, Creating
<1> QED BY <1>1, <1>3, <1>4, <1>5, <1>6, <1>7, <1>8, <1>9, <1>10, <1>11, <1>12 DEF Next

\* The inductive invariant of one plan whose tools are called one at a time.
THEOREM OnePlanInvariant ==
  ASSUME MaxActive = 1, OneProposal
  PROVE  Spec => []PInv
<1>1. Init => PInv
  BY InitPInv
<1>2. PInv /\ [Next]_vars => PInv'
  BY StepIInv, StepBInv, StepOnePlan, StepOneGoal DEF PInv
<1> QED BY <1>1, <1>2, PTL DEF Spec

\* "Plan has already been executed": whatever creates and saves fail and however often the
\* tools are called again, the calls that are not cancelled bring one goal of a plan into
\* the graph (execute_plan).
THEOREM ExecutesOnce ==
  ASSUME MaxActive = 1, OneProposal
  PROVE  Spec => []ExecutedOnce
<1>1. ASSUME PInv PROVE ExecutedOnce
  <2>1. Goals = {n \in nodes : n.kind = "goal" /\ ~At(n.by, "cut")}
    BY DEF Goals, At
  <2>2. CASE Happened({"delete", "crash"})
    BY <2>2 DEF ExecutedOnce
  <2>3. CASE \A g, h \in Goals : g = h
    <3>1. CASE Goals = {}
      BY <2>1, <3>1, FS_EmptySet DEF ExecutedOnce
    <3>2. CASE Goals # {}
      <4>1. PICK g : Goals = {g}
        BY <2>3, <3>2
      <4>2. Cardinality(Goals) = 1
        BY <4>1, FS_Singleton
      <4> QED BY <2>1, <4>2 DEF ExecutedOnce
    <3> QED BY <3>1, <3>2
  <2> QED BY <1>1, <2>2, <2>3 DEF PInv, OneGoal
<1> QED BY <1>1, OnePlanInvariant, PTL

\* One plan, once storage has it as executed, stays as it is there: no edit, approval or
\* late write of another call replaces it, restarts included.
THEOREM ExecutedStays ==
  ASSUME MaxActive = 1, OneProposal
  PROVE  Spec => ExecutedIsFinal
<1>1. ASSUME PInv, [Next]_vars, stored # None, stored.status = "EXECUTED"
      PROVE  stored' = stored
  <2>1. \A r \in Requests : handler[r].pc \in {"new", "loaded", "done", "cut"}
    BY <1>1 DEF PInv, OnePlan
  <2>2. \A r \in Requests : ~Save(r)
    BY <2>1 DEF Save, At
  <2> QED BY <1>1, <2>2 DEF Next, vars, ProposePlan, Begin, Resume, CreateGoal, CreateTask,
             SpawnFollowUp, FinishExecute, Rollback, Cancel, Crash
<1>2. PInv /\ [Next]_vars => [stored # None /\ stored.status = "EXECUTED" => stored' = stored]_vars
  BY <1>1
<1> QED BY <1>2, OnePlanInvariant, PTL DEF Spec, ExecutedIsFinal
=============================================================================
