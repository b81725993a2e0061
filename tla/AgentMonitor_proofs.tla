------------------------- MODULE AgentMonitor_proofs -------------------------
(***************************************************************************)
(* Proofs about AgentMonitor, for any runs, any assignment of agents to     *)
(* them and any faults: a late sign of life never brings an agent whose     *)
(* runs have all been reported back into monitoring.                        *)
(***************************************************************************)
EXTENDS AgentMonitor, TLAPS

Signs == {"started", "heartbeat"}

\* The queue never holds an update of a run that has not begun, nor a sign of life
\* of one whose end has been taken; a completion is sent by a run that is over.
QueueIsCurrent ==
  \A i \in 1..Len(updates) :
    /\ runner[updates[i].run] # "queued"
    /\ updates[i].type \in Signs => updates[i].run \notin reported
    /\ updates[i].type = "completed" => runner[updates[i].run] = "over"

\* In the queue no sign of life is behind the completion of its run.
SignsBeforeEnd ==
  \A i, k \in 1..Len(updates) :
    i < k /\ updates[i].run = updates[k].run /\ updates[k].type \in Signs
      => updates[i].type # "completed"

ReportedIsOver == \A r \in reported : runner[r] = "over"

\* A record names a run that has begun and whose end has not been taken.
RecordsNameOpenRuns ==
  \A a \in DOMAIN records :
    runner[records[a].run] # "queued" /\ records[a].run \notin reported

\* The sweep escalates runs that have begun.
SweptHaveBegun == \A r \in sweep : runner[r] # "queued"

IInv == /\ TypeOK /\ QueueIsCurrent /\ SignsBeforeEnd /\ ReportedIsOver
        /\ RecordsNameOpenRuns /\ SweptHaveBegun

-----------------------------------------------------------------------------
\* The fields of an update.
LEMMA UpdateFields ==
  ASSUME NEW u \in Update
  PROVE  /\ u.run \in Runs
         /\ u.type \in {"started", "heartbeat", "blocked", "completed"}
BY DEF Update

\* The updates in the queue, and what is left when the first is taken.
LEMMA QueueType ==
  ASSUME TypeOK
  PROVE  /\ \A i \in 1..Len(updates) : updates[i] \in Update
         /\ Len(updates) \in Nat
         /\ updates # <<>> =>
              /\ Head(updates) \in Update /\ Head(updates) = updates[1]
              /\ Tail(updates) \in Seq(Update)
              /\ 1 \in 1..Len(updates) /\ Len(Tail(updates)) = Len(updates) - 1
              /\ \A i \in 1..Len(Tail(updates)) : /\ i + 1 \in 1..Len(updates)
                                                  /\ Tail(updates)[i] = updates[i + 1]
BY DEF TypeOK

FaultsTyped == faults \in [kinds : SUBSET Faults, left : 0..MaxFaults]

\* What has failed is remembered.
LEMMA FaultType ==
  ASSUME FaultsTyped, NEW kind, Fault(kind)
  PROVE  FaultsTyped' /\ faults'.kinds = faults.kinds \cup {kind} /\ kind \in Faults
<1>1. faults.kinds \in SUBSET Faults /\ faults.left \in 0..MaxFaults /\ MaxFaults \in Nat
  BY MonitorAssumption DEF FaultsTyped
<1>2. faults.kinds \cup {kind} \in SUBSET Faults /\ faults.left - 1 \in 0..MaxFaults
  BY <1>1 DEF Fault
<1> QED BY <1>2 DEF FaultsTyped, Fault

\* A published update is of the right type, and is put behind the others.
LEMMA PublishType ==
  ASSUME TypeOK, NEW type \in {"started", "heartbeat", "blocked", "completed"},
         NEW r \in Runs, NEW status \in {"COMPLETED", "FAILED", "none"}, NEW fault,
         Publish(type, r, status, fault)
  PROVE  /\ updates' \in Seq(Update) /\ FaultsTyped'
         /\ \/ updates' = updates
            \/ /\ Len(updates') = Len(updates) + 1
               /\ updates'[Len(updates) + 1] = [type |-> type, run |-> r, status |-> status]
               /\ \A i \in 1..Len(updates) : updates'[i] = updates[i]
<1> DEFINE u == [type |-> type, run |-> r, status |-> status]
<1>1. updates \in Seq(Update) /\ FaultsTyped
  BY DEF TypeOK, FaultsTyped
<1>2. u \in Update
  BY DEF Update
<1>3. CASE updates' = Append(updates, u) /\ UNCHANGED faults
  BY <1>1, <1>2, <1>3 DEF FaultsTyped
<1>4. CASE Fault(fault) /\ UNCHANGED updates
  BY <1>1, <1>4, FaultType
<1> QED BY <1>3, <1>4 DEF Publish

LEMMA EmitType ==
  ASSUME TypeOK, NEW type \in {"started", "heartbeat", "blocked", "completed"},
         NEW r \in Runs, NEW status \in {"COMPLETED", "FAILED", "none"},
         Emit(type, r, status)
  PROVE  updates' \in Seq(Update) /\ FaultsTyped'
BY PublishType DEF Emit

\* Records stay those of agents, each naming a run of its agent.
LEMMA HeardType ==
  ASSUME TypeOK, NEW r \in Runs
  PROVE  /\ DOMAIN Heard(r) = DOMAIN records \cup {AgentOf[r]}
         /\ \A a \in DOMAIN Heard(r) :
              /\ a \in Agents
              /\ Heard(r)[a] \in Record /\ AgentOf[Heard(r)[a].run] = a
              /\ Heard(r)[a].run = IF a = AgentOf[r] THEN r ELSE records[a].run
<1>1. AgentOf[r] \in Agents
  BY DEF Agents
<1> QED BY <1>1 DEF TypeOK, Heard, Record

LEMMA ForgetType ==
  ASSUME NEW a
  PROVE  /\ DOMAIN Forget(a) = DOMAIN records \ {a}
         /\ \A b \in DOMAIN Forget(a) : Forget(a)[b] = records[b]
BY DEF Forget

LEMMA InitIInv == Init => IInv
<1> SUFFICES ASSUME Init PROVE IInv
  OBVIOUS
<1>1. TypeOK
  BY MonitorAssumption DEF Init, TypeOK
<1> QED BY <1>1 DEF Init, IInv, QueueIsCurrent, SignsBeforeEnd, ReportedIsOver,
                    RecordsNameOpenRuns, SweptHaveBegun

-----------------------------------------------------------------------------
\* Every step keeps the types.
LEMMA TypeStep == TypeOK /\ [Next]_vars => TypeOK'
<1> SUFFICES ASSUME TypeOK, [Next]_vars PROVE TypeOK'
  OBVIOUS
<1> USE MonitorAssumption
<1>1. ASSUME NEW r \in Runs, Start(r) PROVE TypeOK'
  BY <1>1, EmitType DEF TypeOK, FaultsTyped, Start
<1>2. ASSUME NEW r \in Runs, Beat(r) PROVE TypeOK'
  <2>1. beats' \in [Runs -> Nat] /\ \A s \in Runs : beats'[s] <= MaxBeats[s]
    BY <1>2 DEF TypeOK, Beat
  <2> QED BY <1>2, <2>1, EmitType DEF TypeOK, FaultsTyped, Beat
<1>3. ASSUME NEW r \in Runs, EndWork(r) PROVE TypeOK'
  BY <1>3 DEF TypeOK, EndWork
<1>4. ASSUME NEW r \in Runs, ReportBlocked(r) PROVE TypeOK'
  BY <1>4, EmitType DEF TypeOK, FaultsTyped, ReportBlocked
<1>5. ASSUME NEW r \in Runs, ReportCompleted(r) PROVE TypeOK'
  BY <1>5, EmitType DEF TypeOK, FaultsTyped, ReportCompleted
<1>6. ASSUME TakeUpdate PROVE TypeOK'
  <2>1. Head(updates) \in Update /\ Head(updates).run \in Runs /\ updates' \in Seq(Update)
    BY <1>6, QueueType, UpdateFields DEF TakeUpdate
  <2>2. CASE Head(updates).type \in Signs
    <3>1. records' = Heard(Head(updates).run)
      BY <1>6, <2>2 DEF TakeUpdate, Signs
    <3>2. /\ DOMAIN records' \subseteq Agents
          /\ \A a \in DOMAIN records' : records'[a] \in Record /\ AgentOf[records'[a].run] = a
      BY <2>1, <3>1, HeardType
    <3> QED BY <1>6, <2>1, <2>2, <3>2 DEF TypeOK, TakeUpdate, Signs
  <2>3. CASE Head(updates).type \notin Signs
    <3>1. records' = Forget(AgentOf[Head(updates).run])
      BY <1>6, <2>3 DEF TakeUpdate, Signs
    <3>2. DOMAIN records' \subseteq DOMAIN records
          /\ \A a \in DOMAIN records' : records'[a] = records[a]
      BY <3>1, ForgetType
    <3> QED BY <1>6, <2>1, <2>3, <3>2 DEF TypeOK, TakeUpdate, Signs
  <2> QED BY <2>2, <2>3
<1>7. ASSUME ApplyUpdate PROVE TypeOK'
  <2>1. handling \in Update
    BY <1>7 DEF TypeOK, ApplyUpdate
  <2>2. state' \in [Runs -> {"IN_PROGRESS", "NEEDS_REVIEW", "BLOCKED"}]
    BY <1>7, <2>1, UpdateFields DEF TypeOK, ApplyUpdate
  <2>3. FaultsTyped'
    <3>1. FaultsTyped
      BY DEF TypeOK, FaultsTyped
    <3>2. faults' = faults \/ Fault("store")
      BY <1>7 DEF ApplyUpdate
    <3> QED BY <3>1, <3>2, FaultType DEF FaultsTyped
  <2> QED BY <1>7, <2>2, <2>3 DEF TypeOK, FaultsTyped, ApplyUpdate
<1>8. ASSUME NEW a \in Agents, Silence(a) PROVE TypeOK'
  <2>1. a \in DOMAIN records /\ records' = [records EXCEPT ![a] = [@ EXCEPT !.silent = TRUE]]
    BY <1>8 DEF Silence
  <2> DEFINE heard == [records[a] EXCEPT !.silent = TRUE]
  <2>2. records[a] \in Record /\ AgentOf[records[a].run] = a
    BY <2>1 DEF TypeOK
  <2>3. heard \in Record /\ heard.run = records[a].run
    BY <2>2 DEF Record
  <2>4. records' = [records EXCEPT ![a] = heard]
    BY <2>1
  <2> HIDE DEF heard
  <2>5. DOMAIN records' = DOMAIN records
        /\ \A b \in DOMAIN records' : records'[b] = IF b = a THEN heard ELSE records[b]
    BY <2>4
  <2>6. /\ DOMAIN records' \subseteq Agents
        /\ \A b \in DOMAIN records' : records'[b] \in Record /\ AgentOf[records'[b].run] = b
    BY <2>2, <2>3, <2>5 DEF TypeOK
  <2> QED BY <1>8, <2>6 DEF TypeOK, Silence
<1>9. ASSUME Check PROVE TypeOK'
  BY <1>9 DEF TypeOK, Check, Record
<1>10. ASSUME NEW r \in Runs, Escalate(r) PROVE TypeOK'
  BY <1>10, PublishType DEF TypeOK, FaultsTyped, Escalate
<1>11. ASSUME Drop PROVE TypeOK'
  <2>1. DOMAIN records' \subseteq DOMAIN records
        /\ \A a \in DOMAIN records' : records'[a] = records[a]
    BY <1>11, ForgetType DEF Drop
  <2> QED BY <1>11, <2>1 DEF TypeOK, Drop
<1>12. ASSUME Crash PROVE TypeOK'
  <2>1. FaultsTyped'
    BY <1>12, FaultType DEF TypeOK, FaultsTyped, Crash
  <2> QED BY <1>12, <2>1 DEF TypeOK, FaultsTyped, Crash
<1>13. CASE UNCHANGED vars
  BY <1>13 DEF TypeOK, vars
<1>14. ASSUME LoopFails PROVE TypeOK'
  <2>1. FaultsTyped'
    BY <1>14, FaultType DEF TypeOK, FaultsTyped, LoopFails
  <2>2. listening' \in BOOLEAN
    BY <1>14 DEF LoopFails
  <2>3. UNCHANGED <<runner, beats, updates, handling, records, sweep, escalating, state, reported>>
    BY <1>14, Zenon DEF LoopFails
  <2> QED BY <2>1, <2>2, <2>3, Zenon DEF TypeOK, FaultsTyped
<1> QED BY <1>1, <1>2, <1>3, <1>4, <1>5, <1>6, <1>7, <1>8, <1>9, <1>10, <1>11, <1>12, <1>13,
           <1>14
        DEF Next, RunStep, MonitorStep

-----------------------------------------------------------------------------
\* A step of run r by which it may send one update keeps the rest of the
\* invariant, if r has begun, is over when it sends its completion, and sends no
\* sign of life once it is over.
LEMMA PublishKeeps ==
  ASSUME IInv, NEW type \in {"started", "heartbeat", "blocked", "completed"},
         NEW r \in Runs, NEW status \in {"COMPLETED", "FAILED", "none"}, NEW fault,
         Publish(type, r, status, fault),
         \A s \in Runs : s # r => runner'[s] = runner[s],
         runner[r] = "over" => runner'[r] = "over",
         runner'[r] # "queued",
         type = "completed" => runner'[r] = "over",
         type \in Signs => runner[r] # "over",
         UNCHANGED <<records, reported>>
  PROVE  QueueIsCurrent' /\ SignsBeforeEnd' /\ ReportedIsOver' /\ RecordsNameOpenRuns'
<1> USE DEF IInv
<1>1. \A i \in 1..Len(updates) : updates[i] \in Update /\ updates[i].run \in Runs
  BY QueueType, UpdateFields
<1>2. reported \subseteq Runs /\ \A a \in DOMAIN records : records[a].run \in Runs
  BY DEF TypeOK, Record
<1>3. /\ Len(updates) \in Nat
      /\ \/ updates' = updates
         \/ /\ Len(updates') = Len(updates) + 1
            /\ updates'[Len(updates) + 1].type = type
            /\ updates'[Len(updates) + 1].run = r
            /\ \A i \in 1..Len(updates) : updates'[i] = updates[i]
  <2>1. TypeOK
    OBVIOUS
  <2>2. \/ updates' = updates
        \/ /\ Len(updates') = Len(updates) + 1
           /\ updates'[Len(updates) + 1] = [type |-> type, run |-> r, status |-> status]
           /\ \A i \in 1..Len(updates) : updates'[i] = updates[i]
    BY <2>1, PublishType
  <2> QED BY <2>1, <2>2, QueueType
<1>4. ReportedIsOver' /\ RecordsNameOpenRuns'
  BY <1>2 DEF ReportedIsOver, RecordsNameOpenRuns
<1>5. QueueIsCurrent'
  <2> SUFFICES ASSUME NEW i \in 1..Len(updates')
               PROVE  /\ runner'[updates'[i].run] # "queued"
                      /\ updates'[i].type \in Signs => updates'[i].run \notin reported'
                      /\ updates'[i].type = "completed" => runner'[updates'[i].run] = "over"
    BY DEF QueueIsCurrent
  <2>1. CASE i \in 1..Len(updates) /\ updates'[i] = updates[i]
    BY <1>1, <2>1 DEF QueueIsCurrent
  <2>2. CASE updates'[i].type = type /\ updates'[i].run = r
    BY <2>2 DEF ReportedIsOver
  <2> QED BY <1>3, <2>1, <2>2
<1>6. SignsBeforeEnd'
  <2> SUFFICES ASSUME NEW i \in 1..Len(updates'), NEW k \in 1..Len(updates'), i < k,
                      updates'[i].run = updates'[k].run, updates'[k].type \in Signs
               PROVE  updates'[i].type # "completed"
    BY DEF SignsBeforeEnd
  <2>1. i \in 1..Len(updates) /\ updates'[i] = updates[i]
    BY <1>3
  <2>2. CASE k \in 1..Len(updates) /\ updates'[k] = updates[k]
    BY <2>1, <2>2 DEF SignsBeforeEnd
  <2>3. CASE updates'[k].type = type /\ updates'[k].run = r
    BY <2>1, <2>3 DEF QueueIsCurrent
  <2> QED BY <1>3, <2>2, <2>3
<1> QED BY <1>4, <1>5, <1>6

\* Taking an update off the queue keeps the invariant: behind a completion there is
\* no sign of life of its run, and the record of its agent goes.
LEMMA TakeKeeps ==
  ASSUME IInv, TakeUpdate
  PROVE  QueueIsCurrent' /\ SignsBeforeEnd' /\ ReportedIsOver' /\ RecordsNameOpenRuns'
<1> DEFINE u == Head(updates)
<1> USE DEF IInv
<1>1. /\ u \in Update /\ u.run \in Runs /\ u = updates[1] /\ 1 \in 1..Len(updates)
      /\ Len(updates) \in Nat
      /\ Len(updates') = Len(updates) - 1
      /\ \A i \in 1..Len(updates') : i + 1 \in 1..Len(updates) /\ updates'[i] = updates[i + 1]
  BY QueueType, UpdateFields DEF TakeUpdate
<1>2. UNCHANGED runner
  BY DEF TakeUpdate
<1>3. reported' = IF u.type = "completed" THEN reported \cup {u.run} ELSE reported
  BY DEF TakeUpdate
<1>4. ReportedIsOver'
  BY <1>1, <1>2, <1>3 DEF ReportedIsOver, QueueIsCurrent
<1>5. QueueIsCurrent'
  <2> SUFFICES ASSUME NEW i \in 1..Len(updates')
               PROVE  /\ runner'[updates'[i].run] # "queued"
                      /\ updates'[i].type \in Signs => updates'[i].run \notin reported'
                      /\ updates'[i].type = "completed" => runner'[updates'[i].run] = "over"
    BY DEF QueueIsCurrent
  <2>1. i + 1 \in 1..Len(updates) /\ updates'[i] = updates[i + 1] /\ 1 < i + 1
    BY <1>1
  <2>2. u.type = "completed" /\ updates'[i].type \in Signs => updates'[i].run # u.run
    BY <1>1, <2>1 DEF SignsBeforeEnd
  <2> QED BY <1>2, <1>3, <2>1, <2>2 DEF QueueIsCurrent
<1>6. SignsBeforeEnd'
  <2> SUFFICES ASSUME NEW i \in 1..Len(updates'), NEW k \in 1..Len(updates'), i < k,
                      updates'[i].run = updates'[k].run, updates'[k].type \in Signs
               PROVE  updates'[i].type # "completed"
    BY DEF SignsBeforeEnd
  <2>1. /\ i + 1 \in 1..Len(updates) /\ updates'[i] = updates[i + 1]
        /\ k + 1 \in 1..Len(updates) /\ updates'[k] = updates[k + 1]
        /\ i + 1 < k + 1
    BY <1>1
  <2> QED BY <2>1 DEF SignsBeforeEnd
<1>7. RecordsNameOpenRuns'
  <2>1. CASE u.type \in Signs
    <3>1. records' = Heard(u.run) /\ reported' = reported
      BY <2>1, <1>3 DEF TakeUpdate, Signs
    <3>2. runner[u.run] # "queued" /\ u.run \notin reported
      BY <1>1, <2>1 DEF QueueIsCurrent
    <3>3. \A a \in DOMAIN records' :
            a \in DOMAIN records' /\ records'[a].run = IF a = AgentOf[u.run] THEN u.run
                                                      ELSE records[a].run
      BY <1>1, <3>1, HeardType
    <3>4. DOMAIN records' = DOMAIN records \cup {AgentOf[u.run]}
      BY <3>1 DEF Heard
    <3> QED BY <1>2, <3>1, <3>2, <3>3, <3>4 DEF RecordsNameOpenRuns
  <2>2. CASE u.type \notin Signs
    <3>1. records' = Forget(AgentOf[u.run])
      BY <2>2 DEF TakeUpdate, Signs
    <3>2. \A a \in DOMAIN records' : /\ a \in DOMAIN records /\ records'[a] = records[a]
                                     /\ a # AgentOf[u.run]
      BY <3>1, ForgetType
    <3>3. \A a \in DOMAIN records : AgentOf[records[a].run] = a
      BY DEF TypeOK
    <3> QED BY <1>2, <1>3, <3>2, <3>3 DEF RecordsNameOpenRuns
  <2> QED BY <2>1, <2>2
<1> QED BY <1>4, <1>5, <1>6, <1>7

\* Every step keeps the invariant.
LEMMA StepIInv == IInv /\ [Next]_vars => IInv'
<1> SUFFICES ASSUME IInv, [Next]_vars
             PROVE  /\ QueueIsCurrent' /\ SignsBeforeEnd' /\ ReportedIsOver'
                    /\ RecordsNameOpenRuns' /\ SweptHaveBegun'
  BY TypeStep DEF IInv
<1> DEFINE Rest == QueueIsCurrent /\ SignsBeforeEnd /\ ReportedIsOver /\ RecordsNameOpenRuns
<1>0. /\ reported \subseteq Runs /\ runner \in [Runs -> {"queued", "running", "succeeded",
                                                       "failed", "blocked", "over"}]
      /\ \A i \in 1..Len(updates) : updates[i].run \in Runs
      /\ \A a \in DOMAIN records : records[a].run \in Runs
  <2>1. \A i \in 1..Len(updates) : updates[i].run \in Runs
    BY QueueType, UpdateFields DEF IInv
  <2> QED BY <2>1 DEF IInv, TypeOK, Record
<1>1. ASSUME NEW r \in Runs, Start(r) PROVE Rest'
  BY <1>0, <1>1, PublishKeeps DEF Start, Emit
<1>2. ASSUME NEW r \in Runs, Beat(r) PROVE Rest'
  BY <1>0, <1>2, PublishKeeps DEF Beat, Emit
<1>3. ASSUME NEW r \in Runs, EndWork(r) PROVE Rest'
  BY <1>0, <1>3 DEF EndWork, IInv, QueueIsCurrent, SignsBeforeEnd, ReportedIsOver,
                    RecordsNameOpenRuns
<1>4. ASSUME NEW r \in Runs, ReportBlocked(r) PROVE Rest'
  BY <1>0, <1>4, PublishKeeps DEF ReportBlocked, Emit, Signs
<1>5. ASSUME NEW r \in Runs, ReportCompleted(r) PROVE Rest'
  <2>1. Emit("completed", r, IF runner[r] = "succeeded" THEN "COMPLETED" ELSE "FAILED")
    BY <1>5 DEF ReportCompleted
  <2>2. (IF runner[r] = "succeeded" THEN "COMPLETED" ELSE "FAILED")
          \in {"COMPLETED", "FAILED", "none"}
    OBVIOUS
  <2> QED BY <1>0, <1>5, <2>1, <2>2, PublishKeeps DEF ReportCompleted, Emit, Signs
<1>6. ASSUME TakeUpdate PROVE Rest'
  BY <1>6, TakeKeeps
<1>7. ASSUME ApplyUpdate PROVE Rest'
  BY <1>7 DEF ApplyUpdate, IInv, QueueIsCurrent, SignsBeforeEnd, ReportedIsOver,
              RecordsNameOpenRuns
<1>8. ASSUME NEW a \in Agents, Silence(a) PROVE Rest'
  <2>1. \A b \in DOMAIN records' : b \in DOMAIN records /\ records'[b].run = records[b].run
    BY <1>8 DEF Silence, IInv, TypeOK, Record
  <2> QED BY <1>8, <2>1 DEF Silence, IInv, QueueIsCurrent, SignsBeforeEnd, ReportedIsOver,
                            RecordsNameOpenRuns
<1>9. ASSUME Check PROVE Rest'
  BY <1>9 DEF Check, IInv, QueueIsCurrent, SignsBeforeEnd, ReportedIsOver, RecordsNameOpenRuns
<1>10. ASSUME NEW r \in Runs, Escalate(r) PROVE Rest'
  <2>1. runner[r] # "queued"
    BY <1>10 DEF Escalate, IInv, SweptHaveBegun
  <2> QED BY <1>10, <2>1, PublishKeeps DEF Escalate, Signs
<1>11. ASSUME Drop PROVE Rest'
  <2>1. UNCHANGED <<runner, updates, reported>> /\ records' = Forget(AgentOf[escalating])
    BY <1>11 DEF Drop
  <2>2. \A a \in DOMAIN records' : a \in DOMAIN records /\ records'[a] = records[a]
    BY <2>1, ForgetType
  <2>3. QueueIsCurrent' /\ SignsBeforeEnd' /\ ReportedIsOver'
    BY <2>1 DEF IInv, QueueIsCurrent, SignsBeforeEnd, ReportedIsOver
  <2>4. RecordsNameOpenRuns'
    BY <2>1, <2>2 DEF IInv, RecordsNameOpenRuns
  <2> QED BY <2>3, <2>4
<1>12. ASSUME Crash PROVE Rest'
  BY <1>0, <1>12 DEF Crash, IInv, QueueIsCurrent, SignsBeforeEnd, ReportedIsOver,
                     RecordsNameOpenRuns
<1>13. ASSUME UNCHANGED vars PROVE Rest'
  <2>1. QueueIsCurrent' /\ SignsBeforeEnd'
    BY <1>13 DEF vars, IInv, QueueIsCurrent, SignsBeforeEnd
  <2>2. ReportedIsOver' /\ RecordsNameOpenRuns'
    BY <1>13 DEF vars, IInv, ReportedIsOver, RecordsNameOpenRuns
  <2> QED BY <2>1, <2>2
<1>14. ASSUME LoopFails PROVE Rest'
  <2>1. UNCHANGED <<runner, updates, records, reported>>
    BY <1>14 DEF LoopFails
  <2> QED BY <2>1 DEF IInv, QueueIsCurrent, SignsBeforeEnd, ReportedIsOver, RecordsNameOpenRuns
<1>15. SweptHaveBegun'
  <2>1. \A r \in Runs : runner[r] # "queued" => runner'[r] # "queued"
    BY <1>0 DEF Next, RunStep, MonitorStep, Start, Beat, EndWork, ReportBlocked,
                ReportCompleted, TakeUpdate, ApplyUpdate, Silence, Check, Escalate, Drop, Crash,
                LoopFails, vars
  <2>2. sweep' \subseteq Runs
    BY TypeStep DEF IInv, TypeOK
  <2>3. CASE Check
    BY <1>0, <2>1, <2>3 DEF Check, IInv, RecordsNameOpenRuns, SweptHaveBegun
  <2>4. CASE ~Check
    <3>1. sweep' \subseteq sweep
      BY <2>4 DEF Next, RunStep, MonitorStep, Start, Beat, EndWork, ReportBlocked,
                  ReportCompleted, TakeUpdate, ApplyUpdate, Silence, Escalate, Drop, Crash,
                  LoopFails, vars
    <3> QED BY <2>1, <2>2, <3>1 DEF IInv, SweptHaveBegun
  <2> QED BY <2>3, <2>4
<1> QED BY <1>1, <1>2, <1>3, <1>4, <1>5, <1>6, <1>7, <1>8, <1>9, <1>10, <1>11, <1>12, <1>13,
           <1>14, <1>15
        DEF Next, RunStep, MonitorStep

-----------------------------------------------------------------------------
\* The inductive invariant of the runs, the consumer and the monitor.
THEOREM MonitorInvariant == Spec => []IInv
<1>1. Init => IInv
  BY InitIInv
<1>2. IInv /\ [Next]_vars => IInv'
  BY StepIInv
<1> QED BY <1>1, <1>2, PTL DEF Spec

\* Every reachable state is type-correct: queues, records and tasks, whatever fails.
THEOREM TypeCorrect == Spec => []TypeOK
<1>1. IInv => TypeOK
  BY DEF IInv
<1> QED BY <1>1, MonitorInvariant, PTL

\* A record is always one of an agent with a run under way or unreported: no late
\* heartbeat and no escalation resurrects it.
THEOREM RecordsAreOfOpenRuns == Spec => []RecordsOfOpenRuns
<1>1. IInv => RecordsOfOpenRuns
  BY DEF IInv, TypeOK, Record, RecordsNameOpenRuns, RecordsOfOpenRuns
<1> QED BY <1>1, MonitorInvariant, PTL

-----------------------------------------------------------------------------
(* No run is given up in silence *)

\* Agents run one job at a time.
OwnAgents == \A r, q \in Runs : AgentOf[r] = AgentOf[q] => r = q

Losses == {"report", "escalation", "store", "crash"}

Lost == Happened(Losses)

Sent(r, types) == \E i \in 1..Len(updates) : updates[i].run = r /\ updates[i].type \in types

AllTypes == {"started", "heartbeat", "blocked", "completed"}

\* The consumer has an update of r in hand, or has blocked its task.
Noticed(r) == (handling # None /\ handling.run = r) \/ state[r] = "BLOCKED"

\* Only a run that is over reports a success.
SuccessIsOver ==
  /\ \A i \in 1..Len(updates) : updates[i].status = "COMPLETED" => updates[i].type = "completed"
  /\ handling # None /\ handling.status = "COMPLETED" => runner[handling.run] = "over"

Tracked ==
  \A r \in Runs : runner[r] = "running" =>
    AgentOf[r] \in DOMAIN records \/ Sent(r, AllTypes) \/ Noticed(r)

\* The run whose record is about to be dropped has been reported as blocked.
DroppedIsBlocked ==
  escalating # None =>
    /\ runner[escalating] # "queued"
    /\ runner[escalating] = "running" => Sent(escalating, {"blocked"}) \/ Noticed(escalating)

WatchInv == Lost \/ (SuccessIsOver /\ Tracked /\ DroppedIsBlocked)

\* What has failed stays in the set of faults.
LEMMA LostStays ==
  ASSUME TypeOK, [Next]_vars, Lost
  PROVE  Lost'
<1>1. FaultsTyped
  BY DEF TypeOK, FaultsTyped
<1>2. faults' = faults \/ \E kind \in FaultKinds : Fault(kind)
  BY DEF Next, RunStep, MonitorStep, Start, Beat, EndWork, ReportBlocked, ReportCompleted, Emit,
         Publish, TakeUpdate, ApplyUpdate, LoopFails, Silence, Check, Escalate, Drop, Crash, vars,
         FaultKinds
<1>3. ASSUME NEW kind \in FaultKinds, Fault(kind) PROVE faults.kinds \subseteq faults'.kinds
  BY <1>1, <1>3, FaultType
<1> QED BY <1>2, <1>3 DEF Lost, Happened

\* A fault of these kinds is recorded.
LEMMA FaultIsLost ==
  ASSUME TypeOK, NEW kind \in Losses, Fault(kind)
  PROVE  Lost'
<1>1. kind \in faults'.kinds
  BY FaultType DEF TypeOK, FaultsTyped
<1> QED BY <1>1 DEF Lost, Happened

\* A run that publishes an update is heard of, and nobody else is forgotten.
LEMMA PublishWatches ==
  ASSUME IInv, SuccessIsOver, Tracked, ~Lost',
         NEW type \in AllTypes, NEW r \in Runs,
         NEW status \in {"COMPLETED", "FAILED", "none"}, NEW fault \in Losses,
         Publish(type, r, status, fault),
         status = "COMPLETED" => type = "completed",
         \A s \in Runs : s # r => runner'[s] = runner[s],
         runner[r] = "over" => runner'[r] = "over",
         UNCHANGED <<records, handling, state>>
  PROVE  /\ SuccessIsOver' /\ Tracked'
         /\ \A s, T : Sent(s, T) => Sent(s, T)'
         /\ Sent(r, {type})'
<1>1. TypeOK
  BY DEF IInv
<1>2. ~Fault(fault)
  BY <1>1, FaultIsLost
<1>3. /\ Len(updates) \in Nat /\ Len(updates') = Len(updates) + 1
      /\ updates'[Len(updates) + 1] = [type |-> type, run |-> r, status |-> status]
      /\ \A i \in 1..Len(updates) : updates'[i] = updates[i]
  <2>1. updates \in Seq(Update) /\ updates' = Append(updates, [type |-> type, run |-> r, status |-> status])
    BY <1>1, <1>2 DEF TypeOK, Publish
  <2> QED BY <2>1
<1>4. \A i \in 1..Len(updates') : i \in 1..Len(updates) \/ i = Len(updates) + 1
  BY <1>3
<1>5. \A i \in 1..Len(updates) : i \in 1..Len(updates')
  BY <1>3
<1>6. \A s, T : Sent(s, T) => Sent(s, T)'
  BY <1>3, <1>5 DEF Sent
<1>7. /\ updates'[Len(updates) + 1].run = r /\ updates'[Len(updates) + 1].type = type
      /\ updates'[Len(updates) + 1].status = status
      /\ Len(updates) + 1 \in 1..Len(updates')
  BY <1>3
<1>8. Sent(r, {type})' /\ Sent(r, AllTypes)'
  BY <1>7 DEF Sent
<1>9. SuccessIsOver'
  <2>1. \A i \in 1..Len(updates') :
          updates'[i].status = "COMPLETED" => updates'[i].type = "completed"
    BY <1>3, <1>4, <1>7 DEF SuccessIsOver
  <2>2. handling # None => handling.run \in Runs
    BY <1>1, UpdateFields DEF TypeOK
  <2> QED BY <2>1, <2>2 DEF SuccessIsOver
<1>10. Tracked'
  <2> SUFFICES ASSUME NEW s \in Runs, runner'[s] = "running"
               PROVE  AgentOf[s] \in DOMAIN records' \/ Sent(s, AllTypes)' \/ Noticed(s)'
    BY DEF Tracked
  <2>1. CASE s = r
    BY <1>8, <2>1
  <2>2. CASE s # r
    BY <1>6, <2>2 DEF Tracked, Noticed
  <2> QED BY <2>1, <2>2
<1> QED BY <1>6, <1>8, <1>9, <1>10

\* A sign of life renews the record of its run's agent; of any other update the
\* consumer has the run in hand until its task is blocked.
LEMMA TakeWatches ==
  ASSUME OwnAgents, IInv, SuccessIsOver, Tracked, DroppedIsBlocked, TakeUpdate
  PROVE  SuccessIsOver' /\ Tracked' /\ DroppedIsBlocked'
<1> DEFINE u == Head(updates)
<1>1. TypeOK
  BY DEF IInv
<1>2. /\ u \in Update /\ u.run \in Runs /\ u.type \in AllTypes /\ u = updates[1]
      /\ 1 \in 1..Len(updates)
      /\ Len(updates) \in Nat /\ Len(updates') = Len(updates) - 1
      /\ \A i \in 1..Len(updates') : i + 1 \in 1..Len(updates) /\ updates'[i] = updates[i + 1]
  BY <1>1, QueueType, UpdateFields DEF TakeUpdate, AllTypes
<1>3. \A s, T : Sent(s, T) => Sent(s, T)' \/ (u.run = s /\ u.type \in T)
  <2> SUFFICES ASSUME NEW s, NEW T, NEW i \in 1..Len(updates), updates[i].run = s,
                      updates[i].type \in T, i # 1
               PROVE  Sent(s, T)'
    BY <1>2 DEF Sent
  <2>1. i - 1 \in 1..Len(updates') /\ (i - 1) + 1 = i
    BY <1>2
  <2>2. updates'[i - 1] = updates[i]
    BY <1>2, <2>1
  <2> QED BY <2>1, <2>2 DEF Sent
<1>4. handling = None /\ UNCHANGED <<runner, state, escalating>>
  BY DEF TakeUpdate
<1>5. /\ u.type \in Signs => records' = Heard(u.run) /\ handling' = handling
      /\ u.type \notin Signs => records' = Forget(AgentOf[u.run]) /\ handling' = u
  BY DEF TakeUpdate, Signs
<1>6. ASSUME NEW s \in Runs, u.type \notin Signs, u.run = s
      PROVE  Noticed(s)'
  <2>1. u # None
    BY <1>2, NoneAssumption
  <2> QED BY <1>5, <1>6, <2>1 DEF Noticed
<1>7. \A s \in Runs : Noticed(s) => Noticed(s)'
  BY <1>4 DEF Noticed
<1>8. SuccessIsOver'
  <2>1. u.status = "COMPLETED" => runner[u.run] = "over" /\ u.type = "completed"
    BY <1>2 DEF SuccessIsOver, IInv, QueueIsCurrent
  <2>2. \A i \in 1..Len(updates') :
          updates'[i].status = "COMPLETED" => updates'[i].type = "completed"
    BY <1>2 DEF SuccessIsOver
  <2> QED BY <1>4, <1>5, <2>1, <2>2 DEF SuccessIsOver
<1>9. Tracked'
  <2> SUFFICES ASSUME NEW s \in Runs, runner[s] = "running", ~Noticed(s)', ~Sent(s, AllTypes)'
               PROVE  AgentOf[s] \in DOMAIN records'
    BY <1>4 DEF Tracked
  <2>1. AgentOf[s] \in DOMAIN records \/ u.run = s
    BY <1>3, <1>7 DEF Tracked
  <2>2. CASE u.type \in Signs
    <3>1. DOMAIN records' = DOMAIN records \cup {AgentOf[u.run]}
      BY <1>1, <1>2, <1>5, <2>2, HeardType
    <3> QED BY <2>1, <3>1
  <2>3. CASE u.type \notin Signs
    <3>1. u.run # s
      BY <1>6, <2>3
    <3>2. AgentOf[u.run] # AgentOf[s]
      BY <1>2, <3>1 DEF OwnAgents
    <3> QED BY <1>5, <2>1, <2>3, <3>1, <3>2, ForgetType
  <2> QED BY <2>2, <2>3
<1>10. DroppedIsBlocked'
  <2> SUFFICES ASSUME NEW e \in Runs, e = escalating, runner[e] = "running"
               PROVE  Sent(e, {"blocked"})' \/ Noticed(e)'
    <3>1. escalating # None => escalating \in Runs /\ runner[escalating] # "queued"
      BY <1>1 DEF TypeOK, DroppedIsBlocked
    <3> QED BY <1>4, <3>1 DEF DroppedIsBlocked
  <2>1. Sent(e, {"blocked"}) \/ Noticed(e)
    BY MonitorAssumption DEF DroppedIsBlocked
  <2>2. CASE Noticed(e)
    BY <1>7, <2>2
  <2>3. CASE Sent(e, {"blocked"})
    <3>1. Sent(e, {"blocked"})' \/ (u.run = e /\ u.type \in {"blocked"})
      BY <1>3, <2>3
    <3> QED BY <1>6, <3>1 DEF Signs
  <2> QED BY <2>1, <2>2, <2>3
<1> QED BY <1>8, <1>9, <1>10

\* Every step keeps every run watched.
LEMMA StepWatch == OwnAgents /\ IInv /\ WatchInv /\ [Next]_vars => WatchInv'
<1> SUFFICES ASSUME OwnAgents, IInv, WatchInv, [Next]_vars, ~Lost'
             PROVE  SuccessIsOver' /\ Tracked' /\ DroppedIsBlocked'
  BY DEF WatchInv
<1> DEFINE Rest == SuccessIsOver /\ Tracked /\ DroppedIsBlocked
<1>0. /\ TypeOK /\ SuccessIsOver /\ Tracked /\ DroppedIsBlocked
      /\ escalating \in Runs \cup {None} /\ None \notin Runs
      /\ handling # None => handling.run \in Runs
      /\ runner \in [Runs -> {"queued", "running", "succeeded", "failed", "blocked", "over"}]
      /\ state \in [Runs -> {"IN_PROGRESS", "NEEDS_REVIEW", "BLOCKED"}]
  BY LostStays, UpdateFields, MonitorAssumption DEF IInv, WatchInv, TypeOK
<1>1. ASSUME NEW r \in Runs, Start(r) PROVE Rest'
  <2>1. Publish("started", r, "none", "report") /\ runner[r] = "queued"
        /\ UNCHANGED <<records, handling, state, escalating>>
        /\ \A s \in Runs : s # r => runner'[s] = runner[s]
    BY <1>0, <1>1 DEF Start, Emit
  <2>2. /\ SuccessIsOver' /\ Tracked' /\ \A s, T : Sent(s, T) => Sent(s, T)'
    BY <1>0, <2>1, PublishWatches DEF AllTypes, Losses
  <2>3. escalating # r
    BY <1>0, <2>1 DEF DroppedIsBlocked
  <2>4. DroppedIsBlocked'
    BY <1>0, <2>1, <2>2, <2>3 DEF DroppedIsBlocked, Noticed
  <2> QED BY <2>2, <2>4
<1>2. ASSUME NEW r \in Runs, Beat(r) PROVE Rest'
  <2>1. Publish("heartbeat", r, "none", "report")
        /\ UNCHANGED <<runner, records, handling, state, escalating>>
    BY <1>2 DEF Beat, Emit
  <2>2. /\ SuccessIsOver' /\ Tracked' /\ \A s, T : Sent(s, T) => Sent(s, T)'
    BY <1>0, <2>1, PublishWatches DEF AllTypes, Losses
  <2>3. DroppedIsBlocked'
    BY <1>0, <2>1, <2>2 DEF DroppedIsBlocked, Noticed
  <2> QED BY <2>2, <2>3
<1>3. ASSUME NEW r \in Runs, EndWork(r) PROVE Rest'
  <2>1. UNCHANGED <<updates, handling, records, escalating, state>>
        /\ runner[r] = "running" /\ runner'[r] \in {"succeeded", "failed"}
        /\ \A s \in Runs : s # r => runner'[s] = runner[s]
    BY <1>0, <1>3 DEF EndWork
  <2>2. \A s, T : Sent(s, T) => Sent(s, T)'
    BY <2>1 DEF Sent
  <2>3. SuccessIsOver'
    BY <1>0, <2>1 DEF SuccessIsOver
  <2>4. Tracked'
    BY <1>0, <2>1, <2>2 DEF Tracked, Noticed
  <2>5. DroppedIsBlocked'
    BY <1>0, <2>1, <2>2 DEF DroppedIsBlocked, Noticed
  <2> QED BY <2>3, <2>4, <2>5
<1>4. ASSUME NEW r \in Runs, ReportBlocked(r) PROVE Rest'
  <2>1. Publish("blocked", r, "none", "report") /\ UNCHANGED <<records, handling, state, escalating>>
        /\ runner[r] = "failed" /\ runner'[r] = "blocked"
        /\ \A s \in Runs : s # r => runner'[s] = runner[s]
    BY <1>0, <1>4 DEF ReportBlocked, Emit
  <2>2. /\ SuccessIsOver' /\ Tracked' /\ \A s, T : Sent(s, T) => Sent(s, T)'
    BY <1>0, <2>1, PublishWatches DEF AllTypes, Losses
  <2>3. DroppedIsBlocked'
    BY <1>0, <2>1, <2>2 DEF DroppedIsBlocked, Noticed
  <2> QED BY <2>2, <2>3
<1>5. ASSUME NEW r \in Runs, ReportCompleted(r) PROVE Rest'
  <2> DEFINE status == IF runner[r] = "succeeded" THEN "COMPLETED" ELSE "FAILED"
  <2>1. Publish("completed", r, status, "report") /\ UNCHANGED <<records, handling, state, escalating>>
        /\ runner[r] # "queued" /\ runner'[r] = "over"
        /\ \A s \in Runs : s # r => runner'[s] = runner[s]
    BY <1>0, <1>5 DEF ReportCompleted, Emit
  <2>2. status \in {"COMPLETED", "FAILED", "none"}
    OBVIOUS
  <2> HIDE DEF status
  <2>3. /\ SuccessIsOver' /\ Tracked' /\ \A s, T : Sent(s, T) => Sent(s, T)'
    BY <1>0, <2>1, <2>2, PublishWatches DEF AllTypes, Losses
  <2>4. DroppedIsBlocked'
    BY <1>0, <2>1, <2>3 DEF DroppedIsBlocked, Noticed
  <2> QED BY <2>3, <2>4
<1>6. ASSUME TakeUpdate PROVE Rest'
  BY <1>0, <1>6, TakeWatches
<1>7. ASSUME ApplyUpdate PROVE Rest'
  <2>1. /\ handling # None /\ handling' = None
        /\ UNCHANGED <<runner, updates, records, escalating>>
        /\ state' = [state EXCEPT ![handling.run] =
                       IF handling.status = "COMPLETED" THEN "NEEDS_REVIEW" ELSE "BLOCKED"]
    BY <1>0, <1>7, FaultIsLost DEF ApplyUpdate, Losses
  <2>2. \A s \in Runs : runner[s] = "running" /\ Noticed(s) => Noticed(s)'
    <3>1. runner[handling.run] = "running" => state'[handling.run] = "BLOCKED"
      BY <1>0, <2>1 DEF SuccessIsOver
    <3>2. \A s \in Runs : s # handling.run => state'[s] = state[s]
      BY <1>0, <2>1
    <3> QED BY <3>1, <3>2 DEF Noticed
  <2>3. \A s, T : Sent(s, T) => Sent(s, T)'
    BY <2>1 DEF Sent
  <2>4. SuccessIsOver'
    BY <1>0, <2>1 DEF SuccessIsOver
  <2>5. Tracked'
    BY <1>0, <2>1, <2>2, <2>3 DEF Tracked
  <2>6. DroppedIsBlocked'
    BY <1>0, <2>1, <2>2, <2>3 DEF DroppedIsBlocked
  <2> QED BY <2>4, <2>5, <2>6
<1>8. ASSUME UNCHANGED <<runner, updates, handling, escalating, state>>,
             DOMAIN records' = DOMAIN records
      PROVE  Rest'
  <2>1. \A s, T : (Sent(s, T) <=> Sent(s, T)') /\ (Noticed(s) <=> Noticed(s)')
    BY <1>8 DEF Sent, Noticed
  <2> QED BY <1>0, <1>8, <2>1 DEF SuccessIsOver, Tracked, DroppedIsBlocked
<1>9. ASSUME NEW a \in Agents, Silence(a) PROVE Rest'
  <2>1. UNCHANGED <<runner, updates, handling, escalating, state>>
        /\ DOMAIN records' = DOMAIN records
    BY <1>9 DEF Silence
  <2> QED BY <1>8, <2>1
<1>10. ASSUME Check PROVE Rest'
  BY <1>8, <1>10 DEF Check
<1>11. ASSUME NEW r \in Runs, Escalate(r) PROVE Rest'
  <2>1. Publish("blocked", r, "none", "escalation") /\ UNCHANGED <<runner, records, handling, state>>
        /\ escalating' = r /\ r \in sweep
    BY <1>11 DEF Escalate
  <2>2. SuccessIsOver' /\ Tracked' /\ Sent(r, {"blocked"})'
    BY <1>0, <2>1, PublishWatches DEF AllTypes, Losses
  <2>3. runner[r] # "queued"
    BY <2>1 DEF IInv, SweptHaveBegun
  <2> QED BY <2>1, <2>2, <2>3 DEF DroppedIsBlocked
<1>12. ASSUME Drop PROVE Rest'
  <2>1. escalating \in Runs /\ records' = Forget(AgentOf[escalating]) /\ escalating' = None
        /\ UNCHANGED <<runner, updates, handling, state>>
    BY <1>0, <1>12 DEF Drop
  <2>2. \A s, T : (Sent(s, T) <=> Sent(s, T)') /\ (Noticed(s) <=> Noticed(s)')
    BY <2>1 DEF Sent, Noticed
  <2>3. SuccessIsOver' /\ DroppedIsBlocked'
    BY <1>0, <2>1 DEF SuccessIsOver, DroppedIsBlocked
  <2>4. Sent(escalating, {"blocked"}) => Sent(escalating, AllTypes)
    BY DEF Sent, AllTypes
  <2>5. ASSUME NEW s \in Runs, runner[s] = "running"
        PROVE  AgentOf[s] \in DOMAIN records' \/ Sent(s, AllTypes) \/ Noticed(s)
    <3>1. CASE s = escalating
      <4>1. escalating # None /\ runner[escalating] = "running"
        BY <1>12, <2>5, <3>1 DEF Drop
      <4>2. Sent(escalating, {"blocked"}) \/ Noticed(escalating)
        BY <1>0, <4>1 DEF DroppedIsBlocked
      <4> QED BY <2>4, <3>1, <4>2
    <3>2. CASE s # escalating
      <4>1. AgentOf[s] # AgentOf[escalating]
        BY <2>1, <3>2 DEF OwnAgents
      <4>2. DOMAIN records' = DOMAIN records \ {AgentOf[escalating]}
        BY <2>1, ForgetType
      <4>3. AgentOf[s] \in DOMAIN records \/ Sent(s, AllTypes) \/ Noticed(s)
        BY <1>0, <2>5 DEF Tracked
      <4> QED BY <4>1, <4>2, <4>3
    <3> QED BY <3>1, <3>2
  <2>6. Tracked'
    BY <2>1, <2>2, <2>5 DEF Tracked
  <2> QED BY <2>3, <2>6
<1>13. ASSUME Crash PROVE FALSE
  BY <1>0, <1>13, FaultIsLost DEF Crash, Losses
<1>14. ASSUME LoopFails PROVE Rest'
  <2>1. UNCHANGED <<runner, updates, handling, escalating, state, records>>
    BY <1>14 DEF LoopFails
  <2> QED BY <1>8, <2>1
<1>15. CASE UNCHANGED vars
  BY <1>8, <1>15 DEF vars
<1> QED BY <1>1, <1>2, <1>3, <1>4, <1>5, <1>6, <1>7, <1>9, <1>10, <1>11, <1>12, <1>13, <1>14,
           <1>15
        DEF Next, RunStep, MonitorStep

\* When agents run one job at a time, a run under way has a record with the health
\* monitor, or its update is on its way, or its task is blocked: whatever the order
\* of reports, timeouts and sweeps.
THEOREM RunsAreWatched == OwnAgents /\ Spec => []RunningIsWatched
<1>1. Init => WatchInv
  <2> SUFFICES ASSUME Init PROVE SuccessIsOver /\ Tracked /\ DroppedIsBlocked
    BY DEF WatchInv
  <2> QED BY DEF Init, SuccessIsOver, Tracked, DroppedIsBlocked
<1>2. OwnAgents /\ IInv /\ WatchInv /\ [Next]_vars => WatchInv'
  BY StepWatch
<1>3. IInv /\ WatchInv => RunningIsWatched
  <2> SUFFICES ASSUME IInv, WatchInv PROVE RunningIsWatched
    OBVIOUS
  <2>1. DOMAIN updates = 1..Len(updates)
    BY DEF IInv, TypeOK
  <2> QED BY <2>1 DEF WatchInv, Lost, Losses, Tracked, Sent, Noticed, RunningIsWatched
<1>4. CASE OwnAgents
  <2>1. Spec => []WatchInv
    BY <1>1, <1>2, <1>4, MonitorInvariant, PTL DEF Spec
  <2> QED BY <1>3, <2>1, MonitorInvariant, PTL
<1> QED BY <1>4
=============================================================================
