------------------------- MODULE SubAgentPool_proofs -------------------------
(***************************************************************************)
(* Proofs about SubAgentPool.  For any turns, plans and batch ids (equal    *)
(* ones included), slots and faults, the pool never loses a slot and never  *)
(* gives one back twice.  For plans of one tier, however turns overlap, no  *)
(* refused call is run and no delegation is run twice.                      *)
(***************************************************************************)
EXTENDS SubAgentPool, FiniteSetTheorems, TLAPS

Messages == JobEvent \cup Delegation

Held == RunsAt({"spawned", "running"})
Working == RunsAt({"running"})

\* While a turn is handled the orchestrator has a session.
SessionKnown ==
  \A t \in Turns : turn[t] \in {"asking", "planning", "delegating"} => current \in Turns

\* A batch has finitely many jobs to publish.
TiersAreFinite == \A b \in DOMAIN batches : IsFiniteSet(batches[b].next)

\* A runner that publishes has something left to publish.
OutboxFilled == \A r \in DOMAIN runs : runs[r].pc = "publishing" => runs[r].outbox # <<>>

IInv == TypeOK /\ SlotsAccounted /\ SessionKnown /\ TiersAreFinite /\ OutboxFilled

-----------------------------------------------------------------------------
\* Runner ids are the numbers up to the number of runs: finitely many.
LEMMA RunsAreFinite ==
  ASSUME runs \in Seq(Run), NEW pcs
  PROVE  IsFiniteSet(RunsAt(pcs)) /\ Cardinality(RunsAt(pcs)) \in Nat
<1>1. IsFiniteSet(1..Len(runs))
  BY FS_Interval
<1>2. RunsAt(pcs) \in SUBSET (1..Len(runs))
  BY DEF RunsAt
<1>3. IsFiniteSet(RunsAt(pcs))
  BY <1>1, <1>2, FS_Subset
<1> QED BY <1>3, FS_CardinalityType

\* What counts is which runs hold a slot and which of them work.
LEMMA CountsKeep ==
  ASSUME SlotsAccounted, Held' = Held, Working' = Working, UNCHANGED <<permits, activeCount>>
  PROVE  SlotsAccounted'
BY DEF SlotsAccounted, Held, Working

\* The job and the batch of a planned call.
LEMMA PlannedBatch ==
  ASSUME NEW t \in Turns, NEW j \in JobsIn(t)
  PROVE  j \in AllJobs /\ BatchId(t, TierOf(t, j) - 1) \in BatchIds
<1>1. j \in AllJobs
  BY DEF AllJobs, JobsIn
<1>2. Tiers[t] \in Seq(SUBSET AllJobs) /\ Len(Tiers[t]) <= Cardinality(AllJobs)
  BY PoolAssumption
<1>3. \E i \in DOMAIN Tiers[t] : j \in Tiers[t][i]
  BY PoolAssumption
<1>4. TierOf(t, j) \in DOMAIN Tiers[t]
  BY <1>3 DEF TierOf
<1>5. Cardinality(AllJobs) \in Nat
  BY PoolAssumption, FS_CardinalityType
<1>6. TierOf(t, j) - 1 \in 0..Cardinality(AllJobs)
  BY <1>2, <1>4, <1>5
<1> QED BY <1>1, <1>6 DEF BatchIds

\* The jobs of a tier, as events, are finitely many.
LEMMA TierEventsType ==
  ASSUME NEW t \in Turns, NEW i \in DOMAIN Tiers[t]
  PROVE  /\ BatchId(t, i - 1) \in BatchIds
         /\ TierEvents(t, i) \subseteq JobEvent /\ IsFiniteSet(TierEvents(t, i))
<1>1. Tiers[t] \in Seq(SUBSET AllJobs) /\ Len(Tiers[t]) <= Cardinality(AllJobs)
  BY PoolAssumption
<1>2. Cardinality(AllJobs) \in Nat
  BY PoolAssumption, FS_CardinalityType
<1>3. i - 1 \in 0..Cardinality(AllJobs) /\ Tiers[t][i] \in SUBSET AllJobs
  BY <1>1, <1>2
<1>4. BatchId(t, i - 1) \in BatchIds
  BY <1>3 DEF BatchIds
<1>5. TierEvents(t, i) \subseteq JobEvent
  BY <1>3, <1>4 DEF TierEvents, JobEvent
<1>6. IsFiniteSet(Tiers[t][i])
  BY <1>3, FS_Subset, PoolAssumption
<1> DEFINE event == [j \in Tiers[t][i] |-> [job |-> j, session |-> t, batch |-> BatchId(t, i - 1)]]
<1>7. event \in Surjection(Tiers[t][i], TierEvents(t, i))
  BY DEF Surjection, TierEvents
<1>8. IsFiniteSet(TierEvents(t, i))
  BY <1>6, <1>7, FS_Surjection
<1> QED BY <1>4, <1>5, <1>8

\* A plan makes well-formed batches.
LEMMA PlannedType ==
  ASSUME NEW t \in Turns, NEW b \in DOMAIN Planned(t)
  PROVE  b \in BatchIds /\ Planned(t)[b] \in Batch /\ IsFiniteSet(Planned(t)[b].next)
<1>1. PICK k \in DOMAIN Tiers[t] : b = BatchId(t, k - 1)
  BY DEF Planned
<1>2. Tiers[t] \in Seq(SUBSET AllJobs)
  BY PoolAssumption
<1>3. k \in 1..Len(Tiers[t]) /\ b[2] + 1 = k
  BY <1>1, <1>2 DEF BatchId
<1>4. b \in BatchIds
  BY <1>1, TierEventsType
<1>5. Cardinality(Tiers[t][k]) \in Nat
  <2>1. Tiers[t][k] \in SUBSET AllJobs
    BY <1>2, <1>3
  <2> QED BY <2>1, PoolAssumption, FS_Subset, FS_CardinalityType
<1> DEFINE next == IF k = Len(Tiers[t]) THEN {} ELSE TierEvents(t, k + 1)
<1>6. next \subseteq JobEvent /\ IsFiniteSet(next)
  <2>1. CASE k = Len(Tiers[t])
    BY <2>1, FS_EmptySet
  <2>2. CASE k # Len(Tiers[t])
    <3>1. k + 1 \in DOMAIN Tiers[t]
      BY <1>2, <1>3, <2>2
    <3> QED BY <2>2, <3>1, TierEventsType
  <2> QED BY <2>1, <2>2
<1>7. Planned(t)[b] = [total |-> Cardinality(Tiers[t][k]), done |-> 0, session |-> t,
                       final |-> k = Len(Tiers[t]), next |-> next]
  BY <1>3 DEF Planned
<1> HIDE DEF next
<1> QED BY <1>4, <1>5, <1>6, <1>7 DEF Batch

\* What the end of a job publishes is a sequence of messages.
LEMMA ToPublishType ==
  ASSUME TypeOK, TiersAreFinite, NEW b \in DOMAIN batches, NEW out \in ToPublish(b)
  PROVE  out \in Seq(Messages)
<1>1. batches[b] \in Batch /\ b \in BatchIds
  BY DEF TypeOK
<1>2. batches[b].next \subseteq JobEvent /\ batches[b].session \in Turns
  BY <1>1 DEF Batch
<1>3. CASE out = <<>>
  BY <1>3
<1>4. CASE out = <<[type |-> "DELEGATION_COMPLETE", session_id |-> batches[b].session,
                    final_batch_id |-> b]>>
  BY <1>1, <1>2, <1>4 DEF Delegation, Messages
<1>5. CASE out \in Orders(batches[b].next)
  <2>1. Cardinality(batches[b].next) \in Nat
    BY FS_CardinalityType DEF TiersAreFinite
  <2>2. out \in [1..Cardinality(batches[b].next) -> JobEvent]
    BY <1>2, <1>5 DEF Orders
  <2> QED BY <2>1, <2>2 DEF Messages
<1> QED BY <1>3, <1>4, <1>5 DEF ToPublish

\* A job's event is no trigger event.
LEMMA MessageKinds ==
  /\ \A m \in JobEvent : "type" \notin DOMAIN m
  /\ \A m \in Delegation : "type" \in DOMAIN m
BY DEF JobEvent, Delegation

LEMMA InitIInv == Init => IInv
<1> SUFFICES ASSUME Init PROVE IInv
  OBVIOUS
<1>1. TypeOK
  BY PoolAssumption DEF Init, TypeOK, NoDelegations
<1>2. SlotsAccounted
  <2>1. RunsAt({"spawned", "running"}) = {} /\ RunsAt({"running"}) = {}
    BY DEF Init, RunsAt
  <2>2. Cardinality({}) = 0
    BY FS_EmptySet
  <2>3. permits = MaxSize /\ activeCount = 0 /\ MaxSize \in Nat
    BY PoolAssumption DEF Init
  <2>4. MaxSize + 0 = MaxSize
    BY <2>3
  <2> QED BY <2>1, <2>2, <2>3, <2>4, Zenon DEF SlotsAccounted
<1> QED BY <1>1, <1>2 DEF Init, IInv, SessionKnown, TiersAreFinite, OutboxFilled

-----------------------------------------------------------------------------
(* The orchestrator's steps leave the pool alone but for its queue and batches.  *)

LEMMA TurnKeeps ==
  ASSUME IInv, NEW t \in Turns, TurnStep(t)
  PROVE  IInv'
<1> USE DEF IInv
<1>0. SlotsAccounted' /\ OutboxFilled'
  <2>1. UNCHANGED <<runs, permits, activeCount>>
    BY DEF TurnStep, Begin, Plan, Register, Delegate, PublishJob, EndTurn, pool
  <2> QED BY <2>1 DEF SlotsAccounted, RunsAt, OutboxFilled
<1>1. CASE Begin(t)
  BY <1>0, <1>1 DEF Begin, TypeOK, SessionKnown, TiersAreFinite, pool
<1>2. CASE Plan(t)
  BY <1>0, <1>2 DEF Plan, TypeOK, SessionKnown, TiersAreFinite, pool, NoDelegations
<1>3. CASE Register(t)
  <2>1. \A b \in DOMAIN batches' : /\ b \in BatchIds /\ batches'[b] \in Batch
                                  /\ IsFiniteSet(batches'[b].next)
    <3> SUFFICES ASSUME NEW b \in DOMAIN batches'
                 PROVE  /\ b \in BatchIds /\ batches'[b] \in Batch
                        /\ IsFiniteSet(batches'[b].next)
      OBVIOUS
    <3>1. CASE b \in DOMAIN Planned(t)
      BY <1>3, <3>1, PlannedType DEF Register
    <3>2. CASE b \notin DOMAIN Planned(t)
      BY <1>3, <3>2 DEF Register, TypeOK, TiersAreFinite
    <3> QED BY <3>1, <3>2
  <2>2. /\ DOMAIN delegations' \subseteq AllJobs
        /\ \A j \in DOMAIN delegations' : delegations'[j] \in BatchIds
    BY <1>3, PlannedBatch DEF Register
  <2>3. TypeOK'
    BY <1>3, <2>1, <2>2 DEF Register, TypeOK
  <2>4. SessionKnown' /\ TiersAreFinite'
    BY <1>3, <2>1 DEF Register, TypeOK, SessionKnown, TiersAreFinite
  <2> QED BY <1>0, <2>3, <2>4
<1>4. CASE Delegate(t)
  <2> DEFINE j == Head(calls[t])
             e == [job |-> j, session |-> current,
                   batch |-> IF j \in DOMAIN delegations THEN delegations[j]
                             ELSE BatchId(current, 0)]
  <2>1. j \in AllJobs /\ Tail(calls[t]) \in Seq(AllJobs)
    BY <1>4 DEF Delegate, TypeOK
  <2>2. current \in Turns
    BY <1>4 DEF Delegate, SessionKnown
  <2>3. Cardinality(AllJobs) \in Nat
    BY PoolAssumption, FS_CardinalityType
  <2>4. BatchId(current, 0) \in BatchIds
    BY <2>2, <2>3 DEF BatchIds
  <2>5. e \in JobEvent
    BY <2>1, <2>2, <2>4 DEF JobEvent, TypeOK
  <2>6. holding' \in [Turns -> JobEvent \cup {NoJob}]
    <3>1. holding' = [holding EXCEPT ![t] = IF j \in Refused THEN NoJob ELSE e]
      BY <1>4 DEF Delegate
    <3> HIDE DEF e, j
    <3> QED BY <2>5, <3>1 DEF TypeOK
  <2>7. calls' \in [Turns -> Seq(AllJobs)]
    BY <1>4, <2>1 DEF Delegate, TypeOK
  <2>8. UNCHANGED <<turn, current, delegations, jobs, triggers, batches, popped, permits,
                    activeCount, runs, announced, reengaged, alive, faults>>
    BY <1>4 DEF Delegate, pool
  <2> QED BY <1>0, <2>6, <2>7, <2>8 DEF TypeOK, SessionKnown, TiersAreFinite
<1>5. CASE PublishJob(t)
  <2>1. holding[t] \in JobEvent
    BY <1>5 DEF PublishJob, TypeOK
  <2>2. jobs' \in Seq(JobEvent)
    <3>1. jobs \in Seq(JobEvent)
      BY DEF TypeOK
    <3>2. jobs' \in {jobs, Append(jobs, holding[t])}
      BY <1>5 DEF PublishJob
    <3> QED BY <2>1, <3>1, <3>2
  <2>5. faults' \in 0..MaxFaults
    <3>1. faults \in 0..MaxFaults
      BY DEF TypeOK
    <3>2. faults' = faults \/ (faults < MaxFaults /\ faults' = faults + 1)
      BY <1>5 DEF PublishJob
    <3> QED BY <3>1, <3>2, PoolAssumption
  <2>3. holding' \in [Turns -> JobEvent \cup {NoJob}]
    BY <1>5 DEF PublishJob, TypeOK
  <2>4. UNCHANGED <<turn, calls, current, delegations, triggers, batches, popped, permits,
                    activeCount, runs, announced, reengaged, alive>>
    BY <1>5 DEF PublishJob, pool
  <2> QED BY <1>0, <2>2, <2>3, <2>4, <2>5 DEF TypeOK, SessionKnown, TiersAreFinite
<1>6. CASE EndTurn(t)
  BY <1>0, <1>6 DEF EndTurn, TypeOK, SessionKnown, TiersAreFinite, pool, NoDelegations
<1> QED BY <1>1, <1>2, <1>3, <1>4, <1>5, <1>6 DEF TurnStep

-----------------------------------------------------------------------------
(* The pool's steps move a job from spawned to running and then out.             *)

\* Only the record of run r changes: who holds a slot and who works, afterwards.
LEMMA RunChanges ==
  ASSUME runs \in Seq(Run), OutboxFilled, NEW r \in DOMAIN runs, NEW x \in Run,
         x.pc = "publishing" => x.outbox # <<>>,
         runs' = [runs EXCEPT ![r] = x]
  PROVE  /\ runs' \in Seq(Run) /\ OutboxFilled'
         /\ Held' = IF x.pc \in {"spawned", "running"} THEN Held \cup {r} ELSE Held \ {r}
         /\ Working' = IF x.pc = "running" THEN Working \cup {r} ELSE Working \ {r}
<1>1. runs' \in Seq(Run)
  OBVIOUS
<1>2. DOMAIN runs' = DOMAIN runs /\ \A q \in DOMAIN runs : runs'[q] = IF q = r THEN x ELSE runs[q]
  OBVIOUS
<1>3. Held' = IF x.pc \in {"spawned", "running"} THEN Held \cup {r} ELSE Held \ {r}
  BY <1>2 DEF Held, RunsAt
<1>4. Working' = IF x.pc = "running" THEN Working \cup {r} ELSE Working \ {r}
  BY <1>2 DEF Working, RunsAt
<1>5. OutboxFilled'
  BY <1>2 DEF OutboxFilled
<1> QED BY <1>1, <1>3, <1>4, <1>5

\* Those who hold a slot are finitely many, and those who work are among them.
LEMMA SlotSets ==
  ASSUME runs \in Seq(Run)
  PROVE  /\ IsFiniteSet(Held) /\ Cardinality(Held) \in Nat
         /\ IsFiniteSet(Working) /\ Cardinality(Working) \in Nat
         /\ Working \subseteq Held /\ Cardinality(Working) <= Cardinality(Held)
<1>1. /\ IsFiniteSet(Held) /\ Cardinality(Held) \in Nat
      /\ IsFiniteSet(Working) /\ Cardinality(Working) \in Nat
  BY RunsAreFinite DEF Held, Working
<1>2. Working \subseteq Held
  BY DEF Held, Working, RunsAt
<1> QED BY <1>1, <1>2, FS_Subset

LEMMA SpawnKeeps == IInv /\ Spawn => IInv'
<1> SUFFICES ASSUME IInv, Spawn PROVE IInv'
  OBVIOUS
<1> USE DEF IInv
<1> DEFINE x == [event |-> popped, pc |-> "spawned", outbox |-> <<>>]
           n == Len(runs) + 1
<1>1. runs \in Seq(Run) /\ popped \in JobEvent /\ permits \in 0..MaxSize /\ permits > 0
  BY DEF Spawn, TypeOK
<1>2. x \in Run /\ x.pc = "spawned"
  BY <1>1 DEF Run
<1>3. runs' = Append(runs, x)
  BY DEF Spawn
<1> HIDE DEF x
<1>4. /\ runs' \in Seq(Run) /\ DOMAIN runs' = DOMAIN runs \cup {n} /\ n \notin DOMAIN runs
      /\ runs'[n] = x /\ \A q \in DOMAIN runs : runs'[q] = runs[q]
  BY <1>1, <1>2, <1>3
<1>5. Held' = Held \cup {n} /\ n \notin Held /\ Working' = Working
  BY <1>2, <1>4 DEF Held, Working, RunsAt
<1>6. IsFiniteSet(Held) /\ Cardinality(Held) \in Nat
  BY <1>1, SlotSets
<1>7. Cardinality(Held') = Cardinality(Held) + 1
  BY <1>5, <1>6, FS_AddElement
<1>8. SlotsAccounted'
  <2>1. permits' = permits - 1 /\ activeCount' = activeCount
    BY DEF Spawn
  <2> QED BY <1>1, <1>5, <1>6, <1>7, <2>1 DEF SlotsAccounted, Held, Working
<1>9. TypeOK'
  BY <1>1, <1>4, PoolAssumption DEF Spawn, TypeOK, orchestrator
<1>10. OutboxFilled'
  BY <1>2, <1>4 DEF OutboxFilled
<1> QED BY <1>8, <1>9, <1>10 DEF Spawn, SessionKnown, TiersAreFinite, orchestrator

LEMMA StartRunKeeps ==
  ASSUME IInv, NEW r \in DOMAIN runs, StartRun(r)
  PROVE  IInv'
<1> USE DEF IInv
<1> DEFINE x == [runs[r] EXCEPT !.pc = "running"]
<1>1. runs \in Seq(Run) /\ runs[r] \in Run /\ runs[r].pc = "spawned"
  BY DEF StartRun, TypeOK
<1>2. x \in Run /\ x.pc = "running"
  BY <1>1 DEF Run
<1>3. runs' = [runs EXCEPT ![r] = x]
  BY <1>1 DEF StartRun
<1> HIDE DEF x
<1>4. /\ runs' \in Seq(Run) /\ OutboxFilled'
      /\ Held' = Held \cup {r} /\ Working' = Working \cup {r}
  BY <1>1, <1>2, <1>3, RunChanges
<1>5. r \in Held /\ r \notin Working
  BY <1>1 DEF Held, Working, RunsAt
<1>6. /\ IsFiniteSet(Held) /\ Cardinality(Held) \in Nat
      /\ IsFiniteSet(Working) /\ Cardinality(Working) \in Nat
  BY <1>1, SlotSets
<1>7. Held' = Held /\ Cardinality(Working') = Cardinality(Working) + 1
  <2>1. Cardinality(Working \cup {r}) = Cardinality(Working) + 1
    BY <1>5, <1>6, FS_AddElement
  <2> QED BY <1>4, <1>5, <2>1
<1>8. UNCHANGED permits /\ activeCount' = activeCount + 1
  BY DEF StartRun
<1>9. SlotsAccounted'
  BY <1>6, <1>7, <1>8 DEF SlotsAccounted, Held, Working
<1>10. activeCount' \in 0..MaxSize
  <2>1. Working' \subseteq Held /\ IsFiniteSet(Held)
    BY <1>1, <1>4, <1>5, SlotSets
  <2>2. Cardinality(Working') <= Cardinality(Held)
    BY <2>1, FS_Subset
  <2>3. /\ permits + Cardinality(Held) = MaxSize /\ activeCount = Cardinality(Working)
        /\ permits \in Nat /\ MaxSize \in Nat
    BY PoolAssumption DEF SlotsAccounted, Held, Working, TypeOK
  <2> QED BY <1>6, <1>7, <1>8, <2>2, <2>3
<1>11. TypeOK'
  BY <1>4, <1>10 DEF StartRun, TypeOK, orchestrator
<1> QED BY <1>4, <1>9, <1>11 DEF StartRun, SessionKnown, TiersAreFinite, orchestrator

LEMMA FinishRunKeeps ==
  ASSUME IInv, NEW r \in DOMAIN runs, FinishRun(r)
  PROVE  IInv'
<1> USE DEF IInv
<1> DEFINE b == runs[r].event.batch
<1>1. runs \in Seq(Run) /\ runs[r] \in Run /\ runs[r].pc = "running"
  <2>1. runs \in Seq(Run)
    BY DEF TypeOK
  <2>2. runs[r] \in Run
    BY <2>1
  <2>3. runs[r].pc = "running"
    BY DEF FinishRun
  <2> QED BY <2>1, <2>2, <2>3
<1>2. PICK x \in Run : /\ x.pc \in {"publishing", "ended"}
                       /\ x.pc = "publishing" => x.outbox # <<>>
                       /\ runs' = [runs EXCEPT ![r] = x]
  <2>1. CASE b \in DOMAIN batches
    <3>1. PICK out \in ToPublish(b) :
            runs' = [runs EXCEPT ![r].outbox = out,
                                 ![r].pc = IF out = <<>> THEN "ended" ELSE "publishing"]
      BY <2>1 DEF FinishRun
    <3>2. out \in Seq(Messages)
      BY <2>1, ToPublishType
    <3> DEFINE x == [runs[r] EXCEPT !.outbox = out,
                                    !.pc = IF out = <<>> THEN "ended" ELSE "publishing"]
    <3>3. /\ x \in Run /\ x.pc \in {"publishing", "ended"}
          /\ x.pc = "publishing" => x.outbox # <<>>
      BY <1>1, <3>2 DEF Run, Messages
    <3>4. runs' = [runs EXCEPT ![r] = x]
      BY <1>1, <3>1
    <3> QED BY <3>3, <3>4
  <2>2. CASE b \notin DOMAIN batches
    <3> DEFINE x == [runs[r] EXCEPT !.pc = "ended"]
    <3>1. x \in Run /\ x.pc = "ended"
      BY <1>1 DEF Run
    <3>2. runs' = [runs EXCEPT ![r] = x]
      BY <1>1, <2>2 DEF FinishRun
    <3> QED BY <3>1, <3>2
  <2> QED BY <2>1, <2>2
<1>3. /\ runs' \in Seq(Run) /\ OutboxFilled'
      /\ Held' = Held \ {r} /\ Working' = Working \ {r}
  BY <1>1, <1>2, RunChanges
<1>4. r \in Held /\ r \in Working
  BY <1>1 DEF Held, Working, RunsAt
<1>5. /\ IsFiniteSet(Held) /\ Cardinality(Held) \in Nat
      /\ IsFiniteSet(Working) /\ Cardinality(Working) \in Nat
  BY <1>1, SlotSets
<1>6. Cardinality(Held') = Cardinality(Held) - 1 /\ Cardinality(Held \ {r}) \in Nat
  BY <1>3, <1>4, <1>5, FS_RemoveElement, FS_CardinalityType
<1>7. Cardinality(Working') = Cardinality(Working) - 1 /\ Cardinality(Working \ {r}) \in Nat
  BY <1>3, <1>4, <1>5, FS_RemoveElement, FS_CardinalityType
<1>8. activeCount > 0 /\ permits \in 0..MaxSize /\ activeCount \in 0..MaxSize
  <2>1. permits \in 0..MaxSize /\ activeCount \in 0..MaxSize
    BY DEF TypeOK
  <2>2. activeCount = Cardinality(Working) /\ Cardinality(Working) - 1 \in Nat
    BY <1>3, <1>7 DEF SlotsAccounted, Working
  <2> QED BY <1>5, <2>1, <2>2
<1>9. permits' = permits + 1 /\ activeCount' = activeCount - 1
  BY <1>8 DEF FinishRun
<1>10. SlotsAccounted'
  <2>1. permits' + Cardinality(Held') = MaxSize
    BY <1>5, <1>6, <1>8, <1>9, PoolAssumption DEF SlotsAccounted, Held
  <2>2. activeCount' = Cardinality(Working')
    BY <1>5, <1>7, <1>8, <1>9 DEF SlotsAccounted, Working
  <2> QED BY <2>1, <2>2 DEF SlotsAccounted, Held, Working
<1>11. permits' \in 0..MaxSize /\ activeCount' \in 0..MaxSize
  <2>1. permits' + Cardinality(Held') = MaxSize /\ Cardinality(Held') \in Nat
    BY <1>3, <1>6, <1>10 DEF SlotsAccounted, Held
  <2> QED BY <1>8, <1>9, <2>1, PoolAssumption
<1>12. \A c \in DOMAIN batches' : /\ c \in BatchIds /\ batches'[c] \in Batch
                                 /\ IsFiniteSet(batches'[c].next)
  <2>1. \A c \in DOMAIN batches : /\ c \in BatchIds /\ batches[c] \in Batch
                                 /\ IsFiniteSet(batches[c].next)
    BY DEF TypeOK, TiersAreFinite
  <2>2. CASE batches' = [batches EXCEPT ![b].done = @ + 1]
    <3>1. \A c \in DOMAIN batches :
            LET y == [batches[c] EXCEPT !.done = @ + 1]
            IN  y \in Batch /\ y.next = batches[c].next
      BY <2>1 DEF Batch
    <3>2. \A c \in DOMAIN batches' : /\ c \in DOMAIN batches
                                    /\ batches'[c] \in {batches[c],
                                                        [batches[c] EXCEPT !.done = @ + 1]}
      BY <2>2
    <3> QED BY <2>1, <3>1, <3>2
  <2>3. CASE UNCHANGED batches
    BY <2>1, <2>3
  <2> QED BY <2>2, <2>3 DEF FinishRun
<1>13. UNCHANGED <<turn, calls, holding, current, delegations, jobs, triggers, popped,
                   announced, reengaged, alive, faults>>
  BY DEF FinishRun, orchestrator
<1>14. TypeOK'
  BY <1>3, <1>11, <1>12, <1>13 DEF TypeOK
<1> QED BY <1>3, <1>10, <1>12, <1>13, <1>14 DEF SessionKnown, TiersAreFinite

LEMMA PublishNextKeeps ==
  ASSUME IInv, NEW r \in DOMAIN runs, PublishNext(r)
  PROVE  IInv'
<1> USE DEF IInv
<1> DEFINE rest == Tail(runs[r].outbox)
           m == Head(runs[r].outbox)
           x == [runs[r] EXCEPT !.outbox = rest, !.pc = IF rest = <<>> THEN "ended" ELSE @]
<1>1. /\ runs \in Seq(Run) /\ runs[r] \in Run /\ runs[r].pc = "publishing"
      /\ runs[r].outbox \in Seq(Messages) /\ runs[r].outbox # <<>>
  <2>1. runs \in Seq(Run)
    BY DEF TypeOK
  <2>2. runs[r] \in Run
    BY <2>1
  <2>3. runs[r].pc = "publishing"
    BY DEF PublishNext
  <2> QED BY <2>1, <2>2, <2>3 DEF Run, Messages, OutboxFilled
<1>2. /\ x \in Run /\ x.pc \in {"publishing", "ended"}
      /\ x.pc = "publishing" => x.outbox # <<>>
  <2>1. rest \in Seq(Messages)
    BY <1>1
  <2> HIDE DEF rest
  <2> QED BY <1>1, <2>1 DEF Run, Messages
<1>3. runs' = [runs EXCEPT ![r] = x]
  BY <1>1 DEF PublishNext
<1> HIDE DEF x, m
<1>4. /\ runs' \in Seq(Run) /\ OutboxFilled'
      /\ Held' = Held \ {r} /\ Working' = Working \ {r}
  BY <1>1, <1>2, <1>3, RunChanges
<1>5. Held' = Held /\ Working' = Working
  BY <1>1, <1>4 DEF Held, Working, RunsAt
<1>6. UNCHANGED <<permits, activeCount>>
  BY DEF PublishNext
<1>7. SlotsAccounted'
  BY <1>5, <1>6, CountsKeep
<1>8. jobs' \in Seq(JobEvent) /\ triggers' \in Seq(Delegation) /\ announced' \in [Turns -> Nat]
  <2>1. jobs \in Seq(JobEvent) /\ triggers \in Seq(Delegation) /\ announced \in [Turns -> Nat]
    BY DEF TypeOK
  <2>2. CASE Deliver(m)
    <3>1. CASE m \in JobEvent
      <4>1. jobs' = Append(jobs, m) /\ UNCHANGED <<triggers, announced>>
        BY <2>2, <3>1, MessageKinds DEF Deliver
      <4> QED BY <2>1, <3>1, <4>1
    <3>2. CASE m \in Delegation
      <4>1. triggers' = Append(triggers, m) /\ UNCHANGED jobs
        BY <2>2, <3>2, MessageKinds DEF Deliver
      <4>2. m.session_id \in Turns /\ announced' = [announced EXCEPT ![m.session_id] = @ + 1]
        BY <2>2, <3>2, MessageKinds DEF Deliver, Delegation
      <4>3. announced' \in [Turns -> Nat]
        BY <2>1, <4>2
      <4> QED BY <2>1, <3>2, <4>1, <4>3
    <3>3. m \in Messages
      BY <1>1 DEF m
    <3> QED BY <3>1, <3>2, <3>3 DEF Messages
  <2>3. CASE UNCHANGED <<jobs, triggers, announced>>
    BY <2>1, <2>3
  <2> QED BY <2>2, <2>3 DEF PublishNext, m
<1>9. faults' \in 0..MaxFaults
  <2>1. faults \in 0..MaxFaults /\ MaxFaults \in Nat
    BY PoolAssumption DEF TypeOK
  <2>2. faults' = faults \/ (faults < MaxFaults /\ faults' = faults + 1)
    BY DEF PublishNext
  <2> QED BY <2>1, <2>2
<1>10. TypeOK'
  BY <1>4, <1>8, <1>9 DEF PublishNext, TypeOK, orchestrator
<1> QED BY <1>4, <1>7, <1>10 DEF PublishNext, SessionKnown, TiersAreFinite, orchestrator

\* The process stops: every run that holds a slot is gone, and every slot is free.
LEMMA CrashKeeps == IInv /\ Crash => IInv'
<1> SUFFICES ASSUME IInv, Crash PROVE IInv'
  OBVIOUS
<1> USE DEF IInv
<1> DEFINE Stopped(r) == [runs[r] EXCEPT !.outbox = <<>>,
                             !.pc = IF @ \in {"publishing", "ended"} THEN "ended"
                                    ELSE "killed"]
<1>1. runs \in Seq(Run) /\ \A r \in DOMAIN runs : runs[r] \in Run
  <2>1. runs \in Seq(Run)
    BY DEF TypeOK
  <2> QED BY <2>1
<1>2. ASSUME NEW r \in DOMAIN runs
      PROVE  Stopped(r) \in Run /\ Stopped(r).pc \in {"ended", "killed"}
  <2>1. <<>> \in Seq(JobEvent \cup Delegation)
    OBVIOUS
  <2> QED BY <1>1, <2>1 DEF Run
<1>3. runs' \in Seq(Run) /\ \A r \in DOMAIN runs' : runs'[r].pc \in {"ended", "killed"}
  <2>1. runs' = [r \in DOMAIN runs |-> Stopped(r)]
    BY Zenon DEF Crash
  <2> HIDE DEF Stopped
  <2>2. DOMAIN runs = 1..Len(runs) /\ Len(runs) \in Nat
    BY <1>1
  <2>3. runs' \in [1..Len(runs) -> Run]
    BY <1>2, <2>1, <2>2
  <2>4. \A r \in DOMAIN runs' : runs'[r].pc \in {"ended", "killed"}
    BY <1>2, <2>1
  <2> QED BY <2>2, <2>3, <2>4
<1>4. SlotsAccounted'
  <2>1. RunsAt({"spawned", "running"})' = {} /\ RunsAt({"running"})' = {}
    BY <1>3 DEF RunsAt
  <2>2. Cardinality({}) = 0
    BY FS_EmptySet
  <2>3. permits' = MaxSize /\ activeCount' = 0 /\ MaxSize + 0 = MaxSize
    <3>1. permits' = MaxSize /\ activeCount' = 0
      BY Zenon DEF Crash
    <3> QED BY <3>1, PoolAssumption
  <2> QED BY <2>1, <2>2, <2>3, Zenon DEF SlotsAccounted
<1>5. /\ turn' = [t \in Turns |-> IF turn[t] = "waiting" THEN "waiting" ELSE "done"]
      /\ calls' = [t \in Turns |-> IF turn[t] = "waiting" THEN calls[t] ELSE <<>>]
      /\ holding' = [t \in Turns |-> NoJob] /\ current' = NoTurn
      /\ delegations' = NoDelegations /\ batches' = [b \in {} |-> NoTurn]
      /\ popped' = NoJob /\ permits' = MaxSize /\ activeCount' = 0
      /\ faults < MaxFaults /\ faults' = faults + 1
      /\ alive' = Loops
      /\ UNCHANGED <<jobs, triggers, announced, reengaged>>
  BY Zenon DEF Crash
<1>6. /\ turn' \in [Turns -> {"waiting", "done"}]
      /\ calls' \in [Turns -> Seq(AllJobs)]
  BY <1>5 DEF TypeOK
<1>7. TypeOK'
  <2>1. faults' \in 0..MaxFaults /\ permits' \in 0..MaxSize /\ activeCount' \in 0..MaxSize
    <3>1. faults \in 0..MaxFaults
      BY DEF TypeOK
    <3> QED BY <1>5, <3>1, PoolAssumption
  <2> QED BY <1>3, <1>5, <1>6, <2>1 DEF TypeOK, NoDelegations
<1>8. SessionKnown' /\ TiersAreFinite' /\ OutboxFilled'
  BY <1>3, <1>5, <1>6 DEF SessionKnown, TiersAreFinite, OutboxFilled
<1> QED BY <1>4, <1>7, <1>8

\* Every step keeps the invariant.
LEMMA StepIInv == IInv /\ [Next]_vars => IInv'
<1> SUFFICES ASSUME IInv, [Next]_vars PROVE IInv'
  OBVIOUS
<1>1. CASE \E t \in Turns : TurnStep(t)
  BY <1>1, TurnKeeps
<1>2. CASE Pop
  <2>1. popped' \in JobEvent /\ jobs' \in Seq(JobEvent)
    BY <1>2 DEF Pop, IInv, TypeOK
  <2>2. UNCHANGED <<turn, calls, holding, current, delegations, triggers, batches, permits,
                    activeCount, runs, announced, reengaged, alive, faults>>
    BY <1>2 DEF Pop, orchestrator
  <2>3. TypeOK'
    BY <2>1, <2>2 DEF IInv, TypeOK
  <2> QED BY <2>2, <2>3 DEF IInv, SlotsAccounted, RunsAt, SessionKnown, TiersAreFinite,
                            OutboxFilled
<1>3. CASE Spawn
  BY <1>3, SpawnKeeps
<1>4. CASE \E r \in DOMAIN runs : RunStep(r)
  BY <1>4, StartRunKeeps, FinishRunKeeps, PublishNextKeeps DEF RunStep
<1>5. CASE ConsumeTrigger
  <2>1. triggers' \in Seq(Delegation) /\ reengaged' \subseteq Turns
    <3>1. triggers \in Seq(Delegation) /\ triggers # <<>>
      BY <1>5 DEF ConsumeTrigger, IInv, TypeOK
    <3>2. Head(triggers) \in Delegation /\ Tail(triggers) \in Seq(Delegation)
      BY <3>1
    <3>3. Head(triggers).session_id \in Turns
      BY <3>2 DEF Delegation
    <3> QED BY <1>5, <3>2, <3>3 DEF ConsumeTrigger, IInv, TypeOK
  <2>2. UNCHANGED <<turn, calls, holding, current, delegations, jobs, batches, popped, permits,
                    activeCount, runs, announced, alive, faults>>
    BY <1>5 DEF ConsumeTrigger, orchestrator, pool
  <2>3. TypeOK'
    BY <2>1, <2>2 DEF IInv, TypeOK
  <2> QED BY <2>2, <2>3 DEF IInv, SlotsAccounted, RunsAt, SessionKnown, TiersAreFinite,
                            OutboxFilled
<1>6. CASE Crash
  BY <1>6, CrashKeeps
<1>7. ASSUME NEW l \in Loops, LoopFails(l) PROVE IInv'
  <2>1. faults' \in 0..MaxFaults /\ alive' \subseteq Loops
    BY <1>7, PoolAssumption DEF LoopFails, IInv, TypeOK
  <2>2. UNCHANGED <<turn, calls, holding, current, delegations, jobs, triggers, batches, popped,
                    permits, activeCount, runs, announced, reengaged>>
    BY <1>7 DEF LoopFails, orchestrator, pool
  <2>3. TypeOK'
    BY <2>1, <2>2 DEF IInv, TypeOK
  <2> QED BY <2>2, <2>3 DEF IInv, SlotsAccounted, RunsAt, SessionKnown, TiersAreFinite,
                            OutboxFilled
<1>8. CASE UNCHANGED vars
  BY <1>8 DEF vars, IInv, TypeOK, SlotsAccounted, RunsAt, SessionKnown, TiersAreFinite,
              OutboxFilled
<1> QED BY <1>1, <1>2, <1>3, <1>4, <1>5, <1>6, <1>7, <1>8 DEF Next

-----------------------------------------------------------------------------
\* The inductive invariant of the orchestrator, the pool and the coordinator.
THEOREM PoolInvariant == Spec => []IInv
<1>1. Init => IInv
  BY InitIInv
<1>2. IInv /\ [Next]_vars => IInv'
  BY StepIInv
<1> QED BY <1>1, <1>2, PTL DEF Spec

\* Every reachable state is type-correct; in it permits and active_count are within
\* 0..max_size, although FinishRun only guards the counter against going below 0.
THEOREM TypeCorrect == Spec => []TypeOK
<1>1. IInv => TypeOK
  BY DEF IInv
<1> QED BY <1>1, PoolInvariant, PTL

\* However turns, runs, failing publishes and restarts interleave, the permits and
\* the jobs that hold one are max_size together, and active_count is exact.
THEOREM SlotsAreAccounted == Spec => []SlotsAccounted
<1>1. IInv => SlotsAccounted
  BY DEF IInv
<1> QED BY <1>1, PoolInvariant, PTL

-----------------------------------------------------------------------------
(***************************************************************************)
(* For any plans and batch ids: what is true of every job event that the    *)
(* orchestrator holds and of every one a plan registers, is true of all     *)
(* those in the queue, in the batches and in the runners.                   *)
(***************************************************************************)
EventsIn(E) ==
  /\ \A t \in Turns : holding[t] # NoJob => holding[t] \in E
  /\ \A i \in DOMAIN jobs : jobs[i] \in E
  /\ popped # NoJob => popped \in E
  /\ \A b \in DOMAIN batches : batches[b].next \subseteq E
  /\ \A r \in DOMAIN runs : runs[r].event \in E
  /\ \A r \in DOMAIN runs : \A i \in DOMAIN runs[r].outbox : runs[r].outbox[i] \in E \cup Delegation

\* The queue after a publish.
LEMMA QueueIn ==
  ASSUME NEW E, NEW s \in Seq(JobEvent), \A i \in DOMAIN s : s[i] \in E, NEW e \in JobEvent, e \in E
  PROVE  \A i \in DOMAIN Append(s, e) : Append(s, e)[i] \in E
OBVIOUS

\* What is left of a sequence when its first element is gone.
LEMMA RestIn ==
  ASSUME NEW M, NEW E, NEW s \in Seq(M), s # <<>>, \A i \in DOMAIN s : s[i] \in E
  PROVE  /\ Head(s) \in E /\ Head(s) \in M /\ Tail(s) \in Seq(M)
         /\ \A i \in DOMAIN Tail(s) : Tail(s)[i] \in E
<1>1. /\ Head(s) = s[1] /\ 1 \in DOMAIN s /\ Head(s) \in M /\ Tail(s) \in Seq(M)
  OBVIOUS
<1>2. ASSUME NEW i \in DOMAIN Tail(s) PROVE Tail(s)[i] \in E
  <2>1. i + 1 \in DOMAIN s /\ Tail(s)[i] = s[i + 1]
    OBVIOUS
  <2> QED BY <2>1
<1> QED BY <1>1, <1>2

\* What the end of a job has published is of the batch's next tier.
LEMMA ToPublishIn ==
  ASSUME IInv, NEW E, EventsIn(E), NEW b \in DOMAIN batches, NEW out \in ToPublish(b)
  PROVE  \A i \in DOMAIN out : out[i] \in E \cup Delegation
<1>1. batches[b] \in Batch /\ b \in BatchIds /\ batches[b].next \subseteq E
  BY DEF IInv, TypeOK, EventsIn
<1>2. CASE out = <<>>
  BY <1>2
<1>3. CASE out = <<[type |-> "DELEGATION_COMPLETE", session_id |-> batches[b].session,
                    final_batch_id |-> b]>>
  BY <1>1, <1>3 DEF Delegation, Batch
<1>4. CASE out \in Orders(batches[b].next)
  <2>1. out \in [1..Cardinality(batches[b].next) -> batches[b].next]
    BY <1>4 DEF Orders
  <2> QED BY <1>1, <2>1
<1> QED BY <1>2, <1>3, <1>4 DEF ToPublish

\* A step keeps the events in E, if those it plans and those it holds are in E.
LEMMA EventsStay ==
  ASSUME IInv, [Next]_vars, NEW E, EventsIn(E),
         \A t \in Turns : \A b \in DOMAIN Planned(t) : Planned(t)[b].next \subseteq E,
         \A t \in Turns : Delegate(t) /\ holding'[t] # NoJob => holding'[t] \in E
  PROVE  EventsIn(E)'
<1> DEFINE Outboxed == \A r \in DOMAIN runs : \A i \in DOMAIN runs[r].outbox :
                         runs[r].outbox[i] \in E \cup Delegation
<1>0. /\ holding \in [Turns -> JobEvent \cup {NoJob}] /\ jobs \in Seq(JobEvent)
      /\ popped \in JobEvent \cup {NoJob} /\ runs \in Seq(Run)
  BY DEF IInv, TypeOK
<1>1. ASSUME UNCHANGED <<holding, jobs, popped, batches, runs>>
      PROVE  EventsIn(E)'
  BY <1>1 DEF EventsIn
<1>2. ASSUME NEW t \in Turns, Begin(t) \/ Plan(t) \/ EndTurn(t)
      PROVE  EventsIn(E)'
  BY <1>1, <1>2 DEF Begin, Plan, EndTurn, pool
<1>3. ASSUME NEW t \in Turns, Register(t)
      PROVE  EventsIn(E)'
  <2> DEFINE plan == Planned(t)
  <2>0. UNCHANGED <<holding, jobs, popped, runs>>
        /\ batches' = [b \in DOMAIN batches \cup DOMAIN plan |->
                         IF b \in DOMAIN plan THEN plan[b] ELSE batches[b]]
    BY <1>3 DEF Register
  <2>1. /\ \A b \in DOMAIN plan : plan[b].next \subseteq E
        /\ \A b \in DOMAIN batches : batches[b].next \subseteq E
    BY DEF EventsIn
  <2> HIDE DEF plan
  <2>2. \A b \in DOMAIN batches' : batches'[b].next \subseteq E
    <3> SUFFICES ASSUME NEW b \in DOMAIN batches' PROVE batches'[b].next \subseteq E
      OBVIOUS
    <3>1. CASE b \in DOMAIN plan
      BY <2>0, <2>1, <3>1
    <3>2. CASE b \notin DOMAIN plan
      BY <2>0, <2>1, <3>2
    <3> QED BY <3>1, <3>2
  <2> QED BY <2>0, <2>2 DEF EventsIn
<1>4. ASSUME NEW t \in Turns, Delegate(t)
      PROVE  EventsIn(E)'
  <2>1. UNCHANGED <<jobs, popped, batches, runs>> /\ \A u \in Turns : u # t => holding'[u] = holding[u]
    BY <1>0, <1>4 DEF Delegate, pool
  <2>2. \A u \in Turns : holding'[u] # NoJob => holding'[u] \in E
    BY <1>4, <2>1 DEF EventsIn
  <2> QED BY <2>1, <2>2 DEF EventsIn
<1>5. ASSUME NEW t \in Turns, PublishJob(t)
      PROVE  EventsIn(E)'
  <2>1. UNCHANGED <<popped, batches, runs>> /\ holding[t] # NoJob
        /\ jobs' \in {jobs, Append(jobs, holding[t])}
        /\ holding' = [holding EXCEPT ![t] = NoJob]
    BY <1>5 DEF PublishJob, pool
  <2>2. \A u \in Turns : holding'[u] # NoJob => holding'[u] \in E
    BY <1>0, <2>1 DEF EventsIn
  <2>3. holding[t] \in E /\ holding[t] \in JobEvent
    BY <1>0, <2>1 DEF EventsIn
  <2>4. \A i \in DOMAIN jobs' : jobs'[i] \in E
    BY <1>0, <2>1, <2>3, QueueIn DEF EventsIn
  <2> QED BY <2>1, <2>2, <2>4 DEF EventsIn
<1>6. ASSUME Pop PROVE EventsIn(E)'
  <2>1. UNCHANGED <<holding, batches, runs>> /\ jobs # <<>> /\ popped' = Head(jobs) /\ jobs' = Tail(jobs)
    BY <1>6 DEF Pop, orchestrator
  <2>2. popped' \in E /\ \A i \in DOMAIN jobs' : jobs'[i] \in E
    BY <1>0, <2>1, RestIn DEF EventsIn
  <2> QED BY <2>1, <2>2 DEF EventsIn
<1>7. ASSUME Spawn PROVE EventsIn(E)'
  <2> DEFINE x == [event |-> popped, pc |-> "spawned", outbox |-> <<>>]
  <2>1. UNCHANGED <<holding, jobs, batches>> /\ popped # NoJob /\ popped' = NoJob
        /\ runs' = Append(runs, x)
    BY <1>7 DEF Spawn, orchestrator
  <2>2. \A r \in DOMAIN runs' : runs'[r] = x \/ (r \in DOMAIN runs /\ runs'[r] = runs[r])
    <3>1. x \in Run
      BY <1>0, <2>1 DEF Run
    <3> HIDE DEF x
    <3> QED BY <1>0, <2>1, <3>1
  <2>3. popped \in E /\ x.event = popped /\ DOMAIN x.outbox = {}
    BY <2>1 DEF EventsIn
  <2> HIDE DEF x
  <2>4. \A r \in DOMAIN runs' : runs'[r].event \in E
    BY <2>2, <2>3 DEF EventsIn
  <2>5. Outboxed'
    BY <2>2, <2>3 DEF EventsIn
  <2> QED BY <2>1, <2>4, <2>5 DEF EventsIn
<1>8. ASSUME NEW r \in DOMAIN runs, NEW x, runs' = [runs EXCEPT ![r] = x], x.event = runs[r].event,
             \A i \in DOMAIN x.outbox : x.outbox[i] \in E \cup Delegation
      PROVE  Outboxed' /\ \A q \in DOMAIN runs' : runs'[q].event \in E
  <2>1. DOMAIN runs' = DOMAIN runs /\ runs'[r] = x /\ \A q \in DOMAIN runs : q # r => runs'[q] = runs[q]
    BY <1>0, <1>8
  <2>2. \A q \in DOMAIN runs' : runs'[q].event \in E
    BY <1>8, <2>1 DEF EventsIn
  <2>3. Outboxed'
    BY <1>8, <2>1 DEF EventsIn
  <2> QED BY <2>2, <2>3
<1>9. ASSUME NEW r \in DOMAIN runs, StartRun(r)
      PROVE  EventsIn(E)'
  <2> DEFINE x == [runs[r] EXCEPT !.pc = "running"]
  <2>1. UNCHANGED <<holding, jobs, batches, popped>> /\ runs' = [runs EXCEPT ![r] = x]
    BY <1>9 DEF StartRun, orchestrator
  <2>2. x.event = runs[r].event /\ x.outbox = runs[r].outbox
    BY <1>0 DEF Run
  <2> HIDE DEF x
  <2>3. Outboxed' /\ \A q \in DOMAIN runs' : runs'[q].event \in E
    BY <1>8, <2>1, <2>2 DEF EventsIn
  <2> QED BY <2>1, <2>3 DEF EventsIn
<1>10. ASSUME NEW r \in DOMAIN runs, FinishRun(r)
       PROVE  EventsIn(E)'
  <2> DEFINE b == runs[r].event.batch
  <2>1. UNCHANGED <<holding, jobs, popped>>
    BY <1>10 DEF FinishRun, orchestrator
  <2>2. runs[r] \in Run
    BY <1>0
  <2>3. CASE b \in DOMAIN batches
    <3>1. PICK out \in ToPublish(b) :
            runs' = [runs EXCEPT ![r].outbox = out,
                                 ![r].pc = IF out = <<>> THEN "ended" ELSE "publishing"]
      BY <1>10, <2>3 DEF FinishRun
    <3> DEFINE x == [runs[r] EXCEPT !.outbox = out,
                                    !.pc = IF out = <<>> THEN "ended" ELSE "publishing"]
    <3>2. runs' = [runs EXCEPT ![r] = x] /\ x.event = runs[r].event /\ x.outbox = out
      BY <1>0, <2>2, <3>1 DEF Run
    <3> HIDE DEF x
    <3>3. \A i \in DOMAIN out : out[i] \in E \cup Delegation
      BY <2>3, ToPublishIn
    <3>4. Outboxed' /\ \A q \in DOMAIN runs' : runs'[q].event \in E
      BY <1>8, <3>2, <3>3
    <3>5. batches' = [batches EXCEPT ![b].done = @ + 1]
      BY <1>10, <2>3 DEF FinishRun
    <3>6. \A c \in DOMAIN batches : batches[c] \in Batch
      BY DEF IInv, TypeOK
    <3>7. \A c \in DOMAIN batches' : c \in DOMAIN batches /\ batches'[c].next = batches[c].next
      BY <3>5, <3>6 DEF Batch
    <3> QED BY <2>1, <3>4, <3>7 DEF EventsIn
  <2>4. CASE b \notin DOMAIN batches
    <3> DEFINE x == [runs[r] EXCEPT !.pc = "ended"]
    <3>1. runs' = [runs EXCEPT ![r] = x] /\ UNCHANGED batches
      BY <1>10, <2>4 DEF FinishRun
    <3>2. x.event = runs[r].event /\ x.outbox = runs[r].outbox
      BY <2>2 DEF Run
    <3> HIDE DEF x
    <3>3. Outboxed' /\ \A q \in DOMAIN runs' : runs'[q].event \in E
      BY <1>8, <3>1, <3>2 DEF EventsIn
    <3> QED BY <2>1, <3>1, <3>3 DEF EventsIn
  <2> QED BY <2>3, <2>4
<1>11. ASSUME NEW r \in DOMAIN runs, PublishNext(r)
       PROVE  EventsIn(E)'
  <2> DEFINE m == Head(runs[r].outbox)
             rest == Tail(runs[r].outbox)
             x == [runs[r] EXCEPT !.outbox = rest, !.pc = IF rest = <<>> THEN "ended" ELSE @]
  <2>0. UNCHANGED <<holding, batches, popped>> /\ runs[r].pc = "publishing"
    BY <1>11 DEF PublishNext, orchestrator
  <2>1. /\ runs' = [runs EXCEPT ![r].outbox = rest, ![r].pc = IF rest = <<>> THEN "ended" ELSE @]
        /\ Deliver(m) \/ jobs' = jobs
    BY <1>11 DEF PublishNext
  <2>2. /\ runs[r] \in Run /\ runs[r].outbox \in Seq(Messages) /\ runs[r].outbox # <<>>
        /\ \A i \in DOMAIN runs[r].outbox : runs[r].outbox[i] \in E \cup Delegation
    <3>1. runs[r] \in Run
      BY <1>0
    <3>2. runs[r].outbox # <<>>
      BY <2>0 DEF IInv, OutboxFilled
    <3>3. \A i \in DOMAIN runs[r].outbox : runs[r].outbox[i] \in E \cup Delegation
      BY DEF EventsIn
    <3> QED BY <3>1, <3>2, <3>3 DEF Run, Messages
  <2>3. /\ m \in E \cup Delegation /\ m \in Messages
        /\ \A i \in DOMAIN rest : rest[i] \in E \cup Delegation
    BY <2>2, RestIn
  <2> HIDE DEF m, rest
  <2>4. runs' = [runs EXCEPT ![r] = x] /\ x.event = runs[r].event /\ x.outbox = rest
    <3>1. runs' = [runs EXCEPT ![r] = x]
      BY <1>0, <2>1
    <3>2. x.event = runs[r].event /\ x.outbox = rest
      BY <2>2 DEF Run
    <3> QED BY <3>1, <3>2
  <2> HIDE DEF x
  <2>5. Outboxed' /\ \A q \in DOMAIN runs' : runs'[q].event \in E
    BY <1>8, <2>3, <2>4
  <2>6. \A i \in DOMAIN jobs' : jobs'[i] \in E
    <3>1. CASE jobs' = jobs
      BY <3>1 DEF EventsIn
    <3>2. CASE "type" \notin DOMAIN m /\ jobs' = Append(jobs, m)
      <4>1. m \in E /\ m \in JobEvent
        BY <2>3, <3>2, MessageKinds DEF Messages
      <4> QED BY <1>0, <3>2, <4>1, QueueIn DEF EventsIn
    <3>3. jobs' = jobs \/ ("type" \notin DOMAIN m /\ jobs' = Append(jobs, m))
      BY <2>1 DEF Deliver
    <3> QED BY <3>1, <3>2, <3>3
  <2> QED BY <2>0, <2>5, <2>6 DEF EventsIn
<1>12. ASSUME ConsumeTrigger \/ \E l \in Loops : LoopFails(l)
       PROVE  EventsIn(E)'
  BY <1>1, <1>12 DEF ConsumeTrigger, LoopFails, orchestrator, pool
<1>13. ASSUME Crash PROVE EventsIn(E)'
  <2>1. /\ \A t \in Turns : holding'[t] = NoJob
        /\ DOMAIN batches' = {} /\ popped' = NoJob /\ jobs' = jobs
    BY <1>13 DEF Crash
  <2>2. runs' = [r \in DOMAIN runs |->
                   [runs[r] EXCEPT !.outbox = <<>>,
                                   !.pc = IF @ \in {"publishing", "ended"} THEN "ended"
                                          ELSE "killed"]]
    BY <1>13 DEF Crash
  <2>3. \A r \in DOMAIN runs : runs[r] \in Run
    BY <1>0
  <2>4. \A r \in DOMAIN runs' : /\ r \in DOMAIN runs /\ runs'[r].event = runs[r].event
                                /\ runs'[r].outbox = <<>>
    BY <2>2, <2>3 DEF Run
  <2>5. Outboxed' /\ \A q \in DOMAIN runs' : runs'[q].event \in E
    BY <2>4 DEF EventsIn
  <2> QED BY <2>1, <2>5 DEF EventsIn
<1>14. CASE UNCHANGED vars
  BY <1>1, <1>14 DEF vars
<1> QED BY <1>2, <1>3, <1>4, <1>5, <1>6, <1>7, <1>9, <1>10, <1>11, <1>12, <1>13, <1>14
        DEF Next, TurnStep, RunStep

\* At the start there are no events.
LEMMA InitEvents ==
  ASSUME Init, NEW E
  PROVE  EventsIn(E)
BY DEF Init, EventsIn

-----------------------------------------------------------------------------
(* Refused calls, when plans have one tier.                                   *)

\* A plan of one tier has nothing to publish later.
LEMMA LastTier ==
  ASSUME NEW t \in Turns, Len(Tiers[t]) = 1, NEW b \in DOMAIN Planned(t)
  PROVE  Planned(t)[b].next = {}
<1>1. PICK k \in DOMAIN Tiers[t] : b = BatchId(t, k - 1)
  BY DEF Planned
<1>2. Tiers[t] \in Seq(SUBSET AllJobs)
  BY PoolAssumption
<1>3. k = 1 /\ b[2] + 1 = 1
  BY <1>1, <1>2 DEF BatchId
<1> QED BY <1>3 DEF Planned

\* With plans of one tier, a call that was answered with an error is not run: however
\* turns overlap, whichever batch ids are equal, whatever fails or restarts.
THEOREM RefusedIsNeverRun ==
  ASSUME \A t \in Turns : Len(Tiers[t]) = 1
  PROVE  Spec => []RefusedNeverRun
<1> DEFINE Accepted == {e \in JobEvent : e.job \notin Refused}
<1>1. Init => EventsIn(Accepted)
  BY InitEvents
<1>2. IInv /\ EventsIn(Accepted) /\ [Next]_vars => EventsIn(Accepted)'
  <2> SUFFICES ASSUME IInv, EventsIn(Accepted), [Next]_vars
               PROVE  EventsIn(Accepted)'
    OBVIOUS
  <2>1. ASSUME NEW t \in Turns, Delegate(t), holding'[t] # NoJob
        PROVE  holding'[t] \in Accepted
    <3>1. holding \in [Turns -> JobEvent \cup {NoJob}]
      BY DEF IInv, TypeOK
    <3>2. holding'[t].job = Head(calls[t]) /\ Head(calls[t]) \notin Refused
      BY <2>1, <3>1 DEF Delegate
    <3>3. holding'[t] \in JobEvent
      BY <2>1, StepIInv DEF IInv, TypeOK
    <3> QED BY <3>2, <3>3
  <2> HIDE DEF Accepted
  <2> QED BY <2>1, LastTier, EventsStay
<1>3. EventsIn(Accepted) => RefusedNeverRun
  BY DEF EventsIn, RefusedNeverRun
<1> QED BY <1>1, <1>2, <1>3, PoolInvariant, PTL DEF Spec
-----------------------------------------------------------------------------
(* A job is in one place.  A turn takes it from its calls, holds it and puts   *)
(* it on the queue; nobody else does, because the batch of a plan of one tier  *)
(* has no next tier to publish.                                                *)

\* Plans of one tier, as they are where the query engine finds no edge, and each
\* task delegated by one call.
OneTierPlans ==
  /\ \A t \in Turns : Len(Tiers[t]) = 1
  /\ \A t \in Turns : \A i, k \in DOMAIN Calls[t] : Calls[t][i] = Calls[t][k] => i = k
  /\ \A t, u \in Turns : JobsIn(t) \cap JobsIn(u) # {} => t = u

\* Where the jobs are that have been published.
QueuedJobs == {jobs[i].job : i \in DOMAIN jobs}
PoppedJobs == IF popped = NoJob THEN {} ELSE {popped.job}
BegunJobs == {runs[r].event.job : r \in DOMAIN runs}
SentJobs == QueuedJobs \cup PoppedJobs \cup BegunJobs

CallsLeft(t) == {calls[t][i] : i \in DOMAIN calls[t]}

\* What a turn has still to delegate has not been published.
Unsent(t) ==
  /\ CallsLeft(t) \subseteq JobsIn(t) /\ CallsLeft(t) \cap SentJobs = {}
  /\ \A i, k \in DOMAIN calls[t] : calls[t][i] = calls[t][k] => i = k
  /\ holding[t] # NoJob =>
       holding[t].job \in JobsIn(t) \ CallsLeft(t) /\ holding[t].job \notin SentJobs

TurnsUnsent == \A t \in Turns : Unsent(t)

\* Each published job is in one place, once.
QueuedOnce == \A i, k \in DOMAIN jobs : jobs[i].job = jobs[k].job => i = k
BegunOnce == \A r, q \in DOMAIN runs : runs[r].event.job = runs[q].event.job => r = q

SentOnce ==
  /\ QueuedOnce /\ BegunOnce
  /\ QueuedJobs \cap PoppedJobs = {} /\ QueuedJobs \cap BegunJobs = {}
  /\ PoppedJobs \cap BegunJobs = {}

\* The coordinator has no job to publish.
NoNextTier == \A b \in DOMAIN batches : batches[b].next = {}
OnlyAnnounces == \A r \in DOMAIN runs : \A i \in DOMAIN runs[r].outbox :
                   runs[r].outbox[i] \in Delegation

OnceInv == TurnsUnsent /\ SentOnce /\ NoNextTier /\ OnlyAnnounces

LEMMA InitOnce == OneTierPlans /\ Init => OnceInv
<1> SUFFICES ASSUME OneTierPlans, Init PROVE OnceInv
  OBVIOUS
<1>1. SentJobs = {} /\ jobs = <<>> /\ runs = <<>> /\ popped = NoJob
  BY DEF Init, SentJobs, QueuedJobs, PoppedJobs, BegunJobs
<1>2. TurnsUnsent
  <2> SUFFICES ASSUME NEW t \in Turns PROVE Unsent(t)
    BY DEF TurnsUnsent
  <2>1. calls[t] = Calls[t] /\ holding[t] = NoJob
    BY DEF Init
  <2>2. CallsLeft(t) = JobsIn(t)
    BY <2>1 DEF CallsLeft, JobsIn
  <2> QED BY <1>1, <2>1, <2>2 DEF Unsent, OneTierPlans
<1>3. SentOnce /\ OnlyAnnounces
  BY <1>1 DEF SentOnce, QueuedOnce, BegunOnce, QueuedJobs, PoppedJobs, BegunJobs, OnlyAnnounces
<1>4. NoNextTier
  BY DEF Init, NoNextTier
<1> QED BY <1>2, <1>3, <1>4 DEF OnceInv

\* Nothing is sent, and the turns keep what they have.
LEMMA NothingSent ==
  ASSUME OnceInv, UNCHANGED <<jobs, popped, runs>>
  PROVE  SentOnce' /\ OnlyAnnounces' /\ SentJobs' = SentJobs
BY DEF OnceInv, SentOnce, QueuedOnce, BegunOnce, QueuedJobs, PoppedJobs, BegunJobs, SentJobs,
       OnlyAnnounces

\* The turns' own steps leave the rest alone, and what they have is not sent anew.
LEMMA SameUnsent ==
  ASSUME OnceInv, UNCHANGED <<calls, holding>>, SentJobs' \subseteq SentJobs
  PROVE  TurnsUnsent'
<1> SUFFICES ASSUME NEW t \in Turns PROVE Unsent(t)'
  BY DEF TurnsUnsent
<1>1. Unsent(t)
  BY DEF OnceInv, TurnsUnsent
<1> QED BY <1>1 DEF Unsent, CallsLeft

LEMMA QuietOnce ==
  ASSUME OnceInv, UNCHANGED <<calls, holding, jobs, popped, runs, batches>>
  PROVE  OnceInv'
<1>1. SentOnce' /\ OnlyAnnounces' /\ SentJobs' = SentJobs
  BY NothingSent
<1>2. TurnsUnsent'
  BY <1>1, SameUnsent
<1>3. NoNextTier'
  BY DEF OnceInv, NoNextTier
<1> QED BY <1>1, <1>2, <1>3 DEF OnceInv

LEMMA RegisterOnce ==
  ASSUME OneTierPlans, OnceInv, NEW t \in Turns, Register(t)
  PROVE  OnceInv'
<1> DEFINE plan == Planned(t)
<1>1. /\ UNCHANGED <<calls, holding, jobs, popped, runs>>
      /\ batches' = [b \in DOMAIN batches \cup DOMAIN plan |->
                       IF b \in DOMAIN plan THEN plan[b] ELSE batches[b]]
  BY DEF Register
<1>2. /\ \A b \in DOMAIN plan : plan[b].next = {}
      /\ \A b \in DOMAIN batches : batches[b].next = {}
  BY LastTier DEF OneTierPlans, OnceInv, NoNextTier
<1> HIDE DEF plan
<1>3. NoNextTier'
  <2> SUFFICES ASSUME NEW b \in DOMAIN batches' PROVE batches'[b].next = {}
    BY DEF NoNextTier
  <2>1. CASE b \in DOMAIN plan
    BY <1>1, <1>2, <2>1
  <2>2. CASE b \notin DOMAIN plan
    BY <1>1, <1>2, <2>2
  <2> QED BY <2>1, <2>2
<1>4. SentOnce' /\ OnlyAnnounces' /\ SentJobs' = SentJobs
  BY <1>1, NothingSent
<1>5. TurnsUnsent'
  BY <1>1, <1>4, SameUnsent
<1> QED BY <1>3, <1>4, <1>5 DEF OnceInv

\* The first of the calls leaves them, and does not come again.
LEMMA CallTaken ==
  ASSUME NEW s \in Seq(AllJobs), s # <<>>, \A i, k \in DOMAIN s : s[i] = s[k] => i = k
  PROVE  /\ Head(s) \in {s[i] : i \in DOMAIN s}
         /\ {Tail(s)[i] : i \in DOMAIN Tail(s)} \subseteq {s[i] : i \in DOMAIN s} \ {Head(s)}
         /\ \A i, k \in DOMAIN Tail(s) : Tail(s)[i] = Tail(s)[k] => i = k
<1> DEFINE n == Len(s) - 1
<1>1. /\ n \in Nat /\ DOMAIN s = 1..(n + 1) /\ DOMAIN Tail(s) = 1..n
      /\ \A i \in 1..n : Tail(s)[i] = s[i + 1]
      /\ Head(s) = s[1]
  OBVIOUS
<1> HIDE DEF n
<1>2. \A i \in 1..n : i + 1 \in DOMAIN s /\ i + 1 # 1
  BY <1>1
<1>3. 1 \in DOMAIN s
  BY <1>1
<1>4. \A i \in 1..n : s[i + 1] # s[1]
  BY <1>2, <1>3
<1>5. ASSUME NEW i \in 1..n, NEW k \in 1..n, s[i + 1] = s[k + 1]
      PROVE  i = k
  <2>1. i + 1 = k + 1
    BY <1>2, <1>5
  <2> QED BY <1>1, <2>1
<1>6. {Tail(s)[i] : i \in DOMAIN Tail(s)} = {s[i + 1] : i \in 1..n}
  <2> DEFINE q == Tail(s)
  <2>1. DOMAIN q = 1..n /\ \A i \in 1..n : q[i] = s[i + 1]
    BY <1>1
  <2> HIDE DEF q
  <2>2. {q[i] : i \in DOMAIN q} = {s[i + 1] : i \in 1..n}
    BY <2>1
  <2> QED BY <2>2 DEF q
<1>7. {s[i + 1] : i \in 1..n} \subseteq {s[i] : i \in DOMAIN s} \ {Head(s)}
  BY <1>1, <1>2, <1>4
<1>8. \A i, k \in DOMAIN Tail(s) : Tail(s)[i] = Tail(s)[k] => i = k
  BY <1>1, <1>5
<1> QED BY <1>1, <1>3, <1>6, <1>7, <1>8

LEMMA DelegateOnce ==
  ASSUME IInv, OnceInv, NEW t \in Turns, Delegate(t)
  PROVE  OnceInv'
<1> DEFINE j == Head(calls[t])
<1>1. UNCHANGED <<jobs, popped, runs, batches>>
  BY DEF Delegate, pool
<1>2. SentOnce' /\ OnlyAnnounces' /\ SentJobs' = SentJobs
  BY <1>1, NothingSent
<1>3. NoNextTier'
  BY <1>1 DEF OnceInv, NoNextTier
<1>4. /\ calls \in [Turns -> Seq(AllJobs)] /\ holding \in [Turns -> JobEvent \cup {NoJob}]
      /\ calls[t] # <<>> /\ calls' = [calls EXCEPT ![t] = Tail(calls[t])]
  BY DEF Delegate, IInv, TypeOK
<1>5. holding'[t] = NoJob \/ holding'[t].job = j
  BY <1>4 DEF Delegate
<1>6. \A u \in Turns : u # t => holding'[u] = holding[u] /\ calls'[u] = calls[u]
  BY <1>4 DEF Delegate
<1>7. Unsent(t)
  BY DEF OnceInv, TurnsUnsent
<1>8. /\ j \in CallsLeft(t) /\ CallsLeft(t)' \subseteq CallsLeft(t) \ {j}
      /\ \A i, k \in DOMAIN calls'[t] : calls'[t][i] = calls'[t][k] => i = k
  <2>1. calls'[t] = Tail(calls[t]) /\ calls[t] \in Seq(AllJobs)
    BY <1>4
  <2>2. \A i, k \in DOMAIN calls[t] : calls[t][i] = calls[t][k] => i = k
    BY <1>7 DEF Unsent
  <2> QED BY <1>4, <2>1, <2>2, CallTaken DEF CallsLeft
<1> HIDE DEF j
<1>9. TurnsUnsent'
  <2> SUFFICES ASSUME NEW u \in Turns PROVE Unsent(u)'
    BY DEF TurnsUnsent
  <2>1. CASE u # t
    <3>1. Unsent(u)
      BY DEF OnceInv, TurnsUnsent
    <3> QED BY <1>2, <1>6, <2>1, <3>1 DEF Unsent, CallsLeft
  <2>2. CASE u = t
    <3>1. j \in JobsIn(t) /\ j \notin SentJobs /\ j \notin CallsLeft(t)'
      BY <1>7, <1>8 DEF Unsent
    <3>2. CallsLeft(t)' \subseteq JobsIn(t) /\ CallsLeft(t)' \cap SentJobs' = {}
      BY <1>2, <1>7, <1>8 DEF Unsent
    <3> QED BY <1>2, <1>5, <1>8, <2>2, <3>1, <3>2 DEF Unsent
  <2> QED BY <2>1, <2>2
<1> QED BY <1>2, <1>3, <1>9 DEF OnceInv

LEMMA PublishJobOnce ==
  ASSUME OneTierPlans, IInv, OnceInv, NEW t \in Turns, PublishJob(t)
  PROVE  OnceInv'
<1> DEFINE e == holding[t]
<1>1. UNCHANGED <<calls, popped, runs, batches>>
  BY DEF PublishJob, pool
<1>2. /\ e \in JobEvent /\ e # NoJob /\ jobs \in Seq(JobEvent)
      /\ holding'[t] = NoJob /\ \A u \in Turns : u # t => holding'[u] = holding[u]
      /\ jobs' = jobs \/ jobs' = Append(jobs, e)
  BY DEF PublishJob, IInv, TypeOK
<1>3. NoNextTier' /\ OnlyAnnounces'
  BY <1>1 DEF OnceInv, NoNextTier, OnlyAnnounces
<1>4. \A u \in Turns : Unsent(u)
  BY DEF OnceInv, TurnsUnsent
<1>5. e.job \in JobsIn(t) \ CallsLeft(t) /\ e.job \notin SentJobs
  BY <1>2, <1>4 DEF Unsent
<1>6. CASE jobs' = jobs
  <2>1. SentOnce' /\ SentJobs' = SentJobs
    BY <1>1, <1>6, NothingSent
  <2>2. ASSUME NEW u \in Turns PROVE Unsent(u)'
    BY <1>1, <1>2, <1>4, <2>1 DEF Unsent, CallsLeft
  <2> QED BY <1>3, <2>1, <2>2 DEF OnceInv, TurnsUnsent
<1>7. CASE jobs' = Append(jobs, e)
  <2> DEFINE n == Len(jobs) + 1
  <2>1. /\ DOMAIN jobs' = DOMAIN jobs \cup {n} /\ n \notin DOMAIN jobs
        /\ jobs'[n] = e /\ \A i \in DOMAIN jobs : jobs'[i] = jobs[i]
    BY <1>2, <1>7
  <2> HIDE DEF n, e
  <2>2. QueuedJobs' = QueuedJobs \cup {e.job}
    BY <2>1 DEF QueuedJobs
  <2>3. PoppedJobs' = PoppedJobs /\ BegunJobs' = BegunJobs /\ BegunOnce'
    BY <1>1 DEF OnceInv, SentOnce, PoppedJobs, BegunJobs, BegunOnce
  <2>4. SentJobs' = SentJobs \cup {e.job}
    BY <2>2, <2>3 DEF SentJobs
  <2>5. QueuedOnce'
    <3>1. QueuedOnce /\ e.job \notin QueuedJobs
      BY <1>5 DEF OnceInv, SentOnce, SentJobs
    <3> QED BY <2>1, <3>1 DEF QueuedOnce, QueuedJobs
  <2>6. SentOnce'
    BY <1>5, <2>2, <2>3, <2>5 DEF OnceInv, SentOnce, SentJobs
  <2>7. TurnsUnsent'
    <3> SUFFICES ASSUME NEW u \in Turns PROVE Unsent(u)'
      BY DEF TurnsUnsent
    <3>1. CASE u = t
      BY <1>1, <1>2, <1>4, <1>5, <2>4, <3>1 DEF Unsent, CallsLeft
    <3>2. CASE u # t
      <4>1. e.job \notin JobsIn(u)
        BY <1>5, <3>2 DEF OneTierPlans
      <4>2. holding'[u] = holding[u] /\ calls'[u] = calls[u]
        BY <1>1, <1>2, <3>2
      <4> QED BY <1>4, <2>4, <4>1, <4>2 DEF Unsent, CallsLeft
    <3> QED BY <3>1, <3>2
  <2> QED BY <1>3, <2>6, <2>7 DEF OnceInv
<1> QED BY <1>2, <1>6, <1>7

LEMMA PopOnce ==
  ASSUME IInv, OnceInv, Pop
  PROVE  OnceInv'
<1>1. /\ UNCHANGED <<calls, holding, runs, batches>>
      /\ jobs # <<>> /\ jobs' = Tail(jobs) /\ popped' = Head(jobs) /\ popped = NoJob
      /\ jobs \in Seq(JobEvent)
  BY DEF Pop, orchestrator, IInv, TypeOK
<1> DEFINE e == Head(jobs)
           n == Len(jobs)
<1>2. /\ n \in Nat \ {0} /\ DOMAIN jobs = 1..n /\ DOMAIN jobs' = 1..(n - 1)
      /\ e = jobs[1] /\ \A i \in 1..(n - 1) : jobs'[i] = jobs[i + 1]
  BY <1>1
<1> HIDE DEF e, n
<1>3. 1 \in DOMAIN jobs /\ \A i \in DOMAIN jobs' : i + 1 \in DOMAIN jobs /\ i + 1 # 1
  BY <1>2
<1>4. QueuedOnce
  BY DEF OnceInv, SentOnce
<1>5. QueuedOnce'
  <2> SUFFICES ASSUME NEW i \in DOMAIN jobs', NEW k \in DOMAIN jobs', jobs'[i].job = jobs'[k].job
               PROVE  i = k
    BY DEF QueuedOnce
  <2>1. i + 1 = k + 1
    BY <1>2, <1>3, <1>4 DEF QueuedOnce
  <2> QED BY <1>2, <2>1
<1>6. QueuedJobs' \subseteq QueuedJobs /\ e.job \in QueuedJobs
  BY <1>2, <1>3 DEF QueuedJobs
<1>7. e.job \notin QueuedJobs'
  BY <1>2, <1>3, <1>4 DEF QueuedJobs, QueuedOnce
<1>8. PoppedJobs' \subseteq {e.job} /\ BegunJobs' = BegunJobs
  BY <1>1 DEF PoppedJobs, BegunJobs, e
<1>9. SentJobs' \subseteq SentJobs
  BY <1>6, <1>8 DEF SentJobs
<1>10. SentOnce'
  <2>1. BegunOnce'
    BY <1>1 DEF OnceInv, SentOnce, BegunOnce
  <2> QED BY <1>5, <1>6, <1>7, <1>8, <2>1 DEF OnceInv, SentOnce
<1>11. TurnsUnsent'
  BY <1>1, <1>9, SameUnsent
<1>12. NoNextTier' /\ OnlyAnnounces'
  BY <1>1 DEF OnceInv, NoNextTier, OnlyAnnounces
<1> QED BY <1>10, <1>11, <1>12 DEF OnceInv

LEMMA SpawnOnce ==
  ASSUME IInv, OnceInv, Spawn
  PROVE  OnceInv'
<1>1. /\ UNCHANGED <<calls, holding, jobs, batches>>
      /\ popped # NoJob /\ popped' = NoJob /\ popped \in JobEvent /\ runs \in Seq(Run)
  BY DEF Spawn, orchestrator, IInv, TypeOK
<1> DEFINE x == [event |-> popped, pc |-> "spawned", outbox |-> <<>>]
           n == Len(runs) + 1
<1>2. x.event = popped /\ x.outbox = <<>> /\ runs' = Append(runs, x)
  BY DEF Spawn
<1> HIDE DEF x
<1>3. /\ DOMAIN runs' = DOMAIN runs \cup {n} /\ n \notin DOMAIN runs
      /\ runs'[n] = x /\ \A q \in DOMAIN runs : runs'[q] = runs[q]
  BY <1>1, <1>2
<1> HIDE DEF n
<1>4. BegunJobs' = BegunJobs \cup {popped.job}
  BY <1>2, <1>3 DEF BegunJobs
<1>5. PoppedJobs = {popped.job} /\ PoppedJobs' = {} /\ QueuedJobs' = QueuedJobs
  BY <1>1 DEF PoppedJobs, QueuedJobs
<1>6. BegunOnce'
  <2>1. BegunOnce /\ \A q \in DOMAIN runs : runs[q].event.job # popped.job
    BY <1>5 DEF OnceInv, SentOnce, BegunJobs
  <2> QED BY <1>2, <1>3, <2>1 DEF BegunOnce
<1>7. SentOnce'
  BY <1>1, <1>4, <1>5, <1>6 DEF OnceInv, SentOnce, QueuedOnce
<1>8. SentJobs' = SentJobs
  BY <1>4, <1>5 DEF SentJobs
<1>9. TurnsUnsent'
  BY <1>1, <1>8, SameUnsent
<1>10. NoNextTier' /\ OnlyAnnounces'
  BY <1>1, <1>2, <1>3 DEF OnceInv, NoNextTier, OnlyAnnounces
<1> QED BY <1>7, <1>9, <1>10 DEF OnceInv

\* The runs keep their events, and nothing else is sent.
LEMMA RunsMove ==
  ASSUME OnceInv, UNCHANGED <<calls, holding, jobs>>, popped' \in {popped, NoJob},
         DOMAIN runs' = DOMAIN runs, \A q \in DOMAIN runs : runs'[q].event = runs[q].event
  PROVE  TurnsUnsent' /\ SentOnce'
<1>1. QueuedJobs' = QueuedJobs /\ PoppedJobs' \subseteq PoppedJobs
  BY DEF QueuedJobs, PoppedJobs
<1>2. BegunJobs' = BegunJobs /\ BegunOnce'
  BY DEF BegunJobs, OnceInv, SentOnce, BegunOnce
<1>3. QueuedOnce'
  BY DEF OnceInv, SentOnce, QueuedOnce
<1>4. SentOnce' /\ SentJobs' \subseteq SentJobs
  BY <1>1, <1>2, <1>3 DEF OnceInv, SentOnce, SentJobs
<1> QED BY <1>4, SameUnsent

\* The batch of a last tier announces, or does nothing.
LEMMA LastAnnounces ==
  ASSUME IInv, NEW b \in DOMAIN batches, batches[b].next = {}, NEW out \in ToPublish(b)
  PROVE  \A i \in DOMAIN out : out[i] \in Delegation
<1>1. batches[b] \in Batch /\ b \in BatchIds
  BY DEF IInv, TypeOK
<1>2. CASE out = <<>>
  BY <1>2
<1>3. CASE out = <<[type |-> "DELEGATION_COMPLETE", session_id |-> batches[b].session,
                    final_batch_id |-> b]>>
  BY <1>1, <1>3 DEF Delegation, Batch
<1>4. CASE out \in Orders(batches[b].next)
  <2>1. out \in [1..Cardinality(batches[b].next) -> batches[b].next]
    BY <1>4 DEF Orders
  <2> QED BY <2>1
<1> QED BY <1>2, <1>3, <1>4 DEF ToPublish

LEMMA RunStepOnce ==
  ASSUME IInv, OnceInv, NEW r \in DOMAIN runs, RunStep(r)
  PROVE  OnceInv'
<1>0. runs \in Seq(Run) /\ runs[r] \in Run
  BY DEF IInv, TypeOK
<1>1. ASSUME NEW x, runs' = [runs EXCEPT ![r] = x], x.event = runs[r].event,
             \A i \in DOMAIN x.outbox : x.outbox[i] \in Delegation,
             UNCHANGED <<calls, holding, jobs, popped>>, NoNextTier'
      PROVE  OnceInv'
  <2>1. DOMAIN runs' = DOMAIN runs /\ runs'[r] = x /\ \A q \in DOMAIN runs : q # r => runs'[q] = runs[q]
    BY <1>0, <1>1
  <2>2. \A q \in DOMAIN runs : runs'[q].event = runs[q].event
    BY <1>1, <2>1
  <2>3. TurnsUnsent' /\ SentOnce'
    BY <1>1, <2>1, <2>2, RunsMove
  <2>4. OnlyAnnounces'
    BY <1>1, <2>1 DEF OnceInv, OnlyAnnounces
  <2> QED BY <1>1, <2>3, <2>4 DEF OnceInv
<1>2. \A i \in DOMAIN runs[r].outbox : runs[r].outbox[i] \in Delegation
  BY DEF OnceInv, OnlyAnnounces
<1>3. CASE StartRun(r)
  <2> DEFINE x == [runs[r] EXCEPT !.pc = "running"]
  <2>1. UNCHANGED <<calls, holding, jobs, popped>> /\ runs' = [runs EXCEPT ![r] = x] /\ NoNextTier'
    BY <1>3 DEF StartRun, orchestrator, OnceInv, NoNextTier
  <2>2. x.event = runs[r].event /\ x.outbox = runs[r].outbox
    BY <1>0 DEF Run
  <2> HIDE DEF x
  <2> QED BY <1>1, <1>2, <2>1, <2>2
<1>4. CASE FinishRun(r)
  <2> DEFINE b == runs[r].event.batch
  <2>1. UNCHANGED <<calls, holding, jobs, popped>>
    BY <1>4 DEF FinishRun, orchestrator
  <2>2. CASE b \in DOMAIN batches
    <3>1. PICK out \in ToPublish(b) :
            runs' = [runs EXCEPT ![r].outbox = out,
                                 ![r].pc = IF out = <<>> THEN "ended" ELSE "publishing"]
      BY <1>4, <2>2 DEF FinishRun
    <3> DEFINE x == [runs[r] EXCEPT !.outbox = out,
                                    !.pc = IF out = <<>> THEN "ended" ELSE "publishing"]
    <3>2. runs' = [runs EXCEPT ![r] = x] /\ x.event = runs[r].event /\ x.outbox = out
      BY <1>0, <3>1 DEF Run
    <3> HIDE DEF x
    <3>3. \A i \in DOMAIN out : out[i] \in Delegation
      BY <2>2, LastAnnounces DEF OnceInv, NoNextTier
    <3>4. batches' = [batches EXCEPT ![b].done = @ + 1]
      BY <1>4, <2>2 DEF FinishRun
    <3>5. \A c \in DOMAIN batches : batches[c] \in Batch
      BY DEF IInv, TypeOK
    <3>6. \A c \in DOMAIN batches' : c \in DOMAIN batches /\ batches'[c].next = batches[c].next
      BY <3>4, <3>5 DEF Batch
    <3>7. NoNextTier'
      BY <3>6 DEF OnceInv, NoNextTier
    <3> QED BY <1>1, <2>1, <3>2, <3>3, <3>7
  <2>3. CASE b \notin DOMAIN batches
    <3> DEFINE x == [runs[r] EXCEPT !.pc = "ended"]
    <3>1. runs' = [runs EXCEPT ![r] = x] /\ NoNextTier'
      BY <1>4, <2>3 DEF FinishRun, OnceInv, NoNextTier
    <3>2. x.event = runs[r].event /\ x.outbox = runs[r].outbox
      BY <1>0 DEF Run
    <3> HIDE DEF x
    <3> QED BY <1>1, <1>2, <2>1, <3>1, <3>2
  <2> QED BY <2>2, <2>3
<1>5. CASE PublishNext(r)
  <2> DEFINE m == Head(runs[r].outbox)
             rest == Tail(runs[r].outbox)
             x == [runs[r] EXCEPT !.outbox = rest, !.pc = IF rest = <<>> THEN "ended" ELSE @]
  <2>1. UNCHANGED <<calls, holding, batches, popped>> /\ runs[r].pc = "publishing"
    BY <1>5 DEF PublishNext, orchestrator
  <2>2. /\ runs' = [runs EXCEPT ![r].outbox = rest, ![r].pc = IF rest = <<>> THEN "ended" ELSE @]
        /\ Deliver(m) \/ jobs' = jobs
    BY <1>5 DEF PublishNext
  <2>3. runs[r].outbox \in Seq(Messages) /\ runs[r].outbox # <<>>
    <3>1. runs[r].outbox # <<>>
      BY <2>1 DEF IInv, OutboxFilled
    <3> QED BY <1>0, <3>1 DEF Run, Messages
  <2>4. m \in Delegation /\ \A i \in DOMAIN rest : rest[i] \in Delegation
    BY <1>2, <2>3, RestIn
  <2> HIDE DEF m, rest
  <2>5. runs' = [runs EXCEPT ![r] = x]
    BY <1>0, <2>2
  <2>6. x.event = runs[r].event /\ x.outbox = rest
    BY <1>0 DEF Run
  <2> HIDE DEF x
  <2>7. jobs' = jobs
    <3>1. "type" \in DOMAIN m
      BY <2>4 DEF Delegation
    <3> QED BY <2>2, <3>1 DEF Deliver
  <2>8. NoNextTier'
    BY <2>1 DEF OnceInv, NoNextTier
  <2> QED BY <1>1, <2>1, <2>4, <2>5, <2>6, <2>7, <2>8
<1> QED BY <1>3, <1>4, <1>5 DEF RunStep

LEMMA CrashOnce ==
  ASSUME IInv, OnceInv, Crash
  PROVE  OnceInv'
<1>1. /\ \A t \in Turns : holding'[t] = NoJob /\ (calls'[t] = calls[t] \/ calls'[t] = <<>>)
      /\ DOMAIN batches' = {} /\ popped' = NoJob /\ jobs' = jobs
  BY DEF Crash
<1>2. runs' = [r \in DOMAIN runs |->
                 [runs[r] EXCEPT !.outbox = <<>>,
                                 !.pc = IF @ \in {"publishing", "ended"} THEN "ended" ELSE "killed"]]
  BY DEF Crash
<1>3. \A r \in DOMAIN runs : runs[r] \in Run
  BY DEF IInv, TypeOK
<1>4. /\ DOMAIN runs' = DOMAIN runs
      /\ \A r \in DOMAIN runs : runs'[r].event = runs[r].event /\ runs'[r].outbox = <<>>
  BY <1>2, <1>3 DEF Run
<1>5. QueuedJobs' = QueuedJobs /\ PoppedJobs' = {} /\ QueuedOnce'
  BY <1>1 DEF QueuedJobs, PoppedJobs, OnceInv, SentOnce, QueuedOnce
<1>6. BegunJobs' = BegunJobs /\ BegunOnce'
  BY <1>4 DEF BegunJobs, OnceInv, SentOnce, BegunOnce
<1>7. SentOnce' /\ SentJobs' \subseteq SentJobs
  BY <1>5, <1>6 DEF OnceInv, SentOnce, SentJobs
<1>8. TurnsUnsent'
  <2> SUFFICES ASSUME NEW t \in Turns PROVE Unsent(t)'
    BY DEF TurnsUnsent
  <2>1. Unsent(t)
    BY DEF OnceInv, TurnsUnsent
  <2> QED BY <1>1, <1>7, <2>1 DEF Unsent, CallsLeft
<1>9. NoNextTier' /\ OnlyAnnounces'
  BY <1>1, <1>4 DEF NoNextTier, OnlyAnnounces
<1> QED BY <1>7, <1>8, <1>9 DEF OnceInv

LEMMA StepOnce == OneTierPlans /\ IInv /\ OnceInv /\ [Next]_vars => OnceInv'
<1> SUFFICES ASSUME OneTierPlans, IInv, OnceInv, [Next]_vars PROVE OnceInv'
  OBVIOUS
<1>1. ASSUME \/ \E t \in Turns : Begin(t) \/ Plan(t) \/ EndTurn(t)
             \/ ConsumeTrigger \/ \E l \in Loops : LoopFails(l)
             \/ UNCHANGED vars
      PROVE  OnceInv'
  <2>1. UNCHANGED <<calls, holding, jobs, popped, runs, batches>>
    BY <1>1 DEF Begin, Plan, EndTurn, ConsumeTrigger, LoopFails, orchestrator, pool, vars
  <2> QED BY <2>1, QuietOnce
<1>2. ASSUME NEW t \in Turns, Register(t) \/ Delegate(t) \/ PublishJob(t)
      PROVE  OnceInv'
  BY <1>2, RegisterOnce, DelegateOnce, PublishJobOnce
<1>3. ASSUME Pop \/ Spawn \/ Crash \/ \E r \in DOMAIN runs : RunStep(r)
      PROVE  OnceInv'
  BY <1>3, PopOnce, SpawnOnce, CrashOnce, RunStepOnce
<1> QED BY <1>1, <1>2, <1>3 DEF Next, TurnStep

\* Two runs of a job would be two runners of one event.
LEMMA BegunOnceRuns ==
  ASSUME BegunOnce
  PROVE  RunAtMostOnce
<1> SUFFICES ASSUME NEW j \in AllJobs PROVE Cardinality(RunsOf(j)) <= 1
  BY DEF RunAtMostOnce
<1>1. \A r, q \in RunsOf(j) : r = q
  BY DEF BegunOnce, RunsOf
<1>2. CASE RunsOf(j) = {}
  BY <1>2, FS_EmptySet
<1>3. CASE RunsOf(j) # {}
  <2>1. PICK r : RunsOf(j) = {r}
    BY <1>1, <1>3
  <2> QED BY <2>1, FS_Singleton
<1> QED BY <1>2, <1>3

\* With plans of one tier, no delegation is run twice: however turns overlap,
\* whichever batch ids are equal and plans replace each other's batch, whatever
\* publish, loop or process fails and is started again.
THEOREM NoDelegationRunsTwice ==
  ASSUME OneTierPlans
  PROVE  Spec => []RunAtMostOnce
<1>1. Init => OnceInv
  BY InitOnce
<1>2. IInv /\ OnceInv /\ [Next]_vars => OnceInv'
  BY StepOnce
<1>3. OnceInv => RunAtMostOnce
  BY BegunOnceRuns DEF OnceInv, SentOnce
<1> QED BY <1>1, <1>2, <1>3, PoolInvariant, PTL DEF Spec
=============================================================================
