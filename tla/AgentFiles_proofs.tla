--------------------------- MODULE AgentFiles_proofs ---------------------------
(***************************************************************************)
(* Proofs about AgentMemory, SemanticMemory, AgentCatalog and               *)
(* DistillationOutbox, for any number of overlapping calls and faults.      *)
(*                                                                         *)
(*   Notes: an update on a copy nobody has overtaken takes away no note     *)
(*   and no line.                                                           *)
(*   Semantic memory: the index names the topics that have a file; adding   *)
(*   a fact and renaming lose nothing.                                      *)
(*   Definitions: the number of every earlier version is kept, and what a   *)
(*   patch replaces that nobody wrote over meanwhile; none of an agent that *)
(*   is gone.                                                               *)
(*   Outbox: a write is applied to its target once, but for the rows that   *)
(*   took effect and could not be marked.                                   *)
(***************************************************************************)
EXTENDS MCAgentFiles, FiniteSetTheorems, TLAPS

-----------------------------------------------------------------------------
(***************************************************************************)
(* The notes.                                                               *)
(***************************************************************************)
Archived == UNION {archive[l] : l \in Labels}

\* Where an update stands says of what kind it is, and who holds the lock.
Placed ==
  \A u \in Updates :
    LET pc == update[u].pc
        kind == update[u].kind
    IN /\ pc \in {"ask", "spill", "spilling"} => kind = "inbound"
       /\ pc = "log" => kind \in Logging
       /\ pc \in {"noted", "lock"} => kind \in {"inbound", "distilled"}
       /\ pc \in {"summary", "archive"} => kind = "compact"
       /\ pc = "write" => kind \in Appending \cup {"compact"}
       /\ pc = "write" /\ kind \in Locking => lock = u

\* What an update that nobody has overtaken has read is what is stored.
Current ==
  \A u \in Updates \ stale :
    LET pc == update[u].pc
        kind == update[u].kind
    IN /\ pc \in {"ask", "log"} => update[u].lines = log
       /\ pc = "spilling" => update[u].read = spill
       /\ pc \in {"summary", "archive"} => update[u].read = context
       /\ pc = "write" => IF kind = "compact" THEN context \subseteq Archived ELSE update[u].read = context

MemInv == MemTypeOK /\ Placed /\ Current

-----------------------------------------------------------------------------
\* The line of an update comes before those it has read.
LEMMA LoggedFacts ==
  ASSUME NEW u \in Updates, update[u].lines \in Seq(Updates)
  PROVE  Logged(u) \in Seq(Updates) /\ ToSet(update[u].lines) \subseteq ToSet(Logged(u))
<1> DEFINE s == update[u].lines
<1>1. Logged(u) \in Seq(Updates) /\ Len(Logged(u)) = Len(s) + 1
      /\ \A i \in 1..Len(s) : Logged(u)[i + 1] = s[i]
  <2>1. s \in Seq(Updates) /\ <<u>> \in Seq(Updates) /\ Len(<<u>>) = 1 /\ Logged(u) = <<u>> \o s
    BY DEF Logged
  <2> HIDE DEF s
  <2> QED BY <2>1
<1>2. ASSUME NEW x \in ToSet(s) PROVE x \in ToSet(Logged(u))
  <2>1. PICK i \in 1..Len(s) : x = s[i]
    BY <1>2 DEF ToSet
  <2>2. i + 1 \in DOMAIN Logged(u) /\ x = Logged(u)[i + 1]
    BY <1>1, <2>1
  <2> QED BY <2>2 DEF ToSet
<1> QED BY <1>1, <1>2

\* What a cut leaves of a text.
Left(s) == SubSeq(s, 1, Len(s) - Len(Cut(s)))

\* A cut splits a text: nothing is in neither part, and what is left keeps to the cap.
LEMMA CutFacts ==
  ASSUME NEW s \in Seq(Updates)
  PROVE  /\ Cut(s) \in Seq(Updates) /\ Left(s) \in Seq(Updates)
         /\ Len(Left(s)) <= Cap
         /\ ToSet(s) \subseteq ToSet(Left(s)) \cup ToSet(Cut(s))
         /\ Cut(s) = <<>> => Left(s) = s
<1> USE MemAssumption
<1>1. CASE Len(s) > Cap
  <2>1. Cut(s) = SubSeq(s, Cap + 1, Len(s))
    BY <1>1 DEF Cut
  <2>2. /\ Cut(s) \in Seq(Updates) /\ Len(Cut(s)) = Len(s) - Cap
        /\ \A i \in 1..(Len(s) - Cap) : Cut(s)[i] = s[Cap + i]
    BY <1>1, <2>1
  <2>3. /\ Left(s) = SubSeq(s, 1, Cap)
        /\ Left(s) \in Seq(Updates) /\ Len(Left(s)) = Cap
        /\ \A i \in 1..Cap : Left(s)[i] = s[i]
    BY <1>1, <2>2 DEF Left
  <2>4. ASSUME NEW x \in ToSet(s) PROVE x \in ToSet(Left(s)) \cup ToSet(Cut(s))
    <3>1. PICK i \in 1..Len(s) : x = s[i]
      BY <2>4 DEF ToSet
    <3>2. CASE i <= Cap
      <4>1. i \in DOMAIN Left(s) /\ x = Left(s)[i]
        BY <2>3, <3>1, <3>2
      <4> QED BY <4>1 DEF ToSet
    <3>3. CASE i > Cap
      <4>1. i - Cap \in 1..(Len(s) - Cap) /\ Cap + (i - Cap) = i
        BY <3>1, <3>3
      <4>2. i - Cap \in DOMAIN Cut(s) /\ x = Cut(s)[i - Cap]
        BY <2>2, <3>1, <4>1
      <4> QED BY <4>2 DEF ToSet
    <3> QED BY <3>1, <3>2, <3>3
  <2>5. Cut(s) # <<>>
    BY <1>1, <2>2
  <2> QED BY <2>2, <2>3, <2>4, <2>5
<1>2. CASE ~(Len(s) > Cap)
  <2>1. Cut(s) = <<>>
    BY <1>2 DEF Cut
  <2>2. Left(s) = SubSeq(s, 1, Len(s))
    BY <2>1 DEF Left
  <2>3. Left(s) = s
    BY <2>2
  <2>4. <<>> \in Seq(Updates)
    OBVIOUS
  <2> QED BY <1>2, <2>1, <2>3, <2>4
<1> QED BY <1>1, <1>2

\* What every step leaves alone.
MemFrame(u) ==
  /\ update' = [update EXCEPT ![u] = update'[u]]
  /\ update'[u] \in MemUpdate
  /\ update'[u].kind = update[u].kind
  /\ stale' \subseteq Updates
  /\ stale \ {u} \subseteq stale'

\* Where a step leaves its own update.
PlacedNext(u) ==
  LET pc == update'[u].pc
      kind == update'[u].kind
  IN /\ pc \in {"ask", "spill", "spilling"} => kind = "inbound"
     /\ pc = "log" => kind \in Logging
     /\ pc \in {"noted", "lock"} => kind \in {"inbound", "distilled"}
     /\ pc \in {"summary", "archive"} => kind = "compact"
     /\ pc = "write" => kind \in Appending \cup {"compact"}
     /\ pc = "write" /\ kind \in Locking => lock' = u

\* A step writes no text under another update that nobody has overtaken, and releases no
\* lock of another.
Considerate(u) ==
  /\ \A v \in Updates \ ({u} \cup stale') :
       /\ update[v].pc \in {"ask", "log"} => log' = log
       /\ update[v].pc = "spilling" => spill' = spill
       /\ update[v].pc \in {"summary", "archive", "write"} => context' = context
       /\ update[v].pc = "write" /\ Is(v, "compact") => Archived \subseteq Archived'
  /\ \A v \in Updates \ {u} : lock = v => lock' = v

\* What the update of a step holds afterwards.
CurrentNext(u) ==
  LET pc == update'[u].pc
      kind == update'[u].kind
  IN u \notin stale' =>
       /\ pc \in {"ask", "log"} => update'[u].lines = log'
       /\ pc = "spilling" => update'[u].read = spill'
       /\ pc \in {"summary", "archive"} => update'[u].read = context'
       /\ pc = "write" => IF kind = "compact" THEN context' \subseteq Archived' ELSE update'[u].read = context'

StoresOK ==
  /\ context' \subseteq Updates /\ archive' \in [Labels -> SUBSET Updates]
  /\ log' \in Seq(Updates) /\ Len(log') <= Cap /\ spill' \subseteq Updates
  /\ lock' \in Updates \cup {Nobody}

\* What the update of a step has, and where it stands.
Standing(u) ==
  /\ update \in [Updates -> MemUpdate] /\ update[u] \in MemUpdate
  /\ update[u].read \subseteq Updates /\ update[u].lines \in Seq(Updates) /\ update[u].summary \subseteq Updates
  /\ context \subseteq Updates /\ archive \in [Labels -> SUBSET Updates]
  /\ log \in Seq(Updates) /\ Len(log) <= Cap /\ spill \subseteq Updates
  /\ lock \in Updates \cup {Nobody} /\ slips \in 0..MaxSlips /\ stale \subseteq Updates
  /\ update[u].pc \in {"ask", "spill", "spilling"} => update[u].kind = "inbound"
  /\ update[u].pc = "log" => update[u].kind \in Logging
  /\ update[u].pc \in {"noted", "lock"} => update[u].kind \in {"inbound", "distilled"}
  /\ update[u].pc \in {"summary", "archive"} => update[u].kind = "compact"
  /\ update[u].pc = "write" => update[u].kind \in Appending \cup {"compact"}
  /\ update[u].pc = "write" /\ update[u].kind \in Locking => lock = u

LEMMA StandingHolds ==
  ASSUME MemInv, NEW u \in Updates
  PROVE  Standing(u)
<1>1. update \in [Updates -> MemUpdate] /\ update[u] \in MemUpdate
  BY DEF MemInv, MemTypeOK
<1>2. update[u].read \subseteq Updates /\ update[u].lines \in Seq(Updates) /\ update[u].summary \subseteq Updates
  BY <1>1 DEF MemUpdate
<1> QED BY <1>1, <1>2 DEF Standing, MemInv, MemTypeOK, Placed

\* A failing call, and one that does not fail.
LEMMA SlipFacts ==
  ASSUME MemInv
  PROVE  /\ \A what : Slip(what) => slips' \in 0..MaxSlips /\ slips' # slips
         /\ UNCHANGED slips => slips' \in 0..MaxSlips
BY MemAssumption DEF MemInv, MemTypeOK, Slip

LEMMA GoFacts ==
  ASSUME MemInv, NEW u \in Updates, NEW pc \in Pcs, Go(u, pc)
  PROVE  /\ update' = [update EXCEPT ![u] = update'[u]]
         /\ update'[u] \in MemUpdate
         /\ update'[u].kind = update[u].kind /\ update'[u].pc = pc
         /\ update'[u].read = update[u].read /\ update'[u].lines = update[u].lines
<1>1. update \in [Updates -> MemUpdate] /\ update[u] \in MemUpdate
  BY DEF MemInv, MemTypeOK
<1> QED BY <1>1 DEF Go, MemUpdate

Steady(u) ==
  /\ MemFrame(u) /\ PlacedNext(u) /\ Considerate(u) /\ CurrentNext(u) /\ StoresOK /\ slips' \in 0..MaxSlips

LEMMA NodeSteps ==
  ASSUME MemInv, NEW u \in Updates,
         ReadNode(u) \/ Extract(u) \/ Noted(u) \/ ReadToCompact(u) \/ Summarise(u)
  PROVE  Steady(u)
<1>1. Standing(u)
  BY StandingHolds
<1>2. UNCHANGED <<context, archive, log, spill, lock, stale>>
  BY DEF ReadNode, Extract, Noted, ReadToCompact, Summarise
<1>3. Considerate(u) /\ StoresOK /\ stale' \subseteq Updates /\ stale \ {u} \subseteq stale'
  BY <1>1, <1>2 DEF Considerate, StoresOK, Standing, Archived
<1>4. slips' \in 0..MaxSlips
  BY SlipFacts DEF ReadNode, Extract, Noted, ReadToCompact, Summarise
<1> SUFFICES MemFrame(u) /\ PlacedNext(u) /\ CurrentNext(u)
  BY <1>3, <1>4 DEF Steady
<1>5. CASE ReadNode(u)
  <2>1. CASE /\ update' = [update EXCEPT ![u].pc = IF Is(u, "inbound") THEN "ask" ELSE "log",
                                    ![u].lines = log]
    <3>1. /\ update' = [update EXCEPT ![u] = update'[u]]
          /\ update'[u] \in MemUpdate
          /\ update'[u].kind = update[u].kind
          /\ update'[u].pc = IF Is(u, "inbound") THEN "ask" ELSE "log"
          /\ update'[u].lines = log
      BY <1>1, <2>1 DEF Standing, MemUpdate, Pcs
    <3> QED BY <1>1, <1>2, <1>3, <1>5, <3>1 DEF ReadNode, MemFrame, PlacedNext, CurrentNext, Is, Logging
  <2>2. CASE Is(u, "distilled") /\ Go(u, "noted")
    <3>1. "noted" \in Pcs
      BY DEF Pcs
    <3> QED BY <1>2, <1>3, <2>2, <3>1, GoFacts DEF MemFrame, PlacedNext, CurrentNext, Is
  <2>3. CASE Go(u, Broken(u))
    <3>1. Broken(u) \in Pcs /\ (Broken(u) = "failed" \/ (Broken(u) = "noted" /\ update[u].kind = "distilled"))
      BY DEF Broken, Pcs, Is
    <3> QED BY <1>2, <1>3, <2>3, <3>1, GoFacts DEF MemFrame, PlacedNext, CurrentNext
  <2> QED BY <1>5, <2>1, <2>2, <2>3 DEF ReadNode
<1>6. CASE Extract(u)
  <2>1. PICK pc \in {"log", "lock", "done", "failed"} : Go(u, pc)
    BY <1>6 DEF Extract
  <2>2. pc \in Pcs /\ update[u].kind = "inbound" /\ update[u].pc = "ask"
    BY <1>1, <1>6 DEF Pcs, Extract, Standing
  <2>3. u \notin stale => update[u].lines = log
    BY <2>2 DEF MemInv, Current
  <2> QED BY <1>2, <1>3, <2>1, <2>2, <2>3, GoFacts DEF MemFrame, PlacedNext, CurrentNext, Logging
<1>7. CASE Noted(u)
  <2>1. PICK pc \in {"lock", "done"} : Go(u, pc)
    BY <1>7 DEF Noted
  <2>2. pc \in Pcs /\ update[u].kind \in {"inbound", "distilled"}
    BY <1>1, <1>7 DEF Pcs, Noted, Standing
  <2> QED BY <1>2, <1>3, <2>1, <2>2, GoFacts DEF MemFrame, PlacedNext, CurrentNext
<1>8. CASE ReadToCompact(u)
  <2>1. CASE Go(u, "failed")
    <3>1. "failed" \in Pcs
      BY DEF Pcs
    <3> QED BY <1>2, <1>3, <2>1, <3>1, GoFacts DEF MemFrame, PlacedNext, CurrentNext
  <2>2. CASE ~Go(u, "failed")
    <3>1. PICK pc \in {"summary", "done"} : update' = [update EXCEPT ![u].pc = pc, ![u].read = context]
      BY <1>8, <2>2 DEF ReadToCompact
    <3>2. /\ update' = [update EXCEPT ![u] = update'[u]]
          /\ update'[u] \in MemUpdate
          /\ update'[u].kind = update[u].kind /\ update'[u].pc = pc /\ update'[u].read = context
      BY <1>1, <3>1 DEF Standing, MemUpdate, Pcs
    <3> QED BY <1>2, <1>3, <1>8, <3>2 DEF ReadToCompact, MemFrame, PlacedNext, CurrentNext, Is
  <2> QED BY <2>1, <2>2
<1>9. CASE Summarise(u)
  <2>1. PICK s \in {{}, update[u].read} : update' = [update EXCEPT ![u].pc = "archive", ![u].summary = s]
    BY <1>9 DEF Summarise
  <2>2. s \subseteq Updates
    BY <1>1 DEF Standing
  <2>3. /\ update' = [update EXCEPT ![u] = update'[u]]
        /\ update'[u] \in MemUpdate
        /\ update'[u].kind = update[u].kind /\ update'[u].pc = "archive" /\ update'[u].read = update[u].read
    BY <1>1, <2>1, <2>2 DEF Standing, MemUpdate, Pcs
  <2>4. update[u].kind = "compact" /\ update[u].pc = "summary"
    BY <1>1, <1>9 DEF Summarise, Standing
  <2>5. u \notin stale => update[u].read = context
    BY <2>4 DEF MemInv, Current
  <2> QED BY <1>2, <1>3, <2>3, <2>4, <2>5 DEF MemFrame, PlacedNext, CurrentNext
<1> QED BY <1>5, <1>6, <1>7, <1>8, <1>9

LEMMA WriteNodeStep ==
  ASSUME MemInv, NEW u \in Updates, WriteNode(u)
  PROVE  Steady(u)
<1>1. Standing(u)
  BY StandingHolds
<1>2. /\ update[u].pc = "log" /\ UNCHANGED <<context, archive, spill, lock>>
  BY DEF WriteNode
<1>3. slips' \in 0..MaxSlips
  BY SlipFacts DEF WriteNode
<1>4. CASE Go(u, Broken(u)) /\ UNCHANGED <<log, stale>>
  <2>1. Broken(u) \in Pcs /\ (Broken(u) = "failed" \/ (Broken(u) = "noted" /\ update[u].kind = "distilled"))
    BY DEF Broken, Pcs, Is
  <2>2. MemFrame(u) /\ PlacedNext(u) /\ CurrentNext(u)
    BY <1>1, <1>2, <1>4, <2>1, GoFacts DEF MemFrame, PlacedNext, CurrentNext, Standing
  <2>3. Considerate(u) /\ StoresOK
    BY <1>1, <1>2, <1>4 DEF Considerate, StoresOK, Standing, Archived
  <2> QED BY <1>3, <2>2, <2>3 DEF Steady
<1>5. CASE /\ log' = SubSeq(Logged(u), 1, Len(Logged(u)) - Len(Cut(Logged(u))))
           /\ update' = [update EXCEPT ![u].lines = IF Is(u, "inbound") THEN Cut(Logged(u)) ELSE <<>>,
                                       ![u].pc = AfterLog(u)]
           /\ Overtake(u, Holds({"ask", "log"}))
  <2>1. Logged(u) \in Seq(Updates)
    BY <1>1, LoggedFacts DEF Standing
  <2>2. Cut(Logged(u)) \in Seq(Updates) /\ log' \in Seq(Updates) /\ Len(log') <= Cap
    BY <1>5, <2>1, CutFacts DEF Left
  <2>3. <<>> \in Seq(Updates)
    OBVIOUS
  <2>4. AfterLog(u) \in {"done", "spill", "noted"} /\ (AfterLog(u) = "spill" => Is(u, "inbound"))
        /\ (AfterLog(u) = "noted" => update[u].kind \in {"inbound", "distilled"})
    BY <1>1, <1>2 DEF AfterLog, Is, Standing, Logging
  <2>5. /\ update' = [update EXCEPT ![u] = update'[u]]
        /\ update'[u] \in MemUpdate
        /\ update'[u].kind = update[u].kind /\ update'[u].pc = AfterLog(u)
    BY <1>1, <1>5, <2>2, <2>3, <2>4 DEF Standing, MemUpdate, Pcs
  <2>6. stale' \subseteq Updates /\ stale \subseteq stale' /\ Holds({"ask", "log"}) \ {u} \subseteq stale'
    BY <1>1, <1>5 DEF Overtake, Holds, Standing
  <2>7. MemFrame(u) /\ PlacedNext(u) /\ CurrentNext(u)
    BY <2>4, <2>5, <2>6 DEF MemFrame, PlacedNext, CurrentNext, Is
  <2>8. Considerate(u)
    BY <1>2, <2>6 DEF Considerate, Holds, Archived
  <2>9. StoresOK
    BY <1>1, <1>2, <2>2 DEF StoresOK, Standing
  <2> QED BY <1>3, <2>7, <2>8, <2>9 DEF Steady
<1> QED BY <1>4, <1>5 DEF WriteNode

LEMMA SpillSteps ==
  ASSUME MemInv, NEW u \in Updates, ReadSpill(u) \/ WriteSpill(u)
  PROVE  Steady(u)
<1>1. Standing(u)
  BY StandingHolds
<1>2. UNCHANGED <<context, archive, log, lock>> /\ update[u].pc \in {"spill", "spilling"}
  BY DEF ReadSpill, WriteSpill
<1>3. slips' \in 0..MaxSlips
  BY SlipFacts DEF ReadSpill, WriteSpill
<1>4. update[u].kind = "inbound"
  BY <1>1, <1>2 DEF Standing
<1>5. CASE ReadSpill(u)
  <2>1. /\ update' = [update EXCEPT ![u] = update'[u]]
        /\ update'[u] \in MemUpdate
        /\ update'[u].kind = update[u].kind /\ update'[u].pc = "spilling"
        /\ stale' \subseteq Updates /\ stale \subseteq stale'
        /\ u \notin stale' => update'[u].read = spill
    <3>1. CASE Go(u, "spilling") /\ stale' = stale \cup {u}
      <4>1. "spilling" \in Pcs
        BY DEF Pcs
      <4> QED BY <1>1, <3>1, <4>1, GoFacts DEF Standing
    <3>2. CASE update' = [update EXCEPT ![u].pc = "spilling", ![u].read = spill] /\ UNCHANGED stale
      BY <1>1, <3>2 DEF Standing, MemUpdate, Pcs
    <3> QED BY <1>5, <3>1, <3>2 DEF ReadSpill
  <2>2. UNCHANGED spill
    BY <1>5 DEF ReadSpill
  <2>3. MemFrame(u) /\ PlacedNext(u) /\ CurrentNext(u)
    BY <1>4, <2>1, <2>2 DEF MemFrame, PlacedNext, CurrentNext
  <2>4. Considerate(u) /\ StoresOK
    BY <1>1, <1>2, <2>2 DEF Considerate, StoresOK, Standing, Archived
  <2> QED BY <1>3, <2>3, <2>4 DEF Steady
<1>6. CASE WriteSpill(u)
  <2>1. CASE Go(u, "failed") /\ UNCHANGED <<spill, stale>>
    <3>1. "failed" \in Pcs
      BY DEF Pcs
    <3>2. MemFrame(u) /\ PlacedNext(u) /\ CurrentNext(u)
      BY <1>1, <2>1, <3>1, GoFacts DEF MemFrame, PlacedNext, CurrentNext, Standing
    <3>3. Considerate(u) /\ StoresOK
      BY <1>1, <1>2, <2>1 DEF Considerate, StoresOK, Standing, Archived
    <3> QED BY <1>3, <3>2, <3>3 DEF Steady
  <2>2. CASE /\ spill' = update[u].read \cup ToSet(update[u].lines)
             /\ update' = [update EXCEPT ![u].pc = "noted", ![u].read = {}, ![u].lines = <<>>]
             /\ Overtake(u, Holds({"spilling"}))
    <3>1. <<>> \in Seq(Updates)
      OBVIOUS
    <3>2. /\ update' = [update EXCEPT ![u] = update'[u]]
          /\ update'[u] \in MemUpdate
          /\ update'[u].kind = update[u].kind /\ update'[u].pc = "noted"
      BY <1>1, <2>2, <3>1 DEF Standing, MemUpdate, Pcs
    <3>3. stale' \subseteq Updates /\ stale \subseteq stale' /\ Holds({"spilling"}) \ {u} \subseteq stale'
      BY <1>1, <2>2 DEF Overtake, Holds, Standing
    <3>4. ToSet(update[u].lines) \subseteq Updates
      BY <1>1 DEF Standing, ToSet
    <3>5. MemFrame(u) /\ PlacedNext(u) /\ CurrentNext(u)
      BY <1>4, <3>2, <3>3 DEF MemFrame, PlacedNext, CurrentNext
    <3>6. Considerate(u)
      BY <1>2, <3>3 DEF Considerate, Holds, Archived
    <3>7. StoresOK
      BY <1>1, <1>2, <2>2, <3>4 DEF StoresOK, Standing
    <3> QED BY <1>3, <3>5, <3>6, <3>7 DEF Steady
  <2> QED BY <1>6, <2>1, <2>2 DEF WriteSpill
<1> QED BY <1>5, <1>6

LEMMA ReadContextStep ==
  ASSUME MemInv, NEW u \in Updates, ReadContext(u)
  PROVE  Steady(u)
<1>1. Standing(u)
  BY StandingHolds
<1>2. UNCHANGED <<context, archive, log, spill>>
  BY DEF ReadContext
<1>3. slips' \in 0..MaxSlips
  BY SlipFacts DEF ReadContext
<1>4. /\ update[u].kind \in Appending
      /\ update[u].kind \in Locking => lock = Nobody /\ lock' = u
      /\ update[u].kind \notin Locking => lock' = lock
  BY DEF ReadContext, Locking, Logging, Appending, Is, LockFree
<1>5. /\ update' = [update EXCEPT ![u] = update'[u]]
      /\ update'[u] \in MemUpdate
      /\ update'[u].kind = update[u].kind /\ update'[u].pc = "write"
      /\ stale' \subseteq Updates /\ stale \ {u} \subseteq stale'
      /\ u \notin stale' => update'[u].read = context
  <2>1. CASE update' = [update EXCEPT ![u].pc = "write", ![u].read = context] /\ stale' = stale \ {u}
    BY <1>1, <2>1 DEF Standing, MemUpdate, Pcs
  <2>2. CASE Go(u, "write") /\ stale' = stale \cup {u}
    <3>1. "write" \in Pcs
      BY DEF Pcs
    <3> QED BY <1>1, <2>2, <3>1, GoFacts DEF Standing
  <2> QED BY <2>1, <2>2 DEF ReadContext
<1>6. MemFrame(u) /\ PlacedNext(u) /\ CurrentNext(u)
  BY <1>2, <1>4, <1>5 DEF MemFrame, PlacedNext, CurrentNext, Appending
<1>7. Considerate(u)
  BY <1>2, <1>4, MemAssumption DEF Considerate, Archived
<1>8. StoresOK
  BY <1>1, <1>2, <1>4 DEF StoresOK, Standing
<1> QED BY <1>3, <1>6, <1>7, <1>8 DEF Steady

LEMMA ArchiveStep ==
  ASSUME MemInv, NEW u \in Updates, Archive(u)
  PROVE  Steady(u)
<1>1. Standing(u)
  BY StandingHolds
<1>2. UNCHANGED <<context, log, spill, lock>> /\ update[u].pc = "archive" /\ update[u].kind = "compact"
  BY <1>1 DEF Archive, Standing
<1>3. slips' \in 0..MaxSlips
  BY SlipFacts DEF Archive
<1>4. "failed" \in Pcs /\ "write" \in Pcs
  BY DEF Pcs
<1>5. CASE Go(u, "failed") /\ UNCHANGED <<archive, stale>>
  <2>1. MemFrame(u) /\ PlacedNext(u) /\ CurrentNext(u)
    BY <1>1, <1>4, <1>5, GoFacts DEF MemFrame, PlacedNext, CurrentNext, Standing
  <2>2. Considerate(u) /\ StoresOK
    BY <1>1, <1>2, <1>5 DEF Considerate, StoresOK, Standing, Archived
  <2> QED BY <1>3, <2>1, <2>2 DEF Steady
<1>6. ASSUME NEW l \in Labels,
             archive' = [archive EXCEPT ![l] = update[u].read],
             stale' = IF archive[l] = {} THEN stale ELSE stale \cup {v \in Holds({"write"}) : Is(v, "compact")},
             Go(u, "write") \/ Go(u, "failed")
      PROVE  Steady(u)
  <2>1. /\ update' = [update EXCEPT ![u] = update'[u]]
        /\ update'[u] \in MemUpdate
        /\ update'[u].kind = "compact" /\ update'[u].pc \in {"write", "failed"}
    BY <1>2, <1>4, <1>6, GoFacts
  <2>2. stale' \subseteq Updates /\ stale \subseteq stale'
    BY <1>1, <1>6 DEF Holds, Standing
  <2>3. u \notin stale' => context' \subseteq Archived'
    <3> SUFFICES ASSUME u \notin stale'
                 PROVE  context \subseteq Archived'
      BY <1>2
    <3>1. update[u].read = context
      BY <1>2, <2>2 DEF MemInv, Current
    <3>2. archive'[l] = context
      BY <1>1, <1>6, <3>1 DEF Standing
    <3> QED BY <3>2 DEF Archived
  <2>4. CASE archive[l] = {}
    <3>1. Archived \subseteq Archived'
      <4> SUFFICES ASSUME NEW k \in Labels, NEW x \in archive[k]
                   PROVE  x \in archive'[k]
        BY DEF Archived
      <4> QED BY <1>1, <1>6, <2>4 DEF Standing
    <3> QED BY <1>1, <1>2, <1>3, <1>6, <2>1, <2>2, <2>3, <3>1
            DEF Steady, MemFrame, PlacedNext, CurrentNext, Considerate, StoresOK, Standing, Locking
  <2>5. CASE archive[l] # {}
    <3>1. \A v \in Updates \ stale' : ~(update[v].pc = "write" /\ Is(v, "compact"))
      BY <1>6, <2>5 DEF Holds
    <3> QED BY <1>1, <1>2, <1>3, <1>6, <2>1, <2>2, <2>3, <3>1
            DEF Steady, MemFrame, PlacedNext, CurrentNext, Considerate, StoresOK, Standing, Locking
  <2> QED BY <2>4, <2>5
<1> QED BY <1>5, <1>6 DEF Archive

LEMMA WriteContextStep ==
  ASSUME MemInv, NEW u \in Updates, WriteContext(u)
  PROVE  Steady(u)
<1>1. Standing(u)
  BY StandingHolds
<1>2. /\ UNCHANGED <<archive, log, spill>> /\ update[u].pc = "write"
      /\ lock' = IF lock = u THEN Nobody ELSE lock
  BY DEF WriteContext, Unlock
<1>3. slips' \in 0..MaxSlips
  BY SlipFacts DEF WriteContext
<1>4. CASE Go(u, "failed") /\ UNCHANGED <<context, stale>>
  <2>1. "failed" \in Pcs
    BY DEF Pcs
  <2>2. MemFrame(u) /\ PlacedNext(u) /\ CurrentNext(u)
    BY <1>1, <1>4, <2>1, GoFacts DEF MemFrame, PlacedNext, CurrentNext, Standing
  <2>3. Considerate(u) /\ StoresOK
    BY <1>1, <1>2, <1>4 DEF Considerate, StoresOK, Standing, Archived
  <2> QED BY <1>3, <2>2, <2>3 DEF Steady
<1>5. CASE /\ context' = Written(u)
           /\ update' = [update EXCEPT ![u].pc = "done", ![u].read = {}, ![u].summary = {}]
           /\ Overtake(u, Sharing(u))
  <2>1. /\ update' = [update EXCEPT ![u] = update'[u]]
        /\ update'[u] \in MemUpdate
        /\ update'[u].kind = update[u].kind /\ update'[u].pc = "done"
    BY <1>1, <1>5 DEF Standing, MemUpdate, Pcs
  <2>2. stale' \subseteq Updates /\ stale \subseteq stale' /\ Sharing(u) \ {u} \subseteq stale'
    BY <1>1, <1>5 DEF Overtake, Sharing, Holds, Standing
  <2>3. MemFrame(u) /\ PlacedNext(u) /\ CurrentNext(u)
    BY <2>1, <2>2 DEF MemFrame, PlacedNext, CurrentNext
  <2>4. ASSUME NEW v \in Updates \ ({u} \cup stale')
        PROVE  update[v].pc \notin {"summary", "archive", "write"}
    <3> SUFFICES ASSUME update[v].pc \in {"summary", "archive", "write"}
                 PROVE  FALSE
      OBVIOUS
    <3>1. v \notin Sharing(u)
      BY <2>2, <2>4
    <3>2. update[u].kind = "inbound" /\ update[v].kind = "inbound"
      BY <3>1 DEF Sharing, Holds, Locking
    <3>3. Standing(v)
      BY StandingHolds
    <3>4. lock = u /\ lock = v
      BY <1>1, <1>2, <3>2, <3>3 DEF Standing, Locking
    <3> QED BY <2>4, <3>4
  <2>5. Considerate(u)
    BY <1>2, <2>4 DEF Considerate, Archived
  <2>6. StoresOK
    BY <1>1, <1>2, <1>5 DEF StoresOK, Written, Standing
  <2> QED BY <1>3, <2>3, <2>5, <2>6 DEF Steady
<1> QED BY <1>4, <1>5 DEF WriteContext

LEMMA ReplaceStep ==
  ASSUME MemInv, NEW u \in Updates, Replace(u)
  PROVE  Steady(u)
<1>1. Standing(u)
  BY StandingHolds
<1>2. UNCHANGED <<archive, log, spill, lock>> /\ update[u].kind \in Replacing
  BY DEF Replace
<1>3. slips' \in 0..MaxSlips
  BY SlipFacts DEF Replace
<1>4. "failed" \in Pcs /\ "done" \in Pcs
  BY DEF Pcs
<1>5. Go(u, "failed") \/ Go(u, "done")
  BY DEF Replace
<1>6. CASE UNCHANGED <<context, stale>>
  <2>1. MemFrame(u) /\ PlacedNext(u) /\ CurrentNext(u)
    BY <1>1, <1>4, <1>5, <1>6, GoFacts DEF MemFrame, PlacedNext, CurrentNext, Standing
  <2>2. Considerate(u) /\ StoresOK
    BY <1>1, <1>2, <1>6 DEF Considerate, StoresOK, Standing, Archived
  <2> QED BY <1>3, <2>1, <2>2 DEF Steady
<1>7. CASE context' = {u} /\ Overtake(u, Sharing(u))
  <2>1. stale' \subseteq Updates /\ stale \subseteq stale' /\ Sharing(u) \ {u} \subseteq stale'
    BY <1>1, <1>7 DEF Overtake, Sharing, Holds, Standing
  <2>2. MemFrame(u) /\ PlacedNext(u) /\ CurrentNext(u)
    BY <1>4, <1>5, <2>1, GoFacts DEF MemFrame, PlacedNext, CurrentNext
  <2>3. \A v \in Updates \ ({u} \cup stale') : update[v].pc \notin {"summary", "archive", "write"}
    BY <1>2, <2>1 DEF Sharing, Holds, Locking, Replacing
  <2>4. Considerate(u)
    BY <1>2, <2>3 DEF Considerate, Archived
  <2>5. StoresOK
    BY <1>1, <1>2, <1>7 DEF StoresOK, Standing
  <2> QED BY <1>3, <2>2, <2>4, <2>5 DEF Steady
<1> QED BY <1>6, <1>7 DEF Replace

LEMMA MemSteps ==
  ASSUME MemInv, NEW u \in Updates, MemStep(u)
  PROVE  Steady(u)
BY NodeSteps, WriteNodeStep, SpillSteps, ReadContextStep, ArchiveStep, WriteContextStep, ReplaceStep
   DEF MemStep

LEMMA MemInvStep == MemInv /\ [MemNext]_memVars => MemInv'
<1>1. CASE UNCHANGED memVars
  BY <1>1 DEF memVars, MemInv, MemTypeOK, Placed, Current, Archived
<1>2. ASSUME MemInv, NEW u \in Updates, MemStep(u)
      PROVE  MemInv'
  <2>1. Steady(u) /\ Standing(u)
    BY <1>2, MemSteps, StandingHolds
  <2>2. \A v \in Updates \ {u} : update'[v] = update[v]
    BY <2>1 DEF Steady, MemFrame, Standing
  <2>3. MemTypeOK'
    BY <2>1 DEF Steady, MemFrame, StoresOK, Standing, MemTypeOK
  <2>4. Placed'
    <3> SUFFICES ASSUME NEW v \in Updates
                 PROVE  LET pc == update'[v].pc
                            kind == update'[v].kind
                        IN /\ pc \in {"ask", "spill", "spilling"} => kind = "inbound"
                           /\ pc = "log" => kind \in Logging
                           /\ pc \in {"noted", "lock"} => kind \in {"inbound", "distilled"}
                           /\ pc \in {"summary", "archive"} => kind = "compact"
                           /\ pc = "write" => kind \in Appending \cup {"compact"}
                           /\ pc = "write" /\ kind \in Locking => lock' = v
      BY DEF Placed
    <3>1. CASE v = u
      BY <2>1, <3>1 DEF Steady, PlacedNext
    <3>2. CASE v # u
      BY <1>2, <2>1, <2>2, <3>2 DEF Steady, Considerate, MemInv, Placed
    <3> QED BY <3>1, <3>2
  <2>5. Current'
    <3> SUFFICES ASSUME NEW v \in Updates, v \notin stale'
                 PROVE  LET pc == update'[v].pc
                            kind == update'[v].kind
                        IN /\ pc \in {"ask", "log"} => update'[v].lines = log'
                           /\ pc = "spilling" => update'[v].read = spill'
                           /\ pc \in {"summary", "archive"} => update'[v].read = context'
                           /\ pc = "write" => IF kind = "compact" THEN context' \subseteq Archived'
                                               ELSE update'[v].read = context'
      BY DEF Current
    <3>1. CASE v = u
      BY <2>1, <3>1 DEF Steady, CurrentNext
    <3>2. CASE v # u
      <4>1. v \notin stale /\ update'[v] = update[v]
        BY <2>1, <2>2, <3>2 DEF Steady, MemFrame
      <4>2. /\ update[v].pc \in {"ask", "log"} => update[v].lines = log
            /\ update[v].pc = "spilling" => update[v].read = spill
            /\ update[v].pc \in {"summary", "archive"} => update[v].read = context
            /\ update[v].pc = "write" => IF update[v].kind = "compact" THEN context \subseteq Archived
                                         ELSE update[v].read = context
        BY <1>2, <4>1 DEF MemInv, Current
      <4>3. /\ update[v].pc \in {"ask", "log"} => log' = log
            /\ update[v].pc = "spilling" => spill' = spill
            /\ update[v].pc \in {"summary", "archive", "write"} => context' = context
            /\ update[v].pc = "write" /\ update[v].kind = "compact" => Archived \subseteq Archived'
        BY <2>1, <3>2 DEF Steady, Considerate, Is
      <4> QED BY <4>1, <4>2, <4>3
    <3> QED BY <3>1, <3>2
  <2> QED BY <2>3, <2>4, <2>5 DEF MemInv
<1> QED BY <1>1, <1>2 DEF MemNext

LEMMA MemInvInit == MemInit => MemInv
<1> SUFFICES ASSUME MemInit PROVE MemInv
  OBVIOUS
<1>1. PICK kind \in [Updates -> Kinds] : update = [u \in Updates |-> Fresh(kind[u])]
  BY DEF MemInit
<1>2. <<>> \in Seq(Updates) /\ Len(<<>>) = 0
  OBVIOUS
<1>3. \A k \in Kinds : Fresh(k) \in MemUpdate /\ Fresh(k).pc = "new"
  BY <1>2 DEF Fresh, MemUpdate, Pcs
<1>4. update \in [Updates -> MemUpdate] /\ \A u \in Updates : update[u].pc = "new"
  BY <1>1, <1>3
<1>5. MemTypeOK
  BY <1>2, <1>4, MemAssumption DEF MemInit, MemTypeOK
<1> QED BY <1>4, <1>5 DEF MemInv, Placed, Current

\* What an update holds of a text is what is stored, unless it is marked as overtaken; an
\* intelligence keeps to its cap.
THEOREM NotesInvariant == MemSpec => []MemInv
BY MemInvInit, MemInvStep, PTL DEF MemSpec

\* The lines that other updates have in hand stay in hand.
LEMMA LinesKept ==
  ASSUME MemInv, NEW u \in Updates, MemStep(u), NEW X, Lines' \subseteq X,
         ToSet(log) \subseteq X, spill \subseteq X,
         update[u].pc \in {"spill", "spilling"} => ToSet(update[u].lines) \subseteq X
  PROVE  Lines \subseteq X
<1>1. \A v \in Updates \ {u} : update'[v] = update[v]
  BY MemSteps, StandingHolds DEF Steady, MemFrame, Standing
<1>2. ASSUME NEW v \in Holds({"spill", "spilling"}), NEW x \in ToSet(update[v].lines)
      PROVE  x \in X
  <2>1. v \in Updates /\ update[v].pc \in {"spill", "spilling"}
    BY <1>2 DEF Holds
  <2>2. CASE v = u
    BY <1>2, <2>1, <2>2
  <2>3. CASE v # u
    <3>1. update'[v] = update[v]
      BY <1>1, <2>1, <2>3
    <3>2. v \in Holds({"spill", "spilling"})' /\ x \in ToSet(update'[v].lines)
      BY <1>2, <2>1, <3>1 DEF Holds
    <3>3. x \in Lines'
      BY <3>2 DEF Lines
    <3> QED BY <3>3
  <2> QED BY <2>2, <2>3
<1> QED BY <1>2 DEF Lines

\* What an update may do to what others wrote.
KeepsTheirs(u) ==
  /\ \/ Notes \subseteq Notes'
     \/ update[u].kind \in Replacing
     \/ \E l \in Labels : archive'[l] # archive[l] /\ archive[l] # {}
  /\ \/ Lines \subseteq Lines'
     \/ ~Is(u, "inbound") /\ Lines \subseteq Lines' \cup ToSet(Cut(Logged(u)))

LEMMA LinesStep ==
  ASSUME MemInv, NEW u \in Updates, MemStep(u), u \notin stale, slips' = slips
  PROVE  \/ Lines \subseteq Lines'
         \/ ~Is(u, "inbound") /\ Lines \subseteq Lines' \cup ToSet(Cut(Logged(u)))
<1>1. Standing(u) /\ Steady(u)
  BY StandingHolds, MemSteps
<1>2. ToSet(log') \subseteq Lines' /\ spill' \subseteq Lines'
  BY DEF Lines
<1>3. update'[u].pc \in {"spill", "spilling"} => ToSet(update'[u].lines) \subseteq Lines'
  BY DEF Lines, Holds
<1>4. \A what : ~Slip(what)
  BY SlipFacts
<1>5. CASE UNCHANGED <<log, spill>> /\ update[u].pc \notin {"spill", "spilling"}
  BY <1>2, <1>5, LinesKept
<1>6. CASE ReadSpill(u)
  <2>1. UNCHANGED <<log, spill>> /\ update'[u].pc = "spilling" /\ update'[u].lines = update[u].lines
    BY <1>1, <1>4, <1>6 DEF ReadSpill, Standing, MemUpdate
  <2> QED BY <1>2, <1>3, <2>1, LinesKept
<1>7. CASE WriteSpill(u)
  <2>1. UNCHANGED log /\ spill' = update[u].read \cup ToSet(update[u].lines) /\ update[u].pc = "spilling"
    BY <1>4, <1>7 DEF WriteSpill
  <2>2. update[u].read = spill
    BY <2>1 DEF MemInv, Current
  <2> QED BY <1>2, <2>1, <2>2, LinesKept
<1>8. CASE WriteNode(u)
  <2> DEFINE s == Logged(u)
  <2>1. /\ update[u].pc = "log" /\ UNCHANGED spill /\ log' = Left(s)
        /\ update' = [update EXCEPT ![u].lines = IF Is(u, "inbound") THEN Cut(s) ELSE <<>>,
                                    ![u].pc = AfterLog(u)]
    BY <1>4, <1>8 DEF WriteNode, Left
  <2>2. update[u].lines = log
    BY <2>1 DEF MemInv, Current
  <2>3. s \in Seq(Updates) /\ ToSet(log) \subseteq ToSet(s)
    BY <1>1, <2>2, LoggedFacts DEF Standing
  <2>4. ToSet(s) \subseteq ToSet(log') \cup ToSet(Cut(s))
    BY <2>1, <2>3, CutFacts
  <2>5. CASE ~Is(u, "inbound")
    <3> DEFINE X == Lines' \cup ToSet(Cut(s))
    <3>0. ToSet(log) \subseteq X /\ spill \subseteq X /\ Lines' \subseteq X
      BY <1>2, <2>1, <2>3, <2>4
    <3>a. update[u].pc \notin {"spill", "spilling"}
      BY <2>1
    <3> HIDE DEF X, s
    <3>b. Lines \subseteq X
      BY <3>0, <3>a, LinesKept
    <3>1. Lines \subseteq Lines' \cup ToSet(Cut(s))
      BY <3>b DEF X
    <3> QED BY <2>5, <3>1 DEF s
  <2>6. CASE Is(u, "inbound") /\ Cut(s) # <<>>
    <3>1. update'[u].pc = "spill" /\ update'[u].lines = Cut(s)
      BY <1>1, <2>1, <2>6 DEF AfterLog, Is, Standing, MemUpdate
    <3> QED BY <1>2, <1>3, <2>1, <2>3, <2>4, <3>1, LinesKept
  <2>7. CASE Cut(s) = <<>>
    <3>1. log' = s
      BY <2>1, <2>3, <2>7, CutFacts
    <3> QED BY <1>2, <2>1, <2>3, <3>1, LinesKept
  <2> QED BY <2>5, <2>6, <2>7
<1> QED BY <1>5, <1>6, <1>7, <1>8
        DEF MemStep, ReadNode, Extract, Noted, ReadContext, ReadToCompact, Summarise, Archive,
            WriteContext, Replace, Logging

LEMMA NotesStep ==
  ASSUME MemInv, NEW u \in Updates, MemStep(u), u \notin stale, slips' = slips
  PROVE  \/ Notes \subseteq Notes'
         \/ update[u].kind \in Replacing
         \/ \E l \in Labels : archive'[l] # archive[l] /\ archive[l] # {}
<1>1. Standing(u)
  BY StandingHolds
<1>2. \A what : ~Slip(what)
  BY SlipFacts
<1>3. CASE UNCHANGED <<context, archive>>
  BY <1>3 DEF Notes
<1>4. CASE Archive(u)
  <2>1. UNCHANGED context
    BY <1>4 DEF Archive
  <2>2. SUFFICES ASSUME \A l \in Labels : archive'[l] = archive[l] \/ archive[l] = {}
                 PROVE  Notes \subseteq Notes'
    OBVIOUS
  <2> QED BY <2>1, <2>2 DEF Notes
<1>5. CASE WriteContext(u)
  <2>1. context' = Written(u) /\ UNCHANGED archive /\ update[u].pc = "write"
    BY <1>2, <1>5 DEF WriteContext
  <2>2. IF update[u].kind = "compact" THEN context \subseteq Archived ELSE update[u].read = context
    BY <2>1 DEF MemInv, Current
  <2> QED BY <2>1, <2>2 DEF Notes, Archived, Written, Is
<1>6. CASE Replace(u)
  BY <1>6 DEF Replace
<1> QED BY <1>3, <1>4, <1>5, <1>6
        DEF MemStep, ReadNode, Extract, WriteNode, ReadSpill, WriteSpill, Noted, ReadContext,
            ReadToCompact, Summarise

\* No update of an agent's memory (inbound/intelligence_agent.py, agent/distillation.py,
\* agent/compaction.py) that nobody has overtaken loses a note of another, or a line of a
\* node without archiving it when it is an inbound message.
THEOREM KeepsNotesHolds == MemSpec => KeepsNotes
<1>1. ASSUME MemInv, MemNext
      PROVE  \A u \in Updates : Acts(u) /\ u \notin stale /\ slips' = slips => KeepsTheirs(u)
  <2> SUFFICES ASSUME NEW u \in Updates, Acts(u), u \notin stale, slips' = slips
               PROVE  KeepsTheirs(u)
    OBVIOUS
  <2>1. PICK v \in Updates : MemStep(v)
    BY <1>1 DEF MemNext
  <2>2. v = u
    BY <1>1, <2>1, MemSteps, StandingHolds DEF Acts, Steady, MemFrame, Standing
  <2> QED BY <1>1, <2>1, <2>2, LinesStep, NotesStep DEF KeepsTheirs
<1>2. MemInv /\ [MemNext]_memVars =>
        [\A u \in Updates : Acts(u) /\ u \notin stale /\ slips' = slips => KeepsTheirs(u)]_memVars
  BY <1>1
<1> QED BY <1>2, NotesInvariant, PTL DEF MemSpec, KeepsNotes, KeepsTheirs

-----------------------------------------------------------------------------
(***************************************************************************)
(* The semantic memory.                                                     *)
(***************************************************************************)
Matched(t) == t \in index <=> file[t] # {}

\* Only a rename has a second topic, and it has a text in hand.
Renames ==
  \A w \in Writers :
    /\ writer[w].deed = "rename" <=> writer[w].to # writer[w].topic
    /\ writer[w].pc \in {"check", "copy", "drop"} => writer[w].deed = "rename" /\ writer[w].read # {}
    /\ writer[w].pc = "add" => writer[w].deed = "fact"
    /\ w \in Active => writer[w].deed \in {"put", "delete", "fact", "rename"}

\* Two calls that have a topic in hand make it loose.
OneHand == \A w, v \in Active : w # v => Hands(w) \cap Hands(v) \subseteq loose

\* What a call that has a topic in hand by itself finds there, and has made of it.
InHand(w, t) ==
  LET pc == writer[w].pc
      old == t = writer[w].topic
  IN /\ writer[w].deed = "put" => file[t] # {}
     /\ writer[w].deed = "delete" => file[t] = {}
     /\ writer[w].deed = "fact" /\ pc = "add" => file[t] = writer[w].read
     /\ writer[w].deed = "fact" /\ pc # "add" => file[t] # {}
     /\ pc \in {"check", "copy"} => Matched(t)
     /\ pc \in {"check", "copy", "drop"} /\ old => file[t] = writer[w].read
     /\ pc = "copy" /\ ~old => file[t] = {}
     /\ pc = "drop" /\ ~old => file[t] = writer[w].read
     /\ writer[w].deed = "rename" /\ pc \in {"index", "list"} =>
          IF old THEN file[t] = {} ELSE file[t] # {}
     /\ writer[w].deed = "rename" /\ pc \in {"drop", "index"} /\ old => t \in index
     /\ writer[w].deed = "rename" /\ pc = "list" /\ old => t \in writer[w].old

InHands == \A w \in Active : \A t \in Hands(w) \ loose : InHand(w, t)

SemInv == SemTypeOK /\ Renames /\ OneHand /\ InHands /\ IndexMatchesTopics

\* What a step of a call leaves to the others.
Apart(w) ==
  /\ file' \in [Topics -> SUBSET Writers] /\ index' \subseteq Topics
  /\ loose \subseteq loose' /\ loose' \subseteq Topics
  /\ writer' = [writer EXCEPT ![w] = writer'[w]]
  /\ writer'[w] \in Writer
  /\ writer'[w].deed = writer[w].deed
  /\ writer'[w].topic = writer[w].topic /\ writer'[w].to = writer[w].to
  /\ writer[w].pc \notin {"done", "failed"}
  /\ writer'[w].pc # "new"
  /\ \A t \in Topics \ (loose' \cup Hands(w)) : file'[t] = file[t] /\ (t \in index' <=> t \in index)
  /\ \/ \A v \in Active \ {w} : Hands(w) \cap Hands(v) \subseteq loose'
     \/ file' = file /\ index' = index /\ w \notin Active /\ writer'[w].pc \in {"done", "failed"}

LEMMA SemStepApart ==
  ASSUME SemInv, NEW w \in Writers, WriterStep(w)
  PROVE  Apart(w) /\ troubles' \in 0..MaxTroubles
<1> USE DEF SemInv
<1>1. /\ writer \in [Writers -> Writer] /\ writer[w] \in Writer
      /\ file \in [Topics -> SUBSET Writers] /\ index \subseteq Topics /\ loose \subseteq Topics
      /\ troubles \in 0..MaxTroubles /\ MaxTroubles \in Nat
  BY SemAssumption DEF SemTypeOK
<1>2. Hands(w) \subseteq Topics
  BY <1>1 DEF Hands, Writer
<1>3. w \in Active => \A v \in Active \ {w} : Hands(w) \cap Hands(v) \subseteq loose
  BY DEF OneHand
<1>4. \A pc : Turn(w, pc) => writer' = [writer EXCEPT ![w] = [writer[w] EXCEPT !.pc = pc]]
  BY DEF Turn
<1>5. Trouble("read") \/ Trouble("write") \/ UNCHANGED troubles => troubles' \in 0..MaxTroubles
  BY <1>1 DEF Trouble
<1>6. CASE PutTopic(w)
  BY <1>1, <1>2, <1>4, <1>5, <1>6 DEF PutTopic, IsAt, TakeUp, Raise, Apart, Hands, Writer
<1>7. CASE Provision(w)
  BY <1>1, <1>2, <1>4, <1>5, <1>7 DEF Provision, IsAt, Apart, Hands, Writer
<1>8. CASE ReadTopic(w)
  BY <1>1, <1>2, <1>4, <1>5, <1>8 DEF ReadTopic, IsAt, TakeUp, Apart, Hands, Writer
<1>9. CASE AddFact(w)
  BY <1>1, <1>2, <1>3, <1>4, <1>5, <1>9 DEF AddFact, WithFact, IsAt, Raise, Apart, Hands, Writer, Active
<1>10. CASE ReadOld(w)
  BY <1>1, <1>2, <1>4, <1>5, <1>10 DEF ReadOld, IsAt, TakeUp, Apart, Hands, Writer, Active
<1>11. CASE CheckNew(w)
  BY <1>1, <1>2, <1>3, <1>4, <1>5, <1>11 DEF CheckNew, IsAt, Apart, Hands, Writer, Active
<1>12. CASE CopyToNew(w)
  BY <1>1, <1>2, <1>3, <1>4, <1>5, <1>12 DEF CopyToNew, IsAt, Raise, Apart, Hands, Writer, Active
<1>13. CASE DropOld(w)
  BY <1>1, <1>2, <1>3, <1>4, <1>5, <1>13 DEF DropOld, IsAt, Raise, Apart, Hands, Writer, Active
<1>14. CASE ReadIndex(w)
  BY <1>1, <1>2, <1>3, <1>4, <1>5, <1>14 DEF ReadIndex, IsAt, Apart, Hands, Writer, Active
<1>15. CASE WriteIndex(w)
  BY <1>1, <1>2, <1>3, <1>4, <1>5, <1>15 DEF WriteIndex, Named, IsAt, Raise, Apart, Hands, Writer, Active
<1> QED BY <1>6, <1>7, <1>8, <1>9, <1>10, <1>11, <1>12, <1>13, <1>14, <1>15 DEF WriterStep

\* What a step makes of the topics of its own call.
Handled(w) ==
  /\ w \in Active' => \A t \in Hands(w)' \ loose' : InHand(w, t)'
  /\ w \notin Active' => \A t \in Hands(w)' \ (loose' \cup UNION {Hands(v) : v \in Active \ {w}}) : Matched(t)'
  /\ writer'[w].pc \in {"check", "copy", "drop"} => writer'[w].deed = "rename" /\ writer'[w].read # {}
  /\ writer'[w].pc = "add" => writer'[w].deed = "fact"
  /\ w \in Active' => writer'[w].deed \in {"put", "delete", "fact", "rename"}

LEMMA SemStepHandles ==
  ASSUME SemInv, NEW w \in Writers, WriterStep(w)
  PROVE  Handled(w)
<1> USE DEF SemInv
<1>1. /\ writer \in [Writers -> Writer] /\ writer[w] \in Writer
      /\ file \in [Topics -> SUBSET Writers] /\ index \subseteq Topics /\ loose \subseteq Topics
  BY DEF SemTypeOK
<1>2. Hands(w) \subseteq Topics /\ writer[w].topic \in Hands(w) /\ writer[w].to \in Hands(w)
  BY <1>1 DEF Hands, Writer
<1>3. w \notin Active =>
        \A t \in Hands(w) \ (loose \cup UNION {Hands(v) : v \in Active \ {w}}) : Matched(t)
  BY <1>1, <1>2 DEF IndexMatchesTopics, Matched
<1>4. w \in Active => \A t \in Hands(w) \ loose : InHand(w, t)
  BY DEF InHands
<1>5. /\ writer[w].deed = "rename" <=> writer[w].to # writer[w].topic
      /\ writer[w].pc \in {"check", "copy", "drop"} => writer[w].deed = "rename" /\ writer[w].read # {}
      /\ writer[w].pc = "add" => writer[w].deed = "fact"
      /\ w \in Active => writer[w].deed \in {"put", "delete", "fact", "rename"}
  BY DEF Renames
<1>6. CASE PutTopic(w)
  <2>1. /\ writer[w].pc = "new" /\ writer[w].deed \in {"put", "delete"}
        /\ writer[w].to = writer[w].topic
    BY <1>5, <1>6 DEF PutTopic, IsAt
  <2>2. CASE Raise(w, "write")
    BY <1>1, <1>2, <2>1, <2>2 DEF Raise, Turn, Handled, Hands, Writer, Active
  <2>3. CASE /\ file' = [file EXCEPT ![writer[w].topic] = IF writer[w].deed = "put" THEN {w} ELSE {}]
             /\ Turn(w, "index")
    <3>1. writer'[w].pc = "index" /\ writer'[w].deed = writer[w].deed /\ Hands(w)' = {writer[w].topic}
      BY <1>1, <2>1, <2>3 DEF Turn, Writer, Hands
    <3>2. file'[writer[w].topic] = IF writer[w].deed = "put" THEN {w} ELSE {}
      BY <1>1, <2>3 DEF Writer
    <3> QED BY <2>1, <3>1, <3>2 DEF Handled, Active, InHand
  <2> QED BY <1>6, <2>2, <2>3 DEF PutTopic
<1>7. CASE Provision(w)
  BY <1>1, <1>2, <1>5, <1>7 DEF Provision, IsAt, Turn, Handled, Hands, Writer, Active, InHand, Matched
<1>8. CASE ReadTopic(w)
  BY <1>1, <1>2, <1>5, <1>8 DEF ReadTopic, IsAt, Turn, TakeUp, Handled, Hands, Writer, Active, InHand, Matched
<1>9. CASE AddFact(w)
  <2>1. /\ writer[w].deed = "fact" /\ writer[w].to = writer[w].topic /\ UNCHANGED index
        /\ \/ /\ file' = [file EXCEPT ![writer[w].topic] = WithFact(w)] /\ Turn(w, "index")
           \/ Turn(w, "failed") /\ loose' = loose \cup Hands(w)
    BY <1>5, <1>9 DEF AddFact, IsAt, Raise
  <2>2. CASE Turn(w, "failed") /\ loose' = loose \cup Hands(w)
    BY <1>1, <2>1, <2>2 DEF Turn, Handled, Hands, Writer, Active
  <2>3. CASE file' = [file EXCEPT ![writer[w].topic] = WithFact(w)] /\ Turn(w, "index")
    <3>1. writer'[w].pc = "index" /\ writer'[w].deed = "fact" /\ Hands(w)' = {writer[w].topic}
      BY <1>1, <2>1, <2>3 DEF Turn, Writer, Hands
    <3>2. file'[writer[w].topic] # {}
      BY <1>1, <2>3 DEF Writer, WithFact
    <3> QED BY <2>1, <3>1, <3>2 DEF Handled, Active, InHand
  <2> QED BY <2>1, <2>2, <2>3
<1>10. CASE ReadOld(w)
  <2>1. /\ w \notin Active /\ writer[w].deed = "rename" /\ UNCHANGED <<file, index>>
        /\ \/ Turn(w, "done") /\ UNCHANGED loose
           \/ /\ file[writer[w].topic] # {} /\ TakeUp(w)
              /\ writer' = [writer EXCEPT ![w].pc = "check", ![w].read = file[writer[w].topic]]
    BY <1>10 DEF ReadOld, IsAt, Active
  <2>2. CASE Turn(w, "done") /\ UNCHANGED loose
    BY <1>1, <1>3, <2>1, <2>2 DEF Turn, Handled, Hands, Writer, Active, Matched
  <2>3. CASE /\ file[writer[w].topic] # {} /\ TakeUp(w)
             /\ writer' = [writer EXCEPT ![w].pc = "check", ![w].read = file[writer[w].topic]]
    <3>1. /\ writer'[w].pc = "check" /\ writer'[w].read = file[writer[w].topic]
          /\ writer'[w].deed = "rename" /\ writer'[w].topic = writer[w].topic
          /\ Hands(w)' = Hands(w)
      BY <1>1, <2>1, <2>3 DEF Hands, Writer
    <3>2. \A t \in Hands(w) \ loose' : Matched(t)
      BY <1>3, <2>1, <2>3 DEF TakeUp
    <3> QED BY <2>1, <2>3, <3>1, <3>2 DEF Handled, Active, InHand, Matched
  <2> QED BY <2>1, <2>2, <2>3
<1>11. CASE CheckNew(w)
  BY <1>1, <1>2, <1>4, <1>5, <1>11 DEF CheckNew, IsAt, Turn, Handled, Hands, Writer, Active, InHand, Matched
<1>12. CASE CopyToNew(w)
  BY <1>1, <1>2, <1>4, <1>5, <1>12 DEF CopyToNew, IsAt, Turn, Raise, Handled, Hands, Writer, Active, InHand, Matched
<1>13. CASE DropOld(w)
  BY <1>1, <1>2, <1>4, <1>5, <1>13 DEF DropOld, IsAt, Turn, Raise, Handled, Hands, Writer, Active, InHand, Matched
<1>14. CASE ReadIndex(w)
  BY <1>1, <1>2, <1>4, <1>5, <1>14 DEF ReadIndex, IsAt, Turn, Handled, Hands, Writer, Active, InHand, Matched
<1>15. CASE WriteIndex(w)
  BY <1>1, <1>2, <1>4, <1>5, <1>15 DEF WriteIndex, Named, IsAt, Turn, Raise, Handled, Hands, Writer, Active, InHand, Matched
<1> QED BY <1>6, <1>7, <1>8, <1>9, <1>10, <1>11, <1>12, <1>13, <1>14, <1>15 DEF WriterStep

LEMMA SemInvStep == SemInv /\ [SemNext]_semVars => SemInv'
<1> USE DEF SemInv
<1>1. CASE UNCHANGED semVars
  BY <1>1 DEF semVars, SemTypeOK, Renames, OneHand, InHands, IndexMatchesTopics, Active, Hands, InHand, Matched
<1>2. ASSUME SemInv, NEW w \in Writers, WriterStep(w)
      PROVE  SemInv'
  <2>1. Apart(w) /\ troubles' \in 0..MaxTroubles
    BY <1>2, SemStepApart
  <2>2. Handled(w)
    BY <1>2, SemStepHandles
  <2>3. writer \in [Writers -> Writer]
    BY <1>2 DEF SemTypeOK
  <2>4. \A v \in Writers : v # w => writer'[v] = writer[v]
    BY <2>1, <2>3 DEF Apart
  <2>5. SemTypeOK'
    BY <2>1, <2>3 DEF Apart, SemTypeOK
  <2>6. Renames'
    BY <1>2, <2>1, <2>2, <2>4 DEF Apart, Handled, Renames, Active
  <2>7. /\ \A v \in Writers : Hands(v)' = Hands(v)
        /\ \A v \in Writers \ {w} : v \in Active' <=> v \in Active
    BY <2>1, <2>4 DEF Apart, Hands, Active
  <2>8. w \in Active' => \A v \in Active \ {w} : Hands(w) \cap Hands(v) \subseteq loose'
    BY <2>1 DEF Apart, Active
  <2>9. OneHand'
    <3> SUFFICES ASSUME NEW u \in Active', NEW v \in Active', u # v
                 PROVE  Hands(u)' \cap Hands(v)' \subseteq loose'
      BY DEF OneHand
    <3>1. u \in Writers /\ v \in Writers
      BY DEF Active
    <3>2. CASE u = w
      BY <2>7, <2>8, <3>1, <3>2
    <3>3. CASE v = w
      BY <2>7, <2>8, <3>1, <3>3
    <3>4. CASE u # w /\ v # w
      BY <1>2, <2>1, <2>7, <3>1, <3>4 DEF Apart, OneHand
    <3> QED BY <3>2, <3>3, <3>4
  <2>10. InHands'
    <3> SUFFICES ASSUME NEW v \in Active', NEW t \in Hands(v)', t \notin loose'
                 PROVE  InHand(v, t)'
      BY DEF InHands
    <3>1. v \in Writers
      BY DEF Active
    <3>2. CASE v = w
      BY <2>2, <3>2 DEF Handled
    <3>3. CASE v # w
      <4>1. v \in Active /\ t \in Hands(v) \ loose /\ t \in Topics
        BY <2>1, <2>3, <2>7, <3>1, <3>3 DEF Apart, Hands, Writer
      <4>2. InHand(v, t)
        BY <1>2, <4>1 DEF InHands
      <4>3. file'[t] = file[t] /\ (t \in index' <=> t \in index)
        BY <2>1, <3>3, <4>1 DEF Apart
      <4> QED BY <2>4, <3>1, <3>3, <4>2, <4>3 DEF InHand, Matched
    <3> QED BY <3>2, <3>3
  <2>11. IndexMatchesTopics'
    <3> SUFFICES ASSUME NEW t \in Topics, t \notin loose', \A v \in Active' : t \notin Hands(v)'
                 PROVE  Matched(t)'
      BY DEF IndexMatchesTopics, Matched
    <3>1. \A v \in Active \ {w} : t \notin Hands(v)
      BY <2>7 DEF Active
    <3>2. CASE t \in Hands(w)
      <4>1. w \notin Active' /\ t \in Hands(w)'
        BY <2>7, <3>2
      <4> QED BY <2>2, <3>1, <4>1 DEF Handled
    <3>3. CASE t \notin Hands(w)
      <4>1. file'[t] = file[t] /\ (t \in index' <=> t \in index)
        BY <2>1, <3>3 DEF Apart
      <4>2. Matched(t)
        BY <1>2, <2>1, <3>1, <3>3 DEF Apart, IndexMatchesTopics, Matched
      <4> QED BY <4>1, <4>2 DEF Matched
    <3> QED BY <3>2, <3>3
  <2> QED BY <2>5, <2>6, <2>9, <2>10, <2>11
<1> QED BY <1>1, <1>2 DEF SemNext

LEMMA SemInvInit == SemInit => SemInv
<1> SUFFICES ASSUME SemInit PROVE SemInv
  OBVIOUS
<1>1. writer \in [Writers -> Writer]
      /\ \A w \in Writers : writer[w].pc = "new" /\ (writer[w].deed = "rename" <=> writer[w].to # writer[w].topic)
  BY DEF SemInit, Asked, Writer
<1>2. Active = {}
  BY <1>1 DEF Active
<1> QED BY <1>1, <1>2, SemAssumption
        DEF SemInit, SemInv, SemTypeOK, Renames, OneHand, InHands, IndexMatchesTopics

\* A call that has a topic to itself finds the file and the entry as it left them.
THEOREM SemanticInvariant == SemSpec => []SemInv
BY SemInvInit, SemInvStep, PTL DEF SemSpec

\* The index written by the topic routes (api/intelligence.py) and by the distillation names
\* exactly the topics that have a file, but for loose ones and those being written.
THEOREM IndexMatchesTopicsHolds == SemSpec => []IndexMatchesTopics
<1>1. SemInv => IndexMatchesTopics
  BY DEF SemInv
<1> QED BY <1>1, SemanticInvariant, PTL

KeptByStep(w) ==
  writer'[w] # writer[w] /\ writer[w].deed \in {"fact", "rename"} /\ Hands(w) \cap loose' = {} =>
    UNION {file[t] : t \in Hands(w)} \subseteq UNION {file'[t] : t \in Hands(w)}

\* _write_semantic_fact and rename_semantic_topic take nothing away.
THEOREM FactsKeptHolds == SemSpec => FactsKept
<1>1. ASSUME SemInv, SemNext
      PROVE  \A w \in Writers : KeptByStep(w)
  <2> SUFFICES ASSUME NEW w \in Writers, writer'[w] # writer[w],
                      writer[w].deed \in {"fact", "rename"}, Hands(w) \cap loose' = {}
               PROVE  UNION {file[t] : t \in Hands(w)} \subseteq UNION {file'[t] : t \in Hands(w)}
    BY DEF KeptByStep
  <2>1. /\ writer \in [Writers -> Writer] /\ writer[w] \in Writer
        /\ file \in [Topics -> SUBSET Writers]
    BY <1>1 DEF SemInv, SemTypeOK
  <2>2. WriterStep(w)
    <3>1. PICK v \in Writers : WriterStep(v)
      BY <1>1 DEF SemNext
    <3>2. Apart(v)
      BY <1>1, <3>1, SemStepApart
    <3>3. v = w
      BY <2>1, <3>2 DEF Apart
    <3> QED BY <3>1, <3>3
  <2>3. /\ Hands(w) \subseteq Topics /\ Hands(w) \cap loose = {}
        /\ writer[w].topic \in Hands(w) /\ writer[w].to \in Hands(w)
    BY <1>1, <2>1, <2>2, SemStepApart DEF Apart, Hands, Writer
  <2>4. w \in Active => \A t \in Hands(w) : InHand(w, t)
    BY <1>1, <2>3 DEF SemInv, InHands
  <2>5. CASE AddFact(w)
    BY <2>1, <2>3, <2>4, <2>5, <1>1
    DEF AddFact, WithFact, IsAt, Active, InHand, Raise, SemInv, Renames, Hands
  <2>6. CASE CopyToNew(w)
    <3>1. file[writer[w].to] = {} \/ UNCHANGED file
      BY <2>1, <2>3, <2>4, <2>6, <1>1 DEF CopyToNew, IsAt, Active, InHand, SemInv, Renames
    <3> QED BY <2>1, <2>3, <2>6, <3>1 DEF CopyToNew
  <2>7. CASE DropOld(w)
    <3>1. file[writer[w].to] = file[writer[w].topic] /\ writer[w].to # writer[w].topic
      BY <2>1, <2>3, <2>4, <2>7, <1>1 DEF DropOld, IsAt, Active, InHand, SemInv, Renames
    <3> QED BY <2>1, <2>3, <2>7, <3>1 DEF DropOld, Hands
  <2>8. CASE UNCHANGED file
    BY <2>8
  <2> QED BY <2>2, <2>5, <2>6, <2>7, <2>8
          DEF WriterStep, PutTopic, Provision, ReadTopic, ReadOld, CheckNew, ReadIndex, WriteIndex
<1>2. SemInv /\ [SemNext]_semVars =>
        [\A w \in Writers : KeptByStep(w)]_semVars
  BY <1>1
<1> QED BY <1>2, SemanticInvariant, PTL DEF SemSpec, FactsKept, KeptByStep

-----------------------------------------------------------------------------
(***************************************************************************)
(* The definition of an agent.                                              *)
(***************************************************************************)
\* Where a call stands says what it may be about.
Errant ==
  \A c \in Clients :
    /\ ~For(c, Editing) => client[c].read = NoDefinition
    /\ client[c].pc \in {"define", "provision"} => For(c, Making \cup Editing)
    /\ client[c].pc \in {"undefine", "versions", "sweep", "files", "clean"} => For(c, Ending)
    /\ client[c].pc = "snapshot" => For(c, Editing)
    /\ client[c].pc = "config" => For(c, {"config"})
    /\ client[c].pc \in {"define", "snapshot"} => client[c].next = 1
    /\ client[c].pc = "provision" => client[c].next <= 4
    /\ client[c].pc = "new" => client[c].next = 1

\* Nobody makes or ends the agent while another call is under way.
AloneAtIt ==
  \A c, d \in UnderWay : c # d => ~For(c, Making \cup Ending)

\* The versions before v are kept.
Kept(v) == 1..(v - 1) \subseteq Numbers

\* The definition and those it has replaced have different numbers, and those are kept.
Lineage ==
  ~overtaken =>
    /\ past \subseteq snapshots
    /\ \A s \in past : s.version < definition.version
    /\ \A s, r \in past : s.version = r.version => s = r

\* What a call that meets nobody knows.
Knows(c) ==
  LET pc == client[c].pc
      read == client[c].read
  IN /\ For(c, Editing) =>
          /\ Defined
          /\ pc \in {"snapshot", "define"} => read.version # 0
          /\ pc = "snapshot" => Kept(read.version)
          /\ pc = "define" => Kept(read.version + 1)
          /\ pc \in {"snapshot", "define"} /\ ~overtaken => read \in past \cup {definition}
          /\ pc = "define" /\ ~overtaken => read \in snapshots
     /\ For(c, Making) =>
          /\ snapshots = {} /\ past = {}
          /\ For(c, {"tool"}) \/ pc = "define" => ~Defined
          /\ For(c, {"tool"}) => pc = "provision"
          /\ For(c, {"create"}) /\ pc = "provision" =>
               /\ definition.version = 1
               /\ {Files[i] : i \in 1..(client[c].next - 1)} \subseteq runtime
     /\ For(c, Ending) =>
          /\ pc # "undefine" => ~Defined /\ past = {}
          /\ pc = "sweep" => Numbers \subseteq client[c].left
          /\ pc \in {"files", "clean"} => snapshots = {}

Whole ==
  /\ Kept(definition.version)
  /\ ~Defined => snapshots = {} /\ past = {}
  /\ Defined => runtime = FileNames

CatInv ==
  /\ CatTypeOK /\ Errant
  /\ ~holed => /\ AloneAtIt /\ Lineage
               /\ \A c \in UnderWay : Knows(c)
               /\ (\A c \in UnderWay : ~For(c, Making \cup Ending)) => Whole

-----------------------------------------------------------------------------
LEMMA FileFacts ==
  /\ Files[1] = "profile" /\ Files[2] = "manifest" /\ Files[3] = "config" /\ Files[4] = "knowledge"
  /\ Len(Files) = 4
  /\ FileNames = {"profile", "manifest", "config", "knowledge"}
  /\ FileNames = {Files[i] : i \in 1..4}
<1>1. Files[1] = "profile" /\ Files[2] = "manifest" /\ Files[3] = "config" /\ Files[4] = "knowledge"
  BY DEF Files
<1>2. Len(Files) = 4 /\ DOMAIN Files = 1..4
  BY DEF Files
<1>3. FileNames = {Files[i] : i \in 1..4}
  BY <1>2 DEF FileNames
<1>4. FileNames = {"profile", "manifest", "config", "knowledge"}
  <2>1. \A x : x \in FileNames <=> \E i \in 1..4 : x = Files[i]
    BY <1>3
  <2>2. \A i \in 1..4 : i = 1 \/ i = 2 \/ i = 3 \/ i = 4
    OBVIOUS
  <2>3. \A x : x \in FileNames <=> x = Files[1] \/ x = Files[2] \/ x = Files[3] \/ x = Files[4]
    BY <2>1, <2>2
  <2> QED BY <1>1, <2>3
<1> QED BY <1>1, <1>2, <1>3, <1>4

\* What every step leaves alone.
CatFrame(c) ==
  /\ client' = [client EXCEPT ![c] = client'[c]]
  /\ client'[c] \in Client
  /\ client'[c].errand = client[c].errand
  /\ client[c].pc # "done" /\ client'[c].pc # "new"
  /\ holed => holed'

LEMMA NoneIsOne == NoDefinition \in Definition /\ NoDefinition.version = 0
BY DEF NoDefinition, Definition

LEMMA CatTyped ==
  ASSUME CatInv, NEW c \in Clients, ClientStep(c)
  PROVE  CatFrame(c) /\ CatTypeOK' /\ Errant'
<1>1. /\ client \in [Clients -> Client] /\ client[c] \in Client
      /\ definition \in Definition /\ snapshots \subseteq Definition /\ runtime \subseteq FileNames
      /\ past \subseteq Definition /\ overtaken \in BOOLEAN
      /\ config \in Clients \cup {NoClient} /\ flaws \in 0..MaxFlaws /\ holed \in BOOLEAN
      /\ MaxFlaws \in Nat
  BY CatAssumption DEF CatInv, CatTypeOK
<1>2. /\ ~For(c, Editing) => client[c].read = NoDefinition
      /\ client[c].pc \in {"define", "provision"} => For(c, Making \cup Editing)
      /\ client[c].pc \in {"undefine", "versions", "sweep", "files", "clean"} => For(c, Ending)
      /\ client[c].pc = "snapshot" => For(c, Editing)
      /\ client[c].pc = "config" => For(c, {"config"})
      /\ client[c].pc \in {"define", "snapshot"} => client[c].next = 1
      /\ client[c].pc = "provision" => client[c].next <= 4
      /\ client[c].pc = "new" => client[c].next = 1
  BY DEF CatInv, Errant
<1>3. \A d \in Clients \ {c} :
        /\ ~For(d, Editing) => client[d].read = NoDefinition
        /\ client[d].pc \in {"define", "provision"} => For(d, Making \cup Editing)
        /\ client[d].pc \in {"undefine", "versions", "sweep", "files", "clean"} => For(d, Ending)
        /\ client[d].pc = "snapshot" => For(d, Editing)
        /\ client[d].pc = "config" => For(d, {"config"})
        /\ client[d].pc \in {"define", "snapshot"} => client[d].next = 1
        /\ client[d].pc = "provision" => client[d].next <= 4
        /\ client[d].pc = "new" => client[d].next = 1
  BY DEF CatInv, Errant
<1>0. Client = [errand : Errands, pc : ClientPcs, read : Definition, next : 1..5, left : SUBSET Nat, trash : SUBSET FileNames]
  BY FileFacts DEF Client
<1> DEFINE E == client'[c]
<1> DEFINE Stores ==
             /\ definition' \in Definition /\ snapshots' \subseteq Definition
             /\ past' \subseteq Definition /\ overtaken' \in BOOLEAN /\ runtime' \subseteq FileNames
             /\ config' \in Clients \cup {NoClient} /\ flaws' \in 0..MaxFlaws
           Ghost == holed' \in BOOLEAN /\ (holed => holed')
           Call ==
             /\ client' = [client EXCEPT ![c] = E] /\ E \in Client
             /\ E.errand = client[c].errand /\ client[c].pc # "done" /\ E.pc # "new"
           Place ==
             /\ E.errand \notin Editing => E.read = NoDefinition
             /\ E.pc \in {"define", "provision"} => E.errand \in Making \cup Editing
             /\ E.pc \in {"undefine", "versions", "sweep", "files", "clean"} => E.errand \in Ending
             /\ E.pc = "snapshot" => E.errand \in Editing
             /\ E.pc = "config" => E.errand = "config"
             /\ E.pc \in {"define", "snapshot"} => E.next = 1
             /\ E.pc = "provision" => E.next <= 4
           Goal == Stores /\ Ghost /\ Call /\ Place
<1>100. ASSUME Goal PROVE CatFrame(c) /\ CatTypeOK' /\ Errant'
  <2>1. \A d \in Clients \ {c} : client'[d] = client[d]
    BY <1>1, <1>100
  <2>2. CatTypeOK'
    BY <1>1, <1>100 DEF CatTypeOK
  <2>3. Errant'
    BY <1>1, <1>3, <1>100, <2>1 DEF Errant, For
  <2> QED BY <1>100, <2>2, <2>3 DEF CatFrame
<1> SUFFICES Goal
  BY <1>100
<1>19. "config" \in FileNames /\ \A i \in 1..4 : Files[i] \in FileNames /\ (Files[i] = "knowledge" <=> i = 4)
  <2>1. \A i \in 1..4 : i = 1 \/ i = 2 \/ i = 3 \/ i = 4
    OBVIOUS
  <2> QED BY <2>1, FileFacts
<1>20. Meet(c) => holed' \in BOOLEAN /\ (holed => holed')
  BY <1>1, Zenon DEF Meet
<1>4. CASE BeginMaking(c)
  <2>1. Stores BY <1>0, <1>1, <1>4 DEF BeginMaking, At, For, Meet, Hole, Flaw, Stored
  <2>2. Ghost
    <3>1. Meet(c) \/ UNCHANGED holed \/ holed' = TRUE
      BY <1>4 DEF BeginMaking, Hole
    <3> QED BY <1>1, <1>20, <3>1
  <2>3. Call BY <1>0, <1>1, <1>4 DEF BeginMaking, At, For, Then, Hole, ClientPcs
  <2>4. Place BY <1>0, <1>1, <1>2, <1>4 DEF BeginMaking, At, For, Then, Hole, Making, Ending, Editing
  <2> QED BY <2>1, <2>2, <2>3, <2>4
<1>5. CASE Load(c)
  <2>1. Stores BY <1>0, <1>1, <1>5 DEF Load, At, For, Meet, Stored
  <2>2. Ghost BY <1>1, <1>20, <1>5 DEF Load, At, For, Stored
  <2>3. Call BY <1>0, <1>1, <1>5 DEF Load, At, For, Then, ClientPcs
  <2>4. Place BY <1>0, <1>1, <1>2, <1>5 DEF Load, At, For, Then, Making, Ending, Editing
  <2> QED BY <2>1, <2>2, <2>3, <2>4
<1>6. CASE SaveVersion(c)
  <2>1. Stores
    <3>1. /\ definition' \in Definition /\ snapshots' \subseteq Definition
          /\ past' \subseteq Definition /\ overtaken' \in BOOLEAN
      BY <1>0, <1>1, <1>6 DEF SaveVersion, SnapshotOf, Hole
    <3>2. runtime' \subseteq FileNames /\ config' \in Clients \cup {NoClient}
      BY <1>0, <1>1, <1>2, <1>19, <1>6 DEF SaveVersion, At, Hole
    <3>3. flaws' \in 0..MaxFlaws
      BY <1>1, <1>6 DEF SaveVersion, Hole, Flaw
    <3> QED BY <3>1, <3>2, <3>3
  <2>2. Ghost BY <1>1, <1>6 DEF SaveVersion, At, For, Hole
  <2>3. Call BY <1>0, <1>1, <1>6 DEF SaveVersion, SnapshotOf, At, For, Then, Hole, ClientPcs
  <2>4. Place BY <1>0, <1>1, <1>2, <1>6 DEF SaveVersion, SnapshotOf, At, For, Then, Hole, Making, Ending, Editing
  <2> QED BY <2>1, <2>2, <2>3, <2>4
<1>7. CASE SaveDefinition(c)
  <2>1. Stores
    <3>1. Edited(c) \in Definition
      BY <1>0, <1>1 DEF Edited, Definition
    <3>2. overtaken' \in BOOLEAN
      BY <1>1, <1>7, Zenon DEF SaveDefinition
    <3>3. definition' \in Definition /\ past' \subseteq Definition /\ UNCHANGED snapshots
      BY <1>1, <1>7, <3>1 DEF SaveDefinition
    <3>4. UNCHANGED <<runtime, config>> /\ (UNCHANGED flaws \/ Flaw("write"))
      BY <1>7 DEF SaveDefinition, Hole
    <3>5. flaws' \in 0..MaxFlaws
      BY <1>1, <3>4 DEF Flaw
    <3> QED BY <1>1, <3>2, <3>3, <3>4, <3>5
  <2>2. Ghost BY <1>1, <1>7 DEF SaveDefinition, At, For, Hole
  <2>3. Call BY <1>0, <1>1, <1>7 DEF SaveDefinition, At, For, Then, Hole, ClientPcs
  <2>4. Place BY <1>0, <1>1, <1>2, <1>7 DEF SaveDefinition, At, For, Then, Hole, Making, Ending, Editing
  <2> QED BY <2>1, <2>2, <2>3, <2>4
<1>8. CASE ProvisionRuntime(c)
  <2>1. Stores
    <3>1. /\ definition' \in Definition /\ snapshots' \subseteq Definition
          /\ past' \subseteq Definition /\ overtaken' \in BOOLEAN
      BY <1>1, <1>8 DEF ProvisionRuntime
    <3>2. runtime' \subseteq FileNames /\ config' \in Clients \cup {NoClient}
      BY <1>0, <1>1, <1>2, <1>19, <1>8 DEF ProvisionRuntime, At, Hole
    <3>3. flaws' \in 0..MaxFlaws
      BY <1>1, <1>8 DEF ProvisionRuntime, Hole, Flaw
    <3> QED BY <3>1, <3>2, <3>3
  <2>2. Ghost BY <1>1, <1>8 DEF ProvisionRuntime, At, For, Hole
  <2>3. Call BY <1>0, <1>1, <1>2, <1>8, <1>19 DEF ProvisionRuntime, At, Then, Hole, ClientPcs
  <2>4. Place BY <1>0, <1>1, <1>2, <1>8, FileFacts DEF ProvisionRuntime, At, For, Then, Hole, Making, Ending, Editing
  <2> QED BY <2>1, <2>2, <2>3, <2>4
<1>9. CASE BeginEnding(c)
  <2>1. Stores BY <1>0, <1>1, <1>9 DEF BeginEnding, At, For, Meet, Stored
  <2>2. Ghost BY <1>1, <1>20, <1>9 DEF BeginEnding, At, For, Stored
  <2>3. Call BY <1>0, <1>1, <1>9 DEF BeginEnding, At, For, Then, ClientPcs
  <2>4. Place BY <1>0, <1>1, <1>2, <1>9 DEF BeginEnding, At, For, Then, Making, Ending, Editing
  <2> QED BY <2>1, <2>2, <2>3, <2>4
<1>10. CASE DeleteDefinition(c)
  <2>1. Stores
    <3>1. /\ definition' \in Definition /\ past' \subseteq Definition /\ overtaken' \in BOOLEAN
          /\ UNCHANGED <<snapshots, runtime, config>> /\ (UNCHANGED flaws \/ Flaw("delete"))
      BY <1>1, <1>10, NoneIsOne DEF DeleteDefinition, Hole
    <3>2. flaws' \in 0..MaxFlaws
      BY <1>1, <3>1 DEF Flaw
    <3> QED BY <1>1, <3>1, <3>2
  <2>2. Ghost BY <1>1, <1>10 DEF DeleteDefinition, At, For, Hole
  <2>3. Call BY <1>0, <1>1, <1>10 DEF DeleteDefinition, At, For, Then, Hole, ClientPcs
  <2>4. Place BY <1>0, <1>1, <1>2, <1>10 DEF DeleteDefinition, At, For, Then, Hole, Making, Ending, Editing
  <2> QED BY <2>1, <2>2, <2>3, <2>4
<1>11. CASE ListKeys(c)
  <2>0. Numbers \subseteq Nat
    BY <1>1 DEF Numbers, Definition
  <2>1. Stores BY <1>0, <1>1, <1>11 DEF ListKeys, AfterVersions, At, For, Hole, Flaw, Stored
  <2>2. Ghost BY <1>1, <1>11 DEF ListKeys, AfterVersions, At, For, Hole, Stored
  <2>3. Call BY <1>0, <1>1, <1>11, <2>0 DEF ListKeys, AfterVersions, At, For, Then, Hole, ClientPcs
  <2>4. Place BY <1>0, <1>1, <1>2, <1>11 DEF ListKeys, AfterVersions, At, For, Then, Hole, Making, Ending, Editing
  <2> QED BY <2>1, <2>2, <2>3, <2>4
<1>12. CASE SweepVersions(c)
  <2>1. Stores BY <1>0, <1>1, <1>12 DEF SweepVersions, AfterVersions, At, For, Hole, Flaw
  <2>2. Ghost BY <1>1, <1>12 DEF SweepVersions, AfterVersions, At, For, Hole
  <2>3. Call BY <1>0, <1>1, <1>12 DEF SweepVersions, AfterVersions, At, For, Then, Hole, ClientPcs
  <2>4. Place BY <1>0, <1>1, <1>2, <1>12 DEF SweepVersions, AfterVersions, At, For, Then, Hole, Making, Ending, Editing
  <2> QED BY <2>1, <2>2, <2>3, <2>4
<1>13. CASE CleanRuntime(c)
  <2>1. Stores BY <1>0, <1>1, <1>13 DEF CleanRuntime, At, For, Hole, Flaw
  <2>2. Ghost BY <1>1, <1>13 DEF CleanRuntime, At, For, Hole
  <2>3. Call BY <1>0, <1>1, <1>13 DEF CleanRuntime, At, For, Then, Hole, ClientPcs
  <2>4. Place BY <1>0, <1>1, <1>2, <1>13 DEF CleanRuntime, At, For, Then, Hole, Making, Ending, Editing
  <2> QED BY <2>1, <2>2, <2>3, <2>4
<1>14. CASE BeginConfig(c)
  <2>1. Stores BY <1>0, <1>1, <1>14 DEF BeginConfig, At, For, Meet, Stored
  <2>2. Ghost BY <1>1, <1>20, <1>14 DEF BeginConfig, At, For, Stored
  <2>3. Call BY <1>0, <1>1, <1>14 DEF BeginConfig, At, For, Then, ClientPcs
  <2>4. Place BY <1>0, <1>1, <1>2, <1>14 DEF BeginConfig, At, For, Then, Making, Ending, Editing
  <2> QED BY <2>1, <2>2, <2>3, <2>4
<1>15. CASE PutConfig(c)
  <2>1. Stores
    <3>1. /\ definition' \in Definition /\ snapshots' \subseteq Definition
          /\ past' \subseteq Definition /\ overtaken' \in BOOLEAN
      BY <1>1, <1>15 DEF PutConfig
    <3>2. runtime' \subseteq FileNames /\ config' \in Clients \cup {NoClient}
      BY <1>0, <1>1, <1>2, <1>19, <1>15 DEF PutConfig, At, Hole
    <3>3. flaws' \in 0..MaxFlaws
      BY <1>1, <1>15 DEF PutConfig, Hole, Flaw
    <3> QED BY <3>1, <3>2, <3>3
  <2>2. Ghost BY <1>1, <1>15 DEF PutConfig, At, For
  <2>3. Call BY <1>0, <1>1, <1>15, FileFacts DEF PutConfig, At, For, Then, ClientPcs
  <2>4. Place BY <1>0, <1>1, <1>2, <1>15, FileFacts DEF PutConfig, At, For, Then, Making, Ending, Editing
  <2> QED BY <2>1, <2>2, <2>3, <2>4
<1> QED BY <1>4, <1>5, <1>6, <1>7, <1>8, <1>9, <1>10, <1>11, <1>12, <1>13, <1>14, <1>15 DEF ClientStep

\* A call begins: it is turned away, or meets who is there.
LEMMA EntryStep ==
  ASSUME CatInv, NEW c \in Clients, ClientStep(c), At(c, "new"), ~holed'
  PROVE  UNCHANGED Stored /\ ((client'[c].pc = "done" /\ UNCHANGED holed) \/ Meet(c))
<1>1. CatFrame(c)
  BY CatTyped
<1>2. client \in [Clients -> Client] /\ client[c] \in Client
  BY DEF CatInv, CatTypeOK
<1>3. \A pc : Then(c, pc) => client'[c].pc = pc
  BY <1>2 DEF Then, Client
<1>4. ~(SaveVersion(c) \/ SaveDefinition(c) \/ ProvisionRuntime(c) \/ DeleteDefinition(c) \/ ListKeys(c)
        \/ SweepVersions(c) \/ CleanRuntime(c) \/ PutConfig(c))
  BY DEF SaveVersion, SaveDefinition, ProvisionRuntime, DeleteDefinition, ListKeys, SweepVersions,
         CleanRuntime, PutConfig, At
<1>5. CASE BeginMaking(c)
  <2>1. UNCHANGED Stored
    BY <1>5 DEF BeginMaking
  <2>2. Meet(c) \/ (Then(c, "done") /\ UNCHANGED holed) \/ holed' = TRUE
    BY <1>5 DEF BeginMaking, Hole
  <2> QED BY <1>3, <2>1, <2>2
<1>6. CASE Load(c)
  <2>1. UNCHANGED Stored
    BY <1>6 DEF Load
  <2>2. Meet(c) \/ (Then(c, "done") /\ UNCHANGED holed)
    BY <1>6 DEF Load
  <2> QED BY <1>3, <2>1, <2>2
<1>7. CASE BeginEnding(c)
  <2>1. UNCHANGED Stored
    BY <1>7 DEF BeginEnding
  <2>2. Meet(c) \/ (Then(c, "done") /\ UNCHANGED holed)
    BY <1>7 DEF BeginEnding
  <2> QED BY <1>3, <2>1, <2>2
<1>8. CASE BeginConfig(c)
  <2>1. UNCHANGED Stored
    BY <1>8 DEF BeginConfig
  <2>2. Meet(c) \/ (Then(c, "done") /\ UNCHANGED holed)
    BY <1>8 DEF BeginConfig
  <2> QED BY <1>3, <2>1, <2>2
<1> QED BY <1>4, <1>5, <1>6, <1>7, <1>8 DEF ClientStep

\* What the call of a step has, and where it stands.
InPlace(c) ==
  /\ client \in [Clients -> Client] /\ client[c] \in Client
  /\ client'[c] \in Client /\ client'[c].errand = client[c].errand
  /\ client'[c].pc # "new" /\ client[c].pc # "done"
  /\ definition \in Definition /\ snapshots \subseteq Definition
  /\ past \subseteq Definition /\ overtaken \in BOOLEAN
  /\ runtime \subseteq FileNames /\ runtime' \subseteq FileNames
  /\ ~For(c, Editing) => client[c].read = NoDefinition
  /\ client[c].pc \in {"define", "provision"} => For(c, Making \cup Editing)
  /\ client[c].pc \in {"undefine", "versions", "sweep", "files", "clean"} => For(c, Ending)
  /\ client[c].pc = "snapshot" => For(c, Editing)
  /\ client[c].pc = "config" => For(c, {"config"})
  /\ client[c].pc \in {"define", "snapshot"} => client[c].next = 1
  /\ client[c].pc = "provision" => client[c].next <= 4
  /\ client[c].pc = "new" => client[c].next = 1
  /\ Client = [errand : Errands, pc : ClientPcs, read : Definition, next : 1..5, left : SUBSET Nat, trash : SUBSET FileNames]

LEMMA InPlaceHolds ==
  ASSUME CatInv, NEW c \in Clients, ClientStep(c)
  PROVE  InPlace(c)
<1>1. CatFrame(c) /\ CatTypeOK'
  BY CatTyped
<1>2. Client = [errand : Errands, pc : ClientPcs, read : Definition, next : 1..5, left : SUBSET Nat, trash : SUBSET FileNames]
  BY FileFacts DEF Client
<1> QED BY <1>1, <1>2 DEF InPlace, CatFrame, CatInv, CatTypeOK, Errant

\* A call that makes the agent, and has met nobody.
LEMMA MakerStep ==
  ASSUME CatInv, NEW c \in Clients, ClientStep(c), For(c, Making), ~holed',
         IF At(c, "new") THEN Whole /\ client'[c].pc # "done" ELSE Knows(c)
  PROVE  past' = {} /\ (IF client'[c].pc = "done" THEN Whole' ELSE Knows(c)')
<1>1. InPlace(c)
  BY InPlaceHolds
<1>2. ~For(c, Ending) /\ ~For(c, Editing)
  BY DEF For, Making, Ending, Editing
<1>3. CASE At(c, "new")
  <2>1. BeginMaking(c)
    BY <1>2, <1>3 DEF ClientStep, Load, SaveVersion, SaveDefinition, ProvisionRuntime, BeginEnding,
       DeleteDefinition, ListKeys, SweepVersions, CleanRuntime, BeginConfig, PutConfig, At, For, Making
  <2>2. ~Defined /\ snapshots = {} /\ past = {}
    BY <1>1, <1>3, <2>1, FileFacts DEF BeginMaking, Whole, Hole, For, Making, Then, InPlace
  <2>3. UNCHANGED Stored /\ client'[c].pc = IF For(c, {"tool"}) THEN "provision" ELSE "define"
    BY <1>1, <1>3, <2>1 DEF BeginMaking, Hole, For, Then, InPlace
  <2> QED BY <1>1, <1>2, <2>2, <2>3 DEF Knows, InPlace, Stored, Defined, For, Making, Ending, Editing
<1>4. CASE At(c, "define")
  <2>0. SaveDefinition(c)
    BY <1>4 DEF ClientStep, Load, SaveVersion, SaveDefinition, ProvisionRuntime, BeginEnding, BeginMaking,
       DeleteDefinition, ListKeys, SweepVersions, CleanRuntime, BeginConfig, PutConfig, At
  <2>1. definition'.version = 1 /\ snapshots' = {} /\ past' = {} /\ UNCHANGED runtime
    <3>1. ~Defined /\ snapshots = {} /\ past = {}
      BY <1>2, <1>4 DEF Knows, At
    <3>2. client[c].read.version = 0
      BY <1>1, <1>2, NoneIsOne DEF InPlace
    <3>3. Edited(c).version = 1
      BY <3>2 DEF Edited
    <3> QED BY <2>0, <3>1, <3>3 DEF SaveDefinition, Hole
  <2>2. For(c, {"create"}) /\ client'[c].pc = "provision" /\ client'[c].next = 1
    BY <1>1, <1>2, <1>4, <2>0 DEF SaveDefinition, Hole, Then, For, Making, Knows, At, InPlace
  <2> QED BY <1>1, <1>2, <2>1, <2>2 DEF Knows, InPlace, For, Making, Ending, Editing
<1>5. CASE At(c, "provision")
  <2>1. ProvisionRuntime(c)
    BY <1>5 DEF ClientStep, Load, SaveVersion, SaveDefinition, ProvisionRuntime, BeginEnding, BeginMaking,
       DeleteDefinition, ListKeys, SweepVersions, CleanRuntime, BeginConfig, PutConfig, At
  <2>2. /\ runtime' = runtime \cup {Files[client[c].next]}
        /\ client' = [client EXCEPT ![c].next = @ + 1,
                           ![c].pc = IF Files[client[c].next] = "knowledge" THEN "done" ELSE "provision"]
        /\ UNCHANGED <<definition, snapshots, past>>
    BY <2>1 DEF ProvisionRuntime, Hole
  <2>3. client[c].next \in 1..4 /\ (Files[client[c].next] = "knowledge" <=> client[c].next = 4)
    BY <1>1, <1>5, FileFacts DEF InPlace, At
  <2>4. /\ client'[c].next = client[c].next + 1
        /\ client'[c].pc = IF client[c].next = 4 THEN "done" ELSE "provision"
    BY <1>1, <2>2, <2>3 DEF InPlace
  <2>5. /\ snapshots = {} /\ past = {} /\ (For(c, {"tool"}) => definition.version = 0)
        /\ (For(c, {"create"}) => definition.version = 1)
    BY <1>5, <1>2 DEF Knows, At, Defined
  <2>6. For(c, {"create"}) \/ For(c, {"tool"})
    BY DEF For, Making
  <2>7. For(c, {"create"}) => {Files[i] : i \in 1..(client'[c].next - 1)} \subseteq runtime'
    <3> SUFFICES ASSUME For(c, {"create"}), NEW i \in 1..client[c].next
                 PROVE  Files[i] \in runtime'
      BY <1>1, <2>4 DEF InPlace
    <3>1. {Files[j] : j \in 1..(client[c].next - 1)} \subseteq runtime
      BY <1>5, <1>2 DEF Knows, At
    <3>2. CASE i = client[c].next
      BY <2>2, <3>2
    <3>3. CASE i \in 1..(client[c].next - 1)
      BY <2>2, <3>1, <3>3
    <3> QED BY <2>3, <3>2, <3>3
  <2>8. CASE client[c].next = 4
    <3>0. client'[c].next - 1 = 4
      BY <2>4, <2>8
    <3>1. For(c, {"create"}) => runtime' = FileNames
      <4>1. For(c, {"create"}) => {Files[i] : i \in 1..4} \subseteq runtime'
        BY <2>7, <3>0
      <4>2. runtime' \subseteq FileNames /\ FileNames = {Files[i] : i \in 1..4}
        BY <1>1, FileFacts DEF InPlace
      <4> QED BY <4>1, <4>2
    <3>2. /\ snapshots' = {} /\ past' = {} /\ definition'.version \in {0, 1}
          /\ definition'.version = 1 => runtime' = FileNames
      BY <2>2, <2>5, <2>6, <3>1
    <3>3. 1..(definition'.version - 1) = {}
      <4>1. definition'.version - 1 = -1 \/ definition'.version - 1 = 0
        BY <3>2
      <4>2. 1..0 = {} /\ 1..(-1) = {}
        OBVIOUS
      <4> QED BY <4>1, <4>2
    <3>4. Whole'
      BY <3>2, <3>3 DEF Whole, Kept, Defined
    <3> QED BY <2>4, <2>8, <3>2, <3>4
  <2>9. CASE client[c].next # 4
    BY <1>1, <1>2, <2>2, <2>4, <2>5, <2>6, <2>7, <2>9
       DEF Knows, Defined, InPlace, For, Making, Ending, Editing
  <2> QED BY <2>8, <2>9
<1> QED BY <1>1, <1>2, <1>3, <1>4, <1>5 DEF InPlace, At, Client, ClientPcs, For, Making, Editing, Ending

\* A call that ends the agent, and has met nobody.
LEMMA EnderStep ==
  ASSUME CatInv, NEW c \in Clients, ClientStep(c), For(c, Ending), ~holed',
         IF At(c, "new") THEN Whole /\ client'[c].pc # "done" ELSE Knows(c)
  PROVE  /\ past' = {} \/ UNCHANGED <<definition, snapshots, past, overtaken>>
         /\ IF client'[c].pc = "done" THEN Whole' ELSE Knows(c)'
<1> DEFINE E == client'[c]
<1>1. InPlace(c)
  BY InPlaceHolds
<1>2. ~For(c, Making) /\ ~For(c, Editing) /\ ~For(c, {"config"})
  BY DEF For, Making, Ending, Editing
<1>3. BeginEnding(c) \/ DeleteDefinition(c) \/ ListKeys(c) \/ SweepVersions(c) \/ CleanRuntime(c)
  BY <1>1, <1>2 DEF ClientStep, InPlace, Load, SaveVersion, SaveDefinition, ProvisionRuntime, BeginMaking,
     BeginConfig, PutConfig, At, For, Making, Editing
<1>4. /\ ~(E.errand \in Editing) /\ ~(E.errand \in Making)
  BY <1>1, <1>2 DEF InPlace, For
<1>5. E.pc = "undefine" => Knows(c)'
  BY <1>4 DEF Knows, For
<1>6. CASE BeginEnding(c)
  <2>1. E.pc = "undefine" \/ E.pc = "done"
    BY <1>1, <1>6 DEF BeginEnding, Then, InPlace
  <2> QED BY <1>5, <1>6, <2>1 DEF BeginEnding, At, Stored
<1>7. 1..(0 - 1) = {} /\ \A S : S \subseteq {} => S = {}
  OBVIOUS
<1>8. ~Defined' /\ snapshots' = {} /\ past' = {} => Whole'
  BY <1>7 DEF Whole, Kept, Defined
<1>9. CASE DeleteDefinition(c)
  <2>1. ~Defined' /\ past' = {} /\ E.pc = "versions"
    BY <1>1, <1>9, NoneIsOne DEF DeleteDefinition, Then, Hole, InPlace, Defined
  <2> QED BY <1>4, <2>1 DEF Knows, For
<1>10. CASE ListKeys(c)
  <2>1. UNCHANGED <<definition, snapshots, past, overtaken>>
    BY <1>10 DEF ListKeys, Stored
  <2>2. CASE At(c, "versions")
    <3>1. E.pc = "sweep" /\ E.left = Numbers
      BY <1>1, <1>10, <2>2 DEF ListKeys, Hole, At, InPlace
    <3>2. ~Defined /\ past = {}
      BY <2>2 DEF Knows, At
    <3> QED BY <1>4, <2>1, <3>1, <3>2 DEF Knows, For, Defined, Numbers
  <2>3. CASE At(c, "files")
    <3>1. E.pc = "clean"
      BY <1>1, <1>10, <2>3 DEF ListKeys, Hole, At, InPlace
    <3>2. ~Defined /\ past = {} /\ snapshots = {}
      BY <2>3 DEF Knows, At
    <3> QED BY <1>4, <2>1, <3>1, <3>2 DEF Knows, For, Defined
  <2> QED BY <1>10, <2>2, <2>3 DEF ListKeys
<1>11. CASE SweepVersions(c)
  <2>1. ~Defined /\ ~Defined' /\ past' = {} /\ Numbers \subseteq client[c].left
    BY <1>11 DEF SweepVersions, At, Knows, Defined
  <2>2. CASE client[c].left = {}
    <3>1. snapshots' = {}
      BY <1>11, <2>1, <2>2 DEF SweepVersions, Numbers
    <3>2. E.pc \in {"files", "done"}
      BY <1>1, <1>11, <2>2 DEF SweepVersions, AfterVersions, Then, InPlace
    <3> QED BY <1>4, <1>8, <2>1, <3>1, <3>2 DEF Knows, For
  <2>3. CASE client[c].left # {}
    <3>1. PICK v \in client[c].left :
            /\ snapshots' = {s \in snapshots : s.version # v}
            /\ client' = [client EXCEPT ![c].left = @ \ {v}]
      BY <1>11, <2>3 DEF SweepVersions, Hole
    <3>2. E.pc = "sweep" /\ E.left = client[c].left \ {v}
      BY <1>1, <1>11, <3>1 DEF SweepVersions, At, InPlace
    <3>3. Numbers' \subseteq E.left
      BY <2>1, <3>1, <3>2 DEF Numbers
    <3> QED BY <1>4, <2>1, <3>2, <3>3 DEF Knows, For
  <2> QED BY <2>2, <2>3
<1>12. CASE CleanRuntime(c)
  <2>1. ~Defined' /\ past' = {} /\ snapshots' = {}
    BY <1>12 DEF CleanRuntime, At, Knows, Defined
  <2>2. E.pc \in {"clean", "done"}
    BY <1>1, <1>12 DEF CleanRuntime, At, Then, Hole, InPlace
  <2> QED BY <1>4, <1>8, <2>1, <2>2 DEF Knows, For
<1> QED BY <1>3, <1>6, <1>9, <1>10, <1>11, <1>12

\* What a step of a call that edits the agent leaves to the others.
Leaves ==
  /\ Numbers \subseteq Numbers' /\ (Defined => Defined')
  /\ ~overtaken' =>
       /\ ~overtaken /\ past \cup {definition} \subseteq past' \cup {definition'}
       /\ (past \cup {definition}) \cap snapshots \subseteq snapshots'

\* A call that edits the agent or configures it, while nobody makes or ends it.
LEMMA EditorStep ==
  ASSUME CatInv, NEW c \in Clients, ClientStep(c), ~For(c, Making \cup Ending), ~holed', Whole,
         Lineage, At(c, "new") \/ Knows(c)
  PROVE  /\ Whole' /\ Lineage' /\ Leaves
         /\ client'[c].pc # "done" => Knows(c)'
<1> DEFINE E == client'[c]
<1>1. InPlace(c)
  BY InPlaceHolds
<1>2. ~For(c, Making) /\ ~For(c, Ending)
  BY DEF For, Making, Ending, Editing
<1>3. \/ Load(c) \/ SaveVersion(c) \/ SaveDefinition(c) \/ ProvisionRuntime(c)
      \/ BeginConfig(c) \/ PutConfig(c)
  BY <1>1, <1>2 DEF ClientStep, InPlace, BeginMaking, BeginEnding,
       DeleteDefinition, ListKeys, SweepVersions, CleanRuntime, At, For
<1>4. ~(E.errand \in Ending) /\ ~(E.errand \in Making) /\ (E.errand \in Editing <=> For(c, Editing))
  BY <1>1, <1>2 DEF InPlace, For
<1>5. ASSUME UNCHANGED <<definition, snapshots, past, overtaken>>
      PROVE  Lineage' /\ Leaves /\ (UNCHANGED runtime => Whole')
  BY <1>5 DEF Lineage, Leaves, Whole, Kept, Defined, Numbers
<1>6. CASE Load(c)
  <2>1. UNCHANGED Stored
    BY <1>6 DEF Load
  <2>2. E.pc = "done" \/ (E.pc = "snapshot" /\ E.read = definition /\ Defined)
    BY <1>1, <1>6 DEF Load, Then, InPlace
  <2> QED BY <1>4, <1>5, <2>1, <2>2 DEF Knows, Whole, Kept, Stored, For, Defined, Numbers
<1>7. CASE SaveVersion(c)
  <2> DEFINE r == client[c].read
  <2>1. /\ snapshots' = {s \in snapshots : s.version # r.version} \cup {r}
        /\ UNCHANGED <<definition, runtime, past, overtaken>>
        /\ E.pc = "define" /\ E.read = r
    BY <1>1, <1>7 DEF SaveVersion, SnapshotOf, Hole, Then, InPlace
  <2>2. /\ For(c, Editing) /\ Defined /\ r.version # 0 /\ Kept(r.version) /\ r.version \in Nat
        /\ ~overtaken => r \in past \cup {definition}
    BY <1>1, <1>7 DEF SaveVersion, At, InPlace, Knows, Definition
  <2>3. r.version \in Numbers' /\ Numbers \subseteq Numbers' /\ r \in snapshots'
    BY <2>1 DEF Numbers
  <2>4. ~overtaken => (past \cup {definition}) \cap snapshots \subseteq snapshots'
    <3> SUFFICES ASSUME ~overtaken, NEW s \in past \cup {definition}, s \in snapshots
                 PROVE  s \in snapshots'
      OBVIOUS
    <3>1. \A x, y \in past \cup {definition} : x.version = y.version => x = y
      <4>1. \A x \in past \cup {definition} : x.version \in Nat
        BY <1>1 DEF InPlace, Definition
      <4> QED BY <4>1 DEF Lineage
    <3> QED BY <2>1, <2>2, <3>1
  <2>5. Lineage'
    BY <2>1, <2>4 DEF Lineage
  <2>6. Leaves
    BY <2>1, <2>3, <2>4 DEF Leaves, Defined
  <2>7. Kept(r.version + 1)'
    <3>1. SUFFICES ASSUME NEW k \in 1..((r.version + 1) - 1) PROVE k \in Numbers'
      BY <2>1 DEF Kept
    <3>2. k = r.version \/ k \in 1..(r.version - 1)
      BY <2>2
    <3> QED BY <2>2, <2>3, <3>2 DEF Kept
  <2>8. Whole'
    BY <2>1, <2>2, <2>3 DEF Whole, Kept, Defined
  <2> QED BY <1>4, <2>1, <2>2, <2>3, <2>5, <2>6, <2>7, <2>8 DEF Knows, Kept, For, Defined
<1>8. CASE SaveDefinition(c)
  <2> DEFINE r == client[c].read
  <2>1. For(c, Editing) /\ Defined /\ Kept(r.version + 1) /\ r \in Definition
        /\ (~overtaken => r \in snapshots)
    BY <1>1, <1>2, <1>8 DEF SaveDefinition, At, InPlace, Knows, For
  <2>2. /\ definition' = Edited(c) /\ UNCHANGED <<snapshots, runtime>>
        /\ past' = past \cup {definition} /\ overtaken' = (overtaken \/ ~({definition} \subseteq {r}))
        /\ E.pc \in {"provision", "done"}
    BY <1>1, <1>8, <2>1 DEF SaveDefinition, Hole, Then, InPlace
  <2>3. definition'.version = r.version + 1 /\ r.version \in Nat
    BY <2>1, <2>2 DEF Edited, Definition
  <2>4. Defined' /\ 1..(definition'.version - 1) \subseteq Numbers'
    BY <2>1, <2>2, <2>3 DEF Kept, Defined, Numbers
  <2>5. Whole'
    BY <2>1, <2>2, <2>4 DEF Whole, Kept, Defined
  <2>6. ~overtaken' => ~overtaken /\ definition = r
    BY <2>2
  <2>7. Lineage'
    <3> SUFFICES ASSUME ~overtaken'
                 PROVE  /\ past' \subseteq snapshots'
                        /\ \A s \in past' : s.version < definition'.version
                        /\ \A s, q \in past' : s.version = q.version => s = q
      BY DEF Lineage
    <3>1. \A s \in past \cup {definition} : s.version \in Nat
      BY <1>1 DEF InPlace, Definition
    <3> QED BY <2>1, <2>2, <2>3, <2>6, <3>1 DEF Lineage
  <2>8. Leaves
    BY <2>2, <2>4, <2>6 DEF Leaves, Numbers
  <2> QED BY <1>4, <2>2, <2>4, <2>5, <2>7, <2>8 DEF Knows, For
<1>9. CASE ProvisionRuntime(c)
  <2>1. /\ UNCHANGED <<definition, snapshots, past, overtaken>> /\ runtime \subseteq runtime'
        /\ E.pc \in {"provision", "done"}
    BY <1>1, <1>9 DEF ProvisionRuntime, Hole, Then, InPlace
  <2>2. For(c, Editing) /\ Defined
    BY <1>1, <1>2, <1>9 DEF ProvisionRuntime, At, InPlace, Knows, For
  <2>3. Whole'
    BY <1>1, <2>1, <2>2 DEF Whole, Kept, InPlace, Defined, Numbers
  <2> QED BY <1>4, <1>5, <2>1, <2>2, <2>3 DEF Knows, For, Defined
<1>10. CASE BeginConfig(c)
  <2>1. UNCHANGED Stored /\ For(c, {"config"})
    BY <1>10 DEF BeginConfig
  <2> QED BY <1>4, <1>5, <2>1 DEF Knows, Stored, For, Editing
<1>11. CASE PutConfig(c)
  <2>1. /\ UNCHANGED <<definition, snapshots, past, overtaken>> /\ runtime \subseteq runtime'
        /\ E.pc = "done"
    BY <1>1, <1>11 DEF PutConfig, Then, InPlace
  <2>2. Whole'
    BY <1>1, <2>1 DEF Whole, Kept, InPlace, Defined, Numbers
  <2> QED BY <1>5, <2>1, <2>2
<1> QED BY <1>3, <1>6, <1>7, <1>8, <1>9, <1>10, <1>11

LEMMA CatInvStep == CatInv /\ [CatNext]_catVars => CatInv'
<1>1. CASE UNCHANGED catVars
  BY <1>1 DEF catVars, CatInv, CatTypeOK, Errant, AloneAtIt, UnderWay, Knows, Whole, Kept, Lineage, Defined,
                  Numbers, For
<1>2. ASSUME CatInv, NEW c \in Clients, ClientStep(c)
      PROVE  CatInv'
  <2>1. CatFrame(c) /\ CatTypeOK' /\ Errant'
    BY <1>2, CatTyped
  <2> SUFFICES ASSUME ~holed'
               PROVE  /\ AloneAtIt' /\ Lineage'
                      /\ \A d \in UnderWay' : Knows(d)'
                      /\ (\A d \in UnderWay' : ~For(d, Making \cup Ending)') => Whole'
    BY <2>1 DEF CatInv
  <2>2. /\ AloneAtIt /\ Lineage
        /\ \A d \in UnderWay : Knows(d)
        /\ (\A d \in UnderWay : ~For(d, Making \cup Ending)) => Whole
    BY <1>2, <2>1 DEF CatInv, CatFrame
  <2>3. /\ client \in [Clients -> Client]
        /\ \A d \in Clients \ {c} : client'[d] = client[d]
        /\ \A d \in Clients : \A S : For(d, S)' <=> For(d, S)
    BY <1>2, <2>1 DEF CatFrame, CatInv, CatTypeOK, For
  <2>4. /\ c \in UnderWay' <=> client'[c].pc # "done"
        /\ c \in UnderWay <=> client[c].pc # "new"
        /\ \A d \in Clients \ {c} : d \in UnderWay' <=> d \in UnderWay
        /\ UnderWay \subseteq Clients /\ UnderWay' \subseteq Clients
    BY <2>1, <2>3 DEF CatFrame, UnderWay
  <2>5. CASE At(c, "new") /\ client'[c].pc = "done" /\ UNCHANGED holed
    <3>1. UNCHANGED Stored
      BY <1>2, <2>5, EntryStep
    <3>2. UnderWay' = UnderWay
      BY <2>4, <2>5 DEF At
    <3>3. \A d \in UnderWay : client'[d] = client[d]
      BY <2>3, <2>4, <2>5 DEF At
    <3>4. \A d \in UnderWay : Knows(d)'
      BY <2>2, <3>1, <3>3 DEF Knows, Stored, Kept, For, Defined, Numbers
    <3>5. (Whole => Whole') /\ Lineage'
      BY <2>2, <3>1 DEF Whole, Kept, Stored, Lineage, Defined, Numbers
    <3>6. AloneAtIt'
      BY <2>2, <2>3, <2>4, <3>2 DEF AloneAtIt
    <3> QED BY <2>2, <2>3, <2>4, <3>2, <3>4, <3>5, <3>6
  <2>6. CASE ~(At(c, "new") /\ client'[c].pc = "done" /\ UNCHANGED holed)
    <3>1. At(c, "new") => Meet(c)
      BY <1>2, <2>6, EntryStep
    <3>2. CASE For(c, Making \cup Ending)
      <4>1. UnderWay \subseteq {c}
        <5>1. CASE At(c, "new")
          BY <3>1, <3>2, <5>1 DEF Meet
        <5>2. CASE ~At(c, "new")
          BY <2>2, <2>4, <3>2, <5>2 DEF AloneAtIt, At
        <5> QED BY <5>1, <5>2
      <4>2. At(c, "new") => Whole
        BY <2>2, <2>4, <4>1 DEF At
      <4>3. ~At(c, "new") => Knows(c)
        BY <2>2, <2>4 DEF At
      <4>4. At(c, "new") => client'[c].pc # "done"
        BY <1>2, <2>1, <2>6 DEF CatFrame, CatInv, CatTypeOK
      <4>5. /\ past' = {} \/ UNCHANGED <<definition, snapshots, past, overtaken>>
            /\ IF client'[c].pc = "done" THEN Whole' ELSE Knows(c)'
        <5>1. CASE For(c, Making)
          BY <1>2, <4>2, <4>3, <4>4, <5>1, MakerStep
        <5>2. CASE For(c, Ending)
          BY <1>2, <4>2, <4>3, <4>4, <5>2, EnderStep
        <5> QED BY <3>2, <5>1, <5>2 DEF For
      <4>6. UnderWay' \subseteq {c}
        BY <2>4, <4>1
      <4>7. Lineage'
        BY <2>2, <4>5 DEF Lineage
      <4> QED BY <2>3, <2>4, <3>2, <4>5, <4>6, <4>7 DEF AloneAtIt
    <3>3. CASE ~For(c, Making \cup Ending)
      <4>1. \A d \in UnderWay : ~For(d, Making \cup Ending)
        <5>1. CASE At(c, "new")
          BY <3>1, <5>1 DEF Meet
        <5>2. CASE ~At(c, "new")
          BY <2>2, <2>4, <3>3, <5>2 DEF AloneAtIt, At
        <5> QED BY <5>1, <5>2
      <4>2. Whole
        BY <2>2, <4>1
      <4>3. /\ Whole' /\ Lineage' /\ Leaves
            /\ client'[c].pc # "done" => Knows(c)'
        BY <1>2, <2>2, <2>4, <3>3, <4>2, EditorStep DEF At
      <4>4. \A d \in UnderWay' : Knows(d)'
        <5> SUFFICES ASSUME NEW d \in UnderWay', d # c
                     PROVE  Knows(d)'
          BY <2>4, <4>3
        <5>1. d \in UnderWay /\ client'[d] = client[d] /\ d \in Clients
          BY <2>3, <2>4
        <5>2. Knows(d) /\ ~For(d, Making) /\ ~For(d, Ending)
          BY <2>2, <4>1, <5>1 DEF For
        <5> QED BY <4>3, <5>1, <5>2 DEF Leaves, Knows, Kept, For
      <4>5. \A d \in UnderWay' : ~For(d, Making \cup Ending)'
        BY <2>3, <2>4, <3>3, <4>1
      <4> QED BY <4>3, <4>4, <4>5 DEF AloneAtIt
    <3> QED BY <3>2, <3>3
  <2> QED BY <2>5, <2>6
<1> QED BY <1>1, <1>2 DEF CatNext

LEMMA CatInvInit == CatInit => CatInv
<1> SUFFICES ASSUME CatInit PROVE CatInv
  OBVIOUS
<1>1. PICK e \in [Clients -> Errands] : client = [c \in Clients |-> Ready(e[c])]
  BY DEF CatInit
<1>2. \A c \in Clients : client[c] = Ready(e[c])
  BY <1>1
<1>3. Client = [errand : Errands, pc : ClientPcs, read : Definition, next : 1..5, left : SUBSET Nat, trash : SUBSET FileNames]
  BY FileFacts DEF Client
<1>4. \A x \in Errands : Ready(x) \in Client
  BY <1>3, NoneIsOne DEF Ready, ClientPcs
<1>5. CatTypeOK
  <2>1. client \in [Clients -> Client]
    BY <1>1, <1>4
  <2>2. 0 \in 0..MaxFlaws
    BY CatAssumption
  <2> QED BY <2>1, <2>2, NoneIsOne DEF CatInit, CatTypeOK
<1>6. Errant /\ UnderWay = {}
  <2>1. \A c \in Clients : client[c].pc = "new" /\ client[c].read = NoDefinition /\ client[c].next = 1
    <3>1. \A x : Ready(x).pc = "new" /\ Ready(x).read = NoDefinition /\ Ready(x).next = 1
      BY DEF Ready
    <3> QED BY <1>2, <3>1
  <2> QED BY <2>1 DEF Errant, UnderWay
<1>7. Whole /\ Lineage
  <2>1. 1..(0 - 1) = {}
    OBVIOUS
  <2> QED BY <2>1, NoneIsOne DEF CatInit, Whole, Lineage, Kept, Defined
<1> QED BY <1>5, <1>6, <1>7 DEF CatInv, AloneAtIt

\* A call of api/agents.py that makes or ends the agent and meets no other knows what is
\* stored; calls that edit it find a snapshot under every number before the one they have
\* read, and, as long as none was written over one it had not read, every definition that was
\* replaced.
THEOREM CatalogInvariant == CatSpec => []CatInv
BY CatInvInit, CatInvStep, PTL DEF CatSpec

\* The numbers that api/agents.py keeps are complete; the definitions are while no patch was
\* written over one that it had not read; both are gone with the agent.
THEOREM HistoryWholeHolds == CatSpec => []HistoryWhole
<1>1. CatInv => HistoryWhole
  BY DEF CatInv, HistoryWhole, Whole, Kept, Lineage
<1> QED BY <1>1, CatalogInvariant, PTL

-----------------------------------------------------------------------------
(***************************************************************************)
(* The distillation outbox: its inductive invariant.                        *)
(***************************************************************************)
\* The writes a worker has still to look at.
Taken(w) == {worker[w].batch[i][1] : i \in DOMAIN worker[w].batch}

OnceEach(batch) == \A i, j \in DOMAIN batch : batch[i][1] = batch[j][1] => i = j

Shaped ==
  \A w \in Workers :
    /\ worker[w].pc \in {"apply", "mark", "fail"} => worker[w].batch # <<>> /\ MayTry(w)
    /\ ~Busy(w) => worker[w].batch = <<>>
    /\ OnceEach(worker[w].batch) /\ Taken(w) \subseteq Rows

KeysUnique == \A x, y \in Rows : KeyOf[x] = KeyOf[y] => x = y

FromRows(lines) == \A i \in DOMAIN lines : lines[i] \in Rows

OnlyRows ==
  /\ \A t \in Targets : FromRows(text[t])
  /\ \A w \in Workers : FromRows(worker[w].read)
  /\ \A x \in Writes : row[x].processed => x \in Rows

\* Only one worker has the rows of a target in hand, unless the ghost says otherwise.
Alone ==
  \A w, v \in Workers, x, y \in Writes :
    x \in Taken(w) /\ y \in Taken(v) /\ TargetOf[x] = TargetOf[y] /\ TargetOf[x] \notin spoilt
      => w = v

FreshCopies ==
  \A w \in Workers, x \in Writes :
    x \in Taken(w) /\ TargetOf[x] \notin spoilt => ~row[x].processed

UpToDate ==
  \A w \in Workers : worker[w].pc = "apply" /\ Target(w) \notin spoilt \cup missing =>
    worker[w].read = text[Target(w)]

InText(x) ==
  IF x \in unmarked THEN Times(x) >= 1
  ELSE Times(x) = IF row[x].processed \/ Marking(x) THEN 1 ELSE 0

LinesCounted == \A x \in Writes : TargetOf[x] \notin spoilt \cup missing => InText(x)

\* The workers that may still add a retry to the row.
Triers(x) ==
  {w \in Workers : \E i \in DOMAIN worker[w].batch :
     worker[w].batch[i][1] = x /\ worker[w].batch[i][2] < MaxRetries}

Bounded(x) == row[x].retries + Cardinality(Triers(x)) <= MaxRetries - 1 + Cardinality(Workers)

RetriesBounded == \A x \in Writes : Bounded(x)

OutInv == /\ OutTypeOK /\ Shaped /\ KeysUnique /\ OnlyRows /\ Alone /\ FreshCopies /\ UpToDate
          /\ LinesCounted /\ RetriesBounded

-----------------------------------------------------------------------------
(***************************************************************************)
(* Lemmas on the sequences of lines and of rows.                            *)
(***************************************************************************)
LEMMA OccursFacts ==
  ASSUME NEW lines \in Seq(Writes), NEW x
  PROVE  /\ Occurs(lines, x) \in Nat
         /\ (\A i \in DOMAIN lines : lines[i] # x) => Occurs(lines, x) = 0
<1> DEFINE at == {i \in DOMAIN lines : lines[i] = x}
<1>1. IsFiniteSet(DOMAIN lines)
  BY FS_Interval
<1>2. IsFiniteSet(at)
  BY <1>1, FS_Subset
<1>3. Cardinality(at) \in Nat
  BY <1>2, FS_CardinalityType
<1>4. (\A i \in DOMAIN lines : lines[i] # x) => at = {}
  OBVIOUS
<1> QED
  BY <1>3, <1>4, FS_EmptySet DEF Occurs

LEMMA OccursAppend ==
  ASSUME NEW lines \in Seq(Writes), NEW y \in Writes, NEW x
  PROVE  Occurs(Append(lines, y), x) = IF x = y THEN Occurs(lines, x) + 1 ELSE Occurs(lines, x)
<1> DEFINE at == {i \in DOMAIN lines : lines[i] = x}
           more == {i \in DOMAIN Append(lines, y) : Append(lines, y)[i] = x}
           new == Len(lines) + 1
<1>1. IsFiniteSet(DOMAIN lines)
  BY FS_Interval
<1>2. IsFiniteSet(at) /\ new \notin at
  BY <1>1, FS_Subset
<1>3. more = IF x = y THEN at \cup {new} ELSE at
  OBVIOUS
<1>4. Cardinality(at \cup {new}) = Cardinality(at) + 1
  BY <1>2, FS_AddElement
<1> QED
  BY <1>3, <1>4 DEF Occurs

LEMMA BatchTail ==
  ASSUME NEW b \in Seq(Writes \X Retries), b # <<>>, OnceEach(b)
  PROVE  /\ Tail(b) \in Seq(Writes \X Retries)
         /\ DOMAIN Tail(b) = 1..(Len(b) - 1)
         /\ \A i \in DOMAIN Tail(b) : i + 1 \in DOMAIN b /\ i + 1 # 1 /\ Tail(b)[i] = b[i + 1]
         /\ OnceEach(Tail(b))
         /\ \A i \in DOMAIN Tail(b) : Tail(b)[i][1] # b[1][1]
<1>1. /\ Tail(b) \in Seq(Writes \X Retries) /\ Len(b) \in Nat \ {0} /\ DOMAIN b = 1..Len(b)
      /\ DOMAIN Tail(b) = 1..(Len(b) - 1)
      /\ \A i \in 1..(Len(b) - 1) : Tail(b)[i] = b[i + 1]
  OBVIOUS
<1>2. \A i \in DOMAIN Tail(b) : i + 1 \in DOMAIN b /\ i + 1 # 1 /\ Tail(b)[i] = b[i + 1]
  BY <1>1
<1>3. 1 \in DOMAIN b
  BY <1>1
<1>4. OnceEach(Tail(b))
  BY <1>1, <1>2 DEF OnceEach
<1>5. \A i \in DOMAIN Tail(b) : Tail(b)[i][1] # b[1][1]
  BY <1>1, <1>2, <1>3 DEF OnceEach
<1> QED
  BY <1>1, <1>2, <1>4, <1>5

LEMMA RetriesNat == /\ Cardinality(Workers) \in Nat /\ 0 \in Retries /\ Retries \subseteq Nat
                    /\ MaxRetries \in Nat \ {0}
                    /\ \A n \in Nat : n <= MaxRetries - 1 + Cardinality(Workers) => n \in Retries
<1>1. Cardinality(Workers) \in Nat
  BY OutboxAssumption, FS_CardinalityType
<1> QED
  BY <1>1, OutboxAssumption DEF Retries

\* A row in a worker's batch.
LEMMA EntryType ==
  ASSUME OutTypeOK, Shaped, NEW w \in Workers, worker[w].batch # <<>>
  PROVE  /\ worker[w] \in Worker /\ worker[w].batch \in Seq(Writes \X Retries)
         /\ 1 \in DOMAIN worker[w].batch
         /\ Entry(w) \in Taken(w) /\ Entry(w) \in Writes /\ Tries(w) \in Retries
         /\ Entry(w) \in Rows /\ Target(w) \in Targets /\ row[Entry(w)] \in Row
         /\ OnceEach(worker[w].batch)
<1>1. worker[w] \in Worker /\ worker[w].batch \in Seq(Writes \X Retries)
  BY DEF OutTypeOK, Worker
<1> DEFINE b == worker[w].batch
<1>2. b \in Seq(Writes \X Retries) /\ b # <<>>
  BY <1>1
<1> HIDE DEF b
<1>3. 1 \in DOMAIN b /\ b[1] \in Writes \X Retries
  BY <1>2
<1>4. 1 \in DOMAIN worker[w].batch /\ worker[w].batch[1][1] \in Writes /\ worker[w].batch[1][2] \in Retries
  BY <1>3 DEF b
<1> QED
  BY <1>1, <1>4 DEF Entry, Tries, Taken, Shaped, OutTypeOK, Target, Targets, OnceEach

-----------------------------------------------------------------------------
(***************************************************************************)
(* What the steps do.                                                       *)
(***************************************************************************)
SameButRows ==
  \A y \in Writes : row'[y].processed = row[y].processed /\ row'[y].retries = row[y].retries

\* A row is inserted.
Enters(x) ==
  /\ x \in Writes \ Rows /\ \A y \in Rows : KeyOf[y] # KeyOf[x]
  /\ Rows' = Rows \cup {x} /\ row' \in [Writes -> Row] /\ SameButRows
  /\ UNCHANGED <<text, missing, worker, unmarked, spoilt>>

\* Nothing happens but a mishap, or that a node is deleted.
Idles ==
  missing \subseteq missing' /\ UNCHANGED <<row, created, text, worker, unmarked, spoilt>>

Others(w) ==
  /\ \A v \in Workers \ {w} : worker'[v] = worker[v]
  /\ worker' = [v \in Workers |-> worker'[v]]

LEMMA OthersStay ==
  ASSUME NEW w \in Workers, Others(w)
  PROVE  \A v \in Workers \ {w} : worker'[v] = worker[v] /\ Taken(v)' = Taken(v)
BY DEF Others, Taken

\* A worker takes rows, oldest first.
Takes(w) ==
  /\ ~Busy(w) /\ Others(w)
  /\ worker'[w].pc = "next" /\ worker'[w].read = <<>>
  /\ worker'[w].batch \in Seq(Writes \X Retries) /\ OnceEach(worker'[w].batch)
  /\ \A i \in DOMAIN worker'[w].batch :
       LET x == worker'[w].batch[i][1] IN
       /\ x \in Rows /\ ~row[x].processed /\ worker'[w].batch[i][2] = row[x].retries
       /\ TargetOf[x] \notin spoilt' => \A v \in Workers : ~Busy(v)
  /\ worker'[w] \in Worker
  /\ spoilt \subseteq spoilt' /\ spoilt' \subseteq spoilt \cup Targets
  /\ UNCHANGED <<row, text, missing, unmarked>>

\* A worker gives up its batch.
Drops(w) ==
  /\ Others(w) /\ worker'[w] = Free
  /\ unmarked' = IF worker[w].pc = "mark" THEN unmarked \cup {Entry(w)} ELSE unmarked
  /\ UNCHANGED <<row, text, missing, spoilt>>

\* A worker has the target in hand, and goes on with the row it is at.
Reads(w) ==
  /\ worker[w].pc = "next" /\ worker[w].batch # <<>> /\ MayTry(w)
  /\ Others(w) /\ worker'[w].batch = worker[w].batch
  /\ \/ worker'[w].pc = "apply" /\ worker'[w].read = text[Target(w)] /\ spoilt' = spoilt
     \/ worker'[w].pc = "fail" /\ worker'[w].read = worker[w].read /\ spoilt' = spoilt
     \/ worker'[w].pc = "apply" /\ worker'[w].read = <<>> /\ spoilt' = spoilt \cup {Target(w)}
  /\ UNCHANGED <<row, text, missing, unmarked>>

Applies(w) ==
  /\ worker[w].pc = "apply"
  /\ Others(w) /\ worker'[w].batch = worker[w].batch /\ worker'[w].read = <<>>
  /\ \/ worker'[w].pc = "mark" /\ TakesEffect(w) /\ unmarked' = unmarked
     \/ worker'[w].pc = "fail" /\ text' = text /\ unmarked' = unmarked
     \/ worker'[w].pc = "fail" /\ TakesEffect(w) /\ unmarked' = unmarked \cup {Entry(w)}
  /\ UNCHANGED <<row, missing, spoilt>>

\* A worker goes to the next row.
Passes(w) ==
  /\ worker[w].batch # <<>> /\ Others(w)
  /\ worker'[w].pc = "next" /\ worker'[w].batch = Tail(worker[w].batch)
  /\ worker'[w].read = worker[w].read
  /\ \/ worker[w].pc = "next" /\ UNCHANGED <<row, unmarked>>
     \/ /\ worker[w].pc = "mark" /\ unmarked' = unmarked
        /\ row' = [row EXCEPT ![Entry(w)].processed = TRUE]
     \/ worker[w].pc = "mark" /\ unmarked' = unmarked \cup {Entry(w)} /\ UNCHANGED row
     \/ /\ worker[w].pc = "fail" /\ UNCHANGED unmarked
        /\ \/ UNCHANGED row
           \/ row' = [row EXCEPT ![Entry(w)].retries = row[Entry(w)].retries + 1]
  /\ UNCHANGED <<text, missing, spoilt>>

LEMMA WorkerType ==
  ASSUME NEW pc \in {"idle", "next", "apply", "mark", "fail"},
         NEW batch \in Seq(Writes \X Retries)
  PROVE  /\ \A read \in Seq(Writes) : [pc |-> pc, batch |-> batch, read |-> read] \in Worker
         /\ [pc |-> pc, batch |-> batch, read |-> <<>>] \in Worker
<1>1. <<>> \in Seq(Writes)
  OBVIOUS
<1>2. \A read \in Seq(Writes) : [pc |-> pc, batch |-> batch, read |-> read] \in Worker
  BY DEF Worker
<1> QED
  BY <1>1, <1>2

LEMMA WorkerUpdate ==
  ASSUME OutTypeOK, NEW w \in Workers, NEW rec, worker' = [worker EXCEPT ![w] = rec]
  PROVE  worker'[w] = rec /\ Others(w)
BY DEF OutTypeOK, Others

LEMMA EnqueueStep ==
  ASSUME OutTypeOK, NEW x \in Writes, Enqueue(x)
  PROVE  Enters(x) \/ Idles
<1>1. CASE (\A y \in Rows : KeyOf[y] # KeyOf[x]) /\ Insert(x)
  <2>1. row \in [Writes -> Row] /\ row[x] \in Row
    BY DEF OutTypeOK
  <2> DEFINE rec == [row[x] EXCEPT !.in = TRUE]
  <2>2. /\ rec \in Row /\ rec.in = TRUE /\ rec.processed = row[x].processed
        /\ rec.retries = row[x].retries
    BY <2>1 DEF Row
  <2>3. row' = [row EXCEPT ![x] = rec]
    BY <1>1 DEF Insert
  <2> HIDE DEF rec
  <2>4. row' \in [Writes -> Row] /\ row'[x] = rec /\ \A y \in Writes \ {x} : row'[y] = row[y]
    BY <2>1, <2>2, <2>3
  <2>5. Rows' = Rows \cup {x} /\ SameButRows
    BY <2>2, <2>4 DEF Rows, SameButRows
  <2> QED
    BY <1>1, <2>4, <2>5 DEF Enters, Enqueue
<1>2. CASE Mishap("insert") /\ UNCHANGED <<row, created>>
  BY <1>2 DEF Enqueue, Idles
<1> QED
  BY <1>1, <1>2 DEF Enqueue

LEMMA ListStep ==
  ASSUME OutTypeOK, NEW w \in Workers, ListPending(w)
  PROVE  Takes(w) \/ Idles
<1>1. PICK b \in Pending :
        \/ /\ worker' = [worker EXCEPT ![w] =
                [pc |-> "next", batch |-> [i \in DOMAIN b |-> <<b[i], row[b[i]].retries>>],
                 read |-> <<>>]]
           /\ spoilt' = IF \E v \in Workers : Busy(v)
                        THEN spoilt \cup {TargetOf[b[i]] : i \in DOMAIN b} ELSE spoilt
        \/ Mishap("list") /\ UNCHANGED <<worker, spoilt>>
  BY DEF ListPending
<1>2. ~Busy(w) /\ UNCHANGED <<row, created, text, missing, unmarked>>
  BY DEF ListPending
<1>3. PICK n \in 1..Limit : b \in [1..n -> Open]
  BY <1>1 DEF Pending
<1>4. \A i, j \in 1..n : i < j => created[b[i]] < created[b[j]]
  BY <1>1, <1>3 DEF Pending
<1>5. n \in Nat /\ \A i \in 1..n : b[i] \in Open /\ b[i] \in Writes /\ row[b[i]].retries \in Retries
  BY <1>3, OutboxAssumption DEF Open, Rows, OutTypeOK, Row
<1>6. CASE UNCHANGED <<worker, spoilt>>
  BY <1>2, <1>6 DEF Idles
<1>7. CASE /\ worker' = [worker EXCEPT ![w] =
                [pc |-> "next", batch |-> [i \in DOMAIN b |-> <<b[i], row[b[i]].retries>>],
                 read |-> <<>>]]
           /\ spoilt' = IF \E v \in Workers : Busy(v)
                        THEN spoilt \cup {TargetOf[b[i]] : i \in DOMAIN b} ELSE spoilt
  <2> DEFINE batch == [i \in 1..n |-> <<b[i], row[b[i]].retries>>]
             rec == [pc |-> "next", batch |-> batch, read |-> <<>>]
  <2>1. batch \in Seq(Writes \X Retries)
    BY <1>5
  <2>2. \A i \in DOMAIN batch : batch[i][1] = b[i] /\ batch[i][2] = row[b[i]].retries
    OBVIOUS
  <2>3. OnceEach(batch)
    <3>1. ASSUME NEW i \in 1..n, NEW j \in 1..n, b[i] = b[j]
          PROVE  i = j
      <4>1. created[b[i]] \in Nat
        BY <1>5 DEF OutTypeOK
      <4>2. ~(i < j) /\ ~(j < i)
        BY <1>4, <3>1, <4>1
      <4> QED
        BY <1>5, <4>2
    <3> QED
      BY <2>2, <3>1 DEF OnceEach
  <2>4. DOMAIN batch = 1..n /\ DOMAIN b = 1..n
    BY <1>3
  <2>5. worker' = [worker EXCEPT ![w] = rec]
    BY <1>7, <2>4
  <2> HIDE DEF batch
  <2>6. /\ rec.pc = "next" /\ rec.batch = batch /\ rec.read = <<>>
        /\ rec \in Worker
    BY <2>1, WorkerType
  <2> HIDE DEF rec
  <2>7. worker'[w] = rec /\ Others(w)
    BY <2>5, WorkerUpdate
  <2>8. spoilt \subseteq spoilt' /\ spoilt' \subseteq spoilt \cup Targets
    BY <1>5, <1>7, <2>4 DEF Targets
  <2>9. \A i \in 1..n : TargetOf[b[i]] \notin spoilt' => \A v \in Workers : ~Busy(v)
    <3> SUFFICES ASSUME NEW i \in 1..n, NEW v \in Workers, Busy(v), TargetOf[b[i]] \notin spoilt'
                 PROVE  FALSE
      OBVIOUS
    <3>1. spoilt' = spoilt \cup {TargetOf[b[k]] : k \in 1..n}
      BY <1>7, <2>4
    <3> QED BY <3>1
  <2>10. \A i \in 1..n : b[i] \in Rows /\ ~row[b[i]].processed
    <3>1. \A x \in Open : x \in Rows /\ ~row[x].processed
      BY DEF Open
    <3>2. \A i \in 1..n : b[i] \in Open
      BY <1>5
    <3> QED BY <3>1, <3>2
  <2>11. \A i \in DOMAIN batch :
           /\ batch[i][1] \in Rows /\ ~row[batch[i][1]].processed
           /\ batch[i][2] = row[batch[i][1]].retries
           /\ TargetOf[batch[i][1]] \notin spoilt' => \A v \in Workers : ~Busy(v)
    BY <2>2, <2>4, <2>9, <2>10
  <2>12. worker'[w].batch = batch /\ worker'[w].pc = "next" /\ worker'[w].read = <<>>
         /\ worker'[w] \in Worker
    BY <2>6, <2>7
  <2> QED
    BY <1>2, <2>1, <2>3, <2>7, <2>8, <2>11, <2>12 DEF Takes
<1> QED
  BY <1>1, <1>6, <1>7

LEMMA WorkerSteps ==
  ASSUME OutTypeOK, Shaped, NEW w \in Workers, WorkerStep(w) \/ CrashWorker(w)
  PROVE  Drops(w) \/ Reads(w) \/ Applies(w) \/ Passes(w)
<1>1. /\ worker[w] \in Worker /\ worker[w].pc # "idle" => Busy(w)
      /\ worker[w].pc \in {"apply", "mark", "fail"} => worker[w].batch # <<>>
  BY DEF OutTypeOK, Busy, Shaped
<1>2. CASE Skip(w)
  <2>1. CASE worker[w].batch = <<>> /\ worker' = [worker EXCEPT ![w] = Free]
    BY <1>2, <2>1, WorkerUpdate DEF Skip, Drops
  <2>2. CASE worker[w].batch # <<>> /\ worker' = [worker EXCEPT ![w].batch = Tail(@)]
    <3> DEFINE rec == [worker[w] EXCEPT !.batch = Tail(worker[w].batch)]
    <3>1. rec.pc = worker[w].pc /\ rec.batch = Tail(worker[w].batch) /\ rec.read = worker[w].read
      BY <1>1 DEF Worker
    <3>2. worker' = [worker EXCEPT ![w] = rec]
      BY <2>2
    <3> HIDE DEF rec
    <3>3. worker'[w] = rec /\ Others(w)
      BY <3>2, WorkerUpdate
    <3> QED
      BY <1>2, <2>2, <3>1, <3>3 DEF Skip, Passes
  <2> QED
    BY <1>2, <2>1, <2>2 DEF Skip
<1>3. CASE ReadTarget(w)
  <2>1. CASE worker' = [worker EXCEPT ![w].pc = "fail"] /\ spoilt' = spoilt
    <3> DEFINE rec == [worker[w] EXCEPT !.pc = "fail"]
    <3>1. rec.pc = "fail" /\ rec.batch = worker[w].batch /\ rec.read = worker[w].read
      BY <1>1 DEF Worker
    <3>2. worker' = [worker EXCEPT ![w] = rec]
      BY <2>1
    <3> HIDE DEF rec
    <3>3. worker'[w] = rec /\ Others(w)
      BY <3>2, WorkerUpdate
    <3> QED
      BY <1>3, <2>1, <3>1, <3>3 DEF ReadTarget, Reads
  <2>2. ASSUME NEW lines, worker' = [worker EXCEPT ![w].pc = "apply", ![w].read = lines],
               \/ lines = text[Target(w)] /\ spoilt' = spoilt
               \/ lines = <<>> /\ spoilt' = spoilt \cup {Target(w)}
        PROVE  Reads(w)
    <3> DEFINE rec == [worker[w] EXCEPT !.pc = "apply", !.read = lines]
    <3>1. rec.pc = "apply" /\ rec.batch = worker[w].batch /\ rec.read = lines
      BY <1>1 DEF Worker
    <3>2. worker' = [worker EXCEPT ![w] = rec]
      BY <2>2
    <3> HIDE DEF rec
    <3>3. worker'[w] = rec /\ Others(w)
      BY <3>2, WorkerUpdate
    <3> QED
      BY <1>3, <2>2, <3>1, <3>3 DEF ReadTarget, Reads
  <2>3. CASE /\ worker' = [worker EXCEPT ![w].pc = "apply", ![w].read = text[Target(w)]]
             /\ spoilt' = spoilt
    BY <2>2, <2>3
  <2>4. CASE /\ worker' = [worker EXCEPT ![w].pc = "apply", ![w].read = <<>>]
             /\ spoilt' = spoilt \cup {Target(w)}
    BY <2>2, <2>4
  <2> QED
    BY <1>3, <2>1, <2>3, <2>4 DEF ReadTarget
<1>4. CASE Apply(w)
  <2>1. ASSUME NEW pc \in {"mark", "fail"}, worker' = [worker EXCEPT ![w].pc = pc, ![w].read = <<>>]
        PROVE  /\ worker'[w].pc = pc /\ worker'[w].batch = worker[w].batch
               /\ worker'[w].read = <<>> /\ Others(w)
    <3> DEFINE rec == [worker[w] EXCEPT !.pc = pc, !.read = <<>>]
    <3>1. rec.pc = pc /\ rec.batch = worker[w].batch /\ rec.read = <<>>
      BY <1>1 DEF Worker
    <3>2. worker' = [worker EXCEPT ![w] = rec]
      BY <2>1
    <3> HIDE DEF rec
    <3> QED
      BY <3>1, <3>2, WorkerUpdate
  <2>2. CASE /\ worker' = [worker EXCEPT ![w].pc = "mark", ![w].read = <<>>]
             /\ TakesEffect(w) /\ UNCHANGED unmarked
    BY <1>4, <2>1, <2>2 DEF Apply, Applies
  <2>3. CASE /\ worker' = [worker EXCEPT ![w].pc = "fail", ![w].read = <<>>]
             /\ \/ UNCHANGED <<text, unmarked>>
                \/ TakesEffect(w) /\ unmarked' = unmarked \cup {Entry(w)}
    BY <1>4, <2>1, <2>3 DEF Apply, Applies
  <2> QED
    BY <1>4, <2>2, <2>3 DEF Apply
<1>5. ASSUME worker' = [worker EXCEPT ![w].pc = "next", ![w].batch = Tail(@)]
      PROVE  /\ worker'[w].pc = "next" /\ worker'[w].batch = Tail(worker[w].batch)
             /\ worker'[w].read = worker[w].read /\ Others(w)
  <2> DEFINE rec == [worker[w] EXCEPT !.pc = "next", !.batch = Tail(worker[w].batch)]
  <2>1. rec.pc = "next" /\ rec.batch = Tail(worker[w].batch) /\ rec.read = worker[w].read
    BY <1>1 DEF Worker
  <2>2. worker' = [worker EXCEPT ![w] = rec]
    BY <1>5
  <2> HIDE DEF rec
  <2> QED
    BY <2>1, <2>2, WorkerUpdate
<1>6. CASE MarkProcessed(w)
  BY <1>1, <1>5, <1>6 DEF MarkProcessed, Passes
<1>7. CASE MarkFailed(w)
  BY <1>1, <1>5, <1>7 DEF MarkFailed, Passes
<1>8. CASE CrashWorker(w)
  BY <1>8, WorkerUpdate DEF CrashWorker, Drops
<1> QED
  BY <1>2, <1>3, <1>4, <1>6, <1>7, <1>8 DEF WorkerStep

-----------------------------------------------------------------------------
(***************************************************************************)
(* Each part of the invariant is kept.                                      *)
(***************************************************************************)
WorksOn(w) == Drops(w) \/ Reads(w) \/ Applies(w) \/ Passes(w)

\* A worker that goes on has no more rows in hand than it had, and not the one it has left.
LEMMA Shrinks ==
  ASSUME OutTypeOK, Shaped, NEW w \in Workers, WorksOn(w)
  PROVE  /\ \A v \in Workers : /\ worker'[v].batch \in Seq(Writes \X Retries)
                               /\ Taken(v)' \subseteq Taken(v) /\ OnceEach(worker'[v].batch)
         /\ Passes(w) => Entry(w) \notin Taken(w)'
         /\ spoilt \subseteq spoilt' /\ missing' = missing /\ Others(w)
<1>1. \A v \in Workers : worker[v].batch \in Seq(Writes \X Retries) /\ OnceEach(worker[v].batch)
  BY DEF OutTypeOK, Worker, Shaped
<1>2. Others(w) /\ spoilt \subseteq spoilt' /\ missing' = missing
  BY DEF WorksOn, Drops, Reads, Applies, Passes
<1>3. \A v \in Workers \ {w} : /\ worker'[v].batch = worker[v].batch
                                /\ Taken(v)' = Taken(v)
  BY <1>2 DEF Others, Taken
<1>4. CASE worker'[w].batch = <<>> /\ ~Passes(w)
  <2>1. Taken(w)' = {} /\ OnceEach(worker'[w].batch)
    BY <1>4 DEF Taken, OnceEach
  <2>2. <<>> \in Seq(Writes \X Retries)
    OBVIOUS
  <2> QED
    BY <1>1, <1>2, <1>3, <1>4, <2>1, <2>2
<1>5. CASE worker'[w].batch = worker[w].batch /\ ~Passes(w)
  <2>1. Taken(w)' = Taken(w)
    BY <1>5 DEF Taken
  <2> QED
    BY <1>1, <1>2, <1>3, <1>5, <2>1
<1>6. CASE Passes(w)
  <2> DEFINE b == worker[w].batch
  <2>1. b \in Seq(Writes \X Retries) /\ b # <<>> /\ OnceEach(b)
    BY <1>1, <1>6 DEF Passes
  <2>2. worker'[w].batch = Tail(b)
    BY <1>6 DEF Passes
  <2>3. Taken(w) = {b[i][1] : i \in DOMAIN b} /\ Entry(w) = b[1][1]
    BY DEF Taken, Entry
  <2> HIDE DEF b
  <2>4. /\ Tail(b) \in Seq(Writes \X Retries) /\ OnceEach(Tail(b))
        /\ \A i \in DOMAIN Tail(b) : i + 1 \in DOMAIN b /\ Tail(b)[i] = b[i + 1]
        /\ \A i \in DOMAIN Tail(b) : Tail(b)[i][1] # b[1][1]
    BY <2>1, BatchTail
  <2>5. Taken(w)' = {Tail(b)[i][1] : i \in DOMAIN Tail(b)}
    BY <2>2 DEF Taken
  <2>6. Taken(w)' \subseteq Taken(w) /\ Entry(w) \notin Taken(w)'
    BY <2>3, <2>4, <2>5
  <2> QED
    BY <1>1, <1>2, <1>3, <2>2, <2>4, <2>6
<1> QED
  BY <1>4, <1>5, <1>6 DEF WorksOn, Drops, Reads, Applies, Free

\* The rows of a step of a worker.
LEMMA RowsKept ==
  ASSUME OutTypeOK, Shaped, RetriesBounded, NEW w \in Workers, WorksOn(w)
  PROVE  /\ Rows' = Rows /\ row' \in [Writes -> Row]
         /\ \A y \in Writes : (Passes(w) /\ y = Entry(w)) \/ row'[y] = row[y]
         /\ Passes(w) => LET e == Entry(w) IN
              /\ row'[e].processed # row[e].processed =>
                   worker[w].pc = "mark" /\ row'[e].processed /\ unmarked' = unmarked
              /\ row'[e].retries # row[e].retries =>
                   worker[w].pc = "fail" /\ row'[e].retries = row[e].retries + 1
              /\ worker[w].pc = "mark" => row'[e].processed \/ e \in unmarked'
<1> DEFINE marks == /\ worker[w].pc = "mark" /\ unmarked' = unmarked
                    /\ row' = [row EXCEPT ![Entry(w)].processed = TRUE]
           fails == /\ worker[w].pc = "fail"
                    /\ row' = [row EXCEPT ![Entry(w)].retries = row[Entry(w)].retries + 1]
<1>1. CASE row' = row /\ ~(Passes(w) /\ marks)
  <2>1. worker[w].pc = "mark" /\ Passes(w) => Entry(w) \in unmarked'
    BY <1>1 DEF Passes
  <2> QED
    BY <1>1, <2>1 DEF OutTypeOK, Rows
<1>2. CASE Passes(w) /\ (marks \/ fails)
  <2> DEFINE e == Entry(w)
  <2>1. /\ worker[w].batch # <<>> /\ e \in Writes /\ row \in [Writes -> Row] /\ row[e] \in Row
        /\ e \in Taken(w) /\ worker[w].batch \in Seq(Writes \X Retries)
        /\ 1 \in DOMAIN worker[w].batch
    BY <1>2, EntryType DEF Passes, OutTypeOK
  <2>2. CASE marks
    <3> DEFINE rec == [row[e] EXCEPT !.processed = TRUE]
    <3>1. rec \in Row /\ rec.in = row[e].in /\ rec.processed /\ rec.retries = row[e].retries
      BY <2>1 DEF Row
    <3>2. row' = [row EXCEPT ![e] = rec]
      BY <2>2
    <3> HIDE DEF rec, e
    <3>3. row' \in [Writes -> Row] /\ row'[e] = rec /\ \A y \in Writes \ {e} : row'[y] = row[y]
      BY <2>1, <3>1, <3>2
    <3>4. Rows' = Rows
      BY <3>1, <3>3 DEF Rows
    <3> QED
      BY <1>2, <2>2, <3>1, <3>3, <3>4 DEF e
  <2>3. CASE fails
    <3> DEFINE rec == [row[e] EXCEPT !.retries = row[e].retries + 1]
               more == Cardinality(Triers(e))
    <3>1. w \in Triers(e)
      BY <2>1, <2>3 DEF Shaped, MayTry, Tries, Entry, Triers
    <3>2. Triers(e) \subseteq Workers
      BY DEF Triers
    <3>3. IsFiniteSet(Triers(e))
      BY <3>2, OutboxAssumption, FS_Subset
    <3>4. more \in Nat /\ more # 0
      BY <3>1, <3>3, FS_CardinalityType, FS_EmptySet
    <3>5. row[e].retries + more <= MaxRetries - 1 + Cardinality(Workers)
      BY <2>1 DEF RetriesBounded, Bounded
    <3> HIDE DEF more
    <3>6. row[e].retries + 1 \in Retries
      <4>1. row[e].retries \in Nat
        BY <2>1, RetriesNat DEF Row
      <4>2. row[e].retries + 1 <= MaxRetries - 1 + Cardinality(Workers)
        BY <3>4, <3>5, <4>1, RetriesNat
      <4> QED
        BY <4>1, <4>2, RetriesNat
    <3>7. /\ rec \in Row /\ rec.in = row[e].in /\ rec.processed = row[e].processed
          /\ rec.retries = row[e].retries + 1
      BY <2>1, <3>6 DEF Row
    <3>8. row' = [row EXCEPT ![e] = rec]
      BY <2>3
    <3> HIDE DEF rec, e
    <3>9. row' \in [Writes -> Row] /\ row'[e] = rec /\ \A y \in Writes \ {e} : row'[y] = row[y]
      BY <2>1, <3>7, <3>8
    <3>10. Rows' = Rows
      BY <3>7, <3>9 DEF Rows
    <3> QED
      BY <1>2, <2>3, <3>7, <3>9, <3>10 DEF e
  <2> QED
    BY <1>2, <2>2, <2>3 DEF Passes
<1> QED
  BY <1>1, <1>2 DEF WorksOn, Drops, Reads, Applies, Passes

LEMMA ShapedKept ==
  ASSUME OutTypeOK, Shaped, RetriesBounded, NEW w \in Workers, WorksOn(w) \/ Takes(w)
  PROVE  Shaped'
<1>1. CASE Takes(w)
  <2>1. Rows' = Rows
    BY <1>1 DEF Takes, Rows
  <2>2. worker'[w].pc = "next" /\ OnceEach(worker'[w].batch) /\ Taken(w)' \subseteq Rows
    BY <1>1 DEF Takes, Taken
  <2>3. \A v \in Workers \ {w} : worker'[v] = worker[v] /\ Taken(v)' = Taken(v)
    <3>1. Others(w)
      BY <1>1, Zenon DEF Takes
    <3> QED
      BY <3>1, OthersStay, Zenon
  <2> QED
    BY <2>1, <2>2, <2>3 DEF Shaped, MayTry, Tries, Busy
<1>2. CASE WorksOn(w)
  <2>1. /\ Rows' = Rows
        /\ \A v \in Workers : Taken(v)' \subseteq Taken(v) /\ OnceEach(worker'[v].batch)
        /\ \A v \in Workers \ {w} : worker'[v] = worker[v]
    BY <1>2, Shrinks, RowsKept DEF Others
  <2>2. \A v \in Workers : Taken(v)' \subseteq Rows'
    BY <2>1 DEF Shaped
  <2>3. /\ worker'[w].pc \in {"apply", "mark", "fail"} => worker'[w].batch # <<>> /\ MayTry(w)'
        /\ worker'[w].pc = "idle" => worker'[w].batch = <<>>
    BY <1>2 DEF WorksOn, Drops, Reads, Applies, Passes, Shaped, MayTry, Tries, Free
  <2>4. \A v \in Workers \ {w} :
          /\ worker'[v].pc \in {"apply", "mark", "fail"} => worker'[v].batch # <<>> /\ MayTry(v)'
          /\ worker'[v].pc = "idle" => worker'[v].batch = <<>>
    BY <2>1 DEF Shaped, MayTry, Tries, Busy
  <2> QED
    BY <2>1, <2>2, <2>3, <2>4 DEF Shaped, Busy
<1> QED
  BY <1>1, <1>2

LEMMA AloneKept ==
  ASSUME OutTypeOK, Shaped, Alone, NEW w \in Workers, WorksOn(w) \/ Takes(w)
  PROVE  Alone'
<1>1. CASE WorksOn(w)
  BY <1>1, Shrinks DEF Alone
<1>2. CASE Takes(w)
  <2>1. \A v \in Workers \ {w} : Taken(v)' = Taken(v)
    <3>1. Others(w)
      BY <1>2, Zenon DEF Takes
    <3> QED
      BY <3>1, OthersStay, Zenon
  <2>2. spoilt \subseteq spoilt'
    BY <1>2 DEF Takes
  <2>3. ASSUME NEW v \in Workers \ {w}, NEW x \in Taken(w)', NEW y \in Taken(v)',
               TargetOf[x] = TargetOf[y], TargetOf[x] \notin spoilt'
        PROVE  FALSE
    <3>1. ~Busy(v)
      BY <1>2, <2>3 DEF Takes, Taken
    <3>2. Taken(v) = {}
      BY <3>1 DEF Shaped, Taken
    <3> QED
      BY <2>1, <2>3, <3>2
  <2> QED
    BY <2>1, <2>2, <2>3 DEF Alone
<1> QED
  BY <1>1, <1>2

LEMMA FreshKept ==
  ASSUME OutTypeOK, Shaped, Alone, FreshCopies, RetriesBounded, NEW w \in Workers, WorksOn(w) \/ Takes(w)
  PROVE  FreshCopies'
<1>1. CASE Takes(w)
  <2>1. \A v \in Workers \ {w} : Taken(v)' = Taken(v)
    <3>1. Others(w)
      BY <1>1, Zenon DEF Takes
    <3> QED
      BY <3>1, OthersStay, Zenon
  <2>2. \A x \in Taken(w)' : ~row[x].processed
    BY <1>1 DEF Takes, Taken
  <2> QED
    BY <1>1, <2>1, <2>2 DEF FreshCopies, Takes
<1>2. CASE WorksOn(w)
  <2>1. /\ \A v \in Workers : Taken(v)' \subseteq Taken(v)
        /\ Passes(w) => Entry(w) \notin Taken(w)'
        /\ spoilt \subseteq spoilt'
    BY <1>2, Shrinks
  <2>2. \A y \in Writes : (Passes(w) /\ y = Entry(w)) \/ row'[y] = row[y]
    BY <1>2, RowsKept
  <2>3. Passes(w) => Entry(w) \in Taken(w)
    BY EntryType DEF Passes
  <2>4. ASSUME NEW v \in Workers, NEW x \in Writes, x \in Taken(v)', TargetOf[x] \notin spoilt'
        PROVE  ~row'[x].processed
    <3>1. x \in Taken(v) /\ TargetOf[x] \notin spoilt
      BY <2>1, <2>4
    <3>2. ~row[x].processed
      BY <3>1 DEF FreshCopies
    <3>3. CASE Passes(w) /\ x = Entry(w)
      BY <2>1, <2>3, <2>4, <3>1, <3>3 DEF Alone
    <3> QED
      BY <2>2, <3>2, <3>3
  <2> QED
    BY <2>4 DEF FreshCopies
<1> QED
  BY <1>1, <1>2

LEMMA OnlyRowsKept ==
  ASSUME OutTypeOK, Shaped, RetriesBounded, OnlyRows, NEW w \in Workers, WorksOn(w) \/ Takes(w)
  PROVE  OnlyRows'
<1>1. CASE Takes(w)
  <2>1. /\ \A v \in Workers \ {w} : worker'[v] = worker[v]
        /\ worker'[w].read = <<>> /\ row' = row /\ text' = text
    BY <1>1 DEF Takes, Others
  <2>2. \A v \in Workers : FromRows(worker'[v].read)
    BY <2>1 DEF OnlyRows, FromRows
  <2>3. Rows' = Rows
    BY <2>1 DEF Rows
  <2> QED
    BY <2>1, <2>2, <2>3 DEF OnlyRows, FromRows
<1>2. CASE WorksOn(w)
  <2>1. Rows' = Rows /\ \A y \in Writes : (Passes(w) /\ y = Entry(w)) \/ row'[y] = row[y]
    BY <1>2, RowsKept
  <2>2. \A v \in Workers \ {w} : worker'[v] = worker[v]
    BY <1>2, Shrinks DEF Others
  <2>3. worker[w].batch # <<>> => Entry(w) \in Rows /\ Entry(w) \in Writes /\ Target(w) \in Targets
    BY EntryType
  <2>4. \A y \in Writes : row'[y].processed => y \in Rows
    BY <2>1, <2>3 DEF OnlyRows, Passes
  <2>5. FromRows(worker'[w].read)
    BY <1>2, <2>3 DEF OnlyRows, FromRows, WorksOn, Drops, Reads, Applies, Passes, Free
  <2>6. ASSUME NEW t \in Targets
        PROVE  FromRows(text'[t])
    <3>1. CASE text'[t] = text[t]
      BY <3>1 DEF OnlyRows
    <3>2. CASE worker[w].pc = "apply" /\ text'[t] = Append(worker[w].read, Entry(w))
      <4>1. worker[w].read \in Seq(Writes) /\ FromRows(worker[w].read) /\ Entry(w) \in Rows
        BY <2>3, <3>2 DEF OutTypeOK, Worker, OnlyRows, Shaped
      <4>2. FromRows(Append(worker[w].read, Entry(w)))
        BY <4>1 DEF FromRows
      <4> QED
        BY <3>2, <4>2
    <3> QED
      BY <1>2, <3>1, <3>2 DEF WorksOn, Drops, Reads, Applies, TakesEffect, Passes, Updated, OutTypeOK
  <2> QED
    BY <2>1, <2>2, <2>4, <2>5, <2>6 DEF OnlyRows, FromRows
<1> QED
  BY <1>1, <1>2

LEMMA UpToDateKept ==
  ASSUME OutTypeOK, Shaped, Alone, UpToDate, NEW w \in Workers, WorksOn(w) \/ Takes(w)
  PROVE  UpToDate'
<1>1. /\ \A v \in Workers \ {w} : worker'[v] = worker[v] /\ Target(v)' = Target(v)
      /\ spoilt \subseteq spoilt' /\ missing' = missing
  BY Shrinks DEF Takes, Others, Target, Entry
<1>2. ASSUME NEW v \in Workers \ {w}, worker[v].pc = "apply", Target(v) \notin spoilt \cup missing
      PROVE  text'[Target(v)] = text[Target(v)]
  <2>1. Entry(v) \in Taken(v) /\ Entry(v) \in Writes /\ Target(v) \in Targets
    BY <1>2, EntryType DEF Shaped
  <2>2. CASE worker[w].pc = "apply"
    <3>1. Entry(w) \in Taken(w) /\ Entry(w) \in Writes
      BY <2>2, EntryType DEF Shaped
    <3>2. Target(w) # Target(v)
      BY <1>2, <2>1, <3>1 DEF Alone, Target
    <3>3. text' = text \/ text' = [text EXCEPT ![Target(w)] = Updated(w)]
      BY DEF Takes, WorksOn, Drops, Reads, Applies, TakesEffect, Passes
    <3> QED
      BY <2>1, <3>2, <3>3 DEF OutTypeOK
  <2>3. CASE worker[w].pc # "apply"
    BY <2>3 DEF Takes, WorksOn, Drops, Reads, Applies, TakesEffect, Passes
  <2> QED
    BY <2>2, <2>3
<1>3. ASSUME worker'[w].pc = "apply", Target(w)' \notin spoilt' \cup missing'
      PROVE  worker'[w].read = text'[Target(w)']
  <2>1. Reads(w)
    BY <1>3 DEF Takes, WorksOn, Drops, Applies, Passes, Free
  <2>2. Target(w)' = Target(w) /\ text' = text
    BY <2>1 DEF Reads, Target, Entry
  <2> QED
    BY <1>3, <2>1, <2>2 DEF Reads
<1> QED
  BY <1>1, <1>2, <1>3 DEF UpToDate

\* Whether a row is being marked, when one worker has moved.
LEMMA MarkingAfter ==
  ASSUME NEW w \in Workers, Others(w), NEW x,
         ~(worker[w].pc = "mark" /\ Entry(w) = x), ~(worker'[w].pc = "mark" /\ Entry(w)' = x)
  PROVE  Marking(x)' <=> Marking(x)
BY DEF Others, Marking, Entry

LEMMA CountedKept ==
  ASSUME OutTypeOK, Shaped, Alone, FreshCopies, UpToDate, LinesCounted, RetriesBounded,
         NEW w \in Workers, WorksOn(w) \/ Takes(w)
  PROVE  LinesCounted'
<1>1. SUFFICES ASSUME NEW x \in Writes, TargetOf[x] \notin spoilt' \cup missing'
               PROVE  InText(x)'
  BY DEF LinesCounted
<1>2. Others(w) /\ spoilt \subseteq spoilt' /\ missing' = missing
  BY Shrinks DEF Takes
<1>3. InText(x) /\ TargetOf[x] \notin spoilt \cup missing /\ TargetOf[x] \in Targets
  BY <1>1, <1>2 DEF LinesCounted, Targets
<1>4. text[TargetOf[x]] \in Seq(Writes) /\ text \in [Targets -> Seq(Writes)]
  BY <1>3 DEF OutTypeOK
<1>5. Times(x) \in Nat
  BY <1>4, OccursFacts DEF Times
<1>6. worker[w].pc \in {"apply", "mark", "fail"} =>
        Entry(w) \in Taken(w) /\ Entry(w) \in Writes /\ Target(w) \in Targets
  BY EntryType DEF Shaped
<1>7. worker[w].pc # "mark" => worker'[w].pc = "mark" \/ (Marking(x)' <=> Marking(x))
  BY <1>2, MarkingAfter
<1>8. CASE Takes(w)
  <2>1. /\ UNCHANGED <<row, text, unmarked>> /\ worker'[w].pc = "next" /\ worker[w].pc = "idle"
    BY <1>8 DEF Takes, Busy
  <2> QED
    BY <1>3, <1>7, <2>1 DEF InText, Times
<1>9. CASE Reads(w)
  <2>1. /\ UNCHANGED <<row, text, unmarked>> /\ worker'[w].pc # "mark" /\ worker[w].pc = "next"
    BY <1>9 DEF Reads
  <2> QED
    BY <1>3, <1>7, <2>1 DEF InText, Times
<1>10. CASE Applies(w)
  <2>1. /\ worker[w].pc = "apply" /\ row' = row /\ Entry(w)' = Entry(w)
        /\ worker'[w].pc \in {"mark", "fail"}
        /\ \A y : y # Entry(w) => (y \in unmarked' <=> y \in unmarked)
    BY <1>10 DEF Applies, Entry
  <2>2. CASE worker'[w].pc = "fail" /\ text' = text /\ unmarked' = unmarked
    BY <1>3, <1>7, <2>1, <2>2 DEF InText, Times
  <2>3. CASE TakesEffect(w)
    <3>1. CASE x = Entry(w)
      <4>1. Target(w) = TargetOf[x] /\ x \in Taken(w)
        BY <1>6, <2>1, <3>1 DEF Target
      <4>2. ~row[x].processed
        BY <1>3, <4>1 DEF FreshCopies
      <4>3. ~Marking(x)
        <5>1. ASSUME NEW v \in Workers, worker[v].pc = "mark", Entry(v) = x
              PROVE  FALSE
          <6>1. x \in Taken(v)
            BY <5>1, EntryType DEF Shaped
          <6> QED
            BY <1>3, <2>1, <4>1, <5>1, <6>1 DEF Alone
        <5> QED
          BY <5>1 DEF Marking
      <4>4. worker[w].read = text[TargetOf[x]]
        BY <1>3, <2>1, <4>1 DEF UpToDate
      <4>5. text'[TargetOf[x]] = Append(text[TargetOf[x]], x)
        BY <1>3, <1>4, <2>3, <3>1, <4>1, <4>4 DEF TakesEffect, Updated
      <4>6. Times(x)' = Times(x) + 1
        BY <1>4, <4>5, OccursAppend DEF Times
      <4>7. x \in unmarked' \/ (unmarked' = unmarked /\ Marking(x)')
        <5>1. x \in unmarked' \/ (unmarked' = unmarked /\ worker'[w].pc = "mark")
          BY <1>4, <1>10, <3>1, <4>5, OccursAppend DEF Applies
        <5> QED
          BY <2>1, <3>1, <5>1 DEF Marking
      <4> QED
        BY <1>3, <1>5, <2>1, <4>2, <4>3, <4>6, <4>7 DEF InText
    <3>2. CASE x # Entry(w)
      <4>1. Marking(x)' <=> Marking(x)
        BY <1>2, <2>1, <3>2, MarkingAfter
      <4>2. Times(x)' = Times(x)
        <5>1. CASE TargetOf[x] = Target(w)
          <6>1. worker[w].read = text[TargetOf[x]]
            BY <1>3, <2>1, <5>1 DEF UpToDate
          <6>2. text'[TargetOf[x]] = Append(text[TargetOf[x]], Entry(w))
            BY <1>3, <1>4, <2>3, <5>1, <6>1 DEF TakesEffect, Updated
          <6> QED
            BY <1>4, <1>6, <2>1, <3>2, <6>2, OccursAppend DEF Times
        <5>2. CASE TargetOf[x] # Target(w)
          <6>1. text'[TargetOf[x]] = text[TargetOf[x]]
            BY <1>3, <1>4, <2>3, <5>2 DEF TakesEffect
          <6> QED
            BY <6>1 DEF Times
        <5> QED
          BY <5>1, <5>2
      <4> QED
        BY <1>3, <2>1, <3>2, <4>1, <4>2 DEF InText
    <3> QED
      BY <3>1, <3>2
  <2> QED
    BY <1>10, <2>2, <2>3 DEF Applies
<1>11. CASE Passes(w)
  <2>1. text' = text /\ worker'[w].pc = "next"
    BY <1>11 DEF Passes
  <2>2. Times(x)' = Times(x)
    BY <2>1 DEF Times
  <2>3. \A y \in Writes : y = Entry(w) \/ row'[y] = row[y]
    BY <1>11, RowsKept DEF WorksOn
  <2>4. unmarked \subseteq unmarked' /\ unmarked' \subseteq unmarked \cup {Entry(w)}
    BY <1>11 DEF Passes
  <2>5. CASE x # Entry(w)
    <3>1. Marking(x)' <=> Marking(x)
      BY <1>2, <2>1, <2>5, MarkingAfter
    <3>2. row'[x] = row[x] /\ (x \in unmarked' <=> x \in unmarked)
      BY <2>3, <2>4, <2>5
    <3> QED
      BY <1>3, <2>2, <3>1, <3>2 DEF InText
  <2>6. CASE x = Entry(w) /\ worker[w].pc = "mark"
    <3>1. Marking(x)
      BY <2>6 DEF Marking
    <3>2. row'[x].processed \/ x \in unmarked'
      BY <1>11, <2>6, RowsKept DEF WorksOn
    <3>3. x \in unmarked' \/ unmarked' = unmarked
      BY <2>4, <2>6
    <3> QED
      BY <1>3, <1>5, <2>2, <3>1, <3>2, <3>3 DEF InText
  <2>7. CASE x = Entry(w) /\ worker[w].pc # "mark"
    <3>1. row'[x].processed = row[x].processed /\ unmarked' = unmarked
      BY <1>11, <2>7, RowsKept DEF Passes, WorksOn
    <3> QED
      BY <1>3, <1>7, <2>1, <2>2, <2>7, <3>1 DEF InText
  <2> QED
    BY <2>5, <2>6, <2>7
<1>12. CASE Drops(w)
  <2>1. text' = text /\ row' = row /\ worker'[w].pc = "idle"
    BY <1>12 DEF Drops, Free
  <2>2. Times(x)' = Times(x)
    BY <2>1 DEF Times
  <2>3. CASE worker[w].pc = "mark" /\ x = Entry(w)
    <3>1. Marking(x) /\ x \in unmarked'
      BY <1>12, <2>3 DEF Marking, Drops
    <3> QED
      BY <1>3, <1>5, <2>2, <3>1 DEF InText
  <2>4. CASE ~(worker[w].pc = "mark" /\ x = Entry(w))
    <3>1. x \in unmarked' <=> x \in unmarked
      BY <1>12, <2>4 DEF Drops
    <3>2. Marking(x)' <=> Marking(x)
      BY <1>2, <2>1, <2>4, MarkingAfter
    <3> QED
      BY <1>3, <2>1, <2>2, <3>1, <3>2 DEF InText
  <2> QED
    BY <2>3, <2>4
<1> QED
  BY <1>8, <1>9, <1>10, <1>11, <1>12 DEF WorksOn

LEMMA TriersFinite ==
  ASSUME NEW x
  PROVE  /\ IsFiniteSet(Triers(x)) /\ Cardinality(Triers(x)) \in Nat
         /\ Triers(x) \subseteq Workers /\ Cardinality(Triers(x)) <= Cardinality(Workers)
<1>1. Triers(x) \subseteq Workers
  BY DEF Triers
<1> QED
  BY <1>1, OutboxAssumption, FS_Subset, FS_CardinalityType

LEMMA BoundedKept ==
  ASSUME OutTypeOK, Shaped, RetriesBounded, NEW w \in Workers, WorksOn(w) \/ Takes(w)
  PROVE  RetriesBounded'
<1> SUFFICES ASSUME NEW x \in Writes
             PROVE  Bounded(x)'
  BY DEF RetriesBounded
<1> DEFINE before == Cardinality(Triers(x))
           after == Cardinality(Triers(x)')
           all == Cardinality(Workers)
<1>1. /\ before \in Nat /\ before <= all /\ IsFiniteSet(Triers(x))
      /\ Triers(x) \subseteq Workers
  BY TriersFinite
<1>2. Triers(x)' \subseteq Workers
  BY DEF Triers
<1>3. after \in Nat /\ after <= all /\ IsFiniteSet(Triers(x)')
  BY <1>2, OutboxAssumption, FS_Subset, FS_CardinalityType
<1>4. /\ row[x].retries \in Nat /\ all \in Nat /\ MaxRetries \in Nat \ {0}
      /\ row[x].retries + before <= MaxRetries - 1 + all
  BY RetriesNat DEF OutTypeOK, Row, RetriesBounded, Bounded
<1>5. Bounded(x)' <=> row'[x].retries + after <= MaxRetries - 1 + all
  BY DEF Bounded
<1>6. Triers(x)' \subseteq Triers(x) => after <= before
  BY <1>1, FS_Subset
<1>7. CASE Takes(w)
  <2>1. row' = row
    BY <1>7 DEF Takes
  <2>2. CASE row[x].retries < MaxRetries
    <3> HIDE DEF after, all, before
    <3> QED
      BY <1>3, <1>4, <1>5, <2>1, <2>2
  <2>3. CASE ~(row[x].retries < MaxRetries)
    <3>1. w \notin Triers(x)'
      BY <1>7, <2>3 DEF Takes, Triers
    <3>2. Others(w)
      BY <1>7, Zenon DEF Takes
    <3>3. Triers(x)' \subseteq Triers(x)
      BY <3>1, <3>2 DEF Others, Triers
    <3> HIDE DEF after, all, before
    <3> QED
      BY <1>1, <1>3, <1>4, <1>5, <1>6, <2>1, <3>3
  <2> QED
    BY <2>2, <2>3
<1>8. CASE WorksOn(w)
  <2>1. Others(w)
    BY <1>8, Shrinks
  <2>2. w \in Triers(x)' => w \in Triers(x)
    <3>1. CASE worker'[w].batch = worker[w].batch
      BY <3>1 DEF Triers
    <3>2. CASE worker'[w].batch = <<>>
      BY <3>2 DEF Triers
    <3>3. CASE Passes(w)
      <4> DEFINE b == worker[w].batch
      <4>1. b \in Seq(Writes \X Retries) /\ b # <<>> /\ OnceEach(b) /\ worker'[w].batch = Tail(b)
        BY <3>3 DEF Passes, OutTypeOK, Worker, Shaped
      <4>2. w \in Triers(x) <=> \E i \in DOMAIN b : b[i][1] = x /\ b[i][2] < MaxRetries
        BY DEF Triers
      <4> HIDE DEF b
      <4>3. \A i \in DOMAIN Tail(b) : i + 1 \in DOMAIN b /\ Tail(b)[i] = b[i + 1]
        BY <4>1, BatchTail
      <4>4. w \in Triers(x)' <=>
              \E i \in DOMAIN Tail(b) : Tail(b)[i][1] = x /\ Tail(b)[i][2] < MaxRetries
        BY <4>1 DEF Triers
      <4> QED
        BY <4>2, <4>3, <4>4
    <3> QED
      BY <1>8, <3>1, <3>2, <3>3 DEF WorksOn, Drops, Reads, Applies, Free
  <2>3. Triers(x)' \subseteq Triers(x)
    BY <2>1, <2>2 DEF Others, Triers
  <2>4. CASE row'[x].retries = row[x].retries
    <3> HIDE DEF after, all, before
    <3> QED
      BY <1>1, <1>3, <1>4, <1>5, <1>6, <2>3, <2>4
  <2>5. CASE row'[x].retries # row[x].retries
    <3>1. /\ Passes(w) /\ x = Entry(w) /\ worker[w].pc = "fail"
          /\ row'[x].retries = row[x].retries + 1
      BY <1>8, <2>5, RowsKept
    <3>2. w \in Triers(x)
      <4>1. MayTry(w) /\ 1 \in DOMAIN worker[w].batch
        BY <3>1, EntryType DEF Shaped
      <4> QED
        BY <3>1, <4>1 DEF MayTry, Tries, Entry, Triers
    <3>3. w \notin Triers(x)'
      <4>1. Entry(w) \notin Taken(w)'
        BY <1>8, <3>1, Shrinks
      <4> QED
        BY <3>1, <4>1 DEF Taken, Triers
    <3>4. Triers(x)' \subseteq Triers(x) \ {w}
      BY <2>3, <3>3
    <3>5. IsFiniteSet(Triers(x) \ {w}) /\ Cardinality(Triers(x) \ {w}) = before - 1
      BY <1>1, <3>2, FS_RemoveElement
    <3>6. after <= before - 1
      BY <3>4, <3>5, FS_Subset
    <3> HIDE DEF after, all, before
    <3> QED
      BY <1>1, <1>3, <1>4, <1>5, <3>1, <3>6
  <2> QED
    BY <2>4, <2>5
<1> QED
  BY <1>7, <1>8

-----------------------------------------------------------------------------
(***************************************************************************)
(* The theorems.                                                            *)
(***************************************************************************)
LEMMA WorkerWhole ==
  ASSUME OutTypeOK, NEW w \in Workers, WorkerStep(w) \/ CrashWorker(w)
  PROVE  worker'[w] = [pc |-> worker'[w].pc, batch |-> worker'[w].batch, read |-> worker'[w].read]
<1>1. worker[w] \in Worker /\ worker \in [Workers -> Worker]
  BY DEF OutTypeOK
<1>2. CASE worker' = [worker EXCEPT ![w] = Free]
  BY <1>1, <1>2 DEF Free
<1>3. CASE worker' = [worker EXCEPT ![w].batch = Tail(@)]
  BY <1>1, <1>3 DEF Worker
<1>4. CASE worker' = [worker EXCEPT ![w].pc = "fail"]
  BY <1>1, <1>4 DEF Worker
<1>5. ASSUME NEW pc, NEW read,
             worker' = [worker EXCEPT ![w].pc = pc, ![w].read = read]
      PROVE  worker'[w] = [pc |-> worker'[w].pc, batch |-> worker'[w].batch, read |-> worker'[w].read]
  BY <1>1, <1>5 DEF Worker
<1>6. CASE worker' = [worker EXCEPT ![w].pc = "next", ![w].batch = Tail(@)]
  BY <1>1, <1>6 DEF Worker
<1>7. CASE ReadTarget(w)
  <2>1. \/ worker' = [worker EXCEPT ![w].pc = "fail"]
        \/ worker' = [worker EXCEPT ![w].pc = "apply", ![w].read = text[Target(w)]]
        \/ worker' = [worker EXCEPT ![w].pc = "apply", ![w].read = <<>>]
    BY <1>7 DEF ReadTarget
  <2> QED
    BY <1>4, <1>5, <2>1
<1>8. CASE Apply(w)
  <2>1. \/ worker' = [worker EXCEPT ![w].pc = "mark", ![w].read = <<>>]
        \/ worker' = [worker EXCEPT ![w].pc = "fail", ![w].read = <<>>]
    BY <1>8 DEF Apply
  <2> QED
    BY <1>5, <2>1
<1> QED
  BY <1>2, <1>3, <1>6, <1>7, <1>8 DEF WorkerStep, CrashWorker, Skip, MarkProcessed, MarkFailed

\* A step is one of these.
LEMMA Stepping ==
  ASSUME OutTypeOK, Shaped, OutNext
  PROVE  \/ \E x \in Writes : Enters(x)
         \/ Idles
         \/ \E w \in Workers : Takes(w) \/ (WorksOn(w) /\ (WorkerStep(w) \/ CrashWorker(w)))
<1>1. CASE DeleteNode
  BY <1>1 DEF DeleteNode, Idles
<1>2. ASSUME NEW w \in Workers, WorkerStep(w) \/ CrashWorker(w)
      PROVE  WorksOn(w)
  BY <1>2, WorkerSteps DEF WorksOn
<1>3. ASSUME NEW w \in Workers, ListPending(w)
      PROVE  Takes(w) \/ Idles
  BY <1>3, ListStep
<1>4. ASSUME NEW x \in Writes, Enqueue(x)
      PROVE  Enters(x) \/ Idles
  BY <1>4, EnqueueStep
<1> QED
  BY <1>1, <1>2, <1>3, <1>4 DEF OutNext

LEMMA OutTypeKept ==
  ASSUME OutTypeOK, Shaped, RetriesBounded, OutNext
  PROVE  OutTypeOK'
<1>0. MaxMishaps \in Nat /\ Cardinality(Writes) \in Nat
  BY OutboxAssumption, FS_CardinalityType
<1>1. mishaps' \in 0..MaxMishaps
  <2>1. mishaps' = mishaps \/ (mishaps < MaxMishaps /\ mishaps' = mishaps + 1)
    BY DEF OutNext, Enqueue, ListPending, WorkerStep, CrashWorker, DeleteNode, Skip, ReadTarget,
           Apply, MarkProcessed, MarkFailed, Mishap
  <2> QED
    BY <1>0, <2>1 DEF OutTypeOK
<1>2. missing' \subseteq Nodes
  BY DEF OutNext, Enqueue, ListPending, WorkerStep, CrashWorker, DeleteNode, Skip, ReadTarget,
         Apply, MarkProcessed, MarkFailed, OutTypeOK
<1>3. created' \in [Writes -> Nat]
  <2>1. Cardinality(Rows) \in Nat
    BY OutboxAssumption, FS_Subset, FS_CardinalityType DEF Rows
  <2>2. created' = created \/ \E x \in Writes : created' = [created EXCEPT ![x] = Cardinality(Rows) + 1]
    BY DEF OutNext, Enqueue, Insert, ListPending, WorkerStep, CrashWorker, DeleteNode, Skip,
           ReadTarget, Apply, MarkProcessed, MarkFailed
  <2> DEFINE n == Cardinality(Rows) + 1
  <2>3. created \in [Writes -> Nat] /\ n \in Nat
    BY <2>1 DEF OutTypeOK
  <2>4. created' = created \/ \E x \in Writes : created' = [created EXCEPT ![x] = n]
    BY <2>2
  <2> HIDE DEF n
  <2> QED
    BY <2>3, <2>4
<1>4. ASSUME NEW w \in Workers, Takes(w) \/ (WorksOn(w) /\ (WorkerStep(w) \/ CrashWorker(w)))
      PROVE  /\ row' \in [Writes -> Row] /\ text' \in [Targets -> Seq(Writes)]
             /\ worker'[w] \in Worker
             /\ unmarked' \subseteq Writes /\ spoilt' \subseteq Targets
  <2>1. worker[w] \in Worker
    BY DEF OutTypeOK
  <2>2. worker[w].batch # <<>> => Entry(w) \in Writes /\ Target(w) \in Targets
    BY EntryType
  <2>3. row' \in [Writes -> Row]
    BY <1>4, RowsKept DEF Takes, OutTypeOK
  <2>4. text' \in [Targets -> Seq(Writes)]
    <3>1. CASE text' = text
      BY <3>1 DEF OutTypeOK
    <3>2. CASE worker[w].pc = "apply" /\ text' = [text EXCEPT ![Target(w)] = Updated(w)]
      <4>1. Updated(w) \in Seq(Writes)
        BY <2>1, <2>2, <3>2 DEF Updated, Worker, Shaped
      <4> QED
        BY <3>2, <4>1 DEF OutTypeOK
    <3> QED
      BY <1>4, <3>1, <3>2 DEF Takes, WorksOn, Drops, Reads, Applies, TakesEffect, Passes
  <2>5. unmarked' \subseteq Writes
    BY <1>4, <2>2 DEF Takes, WorksOn, Drops, Reads, Applies, TakesEffect, Passes, OutTypeOK, Shaped
  <2>6. spoilt' \subseteq Targets
    BY <1>4, <2>2 DEF Takes, WorksOn, Drops, Reads, Applies, TakesEffect, Passes, OutTypeOK
  <2>7. worker'[w] \in Worker
    <3>1. CASE Takes(w)
      BY <3>1 DEF Takes
    <3>2. CASE WorksOn(w) /\ (WorkerStep(w) \/ CrashWorker(w))
      <4>1. worker'[w] = [pc |-> worker'[w].pc, batch |-> worker'[w].batch, read |-> worker'[w].read]
        BY <3>2, WorkerWhole
      <4>2. worker'[w].batch \in Seq(Writes \X Retries)
        BY <3>2, Shrinks
      <4>3. worker'[w].pc \in {"idle", "next", "apply", "mark", "fail"}
        BY <3>2 DEF WorksOn, Drops, Reads, Applies, Passes, Free
      <4>4. <<>> \in Seq(Writes) /\ worker[w].read \in Seq(Writes)
        BY <2>1 DEF Worker
      <4>5. Reads(w) => text[Target(w)] \in Seq(Writes)
        BY <2>2 DEF Reads, OutTypeOK
      <4>6. worker'[w].read \in Seq(Writes)
        <5>1. Free.read = <<>>
          BY DEF Free
        <5>2. \/ worker'[w].read = <<>> \/ worker'[w].read = worker[w].read
              \/ Reads(w) /\ worker'[w].read = text[Target(w)]
          BY <3>2, <5>1 DEF WorksOn, Drops, Reads, Applies, Passes
        <5> QED
          BY <4>4, <4>5, <5>2
      <4> DEFINE pc == worker'[w].pc
                 batch == worker'[w].batch
                 read == worker'[w].read
      <4>7. /\ worker'[w] = [pc |-> pc, batch |-> batch, read |-> read]
            /\ batch \in Seq(Writes \X Retries) /\ read \in Seq(Writes)
            /\ pc \in {"idle", "next", "apply", "mark", "fail"}
        BY <4>1, <4>2, <4>3, <4>6
      <4> HIDE DEF pc, batch, read
      <4>8. [pc |-> pc, batch |-> batch, read |-> read] \in Worker
        BY <4>7, WorkerType
      <4> QED
        BY <4>7, <4>8
    <3> QED
      BY <1>4, <3>1, <3>2
  <2> QED
    BY <2>3, <2>4, <2>5, <2>6, <2>7
<1>5. ASSUME NEW w \in Workers, Takes(w) \/ (WorksOn(w) /\ (WorkerStep(w) \/ CrashWorker(w)))
      PROVE  OutTypeOK'
  <2>1. Others(w)
    BY <1>5, Shrinks DEF Takes
  <2>2. \A v \in Workers : worker'[v] \in Worker
    BY <1>4, <1>5, <2>1 DEF Others, OutTypeOK
  <2>3. worker' \in [Workers -> Worker]
    BY <2>1, <2>2 DEF Others
  <2> QED
    BY <1>1, <1>2, <1>3, <1>4, <1>5, <2>3 DEF OutTypeOK
<1>6. ASSUME NEW x \in Writes, Enters(x)
      PROVE  OutTypeOK'
  BY <1>1, <1>2, <1>3, <1>6 DEF OutTypeOK, Enters
<1>7. CASE Idles
  BY <1>1, <1>2, <1>3, <1>7 DEF OutTypeOK, Idles
<1> QED
  BY <1>5, <1>6, <1>7, Stepping

LEMMA EntersKeeps ==
  ASSUME OutTypeOK, Shaped, KeysUnique, OnlyRows, Alone, FreshCopies, UpToDate, LinesCounted, RetriesBounded,
         NEW x \in Writes, Enters(x)
  PROVE  /\ Shaped' /\ KeysUnique' /\ OnlyRows' /\ Alone' /\ FreshCopies' /\ UpToDate'
         /\ LinesCounted' /\ RetriesBounded'
<1>1. /\ worker' = worker /\ text' = text /\ missing' = missing /\ spoilt' = spoilt
      /\ unmarked' = unmarked /\ Rows' = Rows \cup {x} /\ SameButRows
  BY DEF Enters
<1>2. \A w \in Workers : Taken(w)' = Taken(w) /\ Target(w)' = Target(w) /\ MayTry(w)' = MayTry(w)
                          /\ Busy(w)' = Busy(w)
  BY <1>1 DEF Taken, Target, Entry, MayTry, Tries, Busy
<1>3. Shaped'
  BY <1>1, <1>2 DEF Shaped
<1>4. KeysUnique'
  BY <1>1 DEF Enters, KeysUnique
<1>5. OnlyRows'
  BY <1>1 DEF OnlyRows, FromRows, SameButRows
<1>6. Alone'
  BY <1>1, <1>2 DEF Alone
<1>7. FreshCopies'
  BY <1>1, <1>2 DEF FreshCopies, SameButRows
<1>8. UpToDate'
  BY <1>1, <1>2 DEF UpToDate
<1>9. LinesCounted'
  BY <1>1 DEF LinesCounted, InText, Times, Marking, Entry, SameButRows
<1>10. RetriesBounded'
  BY <1>1 DEF RetriesBounded, Bounded, Triers, SameButRows
<1> QED
  BY <1>3, <1>4, <1>5, <1>6, <1>7, <1>8, <1>9, <1>10

LEMMA IdlesKeeps ==
  ASSUME Shaped, KeysUnique, OnlyRows, Alone, FreshCopies, UpToDate, LinesCounted, RetriesBounded, Idles
  PROVE  /\ Shaped' /\ KeysUnique' /\ OnlyRows' /\ Alone' /\ FreshCopies' /\ UpToDate'
         /\ LinesCounted' /\ RetriesBounded'
<1>1. /\ worker' = worker /\ text' = text /\ missing \subseteq missing' /\ spoilt' = spoilt
      /\ unmarked' = unmarked /\ row' = row
  BY DEF Idles
<1>2. /\ Rows' = Rows
      /\ \A w \in Workers : Taken(w)' = Taken(w) /\ Target(w)' = Target(w)
                             /\ MayTry(w)' = MayTry(w) /\ Busy(w)' = Busy(w)
  BY <1>1 DEF Rows, Taken, Target, Entry, MayTry, Tries, Busy
<1>3. Shaped' /\ KeysUnique'
  BY <1>1, <1>2 DEF Shaped, KeysUnique
<1>4. OnlyRows'
  BY <1>1, <1>2 DEF OnlyRows, FromRows
<1>5. Alone' /\ FreshCopies'
  BY <1>1, <1>2 DEF Alone, FreshCopies
<1>6. UpToDate'
  BY <1>1, <1>2 DEF UpToDate
<1>7. LinesCounted'
  BY <1>1 DEF LinesCounted, InText, Times, Marking, Entry
<1>8. RetriesBounded'
  BY <1>1 DEF RetriesBounded, Bounded, Triers
<1> QED
  BY <1>3, <1>4, <1>5, <1>6, <1>7, <1>8

LEMMA OutInvInit == OutInit => OutInv
<1> SUFFICES ASSUME OutInit
             PROVE  OutInv
  OBVIOUS
<1>0. /\ 0 \in Retries /\ MaxMishaps \in Nat /\ <<>> \in Seq(Writes)
      /\ <<>> \in Seq(Writes \X Retries)
  BY RetriesNat, OutboxAssumption
<1>1. Free \in Worker /\ Free.batch = <<>> /\ Free.pc = "idle" /\ Free.read = <<>>
  BY <1>0, WorkerType DEF Free
<1>2. OutTypeOK
  BY <1>0, <1>1 DEF OutInit, OutTypeOK, Row
<1>3. \A w \in Workers : worker[w] = Free /\ Taken(w) = {}
  BY <1>1 DEF OutInit, Taken
<1>4. Rows = {}
  BY DEF OutInit, Rows
<1>5. Shaped
  BY <1>1, <1>3 DEF Shaped, OnceEach, Busy
<1>6. KeysUnique /\ Alone /\ FreshCopies /\ UpToDate
  BY <1>1, <1>3, <1>4 DEF KeysUnique, Alone, FreshCopies, UpToDate
<1>7. OnlyRows
  BY <1>1, <1>3 DEF OutInit, OnlyRows, FromRows
<1>8. LinesCounted
  <2> SUFFICES ASSUME NEW x \in Writes
               PROVE  InText(x)
    BY DEF LinesCounted
  <2>1. text[TargetOf[x]] = <<>>
    BY DEF OutInit, Targets
  <2>2. Times(x) = 0
    <3>1. \A i \in DOMAIN <<>> : <<>>[i] # x
      OBVIOUS
    <3> QED
      BY <1>0, <2>1, <3>1, OccursFacts DEF Times
  <2>3. ~Marking(x) /\ ~row[x].processed /\ x \notin unmarked
    BY <1>1, <1>3 DEF Marking, OutInit
  <2> QED
    BY <2>2, <2>3 DEF InText
<1>9. RetriesBounded
  <2> SUFFICES ASSUME NEW x \in Writes
               PROVE  Bounded(x)
    BY DEF RetriesBounded
  <2>1. Triers(x) = {}
    BY <1>1, <1>3 DEF Triers
  <2>2. Cardinality(Triers(x)) = 0 /\ row[x].retries = 0
    BY <2>1, FS_EmptySet DEF OutInit
  <2> QED
    BY <2>2, RetriesNat DEF Bounded
<1> QED
  BY <1>2, <1>5, <1>6, <1>7, <1>8, <1>9 DEF OutInv

LEMMA OutInvNext == OutInv /\ [OutNext]_outVars => OutInv'
<1>1. ASSUME OutInv, OutNext
      PROVE  OutInv'
  <2>1. OutTypeOK'
    BY <1>1, OutTypeKept DEF OutInv
  <2>2. ASSUME NEW x \in Writes, Enters(x)
        PROVE  OutInv'
    BY <1>1, <2>1, <2>2, EntersKeeps DEF OutInv
  <2>3. CASE Idles
    BY <1>1, <2>1, <2>3, IdlesKeeps DEF OutInv
  <2>4. ASSUME NEW w \in Workers, Takes(w) \/ WorksOn(w)
        PROVE  OutInv'
    <3>1. Shaped' /\ OnlyRows' /\ Alone' /\ FreshCopies' /\ UpToDate' /\ LinesCounted' /\ RetriesBounded'
      BY <1>1, <2>4, ShapedKept, OnlyRowsKept, AloneKept, FreshKept, UpToDateKept, CountedKept,
         BoundedKept DEF OutInv
    <3>2. Rows' = Rows
      BY <1>1, <2>4, RowsKept DEF OutInv, Takes, Rows
    <3> QED
      BY <1>1, <2>1, <3>1, <3>2 DEF OutInv, KeysUnique
  <2> QED
    BY <1>1, <2>2, <2>3, <2>4, Stepping DEF OutInv
<1>2. ASSUME OutInv, UNCHANGED outVars
      PROVE  OutInv'
  <2>1. Idles
    BY <1>2 DEF outVars, Idles
  <2>2. OutTypeOK'
    BY <1>2 DEF OutInv, OutTypeOK, outVars
  <2> QED
    BY <1>2, <2>1, <2>2, IdlesKeeps DEF OutInv
<1> QED
  BY <1>1, <1>2

\* However workers overlap, crash and fail: a row or a line is of one write, what a worker
\* alone has read of a target is what is there, lines are as many as marks, and what a worker
\* is still to mark is counted with them (run_once, list_pending, mark_processed).
THEOREM OutboxInvariant == OutSpec => []OutInv
BY OutInvInit, OutInvNext, PTL DEF OutSpec

\* A line is applied once: see AppliedOnce.  That there is one line for two writes of a key
\* is the unique key of the table.
THEOREM AppliedOnceHolds == OutSpec => []AppliedOnce
<1>1. OutInv => AppliedOnce
  <2> SUFFICES ASSUME OutInv, NEW x \in Writes, TargetOf[x] \notin spoilt \cup missing
               PROVE  /\ InText(x)
                      /\ \A y \in Writes : KeyOf[x] = KeyOf[y] /\ x # y => Times(x) = 0 \/ Times(y) = 0
    BY DEF AppliedOnce, InText
  <2>1. InText(x)
    BY DEF OutInv, LinesCounted
  <2>2. ASSUME NEW y \in Writes, y \notin Rows
        PROVE  Times(y) = 0
    <3>1. TargetOf[y] \in Targets /\ text[TargetOf[y]] \in Seq(Writes)
      BY DEF Targets, OutInv, OutTypeOK
    <3>2. \A i \in DOMAIN text[TargetOf[y]] : text[TargetOf[y]][i] # y
      BY <2>2, <3>1 DEF OutInv, OnlyRows, FromRows
    <3> QED
      BY <3>1, <3>2, OccursFacts DEF Times
  <2> QED
    BY <2>1, <2>2 DEF OutInv, KeysUnique
<1> QED
  BY <1>1, OutboxInvariant, PTL

-----------------------------------------------------------------------------
(***************************************************************************)
(* The four side by side, as MCAgentFiles composes them.                    *)
(***************************************************************************)

\* A behaviour of an agent's files is one of each of them.
LEMMA FilesAreParts == FilesSpec => MemSpec /\ SemSpec /\ CatSpec /\ OutSpec
<1>1. FilesInit => MemInit /\ SemInit /\ CatInit /\ OutInit
  BY DEF FilesInit
<1>2. [FilesNext]_filesVars =>
        [MemNext]_memVars /\ [SemNext]_semVars /\ [CatNext]_catVars /\ [OutNext]_outVars
  BY DEF FilesNext, filesVars
<1> QED BY <1>1, <1>2, PTL DEF FilesSpec, MemSpec, SemSpec, CatSpec, OutSpec

\* Every part is type-correct in every state: in particular the intelligence of a node
\* does not outgrow its cap, whoever appends to it, and no row of the outbox is tried for ever.
THEOREM FilesTypesHold == FilesSpec => []TypesOK
<1>1. MemInv /\ SemInv /\ CatInv /\ OutInv => TypesOK
  BY DEF MemInv, SemInv, CatInv, OutInv, TypesOK
<1> QED BY <1>1, FilesAreParts, NotesInvariant, SemanticInvariant, CatalogInvariant,
           OutboxInvariant, PTL
==============================================================================
