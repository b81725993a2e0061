--------------------------- MODULE ChatTurn_proofs ---------------------------
(***************************************************************************)
(* Proofs about ChatTurn for any number of requests, users, rounds and      *)
(* faults, and any overlap: its types; that a turn that is alone in the     *)
(* orchestrator delegates as itself and is offered its own tools, whatever  *)
(* the turns before it left in the fields; that a streamed run has one      *)
(* terminal event, the last; and that the history is a sequence of whole    *)
(* exchanges.                                                               *)
(***************************************************************************)
EXTENDS ChatTurn, TLAPS

CallSeq == Seq({"load", "delegate"})

\* The types that do not depend on the messages.
TurnTypeOK ==
  /\ turn \in [Turns -> Turn]
  /\ session \in Turns \cup {None} /\ caller \in Turns \cup {None}
  /\ active \subseteq Sets /\ planned \in Turns \cup {None}
  /\ faults \in 0..MaxFaults
  /\ mixed \subseteq Turns

HistoryTypeOK ==
  /\ history \in [Users -> Seq(Message)]
  /\ \A u \in Users : Len(history[u]) <= HistoryMax

KindOK == \A t \in Turns : kind[t] \in Kinds[t]

-----------------------------------------------------------------------------
LEMMA IdleType == Idle \in Turn /\ [Idle EXCEPT !.pc = "done"] \in Turn
<1>1. 0 \in 0..(MaxRounds - 1)
  BY ChatAssumption
<1>2. <<>> \in Seq(Message) /\ <<>> \in CallSeq /\ <<>> \in Seq(Event)
  BY DEF CallSeq
<1> QED
  BY <1>1, <1>2 DEF Idle, Turn, CallSeq

LEMMA EventsType ==
  ASSUME NEW t \in Turns, TurnTypeOK, NEW new \in Seq(Event)
  PROVE  Events(t, new) \in Seq(Event)
<1>1. turn[t].events \in Seq(Event)
  BY DEF TurnTypeOK, Turn
<1>2. turn[t].events \o new \in Seq(Event)
  BY <1>1
<1> QED
  BY <1>2 DEF Events

\* What an update of one request does to the others and to its own fields.
LEMMA TurnUpdate ==
  ASSUME NEW t \in Turns, TurnTypeOK, NEW rec \in Turn, turn' = [turn EXCEPT ![t] = rec]
  PROVE  /\ turn' \in [Turns -> Turn] /\ turn'[t] = rec
         /\ \A s \in Turns : s # t => turn'[s] = turn[s]
  BY DEF TurnTypeOK

\* Only the place where a request stands changes.
LEMMA PcUpdate ==
  ASSUME NEW t \in Turns, TurnTypeOK,
         NEW pc \in {"prompt", "tools", "done"}, turn' = [turn EXCEPT ![t].pc = pc]
  PROVE  /\ turn' \in [Turns -> Turn] /\ turn'[t].pc = pc
         /\ turn'[t].loaded = turn[t].loaded /\ turn'[t].job = turn[t].job
         /\ turn'[t].calls = turn[t].calls /\ turn'[t].read = turn[t].read
         /\ \A s \in Turns : s # t => turn'[s] = turn[s]
<1> DEFINE rec == [turn[t] EXCEPT !.pc = pc]
<1>1. turn[t] \in Turn
  BY DEF TurnTypeOK
<1>2. turn' = [turn EXCEPT ![t] = rec]
  BY <1>1 DEF TurnTypeOK, Turn
<1>3. /\ rec \in Turn /\ rec.pc = pc /\ rec.loaded = turn[t].loaded /\ rec.job = turn[t].job
      /\ rec.calls = turn[t].calls /\ rec.read = turn[t].read
  BY <1>1 DEF Turn
<1> HIDE DEF rec
<1> QED
  BY <1>2, <1>3, TurnUpdate

LEMMA FaultType ==
  ASSUME TurnTypeOK, NEW what, Fault(what) \/ UNCHANGED faults
  PROVE  faults' \in 0..MaxFaults
  BY ChatAssumption DEF TurnTypeOK, Fault

LEMMA DoneType ==
  ASSUME NEW t \in Turns, TurnTypeOK, Done(t)
  PROVE  /\ turn' \in [Turns -> Turn] /\ turn'[t].pc = "done" /\ turn'[t].job = None
         /\ \A s \in Turns : s # t => turn'[s] = turn[s]
         /\ mixed' = mixed \ {t}
<1>1. [Idle EXCEPT !.pc = "done"].pc = "done" /\ [Idle EXCEPT !.pc = "done"].job = None
  BY DEF Idle
<1> QED
  BY <1>1, IdleType, TurnUpdate DEF Done

LEMMA EndRunType ==
  ASSUME NEW t \in Turns, TurnTypeOK, NEW said \in BOOLEAN, NEW new \in Seq(Event),
         EndRun(t, said, new)
  PROVE  /\ turn' \in [Turns -> Turn] /\ turn'[t].pc \in {"done", "save"}
         /\ \A s \in Turns : s # t => turn'[s] = turn[s]
         /\ mixed' \in {mixed, mixed \ {t}}
         /\ turn'[t].pc = "save" => mixed' = mixed /\ turn'[t].read = turn[t].read
<1>1. CASE kind[t] = "inbound"
  BY <1>1, DoneType DEF EndRun
<1>2. CASE kind[t] # "inbound"
  <2> DEFINE rec == [Idle EXCEPT !.pc = "save", !.read = turn[t].read,
                      !.said = turn[t].said \/ said, !.events = Events(t, new)]
  <2>1. turn' = [turn EXCEPT ![t] = rec] /\ mixed' = mixed
    BY <1>2 DEF EndRun
  <2>2. turn[t].read \in Seq(Message) /\ turn[t].said \in BOOLEAN
    BY DEF TurnTypeOK, Turn
  <2>3. Events(t, new) \in Seq(Event)
    BY EventsType
  <2>4. rec \in Turn /\ rec.pc = "save" /\ rec.read = turn[t].read
    BY <2>2, <2>3, IdleType DEF Turn, Idle
  <2> HIDE DEF rec
  <2> QED
    BY <2>1, <2>4, TurnUpdate
<1> QED
  BY <1>1, <1>2

-----------------------------------------------------------------------------
Inside == {"prompt", "asked", "planning", "tools", "delegating"}

\* A turn that has not met another is alone in the orchestrator.
Alone == \A t \in Busy \ mixed : Busy = {t}

\* Where a request stands when it has delegated nothing yet.
Fresh(t) ==
  /\ turn[t].pc \in {"new", "started", "prompt", "asked", "planning"} => turn[t].job = None
  /\ turn[t].pc \in {"new", "started", "prompt"} => turn[t].loaded = {}
  /\ turn[t].pc = "delegating" => turn[t].job \in Job /\ turn[t].calls # <<>>

\* What a request that has begun may be.
KindInv ==
  \A t \in Turns :
    /\ turn[t].pc = "started" => kind[t] = "stream"
    /\ turn[t].pc \in {"started"} \cup Inside => kind[t] \in {"send", "stream", "inbound"}
    /\ turn[t].pc = "save" => kind[t] \in {"send", "stream"}

\* The fields are those of a turn that is alone.
Own(t) ==
  /\ turn[t].pc = "started" => caller = t
  /\ turn[t].pc \in Inside =>
       caller = t /\ session = SessionOf(t) /\ active = {"core"} \cup turn[t].loaded
  /\ turn[t].pc = "asked" => turn[t].offered = active
  /\ turn[t].pc = "tools" /\ Contains(turn[t].calls, "delegate") => planned = t
  /\ turn[t].pc = "delegating" => planned = t /\ turn[t].job.caller = t
  /\ turn[t].pc = "tools" /\ turn[t].job # None =>
       turn[t].job = [caller |-> t, session |-> SessionOf(t), plan |-> t]

OwnInv == /\ Alone
          /\ \A t \in Turns : Fresh(t) /\ (t \notin mixed => Own(t))

\* One request moves: the others stay, and none of them that has met another forgets it.
Moves(t) ==
  /\ turn' \in [Turns -> Turn]
  /\ \A s \in Turns : s # t => turn'[s] = turn[s]
  /\ mixed \ {t} \subseteq mixed' /\ mixed' \subseteq Turns
  /\ kind' = kind

\* The request was in the orchestrator, leaves the fields alone, or enters and meets
\* whoever is there.
Apart(t) ==
  \/ t \in Busy /\ (turn'[t].pc \in {"started"} \cup Inside => mixed' = mixed)
  \/ turn'[t].pc \notin {"started"} \cup Inside /\ (UNCHANGED fields \/ Busy \subseteq mixed')
  \/ t \notin Busy /\ Meet(t)

LEMMA BusyMeans == Busy = {t \in Turns : turn[t].pc \in {"started"} \cup Inside}
  BY DEF Busy, Inside

LEMMA AloneKeeps ==
  ASSUME NEW t \in Turns, Alone, Moves(t), Apart(t)
  PROVE  Alone'
<1> SUFFICES ASSUME NEW s \in (Busy \ mixed)' PROVE Busy' = {s}
  BY DEF Alone
<1>1. /\ \A x \in Turns : x # t => (x \in Busy' <=> x \in Busy)
      /\ Busy \subseteq Turns /\ Busy' \subseteq Turns
      /\ t \in Busy' <=> turn'[t].pc \in {"started"} \cup Inside
  BY DEF Moves, Busy, Inside
<1>2. \A x \in Busy \ mixed : Busy = {x}
  BY DEF Alone
<1>3. mixed \ {t} \subseteq mixed'
  BY DEF Moves
<1>4. CASE t \in Busy /\ (turn'[t].pc \in {"started"} \cup Inside => mixed' = mixed)
  <2>1. CASE s = t
    BY <1>1, <1>2, <1>4, <2>1
  <2>2. CASE s # t
    BY <1>1, <1>2, <1>3, <1>4, <2>2
  <2> QED
    BY <2>1, <2>2
<1>5. CASE turn'[t].pc \notin {"started"} \cup Inside
  BY <1>1, <1>2, <1>3, <1>5
<1>6. CASE t \notin Busy /\ Meet(t)
  BY <1>1, <1>6 DEF Meet
<1> QED
  BY <1>4, <1>5, <1>6 DEF Apart

LEMMA OthersKeep ==
  ASSUME NEW t \in Turns, OwnInv, Moves(t), Apart(t), NEW s \in Turns, s # t
  PROVE  Fresh(s)' /\ (s \notin mixed' => Own(s)')
<1>1. turn'[s] = turn[s] /\ (s \in mixed => s \in mixed') /\ kind' = kind
  BY DEF Moves
<1>2. Fresh(s)'
  BY <1>1 DEF OwnInv, Fresh
<1>3. ASSUME s \notin mixed' PROVE Own(s)'
  <2>1. Own(s)
    BY <1>1, <1>3 DEF OwnInv
  <2>2. CASE UNCHANGED fields
    BY <1>1, <2>1, <2>2 DEF Own, fields, SessionOf, Inside
  <2>3. CASE s \notin Busy
    <3>1. turn'[s].pc \notin {"started"} \cup Inside
      BY <1>1, <2>3, BusyMeans
    <3> QED
      BY <3>1 DEF Own, Inside
  <2>4. CASE s \in Busy /\ ~(UNCHANGED fields)
    <3>1. Busy = {s}
      BY <1>1, <1>3, <2>4 DEF OwnInv, Alone
    <3>2. t \notin Busy
      BY <3>1
    <3>3. Busy \subseteq mixed'
      BY <2>4, <3>1, <3>2 DEF Apart, Meet
    <3> QED
      BY <1>3, <2>4, <3>3
  <2> QED
    BY <2>2, <2>3, <2>4
<1> QED
  BY <1>2, <1>3

LEMMA OwnKeeps ==
  ASSUME NEW t \in Turns, OwnInv, Moves(t), Apart(t), Fresh(t)', t \notin mixed' => Own(t)'
  PROVE  OwnInv'
<1>1. Alone'
  BY AloneKeeps DEF OwnInv
<1>2. \A s \in Turns : Fresh(s)' /\ (s \notin mixed' => Own(s)')
  BY OthersKeep
<1> QED
  BY <1>1, <1>2 DEF OwnInv

-----------------------------------------------------------------------------
\* Each action keeps the types and what is known of a turn that is alone.
TurnInv == TurnTypeOK /\ OwnInv

LEMMA MeetType ==
  ASSUME NEW t \in Turns, TurnTypeOK, Meet(t)
  PROVE  mixed \subseteq mixed' /\ mixed' \subseteq Turns
  BY DEF Meet, TurnTypeOK, Busy

LEMMA LoadKeeps ==
  ASSUME NEW t \in Turns, TurnTypeOK, HistoryTypeOK, At(t, "new"), NEW pc \in {"prompt", "started"},
         NEW new \in Seq(Event), Load(t, pc, new), Fresh(t)
  PROVE  /\ turn' \in [Turns -> Turn] /\ turn'[t].pc = pc
         /\ \A s \in Turns : s # t => turn'[s] = turn[s]
         /\ turn'[t].loaded = {} /\ turn'[t].job = None
         /\ faults' \in 0..MaxFaults
<1>1. /\ turn \in [Turns -> Turn] /\ turn[t] \in Turn /\ turn[t].loaded = {}
      /\ turn[t].job = None
  BY DEF TurnTypeOK, At, Fresh
<1>2. history[User[t]] \in Seq(Message)
  BY DEF HistoryTypeOK, Users
<1>3. faults' \in 0..MaxFaults
  BY FaultType DEF Load
<1>4. CASE turn' = [turn EXCEPT ![t].pc = pc, ![t].read = history[User[t]], ![t].events = new]
  <2> DEFINE rec == [turn[t] EXCEPT !.pc = pc, !.read = history[User[t]], !.events = new]
  <2>1. turn' = [turn EXCEPT ![t] = rec]
    BY <1>1, <1>4 DEF Turn
  <2>2. /\ rec \in Turn /\ rec.pc = pc /\ rec.loaded = {} /\ rec.job = None
        /\ rec.read = history[User[t]]
    BY <1>1, <1>2 DEF Turn
  <2> HIDE DEF rec
  <2> QED
    BY <1>1, <1>3, <1>4, <2>1, <2>2, TurnUpdate
<1>5. CASE turn' = [turn EXCEPT ![t].pc = pc, ![t].events = new]
  <2> DEFINE rec == [turn[t] EXCEPT !.pc = pc, !.events = new]
  <2>1. turn' = [turn EXCEPT ![t] = rec]
    BY <1>1, <1>5 DEF Turn
  <2>2. rec \in Turn /\ rec.pc = pc /\ rec.loaded = {} /\ rec.job = None
    BY <1>1 DEF Turn
  <2> HIDE DEF rec
  <2> QED
    BY <1>1, <1>3, <1>5, <2>1, <2>2, TurnUpdate
<1> QED
  BY <1>4, <1>5 DEF Load

LEMMA EnterKeeps ==
  ASSUME NEW t \in Turns, TurnInv, HistoryTypeOK, Enter(t), UNCHANGED kind
  PROVE  TurnInv'
<1>1. /\ kind[t] = "send" /\ At(t, "new") /\ Load(t, "prompt", <<>>) /\ Meet(t)
      /\ session' = SessionOf(t) /\ caller' = t /\ active' = {"core"} /\ planned' = planned
  BY DEF Enter, Begin, Claim
<1>2. <<>> \in Seq(Event) /\ Fresh(t) /\ TurnTypeOK
  BY DEF TurnInv, OwnInv
<1>3. /\ turn' \in [Turns -> Turn] /\ turn'[t].pc = "prompt"
      /\ \A s \in Turns : s # t => turn'[s] = turn[s]
      /\ turn'[t].loaded = {} /\ turn'[t].job = None
      /\ faults' \in 0..MaxFaults
  BY <1>1, <1>2, LoadKeeps
<1>4. mixed \subseteq mixed' /\ mixed' \subseteq Turns /\ t \notin Busy
  BY <1>1, <1>2, MeetType DEF At, Busy
<1>5. TurnTypeOK'
  BY <1>1, <1>2, <1>3, <1>4 DEF TurnTypeOK, SessionOf, Sets
<1>6. Moves(t) /\ Apart(t)
  BY <1>1, <1>3, <1>4 DEF Moves, Apart
<1>7. Fresh(t)' /\ Own(t)'
  BY <1>1, <1>3 DEF Fresh, Own, SessionOf
<1> QED
  BY <1>5, <1>6, <1>7, OwnKeeps DEF TurnInv

LEMMA EnterInboundKeeps ==
  ASSUME NEW t \in Turns, TurnInv, EnterInbound(t), UNCHANGED kind
  PROVE  TurnInv'
<1>1. /\ At(t, "new") /\ turn' = [turn EXCEPT ![t].pc = "prompt"] /\ Meet(t)
      /\ session' = SessionOf(t) /\ caller' = t /\ active' = {"core"} /\ planned' = planned
      /\ UNCHANGED faults
  BY DEF EnterInbound, Begin, Claim
<1>2. Fresh(t) /\ TurnTypeOK /\ turn[t].loaded = {} /\ turn[t].job = None
  BY <1>1 DEF TurnInv, OwnInv, Fresh, At
<1>3. /\ turn' \in [Turns -> Turn] /\ turn'[t].pc = "prompt"
      /\ \A s \in Turns : s # t => turn'[s] = turn[s]
      /\ turn'[t].loaded = {} /\ turn'[t].job = None
  BY <1>1, <1>2, PcUpdate
<1>4. mixed \subseteq mixed' /\ mixed' \subseteq Turns /\ t \notin Busy
  BY <1>1, <1>2, MeetType DEF At, Busy
<1>5. TurnTypeOK'
  BY <1>1, <1>2, <1>3, <1>4 DEF TurnTypeOK, SessionOf, Sets
<1>6. Moves(t) /\ Apart(t)
  BY <1>1, <1>3, <1>4 DEF Moves, Apart
<1>7. Fresh(t)' /\ Own(t)'
  BY <1>1, <1>3 DEF Fresh, Own, SessionOf
<1> QED
  BY <1>5, <1>6, <1>7, OwnKeeps DEF TurnInv

LEMMA StartStreamKeeps ==
  ASSUME NEW t \in Turns, TurnInv, HistoryTypeOK, StartStream(t), UNCHANGED kind
  PROVE  TurnInv'
<1>1. /\ At(t, "new") /\ Load(t, "started", <<"run.started">>) /\ Meet(t)
      /\ caller' = t /\ UNCHANGED <<session, active, planned>>
  BY DEF StartStream, Begin
<1>2. <<"run.started">> \in Seq(Event) /\ Fresh(t) /\ TurnTypeOK
  BY DEF TurnInv, OwnInv, Event
<1>3. /\ turn' \in [Turns -> Turn] /\ turn'[t].pc = "started"
      /\ \A s \in Turns : s # t => turn'[s] = turn[s]
      /\ turn'[t].loaded = {} /\ turn'[t].job = None
      /\ faults' \in 0..MaxFaults
  BY <1>1, <1>2, LoadKeeps
<1>4. mixed \subseteq mixed' /\ mixed' \subseteq Turns /\ t \notin Busy
  BY <1>1, <1>2, MeetType DEF At, Busy
<1>5. TurnTypeOK'
  BY <1>1, <1>2, <1>3, <1>4 DEF TurnTypeOK
<1>6. Moves(t) /\ Apart(t)
  BY <1>1, <1>3, <1>4 DEF Moves, Apart
<1>7. Fresh(t)' /\ Own(t)'
  BY <1>1, <1>3 DEF Fresh, Own, Inside
<1> QED
  BY <1>5, <1>6, <1>7, OwnKeeps DEF TurnInv

LEMMA EnterStreamKeeps ==
  ASSUME NEW t \in Turns, TurnInv, KindInv, EnterStream(t), UNCHANGED kind
  PROVE  TurnInv'
<1>1. /\ turn[t].pc = "started" /\ turn' = [turn EXCEPT ![t].pc = "prompt"]
      /\ session' = t /\ active' = {"core"} /\ UNCHANGED <<caller, planned, faults, mixed>>
  BY DEF EnterStream, At, Goto
<1>2. /\ Fresh(t) /\ TurnTypeOK /\ turn[t].loaded = {} /\ turn[t].job = None
      /\ t \in Busy /\ kind[t] = "stream"
  BY <1>1 DEF TurnInv, OwnInv, Fresh, Busy, KindInv
<1>3. /\ turn' \in [Turns -> Turn] /\ turn'[t].pc = "prompt"
      /\ \A s \in Turns : s # t => turn'[s] = turn[s]
      /\ turn'[t].loaded = {} /\ turn'[t].job = None
  BY <1>1, <1>2, PcUpdate
<1>4. TurnTypeOK'
  BY <1>1, <1>2, <1>3 DEF TurnTypeOK, Sets
<1>5. Moves(t) /\ Apart(t)
  BY <1>1, <1>2, <1>3 DEF Moves, Apart, TurnTypeOK
<1>6. Fresh(t)' /\ (t \notin mixed => Own(t)')
  BY <1>1, <1>2, <1>3 DEF Fresh, Own, SessionOf, TurnInv, OwnInv
<1> QED
  BY <1>1, <1>4, <1>5, <1>6, OwnKeeps DEF TurnInv

LEMMA CycleKeeps ==
  ASSUME NEW t \in Turns, TurnInv, Cycle(t), UNCHANGED kind
  PROVE  TurnInv'
<1>1. /\ turn[t].pc = "new" /\ turn' = [turn EXCEPT ![t].pc = "done"] /\ session' = t
      /\ mixed' = mixed \cup Busy /\ UNCHANGED <<caller, active, planned, faults>>
  BY DEF Cycle, Begin, At
<1>2. TurnTypeOK /\ Busy \subseteq Turns
  BY DEF TurnInv, Busy
<1>3. /\ turn' \in [Turns -> Turn] /\ turn'[t].pc = "done"
      /\ \A s \in Turns : s # t => turn'[s] = turn[s]
  BY <1>1, <1>2, PcUpdate
<1>4. TurnTypeOK'
  BY <1>1, <1>2, <1>3 DEF TurnTypeOK
<1>5. Moves(t) /\ Apart(t)
  BY <1>1, <1>2, <1>3 DEF Moves, Apart, TurnTypeOK, Inside
<1>6. Fresh(t)' /\ Own(t)'
  BY <1>3 DEF Fresh, Own, Inside
<1> QED
  BY <1>4, <1>5, <1>6, OwnKeeps DEF TurnInv

\* The LLM is called: it is offered the active sets.
LEMMA AskedKeeps ==
  ASSUME NEW t \in Turns, TurnInv, NEW rec \in Turn, turn' = [turn EXCEPT ![t] = rec],
         t \in Busy, turn[t].pc \in Inside,
         rec.pc = "asked", rec.offered = active, rec.loaded = turn[t].loaded, rec.job = None,
         planned' \in {planned, None}, UNCHANGED <<session, caller, active, faults, mixed>>,
         UNCHANGED kind
  PROVE  TurnInv'
<1>1. /\ turn' \in [Turns -> Turn] /\ turn'[t] = rec
      /\ \A s \in Turns : s # t => turn'[s] = turn[s]
  BY TurnUpdate DEF TurnInv
<1>2. TurnTypeOK'
  BY <1>1 DEF TurnTypeOK, TurnInv
<1>3. Moves(t) /\ Apart(t)
  BY <1>1 DEF Moves, Apart, TurnInv, TurnTypeOK
<1>4. Fresh(t)' /\ (t \notin mixed => Own(t)')
  BY <1>1 DEF Fresh, Own, SessionOf, TurnInv, OwnInv, Inside
<1> QED
  BY <1>2, <1>3, <1>4, OwnKeeps DEF TurnInv

LEMMA AskKeeps ==
  ASSUME NEW t \in Turns, TurnInv, Ask(t), UNCHANGED kind
  PROVE  TurnInv'
<1> DEFINE rec == [turn[t] EXCEPT !.pc = "asked", !.offered = active]
<1>1. /\ turn[t].pc = "prompt" /\ turn' = [turn EXCEPT ![t].pc = "asked", ![t].offered = active]
      /\ UNCHANGED <<session, caller, active, planned, faults, mixed>>
  BY DEF Ask, Call, At, fields
<1>2. /\ turn[t] \in Turn /\ active \subseteq Sets /\ turn[t].job = None
      /\ turn \in [Turns -> Turn]
  BY <1>1 DEF TurnInv, OwnInv, TurnTypeOK, Fresh
<1>3. turn' = [turn EXCEPT ![t] = rec]
  BY <1>1, <1>2 DEF Turn
<1>4. /\ rec \in Turn /\ rec.pc = "asked" /\ rec.offered = active
      /\ rec.loaded = turn[t].loaded /\ rec.job = None
  BY <1>2 DEF Turn
<1>5. t \in Busy /\ turn[t].pc \in Inside
  BY <1>1 DEF Busy, Inside
<1> HIDE DEF rec
<1> QED
  BY <1>1, <1>3, <1>4, <1>5, AskedKeeps

\* A run that ends leaves the orchestrator.
LEMMA EndKeeps ==
  ASSUME NEW t \in Turns, TurnInv, NEW said \in BOOLEAN, NEW new \in Seq(Event),
         EndRun(t, said, new), t \in Busy,
         planned' \in {planned, None}, UNCHANGED <<session, caller, active>>,
         faults' \in 0..MaxFaults, UNCHANGED kind
  PROVE  TurnInv'
<1>1. /\ turn' \in [Turns -> Turn] /\ turn'[t].pc \in {"done", "save"}
      /\ \A s \in Turns : s # t => turn'[s] = turn[s]
      /\ mixed' \in {mixed, mixed \ {t}}
  BY EndRunType DEF TurnInv
<1>2. TurnTypeOK'
  BY <1>1 DEF TurnTypeOK, TurnInv
<1>3. Moves(t) /\ Apart(t)
  BY <1>1 DEF Moves, Apart, TurnInv, TurnTypeOK, Inside
<1>4. Fresh(t)' /\ Own(t)'
  BY <1>1 DEF Fresh, Own, Inside
<1> QED
  BY <1>2, <1>3, <1>4, OwnKeeps DEF TurnInv

LEMMA AnswerTextKeeps ==
  ASSUME NEW t \in Turns, TurnInv, AnswerText(t), UNCHANGED kind
  PROVE  TurnInv'
<1>1. PICK said \in BOOLEAN : EndRun(t, said, <<"assistant.final", "run.completed">>)
  BY DEF AnswerText
<1>2. <<"assistant.final", "run.completed">> \in Seq(Event)
  BY DEF Event
<1>3. /\ t \in Busy /\ faults' \in 0..MaxFaults
      /\ UNCHANGED <<session, caller, active, planned>>
  BY DEF AnswerText, At, Busy, fields, TurnInv, TurnTypeOK
<1> QED
  BY <1>1, <1>2, <1>3, EndKeeps

LEMMA FailTurnKeeps ==
  ASSUME NEW t \in Turns, TurnInv, FailTurn(t), UNCHANGED kind
  PROVE  TurnInv'
<1>1. <<"run.failed">> \in Seq(Event)
  BY DEF Event
<1>2. /\ t \in Busy /\ \E said \in BOOLEAN : EndRun(t, said, <<"run.failed">>)
      /\ UNCHANGED <<session, caller, active, planned>>
  BY DEF FailTurn, Apology, Busy, fields
<1>3. faults' \in 0..MaxFaults
  BY FaultType DEF FailTurn, TurnInv
<1> QED
  BY <1>1, <1>2, <1>3, EndKeeps

LEMMA AnswerToolsKeeps ==
  ASSUME NEW t \in Turns, TurnInv, AnswerTools(t), UNCHANGED kind
  PROVE  TurnInv'
<1>1. PICK calls \in Answers, said \in BOOLEAN :
        turn' = [turn EXCEPT ![t].calls = calls, ![t].offered = {}, ![t].said = @ \/ said,
                   ![t].pc = IF Contains(calls, "delegate") THEN "planning" ELSE "tools"]
  BY DEF AnswerTools, Shown
<1> DEFINE next == IF Contains(calls, "delegate") THEN "planning" ELSE "tools"
           rec == [turn[t] EXCEPT !.calls = calls, !.offered = {}, !.said = turn[t].said \/ said,
                                  !.pc = next]
<1>2. /\ turn[t].pc = "asked" /\ planned' = None
      /\ UNCHANGED <<session, caller, active, faults, mixed>>
  BY DEF AnswerTools, At
<1>3. /\ turn[t] \in Turn /\ turn[t].job = None /\ turn \in [Turns -> Turn] /\ t \in Busy
      /\ turn[t].said \in BOOLEAN
  BY <1>2 DEF TurnInv, OwnInv, TurnTypeOK, Fresh, Busy, Turn
<1>4. calls \in CallSeq
  BY ChatAssumption DEF CallSeq
<1>5. turn' = [turn EXCEPT ![t] = rec]
  BY <1>1, <1>3 DEF Turn
<1>6. (turn[t].said \/ said) \in BOOLEAN
  BY <1>3
<1>7. next \in {"planning", "tools"} /\ (next = "tools" => ~Contains(calls, "delegate"))
  OBVIOUS
<1> HIDE DEF next
<1>8. rec \in Turn
  BY <1>3, <1>4, <1>6, <1>7 DEF Turn, CallSeq
<1>9. /\ rec.pc = next /\ rec.calls = calls
      /\ rec.loaded = turn[t].loaded /\ rec.job = None
  BY <1>3 DEF Turn
<1> HIDE DEF rec
<1>10. /\ turn' \in [Turns -> Turn] /\ turn'[t] = rec
       /\ \A s \in Turns : s # t => turn'[s] = turn[s]
  BY <1>5, <1>8, TurnUpdate DEF TurnInv
<1>11. TurnTypeOK'
  BY <1>2, <1>10 DEF TurnTypeOK, TurnInv
<1>12. Moves(t) /\ Apart(t)
  BY <1>2, <1>3, <1>10 DEF Moves, Apart, TurnInv, TurnTypeOK
<1>13. Fresh(t)' /\ (t \notin mixed => Own(t)')
  <2>1. Fresh(t)'
    BY <1>7, <1>9, <1>10 DEF Fresh
  <2>2. ASSUME t \notin mixed PROVE Own(t)'
    <3>1. caller = t /\ session = SessionOf(t) /\ active = {"core"} \cup turn[t].loaded
      BY <1>2, <2>2 DEF TurnInv, OwnInv, Own, Inside
    <3> QED
      BY <1>2, <1>7, <1>9, <1>10, <3>1 DEF Own, SessionOf
  <2> QED
    BY <2>1, <2>2
<1> QED
  BY <1>2, <1>11, <1>12, <1>13, OwnKeeps DEF TurnInv

LEMMA PlanKeeps ==
  ASSUME NEW t \in Turns, TurnInv, Plan(t), UNCHANGED kind
  PROVE  TurnInv'
<1>1. /\ turn[t].pc = "planning" /\ planned' = t /\ turn' = [turn EXCEPT ![t].pc = "tools"]
      /\ UNCHANGED <<session, caller, active, faults, mixed>>
  BY DEF Plan, At, Goto
<1>2. TurnTypeOK /\ t \in Busy /\ turn[t].job = None
  BY <1>1 DEF TurnInv, OwnInv, Fresh, Busy
<1>3. /\ turn' \in [Turns -> Turn] /\ turn'[t].pc = "tools"
      /\ turn'[t].loaded = turn[t].loaded /\ turn'[t].job = None
      /\ \A s \in Turns : s # t => turn'[s] = turn[s]
  BY <1>1, <1>2, PcUpdate
<1>4. TurnTypeOK'
  BY <1>1, <1>2, <1>3 DEF TurnTypeOK
<1>5. Moves(t) /\ Apart(t)
  BY <1>1, <1>2, <1>3 DEF Moves, Apart, TurnTypeOK
<1>6. Fresh(t)' /\ (t \notin mixed => Own(t)')
  BY <1>1, <1>3 DEF Fresh, Own, SessionOf, TurnInv, OwnInv, Inside
<1> QED
  BY <1>1, <1>4, <1>5, <1>6, OwnKeeps DEF TurnInv

\* The calls that are left.
LEMMA TailCalls ==
  ASSUME NEW q \in CallSeq, q # <<>>
  PROVE  /\ Tail(q) \in CallSeq
         /\ Contains(Tail(q), "delegate") => Contains(q, "delegate")
         /\ Head(q) = "delegate" => Contains(q, "delegate")
<1> DEFINE n == Len(q)
<1>1. n \in Nat /\ n >= 1
  BY DEF CallSeq
<1>2. Tail(q) \in CallSeq /\ Len(Tail(q)) = n - 1 /\ \A i \in 1..(n - 1) : Tail(q)[i] = q[i + 1]
  BY DEF CallSeq
<1>3. Head(q) = q[1]
  BY DEF CallSeq
<1> HIDE DEF n
<1>4. 1 \in 1..n /\ \A i \in 1..(n - 1) : i + 1 \in 1..n
  BY <1>1
<1>5. Contains(Tail(q), "delegate") => Contains(q, "delegate")
  BY <1>2, <1>4 DEF Contains, n
<1>6. Head(q) = "delegate" => Contains(q, "delegate")
  BY <1>3, <1>4 DEF Contains, n
<1> QED
  BY <1>2, <1>5, <1>6

LEMMA LoadToolSetKeeps ==
  ASSUME NEW t \in Turns, TurnInv, LoadToolSet(t), UNCHANGED kind
  PROVE  TurnInv'
<1> DEFINE events == Events(t, <<"tool.started", "tool.ended">>)
           rec == [turn[t] EXCEPT !.calls = Tail(turn[t].calls),
                                  !.loaded = turn[t].loaded \cup {"delegation"},
                                  !.events = events]
<1>1. /\ turn[t].pc = "tools" /\ turn[t].calls # <<>>
      /\ active' = active \cup {"delegation"}
      /\ turn' = [turn EXCEPT ![t].calls = Tail(@), ![t].loaded = @ \cup {"delegation"},
                              ![t].events = events]
      /\ UNCHANGED <<session, caller, planned, faults, mixed>>
  BY DEF LoadToolSet, At
<1>2. <<"tool.started", "tool.ended">> \in Seq(Event)
  BY DEF Event
<1>3. events \in Seq(Event)
  BY <1>2, EventsType DEF TurnInv
<1>4. /\ turn[t] \in Turn /\ turn \in [Turns -> Turn] /\ t \in Busy
      /\ turn[t].calls \in CallSeq
  BY <1>1 DEF TurnInv, TurnTypeOK, Busy, Turn, CallSeq
<1>5. /\ Tail(turn[t].calls) \in CallSeq
      /\ Contains(Tail(turn[t].calls), "delegate") => Contains(turn[t].calls, "delegate")
  BY <1>1, <1>4, TailCalls
<1> HIDE DEF events
<1>6. turn' = [turn EXCEPT ![t] = rec]
  BY <1>1, <1>4 DEF Turn
<1>7. /\ rec \in Turn /\ rec.pc = "tools" /\ rec.calls = Tail(turn[t].calls)
      /\ rec.loaded = turn[t].loaded \cup {"delegation"} /\ rec.job = turn[t].job
  BY <1>1, <1>3, <1>4, <1>5 DEF Turn, CallSeq, Sets
<1> HIDE DEF rec
<1>8. /\ turn' \in [Turns -> Turn] /\ turn'[t] = rec
      /\ \A s \in Turns : s # t => turn'[s] = turn[s]
  BY <1>6, <1>7, TurnUpdate DEF TurnInv
<1>9. TurnTypeOK'
  BY <1>1, <1>8 DEF TurnTypeOK, TurnInv, Sets
<1>10. Moves(t) /\ Apart(t)
  BY <1>1, <1>4, <1>8 DEF Moves, Apart, TurnInv, TurnTypeOK
<1>11. Fresh(t)' /\ (t \notin mixed => Own(t)')
  <2>1. Fresh(t)'
    BY <1>7, <1>8 DEF Fresh
  <2>2. ASSUME t \notin mixed PROVE Own(t)'
    <3>1. Own(t)
      BY <2>2 DEF TurnInv, OwnInv
    <3>2. /\ caller = t /\ session = SessionOf(t) /\ active = {"core"} \cup turn[t].loaded
          /\ Contains(turn[t].calls, "delegate") => planned = t
          /\ turn[t].job # None =>
               turn[t].job = [caller |-> t, session |-> SessionOf(t), plan |-> t]
      BY <1>1, <3>1 DEF Own, Inside
    <3> QED
      BY <1>1, <1>5, <1>7, <1>8, <3>2 DEF Own, SessionOf
  <2> QED
    BY <2>1, <2>2
<1> QED
  BY <1>1, <1>9, <1>10, <1>11, OwnKeeps DEF TurnInv

LEMMA BeginDelegateKeeps ==
  ASSUME NEW t \in Turns, TurnInv, BeginDelegate(t), UNCHANGED kind
  PROVE  TurnInv'
<1> DEFINE events == Events(t, <<"tool.started">>)
           job == [caller |-> caller, session |-> None, plan |-> None]
           rec == [turn[t] EXCEPT !.pc = "delegating", !.job = job, !.events = events]
<1>1. /\ turn[t].pc = "tools" /\ turn[t].calls # <<>> /\ Head(turn[t].calls) = "delegate"
      /\ turn' = [turn EXCEPT ![t].pc = "delegating", ![t].job = job, ![t].events = events]
      /\ UNCHANGED <<session, caller, active, planned, faults, mixed>>
  BY DEF BeginDelegate, At, fields
<1>2. <<"tool.started">> \in Seq(Event)
  BY DEF Event
<1>3. events \in Seq(Event)
  BY <1>2, EventsType DEF TurnInv
<1>4. /\ turn[t] \in Turn /\ turn \in [Turns -> Turn] /\ t \in Busy
      /\ turn[t].calls \in CallSeq
  BY <1>1 DEF TurnInv, TurnTypeOK, Busy, Turn, CallSeq
<1>5. Contains(turn[t].calls, "delegate")
  BY <1>1, <1>4, TailCalls
<1>6. job \in Job /\ job.caller = caller
  BY DEF TurnInv, TurnTypeOK, Job
<1> HIDE DEF events, job
<1>7. turn' = [turn EXCEPT ![t] = rec]
  BY <1>1, <1>4 DEF Turn
<1>8. /\ rec \in Turn /\ rec.pc = "delegating" /\ rec.loaded = turn[t].loaded /\ rec.job = job
      /\ rec.calls = turn[t].calls
  BY <1>3, <1>4, <1>6 DEF Turn
<1> HIDE DEF rec
<1>9. /\ turn' \in [Turns -> Turn] /\ turn'[t] = rec
      /\ \A s \in Turns : s # t => turn'[s] = turn[s]
  BY <1>7, <1>8, TurnUpdate DEF TurnInv
<1>10. TurnTypeOK'
  BY <1>1, <1>9 DEF TurnTypeOK, TurnInv
<1>11. Moves(t) /\ Apart(t)
  BY <1>1, <1>4, <1>9 DEF Moves, Apart, TurnInv, TurnTypeOK
<1>12. Fresh(t)'
  BY <1>1, <1>6, <1>8, <1>9 DEF Fresh
<1>13. ASSUME t \notin mixed PROVE Own(t)'
  <2>1. /\ caller = t /\ session = SessionOf(t) /\ active = {"core"} \cup turn[t].loaded
        /\ planned = t
    BY <1>1, <1>5, <1>13 DEF TurnInv, OwnInv, Own, Inside
  <2> QED
    BY <1>1, <1>6, <1>8, <1>9, <2>1 DEF Own, SessionOf
<1> QED
  BY <1>1, <1>10, <1>11, <1>12, <1>13, OwnKeeps DEF TurnInv

LEMMA JobUpdate ==
  ASSUME NEW j \in Job, NEW s \in Turns \cup {None}, NEW p \in Turns \cup {None}
  PROVE  /\ [j EXCEPT !.session = s, !.plan = p] \in Job
         /\ [j EXCEPT !.session = s, !.plan = p]
              = [caller |-> j.caller, session |-> s, plan |-> p]
<1> DEFINE k == [j EXCEPT !.session = s, !.plan = p]
<1>1. k \in Job
  BY DEF Job
<1>2. k.caller = j.caller /\ k.session = s /\ k.plan = p
  BY DEF Job
<1> HIDE DEF k
<1>3. k = [caller |-> k.caller, session |-> k.session, plan |-> k.plan]
  BY <1>1 DEF Job
<1> QED
  BY <1>1, <1>2, <1>3 DEF k

LEMMA EndDelegateKeeps ==
  ASSUME NEW t \in Turns, TurnInv, EndDelegate(t), UNCHANGED kind
  PROVE  TurnInv'
<1> DEFINE events == Events(t, <<"tool.ended">>)
           job == [turn[t].job EXCEPT !.session = session, !.plan = planned]
           rec == [turn[t] EXCEPT !.pc = "tools", !.calls = Tail(turn[t].calls), !.job = job,
                                  !.events = events]
<1>1. /\ turn[t].pc = "delegating"
      /\ turn' = [turn EXCEPT ![t].pc = "tools", ![t].calls = Tail(@),
                   ![t].job = [@ EXCEPT !.session = session, !.plan = planned],
                   ![t].events = events]
      /\ UNCHANGED <<session, caller, active, planned, faults, mixed>>
  BY DEF EndDelegate, At, fields
<1>2. <<"tool.ended">> \in Seq(Event)
  BY DEF Event
<1>3. events \in Seq(Event)
  BY <1>2, EventsType DEF TurnInv
<1>4. /\ turn[t] \in Turn /\ turn \in [Turns -> Turn] /\ t \in Busy
      /\ turn[t].calls \in CallSeq /\ turn[t].calls # <<>> /\ turn[t].job \in Job
  BY <1>1 DEF TurnInv, TurnTypeOK, Busy, Turn, CallSeq, OwnInv, Fresh
<1>5. Tail(turn[t].calls) \in CallSeq
  BY <1>4, TailCalls
<1>6. /\ job \in Job
      /\ job = [caller |-> turn[t].job.caller, session |-> session, plan |-> planned]
  BY <1>4, JobUpdate DEF TurnInv, TurnTypeOK
<1>7. turn' = [turn EXCEPT ![t] = rec]
  BY <1>1, <1>4 DEF Turn
<1> HIDE DEF events, job
<1>8. /\ rec \in Turn /\ rec.pc = "tools" /\ rec.loaded = turn[t].loaded /\ rec.job = job
  BY <1>3, <1>4, <1>5, <1>6 DEF Turn, CallSeq
<1> HIDE DEF rec
<1>9. /\ turn' \in [Turns -> Turn] /\ turn'[t] = rec
      /\ \A s \in Turns : s # t => turn'[s] = turn[s]
  BY <1>7, <1>8, TurnUpdate DEF TurnInv
<1>10. TurnTypeOK'
  BY <1>1, <1>9 DEF TurnTypeOK, TurnInv
<1>11. Moves(t) /\ Apart(t)
  BY <1>1, <1>4, <1>9 DEF Moves, Apart, TurnInv, TurnTypeOK
<1>12. Fresh(t)'
  BY <1>8, <1>9 DEF Fresh
<1>13. ASSUME t \notin mixed PROVE Own(t)'
  <2>1. /\ caller = t /\ session = SessionOf(t) /\ active = {"core"} \cup turn[t].loaded
        /\ planned = t /\ turn[t].job.caller = t
    BY <1>1, <1>13 DEF TurnInv, OwnInv, Own, Inside
  <2> QED
    BY <1>1, <1>6, <1>8, <1>9, <2>1 DEF Own, SessionOf
<1> QED
  BY <1>1, <1>10, <1>11, <1>12, <1>13, OwnKeeps DEF TurnInv

LEMMA EndToolsKeeps ==
  ASSUME NEW t \in Turns, TurnInv, EndTools(t), UNCHANGED kind
  PROVE  TurnInv'
<1>1. /\ turn[t].pc = "tools" /\ planned' = None /\ NextRound(t) /\ t \in Busy
      /\ UNCHANGED <<session, caller, active, faults>>
  BY DEF EndTools, At, Busy
<1>2. CASE turn[t].round + 1 = MaxRounds
  <2>1. Apology(t) \in BOOLEAN /\ <<"run.failed">> \in Seq(Event)
    BY DEF Apology, Event
  <2>2. faults' \in 0..MaxFaults
    BY <1>1 DEF TurnInv, TurnTypeOK
  <2> QED
    BY <1>1, <1>2, <2>1, <2>2, EndKeeps DEF NextRound
<1>3. CASE turn[t].round + 1 # MaxRounds
  <2> DEFINE rec == [turn[t] EXCEPT !.pc = "asked", !.offered = active,
                                    !.round = turn[t].round + 1, !.job = None]
  <2>1. /\ turn' = [turn EXCEPT ![t].pc = "asked", ![t].offered = active, ![t].round = @ + 1,
                                ![t].job = None]
        /\ UNCHANGED mixed
    BY <1>1, <1>3 DEF NextRound
  <2>2. /\ turn[t] \in Turn /\ turn \in [Turns -> Turn] /\ active \subseteq Sets
        /\ turn[t].round \in 0..(MaxRounds - 1)
    BY DEF TurnInv, TurnTypeOK, Turn
  <2>3. turn[t].round + 1 \in 0..(MaxRounds - 1)
    BY <1>3, <2>2, ChatAssumption
  <2>4. turn' = [turn EXCEPT ![t] = rec]
    BY <2>1, <2>2 DEF Turn
  <2>5. /\ rec \in Turn /\ rec.pc = "asked" /\ rec.offered = active
        /\ rec.loaded = turn[t].loaded /\ rec.job = None
    BY <2>2, <2>3 DEF Turn
  <2> HIDE DEF rec
  <2>6. turn[t].pc \in Inside
    BY <1>1 DEF Inside
  <2> QED
    BY <1>1, <2>1, <2>4, <2>5, <2>6, AskedKeeps
<1> QED
  BY <1>2, <1>3

LEMMA DisconnectKeeps ==
  ASSUME NEW t \in Turns, TurnInv, Disconnect(t), UNCHANGED kind
  PROVE  TurnInv'
<1>1. /\ t \in Busy
      /\ UNCHANGED <<session, caller, active, planned, mixed>>
  BY DEF Disconnect, fields
<1>0. PICK said \in BOOLEAN :
        turn' = [turn EXCEPT ![t].pc = "save", ![t].left = TRUE, ![t].said = @ \/ said]
  BY DEF Disconnect, Shown
<1> DEFINE rec == [turn[t] EXCEPT !.pc = "save", !.left = TRUE, !.said = turn[t].said \/ said]
<1>2. turn[t] \in Turn /\ turn[t].said \in BOOLEAN /\ turn \in [Turns -> Turn] /\ faults' \in 0..MaxFaults
  BY FaultType DEF TurnInv, TurnTypeOK, Disconnect, Turn
<1>3. turn' = [turn EXCEPT ![t] = rec]
  BY <1>0, <1>2 DEF Turn
<1>4. rec \in Turn /\ rec.pc = "save"
  BY <1>2 DEF Turn
<1> HIDE DEF rec
<1>5. /\ turn' \in [Turns -> Turn] /\ turn'[t] = rec
      /\ \A s \in Turns : s # t => turn'[s] = turn[s]
  BY <1>3, <1>4, TurnUpdate DEF TurnInv
<1>6. TurnTypeOK'
  BY <1>1, <1>2, <1>5 DEF TurnTypeOK, TurnInv
<1>7. Moves(t) /\ Apart(t)
  BY <1>1, <1>4, <1>5 DEF Moves, Apart, TurnInv, TurnTypeOK, Inside
<1>8. Fresh(t)' /\ Own(t)'
  BY <1>4, <1>5 DEF Fresh, Own, Inside
<1> QED
  BY <1>6, <1>7, <1>8, OwnKeeps DEF TurnInv

\* Saving and clearing leave the fields alone.
LEMMA StoreKeeps ==
  ASSUME NEW t \in Turns, TurnInv, SaveExchange(t) \/ ClearHistory(t), UNCHANGED kind
  PROVE  TurnInv'
<1>1. Done(t) /\ UNCHANGED fields
  BY DEF SaveExchange, ClearHistory
<1>2. faults' \in 0..MaxFaults
  BY FaultType DEF SaveExchange, ClearHistory, TurnInv, TurnTypeOK
<1>3. /\ turn' \in [Turns -> Turn] /\ turn'[t].pc = "done"
      /\ \A s \in Turns : s # t => turn'[s] = turn[s]
      /\ mixed' = mixed \ {t}
  BY <1>1, DoneType DEF TurnInv
<1>4. TurnTypeOK'
  BY <1>1, <1>2, <1>3 DEF TurnTypeOK, TurnInv, fields
<1>5. Moves(t) /\ Apart(t)
  BY <1>1, <1>3 DEF Moves, Apart, TurnInv, TurnTypeOK, Inside
<1>6. Fresh(t)' /\ Own(t)'
  BY <1>3 DEF Fresh, Own, Inside
<1> QED
  BY <1>4, <1>5, <1>6, OwnKeeps DEF TurnInv

-----------------------------------------------------------------------------
HistoryInv == HistoryTypeOK /\ KindInv

\* What is kept of a history.
LEMMA TrimKeeps ==
  ASSUME NEW q \in Seq(Message)
  PROVE  Trim(q) \in Seq(Message) /\ Len(Trim(q)) <= HistoryMax
<1> DEFINE n == Len(q)
           k == n - HistoryMax + 1
<1>1. n \in Nat /\ HistoryMax \in Nat \ {0}
  BY ChatAssumption
<1>2. CASE n <= HistoryMax
  BY <1>2 DEF Trim
<1>3. CASE n > HistoryMax
  <2>1. k \in 1..n /\ n - k + 1 = HistoryMax
    BY <1>1, <1>3
  <2>2. Trim(q) = SubSeq(q, k, n)
    BY <1>1, <1>3 DEF Trim
  <2> HIDE DEF k
  <2>3. SubSeq(q, k, n) \in Seq(Message) /\ Len(SubSeq(q, k, n)) = n - k + 1
    BY <2>1
  <2> QED
    BY <1>1, <2>1, <2>2, <2>3
<1> QED
  BY <1>1, <1>2, <1>3

\* What a turn writes back.
LEMMA UpdatedKeeps ==
  ASSUME NEW t \in Turns, TurnTypeOK
  PROVE  Updated(t) \in Seq(Message) /\ Len(Updated(t)) <= HistoryMax
<1>1. turn[t].read \in Seq(Message)
  BY DEF TurnTypeOK, Turn
<1>2. Exchange(t) \in Seq(Message)
  BY DEF Exchange, Message
<1>3. turn[t].read \o Exchange(t) \in Seq(Message)
  BY <1>1, <1>2
<1> QED
  BY <1>3, TrimKeeps DEF Updated

\* A request goes on, or it is done.
Carries(t) ==
  /\ \A s \in Turns : s # t => turn'[s] = turn[s]
  /\ turn'[t].pc \notin {"new", "done"} =>
       turn[t].pc \notin {"new", "done"}
  /\ turn'[t].pc = "started" => turn[t].pc = "started"
  /\ turn'[t].pc \in Inside => turn[t].pc \in {"started"} \cup Inside
  /\ turn'[t].pc = "save" => kind[t] \in {"send", "stream"}

LEMMA CarriesKeeps ==
  ASSUME NEW t \in Turns, HistoryInv, Carries(t), UNCHANGED <<history, kind>>
  PROVE  HistoryInv'
<1>1. HistoryTypeOK'
  BY DEF HistoryInv, HistoryTypeOK
<1>2. \A s \in Turns : s # t => turn'[s] = turn[s]
  BY DEF Carries
<1>3. kind' = kind
  OBVIOUS
<1>4. KindInv'
  BY <1>2, <1>3 DEF Carries, KindInv, HistoryInv, Inside
<1> QED
  BY <1>1, <1>4 DEF HistoryInv

\* A request begins.
LEMMA LoadCopies ==
  ASSUME NEW t \in Turns, TurnInv, HistoryInv, At(t, "new"), NEW pc \in {"prompt", "started"},
         NEW new \in Seq(Event), Load(t, pc, new), kind[t] \in {"send", "stream"},
         pc = "started" => kind[t] = "stream", UNCHANGED <<history, kind>>
  PROVE  HistoryInv'
<1>1. /\ turn'[t].pc = pc
      /\ \A s \in Turns : s # t => turn'[s] = turn[s]
  BY LoadKeeps DEF TurnInv, OwnInv, HistoryInv
<1>2. HistoryTypeOK'
  BY DEF HistoryInv, HistoryTypeOK
<1>3. KindInv'
  BY <1>1 DEF KindInv, HistoryInv, Inside
<1> QED
  BY <1>2, <1>3 DEF HistoryInv

\* Saving and clearing leave histories under the cap.
LEMMA StoreCopies ==
  ASSUME NEW t \in Turns, TurnInv, HistoryInv, SaveExchange(t) \/ ClearHistory(t), UNCHANGED kind
  PROVE  HistoryInv'
<1>1. /\ turn'[t].pc = "done"
      /\ \A s \in Turns : s # t => turn'[s] = turn[s]
  BY DoneType DEF SaveExchange, ClearHistory, TurnInv
<1>2. KindInv'
  BY <1>1 DEF KindInv, HistoryInv, Inside
<1>3. CASE UNCHANGED history
  BY <1>2, <1>3 DEF HistoryInv, HistoryTypeOK
<1>4. ASSUME NEW h \in {Updated(t), <<>>}, history' = [history EXCEPT ![User[t]] = h]
      PROVE  HistoryInv'
  <2>0. <<>> \in Seq(Message) /\ Len(<<>>) = 0 /\ HistoryMax \in Nat
    BY ChatAssumption
  <2>1. h \in Seq(Message) /\ Len(h) <= HistoryMax
    <3>1. CASE h = Updated(t)
      BY <3>1, UpdatedKeeps DEF TurnInv
    <3>2. CASE h = <<>>
      BY <2>0, <3>2
    <3> QED
      BY <1>4, <3>1, <3>2
  <2>2. User[t] \in Users /\ history \in [Users -> Seq(Message)]
    BY DEF Users, HistoryInv, HistoryTypeOK
  <2>3. HistoryTypeOK'
    BY <1>4, <2>1, <2>2 DEF HistoryTypeOK, HistoryInv
  <2> QED
    BY <1>2, <2>3 DEF HistoryInv
<1> QED
  BY <1>3, <1>4 DEF SaveExchange, ClearHistory

\* An action inside the orchestrator leaves the stored history alone.
LEMMA StepCarries ==
  ASSUME NEW t \in Turns, TurnTypeOK, KindInv,
         \/ EnterStream(t) \/ Cycle(t) \/ Ask(t) \/ AnswerTools(t) \/ Plan(t)
         \/ LoadToolSet(t) \/ BeginDelegate(t) \/ EndDelegate(t) \/ Disconnect(t)
  PROVE  Carries(t) /\ UNCHANGED history
<1>1. turn[t] \in Turn /\ turn \in [Turns -> Turn]
  BY DEF TurnTypeOK
<1>2. CASE EnterStream(t) \/ Cycle(t) \/ Plan(t)
  BY <1>1, <1>2 DEF EnterStream, Cycle, Plan, Carries, At, Goto, Turn, Inside
<1>3. CASE Ask(t)
  BY <1>1, <1>3 DEF Ask, Call, Carries, At, Turn, Inside
<1>4. CASE AnswerTools(t)
  <2>1. PICK calls \in Answers, said \in BOOLEAN :
          turn' = [turn EXCEPT ![t].calls = calls, ![t].offered = {}, ![t].said = @ \/ said,
                     ![t].pc = IF Contains(calls, "delegate") THEN "planning" ELSE "tools"]
    BY <1>4 DEF AnswerTools, Shown
  <2> DEFINE next == IF Contains(calls, "delegate") THEN "planning" ELSE "tools"
  <2>2. next \in {"planning", "tools"}
    OBVIOUS
  <2> HIDE DEF next
  <2>3. turn'[t].pc = next /\ turn'[t].read = turn[t].read
    BY <1>1, <2>1 DEF Turn, next
  <2>4. turn[t].pc = "asked" /\ UNCHANGED history
    BY <1>4 DEF AnswerTools, At
  <2>5. \A s \in Turns : s # t => turn'[s] = turn[s]
    BY <1>1, <2>1
  <2> QED
    BY <2>2, <2>3, <2>4, <2>5 DEF Carries, Inside
<1>5. CASE LoadToolSet(t) \/ BeginDelegate(t) \/ EndDelegate(t)
  <2>1. /\ turn'[t].pc \in {"tools", "delegating"}
        /\ turn[t].pc \in {"tools", "delegating"} /\ UNCHANGED history
    <3>1. CASE LoadToolSet(t)
      BY <1>1, <3>1 DEF LoadToolSet, At, Turn
    <3>2. CASE BeginDelegate(t)
      BY <1>1, <3>2 DEF BeginDelegate, At, Turn
    <3>3. CASE EndDelegate(t)
      BY <1>1, <3>3 DEF EndDelegate, At, Turn
    <3> QED BY <1>5, <3>1, <3>2, <3>3
  <2>2. \A s \in Turns : s # t => turn'[s] = turn[s]
    BY <1>1, <1>5 DEF LoadToolSet, BeginDelegate, EndDelegate
  <2> QED
    BY <2>1, <2>2 DEF Carries, Inside
<1>6. CASE Disconnect(t)
  <2>0. PICK said \in BOOLEAN :
          turn' = [turn EXCEPT ![t].pc = "save", ![t].left = TRUE, ![t].said = @ \/ said]
    BY <1>6 DEF Disconnect, Shown
  <2>1. /\ turn'[t].pc = "save"
        /\ turn[t].pc \notin {"new", "done"} /\ kind[t] = "stream" /\ UNCHANGED history
    BY <1>1, <1>6, <2>0 DEF Disconnect, Busy, Turn
  <2>2. \A s \in Turns : s # t => turn'[s] = turn[s]
    BY <1>1, <2>0
  <2> QED
    BY <2>1, <2>2 DEF Carries, Inside
<1> QED
  BY <1>2, <1>3, <1>4, <1>5, <1>6

LEMMA EndCarries ==
  ASSUME NEW t \in Turns, TurnTypeOK, KindInv, NEW said \in BOOLEAN, NEW new \in Seq(Event),
         EndRun(t, said, new), turn[t].pc \in Inside
  PROVE  Carries(t)
<1>1. /\ turn'[t].pc \in {"done", "save"}
      /\ turn'[t].pc = "save" => turn'[t].read = turn[t].read
      /\ \A s \in Turns : s # t => turn'[s] = turn[s]
  BY EndRunType
<1>2. kind[t] \in {"send", "stream", "inbound"}
  BY DEF KindInv
<1>3. kind[t] = "inbound" => turn'[t].pc = "done"
  BY DoneType DEF EndRun
<1> QED
  BY <1>1, <1>2, <1>3 DEF Carries, Inside

LEMMA EndingCarries ==
  ASSUME NEW t \in Turns, TurnTypeOK, KindInv, AnswerText(t) \/ FailTurn(t) \/ EndTools(t)
  PROVE  Carries(t) /\ UNCHANGED history
<1>1. /\ turn[t].pc \in Inside /\ UNCHANGED history
  BY DEF AnswerText, FailTurn, EndTools, At, Inside
<1>2. /\ <<"assistant.final", "run.completed">> \in Seq(Event) /\ <<"run.failed">> \in Seq(Event)
      /\ Apology(t) \in BOOLEAN
  BY DEF Event, Apology
<1>3. CASE AnswerText(t)
  BY <1>1, <1>2, <1>3, EndCarries DEF AnswerText
<1>4. CASE FailTurn(t)
  <2>1. PICK said \in BOOLEAN : EndRun(t, said, <<"run.failed">>)
    BY <1>4 DEF FailTurn, Apology
  <2> QED
    BY <1>1, <1>2, <2>1, EndCarries
<1>5. CASE EndTools(t)
  <2>1. CASE turn[t].round + 1 = MaxRounds
    BY <1>1, <1>2, <1>5, <2>1, EndCarries DEF EndTools, NextRound
  <2>2. CASE turn[t].round + 1 # MaxRounds
    <3>1. turn[t].pc = "tools" /\ turn[t] \in Turn /\ turn \in [Turns -> Turn]
      BY <1>5 DEF EndTools, At, TurnTypeOK
    <3>2. turn' = [turn EXCEPT ![t].pc = "asked", ![t].offered = active, ![t].round = @ + 1,
                               ![t].job = None]
      BY <1>5, <2>2 DEF EndTools, NextRound
    <3>3. /\ turn'[t].pc = "asked" /\ turn'[t].read = turn[t].read
          /\ \A s \in Turns : s # t => turn'[s] = turn[s]
      BY <3>1, <3>2 DEF Turn
    <3> QED
      BY <1>1, <3>1, <3>3 DEF Carries, Inside
  <2> QED
    BY <2>1, <2>2
<1> QED
  BY <1>1, <1>3, <1>4, <1>5

LEMMA InboundCopies ==
  ASSUME NEW t \in Turns, TurnTypeOK, HistoryInv, EnterInbound(t), UNCHANGED kind
  PROVE  HistoryInv'
<1>1. /\ kind[t] = "inbound" /\ turn' = [turn EXCEPT ![t].pc = "prompt"]
      /\ UNCHANGED history
  BY DEF EnterInbound
<1>2. turn'[t].pc = "prompt" /\ \A s \in Turns : s # t => turn'[s] = turn[s]
  BY <1>1, PcUpdate
<1>3. KindInv'
  BY <1>1, <1>2 DEF KindInv, HistoryInv, Inside
<1> QED
  BY <1>1, <1>3 DEF HistoryInv, HistoryTypeOK

\* Every step of a request.
LEMMA StepTurn ==
  ASSUME NEW t \in Turns, TurnInv, HistoryInv, Step(t), UNCHANGED kind
  PROVE  TurnInv'
<1>1. HistoryTypeOK /\ KindInv
  BY DEF HistoryInv
<1> QED
  BY <1>1, EnterKeeps, EnterInboundKeeps, StartStreamKeeps, EnterStreamKeeps, CycleKeeps, AskKeeps,
     AnswerTextKeeps, AnswerToolsKeeps, PlanKeeps, LoadToolSetKeeps, BeginDelegateKeeps,
     EndDelegateKeeps, EndToolsKeeps, FailTurnKeeps, DisconnectKeeps, StoreKeeps DEF Step

LEMMA StepHistory ==
  ASSUME NEW t \in Turns, TurnInv, HistoryInv, Step(t), UNCHANGED kind
  PROVE  HistoryInv'
<1>1. TurnTypeOK /\ HistoryTypeOK /\ KindInv
  BY DEF TurnInv, HistoryInv
<1>3. CASE \/ EnterStream(t) \/ Cycle(t) \/ Ask(t) \/ AnswerTools(t) \/ Plan(t)
           \/ LoadToolSet(t) \/ BeginDelegate(t) \/ EndDelegate(t) \/ Disconnect(t)
           \/ AnswerText(t) \/ FailTurn(t) \/ EndTools(t)
  <2>1. Carries(t) /\ UNCHANGED history
    BY <1>1, <1>3, StepCarries, EndingCarries
  <2> QED
    BY <2>1, CarriesKeeps
<1>4. CASE Enter(t)
  <2>1. <<>> \in Seq(Event)
    OBVIOUS
  <2> QED
    BY <1>4, <2>1, LoadCopies DEF Enter, Begin
<1>5. CASE StartStream(t)
  <2>1. <<"run.started">> \in Seq(Event)
    BY DEF Event
  <2> QED
    BY <1>5, <2>1, LoadCopies DEF StartStream, Begin
<1>6. CASE EnterInbound(t)
  BY <1>1, <1>6, InboundCopies
<1>7. CASE SaveExchange(t) \/ ClearHistory(t)
  BY <1>7, StoreCopies
<1> QED
  BY <1>3, <1>4, <1>5, <1>6, <1>7 DEF Step

-----------------------------------------------------------------------------
\* Everything that holds of every state.
ChatInv == KindOK /\ TurnInv /\ HistoryInv

LEMMA InitHistory ==
  ASSUME Init
  PROVE  HistoryTypeOK
<1> DEFINE past(u) == CHOOSE t \in Turns : User[t] = u /\ kind[t] = "past"
           some(u) == \E t \in Turns : User[t] = u /\ kind[t] = "past"
           h(u) == IF some(u) THEN Exchange(past(u)) ELSE <<>>
<1>1. history = [u \in Users |-> h(u)]
  BY DEF Init
<1>2. HistoryMax >= 2
  BY ChatAssumption
<1>3. ASSUME NEW u \in Users PROVE h(u) \in Seq(Message) /\ Len(h(u)) <= HistoryMax
  <2>1. CASE some(u)
    <3>1. past(u) \in Turns
      BY <2>1
    <3> HIDE DEF past, some
    <3>2. Exchange(past(u)) \in Seq(Message) /\ Len(Exchange(past(u))) = 2
      BY <3>1 DEF Exchange, Message
    <3> QED
      BY <1>2, <2>1, <3>2
  <2>2. CASE ~some(u)
    <3>1. h(u) = <<>>
      BY <2>2
    <3> HIDE DEF h, some, past
    <3>2. <<>> \in Seq(Message) /\ Len(<<>>) = 0
      OBVIOUS
    <3>3. Len(<<>>) <= HistoryMax
      BY <1>2, <3>2, ChatAssumption
    <3> QED
      BY <3>1, <3>2, <3>3
  <2> QED
    BY <2>1, <2>2
<1> HIDE DEF h
<1> QED
  BY <1>1, <1>3 DEF HistoryTypeOK

LEMMA InitChat == Init => ChatInv
<1> SUFFICES ASSUME Init PROVE ChatInv
  OBVIOUS
<1>1. KindOK
  BY DEF Init, KindOK
<1>2. /\ turn \in [Turns -> Turn]
      /\ \A t \in Turns : /\ turn[t].pc \in {"new", "done"}
                          /\ turn[t].loaded = {} /\ turn[t].job = None
  <2>1. turn = [t \in Turns |-> IF kind[t] = "past" THEN [Idle EXCEPT !.pc = "done"] ELSE Idle]
    BY DEF Init
  <2>2. /\ Idle.pc = "new" /\ Idle.loaded = {} /\ Idle.job = None
        /\ [Idle EXCEPT !.pc = "done"].pc = "done"
        /\ [Idle EXCEPT !.pc = "done"].loaded = {} /\ [Idle EXCEPT !.pc = "done"].job = None
    BY DEF Idle
  <2> QED
    BY <2>1, <2>2, IdleType
<1>3. /\ session = None /\ caller = None /\ active = {"core"} /\ planned = None
      /\ faults = 0 /\ mixed = {}
  BY DEF Init
<1>4. TurnTypeOK
  BY <1>2, <1>3, ChatAssumption DEF TurnTypeOK, Sets
<1>5. Busy = {}
  BY <1>2, BusyMeans DEF Inside
<1>6. OwnInv
  BY <1>2, <1>5 DEF OwnInv, Alone, Fresh, Own, Inside
<1>7. HistoryInv
  BY <1>2, InitHistory DEF HistoryInv, KindInv, Inside
<1> QED
  BY <1>1, <1>4, <1>6, <1>7 DEF ChatInv, TurnInv

LEMMA NextChat == ChatInv /\ [Next]_vars => ChatInv'
<1> SUFFICES ASSUME ChatInv, [Next]_vars PROVE ChatInv'
  OBVIOUS
<1>1. CASE Next
  <2>1. PICK t \in Turns : Step(t)
    BY <1>1 DEF Next
  <2>2. kind' = kind
    BY <1>1 DEF Next
  <2>3. TurnInv' /\ HistoryInv'
    BY <2>1, <2>2, StepTurn, StepHistory DEF ChatInv
  <2>4. KindOK'
    BY <2>2 DEF ChatInv, KindOK
  <2> QED
    BY <2>3, <2>4 DEF ChatInv
<1>2. CASE UNCHANGED vars
  <2>1. KindOK'
    BY <1>2 DEF ChatInv, KindOK, vars
  <2>2. TurnTypeOK'
    BY <1>2 DEF ChatInv, TurnInv, TurnTypeOK, vars
  <2>3. OwnInv'
    BY <1>2 DEF ChatInv, TurnInv, OwnInv, Alone, Fresh, Own, Busy, SessionOf, vars
  <2>4. HistoryInv'
    BY <1>2 DEF ChatInv, HistoryInv, HistoryTypeOK, KindInv, vars
  <2> QED
    BY <2>1, <2>2, <2>3, <2>4 DEF ChatInv, TurnInv
<1> QED
  BY <1>1, <1>2

LEMMA ChatAlways == Spec => []ChatInv
BY InitChat, NextChat, PTL DEF Spec

\* The stored histories never outgrow the cap, and every field has its type.
THEOREM ChatTypesHold == Spec => []TypeOK
<1>1. ChatInv => TypeOK
  BY DEF ChatInv, TurnInv, HistoryInv, KindOK, TurnTypeOK, HistoryTypeOK, TypeOK
<1> QED
  BY <1>1, ChatAlways, PTL

\* A turn that met no other delegates as itself, whatever the turns before it left in
\* the orchestrator (main_orchestrator.py, process_chat_message's claims).
THEOREM ActsForItselfHolds == Spec => []ActsForItself
<1>1. ChatInv => ActsForItself
  BY DEF ChatInv, TurnInv, OwnInv, Own, ActsForItself, At
<1> QED
  BY <1>1, ChatAlways, PTL

\* Such a turn is offered no tool set that another turn has loaded (ToolRegistry.reset_session).
THEOREM OfferedOwnToolsHolds == Spec => []OfferedOwnTools
<1>1. ChatInv => OfferedOwnTools
  BY DEF ChatInv, TurnInv, OwnInv, Own, OfferedOwnTools, At, Inside
<1> QED
  BY <1>1, ChatAlways, PTL

-----------------------------------------------------------------------------
(***************************************************************************)
(* What a request does to its trace events and to its copy of the history.  *)
(***************************************************************************)

\* The record of t goes on, with the events and the copy it is to have.
Becomes(t, pc, events, read) ==
  turn'[t].pc = pc /\ turn'[t].events = events /\ turn'[t].read = read

\* Everything a step of t may do to the place where it stands, its events and its copy.
Shape(t) ==
  LET e == turn[t].events
      q == turn[t].read
  IN
  \/ /\ turn[t].pc \notin {"delegating", "save", "done"}
     /\ \E pc \in {"prompt", "asked", "planning", "tools", "done"} : Becomes(t, pc, e, q)
  \/ /\ turn[t].pc = "new"
     /\ \E pc \in {"started", "prompt"}, new \in {<<>>, <<"run.started">>},
           read \in {q, history[User[t]]} : Becomes(t, pc, new, read)
  \/ /\ turn[t].pc = "tools"
     /\ Becomes(t, "tools", Events(t, <<"tool.started", "tool.ended">>), q)
  \/ /\ turn[t].pc = "tools" /\ Becomes(t, "delegating", Events(t, <<"tool.started">>), q)
  \/ /\ turn[t].pc = "delegating" /\ Becomes(t, "tools", Events(t, <<"tool.ended">>), q)
  \/ /\ turn[t].pc \in {"prompt", "asked", "planning", "tools"}
     /\ \E new \in {<<"assistant.final", "run.completed">>, <<"run.failed">>} :
          Becomes(t, "save", Events(t, new), q)
  \/ /\ turn[t].pc \in {"started"} \cup Inside
     /\ Becomes(t, "save", e, q) /\ turn'[t].left
  \/ Becomes(t, "done", <<>>, <<>>)

\* The steps that change nothing else of the record than these, and those that end it.
LEMMA DoneShape ==
  ASSUME NEW t \in Turns, TurnTypeOK, Done(t)
  PROVE  Becomes(t, "done", <<>>, <<>>)
<1>1. turn' = [turn EXCEPT ![t] = [Idle EXCEPT !.pc = "done"]]
  BY DEF Done
<1>2. turn'[t] = [Idle EXCEPT !.pc = "done"]
  BY <1>1 DEF TurnTypeOK
<1> QED
  BY <1>2 DEF Becomes, Idle

LEMMA EndRunShape ==
  ASSUME NEW t \in Turns, TurnTypeOK, NEW said, NEW new, EndRun(t, said, new)
  PROVE  \/ Becomes(t, "done", <<>>, <<>>)
         \/ Becomes(t, "save", Events(t, new), turn[t].read)
<1>1. CASE kind[t] = "inbound"
  BY <1>1, DoneShape DEF EndRun
<1>2. CASE kind[t] # "inbound"
  <2> DEFINE events == Events(t, new)
             rec == [Idle EXCEPT !.pc = "save", !.read = turn[t].read,
                       !.said = turn[t].said \/ said, !.events = events]
  <2>1. turn' = [turn EXCEPT ![t] = rec]
    BY <1>2 DEF EndRun
  <2> HIDE DEF events
  <2>2. rec.pc = "save" /\ rec.read = turn[t].read /\ rec.events = events
    BY DEF Idle
  <2>3. turn'[t] = rec
    BY <2>1 DEF TurnTypeOK
  <2> HIDE DEF rec
  <2> QED
    BY <2>2, <2>3 DEF Becomes, events
<1> QED
  BY <1>1, <1>2

LEMMA LoadShape ==
  ASSUME NEW t \in Turns, TurnTypeOK, NEW pc, NEW new, Load(t, pc, new)
  PROVE  \E read \in {turn[t].read, history[User[t]]} : Becomes(t, pc, new, read)
<1>1. turn[t] \in Turn /\ turn \in [Turns -> Turn]
  BY DEF TurnTypeOK
<1>2. CASE turn' = [turn EXCEPT ![t].pc = pc, ![t].read = history[User[t]], ![t].events = new]
  BY <1>1, <1>2 DEF Becomes, Turn
<1>3. CASE turn' = [turn EXCEPT ![t].pc = pc, ![t].events = new]
  BY <1>1, <1>3 DEF Becomes, Turn
<1> QED
  BY <1>2, <1>3 DEF Load

\* Only the record of the request changes.
LEMMA OthersStay ==
  ASSUME NEW t \in Turns, TurnTypeOK, Step(t), NEW s \in Turns, s # t
  PROVE  turn'[s] = turn[s]
<1>1. turn \in [Turns -> Turn]
  BY DEF TurnTypeOK
<1>2. CASE Enter(t) \/ EnterInbound(t) \/ StartStream(t) \/ EnterStream(t) \/ Cycle(t) \/ Ask(t)
  BY <1>1, <1>2 DEF Enter, EnterInbound, StartStream, EnterStream, Cycle, Ask, Load, Call, Goto
<1>3. CASE \/ AnswerTools(t) \/ Plan(t) \/ LoadToolSet(t) \/ BeginDelegate(t) \/ EndDelegate(t)
           \/ Disconnect(t)
  BY <1>1, <1>3 DEF AnswerTools, Plan, LoadToolSet, BeginDelegate, EndDelegate, Disconnect, Goto
<1>4. CASE AnswerText(t) \/ EndTools(t) \/ FailTurn(t)
  BY <1>1, <1>4 DEF AnswerText, EndTools, NextRound, FailTurn, EndRun, Done
<1>5. CASE SaveExchange(t) \/ ClearHistory(t)
  BY <1>1, <1>5 DEF SaveExchange, ClearHistory, Done
<1> QED
  BY <1>2, <1>3, <1>4, <1>5 DEF Step

LEMMA StepShape ==
  ASSUME NEW t \in Turns, TurnTypeOK, KindInv, Step(t)
  PROVE  Shape(t)
<1>1. turn[t] \in Turn /\ turn \in [Turns -> Turn]
  BY DEF TurnTypeOK
<1>2. CASE EnterInbound(t) \/ EnterStream(t) \/ Cycle(t) \/ Plan(t)
  <2>1. PICK pc \in {"prompt", "tools", "done"} : turn' = [turn EXCEPT ![t].pc = pc]
    BY <1>2 DEF EnterInbound, EnterStream, Cycle, Plan, Goto
  <2>2. Becomes(t, pc, turn[t].events, turn[t].read)
    BY <1>1, <2>1 DEF Becomes, Turn
  <2>3. turn[t].pc \notin {"delegating", "save", "done"}
    BY <1>2 DEF EnterInbound, EnterStream, Cycle, Plan, Begin, At
  <2> QED
    BY <2>2, <2>3 DEF Shape
<1>3. CASE Ask(t)
  <2>1. turn[t].pc = "prompt" /\ Becomes(t, "asked", turn[t].events, turn[t].read)
    BY <1>1, <1>3 DEF Ask, Call, At, Becomes, Turn
  <2> QED
    BY <2>1 DEF Shape
<1>4. CASE AnswerTools(t)
  <2>1. PICK calls \in Answers, said \in BOOLEAN :
          turn' = [turn EXCEPT ![t].calls = calls, ![t].offered = {}, ![t].said = @ \/ said,
                     ![t].pc = IF Contains(calls, "delegate") THEN "planning" ELSE "tools"]
    BY <1>4 DEF AnswerTools, Shown
  <2> DEFINE next == IF Contains(calls, "delegate") THEN "planning" ELSE "tools"
  <2>2. next \in {"planning", "tools"}
    OBVIOUS
  <2> HIDE DEF next
  <2>3. turn[t].pc = "asked" /\ Becomes(t, next, turn[t].events, turn[t].read)
    BY <1>1, <1>4, <2>1 DEF AnswerTools, At, Becomes, Turn, next
  <2> QED
    BY <2>2, <2>3 DEF Shape
<1>5. CASE Enter(t)
  <2>1. Load(t, "prompt", <<>>) /\ turn[t].pc = "new"
    BY <1>5 DEF Enter, Begin, At
  <2>2. PICK read \in {turn[t].read, history[User[t]]} : Becomes(t, "prompt", <<>>, read)
    BY <2>1, LoadShape
  <2> QED
    BY <2>1, <2>2 DEF Shape
<1>6. CASE StartStream(t)
  <2>1. Load(t, "started", <<"run.started">>) /\ turn[t].pc = "new"
    BY <1>6 DEF StartStream, Begin, At
  <2>2. PICK read \in {turn[t].read, history[User[t]]} :
          Becomes(t, "started", <<"run.started">>, read)
    BY <2>1, LoadShape
  <2> QED
    BY <2>1, <2>2 DEF Shape
<1>7. CASE LoadToolSet(t)
  <2> DEFINE events == Events(t, <<"tool.started", "tool.ended">>)
  <2>1. turn[t].pc = "tools"
        /\ turn' = [turn EXCEPT ![t].calls = Tail(@), ![t].loaded = @ \cup {"delegation"},
                                ![t].events = events]
    BY <1>7 DEF LoadToolSet, At
  <2> HIDE DEF events
  <2>2. Becomes(t, "tools", events, turn[t].read)
    BY <1>1, <2>1 DEF Becomes, Turn
  <2> QED
    BY <2>1, <2>2 DEF Shape, events
<1>8. CASE BeginDelegate(t)
  <2> DEFINE events == Events(t, <<"tool.started">>)
             job == [caller |-> caller, session |-> None, plan |-> None]
  <2>1. turn[t].pc = "tools"
        /\ turn' = [turn EXCEPT ![t].pc = "delegating", ![t].job = job, ![t].events = events]
    BY <1>8 DEF BeginDelegate, At
  <2> HIDE DEF events, job
  <2>2. Becomes(t, "delegating", events, turn[t].read)
    BY <1>1, <2>1 DEF Becomes, Turn
  <2> QED
    BY <2>1, <2>2 DEF Shape, events
<1>9. CASE EndDelegate(t)
  <2> DEFINE events == Events(t, <<"tool.ended">>)
             job == [turn[t].job EXCEPT !.session = session, !.plan = planned]
  <2>1. turn[t].pc = "delegating"
        /\ turn' = [turn EXCEPT ![t].pc = "tools", ![t].calls = Tail(@), ![t].job = job,
                                ![t].events = events]
    BY <1>1, <1>9 DEF EndDelegate, At, Turn
  <2> HIDE DEF events, job
  <2>2. Becomes(t, "tools", events, turn[t].read)
    BY <1>1, <2>1 DEF Becomes, Turn
  <2> QED
    BY <2>1, <2>2 DEF Shape, events
<1>10. CASE AnswerText(t)
  <2>1. PICK said \in BOOLEAN : EndRun(t, said, <<"assistant.final", "run.completed">>)
    BY <1>10 DEF AnswerText
  <2>2. turn[t].pc = "asked"
    BY <1>10 DEF AnswerText, At
  <2> QED
    BY <2>1, <2>2, EndRunShape DEF Shape
<1>11. CASE FailTurn(t)
  <2>1. /\ \E said : EndRun(t, said, <<"run.failed">>)
        /\ turn[t].pc \in {"prompt", "asked", "planning", "tools"}
    BY <1>11 DEF FailTurn
  <2> QED
    BY <2>1, EndRunShape DEF Shape
<1>12. CASE EndTools(t)
  <2>1. turn[t].pc = "tools" /\ NextRound(t)
    BY <1>12 DEF EndTools, At
  <2>2. CASE turn[t].round + 1 = MaxRounds
    BY <2>1, <2>2, EndRunShape DEF Shape, NextRound
  <2>3. CASE turn[t].round + 1 # MaxRounds
    <3>1. Becomes(t, "asked", turn[t].events, turn[t].read)
      BY <1>1, <2>1, <2>3 DEF NextRound, Becomes, Turn
    <3> QED
      BY <2>1, <3>1 DEF Shape
  <2> QED
    BY <2>2, <2>3
<1>13. CASE Disconnect(t)
  <2>1. turn[t].pc \in {"started"} \cup Inside
    BY <1>13, BusyMeans DEF Disconnect
  <2>2. Becomes(t, "save", turn[t].events, turn[t].read) /\ turn'[t].left
    BY <1>1, <1>13 DEF Disconnect, Becomes, Turn
  <2> QED
    BY <2>1, <2>2 DEF Shape
<1>14. CASE SaveExchange(t) \/ ClearHistory(t)
  BY <1>14, DoneShape DEF SaveExchange, ClearHistory, Shape
<1> QED
  BY <1>2, <1>3, <1>4, <1>5, <1>6, <1>7, <1>8, <1>9, <1>10, <1>11, <1>12, <1>13, <1>14 DEF Step

-----------------------------------------------------------------------------
(***************************************************************************)
(* The events of a streamed run.                                            *)
(***************************************************************************)

Quiet(e) == \A i \in DOMAIN e : e[i] \notin Terminal

\* Every tool that was started has ended, the last one possibly not.
Paired(e) ==
  \A i \in DOMAIN e : e[i] = "tool.started" => i + 1 \in DOMAIN e /\ e[i + 1] = "tool.ended"

OneOpen(e) ==
  /\ e # <<>> /\ e[Len(e)] = "tool.started"
  /\ \A i \in DOMAIN e : i < Len(e) /\ e[i] = "tool.started" => e[i + 1] = "tool.ended"

\* No terminal event before the run ends; a tool is open only while it is delegating.
EventsOf(t) ==
  LET e == turn[t].events IN
  /\ turn[t].pc # "save" => Quiet(e)
  /\ turn[t].pc \notin {"delegating", "save"} => Paired(e)
  /\ turn[t].pc = "delegating" /\ kind[t] = "stream" => OneOpen(e)
  /\ turn[t].pc = "save" =>
       /\ \A i \in DOMAIN e : e[i] \in Terminal => i = Len(e)
       /\ kind[t] = "stream" /\ ~turn[t].left => e # <<>> /\ e[Len(e)] \in Terminal /\ Paired(e)

EventsInv == \A t \in Turns : EventsOf(t)

\* One more event.
LEMMA OneMore ==
  ASSUME NEW e \in Seq(Event), NEW x \in Event
  PROVE  LET f == e \o <<x>> IN
         /\ DOMAIN f = 1..(Len(e) + 1) /\ Len(f) = Len(e) + 1 /\ f # <<>>
         /\ f[Len(e) + 1] = x /\ \A i \in DOMAIN e : f[i] = e[i]
         /\ DOMAIN e = 1..Len(e) /\ Len(e) \in Nat
OBVIOUS

LEMMA StartOne ==
  ASSUME NEW e \in Seq(Event), Quiet(e), Paired(e)
  PROVE  LET f == e \o <<"tool.started">> IN Quiet(f) /\ OneOpen(f) /\ f \in Seq(Event)
<1> DEFINE n == Len(e)
           f == e \o <<"tool.started">>
<1>1. "tool.started" \in Event /\ "tool.started" \notin Terminal
  BY DEF Event, Terminal
<1>2. /\ DOMAIN f = 1..(n + 1) /\ Len(f) = n + 1 /\ f # <<>> /\ f[n + 1] = "tool.started"
      /\ \A i \in 1..n : f[i] = e[i]
      /\ DOMAIN e = 1..n /\ n \in Nat /\ f \in Seq(Event)
  BY <1>1, OneMore
<1> HIDE DEF f, n
<1>3. Quiet(f)
  <2> SUFFICES ASSUME NEW i \in DOMAIN f PROVE f[i] \notin Terminal
    BY DEF Quiet
  <2>1. i \in 1..n \/ i = n + 1
    BY <1>2
  <2> QED
    BY <1>1, <1>2, <2>1 DEF Quiet
<1>4. OneOpen(f)
  <2>1. ASSUME NEW i \in DOMAIN f, i < Len(f), f[i] = "tool.started"
        PROVE  f[i + 1] = "tool.ended"
    <3>1. i \in 1..n /\ e[i] = "tool.started"
      BY <1>2, <2>1
    <3>2. i + 1 \in 1..n /\ e[i + 1] = "tool.ended"
      BY <1>2, <3>1 DEF Paired
    <3> QED
      BY <1>2, <3>2
  <2> QED
    BY <1>2, <2>1 DEF OneOpen
<1> QED
  BY <1>2, <1>3, <1>4 DEF f

LEMMA EndOne ==
  ASSUME NEW e \in Seq(Event), Quiet(e), OneOpen(e)
  PROVE  LET f == e \o <<"tool.ended">> IN Quiet(f) /\ Paired(f) /\ f \in Seq(Event)
<1> DEFINE n == Len(e)
           f == e \o <<"tool.ended">>
<1>1. "tool.ended" \in Event /\ "tool.ended" \notin Terminal
  BY DEF Event, Terminal
<1>2. /\ DOMAIN f = 1..(n + 1) /\ Len(f) = n + 1 /\ f[n + 1] = "tool.ended"
      /\ \A i \in 1..n : f[i] = e[i]
      /\ DOMAIN e = 1..n /\ n \in Nat /\ f \in Seq(Event)
  BY <1>1, OneMore
<1>3. \A i \in 1..n : i < n /\ e[i] = "tool.started" => e[i + 1] = "tool.ended"
  BY <1>2 DEF OneOpen
<1> HIDE DEF f, n
<1>4. Quiet(f)
  <2> SUFFICES ASSUME NEW i \in DOMAIN f PROVE f[i] \notin Terminal
    BY DEF Quiet
  <2>1. i \in 1..n \/ i = n + 1
    BY <1>2
  <2> QED
    BY <1>1, <1>2, <2>1 DEF Quiet
<1>5. Paired(f)
  <2> SUFFICES ASSUME NEW i \in DOMAIN f, f[i] = "tool.started"
               PROVE  i + 1 \in DOMAIN f /\ f[i + 1] = "tool.ended"
    BY DEF Paired
  <2>1. i \in 1..n /\ e[i] = "tool.started"
    BY <1>2
  <2>2. CASE i = n
    BY <1>2, <2>1, <2>2
  <2>3. CASE i < n
    BY <1>2, <1>3, <2>1, <2>3
  <2> QED
    BY <1>2, <2>1, <2>2, <2>3
<1> QED
  BY <1>2, <1>4, <1>5 DEF f

\* Two elements put behind a sequence are put there one by one.
LEMMA OneByOne ==
  ASSUME NEW S, NEW e \in Seq(S), NEW a \in S, NEW b \in S
  PROVE  e \o <<a, b>> = (e \o <<a>>) \o <<b>>
<1> DEFINE g == e \o <<a>>
           f == e \o <<a, b>>
           h == g \o <<b>>
           n == Len(e)
<1>1. e \in Seq(S) /\ <<a>> \in Seq(S) /\ <<b>> \in Seq(S) /\ <<a, b>> \in Seq(S)
  OBVIOUS
<1>2. g \in Seq(S) /\ f \in Seq(S) /\ n \in Nat
  BY <1>1
<1>3. /\ Len(f) = n + 2 /\ f[n + 1] = a /\ f[n + 2] = b
  BY <1>1
<1>4. \A i \in 1..n : f[i] = e[i]
  BY <1>1
<1>5. Len(g) = n + 1 /\ g[n + 1] = a /\ \A i \in 1..n : g[i] = e[i]
  BY <1>1
<1> HIDE DEF g
<1>6. Len(h) = Len(g) + 1 /\ h \in Seq(S) /\ h[Len(g) + 1] = b /\ \A i \in 1..Len(g) : h[i] = g[i]
  BY <1>1, <1>2
<1> HIDE DEF f, h, n
<1>7. ASSUME NEW i \in 1..(n + 2) PROVE f[i] = h[i]
  <2>1. i \in 1..n \/ i = n + 1 \/ i = n + 2
    BY <1>2
  <2> QED
    BY <1>2, <1>3, <1>4, <1>5, <1>6, <2>1
<1>8. f = [i \in 1..(n + 2) |-> f[i]] /\ h = [i \in 1..(n + 2) |-> h[i]]
  BY <1>2, <1>3, <1>5, <1>6
<1>9. f = h
  BY <1>7, <1>8
<1> QED
  BY <1>9 DEF f, h, g

LEMMA StartAndEnd ==
  ASSUME NEW e \in Seq(Event), Quiet(e), Paired(e)
  PROVE  LET f == e \o <<"tool.started", "tool.ended">> IN Quiet(f) /\ Paired(f)
<1> DEFINE g == e \o <<"tool.started">>
<1>1. Quiet(g) /\ OneOpen(g) /\ g \in Seq(Event)
  BY StartOne
<1>2. e \o <<"tool.started", "tool.ended">> = g \o <<"tool.ended">>
  <2>1. "tool.started" \in Event /\ "tool.ended" \in Event
    BY DEF Event
  <2> QED
    BY <2>1, OneByOne
<1> HIDE DEF g
<1> QED
  BY <1>1, <1>2, EndOne

\* The terminal event, after the final answer if there is one.
LEMMA EndRunEvents ==
  ASSUME NEW e \in Seq(Event), Quiet(e), Paired(e),
         NEW new \in {<<"assistant.final", "run.completed">>, <<"run.failed">>}
  PROVE  LET f == e \o new IN
         /\ f # <<>> /\ f[Len(f)] \in Terminal /\ Paired(f)
         /\ \A i \in DOMAIN f : f[i] \in Terminal => i = Len(f)
<1>1. \A g \in Seq(Event), x \in {"run.completed", "run.failed"} :
        Quiet(g) /\ Paired(g) =>
          LET f == g \o <<x>> IN
          /\ f # <<>> /\ f[Len(f)] \in Terminal /\ Paired(f)
          /\ \A i \in DOMAIN f : f[i] \in Terminal => i = Len(f)
  <2> TAKE g \in Seq(Event), x \in {"run.completed", "run.failed"}
  <2> HAVE Quiet(g) /\ Paired(g)
  <2> DEFINE n == Len(g)
             f == g \o <<x>>
  <2>1. x \in Event /\ x \in Terminal /\ x # "tool.started"
    BY DEF Event, Terminal
  <2>2. /\ DOMAIN f = 1..(n + 1) /\ Len(f) = n + 1 /\ f # <<>> /\ f[n + 1] = x
        /\ \A i \in 1..n : f[i] = g[i]
        /\ DOMAIN g = 1..n /\ n \in Nat
    BY <2>1, OneMore
  <2> HIDE DEF f, n
  <2>3. \A i \in DOMAIN f : i \in 1..n \/ i = n + 1
    BY <2>2
  <2>4. \A i \in DOMAIN f : f[i] \in Terminal => i = n + 1
    BY <2>2, <2>3 DEF Quiet
  <2>5. Paired(f)
    <3> SUFFICES ASSUME NEW i \in DOMAIN f, f[i] = "tool.started"
                 PROVE  i + 1 \in DOMAIN f /\ f[i + 1] = "tool.ended"
      BY DEF Paired
    <3>1. i \in 1..n /\ g[i] = "tool.started"
      BY <2>1, <2>2, <2>3
    <3>2. i + 1 \in 1..n /\ g[i + 1] = "tool.ended"
      BY <2>2, <3>1 DEF Paired
    <3> QED
      BY <2>2, <3>2
  <2> QED
    BY <2>1, <2>2, <2>4, <2>5 DEF f
<1>2. CASE new = <<"run.failed">>
  BY <1>1, <1>2
<1>3. CASE new = <<"assistant.final", "run.completed">>
  <2> DEFINE n == Len(e)
             g == e \o <<"assistant.final">>
  <2>1. /\ "assistant.final" \in Event /\ "assistant.final" \notin Terminal
        /\ "assistant.final" # "tool.started"
    BY DEF Event, Terminal
  <2>2. /\ DOMAIN g = 1..(n + 1) /\ g[n + 1] = "assistant.final"
        /\ \A i \in 1..n : g[i] = e[i]
        /\ DOMAIN e = 1..n /\ n \in Nat /\ g \in Seq(Event)
    BY <2>1, OneMore
  <2>3. e \o new = g \o <<"run.completed">>
    BY <1>3
  <2> HIDE DEF g, n
  <2>4. \A i \in DOMAIN g : i \in 1..n \/ i = n + 1
    BY <2>2
  <2>5. Quiet(g)
    BY <2>1, <2>2, <2>4 DEF Quiet
  <2>6. Paired(g)
    <3> SUFFICES ASSUME NEW i \in DOMAIN g, g[i] = "tool.started"
                 PROVE  i + 1 \in DOMAIN g /\ g[i + 1] = "tool.ended"
      BY DEF Paired
    <3>1. i \in 1..n /\ e[i] = "tool.started"
      BY <2>1, <2>2, <2>4
    <3>2. i + 1 \in 1..n /\ e[i + 1] = "tool.ended"
      BY <2>2, <3>1 DEF Paired
    <3> QED
      BY <2>2, <3>2
  <2> QED
    BY <1>1, <2>2, <2>3, <2>5, <2>6
<1> QED
  BY <1>2, <1>3

\* Every step of a request keeps its events in order.
LEMMA StepEvents ==
  ASSUME NEW t \in Turns, TurnTypeOK, KindInv, EventsOf(t), Step(t), UNCHANGED kind
  PROVE  EventsOf(t)'
<1> DEFINE e == turn[t].events
<1>1. Shape(t)
  BY StepShape
<1>2. e \in Seq(Event)
  BY DEF TurnTypeOK, Turn
<1>3. Quiet(<<>>) /\ Paired(<<>>) /\ Quiet(<<"run.started">>) /\ Paired(<<"run.started">>)
  BY DEF Quiet, Paired, Terminal
<1>4. CASE /\ turn[t].pc \notin {"delegating", "save", "done"}
           /\ \E pc \in {"prompt", "asked", "planning", "tools", "done"} :
                Becomes(t, pc, e, turn[t].read)
  BY <1>4 DEF EventsOf, Becomes
<1>5. CASE \E pc \in {"started", "prompt"}, new \in {<<>>, <<"run.started">>},
              read \in {turn[t].read, history[User[t]]} : Becomes(t, pc, new, read)
  BY <1>3, <1>5 DEF EventsOf, Becomes
<1>6. CASE /\ turn[t].pc = "tools"
           /\ Becomes(t, "tools", Events(t, <<"tool.started", "tool.ended">>), turn[t].read)
  <2>1. Quiet(e) /\ Paired(e)
    BY <1>6 DEF EventsOf
  <2>2. Quiet(turn'[t].events) /\ Paired(turn'[t].events)
    BY <1>2, <1>3, <1>6, <2>1, StartAndEnd DEF Becomes, Events
  <2> QED
    BY <1>6, <2>2 DEF EventsOf, Becomes
<1>7. CASE turn[t].pc = "tools" /\ Becomes(t, "delegating", Events(t, <<"tool.started">>), turn[t].read)
  <2>1. Quiet(e) /\ Paired(e)
    BY <1>7 DEF EventsOf
  <2>2. Quiet(turn'[t].events) /\ (kind[t] = "stream" => OneOpen(turn'[t].events))
    BY <1>2, <1>3, <1>7, <2>1, StartOne DEF Becomes, Events
  <2> QED
    BY <1>7, <2>2 DEF EventsOf, Becomes
<1>8. CASE turn[t].pc = "delegating" /\ Becomes(t, "tools", Events(t, <<"tool.ended">>), turn[t].read)
  <2>1. Quiet(e) /\ (kind[t] = "stream" => OneOpen(e))
    BY <1>8 DEF EventsOf
  <2>2. Quiet(turn'[t].events) /\ Paired(turn'[t].events)
    BY <1>2, <1>3, <1>8, <2>1, EndOne DEF Becomes, Events
  <2> QED
    BY <1>8, <2>2 DEF EventsOf, Becomes
<1>9. ASSUME turn[t].pc \in {"prompt", "asked", "planning", "tools"},
             NEW new \in {<<"assistant.final", "run.completed">>, <<"run.failed">>},
             Becomes(t, "save", Events(t, new), turn[t].read)
      PROVE  EventsOf(t)'
  <2>1. Quiet(e) /\ Paired(e)
    BY <1>9 DEF EventsOf
  <2>2. CASE kind[t] = "stream"
    <3> DEFINE f == e \o new
    <3>1. /\ f # <<>> /\ f[Len(f)] \in Terminal /\ Paired(f)
          /\ \A i \in DOMAIN f : f[i] \in Terminal => i = Len(f)
      BY <1>2, <2>1, EndRunEvents
    <3>2. turn'[t].events = f /\ turn'[t].pc = "save"
      BY <1>9, <2>2 DEF Becomes, Events
    <3> HIDE DEF f
    <3> QED
      BY <3>1, <3>2 DEF EventsOf
  <2>3. CASE kind[t] # "stream"
    BY <1>9, <2>3 DEF Becomes, Events, EventsOf
  <2> QED
    BY <2>2, <2>3
<1>10. CASE /\ turn[t].pc \in {"started"} \cup Inside
            /\ Becomes(t, "save", e, turn[t].read) /\ turn'[t].left
  BY <1>10 DEF EventsOf, Becomes, Quiet, Inside
<1>11. CASE Becomes(t, "done", <<>>, <<>>)
  BY <1>3, <1>11 DEF EventsOf, Becomes
<1> QED
  BY <1>1, <1>4, <1>5, <1>6, <1>7, <1>8, <1>9, <1>10, <1>11 DEF Shape

\* The inductive invariant of the events.
THEOREM EventsInvariant == Spec => []EventsInv
<1>1. Init => EventsInv
  <2> SUFFICES ASSUME Init, NEW t \in Turns PROVE EventsOf(t)
    BY DEF EventsInv
  <2>1. turn[t] = IF kind[t] = "past" THEN [Idle EXCEPT !.pc = "done"] ELSE Idle
    BY DEF Init
  <2>2. turn[t].events = <<>> /\ turn[t].pc \in {"new", "done"}
    BY <2>1 DEF Idle
  <2> QED
    BY <2>2 DEF EventsOf, Quiet, Paired
<1>2. ChatInv /\ EventsInv /\ [Next]_vars => EventsInv'
  <2> SUFFICES ASSUME ChatInv, EventsInv, [Next]_vars, NEW t \in Turns PROVE EventsOf(t)'
    BY DEF EventsInv
  <2>1. TurnTypeOK /\ KindInv /\ EventsOf(t)
    BY DEF ChatInv, TurnInv, HistoryInv, EventsInv
  <2>2. ASSUME NEW s \in Turns, Step(s), UNCHANGED kind PROVE EventsOf(t)'
    <3>1. CASE s = t
      BY <2>1, <2>2, <3>1, StepEvents
    <3>2. CASE s # t
      BY <2>1, <2>2, <3>2, OthersStay DEF EventsOf
    <3> QED
      BY <3>1, <3>2
  <2>3. CASE UNCHANGED vars
    BY <2>1, <2>3 DEF EventsOf, vars
  <2> QED
    BY <2>2, <2>3 DEF Next
<1> QED
  BY <1>1, <1>2, ChatAlways, PTL DEF Spec

\* "The run always ends with a run.completed or run.failed terminal event": one, the last,
\* after the end of every tool that was started (agent/main_orchestrator.py, the streamed
\* run), however turns overlap and fail.
THEOREM OneTerminalEventHolds == Spec => []OneTerminalEvent
<1>1. ChatInv /\ EventsInv => OneTerminalEvent
  <2> SUFFICES ASSUME ChatInv, EventsInv, NEW t \in Turns
               PROVE  LET e == turn[t].events IN
                      /\ \A i \in DOMAIN e : e[i] \in Terminal => i = Len(e)
                      /\ kind[t] = "stream" /\ turn[t].pc = "save" /\ ~turn[t].left =>
                           /\ Last(e) \in Terminal
                           /\ \A i \in DOMAIN e : e[i] = "tool.started" => e[i + 1] = "tool.ended"
    BY DEF OneTerminalEvent
  <2>1. EventsOf(t)
    BY DEF EventsInv
  <2> QED
    BY <2>1 DEF EventsOf, Quiet, Paired, Last
<1> QED
  BY <1>1, ChatAlways, EventsInvariant, PTL

-----------------------------------------------------------------------------
(***************************************************************************)
(* The stored history is a sequence of whole exchanges.                     *)
(***************************************************************************)

\* Whole exchanges of user u, each once.
Whole(q, u) ==
  /\ Len(q) % 2 = 0
  /\ \A i \in DOMAIN q :
       /\ User[q[i].of] = u
       /\ q[i].role = IF i % 2 = 1 THEN "user" ELSE "agent"
       /\ i % 2 = 0 => q[i - 1].of = q[i].of
  /\ \A i, j \in DOMAIN q : q[i].of = q[j].of /\ q[i].role = q[j].role => i = j

\* Its requests have been answered: none of them will save once more.
Answered(q) == \A i \in DOMAIN q : turn[q[i].of].pc = "done"

\* So is what is stored, and every copy of it.
WholeInv ==
  /\ \A u \in Users : Whole(history[u], u) /\ Answered(history[u])
  /\ \A t \in Turns : Whole(turn[t].read, User[t]) /\ Answered(turn[t].read)

LEMMA Parity ==
  ASSUME NEW k \in Nat, k % 2 = 0, NEW i \in Int
  PROVE  (i + k) % 2 = i % 2
OBVIOUS

LEMMA WholeEmpty == \A u : Whole(<<>>, u) /\ Answered(<<>>)
BY DEF Whole, Answered

\* One more exchange, of a request that is not in it.
LEMMA WholeAppend ==
  ASSUME NEW t \in Turns, NEW q \in Seq(Message), Whole(q, User[t]),
         \A i \in DOMAIN q : q[i].of # t
  PROVE  /\ Whole(q \o Exchange(t), User[t]) /\ q \o Exchange(t) \in Seq(Message)
         /\ \A i \in DOMAIN (q \o Exchange(t)) :
              (q \o Exchange(t))[i].of = t \/ \E k \in DOMAIN q : (q \o Exchange(t))[i] = q[k]
<1> DEFINE n == Len(q)
           x == [of |-> t, role |-> "user"]
           y == [of |-> t, role |-> "agent"]
           f == q \o Exchange(t)
<1>1. x \in Message /\ y \in Message /\ Exchange(t) = <<x, y>>
  BY DEF Message, Exchange
<1>2. x.of = t /\ y.of = t /\ x.role = "user" /\ y.role = "agent"
  OBVIOUS
<1> HIDE DEF x, y
<1>3. /\ f \in Seq(Message) /\ DOMAIN f = 1..(n + 2) /\ Len(f) = n + 2
      /\ f[n + 1] = x /\ f[n + 2] = y /\ \A i \in 1..n : f[i] = q[i]
      /\ DOMAIN q = 1..n /\ n \in Nat
  BY <1>1
<1>4. n % 2 = 0
  BY DEF Whole
<1> HIDE DEF f, n
<1>e. (n + 1) % 2 = 1 /\ (n + 2) % 2 = 0
  BY <1>3, <1>4
<1>5. \A i \in DOMAIN f : i \in 1..n \/ i = n + 1 \/ i = n + 2
  BY <1>3
<1>6. ASSUME NEW i \in DOMAIN f
      PROVE  /\ User[f[i].of] = User[t]
             /\ f[i].role = IF i % 2 = 1 THEN "user" ELSE "agent"
             /\ i % 2 = 0 => f[i - 1].of = f[i].of
  <2>1. CASE i \in 1..n
    <3>1. f[i] = q[i] /\ i \in DOMAIN q
      BY <1>3, <2>1
    <3>2. ASSUME i % 2 = 0 PROVE i - 1 \in 1..n
      BY <1>3, <2>1, <3>2
    <3> QED
      BY <1>3, <3>1, <3>2 DEF Whole
  <2>2. CASE i = n + 1
    BY <1>2, <1>3, <1>e, <2>2
  <2>3. CASE i = n + 2
    <3>1. i - 1 = n + 1
      BY <1>3, <2>3
    <3> QED
      BY <1>2, <1>3, <1>e, <2>3, <3>1
  <2> QED
    BY <1>5, <2>1, <2>2, <2>3
<1>7. ASSUME NEW i \in DOMAIN f, NEW j \in DOMAIN f, f[i].of = f[j].of, f[i].role = f[j].role
      PROVE  i = j
  <2>1. \A k \in 1..n : f[k].of # t
    BY <1>3
  <2>2. CASE i \in 1..n /\ j \in 1..n
    BY <1>3, <1>7, <2>2 DEF Whole
  <2>3. CASE i \notin 1..n \/ j \notin 1..n
    BY <1>2, <1>3, <1>5, <1>7, <2>1, <2>3
  <2> QED
    BY <2>2, <2>3
<1>8. ASSUME NEW i \in DOMAIN f PROVE f[i].of = t \/ \E k \in DOMAIN q : f[i] = q[k]
  BY <1>2, <1>3, <1>5
<1>9. Whole(f, User[t])
  BY <1>3, <1>e, <1>6, <1>7 DEF Whole
<1> QED
  BY <1>3, <1>8, <1>9 DEF f

\* _save_history drops an even number of messages: the cap is even.
LEMMA WholeTrim ==
  ASSUME NEW u, NEW q \in Seq(Message), Whole(q, u)
  PROVE  /\ Whole(Trim(q), u)
         /\ \A i \in DOMAIN Trim(q) : \E k \in DOMAIN q : Trim(q)[i] = q[k]
<1> DEFINE n == Len(q)
<1>1. n \in Nat /\ DOMAIN q = 1..n /\ HistoryMax \in Nat \ {0} /\ HistoryMax % 2 = 0
  BY ChatAssumption
<1>2. CASE n <= HistoryMax
  BY <1>2 DEF Trim
<1>3. CASE n > HistoryMax
  <2> DEFINE k == n - HistoryMax
             r == SubSeq(q, k + 1, n)
  <2>1. k \in Nat /\ k + 1 \in 1..n /\ n - k = HistoryMax
    BY <1>1, <1>3
  <2>2. Trim(q) = r
    BY <1>1, <1>3 DEF Trim
  <2>3. n % 2 = 0
    BY DEF Whole
  <2>4. k % 2 = 0
    BY <1>1, <2>1, <2>3
  <2> HIDE DEF n, k
  <2>5. r \in Seq(Message) /\ Len(r) = n - (k + 1) + 1 /\ \A i \in 1..Len(r) : r[i] = q[k + 1 + i - 1]
    BY <1>1, <2>1 DEF n
  <2>6. Len(r) = HistoryMax /\ DOMAIN r = 1..HistoryMax
    BY <1>1, <2>1, <2>5
  <2>7. \A i \in 1..HistoryMax : r[i] = q[i + k] /\ i + k \in 1..n /\ (i + k) % 2 = i % 2
    <3> TAKE i \in 1..HistoryMax
    <3>1. k + 1 + i - 1 = i + k /\ i + k \in 1..n
      BY <1>1, <2>1
    <3>2. (i + k) % 2 = i % 2
      BY <2>1, <2>4, Parity
    <3> QED
      BY <2>5, <2>6, <3>1, <3>2
  <2> HIDE DEF r
  <2>8. ASSUME NEW i \in DOMAIN r
        PROVE  /\ User[r[i].of] = u
               /\ r[i].role = IF i % 2 = 1 THEN "user" ELSE "agent"
               /\ i % 2 = 0 => r[i - 1].of = r[i].of
    <3>1. r[i] = q[i + k] /\ i + k \in DOMAIN q /\ (i + k) % 2 = i % 2
      BY <1>1, <2>6, <2>7
    <3>2. ASSUME i % 2 = 0 PROVE r[i - 1].of = r[i].of
      <4>1. i - 1 \in 1..HistoryMax
        BY <1>1, <2>6, <3>2
      <4>2. r[i - 1] = q[(i - 1) + k]
        BY <2>7, <4>1
      <4>4. (i - 1) + k = (i + k) - 1
        BY <1>1, <2>1, <2>6
      <4>3. q[(i + k) - 1].of = q[i + k].of
        BY <3>1, <3>2 DEF Whole
      <4> QED
        BY <3>1, <4>2, <4>3, <4>4
    <3> QED
      BY <3>1, <3>2 DEF Whole
  <2>9. ASSUME NEW i \in DOMAIN r, NEW j \in DOMAIN r, r[i].of = r[j].of, r[i].role = r[j].role
        PROVE  i = j
    <3>1. i + k \in DOMAIN q /\ j + k \in DOMAIN q /\ r[i] = q[i + k] /\ r[j] = q[j + k]
      BY <1>1, <2>6, <2>7
    <3>2. i + k = j + k
      BY <2>9, <3>1 DEF Whole
    <3> QED
      BY <2>1, <2>6, <3>2
  <2>10. Whole(r, u)
    BY <1>1, <2>6, <2>8, <2>9 DEF Whole
  <2>11. \A i \in DOMAIN r : \E m \in DOMAIN q : r[i] = q[m]
    BY <1>1, <2>6, <2>7
  <2> QED
    BY <2>2, <2>10, <2>11
<1> QED
  BY <1>1, <1>2, <1>3

\* A request that has been answered is answered for good.
LEMMA DoneStays ==
  ASSUME NEW t \in Turns, TurnTypeOK, KindInv, Step(t), turn[t].pc = "done"
  PROVE  turn'[t].pc = "done"
<1>1. Shape(t)
  BY StepShape
<1> QED
  BY <1>1 DEF Shape, Becomes, Inside

LEMMA AnsweredStays ==
  ASSUME NEW t \in Turns, TurnTypeOK, KindInv, Step(t), NEW q \in Seq(Message), Answered(q)
  PROVE  Answered(q)'
<1> SUFFICES ASSUME NEW i \in DOMAIN q PROVE turn'[q[i].of].pc = "done"
  BY DEF Answered
<1>0. q[i] \in Message
  OBVIOUS
<1>1. q[i].of \in Turns /\ turn[q[i].of].pc = "done"
  BY <1>0 DEF Message, Answered
<1>2. CASE q[i].of = t
  BY <1>1, <1>2, DoneStays
<1>3. CASE q[i].of # t
  BY <1>1, <1>3, OthersStay
<1> QED
  BY <1>2, <1>3

\* The copy of the request after its step.
LEMMA StepCopy ==
  ASSUME NEW t \in Turns, TurnTypeOK, KindInv, Step(t)
  PROVE  turn'[t].read \in {turn[t].read, history[User[t]], <<>>}
<1>1. Shape(t)
  BY StepShape
<1> QED
  BY <1>1 DEF Shape, Becomes

\* What is stored after the step.
LEMMA StepStored ==
  ASSUME NEW t \in Turns, HistoryTypeOK, Step(t)
  PROVE  \A u \in Users :
           \/ history'[u] = history[u]
           \/ history'[u] = <<>>
           \/ /\ u = User[t] /\ turn[t].pc = "save" /\ Done(t)
              /\ history'[u] = Updated(t)
<1>1. history \in [Users -> Seq(Message)]
  BY DEF HistoryTypeOK
<1>2. CASE SaveExchange(t)
  BY <1>1, <1>2 DEF SaveExchange, At
<1>3. CASE ClearHistory(t)
  BY <1>1, <1>3 DEF ClearHistory
<1>4. CASE ~SaveExchange(t) /\ ~ClearHistory(t)
  BY <1>4 DEF Step, Enter, EnterInbound, StartStream, EnterStream, Cycle, Ask, AnswerText,
     AnswerTools, Plan, LoadToolSet, BeginDelegate, EndDelegate, EndTools, FailTurn, Disconnect
<1> QED
  BY <1>2, <1>3, <1>4

LEMMA StepWhole ==
  ASSUME NEW t \in Turns, TurnTypeOK, HistoryTypeOK, KindInv, WholeInv, Step(t)
  PROVE  WholeInv'
<1>1. /\ \A u \in Users : history[u] \in Seq(Message)
      /\ \A s \in Turns : turn[s].read \in Seq(Message)
  BY DEF TurnTypeOK, HistoryTypeOK, Turn
<1>2. <<>> \in Seq(Message) /\ User[t] \in Users
  BY DEF Users
<1>3. ASSUME NEW u \in Users PROVE Whole(history'[u], u) /\ Answered(history[u])'
  <2>1. CASE history'[u] = history[u]
    <3>1. Answered(history[u]) /\ Whole(history[u], u)
      BY DEF WholeInv
    <3>2. \A i \in DOMAIN history[u] : turn'[history[u][i].of].pc = "done"
      BY <1>1, <3>1, AnsweredStays DEF Answered
    <3> QED
      BY <2>1, <3>1, <3>2 DEF Answered
  <2>2. CASE history'[u] = <<>>
    BY <2>2, WholeEmpty DEF Answered
  <2>3. CASE u = User[t] /\ turn[t].pc = "save" /\ Done(t) /\ history'[u] = Updated(t)
    <3> DEFINE q == turn[t].read
               all == q \o Exchange(t)
    <3>1. q \in Seq(Message) /\ Whole(q, User[t]) /\ Answered(q)
      BY <1>1 DEF WholeInv
    <3>2. \A i \in DOMAIN q : q[i].of # t
      BY <2>3, <3>1 DEF Answered
    <3>3. /\ Whole(all, User[t]) /\ all \in Seq(Message)
          /\ \A i \in DOMAIN all : all[i].of = t \/ \E k \in DOMAIN q : all[i] = q[k]
      BY <3>1, <3>2, WholeAppend
    <3>4. history'[u] = Trim(all)
      BY <2>3 DEF Updated
    <3>5. turn'[t].pc = "done"
      BY <2>3, DoneType
    <3>6. \A i \in DOMAIN q : turn'[q[i].of].pc = "done"
      BY <3>1, AnsweredStays DEF Answered
    <3> HIDE DEF q, all
    <3>7. /\ Whole(Trim(all), User[t])
          /\ \A i \in DOMAIN Trim(all) : \E k \in DOMAIN all : Trim(all)[i] = all[k]
      BY <3>3, WholeTrim
    <3>8. \A i \in DOMAIN Trim(all) : turn'[Trim(all)[i].of].pc = "done"
      BY <3>3, <3>5, <3>6, <3>7
    <3> QED
      BY <2>3, <3>4, <3>7, <3>8 DEF Answered
  <2> QED
    BY <2>1, <2>2, <2>3, StepStored
<1>4. ASSUME NEW s \in Turns PROVE Whole(turn'[s].read, User[s]) /\ Answered(turn[s].read)'
  <2>1. turn'[s].read \in {turn[s].read, history[User[s]], <<>>}
    BY StepCopy, OthersStay
  <2>2. User[s] \in Users
    BY DEF Users
  <2>3. CASE turn'[s].read = <<>>
    BY <2>3, WholeEmpty DEF Answered
  <2>4. ASSUME NEW q \in {turn[s].read, history[User[s]]}, turn'[s].read = q
        PROVE  Whole(turn'[s].read, User[s]) /\ Answered(turn[s].read)'
    <3>1. q \in Seq(Message) /\ Whole(q, User[s]) /\ Answered(q)
      BY <1>1, <2>2 DEF WholeInv
    <3>2. \A i \in DOMAIN q : turn'[q[i].of].pc = "done"
      BY <3>1, AnsweredStays DEF Answered
    <3> QED
      BY <2>4, <3>1, <3>2 DEF Answered
  <2> QED
    BY <2>1, <2>3, <2>4
<1>5. \A u \in Users : Whole(history[u], u)' /\ Answered(history[u])'
  BY <1>3 DEF Whole
<1>6. \A s \in Turns : Whole(turn[s].read, User[s])' /\ Answered(turn[s].read)'
  BY <1>4 DEF Whole
<1> QED
  BY <1>5, <1>6 DEF WholeInv, Users

LEMMA InitWhole == Init => WholeInv
<1> SUFFICES ASSUME Init PROVE WholeInv
  OBVIOUS
<1> DEFINE past(u) == CHOOSE t \in Turns : User[t] = u /\ kind[t] = "past"
           some(u) == \E t \in Turns : User[t] = u /\ kind[t] = "past"
           h(u) == IF some(u) THEN Exchange(past(u)) ELSE <<>>
<1>1. history = [u \in Users |-> h(u)]
  BY DEF Init
<1>2. \A t \in Turns : turn[t] = IF kind[t] = "past" THEN [Idle EXCEPT !.pc = "done"] ELSE Idle
  BY DEF Init
<1>3. \A t \in Turns : /\ turn[t].read = <<>>
                       /\ kind[t] = "past" => turn[t].pc = "done"
  BY <1>2 DEF Idle
<1>4. ASSUME NEW u \in Users PROVE Whole(h(u), u) /\ Answered(h(u))
  <2>1. CASE some(u)
    <3> DEFINE t == past(u)
    <3>1. t \in Turns /\ User[t] = u /\ kind[t] = "past" /\ h(u) = Exchange(t)
      BY <2>1
    <3> HIDE DEF t, h, past, some
    <3> DEFINE e == <<>>
    <3>2. e \in Seq(Message) /\ Whole(e, User[t]) /\ (\A i \in DOMAIN e : e[i].of # t)
      BY WholeEmpty
    <3>5. e \o Exchange(t) = Exchange(t)
      BY DEF Exchange
    <3> HIDE DEF e
    <3>6. Whole(e \o Exchange(t), User[t])
      BY <3>1, <3>2, WholeAppend
    <3>3. Whole(Exchange(t), User[t])
      BY <3>5, <3>6
    <3>4. Answered(Exchange(t))
      BY <1>3, <3>1 DEF Answered, Exchange
    <3> QED
      BY <3>1, <3>3, <3>4
  <2>2. CASE ~some(u)
    <3>1. h(u) = <<>>
      BY <2>2
    <3> HIDE DEF h, some, past
    <3> QED
      BY <3>1, WholeEmpty
  <2> QED
    BY <2>1, <2>2
<1> HIDE DEF h
<1>5. \A t \in Turns : Whole(turn[t].read, User[t]) /\ Answered(turn[t].read)
  BY <1>3, WholeEmpty
<1> QED
  BY <1>1, <1>4, <1>5 DEF WholeInv

\* The inductive invariant of the exchanges.
THEOREM WholeInvariant == Spec => []WholeInv
<1>1. ChatInv /\ WholeInv /\ [Next]_vars => WholeInv'
  <2> SUFFICES ASSUME ChatInv, WholeInv, [Next]_vars PROVE WholeInv'
    OBVIOUS
  <2>1. TurnTypeOK /\ HistoryTypeOK /\ KindInv
    BY DEF ChatInv, TurnInv, HistoryInv
  <2>2. CASE UNCHANGED vars
    <3>1. history' = history /\ turn' = turn
      BY <2>2 DEF vars
    <3>4. ASSUME NEW q, NEW u, Whole(q, u) /\ Answered(q)
          PROVE  Whole(q, u) /\ \A i \in DOMAIN q : turn'[q[i].of].pc = "done"
      BY <3>1, <3>4 DEF Answered
    <3>2. ASSUME NEW u \in Users PROVE Whole(history[u], u)' /\ Answered(history[u])'
      <4>1. Whole(history[u], u) /\ Answered(history[u])
        BY DEF WholeInv
      <4>2. history'[u] = history[u]
        BY <3>1
      <4>3. Whole(history'[u], u)
        BY <4>1, <4>2
      <4>4. \A i \in DOMAIN history'[u] : turn'[history'[u][i].of].pc = "done"
        BY <3>4, <4>1, <4>2
      <4> QED
        BY <4>3, <4>4 DEF Whole, Answered
    <3>3. ASSUME NEW t \in Turns PROVE Whole(turn[t].read, User[t])' /\ Answered(turn[t].read)'
      <4>1. Whole(turn[t].read, User[t]) /\ Answered(turn[t].read)
        BY DEF WholeInv
      <4>2. turn'[t].read = turn[t].read
        BY <3>1
      <4>3. Whole(turn'[t].read, User[t])
        BY <4>1, <4>2
      <4>4. \A i \in DOMAIN turn'[t].read : turn'[turn'[t].read[i].of].pc = "done"
        BY <3>4, <4>1, <4>2
      <4> QED
        BY <4>3, <4>4 DEF Whole, Answered
    <3> QED
      BY <3>2, <3>3 DEF WholeInv, Users
  <2> QED
    BY <2>1, <2>2, StepWhole DEF Next
<1> QED
  BY <1>1, InitWhole, ChatAlways, PTL DEF Spec

\* However turns of a user overlap, fail, are cut off or are cleared, and wherever the cap
\* cuts, the stored history is a sequence of whole exchanges (api/chat.py, _save_history).
THEOREM WholeExchangesHold == Spec => []WholeExchanges
<1>1. WholeInv => WholeExchanges
  BY DEF WholeInv, Whole, WholeExchanges
<1> QED
  BY <1>1, WholeInvariant, PTL
=============================================================================
