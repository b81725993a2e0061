------------------------------ MODULE ChatTurn ------------------------------
(***************************************************************************)
(* Chat turns: api/chat.py and api/chat_streaming.py load a user's history, *)
(* run the agent's tool loop (agent/main_orchestrator.py) and write the     *)
(* history back.  One orchestrator object serves every turn, of every user  *)
(* and channel: the session, the caller, the loaded tool sets and the       *)
(* planned delegations of "the current turn" are its fields, and the turns  *)
(* interleave at each await.                                                *)
(***************************************************************************)
EXTENDS Integers, Sequences, FiniteSets, SequencesExt

CONSTANTS
  Turns,       \* the requests
  Kinds,       \* Kinds[t]: what the request may be: "send", "stream", "inbound",
               \* "cycle", "clear", or "past" for one of an earlier process
  User,        \* User[t]: whose request it is
  HistoryMax,  \* config.memory.history_max: 200 messages
  MaxRounds,   \* LLM rounds of a turn: 15
  Answers,     \* the sequences of tool calls the LLM may answer with
  Faults,      \* what may fail: "read", "write", "agent", "disconnect"
  MaxFaults,   \* bound: how often
  MaxActive,   \* bound: requests under way at a time
  None

ASSUME ChatAssumption ==
  /\ Kinds \in [Turns -> SUBSET {"send", "stream", "inbound", "cycle", "clear", "past"}]
  /\ HistoryMax \in Nat \ {0} /\ HistoryMax % 2 = 0
  /\ MaxRounds \in Nat \ {0} /\ MaxFaults \in Nat /\ MaxActive \in Nat \ {0}
  /\ Answers \subseteq Seq({"load", "delegate"})
  /\ None \notin Turns

VARIABLES
  kind,      \* what the requests are
  history,   \* the chat history of each user in storage
  turn,      \* the requests
  session,   \* _current_session_id: the turn whose id it is
  caller,    \* _current_caller_context: the turn it was built for
  active,    \* ToolRegistry._active_sets
  planned,   \* _turn_delegation_calls: the turn whose calls are planned
  faults,    \* what has failed: a counter
  mixed      \* ghost: the turns that are not alone in the agent all the time

fields == <<session, caller, active, planned>>
vars == <<kind, history, turn, session, caller, active, planned, faults, mixed>>

Users == {User[t] : t \in Turns}

Message == [of : Turns, role : {"user", "agent"}]

Sets == {"core", "delegation"}

\* The trace events of a streamed run.
Event == {"run.started", "tool.started", "tool.ended", "assistant.final", "run.completed",
          "run.failed"}

Terminal == {"run.completed", "run.failed"}

\* A delegation: the fields it was made with.
Job == [caller : Turns \cup {None}, session : Turns \cup {None}, plan : Turns \cup {None}]

\* loaded: the sets it has loaded itself; said: there is text to save; left: the
\* client has gone away; job: its last delegation.
Turn == [pc : {"new", "started", "prompt", "asked", "planning", "tools", "delegating", "save",
               "done"},
         read : Seq(Message), round : 0..(MaxRounds - 1), calls : Seq({"load", "delegate"}),
         offered : SUBSET Sets, loaded : SUBSET Sets, said : BOOLEAN, events : Seq(Event),
         left : BOOLEAN, job : Job \cup {None}]

Idle == [pc |-> "new", read |-> <<>>, round |-> 0, calls |-> <<>>, offered |-> {},
         loaded |-> {}, said |-> FALSE, events |-> <<>>, left |-> FALSE, job |-> None]

\* A channel message and a follow-up come without a session id.
SessionOf(t) == IF kind[t] = "inbound" THEN None ELSE t

At(t, pc) == turn[t].pc = pc

Goto(t, pc) == turn' = [turn EXCEPT ![t].pc = pc]

\* The request has been answered; its locals are gone.
Done(t) == /\ turn' = [turn EXCEPT ![t] = [Idle EXCEPT !.pc = "done"]]
           /\ mixed' = mixed \ {t}

Active == {t \in Turns : turn[t].pc \notin {"new", "done"}}

Begin(t) == At(t, "new") /\ Cardinality(Active) < MaxActive

\* The turns inside the orchestrator.
Busy == {t \in Turns : turn[t].pc \in {"started", "prompt", "asked", "planning", "tools",
                                       "delegating"}}

Exchange(t) == <<[of |-> t, role |-> "user"], [of |-> t, role |-> "agent"]>>

\* A turn of an earlier process has left its exchange in storage.
Init ==
  /\ kind \in {k \in [Turns -> UNION {Kinds[t] : t \in Turns}] : \A t \in Turns : k[t] \in Kinds[t]}
  /\ history = [u \in Users |->
                  IF \E t \in Turns : User[t] = u /\ kind[t] = "past"
                  THEN Exchange(CHOOSE t \in Turns : User[t] = u /\ kind[t] = "past") ELSE <<>>]
  /\ turn = [t \in Turns |-> IF kind[t] = "past" THEN [Idle EXCEPT !.pc = "done"] ELSE Idle]
  /\ session = None /\ caller = None /\ active = {"core"} /\ planned = None
  /\ faults = 0
  /\ mixed = {}

Fault(what) == what \in Faults /\ faults < MaxFaults /\ faults' = faults + 1

Events(t, new) == IF kind[t] = "stream" THEN turn[t].events \o new ELSE <<>>

-----------------------------------------------------------------------------
\* Mutant: an odd number of messages is kept.
TrimOdd(messages) ==
  IF Len(messages) <= HistoryMax THEN messages
  ELSE SubSeq(messages, Len(messages) - HistoryMax + 2, Len(messages))

\* _save_history keeps the last messages.
Trim(messages) ==
  IF Len(messages) <= HistoryMax THEN messages
  ELSE SubSeq(messages, Len(messages) - HistoryMax + 1, Len(messages))

\* What the turn writes back.
Updated(t) == Trim(turn[t].read \o Exchange(t))

\* The exchange is written, or the write fails (a 500, or a log line of the stream).  A
\* streamed turn that produced no text is not written.
SaveExchange(t) ==
  /\ At(t, "save")
  /\ \/ /\ turn[t].said
        /\ history' = [history EXCEPT ![User[t]] = Updated(t)]
        /\ UNCHANGED faults
     \/ /\ turn[t].said /\ Fault("write")
        /\ UNCHANGED history
     \/ /\ ~turn[t].said
        /\ UNCHANGED <<history, faults>>
  /\ Done(t)
  /\ UNCHANGED <<fields>>

ClearHistory(t) ==
  /\ kind[t] = "clear" /\ Begin(t)
  /\ history' = [history EXCEPT ![User[t]] = <<>>]
  /\ Done(t)
  /\ UNCHANGED <<fields, faults>>

-----------------------------------------------------------------------------
\* t enters the orchestrator.
Meet(t) == mixed' = IF Busy = {} THEN mixed ELSE mixed \cup Busy \cup {t}

\* Mutant: the tool registry is not reset.
ClaimKeepsTools(t) ==
  session' = SessionOf(t) /\ caller' = t /\ UNCHANGED active

\* Mutant: a turn without a session id leaves the field alone.
ClaimKeepsSession(t) ==
  /\ session' = IF SessionOf(t) = None THEN session ELSE SessionOf(t)
  /\ caller' = t /\ active' = {"core"}

\* process_chat_message up to its first await.
Claim(t) ==
  /\ session' = SessionOf(t) /\ caller' = t /\ active' = {"core"}

\* _load_history, then the turn begins at pc: a read that fails is an empty history.
Load(t, pc, new) ==
  \/ /\ turn' = [turn EXCEPT ![t].pc = pc, ![t].read = history[User[t]],
                            ![t].events = new]
     /\ UNCHANGED faults
  \/ /\ Fault("read")
     /\ turn' = [turn EXCEPT ![t].pc = pc, ![t].events = new]

Enter(t) ==
  /\ kind[t] = "send" /\ Begin(t)
  /\ Load(t, "prompt", <<>>)
  /\ Claim(t) /\ Meet(t)
  /\ UNCHANGED <<history, planned>>

\* A channel message has no history.
EnterInbound(t) ==
  /\ kind[t] = "inbound" /\ Begin(t)
  /\ turn' = [turn EXCEPT ![t].pc = "prompt"]
  /\ Claim(t) /\ Meet(t)
  /\ UNCHANGED <<history, planned, faults>>

\* The streamed form takes the caller first; run.started is published before it goes on.
StartStream(t) ==
  /\ kind[t] = "stream" /\ Begin(t)
  /\ Load(t, "started", <<"run.started">>)
  /\ caller' = t /\ Meet(t)
  /\ UNCHANGED <<history, session, active, planned>>

EnterStream(t) ==
  /\ At(t, "started")
  /\ session' = t /\ active' = {"core"}
  /\ Goto(t, "prompt")
  /\ UNCHANGED <<history, caller, planned, faults, mixed>>

\* run_cycle puts its own session id in the field.
Cycle(t) ==
  /\ kind[t] = "cycle" /\ Begin(t)
  /\ session' = t
  /\ turn' = [turn EXCEPT ![t].pc = "done"] /\ mixed' = mixed \cup Busy
  /\ UNCHANGED <<history, caller, active, planned, faults>>

\* The run of t ends.  The API saves the exchange; a channel message is answered.
EndRun(t, said, new) ==
  IF kind[t] = "inbound" THEN Done(t)
  ELSE /\ turn' = [turn EXCEPT ![t] = [Idle EXCEPT !.pc = "save", !.read = turn[t].read,
                      !.said = turn[t].said \/ said, !.events = Events(t, new)]]
       /\ UNCHANGED mixed

\* The answer of a turn that is not streamed when something goes wrong.
Apology(t) == kind[t] = "send"

\* The LLM is called with the active tools.
Call(t) == /\ turn' = [turn EXCEPT ![t].pc = "asked", ![t].offered = active]
           /\ UNCHANGED mixed

\* The system prompt has been built.
Ask(t) ==
  /\ At(t, "prompt")
  /\ Call(t)
  /\ UNCHANGED <<history, fields, faults>>

\* What a stream has been given of the LLM's answer is shown before the answer is whole.
Shown(t) == IF kind[t] = "stream" /\ At(t, "asked") THEN BOOLEAN ELSE {FALSE}

\* The LLM answers with text: the run is complete.
AnswerText(t) ==
  /\ At(t, "asked")
  /\ \E said \in (IF kind[t] = "stream" THEN BOOLEAN ELSE {TRUE}) :
       EndRun(t, said, <<"assistant.final", "run.completed">>)
  /\ UNCHANGED <<history, fields, faults>>

\* The LLM answers with tool calls, of the tools it was offered; a stream may have
\* shown text before them.  Delegations are planned before the first call runs.
AnswerTools(t) ==
  /\ At(t, "asked")
  /\ \E calls \in Answers, said \in Shown(t) :
       /\ calls # <<>>
       /\ Contains(calls, "delegate") => "delegation" \in turn[t].offered
       /\ turn' = [turn EXCEPT ![t].calls = calls, ![t].offered = {},
                     ![t].said = @ \/ said,
                     ![t].pc = IF Contains(calls, "delegate") THEN "planning" ELSE "tools"]
  /\ planned' = None
  /\ UNCHANGED <<history, session, caller, active, faults, mixed>>

\* _pre_plan_delegation_turn.
Plan(t) ==
  /\ At(t, "planning")
  /\ planned' = t
  /\ Goto(t, "tools")
  /\ UNCHANGED <<history, session, caller, active, faults, mixed>>

\* load_tool_set.
LoadToolSet(t) ==
  /\ At(t, "tools") /\ turn[t].calls # <<>> /\ Head(turn[t].calls) = "load"
  /\ active' = active \cup {"delegation"}
  /\ turn' = [turn EXCEPT ![t].calls = Tail(@), ![t].loaded = @ \cup {"delegation"},
                          ![t].events = Events(t, <<"tool.started", "tool.ended">>)]
  /\ UNCHANGED <<history, session, caller, planned, faults, mixed>>

\* delegate_to_agent reads the task as the current caller.
BeginDelegate(t) ==
  /\ At(t, "tools") /\ turn[t].calls # <<>> /\ Head(turn[t].calls) = "delegate"
  /\ turn' = [turn EXCEPT ![t].pc = "delegating", ![t].job = [caller |-> caller, session |-> None, plan |-> None],
                          ![t].events = Events(t, <<"tool.started">>)]
  /\ UNCHANGED <<history, fields, faults, mixed>>

\* It publishes the job under the planned batch and the current session.
EndDelegate(t) ==
  /\ At(t, "delegating")
  /\ turn' = [turn EXCEPT ![t].pc = "tools", ![t].calls = Tail(@),
                          ![t].job = [@ EXCEPT !.session = session, !.plan = planned],
                          ![t].events = Events(t, <<"tool.ended">>)]
  /\ UNCHANGED <<history, fields, faults, mixed>>

\* Mutant: the run that reaches the cap just stops.
NextRoundSilent(t) ==
  IF turn[t].round + 1 = MaxRounds THEN EndRun(t, Apology(t), <<>>)
  ELSE /\ turn' = [turn EXCEPT ![t].pc = "asked", ![t].offered = active, ![t].round = @ + 1,
                               ![t].job = None]
       /\ UNCHANGED mixed

\* Mutant: only the rounds of a stream are counted.
NextRoundUncounted(t) ==
  IF turn[t].round + 1 = MaxRounds THEN EndRun(t, Apology(t), <<"run.failed">>)
  ELSE /\ turn' = [turn EXCEPT ![t].pc = "asked", ![t].offered = active,
                               ![t].job = None,
                               ![t].round = IF kind[t] = "stream" THEN @ + 1 ELSE @]
       /\ UNCHANGED mixed

\* The results of the tools go to the LLM; after the last round the turn gives up.
NextRound(t) ==
  IF turn[t].round + 1 = MaxRounds THEN EndRun(t, Apology(t), <<"run.failed">>)
  ELSE /\ turn' = [turn EXCEPT ![t].pc = "asked", ![t].offered = active, ![t].round = @ + 1,
                               ![t].job = None]
       /\ UNCHANGED mixed

EndTools(t) ==
  /\ At(t, "tools") /\ turn[t].calls = <<>>
  /\ planned' = None
  /\ NextRound(t)
  /\ UNCHANGED <<history, session, caller, active, faults>>

\* The prompt, the LLM or the planner raises.  The API answers with a fixed text, which
\* is saved as the reply; a stream ends with run.failed, and the text it has shown is
\* saved.  The fields stay as they are.
FailTurn(t) ==
  /\ turn[t].pc \in {"prompt", "asked", "planning"}
  /\ Fault("agent")
  /\ \E said \in Shown(t) : EndRun(t, Apology(t) \/ said, <<"run.failed">>)
  /\ UNCHANGED <<history, fields>>

\* The client of a stream goes away: the generator is closed where it is, and what was
\* shown is saved.
Disconnect(t) ==
  /\ kind[t] = "stream" /\ t \in Busy
  /\ Fault("disconnect")
  /\ \E said \in Shown(t) :
       turn' = [turn EXCEPT ![t].pc = "save", ![t].left = TRUE, ![t].said = @ \/ said]
  /\ UNCHANGED <<history, fields, mixed>>

Step(t) == \/ Enter(t) \/ EnterInbound(t) \/ StartStream(t) \/ EnterStream(t) \/ Cycle(t)
           \/ Ask(t) \/ AnswerText(t) \/ AnswerTools(t) \/ Plan(t)
           \/ LoadToolSet(t) \/ BeginDelegate(t) \/ EndDelegate(t) \/ EndTools(t)
           \/ FailTurn(t) \/ Disconnect(t) \/ SaveExchange(t) \/ ClearHistory(t)

Next == (\E t \in Turns : Step(t)) /\ UNCHANGED kind

\* A request that has begun is carried on; the LLM answers or its call fails.
Fairness == \A t \in Turns : WF_vars(~At(t, "new") /\ Step(t) /\ UNCHANGED kind)

Spec == Init /\ [][Next]_vars /\ Fairness

-----------------------------------------------------------------------------
TypeOK ==
  /\ \A t \in Turns : kind[t] \in Kinds[t]
  /\ history \in [Users -> Seq(Message)]
  /\ \A u \in Users : Len(history[u]) <= HistoryMax
  /\ turn \in [Turns -> Turn]
  /\ session \in Turns \cup {None} /\ caller \in Turns \cup {None}
  /\ active \subseteq Sets /\ planned \in Turns \cup {None}
  /\ faults \in 0..MaxFaults
  /\ mixed \subseteq Turns

\* However turns of a user overlap, fail, are cut off or are cleared, the stored
\* history is a sequence of whole exchanges: a message of the user and its answer,
\* each exchange once (_save_history trims by messages, not by exchanges).
WholeExchanges ==
  \A u \in Users :
    LET h == history[u] IN
    /\ \A i \in DOMAIN h :
         /\ User[h[i].of] = u
         /\ h[i].role = IF i % 2 = 1 THEN "user" ELSE "agent"
         /\ i % 2 = 0 => h[i - 1].of = h[i].of
    /\ \A i, j \in DOMAIN h : h[i].of = h[j].of /\ h[i].role = h[j].role => i = j

\* A turn that was alone in the orchestrator delegates as its own caller, under its
\* own session and its own plan, whatever the turns before it left in the fields.
ActsForItself ==
  \A t \in Turns :
    At(t, "tools") /\ turn[t].job # None /\ t \notin mixed =>
      turn[t].job = [caller |-> t, session |-> SessionOf(t), plan |-> t]

\* The LLM of such a turn is offered the core tools and the sets this turn has loaded,
\* no set that an earlier turn has loaded.
OfferedOwnTools ==
  \A t \in Turns : At(t, "asked") /\ t \notin mixed =>
                     turn[t].offered = {"core"} \cup turn[t].loaded

\* "The run always ends with a run.completed or run.failed terminal event": one, and
\* the last, unless the client went away; and a tool that was started ends before it.
OneTerminalEvent ==
  \A t \in Turns : LET e == turn[t].events IN
    /\ \A i \in DOMAIN e : e[i] \in Terminal => i = Len(e)
    /\ kind[t] = "stream" /\ turn[t].pc = "save" /\ ~turn[t].left =>
         /\ Last(e) \in Terminal
         /\ \A i \in DOMAIN e : e[i] = "tool.started" => e[i + 1] = "tool.ended"

\* A request that has begun ends: the rounds of the tool loop are counted.
TurnsEnd == \A t \in Turns : ~At(t, "new") ~> At(t, "done")
=============================================================================
