---------------------------- MODULE GatedApproval ----------------------------
(***************************************************************************)
(* A call of a gated MCP tool waits for a person (mcp/client.py,            *)
(* mcp/approval.py): an APPROVAL task is created and polled; the person     *)
(* approves or denies it (api/approvals.py) or moves it like any other task *)
(* (api/state.py), and an overdue one is cancelled (agent/escalation.py).   *)
(***************************************************************************)
EXTENDS StateMachine

CONSTANTS
  Answers,     \* requests to approve, deny or move the task
  Polls,       \* polls of wait_for_approval: 720, one every five seconds
  Failures     \* what may happen: "store", "parse", "crash"

VARIABLES
  approval,    \* the state of the task, "none" before it is created
  waiting,     \* the call of the tool, how often it has polled and what it read last
  answer,      \* the requests: what they ask and the state they have read
  overdue,     \* what check_and_escalate is at
  crossed      \* ghost: two decisions were under way together

gateVars == <<approval, waiting, answer, overdue, crossed>>

\* An answer approves, denies, or asks for a state by its name.
Decisions == {"approve", "deny"} \cup TaskState

\* The task as the service makes it: it does not resolve itself, and nothing lowers its confidence.
ApprovalInfo ==
  [type |-> "APPROVAL", lowConf |-> FALSE, auto |-> FALSE, gate |-> "AND", autoComplete |-> FALSE]

Wait == [pc : {"ask", "poll", "run", "ran", "denied", "timeout", "failed"}, polls : 0..Polls,
         saw : {"none"} \cup TaskState]

Answer == [pc : {"new", "read", "done"}, asks : Decisions, from : TaskState]

Unread == [pc |-> "new", asks |-> "approve", from |-> "PENDING"]

Answered == [Unread EXCEPT !.pc = "done"]

GateInit ==
  /\ approval = "none" /\ waiting = [pc |-> "ask", polls |-> 0, saw |-> "none"]
  /\ answer = [a \in Answers |-> Unread]
  /\ overdue = "idle" /\ crossed = FALSE

MayFail(what) == what \in Failures

\* The decisions that are under way.
Deciding == {a \in Answers : answer[a].pc = "read"} \cup (IF overdue = "idle" THEN {} ELSE {overdue})

Now(pc) == waiting' = [waiting EXCEPT !.pc = pc]

-----------------------------------------------------------------------------
RequestApproval ==
  /\ waiting.pc = "ask"
  /\ \/ approval' = "PENDING" /\ Now("poll")
     \/ MayFail("store") /\ Now("failed") /\ UNCHANGED approval
  /\ UNCHANGED <<answer, overdue, crossed>>

\* What a poll makes of the state: a task that is blocked is read as denied.
Verdict(state) ==
  CASE state = "COMPLETE" -> "run"
    [] state \in {"CANCELLED", "BLOCKED"} -> "denied"
    [] OTHER -> "poll"

\* wait_for_approval: one poll, or the end of the last pause.
Poll ==
  /\ waiting.pc = "poll"
  /\ \/ /\ waiting.polls < Polls
        /\ waiting' = [pc |-> Verdict(approval), saw |-> approval,
                       polls |-> waiting.polls + (IF Verdict(approval) = "poll" THEN 1 ELSE 0)]
     \/ waiting.polls = Polls /\ Now("timeout")
     \/ MayFail("store") /\ Now("failed")
  /\ UNCHANGED <<approval, answer, overdue, crossed>>

ExecuteTool ==
  waiting.pc = "run" /\ Now("ran") /\ UNCHANGED <<approval, answer, overdue, crossed>>

\* The gateway stops: nobody waits for the answer any more, and requests are lost.
Stop ==
  /\ MayFail("crash") /\ waiting.pc \in {"ask", "poll", "run"}
  /\ Now("failed")
  /\ answer' = [a \in Answers |-> IF answer[a].pc = "read" THEN Answered ELSE answer[a]]
  /\ overdue' = "idle"
  /\ UNCHANGED <<approval, crossed>>

\* The task is read.  approve_task and deny_task validate the row as the store keeps it, and
\* may raise there; the route that moves a task parses it first.
ReadTask(a) ==
  /\ answer[a].pc = "new" /\ approval # "none"
  /\ \E asks \in Decisions :
       \/ /\ answer' = [answer EXCEPT ![a] = [pc |-> "read", asks |-> asks, from |-> approval]]
          /\ crossed' = (crossed \/ Deciding # {})
       \/ /\ MayFail("parse") /\ asks \in {"approve", "deny"}
          /\ answer' = [answer EXCEPT ![a] = Answered] /\ UNCHANGED crossed
  /\ UNCHANGED <<approval, waiting, overdue>>

\* Mutant: an answer stands until the next one.
MayBecomeAlways(from, asks) == from \in TaskState

Outcome(asks) ==
  CASE asks = "approve" -> "COMPLETE" [] asks = "deny" -> "CANCELLED" [] OTHER -> asks

\* _drive_to_complete walks PENDING -> ACTIVE -> IN_PROGRESS -> COMPLETE and leaves a task
\* that is COMPLETE as it is; anything else is one transition.
MayBecome(from, asks) ==
  \/ asks = "approve" /\ from \in {"PENDING", "ACTIVE", "IN_PROGRESS", "COMPLETE"}
  \/ CanTransition(ApprovalInfo, from, Outcome(asks), "HUMAN")

\* The whole row is written back, or the transition is refused.
WriteTask(a) ==
  /\ answer[a].pc = "read"
  /\ \/ MayBecome(answer[a].from, answer[a].asks) /\ approval' = Outcome(answer[a].asks)
     \/ ~MayBecome(answer[a].from, answer[a].asks) /\ UNCHANGED approval
     \/ MayFail("store") /\ UNCHANGED approval
  /\ answer' = [answer EXCEPT ![a] = Answered]
  /\ UNCHANGED <<waiting, overdue, crossed>>

\* check_and_escalate finds the task waiting after a day; a call waits an hour.
FindOverdue ==
  /\ overdue = "idle" /\ approval \in {"PENDING", "IN_PROGRESS"}
  /\ waiting.pc \notin {"ask", "poll", "run"}
  /\ overdue' = "found"
  /\ crossed' = (crossed \/ Deciding # {})
  /\ UNCHANGED <<approval, waiting, answer>>

\* It then reads the task again and cancels it, whatever its state is by then, unless the row
\* as it is stored does not validate or the store raises.
EscalateCancel ==
  /\ overdue = "found" /\ overdue' = "idle"
  /\ \/ approval' = "CANCELLED"
     \/ (MayFail("parse") \/ MayFail("store")) /\ UNCHANGED approval
  /\ UNCHANGED <<waiting, answer, crossed>>

GateNext == \/ RequestApproval \/ Poll \/ ExecuteTool \/ Stop
            \/ \E a \in Answers : ReadTask(a) \/ WriteTask(a)
            \/ FindOverdue \/ EscalateCancel

GateSpec == GateInit /\ [][GateNext]_gateVars

-----------------------------------------------------------------------------
GateTypeOK ==
  /\ approval \in {"none"} \cup TaskState
  /\ waiting \in Wait /\ answer \in [Answers -> Answer]
  /\ overdue \in {"idle", "found"} /\ crossed \in BOOLEAN

\* When decisions do not overlap, what happened to the call is what the task says for good:
\* a tool that runs was approved and stays approved, a call that is refused because the task
\* was cancelled stays refused, whoever answers or moves the task again later.  (A call that
\* is refused because the task is blocked may be approved after it has gone.)
CalledAsApproved ==
  ~crossed =>
    /\ waiting.pc \in {"run", "ran"} => approval = "COMPLETE"
    /\ waiting.pc = "denied" => waiting.saw \in {"CANCELLED", "BLOCKED"}
    /\ waiting.pc = "denied" /\ waiting.saw = "CANCELLED" => approval = "CANCELLED"
=============================================================================
