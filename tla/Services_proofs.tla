--------------------------- MODULE Services_proofs ---------------------------
(***************************************************************************)
(* Proofs about the parts that share no state with the tasks: the approval  *)
(* of gated tools, the sign-in and the trigger engine, each for any number  *)
(* of requests and calls and any failures.                                  *)
(***************************************************************************)
EXTENDS MCServices, PlanLifecycle_proofs, DispatchPlanner_proofs

-----------------------------------------------------------------------------
(***************************************************************************)
(* Gated tools.                                                             *)
(***************************************************************************)

\* While decisions do not overlap, the one under way knows the state of the task.
DecisionIsFresh ==
  ~crossed =>
    /\ \A a, b \in Answers : answer[a].pc = "read" /\ answer[b].pc = "read" => a = b
    /\ \A a \in Answers :
         answer[a].pc = "read" => answer[a].from = approval /\ overdue = "idle"
    /\ overdue = "found" => approval \in {"PENDING", "IN_PROGRESS"}

\* A task that is not there is not decided about.
AskedFirst ==
  /\ waiting.pc = "ask" => approval = "none"
  /\ approval = "none" => overdue = "idle" /\ \A a \in Answers : answer[a].pc # "read"

GateInv == GateTypeOK /\ DecisionIsFresh /\ AskedFirst /\ CalledAsApproved

-----------------------------------------------------------------------------
LEMMA UnreadIsAnswer ==
  /\ Unread \in Answer /\ Unread.pc = "new"
  /\ Answered \in Answer /\ Answered.pc = "done"
BY DEF Unread, Answered, Answer, Decisions, TaskState

LEMMA GateInitInv == Polls \in Nat /\ GateInit => GateInv
<1> SUFFICES ASSUME Polls \in Nat, GateInit PROVE GateInv
  OBVIOUS
<1>1. waiting \in Wait
  BY DEF GateInit, Wait
<1>2. answer \in [Answers -> Answer] /\ \A a \in Answers : answer[a].pc = "new"
  BY UnreadIsAnswer DEF GateInit
<1> QED
  BY <1>1, <1>2 DEF GateInit, GateInv, GateTypeOK, DecisionIsFresh, AskedFirst, CalledAsApproved

\* What a request may write: nothing may follow a denial, and only itself an approval.
LEMMA DecisionsStand ==
  ASSUME NEW from \in {"COMPLETE", "CANCELLED"}, NEW asks \in Decisions, MayBecome(from, asks)
  PROVE  from = "COMPLETE" /\ Outcome(asks) = "COMPLETE"
<1>1. VALID_TRANSITIONS["COMPLETE"] = {} /\ VALID_TRANSITIONS["CANCELLED"] = {}
  BY DEF VALID_TRANSITIONS
<1>2. ~CanTransition(ApprovalInfo, from, Outcome(asks), "HUMAN")
  <2>1. CASE from = "CANCELLED"
    BY <2>1 DEF CanTransition, GuardTerminalCancelled
  <2>2. CASE from = "COMPLETE"
    <3>1. ~ApprovalInfo.lowConf
      BY DEF ApprovalInfo
    <3> QED
      BY <2>2, <3>1, <1>1 DEF CanTransition, InTransitionTable, GuardTerminalComplete
  <2> QED
    BY <2>1, <2>2
<1> QED
  BY <1>2 DEF MayBecome, Outcome

LEMMA GateNextInv == Polls \in Nat /\ GateInv /\ [GateNext]_gateVars => GateInv'
<1> SUFFICES ASSUME Polls \in Nat, GateInv, [GateNext]_gateVars PROVE GateInv'
  OBVIOUS
<1> USE DEF GateInv
<1>1. CASE RequestApproval
  <2>1. GateTypeOK'
    BY <1>1 DEF RequestApproval, Now, GateTypeOK, Wait, TaskState
  <2>2. waiting.pc = "ask" /\ waiting'.pc \in {"poll", "failed"}
    BY <1>1 DEF RequestApproval, Now, GateTypeOK, Wait
  <2>3. UNCHANGED <<answer, overdue, crossed>> /\ approval = "none"
    BY <1>1 DEF RequestApproval, AskedFirst
  <2> QED
    BY <2>1, <2>2, <2>3 DEF DecisionIsFresh, AskedFirst, CalledAsApproved
<1>2. CASE Poll
  <2>1. GateTypeOK'
    <3>1. approval \in {"none"} \cup TaskState /\ waiting \in Wait
      BY DEF GateTypeOK
    <3>2. waiting' \in Wait
      BY <1>2, <3>1 DEF Poll, Now, Verdict, Wait
    <3> QED
      BY <1>2, <3>2 DEF Poll, GateTypeOK
  <2>2. /\ waiting'.pc \in {"run", "denied", "poll", "timeout", "failed"}
        /\ waiting'.pc = "run" => approval = "COMPLETE"
        /\ waiting'.pc = "denied" => waiting'.saw = approval /\ approval \in {"CANCELLED", "BLOCKED"}
    BY <1>2 DEF Poll, Now, Verdict, GateTypeOK, Wait
  <2>3. UNCHANGED <<approval, answer, overdue, crossed>>
    BY <1>2 DEF Poll
  <2> QED
    BY <2>1, <2>2, <2>3 DEF DecisionIsFresh, AskedFirst, CalledAsApproved
<1>3. CASE ExecuteTool
  <2>1. GateTypeOK'
    BY <1>3 DEF ExecuteTool, Now, GateTypeOK, Wait
  <2>2. /\ waiting.pc = "run" /\ waiting'.pc = "ran"
        /\ UNCHANGED <<approval, answer, overdue, crossed>>
    BY <1>3 DEF ExecuteTool, Now, GateTypeOK, Wait
  <2> QED
    BY <2>1, <2>2 DEF DecisionIsFresh, AskedFirst, CalledAsApproved
<1>4. CASE Stop
  <2>1. /\ answer' \in [Answers -> Answer]
        /\ \A a \in Answers : answer'[a].pc # "read"
    BY <1>4, UnreadIsAnswer DEF Stop, GateTypeOK
  <2>2. waiting' \in Wait /\ waiting'.pc = "failed"
    BY <1>4 DEF Stop, Now, GateTypeOK, Wait
  <2>3. overdue' = "idle" /\ UNCHANGED <<approval, crossed>>
    BY <1>4 DEF Stop
  <2> QED
    BY <2>1, <2>2, <2>3 DEF GateTypeOK, DecisionIsFresh, AskedFirst, CalledAsApproved
<1>5. ASSUME NEW a \in Answers, ReadTask(a) PROVE GateInv'
  <2>1. /\ approval # "none" /\ UNCHANGED <<approval, waiting, overdue>>
        /\ approval \in TaskState /\ answer \in [Answers -> Answer]
    BY <1>5 DEF ReadTask, GateTypeOK
  <2>2. PICK asks \in Decisions :
          \/ /\ answer' = [answer EXCEPT ![a] = [pc |-> "read", asks |-> asks, from |-> approval]]
             /\ crossed' = (crossed \/ Deciding # {})
          \/ answer' = [answer EXCEPT ![a] = Answered] /\ UNCHANGED crossed
    BY <1>5 DEF ReadTask
  <2>3. CASE answer' = [answer EXCEPT ![a] = Answered] /\ UNCHANGED crossed
    <3>1. /\ answer' \in [Answers -> Answer] /\ answer'[a].pc = "done"
          /\ \A b \in Answers : b # a => answer'[b] = answer[b]
      BY <2>1, <2>3, UnreadIsAnswer
    <3> QED
      BY <2>1, <2>3, <3>1 DEF GateTypeOK, DecisionIsFresh, AskedFirst, CalledAsApproved
  <2>4. CASE /\ answer' = [answer EXCEPT ![a] = [pc |-> "read", asks |-> asks, from |-> approval]]
             /\ crossed' = (crossed \/ Deciding # {})
    <3>1. [pc |-> "read", asks |-> asks, from |-> approval] \in Answer
      BY <2>1 DEF Answer
    <3>2. /\ answer' \in [Answers -> Answer]
          /\ answer'[a].pc = "read" /\ answer'[a].from = approval
          /\ \A b \in Answers : b # a => answer'[b] = answer[b]
      BY <2>1, <2>4, <3>1
    <3>3. ~crossed' => /\ ~crossed /\ overdue = "idle"
                       /\ \A b \in Answers : answer[b].pc # "read"
      BY <2>1, <2>4 DEF Deciding
    <3>4. GateTypeOK'
      BY <2>1, <2>4, <3>2 DEF GateTypeOK
    <3> QED
      BY <2>1, <3>2, <3>3, <3>4 DEF DecisionIsFresh, AskedFirst, CalledAsApproved
  <2> QED
    BY <2>2, <2>3, <2>4
<1>6. ASSUME NEW a \in Answers, WriteTask(a) PROVE GateInv'
  <2>1. /\ answer[a].pc = "read" /\ UNCHANGED <<waiting, overdue, crossed>>
        /\ answer' = [answer EXCEPT ![a] = Answered]
        /\ \/ /\ MayBecome(answer[a].from, answer[a].asks)
              /\ approval' = Outcome(answer[a].asks)
           \/ UNCHANGED approval
    BY <1>6 DEF WriteTask
  <2>2. /\ answer' \in [Answers -> Answer] /\ answer[a] \in Answer
        /\ answer'[a].pc = "done" /\ \A b \in Answers : b # a => answer'[b] = answer[b]
    BY <2>1, UnreadIsAnswer DEF GateTypeOK
  <2>3. answer[a].asks \in Decisions /\ Outcome(answer[a].asks) \in TaskState
    BY <2>2 DEF Answer, Outcome, Decisions, TaskState
  <2>4. approval # "none" /\ approval' \in TaskState
    BY <2>1, <2>3 DEF GateTypeOK, AskedFirst
  <2>5. ~crossed => /\ answer[a].from = approval /\ overdue = "idle"
                    /\ \A b \in Answers : answer'[b].pc # "read"
    BY <2>1, <2>2 DEF DecisionIsFresh
  <2>6. ~crossed /\ approval \in {"COMPLETE", "CANCELLED"} => approval' = approval
    BY <2>1, <2>3, <2>5, DecisionsStand
  <2>7. GateTypeOK'
    BY <2>1, <2>2, <2>4 DEF GateTypeOK
  <2>8. DecisionIsFresh'
    BY <2>1, <2>5 DEF DecisionIsFresh
  <2>9. AskedFirst'
    BY <2>1, <2>2, <2>4 DEF AskedFirst, TaskState
  <2>10. CalledAsApproved'
    BY <2>1, <2>6 DEF CalledAsApproved
  <2> QED
    BY <2>7, <2>8, <2>9, <2>10
<1>7. CASE FindOverdue
  <2>1. /\ approval \in {"PENDING", "IN_PROGRESS"} /\ overdue' = "found"
        /\ UNCHANGED <<approval, waiting, answer>>
        /\ crossed' = (crossed \/ Deciding # {})
    BY <1>7 DEF FindOverdue
  <2>2. ~crossed' => ~crossed /\ \A b \in Answers : answer[b].pc # "read"
    BY <2>1 DEF Deciding
  <2>3. GateTypeOK'
    BY <2>1 DEF GateTypeOK
  <2> QED
    BY <2>1, <2>2, <2>3 DEF DecisionIsFresh, AskedFirst, CalledAsApproved
<1>8. CASE EscalateCancel
  <2>1. /\ overdue = "found" /\ (approval' = "CANCELLED" \/ UNCHANGED approval)
        /\ overdue' = "idle" /\ UNCHANGED <<waiting, answer, crossed>>
    BY <1>8 DEF EscalateCancel
  <2>2. ~crossed => /\ approval \in {"PENDING", "IN_PROGRESS"}
                    /\ \A b \in Answers : answer[b].pc # "read"
    BY <2>1 DEF DecisionIsFresh
  <2>3. approval # "none" /\ approval' \in TaskState
    BY <2>1 DEF GateTypeOK, AskedFirst, TaskState
  <2>4. GateTypeOK'
    BY <2>1, <2>3 DEF GateTypeOK
  <2>5. DecisionIsFresh' /\ AskedFirst'
    BY <2>1, <2>2, <2>3 DEF DecisionIsFresh, AskedFirst
  <2>6. CalledAsApproved'
    BY <2>1, <2>2 DEF CalledAsApproved
  <2> QED
    BY <2>4, <2>5, <2>6
<1>9. CASE UNCHANGED gateVars
  BY <1>9 DEF gateVars, GateTypeOK, DecisionIsFresh, AskedFirst, CalledAsApproved
<1> QED
  BY <1>1, <1>2, <1>3, <1>4, <1>5, <1>6, <1>7, <1>8, <1>9 DEF GateNext

\* A gated tool is called only with an approval that stands, and a call that is refused because
\* its task was cancelled stays refused (mcp/client.py call_tool, api/approvals.py,
\* api/state.py), however many people answer or move the task, however long the call waits and
\* whatever fails, when no two decisions overlap.
THEOREM CalledAsApprovedHolds ==
  ASSUME Polls \in Nat
  PROVE  GateSpec => [](GateTypeOK /\ CalledAsApproved)
<1>1. GateInit => GateInv
  BY GateInitInv
<1>2. GateInv /\ [GateNext]_gateVars => GateInv'
  BY GateNextInv
<1>3. GateInv => GateTypeOK /\ CalledAsApproved
  BY DEF GateInv
<1> QED
  BY <1>1, <1>2, <1>3, PTL DEF GateSpec

-----------------------------------------------------------------------------
(***************************************************************************)
(* The sign-in.                                                             *)
(***************************************************************************)

Listed(s, step) == \E i \in DOMAIN signIn[s].undo : signIn[s].undo[i] = step

Bare == {"begin", "subject", "email", "user", "existing", "failed"}

\* What a sign-in has made at each step, and that it can be undone.
Made(s) ==
  /\ signIn[s].pc \in Bare => s \notin users \cup markers \cup workspaces
  /\ signIn[s].pc \in {"marker", "workspace", "edge", "profile", "new"} => s \in users
  /\ signIn[s].pc \in {"workspace", "edge", "profile", "new"} => s \in markers
  /\ signIn[s].pc \in {"edge", "profile", "new"} => s \in workspaces
  /\ signIn[s].pc \in {"profile", "new"} <=> s \in owns
  /\ signIn[s].pc # "new" => s \notin profiles
  /\ signIn[s].pc \in {"marker", "workspace", "edge", "undo"} =>
       /\ s \in users => Listed(s, "user")
       /\ s \in markers => Listed(s, "marker")
       /\ s \in workspaces => Listed(s, "workspace")

HalfDone == {"undo", "failed", "gone"}

WholeInv ==
  \A s \in SignIns : /\ s \notin halved => Made(s)
                     /\ s \in halved => signIn[s].pc \in HalfDone
                     /\ signIn[s].pc = "gone" => s \in halved

\* The sets of what is in the store.
Stored(t) == <<t \in users, t \in markers, t \in workspaces, t \in owns, t \in profiles>>

ProvAssumption == MaxUpsets \in Nat

-----------------------------------------------------------------------------
LEMMA UndoGrows ==
  ASSUME NEW q \in Seq(Undoable), NEW x \in Undoable
  PROVE  /\ Append(q, x) \in Seq(Undoable)
         /\ \E i \in DOMAIN Append(q, x) : Append(q, x)[i] = x
         /\ \A y : (\E i \in DOMAIN q : q[i] = y) =>
                   \E i \in DOMAIN Append(q, x) : Append(q, x)[i] = y
<1> DEFINE n == Len(q)
<1>1. /\ n \in Nat /\ DOMAIN q = 1..n
      /\ Append(q, x) \in Seq(Undoable)
      /\ DOMAIN Append(q, x) = 1..(n + 1)
      /\ Append(q, x)[n + 1] = x
      /\ \A i \in 1..n : Append(q, x)[i] = q[i]
  OBVIOUS
<1> HIDE DEF n
<1>2. n + 1 \in 1..(n + 1) /\ \A i \in 1..n : i \in 1..(n + 1)
  BY <1>1
<1> QED
  BY <1>1, <1>2, Zenon

\* Without its last step a rollback lists the steps that are left.
LEMMA UndoShrinks ==
  ASSUME NEW q \in Seq(Undoable), q # <<>>
  PROVE  /\ SubSeq(q, 1, Len(q) - 1) \in Seq(Undoable)
         /\ q[Len(q)] \in Undoable
         /\ \A y : (\E i \in DOMAIN q : q[i] = y) /\ y # q[Len(q)] =>
              \E i \in DOMAIN SubSeq(q, 1, Len(q) - 1) : SubSeq(q, 1, Len(q) - 1)[i] = y
<1> DEFINE n == Len(q)
           r == SubSeq(q, 1, n - 1)
<1>1. n \in Nat /\ n >= 1 /\ DOMAIN q = 1..n /\ \A i \in 1..n : q[i] \in Undoable
  OBVIOUS
<1>2. r \in Seq(Undoable) /\ DOMAIN r = 1..(n - 1) /\ \A i \in 1..(n - 1) : r[i] = q[i]
  BY <1>1
<1> HIDE DEF n, r
<1>3. n \in 1..n /\ \A i \in 1..n : i = n \/ i \in 1..(n - 1)
  BY <1>1
<1>4. ASSUME NEW y, NEW i \in DOMAIN q, q[i] = y, y # q[n] PROVE \E k \in DOMAIN r : r[k] = y
  <2>1. i \in 1..(n - 1)
    BY <1>1, <1>3, <1>4
  <2> QED
    BY <1>2, <1>4, <2>1
<1>5. q[n] \in Undoable
  BY <1>1, <1>3
<1> QED
  BY <1>2, <1>4, <1>5, Zenon DEF n, r

\* A sign-in keeps what it has made when another one moves.
LEMMA OthersKeep ==
  ASSUME NEW t \in SignIns, Made(t), signIn'[t] = signIn[t], Stored(t)' = Stored(t)
  PROVE  Made(t)'
<1>1. /\ t \in users' <=> t \in users
      /\ t \in markers' <=> t \in markers
      /\ t \in workspaces' <=> t \in workspaces
      /\ t \in owns' <=> t \in owns
      /\ t \in profiles' <=> t \in profiles
  BY DEF Stored
<1> QED
  BY <1>1 DEF Made, Listed

-----------------------------------------------------------------------------
\* One sign-in moves: only its own entry and what it has made change.
Moves(s) ==
  /\ \A t \in SignIns : t # s => signIn'[t] = signIn[t] /\ Stored(t)' = Stored(t)
  /\ halved \subseteq halved' /\ halved' \subseteq halved \cup {s}

LEMMA OneMoves ==
  ASSUME NEW s \in SignIns, WholeInv, Moves(s),
         s \notin halved' => Made(s)', s \in halved' => signIn'[s].pc \in HalfDone,
         signIn'[s].pc = "gone" => s \in halved'
  PROVE  WholeInv'
<1> SUFFICES ASSUME NEW t \in SignIns
             PROVE  /\ t \notin halved' => Made(t)'
                    /\ t \in halved' => signIn'[t].pc \in HalfDone
                    /\ signIn'[t].pc = "gone" => t \in halved'
  BY DEF WholeInv, HalfDone
<1>1. CASE t = s
  BY <1>1
<1>2. CASE t # s
  <2>1. /\ signIn'[t] = signIn[t] /\ Stored(t)' = Stored(t) /\ (t \in halved' <=> t \in halved)
    BY <1>2 DEF Moves
  <2>2. /\ t \notin halved => Made(t)
        /\ t \in halved => signIn[t].pc \in HalfDone
        /\ signIn[t].pc = "gone" => t \in halved
    BY DEF WholeInv
  <2>3. t \notin halved => Made(t)'
    BY <2>1, <2>2, OthersKeep
  <2> QED
    BY <2>1, <2>2, <2>3
<1> QED
  BY <1>1, <1>2

LEMMA ProvInitInv == ProvAssumption /\ ProvInit => ProvTypeOK /\ WholeInv
<1> SUFFICES ASSUME ProvAssumption, ProvInit PROVE ProvTypeOK /\ WholeInv
  OBVIOUS
<1>1. \A s \in SignIns : signIn[s] = [pc |-> "begin", found |-> Nobody, undo |-> <<>>]
  BY DEF ProvInit
<1>2. signIn \in [SignIns -> SignIn]
  <2>1. [pc |-> "begin", found |-> Nobody, undo |-> <<>>] \in SignIn
    BY DEF SignIn
  <2> QED
    BY <2>1 DEF ProvInit
<1>3. WholeInv
  BY <1>1 DEF ProvInit, WholeInv, Made
<1> QED
  BY <1>2, <1>3 DEF ProvInit, ProvTypeOK, ProvAssumption

\* Every action but Shutdown moves one sign-in and keeps the types.
LEMMA BeginKeeps ==
  ASSUME NEW s \in SignIns, ProvTypeOK, WholeInv, BeginSignIn(s)
  PROVE  ProvTypeOK' /\ WholeInv'
<1>1. /\ signIn[s].pc = "begin" /\ signIn' = [signIn EXCEPT ![s].pc = "subject"]
      /\ UNCHANGED <<stock, upsets, halved>> /\ met' \subseteq met \cup Running \cup {s}
  BY DEF BeginSignIn, Stands
<1>2. signIn'[s].pc = "subject" /\ signIn' \in [SignIns -> SignIn]
  BY <1>1 DEF ProvTypeOK, SignIn
<1>3. ProvTypeOK'
  BY <1>1, <1>2 DEF ProvTypeOK, stock, Running
<1>4. s \notin halved /\ Made(s)
  BY <1>1 DEF WholeInv, HalfDone
<1>5. Made(s)'
  BY <1>1, <1>2, <1>4 DEF Made, Bare, stock
<1>6. Moves(s)
  BY <1>1 DEF Moves, Stored, stock, ProvTypeOK
<1> QED
  BY <1>1, <1>2, <1>3, <1>4, <1>5, <1>6, OneMoves

LEMMA FindKeeps ==
  ASSUME NEW s \in SignIns, ProvTypeOK, WholeInv, NEW matching \in SUBSET SignIns,
         NEW otherwise \in {"email", "user"}, ProvAssumption,
         signIn[s].pc \in {"subject", "email"}, Find(s, matching, otherwise)
  PROVE  ProvTypeOK' /\ WholeInv'
<1>1. UNCHANGED <<stock, met, halved>>
  BY DEF Find
<1>2. /\ signIn'[s].pc \in Bare /\ signIn' \in [SignIns -> SignIn]
      /\ \A t \in SignIns : t # s => signIn'[t] = signIn[t]
  <2>1. signIn \in [SignIns -> SignIn] /\ signIn[s] \in SignIn
    BY DEF ProvTypeOK
  <2>2. ASSUME NEW u \in matching,
               signIn' = [signIn EXCEPT ![s].pc = "existing", ![s].found = u]
        PROVE  <1>2
    BY <2>1, <2>2 DEF SignIn, Bare, Ended
  <2>3. ASSUME signIn' = [signIn EXCEPT ![s].pc = otherwise] PROVE <1>2
    BY <2>1, <2>3 DEF SignIn, Bare, Steps
  <2>4. ASSUME signIn' = [signIn EXCEPT ![s].pc = "failed"] PROVE <1>2
    BY <2>1, <2>4 DEF SignIn, Bare, Ended
  <2> QED
    BY <2>2, <2>3, <2>4 DEF Find
<1>3. upsets' \in 0..MaxUpsets
  BY DEF Find, Upset, ProvTypeOK, ProvAssumption
<1>4. ProvTypeOK'
  BY <1>1, <1>2, <1>3 DEF ProvTypeOK, stock
<1>5. s \notin halved /\ Made(s)
  BY DEF WholeInv, HalfDone
<1>6. Made(s)'
  BY <1>1, <1>2, <1>5 DEF Made, Bare, stock
<1>7. Moves(s)
  BY <1>1, <1>2 DEF Moves, Stored, stock
<1> QED
  BY <1>1, <1>2, <1>4, <1>5, <1>6, <1>7, OneMoves DEF Bare

\* A step that can be undone is listed, with the ones before it.
LEMMA DidLists ==
  ASSUME NEW s \in SignIns, ProvTypeOK, NEW step \in Undoable,
         NEW next \in {"marker", "workspace", "edge"}, Did(s, step, next)
  PROVE  /\ signIn' \in [SignIns -> SignIn] /\ signIn'[s].pc = next
         /\ Listed(s, step)' /\ \A x : Listed(s, x) => Listed(s, x)'
         /\ \A t \in SignIns : t # s => signIn'[t] = signIn[t]
<1> DEFINE q == signIn[s].undo
           r == Append(q, step)
<1>1. signIn \in [SignIns -> SignIn] /\ q \in Seq(Undoable)
  BY DEF ProvTypeOK, SignIn
<1>2. /\ r \in Seq(Undoable) /\ (\E i \in DOMAIN r : r[i] = step)
      /\ \A y : (\E i \in DOMAIN q : q[i] = y) => \E i \in DOMAIN r : r[i] = y
  BY <1>1, UndoGrows
<1>3. signIn' = [signIn EXCEPT ![s] = [signIn[s] EXCEPT !.pc = next, !.undo = r]]
  BY <1>1 DEF Did, SignIn
<1> HIDE DEF r
<1>4. /\ signIn' \in [SignIns -> SignIn] /\ signIn'[s].pc = next /\ signIn'[s].undo = r
      /\ \A t \in SignIns : t # s => signIn'[t] = signIn[t]
  <2> DEFINE c == [signIn[s] EXCEPT !.pc = next, !.undo = r]
  <2>1. signIn[s] \in SignIn
    BY <1>1
  <2>2. c \in SignIn /\ c.pc = next /\ c.undo = r
    BY <1>2, <2>1 DEF SignIn, Steps
  <2>3. signIn' = [signIn EXCEPT ![s] = c]
    BY <1>3
  <2> HIDE DEF c
  <2> QED
    BY <1>1, <2>2, <2>3
<1> QED
  BY <1>2, <1>4 DEF Listed

LEMMA CreateKeeps ==
  ASSUME NEW s \in SignIns, ProvTypeOK, WholeInv, Create(s)
  PROVE  ProvTypeOK' /\ WholeInv'
<1>1. /\ signIn[s].pc \in {"user", "marker", "workspace", "edge"} /\ UNCHANGED <<upsets, met, halved>>
  BY DEF Create, Stands
<1>2. s \notin halved /\ Made(s)
  BY <1>1 DEF WholeInv, HalfDone
<1>3. CASE Stands(s, "user")
  <2>1. /\ users' = users \cup {s} /\ Did(s, "user", "marker")
        /\ UNCHANGED <<markers, workspaces, owns, profiles>>
    BY <1>3 DEF Create, Stands
  <2>2. /\ signIn' \in [SignIns -> SignIn] /\ signIn'[s].pc = "marker" /\ Listed(s, "user")'
        /\ \A t \in SignIns : t # s => signIn'[t] = signIn[t]
    BY <2>1, DidLists DEF Undoable
  <2>3. ProvTypeOK'
    BY <1>1, <2>1, <2>2 DEF ProvTypeOK
  <2>4. Made(s)'
    BY <1>2, <1>3, <2>1, <2>2 DEF Made, Bare, Stands
  <2>5. Moves(s)
    BY <1>1, <2>1, <2>2 DEF Moves, Stored
  <2> QED
    BY <1>1, <1>2, <2>2, <2>3, <2>4, <2>5, OneMoves
<1>4. CASE Stands(s, "marker")
  <2>1. /\ markers' = markers \cup {s} /\ Did(s, "marker", "workspace")
        /\ UNCHANGED <<users, workspaces, owns, profiles>>
    BY <1>4 DEF Create, Stands
  <2>2. /\ signIn' \in [SignIns -> SignIn] /\ signIn'[s].pc = "workspace"
        /\ Listed(s, "marker")' /\ (Listed(s, "user") => Listed(s, "user")')
        /\ \A t \in SignIns : t # s => signIn'[t] = signIn[t]
    BY <2>1, DidLists DEF Undoable
  <2>3. ProvTypeOK'
    BY <1>1, <2>1, <2>2 DEF ProvTypeOK
  <2>4. Made(s)'
    <3>1. s \in users /\ Listed(s, "user") /\ (s \in workspaces => Listed(s, "workspace"))
      BY <1>2, <1>4 DEF Made, Stands
    <3>2. Listed(s, "workspace") => Listed(s, "workspace")'
      BY <2>1, DidLists DEF Undoable
    <3> QED
      BY <1>2, <1>4, <2>1, <2>2, <3>1, <3>2 DEF Made, Bare, Stands
  <2>5. Moves(s)
    BY <1>1, <2>1, <2>2 DEF Moves, Stored
  <2> QED
    BY <1>1, <1>2, <2>2, <2>3, <2>4, <2>5, OneMoves
<1>5. CASE Stands(s, "workspace")
  <2>1. /\ workspaces' = workspaces \cup {s} /\ Did(s, "workspace", "edge")
        /\ UNCHANGED <<users, markers, owns, profiles>>
    BY <1>5 DEF Create, Stands
  <2>2. /\ signIn' \in [SignIns -> SignIn] /\ signIn'[s].pc = "edge" /\ Listed(s, "workspace")'
        /\ (Listed(s, "user") => Listed(s, "user")')
        /\ (Listed(s, "marker") => Listed(s, "marker")')
        /\ \A t \in SignIns : t # s => signIn'[t] = signIn[t]
    BY <2>1, DidLists DEF Undoable
  <2>3. ProvTypeOK'
    BY <1>1, <2>1, <2>2 DEF ProvTypeOK
  <2>4. Made(s)'
    BY <1>2, <1>5, <2>1, <2>2 DEF Made, Bare, Stands
  <2>5. Moves(s)
    BY <1>1, <2>1, <2>2 DEF Moves, Stored
  <2> QED
    BY <1>1, <1>2, <2>2, <2>3, <2>4, <2>5, OneMoves
<1>6. CASE Stands(s, "edge")
  <2>1. /\ owns' = owns \cup {s} /\ signIn' = [signIn EXCEPT ![s].pc = "profile"]
        /\ UNCHANGED <<users, markers, workspaces, profiles>>
    BY <1>6 DEF Create, Stands
  <2>2. /\ signIn' \in [SignIns -> SignIn] /\ signIn'[s].pc = "profile"
        /\ \A t \in SignIns : t # s => signIn'[t] = signIn[t]
    BY <2>1 DEF ProvTypeOK, SignIn, Steps
  <2>3. ProvTypeOK'
    BY <1>1, <2>1, <2>2 DEF ProvTypeOK
  <2>4. Made(s)'
    BY <1>2, <1>6, <2>1, <2>2 DEF Made, Bare, Stands
  <2>5. Moves(s)
    BY <1>1, <2>1, <2>2 DEF Moves, Stored
  <2> QED
    BY <1>1, <1>2, <2>2, <2>3, <2>4, <2>5, OneMoves
<1> QED
  BY <1>1, <1>3, <1>4, <1>5, <1>6 DEF Stands

LEMMA FailKeeps ==
  ASSUME NEW s \in SignIns, ProvTypeOK, WholeInv, ProvAssumption, FailStep(s)
  PROVE  ProvTypeOK' /\ WholeInv'
<1>1. /\ signIn[s].pc \in {"user", "marker", "workspace", "edge"}
      /\ signIn' = [signIn EXCEPT ![s].pc = "undo"] /\ UNCHANGED <<stock, met, halved>>
  BY DEF FailStep
<1>2. upsets' \in 0..MaxUpsets
  BY DEF FailStep, Upset, ProvTypeOK, ProvAssumption
<1>3. /\ signIn' \in [SignIns -> SignIn] /\ signIn'[s].pc = "undo"
      /\ signIn'[s].undo = signIn[s].undo
      /\ \A t \in SignIns : t # s => signIn'[t] = signIn[t]
  BY <1>1 DEF ProvTypeOK, SignIn
<1>4. ProvTypeOK'
  BY <1>1, <1>2, <1>3 DEF ProvTypeOK, stock
<1>5. s \notin halved /\ Made(s)
  BY <1>1 DEF WholeInv, HalfDone
<1>6. Made(s)'
  BY <1>1, <1>3, <1>5 DEF Made, Bare, stock, Listed
<1>7. Moves(s)
  BY <1>1, <1>3 DEF Moves, Stored, stock
<1> QED
  BY <1>1, <1>3, <1>4, <1>5, <1>6, <1>7, OneMoves

LEMMA SeedKeeps ==
  ASSUME NEW s \in SignIns, ProvTypeOK, WholeInv, ProvAssumption, SeedProfile(s)
  PROVE  ProvTypeOK' /\ WholeInv'
<1>1. /\ signIn[s].pc = "profile"
      /\ signIn' = [signIn EXCEPT ![s].pc = "new", ![s].undo = <<>>]
      /\ UNCHANGED <<users, markers, workspaces, owns, met, halved>>
      /\ profiles' \in {profiles, profiles \cup {s}}
  BY DEF SeedProfile, Stands
<1>2. upsets' \in 0..MaxUpsets
  BY DEF SeedProfile, Upset, ProvTypeOK, ProvAssumption
<1>3. /\ signIn' \in [SignIns -> SignIn] /\ signIn'[s].pc = "new"
      /\ \A t \in SignIns : t # s => signIn'[t] = signIn[t]
  <2>1. signIn \in [SignIns -> SignIn] /\ signIn[s] \in SignIn
    BY DEF ProvTypeOK
  <2>2. <<>> \in Seq(Undoable)
    OBVIOUS
  <2>3. [signIn[s] EXCEPT !.pc = "new", !.undo = <<>>] \in SignIn
    BY <2>1, <2>2 DEF SignIn, Ended
  <2>4. signIn' = [signIn EXCEPT ![s] = [signIn[s] EXCEPT !.pc = "new", !.undo = <<>>]]
    BY <1>1, <2>1 DEF SignIn
  <2>5. [signIn[s] EXCEPT !.pc = "new", !.undo = <<>>].pc = "new"
    BY <2>1 DEF SignIn
  <2> QED
    BY <2>1, <2>3, <2>4, <2>5
<1>4. ProvTypeOK'
  BY <1>1, <1>2, <1>3 DEF ProvTypeOK
<1>5. s \notin halved /\ Made(s)
  BY <1>1 DEF WholeInv, HalfDone
<1>6. Made(s)'
  BY <1>1, <1>3, <1>5 DEF Made, Bare
<1>7. Moves(s)
  BY <1>1, <1>3 DEF Moves, Stored
<1> QED
  BY <1>1, <1>3, <1>4, <1>5, <1>6, <1>7, OneMoves

LEMMA RollbackKeeps ==
  ASSUME NEW s \in SignIns, ProvTypeOK, WholeInv, ProvAssumption, RunRollback(s)
  PROVE  ProvTypeOK' /\ WholeInv'
<1> DEFINE q == signIn[s].undo
           n == Len(q)
           step == q[n]
           r == SubSeq(q, 1, n - 1)
<1>1. /\ signIn[s].pc = "undo" /\ q # <<>> /\ UNCHANGED met
      /\ signIn' = [signIn EXCEPT ![s].undo = r]
      /\ \/ Undone(s, step) /\ UNCHANGED <<upsets, halved>>
         \/ Upset("undo") /\ halved' = halved \cup {s} /\ UNCHANGED stock
  BY DEF RunRollback, Stands
<1>2. signIn \in [SignIns -> SignIn] /\ signIn[s] \in SignIn /\ q \in Seq(Undoable)
  BY DEF ProvTypeOK, SignIn
<1>3. /\ r \in Seq(Undoable) /\ step \in Undoable
      /\ \A y : (\E i \in DOMAIN q : q[i] = y) /\ y # step => \E i \in DOMAIN r : r[i] = y
  BY <1>1, <1>2, UndoShrinks
<1> HIDE DEF r, step, n, q
<1>4. /\ signIn' \in [SignIns -> SignIn] /\ signIn'[s].pc = "undo" /\ signIn'[s].undo = r
      /\ \A t \in SignIns : t # s => signIn'[t] = signIn[t]
  BY <1>1, <1>2, <1>3 DEF SignIn
<1>5. CASE Undone(s, step) /\ UNCHANGED <<upsets, halved>>
  <2>1. ProvTypeOK'
    BY <1>1, <1>4, <1>5 DEF ProvTypeOK, Undone
  <2>2. Moves(s)
    BY <1>4, <1>5 DEF Moves, Stored, Undone
  <2>3. ASSUME s \notin halved' PROVE Made(s)'
    <3>1. Made(s)
      BY <1>5, <2>3 DEF WholeInv
    <3>2. \A y : Listed(s, y) /\ y # step => Listed(s, y)'
      BY <1>3, <1>4 DEF Listed, q
    <3>3. s \notin owns /\ s \notin owns' /\ s \notin profiles'
      BY <1>1, <1>5, <3>1 DEF Made, Undone
    <3>4. /\ s \in users' => s \in users /\ step # "user"
          /\ s \in markers' => s \in markers /\ step # "marker"
          /\ s \in workspaces' => s \in workspaces /\ step # "workspace"
      BY <1>5 DEF Undone
    <3>5. /\ s \in users' => Listed(s, "user")'
          /\ s \in markers' => Listed(s, "marker")'
          /\ s \in workspaces' => Listed(s, "workspace")'
      BY <1>1, <3>1, <3>2, <3>4 DEF Made
    <3> QED
      BY <1>4, <3>3, <3>5 DEF Made, Bare
  <2> QED
    BY <1>4, <2>1, <2>2, <2>3, OneMoves DEF HalfDone
<1>6. CASE Upset("undo") /\ halved' = halved \cup {s} /\ UNCHANGED stock
  <2>1. upsets' \in 0..MaxUpsets
    BY <1>6 DEF Upset, ProvTypeOK, ProvAssumption
  <2>2. ProvTypeOK'
    BY <1>1, <1>4, <1>6, <2>1 DEF ProvTypeOK, stock
  <2>3. Moves(s)
    BY <1>4, <1>6 DEF Moves, Stored, stock
  <2> QED
    BY <1>4, <1>6, <2>2, <2>3, OneMoves DEF HalfDone
<1> QED
  BY <1>1, <1>5, <1>6

LEMMA EndKeeps ==
  ASSUME NEW s \in SignIns, ProvTypeOK, WholeInv, EndRollback(s)
  PROVE  ProvTypeOK' /\ WholeInv'
<1>1. /\ signIn[s].pc = "undo" /\ signIn[s].undo = <<>>
      /\ signIn' = [signIn EXCEPT ![s].pc = "failed"]
      /\ UNCHANGED <<stock, upsets, met, halved>>
  BY DEF EndRollback, Stands
<1>2. /\ signIn' \in [SignIns -> SignIn] /\ signIn'[s].pc = "failed"
      /\ \A t \in SignIns : t # s => signIn'[t] = signIn[t]
  BY <1>1 DEF ProvTypeOK, SignIn, Ended
<1>3. ProvTypeOK'
  BY <1>1, <1>2 DEF ProvTypeOK, stock
<1>4. ASSUME s \notin halved' PROVE Made(s)'
  <2>1. Made(s)
    BY <1>1, <1>4 DEF WholeInv, stock
  <2>2. \A x : ~Listed(s, x)
    BY <1>1 DEF Listed
  <2> QED
    BY <1>1, <1>2, <2>1, <2>2 DEF Made, Bare, stock
<1>5. Moves(s)
  BY <1>1, <1>2 DEF Moves, Stored, stock
<1> QED
  BY <1>2, <1>3, <1>4, <1>5, OneMoves DEF HalfDone

LEMMA CrashKeeps ==
  ASSUME ProvTypeOK, WholeInv, ProvAssumption, Shutdown
  PROVE  ProvTypeOK' /\ WholeInv'
<1> DEFINE gone == [pc |-> "gone", found |-> Nobody, undo |-> <<>>]
<1>1. /\ halved' = halved \cup Running /\ UNCHANGED <<stock, met>>
      /\ signIn' = [s \in SignIns |-> IF s \in Running THEN gone ELSE signIn[s]]
  BY DEF Shutdown
<1>2. upsets' \in 0..MaxUpsets
  BY DEF Shutdown, Upset, ProvTypeOK, ProvAssumption
<1>3. gone \in SignIn /\ gone.pc = "gone"
  BY DEF SignIn, Ended
<1> HIDE DEF gone
<1>4. signIn' \in [SignIns -> SignIn]
  BY <1>1, <1>3 DEF ProvTypeOK
<1>5. ProvTypeOK'
  BY <1>1, <1>2, <1>4 DEF ProvTypeOK, stock, Running
<1>6. ASSUME NEW s \in SignIns
      PROVE  /\ s \notin halved' => Made(s)'
             /\ s \in halved' => signIn'[s].pc \in HalfDone
             /\ signIn'[s].pc = "gone" => s \in halved'
  <2>1. CASE s \in Running
    BY <1>1, <1>3, <2>1 DEF HalfDone
  <2>2. CASE s \notin Running
    <3>1. signIn'[s] = signIn[s] /\ (s \in halved' <=> s \in halved)
      BY <1>1, <2>2
    <3>2. Stored(s)' = Stored(s)
      BY <1>1 DEF Stored, stock
    <3>3. /\ s \notin halved => Made(s)
          /\ s \in halved => signIn[s].pc \in HalfDone
          /\ signIn[s].pc = "gone" => s \in halved
      BY DEF WholeInv
    <3> QED
      BY <3>1, <3>2, <3>3, OthersKeep
  <2> QED
    BY <2>1, <2>2
<1> QED
  BY <1>5, <1>6 DEF WholeInv, HalfDone

LEMMA ProvNextInv ==
  ProvAssumption /\ ProvTypeOK /\ WholeInv /\ [ProvNext]_provVars => ProvTypeOK' /\ WholeInv'
<1> SUFFICES ASSUME ProvAssumption, ProvTypeOK, WholeInv, [ProvNext]_provVars
             PROVE  ProvTypeOK' /\ WholeInv'
  OBVIOUS
<1>1. ASSUME NEW s \in SignIns, FindBySubject(s) PROVE ProvTypeOK' /\ WholeInv'
  BY <1>1, FindKeeps DEF FindBySubject, Stands, ProvTypeOK
<1>2. ASSUME NEW s \in SignIns, FindByEmail(s) PROVE ProvTypeOK' /\ WholeInv'
  BY <1>2, FindKeeps DEF FindByEmail, Stands, ProvTypeOK
<1>3. CASE UNCHANGED provVars
  BY <1>3 DEF provVars, stock, ProvTypeOK, WholeInv, Made, Listed
<1> QED
  BY <1>1, <1>2, <1>3, BeginKeeps, CreateKeeps, FailKeeps, SeedKeeps, RollbackKeeps, EndKeeps,
     CrashKeeps DEF ProvNext

\* A sign-in that was answered has made the user, the storage marker, the workspace and the
\* edge, and one that was refused has left none of them nor a profile (provision_new_user and
\* _run_rollback in auth/provisioning.py), however many sign-ins overlap and whatever fails,
\* unless the process stopped in it or an undo failed.
THEOREM ProvisionedWholeHolds ==
  ASSUME ProvAssumption
  PROVE  ProvSpec => [](ProvTypeOK /\ ProvisionedWhole)
<1>1. WholeInv => ProvisionedWhole
  BY DEF WholeInv, ProvisionedWhole, Made, Bare, Stands
<1>2. ProvInit => ProvTypeOK /\ WholeInv
  BY ProvInitInv
<1>3. ProvTypeOK /\ WholeInv /\ [ProvNext]_provVars => ProvTypeOK' /\ WholeInv'
  BY ProvNextInv
<1> QED
  BY <1>1, <1>2, <1>3, PTL DEF ProvSpec

-----------------------------------------------------------------------------
\* A sign-in that meets no other runs alone; it creates a user only when there is none of
\* its account or address, and the user it was given is not one that may still be undone.
UniqueInv ==
  /\ \A s \in Running \ met : Running = {s}
  /\ \A s \in SignIns \ met :
       /\ signIn[s].pc = "existing" => signIn[s].found \in users \ Running
       /\ signIn[s].pc \in {"email", "user"} => \A u \in users : Subject[u] # Subject[s]
       /\ signIn[s].pc = "user" => \A u \in users : Email[u] # Email[s]
  /\ OneUserPerIdentity

\* A running sign-in goes on or ends; it may add its user only when none is like it.
LEMMA AloneKeeps ==
  ASSUME NEW s \in Running, ProvTypeOK, UniqueInv, Moves(s), met' = met,
         signIn'[s].pc \notin {"begin", "existing", "email", "user"},
         \/ users' \subseteq users
         \/ signIn[s].pc = "user" /\ users' = users \cup {s},
         users' \subseteq SignIns
  PROVE  UniqueInv'
<1>1. s \in SignIns /\ \A t \in SignIns : t # s => signIn'[t] = signIn[t]
  BY DEF Running, Moves
<1>2. Running' \subseteq Running
  BY <1>1 DEF Running
<1>3. \A t \in SignIns : t # s => (t \in users' <=> t \in users)
  BY DEF Moves, Stored
<1>4. \A t \in Running \ met : t = s /\ Running = {s}
  BY DEF UniqueInv
<1>5. \A t \in Running' \ met' : Running' = {t}
  BY <1>2, <1>4
<1>6. ASSUME NEW t \in SignIns \ met'
      PROVE  /\ signIn'[t].pc = "existing" => signIn'[t].found \in users' \ Running'
             /\ signIn'[t].pc \in {"email", "user"} => \A u \in users' : Subject[u] # Subject[t]
             /\ signIn'[t].pc = "user" => \A u \in users' : Email[u] # Email[t]
  <2>1. CASE t = s
    BY <2>1
  <2>2. CASE t # s
    <3>1. signIn'[t] = signIn[t]
      BY <1>1, <2>2
    <3>2. signIn[t].pc \notin {"email", "user"}
      <4>1. signIn[t].pc \in {"email", "user"} => t \in Running
        BY DEF Running, Ended
      <4> QED
        BY <1>4, <2>2, <4>1
    <3>3. ASSUME signIn[t].pc = "existing" PROVE signIn[t].found \in users' \ Running'
      <4>1. signIn[t].found \in users \ Running
        BY <3>3 DEF UniqueInv
      <4>2. signIn[t].found # s /\ signIn[t].found \in SignIns
        BY <4>1 DEF ProvTypeOK
      <4> QED
        BY <1>2, <1>3, <4>1, <4>2
    <3> QED
      BY <3>1, <3>2, <3>3
  <2> QED
    BY <2>1, <2>2
<1>7. OneUserPerIdentity'
  <2>1. \A t \in SignIns \ met' : signIn'[t].pc = "existing" => signIn'[t].found \in users'
    BY <1>6
  <2>2. ASSUME NEW u \in users' \ met', NEW v \in users' \ met', u # v
        PROVE  Subject[u] # Subject[v] /\ Email[u] # Email[v]
    <3>1. CASE u \in users /\ v \in users
      BY <2>2, <3>1 DEF UniqueInv, OneUserPerIdentity
    <3>2. CASE u \notin users \/ v \notin users
      <4>1. signIn[s].pc = "user" /\ users' = users \cup {s} /\ s \notin met
        BY <2>2, <3>2
      <4>2. \A w \in users : Subject[w] # Subject[s] /\ Email[w] # Email[s]
        BY <1>1, <4>1 DEF UniqueInv
      <4> QED
        BY <2>2, <3>2, <4>1, <4>2
    <3> QED
      BY <3>1, <3>2
  <2> QED
    BY <2>1, <2>2 DEF OneUserPerIdentity, Stands
<1> QED
  BY <1>5, <1>6, <1>7 DEF UniqueInv

\* A search that ends.
LEMMA FindUnique ==
  ASSUME NEW s \in Running, ProvTypeOK, WholeInv, UniqueInv, NEW matching \in SUBSET users,
         signIn[s].pc \in {"subject", "email"}, NEW otherwise, Find(s, matching, otherwise),
         \/ /\ signIn[s].pc = "subject" /\ otherwise = "email"
            /\ matching = {u \in users : Subject[u] = Subject[s]}
         \/ /\ signIn[s].pc = "email" /\ otherwise = "user"
            /\ matching = {u \in users : Email[u] = Email[s]}
  PROVE  UniqueInv'
<1>1. /\ s \in SignIns /\ users' = users /\ met' = met /\ users \subseteq SignIns
      /\ signIn \in [SignIns -> SignIn]
  BY DEF Running, Find, stock, ProvTypeOK
<1>2. /\ \A t \in SignIns : t # s => signIn'[t] = signIn[t]
      /\ \/ signIn'[s].pc = "existing" /\ signIn'[s].found \in matching
         \/ signIn'[s].pc = otherwise /\ matching = {}
         \/ signIn'[s].pc = "failed"
  <2>1. ASSUME NEW u \in matching,
               signIn' = [signIn EXCEPT ![s].pc = "existing", ![s].found = u]
        PROVE  <1>2
    BY <1>1, <2>1 DEF SignIn
  <2>2. ASSUME matching = {}, signIn' = [signIn EXCEPT ![s].pc = otherwise] PROVE <1>2
    BY <1>1, <2>2 DEF SignIn
  <2>3. ASSUME signIn' = [signIn EXCEPT ![s].pc = "failed"] PROVE <1>2
    BY <1>1, <2>3 DEF SignIn
  <2> QED
    BY <2>1, <2>2, <2>3 DEF Find
<1>3. Running' \subseteq Running /\ (signIn'[s].pc = "existing" => s \notin Running')
  BY <1>1, <1>2 DEF Running, Ended
<1>4. \A t \in Running \ met : t = s /\ Running = {s}
  BY DEF UniqueInv
<1>5. s \notin users
  BY <1>1 DEF WholeInv, Made, Bare, HalfDone
<1>6. \A t \in Running' \ met' : Running' = {t}
  BY <1>1, <1>3, <1>4
<1>7. ASSUME NEW t \in SignIns \ met', t # s
      PROVE  /\ signIn'[t].pc = "existing" => signIn'[t].found \in users' \ Running'
             /\ signIn'[t].pc \notin {"email", "user"}
  <2>1. signIn'[t] = signIn[t] /\ t \notin Running
    BY <1>1, <1>2, <1>4, <1>7
  <2>2. signIn[t].pc \notin {"email", "user"}
    BY <2>1 DEF Running, Ended
  <2>3. signIn[t].pc = "existing" => signIn[t].found \in users \ Running
    BY <1>1 DEF UniqueInv
  <2> QED
    BY <1>1, <1>3, <2>1, <2>2, <2>3
<1>8. ASSUME s \notin met'
      PROVE  /\ signIn'[s].pc = "existing" => signIn'[s].found \in users' \ Running'
             /\ signIn'[s].pc \in {"email", "user"} => \A u \in users' : Subject[u] # Subject[s]
             /\ signIn'[s].pc = "user" => \A u \in users' : Email[u] # Email[s]
  <2>1. Running = {s}
    BY <1>1, <1>4, <1>8
  <2>2. signIn'[s].pc = "existing" => signIn'[s].found \in users' \ Running'
    BY <1>1, <1>2, <1>3, <1>5, <2>1
  <2>3. signIn[s].pc = "email" => \A u \in users : Subject[u] # Subject[s]
    BY <1>1, <1>8 DEF UniqueInv
  <2> QED
    BY <1>1, <1>2, <2>2, <2>3
<1>9. OneUserPerIdentity'
  BY <1>1, <1>7, <1>8 DEF UniqueInv, OneUserPerIdentity, Stands
<1> QED
  BY <1>6, <1>7, <1>8, <1>9 DEF UniqueInv

LEMMA BeginUnique ==
  ASSUME NEW s \in SignIns, ProvTypeOK, WholeInv, UniqueInv, BeginSignIn(s)
  PROVE  UniqueInv'
<1>1. /\ signIn[s].pc = "begin" /\ signIn' = [signIn EXCEPT ![s].pc = "subject"]
      /\ users' = users /\ users \subseteq SignIns
      /\ met' = IF Running = {} THEN met ELSE met \cup Running \cup {s}
  BY DEF BeginSignIn, Stands, stock, ProvTypeOK
<1>2. signIn'[s].pc = "subject" /\ \A t \in SignIns : t # s => signIn'[t] = signIn[t]
  BY <1>1 DEF ProvTypeOK, SignIn
<1>3. Running' = Running \cup {s} /\ s \notin users
  <2>1. Running' = Running \cup {s}
    BY <1>2 DEF Running, Ended
  <2>2. s \notin users
    BY <1>1 DEF WholeInv, Made, Bare, HalfDone
  <2> QED
    BY <2>1, <2>2
<1>4. \A t \in Running' \ met' : Running' = {t}
  BY <1>1, <1>3
<1>5. ASSUME NEW t \in SignIns \ met'
      PROVE  /\ signIn'[t].pc = "existing" => signIn'[t].found \in users' \ Running'
             /\ signIn'[t].pc \notin {"email", "user"}
  <2>1. CASE t = s
    BY <1>2, <2>1
  <2>2. CASE t # s
    <3>1. signIn'[t] = signIn[t] /\ t \notin met
      BY <1>1, <1>2, <2>2
    <3>2. signIn[t].pc \in {"email", "user"} => t \in Running
      BY DEF Running, Ended
    <3>3. t \notin Running
      BY <1>1, <1>3, <1>4, <2>2
    <3>4. signIn[t].pc = "existing" => signIn[t].found \in users \ Running
      BY <3>1 DEF UniqueInv
    <3> QED
      BY <1>1, <1>3, <3>1, <3>2, <3>3, <3>4
  <2> QED
    BY <2>1, <2>2
<1>6. OneUserPerIdentity'
  BY <1>1, <1>5 DEF UniqueInv, OneUserPerIdentity, Stands
<1> QED
  BY <1>4, <1>5, <1>6 DEF UniqueInv

LEMMA CrashUnique ==
  ASSUME ProvTypeOK, UniqueInv, Shutdown
  PROVE  UniqueInv'
<1>1. /\ users' = users /\ met' = met
      /\ \A s \in SignIns : IF s \in Running THEN signIn'[s].pc = "gone"
                          ELSE signIn'[s] = signIn[s]
  BY DEF Shutdown, stock
<1>2. Running' = {}
  BY <1>1 DEF Running, Ended
<1>3. ASSUME NEW t \in SignIns \ met'
      PROVE  /\ signIn'[t].pc = "existing" => signIn'[t].found \in users'
             /\ signIn'[t].pc \notin {"email", "user"}
  BY <1>1 DEF UniqueInv, Running, Ended
<1>4. OneUserPerIdentity'
  BY <1>1, <1>3 DEF UniqueInv, OneUserPerIdentity, Stands
<1> QED
  BY <1>2, <1>3, <1>4 DEF UniqueInv

LEMMA ProvNextUnique ==
  ProvTypeOK /\ WholeInv /\ UniqueInv /\ ProvTypeOK' /\ [ProvNext]_provVars => UniqueInv'
<1> SUFFICES ASSUME ProvTypeOK, WholeInv, UniqueInv, ProvTypeOK', [ProvNext]_provVars
             PROVE  UniqueInv'
  OBVIOUS
<1>1. ASSUME NEW s \in SignIns, signIn[s].pc \in {"subject", "email", "undo"} \cup Steps
      PROVE  s \in Running
  BY <1>1 DEF Running, Steps, Ended
<1>2. ASSUME NEW s \in SignIns, FindBySubject(s) PROVE UniqueInv'
  BY <1>1, <1>2, FindUnique DEF FindBySubject, Stands
<1>3. ASSUME NEW s \in SignIns, FindByEmail(s) PROVE UniqueInv'
  BY <1>1, <1>3, FindUnique DEF FindByEmail, Stands
<1>4. users' \subseteq SignIns
  BY DEF ProvTypeOK
<1>5. ASSUME NEW s \in SignIns, Create(s) PROVE UniqueInv'
  <2>1. /\ s \in Running /\ UNCHANGED <<met, halved>>
        /\ \/ users' \subseteq users
           \/ signIn[s].pc = "user" /\ users' = users \cup {s}
    BY <1>1, <1>5 DEF Create, Stands, Steps
  <2>2. /\ \A t \in SignIns : t # s => signIn'[t] = signIn[t] /\ Stored(t)' = Stored(t)
        /\ signIn'[s].pc \in {"marker", "workspace", "edge", "profile"}
    BY <1>5 DEF Create, Stands, Did, Stored, ProvTypeOK, SignIn
  <2> QED
    BY <1>4, <2>1, <2>2, AloneKeeps DEF Moves
<1>6. ASSUME NEW s \in SignIns, FailStep(s) \/ EndRollback(s) PROVE UniqueInv'
  <2>1. s \in Running /\ UNCHANGED <<stock, met, halved>>
    BY <1>1, <1>6 DEF FailStep, EndRollback, Stands, Steps
  <2>2. /\ \A t \in SignIns : t # s => signIn'[t] = signIn[t]
        /\ signIn'[s].pc \in {"undo", "failed"}
    BY <1>6 DEF FailStep, EndRollback, Stands, ProvTypeOK, SignIn
  <2> QED
    BY <1>4, <2>1, <2>2, AloneKeeps DEF Moves, Stored, stock
<1>7. ASSUME NEW s \in SignIns, SeedProfile(s) PROVE UniqueInv'
  <2>1. s \in Running /\ UNCHANGED <<users, met, halved>>
    BY <1>1, <1>7 DEF SeedProfile, Stands, Steps
  <2>2. /\ \A t \in SignIns : t # s => signIn'[t] = signIn[t] /\ Stored(t)' = Stored(t)
        /\ signIn'[s].pc = "new"
    BY <1>7 DEF SeedProfile, Stands, Stored, ProvTypeOK, SignIn
  <2> QED
    BY <1>4, <2>1, <2>2, AloneKeeps DEF Moves
<1>8. ASSUME NEW s \in SignIns, RunRollback(s) PROVE UniqueInv'
  <2>1. s \in Running /\ users' \subseteq users /\ met' = met
        /\ halved \subseteq halved' /\ halved' \subseteq halved \cup {s}
    BY <1>1, <1>8 DEF RunRollback, Stands, Undone, stock
  <2>2. /\ \A t \in SignIns : t # s => signIn'[t] = signIn[t] /\ Stored(t)' = Stored(t)
        /\ signIn'[s].pc = "undo"
    BY <1>8 DEF RunRollback, Stands, Undone, stock, Stored, ProvTypeOK, SignIn
  <2> QED
    BY <1>4, <2>1, <2>2, AloneKeeps DEF Moves
<1>9. CASE UNCHANGED provVars
  BY <1>9 DEF provVars, stock, UniqueInv, OneUserPerIdentity, Running, Stands
<1> QED
  BY <1>2, <1>3, <1>5, <1>6, <1>7, <1>8, <1>9, BeginUnique, CrashUnique DEF ProvNext

\* Sign-ins that do not overlap never make two users of one provider account or of one
\* address, and never answer with a user that is not there (_find_user_by_oauth_subject and
\* _find_user_by_email), whatever fails in them.
THEOREM OneUserPerIdentityHolds ==
  ASSUME ProvAssumption
  PROVE  ProvSpec => []OneUserPerIdentity
<1>1. ProvInit => ProvTypeOK /\ WholeInv /\ UniqueInv
  <2>1. ProvInit => UniqueInv
    BY DEF ProvInit, UniqueInv, Running, OneUserPerIdentity, Stands
  <2> QED
    BY <2>1, ProvInitInv
<1>2. ProvTypeOK /\ WholeInv /\ UniqueInv /\ [ProvNext]_provVars
        => (ProvTypeOK /\ WholeInv /\ UniqueInv)'
  BY ProvNextInv, ProvNextUnique
<1>3. UniqueInv => OneUserPerIdentity
  BY DEF UniqueInv
<1> QED
  BY <1>1, <1>2, <1>3, PTL DEF ProvSpec

-----------------------------------------------------------------------------
(***************************************************************************)
(* The trigger engine.                                                      *)
(***************************************************************************)

\* What is registered is saved, but for the next firing; and what is saved for the agent of the
\* gateway is registered.  For one trigger, and for a schedule.
Alike(a, b) ==
  /\ a # Nothing => b # Nothing /\ a.enabled = b.enabled /\ a.own = b.own /\ a.at = b.at
  /\ served /\ b # Nothing /\ b.own => a # Nothing

Same(r, s) == \A i \in Triggers : Alike(r[i], s[i])

\* What a call that is about to write has in hand.
Prepared ==
  \A c \in Calls :
    /\ call[c].pc \in {"read", "write"} /\ call[c].id # Nothing => call[c].snapshot \in Schedule
    /\ call[c].pc = "write" => call[c].read \in Preferences

\* While the loop awaits nothing, no key is being published.
Remembered ==
  /\ loop.pc \in {"sleep", "check"} => loop.current = Nothing
  /\ loop.pc = "publish" => loop.current \in Triggers

\* A key has been published, or is being published, as often as it was remembered at most:
\* each time that it was forgotten, and once if it still is remembered.
Fired(k) ==
  LET flying == loop.current = k[1] /\ DayOf(loop.now) = k[2] IN
  /\ published[k] + (IF flying /\ loop.pc = "publish" THEN 1 ELSE 0)
       <= forgotten[k] + (IF k \in seen THEN 1 ELSE 0)
  /\ loop.pc # "dead" /\ k \in seen /\ ~flying => published[k] >= 1

AllCounted == \A k \in Keys : Fired(k)

\* What will be registered and saved when the call under way has ended, or was refused.
Meant(c) ==
  IF call[c].pc = "load" \/ call[c].id = Nothing
  THEN /\ Same(registry, preferences.schedule)
       /\ call[c].pc = "write" => call[c].read.schedule = preferences.schedule
  ELSE /\ Same(registry, call[c].snapshot)
       /\ Alike(call[c].undo, preferences.schedule[call[c].id])
       /\ \A i \in Triggers \ {call[c].id} : Alike(registry[i], preferences.schedule[i])

OneCallAtATime ==
  ~torn => /\ \A c, d \in UnderWay : c = d
           /\ UnderWay = {} => Same(registry, preferences.schedule)
           /\ \A c \in UnderWay : Meant(c)

TriggerInv == TriggerTypeOK /\ Prepared /\ Remembered /\ AllCounted /\ OneCallAtATime

-----------------------------------------------------------------------------
LEMMA AlikeFacts ==
  /\ \A a : Alike(a, a)
  /\ \A a, b, c : Alike(a, b) /\ Alike(b, c) => Alike(a, c)
BY DEF Alike

\* The days of the clock, and the next firing of a time of day.
LEMMA ClockType ==
  ASSUME NEW now \in 0..MaxTime
  PROVE  /\ DayOf(now) \in 0..DayOf(MaxTime) /\ DayOf(now) \in Nat
         /\ \A at \in CronTimes : NextCron(at, now) \in 0..(MaxTime + Day)
<1>1. now \in Nat /\ MaxTime \in Nat /\ now <= MaxTime /\ Day \in Nat \ {0}
  BY TriggerAssumption
<1>2. /\ now \div Day \in Nat /\ (now \div Day) * Day <= now
      /\ now \div Day <= MaxTime \div Day /\ MaxTime \div Day \in Nat
  BY <1>1
<1>3. ASSUME NEW at \in CronTimes PROVE NextCron(at, now) \in 0..(MaxTime + Day)
  <2> DEFINE today == (now \div Day) * Day
  <2>1. at \in Nat /\ at <= Day - 1
    BY TriggerAssumption
  <2>2. today \in Nat /\ today <= now
    BY <1>1, <1>2
  <2>3. NextCron(at, now) = IF today + at <= now THEN (today + at) + Day ELSE today + at
    BY DEF NextCron, DayOf
  <2> HIDE DEF today
  <2> QED
    BY <1>1, <2>1, <2>2, <2>3
<1> QED
  BY <1>2, <1>3 DEF DayOf

LEMMA DailyType ==
  ASSUME TriggerTypeOK, NEW config \in [enabled : BOOLEAN, own : BOOLEAN, at : CronTimes, next : Nat]
  PROVE  Daily(config) \in Config
BY ClockType DEF TriggerTypeOK, Daily, Config

LEMMA ScheduleUpdate ==
  ASSUME NEW r \in Schedule, NEW id \in Triggers, NEW v \in Config \cup {Nothing}
  PROVE  /\ [r EXCEPT ![id] = v] \in Schedule /\ [r EXCEPT ![id] = v][id] = v
         /\ \A i \in Triggers \ {id} : [r EXCEPT ![id] = v][i] = r[i]
BY DEF Schedule

LEMMA LoadType ==
  ASSUME NEW s \in Schedule, NEW now \in 0..MaxTime
  PROVE  Load(s, now) \in Schedule /\ Loaded(s) \in Schedule
<1>1. Fallback(now) \in Config /\ Briefing \in Triggers
  BY ClockType, TriggerAssumption DEF Fallback, Config, Triggers
<1>2. NoSchedule \in Schedule /\ Loaded(s) \in Schedule
  BY DEF NoSchedule, Loaded, Schedule
<1>3. [NoSchedule EXCEPT ![Briefing] = Fallback(now)] \in Schedule
  BY <1>1, <1>2, ScheduleUpdate
<1> QED
  BY <1>2, <1>3 DEF Load

LEMMA NoScheduleType == NoSchedule \in Schedule
BY DEF NoSchedule, Schedule

LEMMA UnbornType == Unborn \in TriggerCall /\ [Unborn EXCEPT !.pc = "done"] \in TriggerCall
BY DEF Unborn, TriggerCall

\* advance moves the next firing and nothing else.
LEMMA AdvanceKeeps ==
  ASSUME TriggerTypeOK, NEW id \in Triggers, Advance(id)
  PROVE  registry' \in Schedule /\ Same(registry', registry)
<1>0. registry \in Schedule /\ loop.now \in 0..MaxTime
  BY DEF TriggerTypeOK, Loop
<1>1. CASE registry[id] = Nothing
  <2>1. registry' = registry
    BY <1>1 DEF Advance
  <2> QED
    BY <1>0, <2>1, AlikeFacts DEF Same
<1>2. CASE registry[id] # Nothing
  <2> DEFINE old == registry[id]
             new == [old EXCEPT !.next = NextCron(old.at, loop.now)]
  <2>1. old \in Config
    BY <1>0, <1>2 DEF Schedule
  <2>2. NextCron(old.at, loop.now) \in 0..(MaxTime + Day)
    BY <1>0, <2>1, ClockType DEF Config
  <2>3. new \in Config /\ new.enabled = old.enabled /\ new.own = old.own /\ new.at = old.at
    BY <2>1, <2>2 DEF Config
  <2>4. registry' = [registry EXCEPT ![id] = new]
    BY <1>2 DEF Advance
  <2>5. new # Nothing /\ old # Nothing
    BY <1>2, <2>3, TriggerAssumption
  <2> HIDE DEF new
  <2>6. Alike(new, old)
    BY <2>3, <2>5 DEF Alike
  <2> HIDE DEF old
  <2>7. /\ [registry EXCEPT ![id] = new] \in Schedule /\ [registry EXCEPT ![id] = new][id] = new
        /\ \A i \in Triggers \ {id} : [registry EXCEPT ![id] = new][i] = registry[i]
    BY <1>0, <2>3, ScheduleUpdate
  <2> QED
    BY <2>4, <2>6, <2>7, AlikeFacts DEF Same, old
<1> QED
  BY <1>1, <1>2

-----------------------------------------------------------------------------
(***************************************************************************)
(* The loop.                                                                *)
(***************************************************************************)
LoopStep == Tick \/ Wake \/ DispatchNext \/ Publish \/ Sleep

\* What a pass of the loop may do to the registry, and what it leaves alone.
LEMMA LoopKeepsRegistry ==
  ASSUME TriggerTypeOK, Remembered, LoopStep
  PROVE  /\ registry' \in Schedule /\ Same(registry', registry)
         /\ UNCHANGED <<preferences, call, torn, served>>
<1>0. registry \in Schedule /\ Same(registry, registry)
  BY AlikeFacts DEF TriggerTypeOK, Same
<1>1. CASE Tick \/ Wake \/ Sleep
  BY <1>0, <1>1 DEF Tick, Wake, Sleep
<1>2. CASE DispatchNext
  <2>1. PICK id \in loop.due : Dispatch(id)
    BY <1>2 DEF DispatchNext
  <2>2. id \in Triggers
    BY DEF TriggerTypeOK, Loop
  <2>3. Advance(id) \/ UNCHANGED registry
    BY <2>1 DEF Dispatch
  <2> QED
    BY <1>0, <1>2, <2>2, <2>3, AdvanceKeeps DEF DispatchNext
<1>3. CASE Publish
  <2>1. loop.current \in Triggers
    BY <1>3 DEF Publish, Remembered
  <2>2. Advance(loop.current) \/ UNCHANGED registry
    BY <1>3 DEF Publish
  <2> QED
    BY <1>0, <1>3, <2>1, <2>2, AdvanceKeeps DEF Publish
<1> QED
  BY <1>1, <1>2, <1>3 DEF LoopStep

LEMMA CurrentKey ==
  ASSUME TriggerTypeOK, NEW id \in Triggers
  PROVE  /\ loop.now \in 0..MaxTime /\ DayOf(loop.now) \in 0..DayOf(MaxTime)
         /\ <<id, DayOf(loop.now)>> \in Keys
BY ClockType DEF TriggerTypeOK, Loop, Keys

\* How often a key was remembered.
Remembrance(k) == forgotten[k] + (IF k \in seen THEN 1 ELSE 0)

\* What is trimmed is counted.
LEMMA ForgetKeeps ==
  ASSUME TriggerTypeOK, NEW keys, Forget(keys)
  PROVE  /\ forgotten' \in [Keys -> Nat]
         /\ \A k \in Keys : forgotten'[k] = forgotten[k] + (IF k \in keys THEN 1 ELSE 0)
BY DEF TriggerTypeOK, Forget

\* Remembering a key counts for that key, and for no other.
LEMMA RememberKeeps ==
  ASSUME TriggerTypeOK, NEW key \in Keys, key \notin seen, Remember(key)
  PROVE  /\ seen' \subseteq seen \cup {key} /\ seen' \subseteq Keys /\ forgotten' \in [Keys -> Nat]
         /\ \A k \in Keys : Remembrance(k)' = IF k = key THEN Remembrance(k) + 1 ELSE Remembrance(k)
<1>0. seen \subseteq Keys /\ forgotten \in [Keys -> Nat]
  BY DEF TriggerTypeOK
<1>1. CASE seen' = seen \cup {key} /\ UNCHANGED forgotten
  BY <1>0, <1>1 DEF Remembrance
<1>2. ASSUME NEW half \in SUBSET (seen \cup {key}), seen' = (seen \cup {key}) \ half, Forget(half)
      PROVE  /\ seen' \subseteq seen \cup {key} /\ seen' \subseteq Keys /\ forgotten' \in [Keys -> Nat]
             /\ \A k \in Keys : Remembrance(k)' = IF k = key THEN Remembrance(k) + 1 ELSE Remembrance(k)
  <2>1. /\ forgotten' \in [Keys -> Nat]
        /\ \A k \in Keys : forgotten'[k] = forgotten[k] + (IF k \in half THEN 1 ELSE 0)
    BY <1>2, ForgetKeeps
  <2>2. ASSUME NEW k \in Keys
        PROVE  Remembrance(k)' = IF k = key THEN Remembrance(k) + 1 ELSE Remembrance(k)
    <3>1. forgotten[k] \in Nat /\ forgotten'[k] = forgotten[k] + (IF k \in half THEN 1 ELSE 0)
      BY <1>0, <2>1
    <3>2. k \in seen' <=> (k \in seen \/ k = key) /\ k \notin half
      BY <1>2
    <3>3. k \in half => k \in seen \/ k = key
      OBVIOUS
    <3> QED
      BY <3>1, <3>2, <3>3 DEF Remembrance
  <2> QED
    BY <1>0, <1>2, <2>1, <2>2
<1> QED
  BY <1>1, <1>2 DEF Remember

LEMMA LoopTypes ==
  ASSUME TriggerTypeOK, Prepared, Remembered, LoopStep
  PROVE  TriggerTypeOK' /\ Prepared'
<1>0. /\ registry' \in Schedule /\ UNCHANGED <<preferences, call, torn, served>>
      /\ preferences' \in Preferences /\ call' \in [Calls -> TriggerCall] /\ torn' \in BOOLEAN
      /\ served' \in BOOLEAN
  BY LoopKeepsRegistry DEF TriggerTypeOK
<1>1. Prepared'
  BY <1>0 DEF Prepared
<1>2. /\ time \in 0..MaxTime /\ seen \subseteq Keys /\ forgotten \in [Keys -> Nat] /\ loop \in Loop
      /\ published \in [Keys -> Nat] /\ glitches \in 0..MaxGlitches
      /\ loop.due \subseteq Triggers /\ MaxTime \in Nat /\ MaxGlitches \in Nat
  BY TriggerAssumption DEF TriggerTypeOK, Loop
<1>3. CASE Tick
  BY <1>0, <1>1, <1>2, <1>3 DEF Tick, TriggerTypeOK
<1>4. CASE Wake
  <2>1. loop' \in Loop
    BY <1>2, <1>4 DEF Wake, Loop
  <2> QED
    BY <1>0, <1>1, <1>2, <1>4, <2>1 DEF Wake, TriggerTypeOK
<1>5. CASE DispatchNext
  <2>1. PICK id \in loop.due : Dispatch(id)
    BY <1>5 DEF DispatchNext
  <2>2. id \in Triggers /\ <<id, DayOf(loop.now)>> \in Keys
    BY <1>2, CurrentKey
  <2>3. seen' \subseteq Keys /\ forgotten' \in [Keys -> Nat]
    BY <1>2, <2>1, <2>2, RememberKeeps DEF Dispatch
  <2>4. loop' \in Loop
    <3>1. \/ loop' = [loop EXCEPT !.due = @ \ {id}]
          \/ loop' = [loop EXCEPT !.pc = "publish", !.current = id, !.due = @ \ {id}]
      BY <2>1 DEF Dispatch
    <3> QED
      BY <1>2, <2>2, <3>1 DEF Loop
  <2> QED
    BY <1>0, <1>1, <1>2, <1>5, <2>3, <2>4 DEF DispatchNext, TriggerTypeOK
<1>6. CASE Publish
  <2>1. loop' \in Loop
    BY <1>2, <1>6 DEF Publish, Loop
  <2>2. published' \in [Keys -> Nat]
    <3> DEFINE key == <<loop.current, DayOf(loop.now)>>
    <3>1. key \in Keys
      BY <1>6, CurrentKey DEF Publish, Remembered
    <3>2. published[key] + 1 \in Nat
      BY <1>2, <3>1
    <3>3. published' = [published EXCEPT ![key] = published[key] + 1] \/ published' = published
      BY <1>6 DEF Publish
    <3> HIDE DEF key
    <3> QED
      BY <1>2, <3>2, <3>3
  <2>3. glitches' \in 0..MaxGlitches
    BY <1>2, <1>6 DEF Publish, Glitch
  <2> QED
    BY <1>0, <1>1, <1>2, <1>6, <2>1, <2>2, <2>3 DEF Publish, TriggerTypeOK
<1>7. CASE Sleep
  <2>1. loop' \in Loop
    BY <1>2, <1>7 DEF Sleep, Loop
  <2> QED
    BY <1>0, <1>1, <1>2, <1>7, <2>1 DEF Sleep, TriggerTypeOK
<1> QED
  BY <1>3, <1>4, <1>5, <1>6, <1>7 DEF LoopStep

LEMMA CountedThen == AllCounted' <=> \A k \in Keys : Fired(k)'
BY DEF AllCounted, Keys, DayOf, Triggers

LEMMA FiredIs == TriggerTypeOK /\ AllCounted => FiredOncePerDay
<1> SUFFICES ASSUME TriggerTypeOK, AllCounted, NEW id \in Triggers, NEW day \in 0..DayOf(MaxTime)
             PROVE  LET key == <<id, day>>
                        inFlight == loop.current = id /\ DayOf(loop.now) = day IN
                    /\ published[key] + (IF inFlight /\ loop.pc = "publish" THEN 1 ELSE 0) <= 1 + forgotten[key]
                    /\ loop.pc # "dead" /\ key \in seen /\ ~inFlight => published[key] >= 1
  BY DEF FiredOncePerDay
<1>1. <<id, day>> \in Keys /\ <<id, day>>[1] = id /\ <<id, day>>[2] = day
  BY DEF Keys
<1>2. Fired(<<id, day>>) /\ published[<<id, day>>] \in Nat /\ forgotten[<<id, day>>] \in Nat
  BY <1>1 DEF AllCounted, TriggerTypeOK
<1> QED
  BY <1>1, <1>2 DEF Fired

\* What is remembered counts, by each step of the loop.
LEMMA LoopFires ==
  ASSUME TriggerTypeOK, Remembered, AllCounted, LoopStep
  PROVE  Remembered' /\ AllCounted'
<1>0. /\ \A k \in Keys : Fired(k)
      /\ \A k \in Keys : /\ k[1] \in Triggers /\ k = <<k[1], k[2]>>
                        /\ published[k] \in Nat /\ forgotten[k] \in Nat
      /\ Nothing \notin Triggers
  BY TriggerAssumption DEF Keys, TriggerTypeOK, AllCounted
<1>1. CASE Tick
  <2>1. UNCHANGED <<loop, seen, published, forgotten>>
    BY <1>1 DEF Tick
  <2>2. \A k \in Keys : Fired(k)'
    BY <1>0, <2>1 DEF Fired
  <2> QED
    BY <2>1, <2>2, CountedThen DEF Remembered
<1>2. CASE Wake \/ Sleep
  <2>1. /\ UNCHANGED <<seen, published, forgotten>>
        /\ loop.pc \in {"sleep", "check"} /\ loop'.pc \in {"sleep", "check"}
    BY <1>2 DEF Wake, Sleep, TriggerTypeOK, Loop
  <2>2. loop.current = Nothing /\ loop'.current = Nothing
    BY <1>2, <2>1 DEF Wake, Sleep, Remembered, TriggerTypeOK, Loop
  <2>3. \A k \in Keys : Fired(k)'
    BY <1>0, <2>1, <2>2 DEF Fired
  <2>4. Remembered'
    BY <2>1, <2>2 DEF Remembered
  <2> QED
    BY <2>3, <2>4, CountedThen
<1>3. CASE DispatchNext
  <2>1. PICK id \in loop.due : Dispatch(id)
    BY <1>3 DEF DispatchNext
  <2> DEFINE key == <<id, DayOf(loop.now)>>
  <2>2. /\ id \in Triggers /\ key \in Keys /\ loop.pc = "check" /\ loop.current = Nothing
        /\ published' = published /\ loop \in Loop
    BY <1>3, CurrentKey DEF DispatchNext, TriggerTypeOK, Loop, Remembered
  <2>3. CASE key \in seen
    <3>1. UNCHANGED <<seen, forgotten>> /\ loop'.pc = "check" /\ loop'.current = Nothing
      BY <2>1, <2>2, <2>3 DEF Dispatch, Loop
    <3>2. \A k \in Keys : Fired(k)'
      BY <1>0, <2>2, <3>1 DEF Fired
    <3>3. Remembered'
      BY <2>2, <3>1 DEF Remembered
    <3> QED
      BY <3>2, <3>3, CountedThen
  <2>4. CASE key \notin seen
    <3>1. /\ Remember(key) /\ loop'.pc = "publish" /\ loop'.current = id /\ loop'.now = loop.now
      BY <2>1, <2>2, <2>4 DEF Dispatch, Loop
    <3>2. /\ \A k \in Keys : Remembrance(k)' = IF k = key THEN Remembrance(k) + 1 ELSE Remembrance(k)
          /\ seen' \subseteq seen \cup {key}
      BY <2>2, <2>4, <3>1, RememberKeeps
    <3>3. ASSUME NEW k \in Keys PROVE Fired(k)'
      <4>1. ~(loop.current = k[1]) /\ (k = key <=> loop'.current = k[1] /\ DayOf(loop'.now) = k[2])
        BY <1>0, <2>2, <3>1
      <4>2. published[k] <= Remembrance(k) /\ Remembrance(k) \in Nat
        BY <1>0, <4>1 DEF Fired, Remembrance
      <4>3. published'[k] + (IF k = key THEN 1 ELSE 0) <= Remembrance(k)'
        BY <1>0, <2>2, <3>2, <4>2
      <4>4. k \in seen' /\ k # key => published'[k] >= 1
        BY <1>0, <2>2, <3>2, <4>1 DEF Fired
      <4> HIDE DEF key
      <4> QED
        BY <3>1, <4>1, <4>3, <4>4 DEF Fired, Remembrance
    <3>4. Remembered'
      BY <2>2, <3>1 DEF Remembered
    <3> QED
      BY <3>3, <3>4, CountedThen
  <2> QED
    BY <2>3, <2>4
<1>4. CASE Publish
  <2> DEFINE key == <<loop.current, DayOf(loop.now)>>
  <2>1. /\ loop.pc = "publish" /\ loop.current \in Triggers /\ loop \in Loop
        /\ key \in Keys /\ UNCHANGED <<seen, forgotten>>
    BY <1>4, CurrentKey DEF Publish, Remembered, TriggerTypeOK
  <2>2. ASSUME NEW k \in Keys PROVE k = key <=> loop.current = k[1] /\ DayOf(loop.now) = k[2]
    BY <1>0
  <2>3. CASE /\ published' = [published EXCEPT ![key] = @ + 1]
             /\ loop' = [loop EXCEPT !.pc = "check", !.current = Nothing]
    <3>1. loop'.pc = "check" /\ loop'.current = Nothing /\ loop'.now = loop.now
      BY <2>1, <2>3 DEF Loop
    <3>2. \A k \in Keys : published'[k] = IF k = key THEN published[k] + 1 ELSE published[k]
      BY <2>1, <2>3 DEF TriggerTypeOK
    <3> HIDE DEF key
    <3>3. ASSUME NEW k \in Keys PROVE Fired(k)'
      <4>0. loop'.current # k[1]
        BY <1>0, <3>1
      <4>1. CASE k = key
        BY <1>0, <2>1, <2>2, <3>1, <3>2, <4>0, <4>1 DEF Fired
      <4>2. CASE k # key
        BY <1>0, <2>1, <2>2, <3>1, <3>2, <4>0, <4>2 DEF Fired
      <4> QED
        BY <4>1, <4>2
    <3>4. Remembered'
      BY <2>1, <3>1 DEF Remembered
    <3> QED
      BY <3>3, <3>4, CountedThen
  <2>4. CASE published' = published /\ loop' = [loop EXCEPT !.pc = "dead"]
    <3>1. loop'.pc = "dead" /\ loop'.current = loop.current /\ loop'.now = loop.now
      BY <2>1, <2>4 DEF Loop
    <3>2. \A k \in Keys : Fired(k)'
      BY <1>0, <2>1, <2>4, <3>1 DEF Fired
    <3>3. Remembered'
      BY <2>1, <2>4, <3>1 DEF Remembered
    <3> QED
      BY <3>2, <3>3, CountedThen
  <2> QED
    BY <1>4, <2>3, <2>4 DEF Publish
<1> QED
  BY <1>1, <1>2, <1>3, <1>4 DEF LoopStep

-----------------------------------------------------------------------------
(***************************************************************************)
(* A restart, and the calls.                                                *)
(***************************************************************************)
LEMMA RestartKeeps ==
  ASSUME TriggerTypeOK, AllCounted, Restart
  PROVE  TriggerInv'
<1>0. /\ registry \in Schedule /\ preferences \in Preferences /\ time \in 0..MaxTime
      /\ preferences.schedule \in Schedule /\ call \in [Calls -> TriggerCall]
      /\ published \in [Keys -> Nat] /\ forgotten \in [Keys -> Nat] /\ served \in BOOLEAN
      /\ Nothing \notin Triggers
  BY TriggerAssumption DEF TriggerTypeOK, Preferences
<1>1. /\ registry' \in Schedule /\ UNCHANGED <<time, published, served>>
      /\ seen' = {} /\ loop' = Started /\ glitches' \in 0..MaxGlitches
      /\ registry' = Load(preferences.schedule, time)
  BY <1>0, LoadType, TriggerAssumption DEF Restart, Glitch, TriggerTypeOK
<1>2. /\ forgotten' \in [Keys -> Nat]
      /\ \A k \in Keys : forgotten'[k] = forgotten[k] + (IF k \in seen THEN 1 ELSE 0)
  BY ForgetKeeps DEF Restart
<1>3. preferences' \in Preferences /\ torn' \in BOOLEAN
  BY <1>0, <1>1 DEF Restart, SaveFallback, Preferences
<1>4. ~torn' => Same(registry, preferences.schedule)'
  <2>1. CASE served /\ Loaded(preferences.schedule) = NoSchedule
    <3>1. ~torn' => preferences'.schedule = registry'
      BY <1>0, <2>1 DEF Restart, SaveFallback, Preferences
    <3>2. Same(registry, registry)'
      BY DEF Same, Alike
    <3> QED
      BY <3>1, <3>2 DEF Same, Alike
  <2>2. CASE ~(served /\ Loaded(preferences.schedule) = NoSchedule)
    <3>1. preferences' = preferences /\ registry' = IF served THEN Loaded(preferences.schedule) ELSE NoSchedule
      BY <1>1, <2>2 DEF Restart, Load
    <3>2. ASSUME NEW i \in Triggers PROVE Alike(registry[i], preferences.schedule[i])'
      BY <1>1, <3>1 DEF Loaded, NoSchedule, Alike
    <3> QED
      BY <3>2 DEF Same, Triggers
  <2> QED
    BY <2>1, <2>2
<1>5. /\ call' \in [Calls -> TriggerCall]
      /\ \A c \in Calls : call'[c].pc \in {"new", "done"}
  BY <1>0, UnbornType DEF Restart, Unborn, TriggerCall
<1>6. Started \in Loop
  BY TriggerAssumption DEF Started, Loop
<1>7. TriggerTypeOK'
  BY <1>0, <1>1, <1>2, <1>3, <1>5, <1>6 DEF TriggerTypeOK
<1>8. Prepared' /\ Remembered'
  BY <1>1, <1>5 DEF Prepared, Remembered, Started
<1>9. AllCounted'
  <2>1. ASSUME NEW k \in Keys PROVE Fired(k)'
    <3>1. published[k] <= forgotten[k] + (IF k \in seen THEN 1 ELSE 0)
      BY <1>0 DEF AllCounted, Fired
    <3> QED
      BY <1>0, <1>1, <1>2, <3>1 DEF Fired, Started
  <2> QED
    BY <2>1, CountedThen
<1>10. UnderWay' = {}
  BY <1>5 DEF UnderWay
<1>11. OneCallAtATime'
  BY <1>4, <1>10 DEF OneCallAtATime
<1> QED
  BY <1>7, <1>8, <1>9, <1>11 DEF TriggerInv

\* Calls leave the loop and the keys alone.
LEMMA CallLeaves ==
  ASSUME NEW c \in Calls, CallStep(c)
  PROVE  UNCHANGED <<time, loop, seen, published, forgotten, served>>
BY DEF CallStep, CreateTrigger, UpdateTrigger, SnoozeTrigger, ResumeTrigger, DeleteTrigger,
       SaveSettings, ListTriggers, ReadPreferences, WritePreferences, LoadTriggers, Change

LEMMA CallFires ==
  ASSUME NEW c \in Calls, CallStep(c), Remembered, AllCounted
  PROVE  Remembered' /\ AllCounted'
<1>1. UNCHANGED <<time, loop, seen, published, forgotten, served>>
  BY CallLeaves
<1>2. \A k \in Keys : Fired(k)'
  BY <1>1 DEF AllCounted, Fired
<1> QED
  BY <1>1, <1>2, CountedThen DEF Remembered

\* The ways in which a call begins.
Changed(c) ==
  \E id \in Triggers, config \in Config \cup {Nothing} : Change(c, id, config)

LEMMA ChangesAre ==
  ASSUME TriggerTypeOK, NEW c \in Calls,
         \/ CreateTrigger(c) \/ UpdateTrigger(c) \/ SnoozeTrigger(c) \/ ResumeTrigger(c)
         \/ DeleteTrigger(c)
  PROVE  Changed(c)
<1>0. registry \in Schedule /\ c \in Triggers
  BY DEF TriggerTypeOK, Triggers
<1> DEFINE Draft == [enabled : BOOLEAN, own : BOOLEAN, at : CronTimes, next : Nat]
<1>1. ASSUME NEW config \in Draft PROVE Daily(config) \in Config
  BY <1>1, DailyType
<1>2. ASSUME NEW id \in Triggers, registry[id] # Nothing
      PROVE  registry[id] \in Config /\ registry[id] \in Draft
  <2>1. Config \subseteq Draft
    BY TriggerAssumption DEF Config
  <2> QED
    BY <1>0, <1>2, <2>1 DEF Schedule
<1>3. CASE CreateTrigger(c)
  <2>1. PICK config \in [enabled : BOOLEAN, own : BOOLEAN, at : CronTimes, next : {0}] :
          Change(c, c, Daily(config))
    BY <1>3 DEF CreateTrigger
  <2>2. config \in Draft
    OBVIOUS
  <2> QED
    BY <1>0, <1>1, <2>1, <2>2 DEF Changed
<1>4. CASE UpdateTrigger(c)
  <2>1. PICK id \in Triggers, enabled \in BOOLEAN, own \in BOOLEAN, at \in CronTimes :
          LET config == [registry[id] EXCEPT !.enabled = enabled, !.own = own] IN
          /\ registry[id] # Nothing
          /\ \/ Change(c, id, config)
             \/ Change(c, id, Daily([config EXCEPT !.at = at]))
    BY <1>4 DEF UpdateTrigger
  <2> DEFINE config == [registry[id] EXCEPT !.enabled = enabled, !.own = own]
  <2>2. config \in Config
    BY <1>2, <2>1 DEF Config
  <2>5. Config \subseteq Draft
    BY TriggerAssumption DEF Config
  <2> HIDE DEF config
  <2>3. [config EXCEPT !.at = at] \in Draft
    BY <2>2, <2>5
  <2>4. Daily([config EXCEPT !.at = at]) \in Config
    BY <1>1, <2>3
  <2> QED
    BY <2>1, <2>2, <2>4 DEF Changed, config
<1>5. CASE SnoozeTrigger(c)
  <2>1. PICK id \in Triggers :
          registry[id] # Nothing /\ Change(c, id, [registry[id] EXCEPT !.enabled = FALSE])
    BY <1>5 DEF SnoozeTrigger
  <2>2. [registry[id] EXCEPT !.enabled = FALSE] \in Config
    BY <1>2, <2>1 DEF Config
  <2> QED
    BY <2>1, <2>2 DEF Changed
<1>6. CASE ResumeTrigger(c)
  <2>1. PICK id \in Triggers :
          registry[id] # Nothing /\ Change(c, id, Daily([registry[id] EXCEPT !.enabled = TRUE]))
    BY <1>6 DEF ResumeTrigger
  <2>2. [registry[id] EXCEPT !.enabled = TRUE] \in Draft
    BY <1>2, <2>1
  <2> QED
    BY <1>1, <2>1, <2>2 DEF Changed
<1>7. CASE DeleteTrigger(c)
  BY <1>7 DEF DeleteTrigger, Changed
<1> QED
  BY <1>3, <1>4, <1>5, <1>6, <1>7

\* The call after its step; the other calls stay as they are.
LEMMA CallUpdate ==
  ASSUME TriggerTypeOK, NEW c \in Calls, NEW rec \in TriggerCall,
         call' = [call EXCEPT ![c] = rec]
  PROVE  /\ call' \in [Calls -> TriggerCall] /\ call'[c] = rec
         /\ \A d \in Calls \ {c} : call'[d] = call[d]
BY DEF TriggerTypeOK

\* A call begins, alone unless the ghost says so.
Begins(c) ==
  /\ call[c].pc = "new" /\ call'[c].pc \in {"read", "load"}
  /\ preferences' = preferences /\ torn' = (torn \/ UnderWay # {})
  /\ \/ registry' = registry /\ (call'[c].pc = "load" \/ call'[c].id = Nothing)
     \/ /\ call'[c].pc = "read" /\ call'[c].id \in Triggers
        /\ \A i \in Triggers \ {call'[c].id} : registry'[i] = registry[i]
        /\ call'[c].undo = registry[call'[c].id] /\ call'[c].snapshot = registry'

\* It has read the preferences.
GoesForward(c) ==
  /\ call[c].pc = "read" /\ call'[c].pc = "write"
  /\ call'[c].id = call[c].id /\ call'[c].undo = call[c].undo
  /\ call'[c].snapshot = call[c].snapshot /\ call'[c].read = preferences
  /\ registry' = registry /\ preferences' = preferences /\ torn' = torn

\* It ends: it has saved, has taken back what it changed, has loaded or has come to nothing.
Ends(c) ==
  /\ call[c].pc \in {"read", "write", "load"} /\ call'[c].pc = "done"
  /\ torn' = torn \/ torn' = TRUE
  /\ \/ torn' = TRUE
     \/ /\ call[c].pc \in {"read", "write"} /\ Restore(c) /\ preferences' = preferences
     \/ /\ call[c].pc = "write" /\ registry' = registry /\ preferences' = Merged(c)
     \/ /\ call[c].pc = "load" /\ preferences' = preferences
        /\ \/ registry' = registry
           \/ registry' = [i \in Triggers |-> IF preferences.schedule[i] # Nothing
                                              THEN preferences.schedule[i] ELSE registry[i]]

\* Every step of a call is of one of these kinds, and keeps the types.
LEMMA CallShape ==
  ASSUME TriggerTypeOK, Prepared, NEW c \in Calls, CallStep(c)
  PROVE  /\ TriggerTypeOK' /\ Prepared'
         /\ \A d \in Calls \ {c} : call'[d] = call[d]
         /\ Begins(c) \/ GoesForward(c) \/ Ends(c)
<1>0. /\ registry \in Schedule /\ preferences \in Preferences /\ preferences.schedule \in Schedule
      /\ call \in [Calls -> TriggerCall] /\ call[c] \in TriggerCall /\ torn \in BOOLEAN
      /\ glitches \in 0..MaxGlitches /\ MaxGlitches \in Nat
  BY TriggerAssumption DEF TriggerTypeOK, Preferences
<1>1. UNCHANGED <<time, loop, seen, published, forgotten, served>>
  BY CallLeaves
<1>2. ASSUME registry' \in Schedule, preferences' \in Preferences, torn' \in BOOLEAN,
             glitches' \in 0..MaxGlitches, NEW rec \in TriggerCall,
             call' = [call EXCEPT ![c] = rec],
             rec.pc \in {"read", "write"} /\ rec.id # Nothing => rec.snapshot \in Schedule,
             rec.pc = "write" => rec.read \in Preferences
      PROVE  TriggerTypeOK' /\ Prepared' /\ (\A d \in Calls \ {c} : call'[d] = call[d])
  <2>1. /\ call' \in [Calls -> TriggerCall] /\ call'[c] = rec
        /\ \A d \in Calls \ {c} : call'[d] = call[d]
    BY <1>2, CallUpdate
  <2>2. TriggerTypeOK'
    BY <1>1, <1>2, <2>1 DEF TriggerTypeOK
  <2>3. Prepared'
    BY <1>2, <2>1 DEF Prepared
  <2> QED
    BY <2>1, <2>2, <2>3
<1> DEFINE over == [Unborn EXCEPT !.pc = "done"]
<1>3. over \in TriggerCall /\ over.pc = "done"
  BY UnbornType DEF Unborn
<1>4. ASSUME Changed(c)
      PROVE  TriggerTypeOK' /\ Prepared' /\ (\A d \in Calls \ {c} : call'[d] = call[d]) /\ Begins(c)
  <2>1. PICK id \in Triggers, config \in Config \cup {Nothing} : Change(c, id, config)
    BY <1>4 DEF Changed
  <2> DEFINE rec == [Unborn EXCEPT !.pc = "read", !.id = id, !.undo = registry[id], !.snapshot = registry']
  <2>2. /\ call[c].pc = "new" /\ registry' = [registry EXCEPT ![id] = config]
        /\ call' = [call EXCEPT ![c] = rec] /\ torn' = (torn \/ UnderWay # {})
        /\ UNCHANGED <<preferences, glitches>>
    BY <2>1 DEF Change
  <2>3. registry' \in Schedule /\ \A i \in Triggers \ {id} : registry'[i] = registry[i]
    <3>1. /\ [registry EXCEPT ![id] = config] \in Schedule
          /\ \A i \in Triggers \ {id} : [registry EXCEPT ![id] = config][i] = registry[i]
      BY <1>0, ScheduleUpdate
    <3>2. registry' = [registry EXCEPT ![id] = config]
      BY <2>2
    <3> QED
      BY <3>1, <3>2
  <2>4. registry[id] \in Config \cup {Nothing}
    BY <1>0 DEF Schedule
  <2>5. /\ rec \in TriggerCall /\ rec.pc = "read" /\ rec.id = id /\ rec.undo = registry[id]
        /\ rec.snapshot = registry'
    BY <2>3, <2>4 DEF Unborn, TriggerCall
  <2> HIDE DEF rec
  <2>6. TriggerTypeOK' /\ Prepared' /\ (\A d \in Calls \ {c} : call'[d] = call[d])
    BY <1>0, <1>2, <2>2, <2>3, <2>5
  <2>7. call'[c] = rec
    BY <1>0, <2>2
  <2> QED
    BY <2>2, <2>3, <2>5, <2>6, <2>7 DEF Begins
<1>5. CASE SaveSettings(c)
  <2> DEFINE rec == [Unborn EXCEPT !.pc = "read", !.days = 1]
  <2>1. rec \in TriggerCall /\ rec.pc = "read" /\ rec.id = Nothing
    BY DEF Unborn, TriggerCall
  <2>2. /\ call[c].pc = "new" /\ call' = [call EXCEPT ![c] = rec]
        /\ torn' = (torn \/ UnderWay # {}) /\ UNCHANGED <<registry, preferences, glitches>>
    BY <1>5 DEF SaveSettings
  <2> HIDE DEF rec
  <2>3. call'[c] = rec
    BY <1>0, <2>2
  <2> QED
    BY <1>0, <1>2, <2>1, <2>2, <2>3 DEF Begins
<1>6. CASE ListTriggers(c)
  <2> DEFINE rec == [call[c] EXCEPT !.pc = "load"]
  <2>1. rec \in TriggerCall /\ rec.pc = "load"
    BY <1>0 DEF TriggerCall
  <2>2. /\ call[c].pc = "new" /\ call' = [call EXCEPT ![c] = rec]
        /\ torn' = (torn \/ UnderWay # {}) /\ UNCHANGED <<registry, preferences, glitches>>
    BY <1>6 DEF ListTriggers
  <2> HIDE DEF rec
  <2>3. call'[c] = rec
    BY <1>0, <2>2
  <2> QED
    BY <1>0, <1>2, <2>1, <2>2, <2>3 DEF Begins
\* A call that could not save.
<1>7. ASSUME Unsaved(c), call[c].pc \in {"read", "write"}, preferences' = preferences,
             call' = [call EXCEPT ![c] = over]
      PROVE  TriggerTypeOK' /\ Prepared' /\ (\A d \in Calls \ {c} : call'[d] = call[d]) /\ Ends(c)
  <2>1. glitches' \in 0..MaxGlitches
    BY <1>0, <1>7 DEF Unsaved, Glitch
  <2>2. /\ torn' \in BOOLEAN /\ (torn' = torn \/ torn' = TRUE)
        /\ torn' = TRUE \/ Restore(c)
    BY <1>0, <1>7 DEF Unsaved
  <2>3. registry' \in Schedule
    <3>1. CASE UNCHANGED registry
      BY <1>0, <3>1
    <3>2. CASE Restore(c) /\ call[c].id # Nothing
      <4>1. call[c].id \in Triggers /\ call[c].undo \in Config \cup {Nothing}
        BY <1>0, <3>2 DEF TriggerCall
      <4> QED
        BY <1>0, <3>2, <4>1, ScheduleUpdate DEF Restore
    <3>3. CASE Restore(c) /\ call[c].id = Nothing
      BY <1>0, <3>3 DEF Restore
    <3> QED
      BY <1>7, <3>1, <3>2, <3>3 DEF Unsaved
  <2> HIDE DEF over
  <2>4. call'[c] = over
    BY <1>0, <1>7
  <2>5. TriggerTypeOK' /\ Prepared' /\ (\A d \in Calls \ {c} : call'[d] = call[d])
    BY <1>0, <1>2, <1>3, <1>7, <2>1, <2>2, <2>3
  <2> QED
    BY <1>3, <1>7, <2>2, <2>4, <2>5 DEF Ends
<1>8. CASE ReadPreferences(c)
  <2>1. CASE /\ call' = [call EXCEPT ![c].pc = "write", ![c].read = preferences]
             /\ UNCHANGED <<registry, glitches, torn>>
    <3> DEFINE rec == [call[c] EXCEPT !.pc = "write", !.read = preferences]
    <3>1. /\ rec \in TriggerCall /\ rec.pc = "write" /\ rec.id = call[c].id
          /\ rec.undo = call[c].undo /\ rec.snapshot = call[c].snapshot /\ rec.read = preferences
      BY <1>0 DEF TriggerCall
    <3>2. call' = [call EXCEPT ![c] = rec] /\ call[c].pc = "read" /\ preferences' = preferences
      BY <1>0, <1>8, <2>1 DEF ReadPreferences
    <3>3. rec.id # Nothing => rec.snapshot \in Schedule
      BY <3>1, <3>2 DEF Prepared
    <3> HIDE DEF rec
    <3>4. call'[c] = rec
      BY <1>0, <3>2
    <3> QED
      BY <1>0, <1>2, <2>1, <3>1, <3>2, <3>3, <3>4 DEF GoesForward
  <2>2. CASE Unsaved(c) /\ End(c)
    BY <1>7, <1>8, <2>2 DEF ReadPreferences, End
  <2> QED
    BY <1>8, <2>1, <2>2 DEF ReadPreferences
<1>9. CASE WritePreferences(c)
  <2>1. call[c].pc = "write" /\ call' = [call EXCEPT ![c] = over]
    BY <1>9 DEF WritePreferences, End
  <2>2. CASE preferences' = Merged(c) /\ UNCHANGED <<registry, glitches, torn>>
    <3>1. call[c].read \in Preferences /\ (call[c].id # Nothing => call[c].snapshot \in Schedule)
      BY <2>1 DEF Prepared
    <3>2. Merged(c) \in Preferences
      BY <1>0, <3>1 DEF Merged, Preferences, TriggerCall
    <3> HIDE DEF over
    <3>3. call'[c] = over
      BY <1>0, <2>1
    <3>4. TriggerTypeOK' /\ Prepared' /\ (\A d \in Calls \ {c} : call'[d] = call[d])
      BY <1>0, <1>2, <1>3, <2>1, <2>2, <3>2
    <3> QED
      BY <1>3, <2>1, <2>2, <3>3, <3>4 DEF Ends
  <2>3. CASE Unsaved(c) /\ UNCHANGED preferences
    BY <1>7, <2>1, <2>3
  <2> QED
    BY <1>9, <2>2, <2>3 DEF WritePreferences
<1>10. CASE LoadTriggers(c)
  <2> DEFINE merged == [i \in Triggers |-> IF preferences.schedule[i] # Nothing
                                           THEN preferences.schedule[i] ELSE registry[i]]
  <2>1. /\ call[c].pc = "load" /\ call' = [call EXCEPT ![c] = over]
        /\ UNCHANGED <<preferences, torn>>
        /\ registry' = registry \/ registry' = merged
    BY <1>10 DEF LoadTriggers, End
  <2>2. merged \in Schedule
    BY <1>0 DEF Schedule
  <2>3. glitches' \in 0..MaxGlitches
    BY <1>0, <1>10 DEF LoadTriggers, Glitch
  <2> HIDE DEF over
  <2>4. call'[c] = over
    BY <1>0, <2>1
  <2>5. TriggerTypeOK' /\ Prepared' /\ (\A d \in Calls \ {c} : call'[d] = call[d])
    BY <1>0, <1>2, <1>3, <2>1, <2>2, <2>3
  <2> QED
    BY <1>3, <2>1, <2>4, <2>5 DEF Ends
<1> QED
  BY <1>4, <1>5, <1>6, <1>8, <1>9, <1>10, ChangesAre DEF CallStep

\* The loop moves firings, which is not what is saved.
LEMMA LoopKeepsSaved ==
  ASSUME OneCallAtATime, Same(registry', registry), UNCHANGED <<preferences, call, torn, served>>
  PROVE  OneCallAtATime'
<1>1. UnderWay' = UnderWay
  BY DEF UnderWay
<1>2. \A s : Same(registry, s) => Same(registry', s)
  BY AlikeFacts DEF Same
<1>3. \A a, b : Alike(a, b)' <=> Alike(a, b)
  BY DEF Alike
<1>4. ASSUME NEW c \in UnderWay, Meant(c) PROVE Meant(c)'
  BY <1>2, <1>3, <1>4, AlikeFacts DEF Meant, Same
<1> QED
  BY <1>1, <1>2, <1>3, <1>4 DEF OneCallAtATime, Same

\* Calls one at a time: what is registered and what is saved agree when the call is over.
LEMMA CallKeepsSaved ==
  ASSUME TriggerTypeOK, Prepared, OneCallAtATime, NEW c \in Calls, CallStep(c)
  PROVE  OneCallAtATime'
<1>0. /\ registry \in Schedule /\ preferences \in Preferences
      /\ call[c] \in TriggerCall /\ torn \in BOOLEAN
      /\ \A d \in Calls \ {c} : call'[d] = call[d]
      /\ Begins(c) \/ GoesForward(c) \/ Ends(c)
      /\ served' = served
  BY CallShape, CallLeaves DEF TriggerTypeOK
<1>1. SUFFICES ASSUME ~torn'
               PROVE  /\ \A d, e \in UnderWay' : d = e
                      /\ UnderWay' = {} => Same(registry', preferences'.schedule)
                      /\ \A d \in UnderWay' : Meant(d)'
  BY <1>0 DEF OneCallAtATime, Same, Alike
<1>2. \A d \in Calls \ {c} : d \in UnderWay' <=> d \in UnderWay
  BY <1>0 DEF UnderWay
<1>3. UnderWay \subseteq Calls /\ UnderWay' \subseteq Calls
  BY DEF UnderWay
<1>4. CASE Begins(c)
  <2>1. ~torn /\ UnderWay = {}
    BY <1>0, <1>1, <1>4 DEF Begins
  <2>2. Same(registry, preferences.schedule)
    BY <2>1 DEF OneCallAtATime
  <2>3. UnderWay' = {c}
    BY <1>2, <1>3, <1>4, <2>1 DEF Begins, UnderWay
  <2>4. Meant(c)'
    <3>1. CASE registry' = registry /\ (call'[c].pc = "load" \/ call'[c].id = Nothing)
      BY <1>0, <1>4, <2>2, <3>1 DEF Begins, Meant, Same, Alike
    <3>2. CASE /\ call'[c].pc = "read" /\ call'[c].id \in Triggers
               /\ \A i \in Triggers \ {call'[c].id} : registry'[i] = registry[i]
               /\ call'[c].undo = registry[call'[c].id] /\ call'[c].snapshot = registry'
      <4>1. /\ Alike(call'[c].undo, preferences'.schedule[call'[c].id])
            /\ \A i \in Triggers \ {call'[c].id} : Alike(registry'[i], preferences'.schedule[i])
        BY <1>4, <2>2, <3>2 DEF Begins, Same
      <4>2. Same(registry', call'[c].snapshot)
        BY <3>2, AlikeFacts DEF Same
      <4>3. call'[c].pc # "load" /\ call'[c].id # Nothing
        BY <3>2, TriggerAssumption
      <4> QED
        BY <1>0, <4>1, <4>2, <4>3 DEF Meant, Same, Alike
    <3> QED
      BY <1>4, <3>1, <3>2 DEF Begins
  <2> QED
    BY <2>3, <2>4
<1>5. CASE GoesForward(c)
  <2>1. ~torn /\ c \in UnderWay /\ c \in UnderWay'
    BY <1>1, <1>5 DEF GoesForward, UnderWay
  <2>2. UnderWay = {c} /\ UnderWay' = {c}
    BY <1>2, <1>3, <2>1 DEF OneCallAtATime
  <2>3. Meant(c)
    BY <2>1 DEF OneCallAtATime
  <2>4. Meant(c)'
    <3>1. CASE call[c].id = Nothing
      BY <1>0, <1>5, <2>3, <3>1 DEF GoesForward, Meant, Same, Alike
    <3>2. CASE call[c].id # Nothing
      BY <1>0, <1>5, <2>3, <3>2 DEF GoesForward, Meant, Same, Alike
    <3> QED
      BY <3>1, <3>2
  <2> QED
    BY <2>2, <2>4
<1>6. CASE Ends(c)
  <2>1. ~torn /\ c \in UnderWay /\ c \notin UnderWay'
    BY <1>0, <1>1, <1>6 DEF Ends, UnderWay
  <2>2. UnderWay' = {}
    BY <1>2, <1>3, <2>1 DEF OneCallAtATime
  <2>3. Meant(c)
    BY <2>1 DEF OneCallAtATime
  <2>4. Same(registry', preferences'.schedule)
    <3>1. CASE call[c].pc \in {"read", "write"} /\ Restore(c) /\ preferences' = preferences
      <4>1. CASE call[c].id = Nothing
        BY <2>3, <3>1, <4>1 DEF Restore, Meant
      <4>2. CASE call[c].id # Nothing
        <5>1. call[c].id \in Triggers /\ call[c].undo \in Config \cup {Nothing}
          BY <1>0, <4>2 DEF TriggerCall
        <5>2. /\ registry'[call[c].id] = call[c].undo
              /\ \A i \in Triggers \ {call[c].id} : registry'[i] = registry[i]
          BY <1>0, <3>1, <4>2, <5>1, ScheduleUpdate DEF Restore
        <5> QED
          BY <2>3, <3>1, <4>2, <5>1, <5>2 DEF Meant, Same
      <4> QED
        BY <4>1, <4>2
    <3>2. CASE call[c].pc = "write" /\ registry' = registry /\ preferences' = Merged(c)
      <4>0. call[c].read \in Preferences
        BY <3>2 DEF Prepared
      <4>1. CASE call[c].id = Nothing
        <5>1. preferences'.schedule = preferences.schedule
          BY <2>3, <3>2, <4>0, <4>1 DEF Merged, Meant, Preferences
        <5> QED
          BY <2>3, <3>2, <4>1, <5>1 DEF Meant
      <4>2. CASE call[c].id # Nothing
        <5>1. preferences'.schedule = call[c].snapshot
          BY <3>2, <4>0, <4>2 DEF Merged, Preferences
        <5> QED
          BY <2>3, <3>2, <4>2, <5>1 DEF Meant
      <4> QED
        BY <4>1, <4>2
    <3>3. CASE /\ call[c].pc = "load" /\ preferences' = preferences
               /\ \/ registry' = registry
                  \/ registry' = [i \in Triggers |-> IF preferences.schedule[i] # Nothing
                                                     THEN preferences.schedule[i] ELSE registry[i]]
      <4>1. Same(registry, preferences.schedule)
        BY <2>3, <3>3 DEF Meant
      <4>2. \A i \in Triggers : registry'[i] = registry[i] \/ registry'[i] = preferences.schedule[i]
        BY <3>3
      <4> QED
        BY <3>3, <4>1, <4>2, AlikeFacts DEF Same
    <3> QED
      BY <1>1, <1>6, <3>1, <3>2, <3>3 DEF Ends
  <2> QED
    BY <2>2, <2>4
<1> QED
  BY <1>0, <1>4, <1>5, <1>6

LEMMA TriggerInitInv == TriggerInit => TriggerInv
<1> SUFFICES ASSUME TriggerInit PROVE TriggerInv
  OBVIOUS
<1>1. 0 \in 0..MaxTime /\ MaxTime \in Nat /\ 0 \in 0..MaxGlitches
  BY TriggerAssumption
<1>2. Load(NoSchedule, 0) \in Schedule
  BY <1>1, NoScheduleType, LoadType
<1>3. TriggerTypeOK
  BY <1>1, <1>2, UnbornType DEF TriggerInit, TriggerTypeOK, Preferences, Started, Loop
<1>4. Prepared /\ UnderWay = {}
  BY DEF TriggerInit, Prepared, Unborn, UnderWay
<1>5. Remembered
  BY DEF TriggerInit, Remembered, Started
<1>6. AllCounted
  BY DEF TriggerInit, AllCounted, Fired, Started
<1>7. OneCallAtATime
  BY <1>4, AlikeFacts DEF TriggerInit, OneCallAtATime, Same
<1> QED
  BY <1>3, <1>4, <1>5, <1>6, <1>7 DEF TriggerInv

\* The inductive invariant of the triggers.
THEOREM TriggerInvariant == TriggerSpec => []TriggerInv
<1>1. TriggerInv /\ [TriggerNext]_trigVars => TriggerInv'
  <2> SUFFICES ASSUME TriggerInv, [TriggerNext]_trigVars PROVE TriggerInv'
    OBVIOUS
  <2> USE DEF TriggerInv
  <2>1. CASE LoopStep
    <3>1. TriggerTypeOK' /\ Prepared' /\ Remembered' /\ AllCounted'
      BY <2>1, LoopTypes, LoopFires
    <3>2. OneCallAtATime'
      BY <2>1, LoopKeepsRegistry, LoopKeepsSaved
    <3> QED
      BY <3>1, <3>2
  <2>2. CASE Restart
    BY <2>2, RestartKeeps
  <2>3. ASSUME NEW c \in Calls, CallStep(c) PROVE TriggerInv'
    BY <2>3, CallShape, CallFires, CallKeepsSaved
  <2>4. CASE UNCHANGED trigVars
    <3>1. /\ UNCHANGED <<time, registry, preferences, seen, loop, published, call, glitches, torn,
                         forgotten, served>>
      BY <2>4 DEF trigVars
    <3>2. TriggerTypeOK' /\ Prepared' /\ Remembered'
      BY <3>1 DEF TriggerTypeOK, Prepared, Remembered
    <3>4. AllCounted'
      <4>1. \A k \in Keys : Fired(k)'
        BY <3>1 DEF AllCounted, Fired
      <4> QED
        BY <4>1, CountedThen
    <3>3. OneCallAtATime'
      BY <3>1, LoopKeepsSaved, AlikeFacts DEF Same
    <3> QED
      BY <3>2, <3>3, <3>4
  <2> QED
    BY <2>1, <2>2, <2>3, <2>4 DEF TriggerNext, LoopStep
<1> QED
  BY <1>1, TriggerInitInv, PTL DEF TriggerSpec

\* However triggers are rescheduled, snoozed, resumed and rolled back while the loop awaits a
\* publish, and however often the process restarts, each is published once a day and once more
\* for each time that its key was forgotten, and none is skipped for nothing
\* (triggers/engine.py, _dispatch and _mark_seen).
THEOREM FiredOncePerDayHolds == TriggerSpec => []FiredOncePerDay
<1>1. TriggerInv => FiredOncePerDay
  BY FiredIs DEF TriggerInv
<1> QED
  BY <1>1, TriggerInvariant, PTL

\* With one call at a time, whatever saves are refused and however often the process restarts,
\* what is registered is saved, and what is saved for the agent and the user of the gateway is
\* registered (api/agent.py, triggers/persistence.py, gateway/app.py).
THEOREM SavedAsRegisteredHolds == TriggerSpec => []SavedAsRegistered
<1>1. TriggerInv => SavedAsRegistered
  BY DEF TriggerInv, OneCallAtATime, Same, Alike, SavedAsRegistered
<1> QED
  BY <1>1, TriggerInvariant, PTL

-----------------------------------------------------------------------------
(***************************************************************************)
(* The services side by side, as MCServices composes them.                  *)
(***************************************************************************)

\* A behaviour of the services is one of each of them.
LEMMA ServicesAreParts ==
  ServicesSpec => Spec /\ TriggerSpec /\ ProvSpec /\ GateSpec /\ PlannerSpec
<1>1. ServicesInit => Init /\ TriggerInit /\ ProvInit /\ GateInit /\ PlannerInit
  BY DEF ServicesInit
<1>2. [ServicesNext]_allVars =>
        /\ [Next]_vars /\ [TriggerNext]_trigVars /\ [ProvNext]_provVars
        /\ [GateNext]_gateVars /\ [PlannerNext]_plannerVars
  BY DEF ServicesNext, allVars
<1> QED
  BY <1>1, <1>2, PTL
     DEF ServicesSpec, Spec, TriggerSpec, ProvSpec, GateSpec, PlannerSpec

\* Every part is type-correct in every state of the services.
THEOREM ServicesTypesHold ==
  ASSUME ProvAssumption, Polls \in Nat
  PROVE  ServicesSpec => []TypesOK
<1>1. Spec => []TypeOK
  BY TypeCorrect
<1>2. TriggerSpec => []TriggerTypeOK
  <2>1. TriggerInv => TriggerTypeOK
    BY DEF TriggerInv
  <2> QED
    BY <2>1, TriggerInvariant, PTL
<1>3. ProvSpec => []ProvTypeOK
  <2>1. ProvTypeOK /\ ProvisionedWhole => ProvTypeOK
    OBVIOUS
  <2> QED
    BY <2>1, ProvisionedWholeHolds, PTL
<1>4. GateSpec => []GateTypeOK
  <2>1. GateTypeOK /\ CalledAsApproved => GateTypeOK
    OBVIOUS
  <2> QED
    BY <2>1, CalledAsApprovedHolds, PTL
<1>5. PlannerSpec => []PlannerTypeOK
  <2>1. PlannerInv => PlannerTypeOK
    BY DEF PlannerInv
  <2> QED
    BY <2>1, PlannerInvariant, PTL
<1>6. TypeOK /\ TriggerTypeOK /\ ProvTypeOK /\ GateTypeOK /\ PlannerTypeOK => TypesOK
  BY DEF TypesOK
<1> QED
  BY <1>1, <1>2, <1>3, <1>4, <1>5, <1>6, ServicesAreParts, PTL
=============================================================================
