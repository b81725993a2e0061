---------------------------- MODULE StateMachine ----------------------------
(***************************************************************************)
(* The task state machine: the transition table of state/transitions.py    *)
(* and the guards that StateMachine.transition (state/machine.py) applies  *)
(* to every requested transition.  It is pure: a task is described by what *)
(* the guards look at, the requested step by its source, target and actor. *)
(***************************************************************************)
EXTENDS Naturals, Sequences

TaskState == {"PENDING", "ACTIVE", "IN_PROGRESS", "BLOCKED", "DELAYED",
              "NEEDS_REVIEW", "COMPLETE", "CANCELLED", "SNOOZED",
              "INACTIVE_PENDING"}

TaskType == {"ATOMIC", "COMPOSITE", "DELEGATED", "FOLLOWUP", "APPROVAL",
             "MILESTONE", "REVIEW", "RECURRING", "DECISION", "CHECKIN",
             "RESEARCH"}

ChangedBy == {"AGENT", "HUMAN", "SYSTEM", "CASCADE"}

GateType == {"AND", "OR"}

\* What the guards read of a task besides its state.  lowConf stands for
\* progress.confidence == LOW, auto for autonomy.auto_update_allowed, gate and
\* autoComplete for the composite metadata (AND and TRUE when there is none).
TaskInfo == [type : TaskType, lowConf : BOOLEAN, auto : BOOLEAN,
             gate : GateType, autoComplete : BOOLEAN]

VALID_TRANSITIONS ==
  [PENDING          |-> {"ACTIVE", "CANCELLED", "SNOOZED", "INACTIVE_PENDING"},
   ACTIVE           |-> {"IN_PROGRESS", "COMPLETE", "BLOCKED", "DELAYED",
                         "NEEDS_REVIEW", "CANCELLED", "SNOOZED"},
   IN_PROGRESS      |-> {"COMPLETE", "BLOCKED", "DELAYED", "NEEDS_REVIEW",
                         "CANCELLED"},
   BLOCKED          |-> {"ACTIVE"},
   DELAYED          |-> {"IN_PROGRESS"},
   NEEDS_REVIEW     |-> {"IN_PROGRESS", "COMPLETE"},
   SNOOZED          |-> {"ACTIVE"},
   INACTIVE_PENDING |-> {"ACTIVE"},
   COMPLETE         |-> {},
   CANCELLED        |-> {}]

-----------------------------------------------------------------------------
\* _check_transition_table: the table, plus the low-confidence reopen.
InTransitionTable(from, to) ==
  \/ from = "COMPLETE" /\ to = "NEEDS_REVIEW"
  \/ to \in VALID_TRANSITIONS[from]

\* _guard_terminal_complete: only a low-confidence task is reopened.
GuardTerminalComplete(info, from, to) ==
  from = "COMPLETE" => to = "NEEDS_REVIEW" /\ info.lowConf

GuardTerminalCancelled(from) == from # "CANCELLED"

GuardApprovalAutoResolve(info, to, by) ==
  info.type = "APPROVAL" /\ to = "COMPLETE" => by = "HUMAN"

\* _guard_inactive_pending_activation and _guard_blocked_activation.
GuardActivation(from, to, by) ==
  from \in {"INACTIVE_PENDING", "BLOCKED"} /\ to = "ACTIVE"
    => by \in {"CASCADE", "HUMAN", "SYSTEM"}

GuardAutonomy(info, by) == by = "AGENT" => info.auto

\* StateMachine.transition raises InvalidTransitionError unless this holds.
CanTransition(info, from, to, by) ==
  /\ InTransitionTable(from, to)
  /\ GuardTerminalCancelled(from)
  /\ GuardTerminalComplete(info, from, to)
  /\ GuardApprovalAutoResolve(info, to, by)
  /\ GuardActivation(from, to, by)
  /\ GuardAutonomy(info, by)

-----------------------------------------------------------------------------
\* The mutable part of a TaskNode: its state and its state_history.
HistoryEntry == [from : TaskState, to : TaskState, by : ChangedBy]

TaskRecord == [state : TaskState, hist : Seq(HistoryEntry)]

\* Mutant: the entry is recorded after the state was assigned.
TransitionedFromNew(rec, to, by) ==
  [state |-> to, hist |-> Append(rec.hist, [from |-> to, to |-> to, by |-> by])]

\* The effect of StateMachine.transition on the in-memory task.
Transitioned(rec, to, by) ==
  [state |-> to,
   hist  |-> Append(rec.hist, [from |-> rec.state, to |-> to, by |-> by])]

\* A handler may chain several transitions in memory before it persists the
\* task once; the first one that raises aborts them all.
PathSource(rec, path, i) == IF i = 1 THEN rec.state ELSE path[i - 1]

CanWalk(info, rec, path, by) ==
  \A i \in 1..Len(path) :
    CanTransition(info, PathSource(rec, path, i), path[i], by)

Walked(rec, path, by) ==
  [state |-> PathSource(rec, path, Len(path) + 1),
   hist  |-> rec.hist \o
             [i \in 1..Len(path) |->
                [from |-> PathSource(rec, path, i), to |-> path[i], by |-> by]]]

\* A record the machine could have produced from a task created in state init:
\* its history is a chain of permitted transitions that ends in its state.
StateBefore(init, hist, i) == IF i = 1 THEN init ELSE hist[i - 1].to

LegalRecord(info, init, rec) ==
  /\ rec.state = StateBefore(init, rec.hist, Len(rec.hist) + 1)
  /\ \A i \in 1..Len(rec.hist) :
       /\ rec.hist[i].from = StateBefore(init, rec.hist, i)
       /\ CanTransition(info, rec.hist[i].from, rec.hist[i].to, rec.hist[i].by)
=============================================================================
