---------------------------- MODULE MCTaskCascade ----------------------------
(***************************************************************************)
(* Small task graphs for TaskCascade.                                      *)
(*                                                                         *)
(*   Tree: m (MILESTONE, OR) <- p (COMPOSITE, AND) <- {a, b}; d waits for  *)
(*   p and e waits for a (DEPENDS_ON).  a is an ordinary task, b needs a   *)
(*   person's approval.                                                    *)
(*   Pair: p <- {a, b} with two ordinary children, d waits for a and for   *)
(*   b.                                                                    *)
(*   Study: p <- {a, b} where b is research of low confidence, which can   *)
(*   be reopened.                                                          *)
(***************************************************************************)
EXTENDS TaskCascade, TLC

Plain(type) == [type |-> type, lowConf |-> FALSE, auto |-> TRUE,
                gate |-> "AND", autoComplete |-> TRUE]

Transition(t, s) == [kind |-> "transition", task |-> t, target |-> s]

HandlerSymmetry == Permutations(Handlers)

-----------------------------------------------------------------------------
TreeTasks == {"a", "b", "p", "m", "d", "e"}

TreeInfo ==
  [t \in TreeTasks |->
     CASE t = "b" -> Plain("APPROVAL")
       [] t = "p" -> Plain("COMPOSITE")
       [] t = "m" -> [Plain("MILESTONE") EXCEPT !.gate = "OR"]
       [] OTHER   -> Plain("ATOMIC")]

TreeInit ==
  [t \in TreeTasks |->
     CASE t \in {"d", "e"} -> "INACTIVE_PENDING"
       [] t = "b"          -> "PENDING"
       [] OTHER            -> "ACTIVE"]

TreePartOf == {<<"a", "p">>, <<"b", "p">>, <<"p", "m">>, <<"e", "m">>}

TreeDependsOn == {<<"d", "p">>, <<"e", "a">>}

TreeRequests ==
  {Transition("a", s) : s \in {"COMPLETE", "CANCELLED", "BLOCKED"}}
  \cup {Transition("p", s) : s \in {"COMPLETE", "NEEDS_REVIEW"}}
  \cup {Transition("e", "COMPLETE"), Transition("b", "COMPLETE"),
        [kind |-> "approve", task |-> "b", target |-> "COMPLETE"],
        [kind |-> "deny",    task |-> "b", target |-> "CANCELLED"]}

-----------------------------------------------------------------------------
PairTasks == {"a", "b", "p", "d"}

PairInfo == [t \in PairTasks |-> Plain(IF t = "p" THEN "COMPOSITE" ELSE "ATOMIC")]

PairInit == [t \in PairTasks |-> IF t = "d" THEN "INACTIVE_PENDING" ELSE "ACTIVE"]

PairPartOf == {<<"a", "p">>, <<"b", "p">>}

PairDependsOn == {<<"d", "a">>, <<"d", "b">>}

PairRequests ==
  {Transition(t, s) : t \in {"a", "b"}, s \in {"IN_PROGRESS", "COMPLETE", "CANCELLED"}}

\* The same graph as the API creates it: tasks start PENDING, and nobody has
\* activated the composite.
PairInitPending == [PairInit EXCEPT !["p"] = "PENDING"]

\* A child that the agent may not update on its own.
GuardedInfo == [PairInfo EXCEPT !["a"].auto = FALSE]

ToolRequests == {[kind |-> "tool", task |-> "a", target |-> "COMPLETE"]}

-----------------------------------------------------------------------------
StudyInfo == [PairInfo EXCEPT !["b"] = [Plain("RESEARCH") EXCEPT !.lowConf = TRUE]]

StudyRequests ==
  {Transition("a", "COMPLETE"), Transition("b", "COMPLETE"),
   Transition("b", "NEEDS_REVIEW"), Transition("p", "COMPLETE"),
   Transition("p", "IN_PROGRESS"), Transition("d", "CANCELLED")}

-----------------------------------------------------------------------------
(* More promises the code does not keep, in the setting of                     *)
(* MCTaskCascadeAndGate.cfg but for the constants named.  CompositeRollsUp fails *)
(* with InitState <- PairInitPending.                                            *)

\* A record is "appended on every transition" (models/nodes.py, StateHistoryEntry): no
\* handler's update_node takes back a transition another handler has persisted.  Fails with
\* MaxInFlight = 2: the whole copy is written back, with no version check.
HistoryAppendOnly ==
  [][\A t \in Tasks : /\ Len(node[t].hist) <= Len(node'[t].hist)
                      /\ node[t].hist = SubSeq(node'[t].hist, 1, Len(node[t].hist))]_node

\* CANCELLED is an absolute terminal state (_guard_terminal_cancelled), not of
\* a copy but of the task.  Fails with MaxInFlight = 2 likewise.
CancelledIsFinal ==
  [][\A t \in Tasks : node[t].state = "CANCELLED" => node'[t].state = "CANCELLED"]_node

\* _guard_autonomy: what the agent changes on its own, on a task that does not
\* permit autonomous updates, must be surfaced for human review instead.  The tool
\* passes HUMAN: fails with Info <- GuardedInfo and Requests <- ToolRequests.
AgentNeedsAutonomy ==
  \A h \in Handlers :
    req[h] # NoRequest /\ req[h].kind = "tool" /\ ~Info[req[h].task].auto
      => pc[h] \in {"apply", "rejected", "failed"}

\* update_node strips lifecycle fields it may not write: a request that the
\* machine permits is never refused by the store.  It raises instead: fails with
\* StorePrincipal = "agent_principal", the default.
StoreAcceptsLegalRequests ==
  \A h \in Handlers : pc[h] = "failed" =>
    LET r == req[h]  old == snap[h][r.task] IN
    ~CanWalk(Info[r.task], old, RequestPath(r, old.state), RequestActor(r))
=============================================================================
