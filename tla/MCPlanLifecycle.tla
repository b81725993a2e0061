-------------------------- MODULE MCPlanLifecycle --------------------------
(***************************************************************************)
(* A plan of two tasks, the first delegated, that is proposed, edited,     *)
(* approved twice and executed twice, in any order.                         *)
(***************************************************************************)
EXTENDS PlanLifecycle

CONSTANTS propose, edit, approve1, approve2, execute1, execute2

MCOp == [r \in Requests |-> CASE r = propose -> "propose"
                              [] r = edit -> "edit"
                              [] r \in {approve1, approve2} -> "approve"
                              [] OTHER -> "execute"]
=============================================================================
