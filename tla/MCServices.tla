----------------------------- MODULE MCServices -----------------------------
(***************************************************************************)
(* Small instances of the parts that share no state with the tasks and with *)
(* each other: the tools of the plan lifecycle, the trigger engine, the     *)
(* sign-in, the approval of gated calls and the dispatch planner.  A        *)
(* behaviour is a behaviour of one of them; the others stay as they have    *)
(* started.                                                                 *)
(***************************************************************************)
EXTENDS MCPlanLifecycle, Provisioning, GatedApproval, TriggerEngine, DispatchPlanner, TLC

VARIABLE service

\* Two accounts of one provider are the same; the third has only the address in common.
MCSubject == [s \in SignIns |-> IF s = 3 THEN "github" ELSE "google"]

MCEmail == [s \in SignIns |-> "address"]

\* Every dependency graph, self-loops and cycles included, on three tasks delegated once each.
MCTaskOf == [j \in Jobs |-> j]

allVars == <<service, vars, trigVars, provVars, gateVars, plannerVars>>

ServicesInit ==
  /\ service \in {"plan", "triggers", "provision", "gate", "planner"}
  /\ Init /\ TriggerInit /\ ProvInit /\ GateInit /\ PlannerInit
  /\ service # "planner" => depends = {}
  /\ service # "triggers" => served

ServicesNext ==
  /\ UNCHANGED service
  /\ \/ /\ service = "plan" /\ Next
        /\ UNCHANGED <<trigVars, provVars, gateVars, plannerVars>>
     \/ /\ service = "triggers" /\ TriggerNext
        /\ UNCHANGED <<vars, provVars, gateVars, plannerVars>>
     \/ /\ service = "provision" /\ ProvNext
        /\ UNCHANGED <<vars, trigVars, gateVars, plannerVars>>
     \/ /\ service = "gate" /\ GateNext
        /\ UNCHANGED <<vars, trigVars, provVars, plannerVars>>
     \/ /\ service = "planner" /\ PlannerNext
        /\ UNCHANGED <<vars, trigVars, provVars, gateVars>>

ServicesSpec == ServicesInit /\ [][ServicesNext]_allVars

\* The ids of triggers are interchangeable.
Symmetry == Permutations(Calls)

-----------------------------------------------------------------------------
\* The type invariant of the part that runs.
TypesOK ==
  /\ service = "plan" => TypeOK
  /\ service = "triggers" => TriggerTypeOK
  /\ service = "provision" => ProvTypeOK
  /\ service = "gate" => GateTypeOK
  /\ service = "planner" => PlannerTypeOK

\* "edge query failed: ... treating as no dependencies": after a failure all the jobs are one
\* tier.  The code does not keep this: the edges fetched before the failure are used.
FailureMeansNoDependencies == Planned /\ faulted => plan = <<Jobs>>
=============================================================================
