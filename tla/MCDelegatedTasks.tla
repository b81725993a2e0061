-------------------------- MODULE MCDelegatedTasks --------------------------
(***************************************************************************)
(* A composite p of an ordinary task a and an approval b, both handed to   *)
(* agents while people complete, cancel and approve them.                  *)
(***************************************************************************)
EXTENDS DelegatedTasks, TLC

Kind(type) == [type |-> type, lowConf |-> FALSE, auto |-> FALSE,
               gate |-> "AND", autoComplete |-> TRUE]

MCTasks == {"a", "b", "p"}

MCInfo ==
  [t \in MCTasks |-> CASE t = "a" -> Kind("ATOMIC")
                       [] t = "b" -> Kind("APPROVAL")
                       [] t = "p" -> Kind("COMPOSITE")]

MCInit == [t \in MCTasks |-> "ACTIVE"]

MCPartOf == {<<"a", "p">>, <<"b", "p">>}

MCRequests ==
  {[kind |-> "transition", task |-> t, target |-> s] :
     t \in {"a", "b"}, s \in {"COMPLETE", "CANCELLED"}}
  \cup {[kind |-> "approve", task |-> "b", target |-> "COMPLETE"]}

MCDelegatedTask == [g \in Delegations |-> g]

HandlerSymmetry == Permutations(Handlers)
=============================================================================
