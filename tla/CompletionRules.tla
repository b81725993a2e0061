--------------------------- MODULE CompletionRules ---------------------------
(***************************************************************************)
(* What the cascade promises (the docstrings of state/cascade.py and the   *)
(* completion gates of models/nodes.py), without handlers, copies or       *)
(* loops: which tasks may be completed by whom, and which may be activated *)
(* because something they depend on is finished.                           *)
(***************************************************************************)
EXTENDS StateMachine, FiniteSets

CONSTANTS
  Tasks, Info, PartOf, DependsOn,
  MayMiss    \* the tasks that may not be there to read: nobody waits for them

VARIABLES
  done,      \* <<t, by>>: t has been completed by a person or by the cascade
  released   \* tasks the cascade has taken out of INACTIVE_PENDING

Finished == {t \in Tasks : \E by \in ChangedBy : <<t, by>> \in done}

ChildrenOf(p) == {c \in Tasks : <<c, p>> \in PartOf}

PredecessorsOf(d) == {t \in Tasks : <<d, t>> \in DependsOn}

Init == done = {} /\ released = {}

\* A person completes a task (the agent's tool acts in a person's name).
Complete(t) == done' = done \cup {<<t, "HUMAN">>} /\ UNCHANGED released

\* check_composite_completion: a composite with an AND gate needs every child,
\* one with an OR gate needs one, and a child that a person has to look at is
\* never skipped: of the children that can be read.
RollUp(p) ==
  /\ Info[p].type \in {"COMPOSITE", "MILESTONE"}
  /\ Info[p].autoComplete
  /\ ChildrenOf(p) \cap Finished # {}
  /\ Info[p].gate = "AND" => ChildrenOf(p) \ MayMiss \subseteq Finished
  /\ \A c \in (ChildrenOf(p) \ MayMiss) \ Finished : Info[c].type \notin {"REVIEW", "APPROVAL"}
  /\ \A c \in ChildrenOf(p) \ MayMiss :
       Info[c].type \in {"RESEARCH", "REVIEW"} => ~Info[c].lowConf
  /\ done' = done \cup {<<p, "CASCADE">>}
  /\ UNCHANGED released

\* activate_next_in_chain: a task that waits is released by a predecessor.
Release(d) ==
  /\ PredecessorsOf(d) \cap Finished # {}
  /\ released' = released \cup {d}
  /\ UNCHANGED done

Next == \E t \in Tasks : Complete(t) \/ RollUp(t) \/ Release(t)

Spec == Init /\ [][Next]_<<done, released>>
=============================================================================
