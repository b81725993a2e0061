---------------------------- MODULE MCAgentFiles ----------------------------
(***************************************************************************)
(* Small instances of what is kept in objects that several calls read and   *)
(* write whole: the notes of an agent, its semantic memory, its definition  *)
(* and the targets of the distillation outbox.  They share no object here:  *)
(* a behaviour is a behaviour of one of them.                               *)
(***************************************************************************)
EXTENDS AgentMemory, SemanticMemory, AgentCatalog, DistillationOutbox, TLC

VARIABLE object

\* Three writes to a node, two of them with the same key, and one to a file.
MCKeyOf == [x \in Writes |-> IF x = 2 THEN 1 ELSE x]

MCTargetOf == [x \in Writes |-> IF x = 4 THEN "file" ELSE "node"]

\* What is not used starts in one way only.
FilesInit ==
  /\ object \in {"notes", "semantic", "catalog", "outbox"}
  /\ MemInit /\ (object # "notes" => \A u \in Updates : update[u].kind = "note")
  /\ CatInit /\ (object # "catalog" => \A c \in Clients : client[c].errand = "create")
  /\ OutInit /\ SemInit
  /\ object # "semantic" =>
       \A u \in Writers : writer[u].deed = "put" /\ writer[u].topic = CHOOSE t \in Topics : TRUE

FilesNext ==
  /\ UNCHANGED object
  /\ \/ object = "notes" /\ MemNext /\ UNCHANGED <<semVars, catVars, outVars>>
     \/ object = "semantic" /\ SemNext /\ UNCHANGED <<memVars, catVars, outVars>>
     \/ object = "catalog" /\ CatNext /\ UNCHANGED <<memVars, semVars, outVars>>
     \/ object = "outbox" /\ OutNext /\ UNCHANGED <<memVars, semVars, catVars>>

filesVars == <<object, memVars, semVars, catVars, outVars>>

FilesSpec == FilesInit /\ [][FilesNext]_filesVars

\* Calls and workers are interchangeable.
Symmetry == Permutations(Updates) \cup Permutations(Workers)

-----------------------------------------------------------------------------
\* The type invariants of the parts.  That of the notes says that the intelligence of a node
\* does not outgrow its cap; that of the outbox that a row is not tried for ever: mark_failed
\* counts, and the worker looks at the count.
TypesOK == MemTypeOK /\ SemTypeOK /\ CatTypeOK /\ OutTypeOK
=============================================================================
