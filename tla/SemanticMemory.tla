--------------------------- MODULE SemanticMemory ---------------------------
(***************************************************************************)
(* The semantic memory of an agent: a file for each topic, and an index     *)
(* that names them, which is what a prompt shows.  Files and index are      *)
(* written one after the other by the routes of api/intelligence.py and by  *)
(* DistillationHelper._write_semantic_fact (agent/distillation.py); an      *)
(* agent is created, or renamed, with a file of its own.                    *)
(***************************************************************************)
EXTENDS Integers, FiniteSets

CONSTANTS
  Writers,     \* the calls
  Topics,      \* the topics
  Deeds,       \* what a call may do: "put", "delete", "rename", "fact", "provision"
  Troubles,    \* what may fail: "read", "write"
  MaxTroubles  \* bound: how often

ASSUME SemAssumption == MaxTroubles \in Nat

VARIABLES
  file,        \* file[t]: the calls whose text is in the file; {} if there is none
  index,       \* the topics _index.json names
  writer,      \* the calls
  troubles,    \* what has failed: a counter
  loose        \* ghost: topics that two calls had in hand, that a call left half done, or
               \* whose entry was overwritten by a call that had read an older index

semVars == <<file, index, writer, troubles, loose>>

\* to: the topic's new name, or the topic; read: the copy of the file; old: of the index.
Writer == [deed : Deeds, topic : Topics, to : Topics, read : SUBSET Writers, old : SUBSET Topics,
           pc : {"new", "add", "check", "copy", "drop", "index", "list", "done", "failed"}]

\* Only a rename has a second topic.
Asked == {[deed |-> d, topic |-> t, to |-> u, read |-> {}, old |-> {}, pc |-> "new"] :
            d \in Deeds, t \in Topics, u \in Topics}

SemInit ==
  /\ file = [t \in Topics |-> {}] /\ index = {}
  /\ writer \in [Writers -> {w \in Asked : w.deed = "rename" <=> w.to # w.topic}]
  /\ troubles = 0 /\ loose = {}

Trouble(what) == what \in Troubles /\ troubles < MaxTroubles /\ troubles' = troubles + 1

IsAt(w, pc) == writer[w].pc = pc

Turn(w, pc) == writer' = [writer EXCEPT ![w].pc = pc]

Hands(w) == {writer[w].topic, writer[w].to}

Active == {w \in Writers : writer[w].pc \notin {"new", "done", "failed"}}

\* A call takes up its topics; those that another has in hand are loose.
TakeUp(w) == loose' = loose \cup (Hands(w) \cap UNION {Hands(v) : v \in Active \ {w}})

\* A store call raises, and the call ends there.
Raise(w, what) == Trouble(what) /\ Turn(w, "failed") /\ loose' = loose \cup Hands(w)

-----------------------------------------------------------------------------
\* The file of a topic is written whole, or deleted; deleting none is no error.
PutTopic(w) ==
  /\ IsAt(w, "new") /\ writer[w].deed \in {"put", "delete"}
  /\ \/ /\ file' = [file EXCEPT ![writer[w].topic] = IF writer[w].deed = "put" THEN {w} ELSE {}]
        /\ Turn(w, "index") /\ TakeUp(w) /\ UNCHANGED troubles
     \/ Raise(w, "write") /\ UNCHANGED file
  /\ UNCHANGED index

\* The file every agent is created with, and given again when it is renamed; the index does
\* not name it.
Provision(w) ==
  /\ IsAt(w, "new") /\ writer[w].deed = "provision"
  /\ file' = [file EXCEPT ![writer[w].topic] = {w}]
  /\ Turn(w, "done") /\ loose' = loose \cup Hands(w)
  /\ UNCHANGED <<index, troubles>>

\* A fact is added to what the file says; a file that cannot be read is taken for new.  The
\* lock around it is the helper's own, and a helper is made for each turn.
ReadTopic(w) ==
  /\ IsAt(w, "new") /\ writer[w].deed = "fact"
  /\ \/ /\ writer' = [writer EXCEPT ![w].pc = "add", ![w].read = file[writer[w].topic]]
        /\ TakeUp(w) /\ UNCHANGED troubles
     \/ Trouble("read") /\ Turn(w, "add") /\ loose' = loose \cup Hands(w)
  /\ UNCHANGED <<file, index>>

\* Mutant: the fact is all that is written.
OnlyFact(w) == {w}

WithFact(w) == writer[w].read \cup {w}

AddFact(w) ==
  /\ IsAt(w, "add")
  /\ \/ /\ file' = [file EXCEPT ![writer[w].topic] = WithFact(w)]
        /\ Turn(w, "index") /\ UNCHANGED <<loose, troubles>>
     \/ Raise(w, "write") /\ UNCHANGED file
  /\ UNCHANGED index

\* A topic that is not there is not renamed, nor is one renamed to another.
ReadOld(w) ==
  /\ IsAt(w, "new") /\ writer[w].deed = "rename"
  /\ \/ /\ file[writer[w].topic] = {} /\ Turn(w, "done") /\ UNCHANGED <<loose, troubles>>
     \/ /\ file[writer[w].topic] # {}
        /\ writer' = [writer EXCEPT ![w].pc = "check", ![w].read = file[writer[w].topic]]
        /\ TakeUp(w) /\ UNCHANGED troubles
     \/ Trouble("read") /\ Turn(w, "done") /\ UNCHANGED loose
  /\ UNCHANGED <<file, index>>

CheckNew(w) ==
  /\ IsAt(w, "check")
  /\ \/ Turn(w, IF file[writer[w].to] = {} THEN "copy" ELSE "done") /\ UNCHANGED troubles
     \/ Trouble("read") /\ Turn(w, "done")
  /\ UNCHANGED <<file, index, loose>>

CopyToNew(w) ==
  /\ IsAt(w, "copy")
  /\ \/ /\ file' = [file EXCEPT ![writer[w].to] = writer[w].read]
        /\ Turn(w, "drop") /\ UNCHANGED <<loose, troubles>>
     \/ Raise(w, "write") /\ UNCHANGED file
  /\ UNCHANGED index

DropOld(w) ==
  /\ IsAt(w, "drop")
  /\ \/ /\ file' = [file EXCEPT ![writer[w].topic] = {}]
        /\ Turn(w, "index") /\ UNCHANGED <<loose, troubles>>
     \/ Raise(w, "write") /\ UNCHANGED file
  /\ UNCHANGED index

\* An index that cannot be read is taken for empty.
ReadIndex(w) ==
  /\ IsAt(w, "index")
  /\ \/ writer' = [writer EXCEPT ![w].pc = "list", ![w].old = index] /\ UNCHANGED <<loose, troubles>>
     \/ /\ Trouble("read") /\ Turn(w, "list")
        /\ loose' = IF writer[w].deed = "rename" THEN loose \cup Hands(w) ELSE loose
  /\ UNCHANGED <<file, index>>

\* Mutant: the entry of the old name stays.
NamedTwice(w) ==
  LET old == writer[w].old
  IN IF writer[w].deed = "delete" THEN old \ {writer[w].topic} ELSE old \cup {writer[w].to}

\* The index a call writes.  Only an entry that is there is renamed.
Named(w) ==
  LET old == writer[w].old
  IN CASE writer[w].deed = "delete" -> old \ {writer[w].topic}
       [] writer[w].deed = "rename" /\ writer[w].topic \notin old -> old
       [] OTHER -> (old \ {writer[w].topic}) \cup {writer[w].to}

\* What others have changed since the index was read is lost.  A loose topic that is renamed
\* stays loose.
WriteIndex(w) ==
  /\ IsAt(w, "list")
  /\ \/ /\ index' = Named(w)
        /\ loose' = loose \cup (index \ writer[w].old) \cup (writer[w].old \ index)
                          \cup (IF writer[w].topic \in loose THEN Hands(w) ELSE {})
        /\ Turn(w, "done") /\ UNCHANGED troubles
     \/ Raise(w, "write") /\ UNCHANGED index
  /\ UNCHANGED file

WriterStep(w) ==
  \/ PutTopic(w) \/ Provision(w) \/ ReadTopic(w) \/ AddFact(w) \/ ReadOld(w) \/ CheckNew(w)
  \/ CopyToNew(w) \/ DropOld(w) \/ ReadIndex(w) \/ WriteIndex(w)

SemNext == \E w \in Writers : WriterStep(w)

SemSpec == SemInit /\ [][SemNext]_semVars

-----------------------------------------------------------------------------
SemTypeOK ==
  /\ file \in [Topics -> SUBSET Writers] /\ index \subseteq Topics
  /\ writer \in [Writers -> Writer]
  /\ troubles \in 0..MaxTroubles /\ loose \subseteq Topics

\* However calls on different topics interleave, and whatever they find: a topic that no
\* call has in hand and that is not loose is named in the index exactly if it has a file, so
\* that a prompt neither misses a topic nor offers one that is gone.
IndexMatchesTopics ==
  \A t \in Topics \ (loose \cup UNION {Hands(w) : w \in Active}) : t \in index <=> file[t] # {}

\* Adding a fact and renaming take nothing away: what a topic that is not loose says stays
\* in it, or goes to its new name.
FactsKept ==
  [][\A w \in Writers : writer'[w] # writer[w] /\ writer[w].deed \in {"fact", "rename"}
                          /\ Hands(w) \cap loose' = {} =>
       UNION {file[t] : t \in Hands(w)} \subseteq UNION {file'[t] : t \in Hands(w)}]_semVars
=============================================================================
