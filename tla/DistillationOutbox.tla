------------------------- MODULE DistillationOutbox -------------------------
(***************************************************************************)
(* Lines distilled from messages go to a table and from there to the        *)
(* intelligence of a node or to a memory file: distillation/outbox.py and   *)
(* workers/distillation_worker.py.  A line is named by the write that       *)
(* brought it; nodes and files are sequences of lines.                      *)
(***************************************************************************)
EXTENDS Integers, Sequences, FiniteSets

CONSTANTS
  Writes,      \* the writes that are enqueued
  KeyOf,       \* KeyOf[x]: message, target and type
  TargetOf,    \* TargetOf[x]: the node or the memory file
  Nodes,       \* the targets that are nodes; the others are files
  Workers,     \* the workers
  Limit,       \* rows a worker reads: 100
  MaxRetries,  \* 5
  Mishaps,     \* what may fail: "insert", "list", "read", "write", "mark", "delete", "crash"
  MaxMishaps   \* bound: how often

VARIABLES
  row,         \* the rows of distillation_outbox
  created,     \* created_at: the rows by age, 0 for a write that has no row
  text,        \* the targets
  missing,     \* the nodes that are gone
  worker,      \* the workers
  mishaps,     \* what has failed: a counter
  unmarked,    \* ghost: the writes that were applied and then not marked
  spoilt       \* ghost: targets of a batch read while a worker was busy, or whose file
               \* was not read

outVars == <<row, created, text, missing, worker, mishaps, unmarked, spoilt>>

ASSUME OutboxAssumption ==
  /\ IsFiniteSet(Writes) /\ IsFiniteSet(Workers)
  /\ Limit \in Nat /\ MaxRetries \in Nat \ {0} /\ MaxMishaps \in Nat

Targets == {TargetOf[x] : x \in Writes}

\* Workers that share a batch may each add the last retry.
Retries == 0..(MaxRetries + Cardinality(Workers) - 1)

Row == [in : BOOLEAN, processed : BOOLEAN, retries : Retries]

\* batch: the rows that were read, with their retries; read: the target as it was read.
Worker == [pc : {"idle", "next", "apply", "mark", "fail"},
           batch : Seq(Writes \X Retries), read : Seq(Writes)]

Free == [pc |-> "idle", batch |-> <<>>, read |-> <<>>]

OutInit ==
  /\ row = [x \in Writes |-> [in |-> FALSE, processed |-> FALSE, retries |-> 0]]
  /\ created = [x \in Writes |-> 0]
  /\ text = [t \in Targets |-> <<>>] /\ missing = {}
  /\ worker = [w \in Workers |-> Free]
  /\ mishaps = 0 /\ unmarked = {} /\ spoilt = {}

Mishap(what) == what \in Mishaps /\ mishaps < MaxMishaps /\ mishaps' = mishaps + 1

Rows == {x \in Writes : row[x].in}

\* The row the worker is at.
Entry(w) == worker[w].batch[1][1]

Tries(w) == worker[w].batch[1][2]

Target(w) == TargetOf[Entry(w)]

\* Mutant: a row is tried for ever.
TryAlways(w) == TRUE

\* A row that has failed MaxRetries times is left alone.
MayTry(w) == Tries(w) < MaxRetries

-----------------------------------------------------------------------------
Insert(x) ==
  /\ row' = [row EXCEPT ![x].in = TRUE]
  /\ created' = [created EXCEPT ![x] = Cardinality(Rows) + 1]

\* Mutant: the key is not unique.
EnqueueAgain(x) ==
  /\ ~row[x].in
  /\ Insert(x) /\ UNCHANGED mishaps
  /\ UNCHANGED <<text, missing, worker, unmarked, spoilt>>

\* A second row with the key of another is not inserted; an insert that fails is logged.
Enqueue(x) ==
  /\ x \notin Rows
  /\ \/ /\ ~\E y \in Rows : KeyOf[y] = KeyOf[x]
        /\ Insert(x) /\ UNCHANGED mishaps
     \/ Mishap("insert") /\ UNCHANGED <<row, created>>
  /\ UNCHANGED <<text, missing, worker, unmarked, spoilt>>

Open == {x \in Rows : ~row[x].processed}

\* The answer of the query, as a set: the rows that are not processed, oldest first, at
\* most Limit.
Pending ==
  {b \in UNION {[1..n -> Open] : n \in 1..Limit} :
     /\ \A i, j \in DOMAIN b : i < j => created[b[i]] < created[b[j]]
     /\ \A x \in Open : \/ \E i \in DOMAIN b : b[i] = x
                       \/ /\ Len(b) = Limit
                          /\ \A i \in DOMAIN b : created[b[i]] < created[x]}

Busy(w) == worker[w].pc # "idle"

ListPending(w) ==
  /\ ~Busy(w)
  /\ \E b \in Pending :
       \/ /\ worker' = [worker EXCEPT ![w] =
                 [pc |-> "next", batch |-> [i \in DOMAIN b |-> <<b[i], row[b[i]].retries>>],
                  read |-> <<>>]]
          /\ spoilt' = IF \E v \in Workers : Busy(v)
                       THEN spoilt \cup {TargetOf[b[i]] : i \in DOMAIN b} ELSE spoilt
          /\ UNCHANGED mishaps
       \/ Mishap("list") /\ UNCHANGED <<worker, spoilt>>
  /\ UNCHANGED <<row, created, text, missing, unmarked>>

\* The end of the batch, or a row that has failed too often.
Skip(w) ==
  /\ worker[w].pc = "next"
  /\ \/ worker[w].batch = <<>> /\ worker' = [worker EXCEPT ![w] = Free]
     \/ /\ worker[w].batch # <<>> /\ ~MayTry(w)
        /\ worker' = [worker EXCEPT ![w].batch = Tail(@)]
  /\ UNCHANGED <<row, created, text, missing, mishaps, unmarked, spoilt>>

\* The target is read.  A node that is gone, or that cannot be read, fails the row; a file
\* that cannot be read is taken for empty.
ReadTarget(w) ==
  /\ worker[w].pc = "next" /\ worker[w].batch # <<>> /\ MayTry(w)
  /\ \/ /\ Target(w) \notin missing
        /\ worker' = [worker EXCEPT ![w].pc = "apply", ![w].read = text[Target(w)]]
        /\ UNCHANGED <<spoilt, mishaps>>
     \/ /\ Target(w) \in missing
        /\ worker' = [worker EXCEPT ![w].pc = "fail"]
        /\ UNCHANGED <<spoilt, mishaps>>
     \/ /\ Mishap("read") /\ Target(w) \in Nodes
        /\ worker' = [worker EXCEPT ![w].pc = "fail"] /\ UNCHANGED spoilt
     \/ /\ Mishap("read") /\ Target(w) \notin Nodes
        /\ worker' = [worker EXCEPT ![w].pc = "apply", ![w].read = <<>>]
        /\ spoilt' = spoilt \cup {Target(w)}
  /\ UNCHANGED <<row, created, text, missing, unmarked>>

Updated(w) == Append(worker[w].read, Entry(w))

\* Writing a node that has been deleted meanwhile does nothing.
TakesEffect(w) == text' = IF Target(w) \in missing THEN text ELSE [text EXCEPT ![Target(w)] = Updated(w)]

\* A write that raises may have taken effect.
Apply(w) ==
  /\ worker[w].pc = "apply"
  /\ \/ /\ TakesEffect(w) /\ UNCHANGED <<mishaps, unmarked>>
        /\ worker' = [worker EXCEPT ![w].pc = "mark", ![w].read = <<>>]
     \/ /\ Mishap("write")
        /\ worker' = [worker EXCEPT ![w].pc = "fail", ![w].read = <<>>]
        /\ \/ UNCHANGED <<text, unmarked>>
           \/ TakesEffect(w) /\ unmarked' = unmarked \cup {Entry(w)}
  /\ UNCHANGED <<row, created, missing, spoilt>>

\* A mark that fails is logged, and the row stays as it is.
MarkProcessed(w) ==
  /\ worker[w].pc = "mark"
  /\ \/ /\ row' = [row EXCEPT ![Entry(w)].processed = TRUE]
        /\ UNCHANGED <<mishaps, unmarked>>
     \/ Mishap("mark") /\ unmarked' = unmarked \cup {Entry(w)} /\ UNCHANGED row
  /\ worker' = [worker EXCEPT ![w].pc = "next", ![w].batch = Tail(@)]
  /\ UNCHANGED <<created, text, missing, spoilt>>

MarkFailed(w) ==
  /\ worker[w].pc = "fail"
  /\ \/ row' = [row EXCEPT ![Entry(w)].retries = @ + 1] /\ UNCHANGED mishaps
     \/ Mishap("mark") /\ UNCHANGED row
  /\ worker' = [worker EXCEPT ![w].pc = "next", ![w].batch = Tail(@)]
  /\ UNCHANGED <<created, text, missing, unmarked, spoilt>>

DeleteNode ==
  /\ Mishap("delete")
  /\ \E t \in Nodes : missing' = missing \cup {t}
  /\ UNCHANGED <<row, created, text, worker, unmarked, spoilt>>

CrashWorker(w) ==
  /\ Busy(w) /\ Mishap("crash")
  /\ unmarked' = IF worker[w].pc = "mark" THEN unmarked \cup {Entry(w)} ELSE unmarked
  /\ worker' = [worker EXCEPT ![w] = Free]
  /\ UNCHANGED <<row, created, text, missing, spoilt>>

WorkerStep(w) == \/ Skip(w) \/ ReadTarget(w) \/ Apply(w) \/ MarkProcessed(w) \/ MarkFailed(w)

OutNext == \/ \E x \in Writes : Enqueue(x)
           \/ \E w \in Workers : ListPending(w) \/ WorkerStep(w) \/ CrashWorker(w)
           \/ DeleteNode

OutSpec == OutInit /\ [][OutNext]_outVars

-----------------------------------------------------------------------------
OutTypeOK ==
  /\ row \in [Writes -> Row] /\ created \in [Writes -> Nat]
  /\ text \in [Targets -> Seq(Writes)] /\ missing \subseteq Nodes
  /\ worker \in [Workers -> Worker]
  /\ mishaps \in 0..MaxMishaps /\ unmarked \subseteq Writes /\ spoilt \subseteq Targets

Occurs(lines, x) == Cardinality({i \in DOMAIN lines : lines[i] = x})

Times(x) == Occurs(text[TargetOf[x]], x)

Marking(x) == \E w \in Workers : worker[w].pc = "mark" /\ Entry(w) = x

\* A target that no two workers had in hand, that is still there and whose file could always
\* be read, keeps every line it was given: it has the line of a row once from the moment the
\* worker applies it, however often reading, writing or a worker failed before, more than
\* once only when it was applied and not marked, and one line for writes of the same key.
AppliedOnce ==
  \A x \in Writes : TargetOf[x] \notin spoilt \cup missing =>
    /\ IF x \in unmarked THEN Times(x) >= 1
       ELSE Times(x) = IF row[x].processed \/ Marking(x) THEN 1 ELSE 0
    /\ \A y \in Writes : KeyOf[x] = KeyOf[y] /\ x # y => Times(x) = 0 \/ Times(y) = 0
=============================================================================
