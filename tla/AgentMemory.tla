---------------------------- MODULE AgentMemory ----------------------------
(***************************************************************************)
(* What an agent writes down: working/context.md, its archive, and the      *)
(* intelligence of a task node.  Each update reads the whole text, awaits,  *)
(* and writes the whole text: inbound/intelligence_agent.py,                *)
(* agent/distillation.py, agent/sub_agent_runner.py,                        *)
(* agent/result_collector.py, agent/event_consumer.py, agent/compaction.py  *)
(* and the routes of api/intelligence.py.  A note is named by the update    *)
(* that brought it.                                                         *)
(***************************************************************************)
EXTENDS Integers, Sequences, FiniteSets, SequencesExt

CONSTANTS
  Updates,     \* the updates of one agent's memory
  Kinds,       \* what updates there may be, see below
  Labels,      \* the names of archive entries: a day and a session label
  Cap,         \* lines an intelligence keeps: 500 words
  Slips,       \* what may fail: "read", "write", "llm"
  MaxSlips,    \* bound: how often
  Nobody

ASSUME MemAssumption == Cap \in Nat /\ MaxSlips \in Nat /\ Nobody \notin Updates

\* Kinds that append a note to the context, that replace it, and that log on the node.
Appending == {"inbound", "distilled", "note", "result"}

Replacing == {"delegation", "put"}

Logging == {"inbound", "sent", "distilled"}

\* The lock of the event consumer, which it gives to the intelligence agent only: a
\* DistillationHelper is made for each turn, and its lock with it.
Locking == {"inbound"}

VARIABLES
  context,     \* the notes in working/context.md
  archive,     \* the snapshots in working/archive, by label
  log,         \* the intelligence of the node, the newest line first
  spill,       \* the lines in its archive
  update,      \* the updates
  lock,        \* who holds the lock of the event consumer
  slips,       \* what has failed: a counter
  stale        \* ghost: updates whose copy is not what is stored

memVars == <<context, archive, log, spill, update, lock, slips, stale>>

\* read: the copy, of the context or of the archive; lines: the copy of the node, then what
\* is cut from it; summary: what a compaction leaves.
Fresh(k) == [kind |-> k, pc |-> "new", read |-> {}, lines |-> <<>>, summary |-> {}]

\* The communications agent keeps what inbound messages say, the agent of the chat what is
\* distilled from its turns.
MemInit ==
  /\ context = {} /\ archive = [l \in Labels |-> {}] /\ log = <<>> /\ spill = {}
  /\ \E kind \in [Updates -> Kinds] :
       /\ ~({"inbound", "distilled"} \subseteq Range(kind))
       /\ update = [u \in Updates |-> Fresh(kind[u])]
  /\ lock = Nobody /\ slips = 0 /\ stale = {}

Slip(what) == what \in Slips /\ slips < MaxSlips /\ slips' = slips + 1

Go(u, pc) == update' = [update EXCEPT ![u].pc = pc]

\* The updates that hold a copy of the context, of the node, of its archive.
Holds(pcs) == {u \in Updates : update[u].pc \in pcs}

\* u writes a text: the copies that others have of it are stale, but not that of an update
\* that the lock keeps apart from u.
Overtake(u, holders) == stale' = stale \cup (holders \ {u})

Sharing(u) == {v \in Holds({"summary", "archive", "write"}) : ~{update[u].kind, update[v].kind} \subseteq Locking}

Unlock(u) == lock' = IF lock = u THEN Nobody ELSE lock

-----------------------------------------------------------------------------
Is(u, kind) == update[u].kind = kind

\* An error of the node ends the update, but not a distillation.
Broken(u) == IF Is(u, "distilled") THEN "noted" ELSE "failed"

\* The node's intelligence is read before the model is asked, or before a line is added
\* for a message that was sent or a turn, which need not be about a task.
ReadNode(u) ==
  /\ update[u].pc = "new" /\ update[u].kind \in Logging
  /\ \/ /\ update' = [update EXCEPT ![u].pc = IF Is(u, "inbound") THEN "ask" ELSE "log",
                                    ![u].lines = log]
        /\ UNCHANGED slips
     \/ Is(u, "distilled") /\ Go(u, "noted") /\ UNCHANGED slips
     \/ Slip("read") /\ Go(u, Broken(u))
  /\ UNCHANGED <<context, archive, log, spill, lock, stale>>

\* The model finds something about the task, about the agent, both or nothing.
Extract(u) ==
  /\ update[u].pc = "ask"
  /\ \/ \E pc \in {"log", "lock", "done"} : Go(u, pc) /\ UNCHANGED slips
     \/ Slip("llm") /\ Go(u, "failed")
  /\ UNCHANGED <<context, archive, log, spill, lock, stale>>

Logged(u) == <<u>> \o update[u].lines

Cut(s) == IF Len(s) > Cap THEN SubSeq(s, Cap + 1, Len(s)) ELSE <<>>

\* The oldest lines beyond the cap are cut.  The intelligence agent archives them; a
\* distillation does not, nor does a message that was sent, which leaves "words archived".
AfterLog(u) ==
  CASE Is(u, "sent") -> "done"
    [] Is(u, "inbound") /\ Cut(Logged(u)) # <<>> -> "spill"
    [] OTHER -> "noted"

WriteNode(u) ==
  /\ update[u].pc = "log"
  /\ \/ /\ log' = SubSeq(Logged(u), 1, Len(Logged(u)) - Len(Cut(Logged(u))))
        /\ update' = [update EXCEPT ![u].lines = IF Is(u, "inbound") THEN Cut(Logged(u)) ELSE <<>>,
                                    ![u].pc = AfterLog(u)]
        /\ Overtake(u, Holds({"ask", "log"}))
        /\ UNCHANGED slips
     \/ Slip("write") /\ Go(u, Broken(u)) /\ UNCHANGED <<log, stale>>
  /\ UNCHANGED <<context, archive, spill, lock>>

\* An archive that cannot be read is taken for empty.
ReadSpill(u) ==
  /\ update[u].pc = "spill"
  /\ \/ update' = [update EXCEPT ![u].pc = "spilling", ![u].read = spill] /\ UNCHANGED <<slips, stale>>
     \/ Slip("read") /\ Go(u, "spilling") /\ stale' = stale \cup {u}
  /\ UNCHANGED <<context, archive, log, spill, lock>>

WriteSpill(u) ==
  /\ update[u].pc = "spilling"
  /\ \/ /\ spill' = update[u].read \cup ToSet(update[u].lines)
        /\ update' = [update EXCEPT ![u].pc = "noted", ![u].read = {}, ![u].lines = <<>>]
        /\ Overtake(u, Holds({"spilling"}))
        /\ UNCHANGED slips
     \/ Slip("write") /\ Go(u, "failed") /\ UNCHANGED <<spill, stale>>
  /\ UNCHANGED <<context, archive, log, lock>>

\* The model found something about the agent, too, or it did not.
Noted(u) ==
  /\ update[u].pc = "noted"
  /\ \E pc \in {"lock", "done"} : Go(u, pc)
  /\ UNCHANGED <<context, archive, log, spill, lock, slips, stale>>

-----------------------------------------------------------------------------
\* Mutant: the intelligence agent does not wait.
NoLock == TRUE

\* async with self._memory_lock.
LockFree == lock = Nobody

\* A context that cannot be read is taken for empty.
ReadContext(u) ==
  /\ \/ update[u].kind \in Locking /\ update[u].pc = "lock" /\ LockFree /\ lock' = u
     \/ Is(u, "distilled") /\ update[u].pc = "lock" /\ UNCHANGED lock
     \/ update[u].kind \in Appending \ Logging /\ update[u].pc = "new" /\ UNCHANGED lock
  /\ \/ /\ update' = [update EXCEPT ![u].pc = "write", ![u].read = context]
        /\ stale' = stale \ {u} /\ UNCHANGED slips
     \/ Slip("read") /\ Go(u, "write") /\ stale' = stale \cup {u}
  /\ UNCHANGED <<context, archive, log, spill>>

\* With an empty context, no chat history and no summary given a compaction does nothing.
ReadToCompact(u) ==
  /\ update[u].pc = "new" /\ Is(u, "compact")
  /\ \/ /\ \E pc \in {"summary"} \cup (IF context = {} THEN {"done"} ELSE {}) :
            update' = [update EXCEPT ![u].pc = pc, ![u].read = context]
        /\ UNCHANGED slips
     \/ Slip("read") /\ Go(u, "failed")
  /\ UNCHANGED <<context, archive, log, spill, lock, stale>>

\* The summary is the caller's or the model's, which stand for the notes without being them;
\* without a model, or when it fails, it is the context itself.
Summarise(u) ==
  /\ update[u].pc = "summary"
  /\ \E s \in {{}, update[u].read} :
       update' = [update EXCEPT ![u].pc = "archive", ![u].summary = s]
  /\ UNCHANGED <<context, archive, log, spill, lock, slips, stale>>

\* The context as it was read goes to the archive, its summary to the episodes, before the
\* context is replaced.  The entry is named by day and label: another with the same name is
\* overwritten, that of a compaction that has yet to write the context, too.
Archive(u) ==
  /\ update[u].pc = "archive"
  /\ \/ /\ \E l \in Labels :
            /\ archive' = [archive EXCEPT ![l] = update[u].read]
            /\ stale' = IF archive[l] = {} THEN stale
                        ELSE stale \cup {v \in Holds({"write"}) : Is(v, "compact")}
        /\ \/ Go(u, "write") /\ UNCHANGED slips
           \/ Slip("write") /\ Go(u, "failed")
     \/ Slip("write") /\ Go(u, "failed") /\ UNCHANGED <<archive, stale>>
  /\ UNCHANGED <<context, log, spill, lock>>

\* What stands in the context afterwards.
Written(u) == IF Is(u, "compact") THEN update[u].summary ELSE update[u].read \cup {u}

WriteContext(u) ==
  /\ update[u].pc = "write"
  /\ \/ /\ context' = Written(u)
        /\ update' = [update EXCEPT ![u].pc = "done", ![u].read = {}, ![u].summary = {}]
        /\ Overtake(u, Sharing(u))
        /\ UNCHANGED slips
     \/ Slip("write") /\ Go(u, "failed") /\ UNCHANGED <<context, stale>>
  /\ Unlock(u)
  /\ UNCHANGED <<archive, log, spill>>

\* A delegation to the agent, or a person, replaces the whole context without reading it.
Replace(u) ==
  /\ update[u].pc = "new" /\ update[u].kind \in Replacing
  /\ \/ /\ context' = {u} /\ Go(u, "done")
        /\ Overtake(u, Sharing(u)) /\ UNCHANGED slips
     \/ Slip("write") /\ Go(u, "failed") /\ UNCHANGED <<context, stale>>
  /\ UNCHANGED <<archive, log, spill, lock>>

MemStep(u) ==
  \/ ReadNode(u) \/ Extract(u) \/ WriteNode(u) \/ ReadSpill(u) \/ WriteSpill(u) \/ Noted(u)
  \/ ReadContext(u) \/ ReadToCompact(u) \/ Summarise(u) \/ Archive(u) \/ WriteContext(u)
  \/ Replace(u)

MemNext == \E u \in Updates : MemStep(u)

MemSpec == MemInit /\ [][MemNext]_memVars

-----------------------------------------------------------------------------
Pcs == {"new", "ask", "log", "spill", "spilling", "noted", "lock", "summary", "archive", "write",
        "done", "failed"}

MemUpdate == [kind : Kinds, pc : Pcs, read : SUBSET Updates, lines : Seq(Updates),
              summary : SUBSET Updates]

MemTypeOK ==
  /\ context \subseteq Updates /\ archive \in [Labels -> SUBSET Updates]
  /\ log \in Seq(Updates) /\ Len(log) <= Cap /\ spill \subseteq Updates
  /\ update \in [Updates -> MemUpdate]
  /\ lock \in Updates \cup {Nobody} /\ slips \in 0..MaxSlips /\ stale \subseteq Updates

Acts(u) == update'[u] # update[u]

\* What the agent can still look up, in the context and of the node.
Notes == context \cup UNION {archive[l] : l \in Labels}

Lines == ToSet(log) \cup spill \cup UNION {ToSet(update[u].lines) : u \in Holds({"spill", "spilling"})}

\* An update whose copy nobody has overtaken takes nothing away: an inbound message does not
\* lose the note of another, a compaction archives every note it takes out of the context,
\* the lines an inbound message cuts from a node are archived.  Excepted are calls that
\* replace the whole context, and an archive entry written over another of the same label:
\* what stood in that entry is lost.
KeepsNotes ==
  [][\A u \in Updates : Acts(u) /\ u \notin stale /\ slips' = slips =>
       /\ \/ Notes \subseteq Notes'
          \/ update[u].kind \in Replacing
          \/ \E l \in Labels : archive'[l] # archive[l] /\ archive[l] # {}
       /\ \/ Lines \subseteq Lines'
          \/ ~Is(u, "inbound") /\ Lines \subseteq Lines' \cup ToSet(Cut(Logged(u)))]_memVars

\* "Keeps a rolling timeline in context.md so the Intelligence Hub can show what each agent
\* has done over time": what a sub-agent has noted is in its context or in the archive.  The
\* code does not keep this: the next delegation to the agent replaces the file.
TimelineKept == \A u \in Updates : Is(u, "note") /\ update[u].pc = "done" => u \in Notes
=============================================================================
