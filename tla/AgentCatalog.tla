---------------------------- MODULE AgentCatalog ----------------------------
(***************************************************************************)
(* The definition of an agent, its numbered versions and its runtime files, *)
(* each an object of its own that the routes of api/agents.py, and the      *)
(* create_agent tool of the orchestrator, read and write one by one.        *)
(***************************************************************************)
EXTENDS Integers, Sequences, FiniteSets

CONSTANTS
  Clients,     \* the calls, all about one agent
  Errands,     \* what a call may do, see Making, Ending and Editing
  Flaws,       \* what may fail: "exists", "write", "list", "delete"
  MaxFlaws,    \* bound: how often
  NoClient

ASSUME CatAssumption == MaxFlaws \in Nat

\* "tool" is the orchestrator's create_agent, "cleanup" a delete that takes the runtime files
\* along, "rename" a patch that has a new name or description.
Making == {"create", "tool"}

Ending == {"delete", "cleanup"}

Editing == {"patch", "rename"}

VARIABLES
  definition,  \* the definition: its version, and the calls whose values it has
  snapshots,   \* the versions that are kept
  runtime,     \* the runtime files that are there
  config,      \* who wrote config.json
  client,      \* the calls
  flaws,       \* what has failed: a counter
  holed,       \* ghost: a write or delete failed, or a call met one that makes or ends the agent
  past,        \* ghost: the definitions that have been replaced since the agent was made
  overtaken    \* ghost: one of them was not the one that the call had read

catVars == <<definition, snapshots, runtime, config, client, flaws, holed, past, overtaken>>

Definition == [version : Nat, edits : SUBSET Clients]

NoDefinition == [version |-> 0, edits |-> {}]

\* In the order they are written; the tool writes a working context, too.
Files == <<"profile", "manifest", "config", "knowledge">>

\* read: the definition that was loaded; next: the file to be written; left and trash: the
\* versions and the files still to be deleted.
Ready(e) ==
  [errand |-> e, pc |-> "new", read |-> NoDefinition, next |-> 1, left |-> {}, trash |-> {}]

CatInit ==
  /\ definition = NoDefinition /\ snapshots = {} /\ runtime = {} /\ config = NoClient
  /\ \E e \in [Clients -> Errands] : client = [c \in Clients |-> Ready(e[c])]
  /\ flaws = 0 /\ holed = FALSE /\ past = {} /\ overtaken = FALSE

Flaw(what) == what \in Flaws /\ flaws < MaxFlaws /\ flaws' = flaws + 1

For(c, errands) == client[c].errand \in errands

At(c, pc) == client[c].pc = pc

Then(c, pc) == client' = [client EXCEPT ![c].pc = pc]

UnderWay == {c \in Clients : client[c].pc \notin {"new", "done"}}

\* The call goes on while others do, and one of them makes or ends the agent.
Meet(c) ==
  holed' = (holed \/ (UnderWay # {} /\ \E d \in UnderWay \cup {c} : For(d, Making \cup Ending)))

\* A step of the call fails, and the next is `pc`.
Hole(c, what, pc) == Flaw(what) /\ Then(c, pc) /\ holed' = TRUE

Stored == <<definition, snapshots, runtime, config, past, overtaken>>

Defined == definition.version # 0

-----------------------------------------------------------------------------
\* A definition that is there makes the id another one.  The tool looks at the runtime files
\* instead, and goes on if it cannot.
BeginMaking(c) ==
  /\ At(c, "new") /\ For(c, Making)
  /\ LET taken == IF For(c, {"tool"}) THEN runtime \cap {"profile", "manifest"} # {} ELSE Defined
         start == IF For(c, {"tool"}) THEN "provision" ELSE "define"
     IN \/ taken /\ Then(c, "done") /\ UNCHANGED <<flaws, holed>>
        \/ ~taken /\ Then(c, start) /\ Meet(c) /\ UNCHANGED flaws
        \/ For(c, {"tool"}) /\ Hole(c, "exists", start)
  /\ UNCHANGED Stored

Load(c) ==
  /\ At(c, "new") /\ For(c, Editing)
  /\ \/ ~Defined /\ Then(c, "done") /\ UNCHANGED holed
     \/ /\ Defined
        /\ client' = [client EXCEPT ![c].pc = "snapshot", ![c].read = definition]
        /\ Meet(c)
  /\ UNCHANGED <<Stored, flaws>>

\* The definition as the call writes it: its own values over what it has read.
Edited(c) == [version |-> client[c].read.version + 1, edits |-> client[c].read.edits \cup {c}]

\* Mutant: the new definition is snapshotted.
SnapshotOfNew(c) == Edited(c)

SnapshotOf(c) == client[c].read

\* A snapshot takes the place of another with its number; one that fails is logged.
SaveVersion(c) ==
  /\ At(c, "snapshot")
  /\ \/ /\ snapshots' = {s \in snapshots : s.version # SnapshotOf(c).version} \cup {SnapshotOf(c)}
        /\ Then(c, "define") /\ UNCHANGED <<flaws, holed>>
     \/ Hole(c, "write", "define") /\ UNCHANGED snapshots
  /\ UNCHANGED <<definition, runtime, config, past, overtaken>>

\* The definition is written whole, over one that another call may have written meanwhile.
SaveDefinition(c) ==
  /\ At(c, "define")
  /\ \/ LET replaced == IF Defined THEN {definition} ELSE {}
        IN /\ definition' = Edited(c)
           /\ past' = past \cup replaced
           /\ overtaken' = (overtaken \/ ~(replaced \subseteq {client[c].read}))
           /\ Then(c, IF For(c, {"create", "rename"}) THEN "provision" ELSE "done")
           /\ UNCHANGED <<flaws, holed>>
     \/ Hole(c, "write", "done") /\ UNCHANGED <<definition, past, overtaken>>
  /\ UNCHANGED <<snapshots, runtime, config>>

\* The runtime files are written from scratch, also those of an agent that is renamed.
ProvisionRuntime(c) ==
  /\ At(c, "provision")
  /\ LET f == Files[client[c].next]
     IN \/ /\ runtime' = runtime \cup {f}
           /\ config' = IF f = "config" THEN c ELSE config
           /\ client' = [client EXCEPT ![c].next = @ + 1,
                                       ![c].pc = IF f = "knowledge" THEN "done" ELSE "provision"]
           /\ UNCHANGED <<flaws, holed>>
        \/ Hole(c, "write", "done") /\ UNCHANGED <<runtime, config>>
  /\ UNCHANGED <<definition, snapshots, past, overtaken>>

BeginEnding(c) ==
  /\ At(c, "new") /\ For(c, Ending)
  /\ \/ ~Defined /\ Then(c, "done") /\ UNCHANGED holed
     \/ Defined /\ Then(c, "undefine") /\ Meet(c)
  /\ UNCHANGED <<Stored, flaws>>

DeleteDefinition(c) ==
  /\ At(c, "undefine")
  /\ \/ /\ definition' = NoDefinition /\ past' = {} /\ overtaken' = FALSE
        /\ Then(c, "versions") /\ UNCHANGED <<flaws, holed>>
     \/ Hole(c, "delete", "done") /\ UNCHANGED <<definition, past, overtaken>>
  /\ UNCHANGED <<snapshots, runtime, config>>

\* Under what numbers there are snapshots.
Numbers == {s.version : s \in snapshots}

\* After the versions the runtime files, if they are to go.
AfterVersions(c) == IF For(c, {"cleanup"}) THEN "files" ELSE "done"

\* The keys are listed first; what is written meanwhile stays.
ListKeys(c) ==
  /\ \/ /\ At(c, "versions")
        /\ \/ /\ client' = [client EXCEPT ![c].pc = "sweep", ![c].left = Numbers]
              /\ UNCHANGED <<flaws, holed>>
           \/ Hole(c, "list", AfterVersions(c))
     \/ /\ At(c, "files")
        /\ \/ /\ client' = [client EXCEPT ![c].pc = "clean", ![c].trash = runtime]
              /\ UNCHANGED <<flaws, holed>>
           \/ Hole(c, "list", "done")
  /\ UNCHANGED Stored

\* They are deleted one by one; an error ends that, and is logged.
SweepVersions(c) ==
  /\ At(c, "sweep")
  /\ \/ /\ client[c].left = {} /\ Then(c, AfterVersions(c))
        /\ UNCHANGED <<snapshots, flaws, holed>>
     \/ \E v \in client[c].left :
          /\ snapshots' = {s \in snapshots : s.version # v}
          /\ client' = [client EXCEPT ![c].left = @ \ {v}] /\ UNCHANGED <<flaws, holed>>
     \/ client[c].left # {} /\ Hole(c, "delete", AfterVersions(c)) /\ UNCHANGED snapshots
  /\ UNCHANGED <<definition, runtime, config, past, overtaken>>

CleanRuntime(c) ==
  /\ At(c, "clean")
  /\ \/ /\ client[c].trash = {} /\ Then(c, "done")
        /\ UNCHANGED <<runtime, config, flaws, holed>>
     \/ \E f \in client[c].trash :
          /\ runtime' = runtime \ {f}
          /\ config' = IF f = "config" THEN NoClient ELSE config
          /\ client' = [client EXCEPT ![c].trash = @ \ {f}] /\ UNCHANGED <<flaws, holed>>
     \/ client[c].trash # {} /\ Hole(c, "delete", "done") /\ UNCHANGED <<runtime, config>>
  /\ UNCHANGED <<definition, snapshots, past, overtaken>>

\* Any trace of the agent lets its configuration be written.
BeginConfig(c) ==
  /\ At(c, "new") /\ For(c, {"config"})
  /\ IF Defined \/ runtime \cap {"manifest", "config"} # {}
     THEN Then(c, "config") /\ Meet(c)
     ELSE Then(c, "done") /\ UNCHANGED holed
  /\ UNCHANGED <<Stored, flaws>>

PutConfig(c) ==
  /\ At(c, "config")
  /\ \/ /\ config' = c /\ runtime' = runtime \cup {"config"}
        /\ Then(c, "done") /\ UNCHANGED <<flaws, holed>>
     \/ Flaw("write") /\ Then(c, "done") /\ UNCHANGED <<config, runtime, holed>>
  /\ UNCHANGED <<definition, snapshots, past, overtaken>>

ClientStep(c) ==
  \/ BeginMaking(c) \/ Load(c) \/ SaveVersion(c) \/ SaveDefinition(c) \/ ProvisionRuntime(c)
  \/ BeginEnding(c) \/ DeleteDefinition(c) \/ ListKeys(c) \/ SweepVersions(c) \/ CleanRuntime(c)
  \/ BeginConfig(c) \/ PutConfig(c)

CatNext == \E c \in Clients : ClientStep(c)

CatSpec == CatInit /\ [][CatNext]_catVars

-----------------------------------------------------------------------------
FileNames == {Files[i] : i \in DOMAIN Files}

ClientPcs == {"new", "define", "provision", "snapshot", "undefine", "versions", "sweep", "files",
              "clean", "config", "done"}

Client == [errand : Errands, pc : ClientPcs, read : Definition, next : 1..(Len(Files) + 1),
           left : SUBSET Nat, trash : SUBSET FileNames]

CatTypeOK ==
  /\ definition \in Definition /\ snapshots \subseteq Definition /\ runtime \subseteq FileNames
  /\ config \in Clients \cup {NoClient} /\ flaws \in 0..MaxFlaws /\ holed \in BOOLEAN
  /\ past \subseteq Definition /\ overtaken \in BOOLEAN
  /\ client \in [Clients -> Client]

\* While nothing that makes or ends the agent is under way: there is a snapshot under every
\* earlier number, however patches overlap one another and configurations; every definition
\* that was replaced is kept as it was, as long as no patch was written over another that it
\* had not read; nothing is kept of an agent that is gone, and one that is defined has its
\* runtime files.
HistoryWhole ==
  ~holed /\ (\A c \in UnderWay : ~For(c, Making \cup Ending)) =>
    /\ 1..(definition.version - 1) \subseteq Numbers
    /\ ~overtaken => past \subseteq snapshots
    /\ ~Defined => snapshots = {}
    /\ Defined => runtime = FileNames

\* "The previous version is automatically snapshotted before the update is written": what a
\* patch replaces is kept.  The code does not keep this when two patches have read the same
\* version: the second replaces the first, whose number its own has.
ReplacedIsKept == ~holed => past \subseteq snapshots

\* "caller can PUT to override": a configuration that was put stays until the next is put or
\* the agent goes.  The code does not keep this: a patch of the name writes the defaults.
ConfigKept ==
  [][\A c \in Clients : config = c /\ For(c, {"config"}) /\ config' # config =>
       config' = NoClient \/ For(config', {"config"})]_catVars
=============================================================================
