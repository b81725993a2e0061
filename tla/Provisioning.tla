---------------------------- MODULE Provisioning ----------------------------
(***************************************************************************)
(* What a sign-in provisions (auth/provisioning.py, the callback of         *)
(* auth/routes.py): a user is found, or created with a storage marker, a    *)
(* workspace and the edge to it; a step that fails undoes the ones before.  *)
(* What a sign-in has created is named by the sign-in: ids are fresh.       *)
(***************************************************************************)
EXTENDS Integers, Sequences, FiniteSets

CONSTANTS
  SignIns,     \* the sign-ins
  Subject,     \* Subject[s]: provider and id there
  Email,       \* Email[s]
  Upsets,      \* what may fail: "step", "undo", "crash"
  MaxUpsets,   \* bound: how often
  Nobody

VARIABLES
  users, markers, workspaces, owns,   \* what is in the graph and in the storage
  profiles,    \* the seeded profiles
  signIn,      \* the sign-ins
  upsets,      \* what has failed: a counter
  met,         \* ghost: the sign-ins that were under way together with another
  halved       \* ghost: the sign-ins that stopped half-way or could not be undone

stock == <<users, markers, workspaces, owns, profiles>>
provVars == <<users, markers, workspaces, owns, profiles, signIn, upsets, met, halved>>

Steps == {"user", "marker", "workspace", "edge", "profile"}

Undoable == {"user", "marker", "workspace"}

Ended == {"existing", "new", "failed", "gone"}

SignIn == [pc : {"begin", "subject", "email", "undo"} \cup Steps \cup Ended,
           found : SignIns \cup {Nobody}, undo : Seq(Undoable)]

ProvInit ==
  /\ users = {} /\ markers = {} /\ workspaces = {} /\ owns = {} /\ profiles = {}
  /\ signIn = [s \in SignIns |-> [pc |-> "begin", found |-> Nobody, undo |-> <<>>]]
  /\ upsets = 0 /\ met = {} /\ halved = {}

Stands(s, pc) == signIn[s].pc = pc

Running == {s \in SignIns : signIn[s].pc \notin {"begin"} \cup Ended}

Upset(what) == what \in Upsets /\ upsets < MaxUpsets /\ upsets' = upsets + 1

-----------------------------------------------------------------------------
BeginSignIn(s) ==
  /\ Stands(s, "begin")
  /\ signIn' = [signIn EXCEPT ![s].pc = "subject"]
  /\ met' = IF Running = {} THEN met ELSE met \cup Running \cup {s}
  /\ UNCHANGED <<stock, upsets, halved>>

\* The first user the query returns is the one; a query that fails is a 503.
Find(s, matching, otherwise) ==
  /\ \/ \E u \in matching :
          signIn' = [signIn EXCEPT ![s].pc = "existing", ![s].found = u] /\ UNCHANGED upsets
     \/ /\ matching = {}
        /\ signIn' = [signIn EXCEPT ![s].pc = otherwise] /\ UNCHANGED upsets
     \/ Upset("step") /\ signIn' = [signIn EXCEPT ![s].pc = "failed"]
  /\ UNCHANGED <<stock, met, halved>>

FindBySubject(s) ==
  Stands(s, "subject") /\ Find(s, {u \in users : Subject[u] = Subject[s]}, "email")

\* Mutant: a user of another provider is not looked for.
FindNobody(s) == Stands(s, "email") /\ Find(s, {}, "user")

FindByEmail(s) ==
  Stands(s, "email") /\ Find(s, {u \in users : Email[u] = Email[s]}, "user")

\* The next step has been done and can be undone.
Did(s, step, next) ==
  signIn' = [signIn EXCEPT ![s].pc = next, ![s].undo = Append(@, step)]

Create(s) ==
  /\ \/ /\ Stands(s, "user") /\ users' = users \cup {s} /\ Did(s, "user", "marker")
        /\ UNCHANGED <<markers, workspaces, owns, profiles>>
     \/ /\ Stands(s, "marker") /\ markers' = markers \cup {s} /\ Did(s, "marker", "workspace")
        /\ UNCHANGED <<users, workspaces, owns, profiles>>
     \/ /\ Stands(s, "workspace") /\ workspaces' = workspaces \cup {s}
        /\ Did(s, "workspace", "edge")
        /\ UNCHANGED <<users, markers, owns, profiles>>
     \/ /\ Stands(s, "edge") /\ owns' = owns \cup {s}
        /\ signIn' = [signIn EXCEPT ![s].pc = "profile"]
        /\ UNCHANGED <<users, markers, workspaces, profiles>>
  /\ UNCHANGED <<upsets, met, halved>>

\* A step raises: what was done is undone.
FailStep(s) ==
  /\ signIn[s].pc \in {"user", "marker", "workspace", "edge"}
  /\ Upset("step")
  /\ signIn' = [signIn EXCEPT ![s].pc = "undo"]
  /\ UNCHANGED <<stock, met, halved>>

\* Seeding the profile may fail; the sign-in goes on.
SeedProfile(s) ==
  /\ Stands(s, "profile")
  /\ \/ profiles' = profiles \cup {s} /\ UNCHANGED upsets
     \/ Upset("step") /\ UNCHANGED profiles
  /\ signIn' = [signIn EXCEPT ![s].pc = "new", ![s].undo = <<>>]
  /\ UNCHANGED <<users, markers, workspaces, owns, met, halved>>

\* Deleting a node deletes its edges.
Undone(s, step) ==
  /\ users' = IF step = "user" THEN users \ {s} ELSE users
  /\ markers' = IF step = "marker" THEN markers \ {s} ELSE markers
  /\ workspaces' = IF step = "workspace" THEN workspaces \ {s} ELSE workspaces
  /\ owns' = IF step \in {"user", "workspace"} THEN owns \ {s} ELSE owns
  /\ UNCHANGED profiles

\* Mutant: the rollback ends with the first deletion.
RollbackOnce(s) ==
  /\ Stands(s, "undo") /\ signIn[s].undo # <<>>
  /\ Undone(s, signIn[s].undo[Len(signIn[s].undo)]) /\ UNCHANGED <<upsets, halved>>
  /\ signIn' = [signIn EXCEPT ![s].undo = <<>>]
  /\ UNCHANGED met

\* _run_rollback: the last step first; a deletion that fails is logged.
RunRollback(s) ==
  /\ Stands(s, "undo") /\ signIn[s].undo # <<>>
  /\ LET n == Len(signIn[s].undo) IN
     /\ \/ Undone(s, signIn[s].undo[n]) /\ UNCHANGED <<upsets, halved>>
        \/ Upset("undo") /\ halved' = halved \cup {s} /\ UNCHANGED stock
     /\ signIn' = [signIn EXCEPT ![s].undo = SubSeq(@, 1, n - 1)]
  /\ UNCHANGED met

EndRollback(s) ==
  /\ Stands(s, "undo") /\ signIn[s].undo = <<>>
  /\ signIn' = [signIn EXCEPT ![s].pc = "failed"]
  /\ UNCHANGED <<stock, upsets, met, halved>>

\* The gateway stops, and the sign-ins under way with it.
Shutdown ==
  /\ Upset("crash")
  /\ halved' = halved \cup Running
  /\ signIn' = [s \in SignIns |-> IF s \in Running
                  THEN [pc |-> "gone", found |-> Nobody, undo |-> <<>>] ELSE signIn[s]]
  /\ UNCHANGED <<stock, met>>

ProvNext == \/ Shutdown
            \/ \E s \in SignIns :
                 \/ BeginSignIn(s) \/ FindBySubject(s) \/ FindByEmail(s) \/ Create(s)
                 \/ FailStep(s) \/ SeedProfile(s) \/ RunRollback(s) \/ EndRollback(s)

ProvSpec == ProvInit /\ [][ProvNext]_provVars

-----------------------------------------------------------------------------
ProvTypeOK ==
  /\ users \subseteq SignIns /\ markers \subseteq SignIns /\ workspaces \subseteq SignIns
  /\ owns \subseteq SignIns /\ profiles \subseteq SignIns
  /\ signIn \in [SignIns -> SignIn]
  /\ upsets \in 0..MaxUpsets /\ met \subseteq SignIns /\ halved \subseteq SignIns

\* However sign-ins overlap and fail, one that was answered has provisioned a whole user,
\* and one that failed has left nothing, unless the process stopped in it or an undo failed.
ProvisionedWhole ==
  \A s \in SignIns \ halved :
    /\ Stands(s, "new") => s \in users \cap markers \cap workspaces \cap owns
    /\ Stands(s, "failed") => s \notin users \cup markers \cup workspaces \cup owns \cup profiles

\* Sign-ins that do not overlap share the user of their provider account or of their email
\* address, and the user a sign-in was given is there when it ends.
OneUserPerIdentity ==
  /\ \A u, v \in users \ met : u # v => Subject[u] # Subject[v] /\ Email[u] # Email[v]
  /\ \A s \in SignIns \ met : Stands(s, "existing") => signIn[s].found \in users
=============================================================================
