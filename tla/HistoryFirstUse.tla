-------------------------- MODULE HistoryFirstUse --------------------------
(***************************************************************************)
(* DesiredStateHistory._initialize: whoever uses the history first and     *)
(* finds no `.git' makes the repository with three commands, `git init'    *)
(* and `git config' of user.name and of user.email.  Each of them changes  *)
(* .git/config under Git's own config.lock, which is not waited for.  Only *)
(* writers (apply, rollback) hold the network lock: `status', `history'    *)
(* and `diff' may be first users at the same moment.                       *)
(*                                                                         *)
(* `at' is what a process does next, `configLock' the process whose        *)
(* command holds config.lock.                                              *)
(***************************************************************************)
CONSTANTS
  Processes,
  Nobody,        \* holds a lock when it is free
  ProcessesEnd   \* whether a process may end between two commands

ASSUME FirstUseAssumption ==
  /\ Nobody \notin Processes
  /\ ProcessesEnd \in BOOLEAN

VARIABLES
  git,          \* the repository: "none", "begun" (there is a .git) or "ready"
  identity,     \* the parts of the committer's identity that are configured
  at,
  networkLock,  \* the writer
  configLock,
  cut           \* whether the making of the repository was cut short; no
                \* step looks at it

firstUseVars == <<git, identity, at, networkLock, configLock, cut>>

Identity == {"name", "email"}
Configuring == {"init", "name", "email"}
FirstUse == {"make"} \cup Configuring

Goes(p, step) == at' = [at EXCEPT ![p] = step]

\* The operation is over: answered or raised, the network lock is released.
Leave(p) ==
  /\ Goes(p, "idle")
  /\ networkLock' = IF networkLock = p THEN Nobody ELSE networkLock

BeginRead(p) ==
  /\ at[p] = "idle"
  /\ Goes(p, "look")
  /\ UNCHANGED <<git, identity, networkLock, configLock, cut>>

BeginWrite(p) ==
  /\ at[p] = "idle" /\ networkLock = Nobody
  /\ networkLock' = p
  /\ Goes(p, "look")
  /\ UNCHANGED <<git, identity, configLock, cut>>

\* is_dir() of `.git': a repository that somebody else has only begun counts.
Look(p) ==
  /\ at[p] = "look"
  /\ Goes(p, IF git = "none" THEN "make" ELSE "use")
  /\ UNCHANGED <<git, identity, networkLock, configLock, cut>>

\* The beginning of `git init'; an existing repository is initialized again.
MakeDirectory(p) ==
  /\ at[p] = "make"
  /\ git' = IF git = "none" THEN "begun" ELSE git
  /\ Goes(p, "init")
  /\ UNCHANGED <<identity, networkLock, configLock, cut>>

LockConfig(p) ==
  /\ at[p] \in Configuring
  /\ configLock = Nobody
  /\ configLock' = p
  /\ UNCHANGED <<git, identity, at, networkLock, cut>>

\* Mutant: who finds config.lock taken starts over instead of raising.
ContendRestarts(p) ==
  /\ at[p] \in Configuring
  /\ configLock \notin {Nobody, p}
  /\ Goes(p, "make")
  /\ UNCHANGED <<git, identity, networkLock, configLock, cut>>

\* "could not lock config file": the command fails and HistoryError is raised.
Contend(p) ==
  /\ at[p] \in Configuring
  /\ configLock \notin {Nobody, p}
  /\ Leave(p)
  /\ UNCHANGED <<git, identity, configLock, cut>>

Initialized(p) ==
  /\ at[p] = "init" /\ configLock = p
  /\ git' = "ready"
  /\ configLock' = Nobody
  /\ Goes(p, "name")
  /\ UNCHANGED <<identity, networkLock, cut>>

\* Mutant: the e-mail address is not configured.
NamedOnly(p) ==
  /\ at[p] = "name" /\ configLock = p
  /\ identity' = identity \cup {"name"}
  /\ configLock' = Nobody
  /\ Goes(p, "use")
  /\ UNCHANGED <<git, networkLock, cut>>

Named(p) ==
  /\ at[p] = "name" /\ configLock = p
  /\ identity' = identity \cup {"name"}
  /\ configLock' = Nobody
  /\ Goes(p, "email")
  /\ UNCHANGED <<git, networkLock, cut>>

Addressed(p) ==
  /\ at[p] = "email" /\ configLock = p
  /\ identity' = identity \cup {"email"}
  /\ configLock' = Nobody
  /\ Goes(p, "use")
  /\ UNCHANGED <<git, networkLock, cut>>

\* A reader has its answer: in a repository that is only begun there is no
\* revision.
Read(p) ==
  /\ at[p] = "use" /\ networkLock # p
  /\ Leave(p)
  /\ UNCHANGED <<git, identity, configLock, cut>>

\* `git add' of the snapshot; it fails where there is no repository yet.
Add(p) ==
  /\ at[p] = "use" /\ networkLock = p
  /\ \/ git = "ready" /\ Goes(p, "commit") /\ UNCHANGED networkLock
     \/ git # "ready" /\ Leave(p)
  /\ UNCHANGED <<git, identity, configLock, cut>>

\* `git commit'; without an identity it fails (LoseCommit of DesiredHistory)
\* or is made in the name of the account.
Commit(p) ==
  /\ at[p] = "commit"
  /\ Leave(p)
  /\ UNCHANGED <<git, identity, configLock, cut>>

\* The process ends between two commands; a command that is running either
\* completes or takes its config.lock away.
End(p) ==
  /\ ProcessesEnd
  /\ at[p] # "idle" /\ configLock # p
  /\ cut' = (cut \/ at[p] \in FirstUse)
  /\ Leave(p)
  /\ UNCHANGED <<git, identity, configLock>>

Init ==
  /\ git = "none"
  /\ identity = {}
  /\ at = [p \in Processes |-> "idle"]
  /\ networkLock = Nobody
  /\ configLock = Nobody
  /\ cut = FALSE

Proceed(p) ==
  \/ Look(p) \/ MakeDirectory(p) \/ LockConfig(p) \/ Contend(p)
  \/ Initialized(p) \/ Named(p) \/ Addressed(p)
  \/ Read(p) \/ Add(p) \/ Commit(p)

Next ==
  \E p \in Processes : BeginRead(p) \/ BeginWrite(p) \/ Proceed(p) \/ End(p)

Spec == Init /\ [][Next]_firstUseVars

\* A process that has begun is scheduled and its commands return.
FairSpec == Spec /\ \A p \in Processes : WF_firstUseVars(Proceed(p))

(* ----------------------------- properties ------------------------------ *)

TypeOK ==
  /\ git \in {"none", "begun", "ready"}
  /\ identity \subseteq Identity
  /\ at \in [Processes -> {"idle", "look", "use", "commit"} \cup FirstUse]
  /\ networkLock \in Processes \cup {Nobody}
  /\ configLock \in Processes \cup {Nobody}
  /\ cut \in BOOLEAN

\* What a process that is making the repository has still to configure.
Ahead(p) ==
  CASE at[p] \in {"make", "init", "name"} -> Identity
    [] at[p] = "email" -> {"email"}
    [] OTHER -> {}

\* However many first users get into each other's way and give up, and
\* whoever dies elsewhere, whatever is missing of the identity is still
\* configured by one of them, unless one was cut short while making the
\* repository: a commit can lack it only while somebody else is at it.
IdentityComing ==
  git # "none" /\ ~cut =>
    Identity \subseteq identity \cup UNION {Ahead(p) : p \in Processes}

\* Once begun, the repository comes to have its identity, unless its making
\* is cut short.
IdentityArrives == git # "none" ~> identity = Identity \/ cut

\* "Commit a changed desired-state snapshot, or return the existing revision":
\* a writer that has got to `git commit' has an identity to commit with.
CommitHasIdentity ==
  \A p \in Processes : at[p] = "commit" => identity = Identity
=============================================================================
