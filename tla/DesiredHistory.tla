-------------------------- MODULE DesiredHistory --------------------------
(***************************************************************************)
(* The Git repository behind DesiredStateHistory.  `commits' is the chain  *)
(* that ends in HEAD (a revision is a position in it), `index' the staging *)
(* area, and `snapshot' the snapshot() call under way or just answered:    *)
(* `git add' and `git commit' are two commands, and the process can die or *)
(* the second command can fail between them.  The index survives that; the *)
(* work tree is rewritten by every call before it is read, so it is left   *)
(* out.  snapshot.clean says whether the index held nothing uncommitted    *)
(* when the call began; no step looks at it.                               *)
(***************************************************************************)
EXTENDS DesiredState, Sequences

CONSTANTS
  MaxCommits,        \* bound: revisions in a history
  CommitsCanBeLost   \* whether a call may end between its two commands

ASSUME HistoryAssumption ==
  /\ MaxCommits \in Nat
  /\ CommitsCanBeLost \in BOOLEAN
  /\ None \notin [files : Trees, revision : 0 .. MaxCommits, clean : BOOLEAN]

VARIABLES commits, index, snapshot

historyVars == <<commits, index, snapshot>>

Revisions == 1 .. Len(commits)

\* The tree `git diff --cached' and `git ls-tree HEAD' look at.
HeadTree == IF commits = <<>> THEN EmptyTree ELSE commits[Len(commits)]

Staged == snapshot # None /\ snapshot.revision = 0
Answered == snapshot # None /\ snapshot.revision # 0

\* Bound: at MaxCommits only a snapshot that commits nothing is taken.
WithinBound == Len(commits) < MaxCommits \/ index' = HeadTree

(* --------------------------- the operations ---------------------------- *)

\* `git add -A -- <paths>' of the files written and the files HEAD has: it
\* fails when a path is neither in the work tree nor in the index.
AddSucceeds(files) ==
  \A f \in Present(HeadTree) \ Present(files) : index[f] # Absent

\* Mutant: only the files given are added, what HEAD has besides is kept.
StageKeepsRemoved(files) ==
  /\ snapshot = None
  /\ index' = [f \in Files |-> IF files[f] # Absent THEN files[f] ELSE index[f]]
  /\ snapshot' = [files |-> files, revision |-> 0, clean |-> index = HeadTree]
  /\ UNCHANGED commits

\* Mutant: a document present already is not staged again.
StageKeepsPresent(files) ==
  /\ snapshot = None
  /\ AddSucceeds(files)
  /\ index' = [f \in Files |-> IF f \in Present(HeadTree) \cap Present(files)
                               THEN index[f] ELSE files[f]]
  /\ snapshot' = [files |-> files, revision |-> 0, clean |-> index = HeadTree]
  /\ UNCHANGED commits

\* snapshot() up to and with `git add'.
Stage(files) ==
  /\ snapshot = None
  /\ AddSucceeds(files)
  /\ index' = [f \in Files |-> IF f \in Present(HeadTree) \cup Present(files)
                               THEN files[f] ELSE index[f]]
  /\ snapshot' = [files |-> files, revision |-> 0, clean |-> index = HeadTree]
  /\ UNCHANGED commits

\* Mutant: only the files given are compared with HEAD.
CommitComparesGiven ==
  /\ Staged
  /\ LET given == Present(snapshot.files)
     IN  commits' = IF commits # <<>> /\ \A f \in given : index[f] = HeadTree[f]
                    THEN commits ELSE Append(commits, index)
  /\ snapshot' = [snapshot EXCEPT !.revision = Len(commits')]
  /\ UNCHANGED index

\* Mutant: the answer is the revision HEAD was at before the commit.
CommitAnswersOldHead ==
  /\ Staged
  /\ commits' = IF index = HeadTree THEN commits ELSE Append(commits, index)
  /\ snapshot' = [snapshot EXCEPT !.revision = Len(commits)]
  /\ UNCHANGED index

\* The rest of snapshot(): commit when the index differs from HEAD, and
\* answer with HEAD.
Commit ==
  /\ Staged
  /\ commits' = IF index = HeadTree THEN commits ELSE Append(commits, index)
  /\ snapshot' = [snapshot EXCEPT !.revision = Len(commits')]
  /\ UNCHANGED index

\* The caller is done with the answer.
Forget ==
  /\ Answered
  /\ snapshot' = None
  /\ UNCHANGED <<commits, index>>

\* The process dies, or `git commit' fails, after `git add'.
LoseCommit ==
  /\ CommitsCanBeLost
  /\ Staged
  /\ snapshot' = None
  /\ UNCHANGED <<commits, index>>

\* What callers snapshot always holds the mandatory document.
Snapshots == {t \in Trees : t[Interfaces] # Absent}

HistoryInit ==
  /\ commits = <<>>
  /\ index = EmptyTree
  /\ snapshot = None

HistoryNext ==
  \/ \E t \in Snapshots : Stage(t) /\ WithinBound
  \/ Commit
  \/ Forget
  \/ LoseCommit

HistorySpec == HistoryInit /\ [][HistoryNext]_historyVars

\* The files a snapshot answered with a revision that holds t may have been
\* given: t or, when calls can be cut short between their commands, t without
\* optional documents that such a call had staged.
Without(t, gone) == [f \in Files |-> IF f \in gone THEN Absent ELSE t[f]]
GivenFor(t) ==
  IF CommitsCanBeLost THEN {Without(t, gone) : gone \in SUBSET (Files \ {Interfaces})}
  ELSE {t}

(* ------------------------------ queries -------------------------------- *)

\* contents_match: the same files, each byte for byte what Git gives back.
Matches(r, t) ==
  /\ Present(commits[r]) = Present(t)
  /\ \A f \in Present(t) : ReadBack(commits[r][f]) = t[f]

\* revision_for_contents: HEAD when it matches, 0 for none.
RevisionFor(t) ==
  IF commits # <<>> /\ Matches(Len(commits), t) THEN Len(commits) ELSE 0

(* ----------------------------- properties ------------------------------ *)

HistoryTypeOK ==
  /\ commits \in Seq(Trees)
  /\ Len(commits) <= MaxCommits
  /\ index \in Trees
  /\ snapshot \in [files : Trees, revision : 0 .. MaxCommits, clean : BOOLEAN]
                   \cup {None}

\* The revision snapshot() answers with holds the files it was given and no
\* others, unless a call cut short had left something staged; and that is over
\* with the answer.  This is what makes a revision a record of what was applied.
SnapshotExact ==
  Answered =>
    /\ index = HeadTree
    /\ snapshot.clean => commits[snapshot.revision] = snapshot.files

\* The same without the exception: what a revision is taken for.
SnapshotHoldsNoMore ==
  Answered => Present(commits[snapshot.revision]) \subseteq Present(snapshot.files)

\* Every file given to snapshot() is in the revision it answers with, as it
\* was given, also when earlier calls were cut short between their commands.
SnapshotCovers ==
  Answered => \A f \in Present(snapshot.files) :
                 commits[snapshot.revision][f] = snapshot.files[f]

\* snapshot() can stage whatever desired state it is given: no earlier call
\* leaves the repository in a state where `git add' refuses the paths.
SnapshotPossible == snapshot = None => \A t \in Snapshots : AddSucceeds(t)

\* Every revision can be rolled back to: it holds the mandatory document,
\* which rollback() insists on.
RevisionsHoldInterfaces ==
  \A r \in Revisions : commits[r][Interfaces] # Absent
=============================================================================
