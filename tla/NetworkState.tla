--------------------------- MODULE NetworkState ---------------------------
(***************************************************************************)
(* NetworkStateService: edit, apply, rollback and status of the network    *)
(* domain, run by several Kavernis processes over one desired-state        *)
(* directory, one history (DesiredHistory), one networkd directory         *)
(* (Networkd), one SQLite store and one advisory lock.                     *)
(*                                                                         *)
(* edit, apply and rollback hold the lock from beginning to end; what they *)
(* do in between is a sequence of file operations and commands, each an    *)
(* action here.  Writers that do not take the lock (an administrator's     *)
(* shell) act between any two of them, and a process may end at any one.   *)
(***************************************************************************)
EXTENDS DesiredHistory, Networkd

CONSTANTS
  Processes,   \* Kavernis processes
  Nobody,      \* holds the lock when it is free
  Written,     \* the documents that editors and other writers leave
  Plannable,   \* the intents that resolve and generate
  Generated,   \* plannable intent |-> the managed files generated for it
  OutsideWrites,   \* whether others write the desired-state files
  ProcessesEnd     \* whether a process may end between two steps: it dies,
                   \* is interrupted, or a file or store operation fails

ASSUME NetworkStateAssumption ==
  /\ Nobody \notin Processes
  /\ Written \subseteq Docs
  /\ Plannable \subseteq [Files -> Meanings]
  /\ Generated \in [Plannable -> Candidates]
  /\ OutsideWrites \in BOOLEAN
  /\ ProcessesEnd \in BOOLEAN
  /\ None \notin [revision : 1 .. MaxCommits, artifacts : Artifacts]

VARIABLES
  desired,   \* the desired-state directory
  applied,   \* the store's record of the last success: revision and hashes
  failures,  \* the revisions the store has a failed apply of
  lock,      \* the process that holds network.lock
  work,      \* per process: the operation under way
  touched    \* whether another writer changed desired since work.tree of the
             \* lock holder was last made to agree with it

vars == <<commits, index, snapshot, networkd, native,
          desired, applied, failures, lock, work, touched>>

(* pc names the step that comes next; file is the document edited, at the  *)
(* next document a loop over all of them treats, tree the documents read   *)
(* (edit: the baseline, apply: the files, rollback: written_files), doc    *)
(* the editor's text, goal the revision rolled back to, or 0.              *)
Steps == {"idle", "baseline", "original", "editor", "check", "replace",
          "load", "plan", "resolve", "rewrite", "stage", "commit", "install",
          "native"}
Idle == [pc |-> "idle", file |-> Interfaces, at |-> 1, tree |-> EmptyTree,
         doc |-> Absent, goal |-> 0]
Works == [pc : Steps, file : Files, at : 1 .. (LastFile + 1), tree : Trees,
          doc : Docs \cup {Absent}, goal : 0 .. MaxCommits]

At(p, step) == work[p].pc = step
GoOn(p, step) == work' = [work EXCEPT ![p].pc = step, ![p].at = 1]

PlanSucceeds(t) == Loads(t) /\ Intent(t) \in Plannable
Candidate(t) == Generated[Intent(t)]

\* The lock is released and the operation is over, however it ends.
Finish(p) ==
  /\ lock' = Nobody
  /\ work' = [work EXCEPT ![p] = Idle]
  /\ touched' = FALSE
  /\ snapshot' = None
  /\ native' = None

(* ------------------------------- the lock ------------------------------ *)

\* Mutant: the lock is not asked for.
EnterUnlocked(p, operation) ==
  /\ At(p, "idle")
  /\ lock' = p
  /\ work' = [work EXCEPT ![p] = operation]
  /\ UNCHANGED <<commits, index, snapshot, networkd, native,
                 desired, applied, failures, touched>>

\* network_lock does not wait: a process that finds it taken gives up.
Enter(p, operation) ==
  /\ lock = Nobody
  /\ At(p, "idle")
  /\ lock' = p
  /\ work' = [work EXCEPT ![p] = operation]
  /\ UNCHANGED <<commits, index, snapshot, networkd, native,
                 desired, applied, failures, touched>>

BeginEdit(p, f) == Enter(p, [Idle EXCEPT !.pc = "baseline", !.file = f])

\* Bound: no apply and no rollback begins in a full history.
BeginApply(p) ==
  Len(commits) < MaxCommits /\ Enter(p, [Idle EXCEPT !.pc = "load"])

BeginRollback(p, r) ==
  Len(commits) < MaxCommits /\ Enter(p, [Idle EXCEPT !.pc = "resolve", !.goal = r])

(* ---------------------------- reading files ---------------------------- *)

\* desired_fingerprint and load_network read the documents one by one.
ReadFile(p) ==
  /\ At(p, "baseline") \/ At(p, "load")
  /\ LET f == work[p].at
         next == IF f < LastFile THEN work[p].pc
                 ELSE IF At(p, "load") THEN "plan" ELSE "original"
     IN  work' = [work EXCEPT ![p].tree[f] = desired[f],
                              ![p].at = f + 1,
                              ![p].pc = next]
  /\ UNCHANGED <<commits, index, snapshot, networkd, native,
                 desired, applied, failures, lock, touched>>

(* -------------------------------- edit --------------------------------- *)

\* The text the editor is given; an absent optional document starts empty.
ReadOriginal(p) ==
  /\ At(p, "original")
  /\ LET held == desired[work[p].file] IN
       \/ /\ held = Absent /\ work[p].file = Interfaces
          /\ Finish(p)
       \/ /\ held # Absent \/ work[p].file # Interfaces
          /\ work' = [work EXCEPT
                ![p].doc = WithHeader(IF held = Absent THEN EmptyDoc ELSE held),
                ![p].pc = "editor"]
          /\ UNCHANGED <<snapshot, native, lock, touched>>
  /\ UNCHANGED <<commits, index, networkd, desired, applied, failures>>

\* The editor returns with a changed and valid text: the fingerprints are
\* compared from the first document on.  With an invalid text it is opened
\* again, which changes nothing here.
EditorSaves(p, d) ==
  /\ At(p, "editor")
  /\ d # work[p].doc
  /\ Means[d.body] # Invalid
  /\ work' = [work EXCEPT ![p].doc = d, ![p].at = 1, ![p].pc = "check"]
  /\ touched' = FALSE
  /\ UNCHANGED <<commits, index, snapshot, networkd, native,
                 desired, applied, failures, lock>>

\* The text is unchanged, the editor fails or an invalid text is given up.
EditorGivesUp(p) ==
  /\ At(p, "editor")
  /\ Finish(p)
  /\ UNCHANGED <<commits, index, networkd, desired, applied, failures>>

\* Mutant: only the edited document is compared.
CheckOwnOnly(p) ==
  /\ At(p, "check")
  /\ LET f == work[p].file IN
       \/ /\ desired[f] # work[p].tree[f]
          /\ Finish(p)
       \/ /\ desired[f] = work[p].tree[f]
          /\ work' = [work EXCEPT ![p].pc = "replace"]
          /\ UNCHANGED <<snapshot, native, lock, touched>>
  /\ UNCHANGED <<commits, index, networkd, desired, applied, failures>>

\* One document's fingerprint against the baseline.
Check(p) ==
  /\ At(p, "check")
  /\ LET f == work[p].at IN
       \/ /\ desired[f] # work[p].tree[f]
          /\ Finish(p)
       \/ /\ desired[f] = work[p].tree[f]
          /\ work' = [work EXCEPT ![p].at = f + 1,
                                  ![p].pc = IF f < LastFile THEN @ ELSE "replace"]
          /\ UNCHANGED <<snapshot, native, lock, touched>>
  /\ UNCHANGED <<commits, index, networkd, desired, applied, failures>>

Replace(p) ==
  /\ At(p, "replace")
  /\ desired' = [desired EXCEPT ![work[p].file] = WithHeader(work[p].doc)]
  /\ Finish(p)
  /\ UNCHANGED <<commits, index, networkd, applied, failures>>

(* ---------------------------- apply, rollback -------------------------- *)

\* Mutant: the native files are installed before the snapshot is taken.
PlanThenInstall(p) ==
  /\ At(p, "plan")
  /\ \/ PlanSucceeds(work[p].tree) /\ GoOn(p, "install")
        /\ UNCHANGED <<snapshot, native, lock, touched>>
     \/ ~PlanSucceeds(work[p].tree) /\ Finish(p)
  /\ UNCHANGED <<commits, index, networkd, desired, applied, failures>>

\* load_network's validation and plan_network, before anything is changed.
Plan(p) ==
  /\ At(p, "plan")
  /\ \/ PlanSucceeds(work[p].tree) /\ GoOn(p, "stage")
        /\ UNCHANGED <<snapshot, native, lock, touched>>
     \/ ~PlanSucceeds(work[p].tree) /\ Finish(p)
  /\ UNCHANGED <<commits, index, networkd, desired, applied, failures>>

\* Mutant: HEAD is read instead of the requested revision.
ResolveHead(p) ==
  /\ At(p, "resolve")
  /\ LET revision == HeadTree
         files == [f \in Files |-> IF revision[f] = Absent THEN Absent
                                   ELSE ReadBack(revision[f])]
     IN  \/ /\ PlanSucceeds(files)
            /\ work' = [work EXCEPT
                  ![p].tree = [f \in Files |-> IF files[f] = Absent THEN Absent
                                               ELSE WithHeader(files[f])],
                  ![p].pc = "rewrite"]
            /\ UNCHANGED <<snapshot, native, lock, touched>>
         \/ ~PlanSucceeds(files) /\ Finish(p)
  /\ UNCHANGED <<commits, index, networkd, desired, applied, failures>>

\* rollback reads the revision, plans it and adds the headers.
Resolve(p) ==
  /\ At(p, "resolve")
  /\ LET revision == commits[work[p].goal]
         files == [f \in Files |-> IF revision[f] = Absent THEN Absent
                                   ELSE ReadBack(revision[f])]
     IN  \/ /\ PlanSucceeds(files)
            /\ work' = [work EXCEPT
                  ![p].tree = [f \in Files |-> IF files[f] = Absent THEN Absent
                                               ELSE WithHeader(files[f])],
                  ![p].pc = "rewrite"]
            /\ UNCHANGED <<snapshot, native, lock, touched>>
         \/ ~PlanSucceeds(files) /\ Finish(p)
  /\ UNCHANGED <<commits, index, networkd, desired, applied, failures>>

\* One document replaced or, when the revision has none, removed.
Rewrite(p) ==
  /\ At(p, "rewrite")
  /\ LET f == work[p].at IN
       /\ desired' = [desired EXCEPT ![f] = work[p].tree[f]]
       /\ work' = [work EXCEPT ![p].at = f + 1,
                               ![p].pc = IF f < LastFile THEN @ ELSE "stage"]
       /\ touched' = (touched /\ f # 1)
  /\ UNCHANGED <<commits, index, snapshot, networkd, native, applied, failures, lock>>

StageFiles(p) ==
  /\ At(p, "stage")
  /\ \/ Stage(work[p].tree) /\ GoOn(p, "commit") /\ UNCHANGED <<native, lock, touched>>
     \/ ~AddSucceeds(work[p].tree) /\ Finish(p) /\ UNCHANGED <<commits, index>>
  /\ UNCHANGED <<networkd, desired, applied, failures>>

CommitFiles(p) ==
  /\ At(p, "commit")
  /\ Commit
  /\ GoOn(p, "install")
  /\ UNCHANGED <<networkd, native, desired, applied, failures, lock, touched>>

Install(p) ==
  /\ At(p, "install")
  /\ Begin(Candidate(work[p].tree))
  /\ GoOn(p, "native")
  /\ UNCHANGED <<commits, index, snapshot, desired, applied, failures, lock, touched>>

Native(p) ==
  /\ At(p, "native")
  /\ CallStep
  /\ UNCHANGED <<commits, index, snapshot, desired, applied, failures,
                 lock, work, touched>>

\* A managed file is gone or not UTF-8: raised as it is, and not recorded.
NativeBreaks(p) ==
  /\ At(p, "native")
  /\ Stumbles
  /\ Finish(p)
  /\ UNCHANGED <<commits, index, networkd, desired, applied, failures>>

\* Mutant: a rollback records the requested revision, not the new one.
RecordSuccessOfGoal(p) ==
  /\ At(p, "native") /\ InPhase("succeeded")
  /\ applied' = [revision |-> IF work[p].goal = 0 THEN snapshot.revision
                              ELSE work[p].goal,
                 artifacts |-> Candidate(work[p].tree)]
  /\ Finish(p)
  /\ UNCHANGED <<commits, index, networkd, desired, failures>>

RecordSuccess(p) ==
  /\ At(p, "native") /\ InPhase("succeeded")
  /\ applied' = [revision |-> snapshot.revision,
                 artifacts |-> Candidate(work[p].tree)]
  /\ Finish(p)
  /\ UNCHANGED <<commits, index, networkd, desired, failures>>

\* Mutant: after a failure the installation is tried again.
RecordFailureAndRetry(p) ==
  /\ At(p, "native") /\ InPhase("failed")
  /\ failures' = failures \cup {snapshot.revision}
  /\ GoOn(p, "install")
  /\ native' = None
  /\ UNCHANGED <<commits, index, snapshot, networkd, desired, applied, lock, touched>>

RecordFailure(p) ==
  /\ At(p, "native") /\ InPhase("failed")
  /\ failures' = failures \cup {snapshot.revision}
  /\ Finish(p)
  /\ UNCHANGED <<commits, index, networkd, desired, applied>>

(* ------------------------ endings and outsiders ------------------------ *)

\* The process is killed or interrupted, or an operation of it fails in a
\* way the code does not handle: the lock is released, the rest stays.
End(p) ==
  /\ ProcessesEnd
  /\ lock = p
  /\ Staged => CommitsCanBeLost
  /\ Applying => CanAbandon
  /\ Finish(p)
  /\ UNCHANGED <<commits, index, networkd, desired, applied, failures>>

\* External: a writer that does not take the lock.
Outside(f, d) ==
  /\ OutsideWrites
  /\ desired[f] # d
  /\ desired' = [desired EXCEPT ![f] = d]
  /\ touched' = (lock # Nobody)
  /\ UNCHANGED <<commits, index, snapshot, networkd, native,
                 applied, failures, lock, work>>

\* External: a managed networkd file is changed by hand.
DriftFile(a, c) ==
  /\ Drift(a, c)
  /\ UNCHANGED <<commits, index, snapshot, desired, applied, failures,
                 lock, work, touched>>

Init ==
  /\ HistoryInit
  /\ NetworkdInit
  /\ desired \in [Files -> Written \cup {Absent}]
  /\ applied = None
  /\ failures = {}
  /\ lock = Nobody
  /\ work = [p \in Processes |-> Idle]
  /\ touched = FALSE

\* What a process does by itself once it has begun and any editor has closed.
Proceed(p) ==
  \/ ReadFile(p) \/ ReadOriginal(p) \/ Check(p) \/ Replace(p)
  \/ Plan(p) \/ Resolve(p) \/ Rewrite(p) \/ StageFiles(p) \/ CommitFiles(p)
  \/ Install(p) \/ Native(p) \/ NativeBreaks(p)
  \/ RecordSuccess(p) \/ RecordFailure(p)

Next ==
  \/ \E p \in Processes :
       \/ \E f \in Files : BeginEdit(p, f)
       \/ BeginApply(p)
       \/ \E r \in Revisions : BeginRollback(p, r)
       \/ \E d \in Written : EditorSaves(p, d)
       \/ EditorGivesUp(p)
       \/ Proceed(p)
       \/ End(p)
  \/ \E f \in Files, d \in Written \cup {Absent} : Outside(f, d)
  \/ \E a \in ArtifactNames, c \in Contents \cup {Absent} : DriftFile(a, c)

Spec == Init /\ [][Next]_vars

\* Processes are scheduled, and git, networkctl and file operations return.
\* Nothing is assumed of editors, of users, of outsiders or of failures.
FairSpec == Spec /\ \A p \in Processes : WF_vars(Proceed(p))

(* ------------------------------- status -------------------------------- *)

\* Mutant: the applied revision's contents decide, whatever HEAD is.
StatusByContents(t) ==
  CASE applied = None -> "not yet applied"
    [] applied # None /\ ~Matches(applied.revision, t) -> "pending changes"
    [] applied # None /\ Matches(applied.revision, t) ->
         IF networkd = applied.artifacts THEN "in sync" ELSE "drift detected"

\* Mutant: managed files that are not in the applied set are not looked at.
StatusExpectedOnly(t) ==
  LET revision == RevisionFor(t)
      matches == \/ revision = applied.revision
                 \/ revision = 0 /\ Matches(applied.revision, t)
  IN  CASE applied = None -> "not yet applied"
        [] applied # None /\ ~matches -> "pending changes"
        [] applied # None /\ matches ->
             IF \A a \in Held(applied.artifacts) : networkd[a] = applied.artifacts[a]
             THEN "in sync" ELSE "drift detected"

\* status() of a desired-state directory that holds t.
Status(t) ==
  LET revision == RevisionFor(t)
      matches == \/ revision = applied.revision
                 \/ revision = 0 /\ Matches(applied.revision, t)
  IN  CASE applied = None -> "not yet applied"
        [] applied # None /\ ~matches -> "pending changes"
        [] applied # None /\ matches ->
             IF networkd = applied.artifacts THEN "in sync" ELSE "drift detected"

(* ----------------------------- properties ------------------------------ *)

TypeOK ==
  /\ HistoryTypeOK
  /\ NetworkdTypeOK
  /\ desired \in Trees
  /\ applied \in [revision : 1 .. MaxCommits, artifacts : Artifacts] \cup {None}
  /\ failures \subseteq 1 .. MaxCommits
  /\ lock \in Processes \cup {Nobody}
  /\ work \in [Processes -> Works]
  /\ touched \in BOOLEAN

\* network_lock serializes the operations: whoever is in one owns the lock,
\* and the lock is owned only by a process that is in one, also after deaths.
LockHeld == \A p \in Processes : lock = p <=> ~At(p, "idle")

\* The documents an operation has made agree with its own view of them.
Agreed(p) ==
  CASE work[p].pc \in {"idle", "resolve"} -> {}
    [] work[p].pc \in {"baseline", "load", "check", "rewrite"} ->
         {f \in Files : f < work[p].at}
    [] OTHER -> Files

\* "Serialize all desired-state writes and applies": while an operation runs
\* no other operation changes the documents it has read, checked or written,
\* so what is planned, committed and installed is what is on disk, and an edit
\* that passed the check replaces what its editor was given, unless a writer
\* without the lock stepped in after that reading, check or rewriting began.
TransactionIsolated ==
  ~touched => \A p \in Processes : \A f \in Agreed(p) : work[p].tree[f] = desired[f]

\* The managed files of the documents that may have been given for t.
FilesFor(t) == {Candidate(s) : s \in {s \in GivenFor(t) : PlanSucceeds(s)}}

\* What the store says was applied is what its revision generates: the
\* revision and the hashes always belong together - up to documents that an
\* operation stopped between `git add' and `git commit' had staged, which
\* the revision then holds although they were not given.
RecordFaithful ==
  applied # None =>
    /\ applied.revision \in Revisions
    /\ applied.artifacts \in FilesFor(commits[applied.revision])

\* "in sync" is the truth: the managed files are what the desired-state
\* documents on disk generate now, whatever failed or was edited before.
\* Only a document that an operation stopped between `git add' and `git
\* commit' had staged may be on disk and not in effect.
InSyncIsTrue == Status(desired) = "in sync" => networkd \in FilesFor(desired)

\* Nothing is installed that is not in the history: every managed file that
\* nobody else changed was generated from documents some revision holds.
InstalledFromHistory ==
  \A a \in ArtifactNames : networkd[a] # Absent =>
    \E r \in Revisions : \E files \in FilesFor(commits[r]) : networkd[a] = files[a]

\* "If native application fails, the previous managed native files and SQLite
\* successful-applied revision remain in effect": between operations the
\* managed files are those of the last recorded success.
AppliedInEffect ==
  lock = Nobody =>
    networkd = IF applied = None THEN NoArtifacts ELSE applied.artifacts

\* From its last rewritten document on, a rollback has the desired state mean
\* what the requested revision means.
RollbackRestoresIntent ==
  ~touched => \A p \in Processes :
    work[p].goal # 0 /\ work[p].pc \in {"stage", "commit", "install", "native"}
      => Intent(desired) = Intent(commits[work[p].goal])

\* After a successful apply or rollback that nobody stepped in, status says so.
SuccessIsInSync ==
  [][\A p \in Processes :
       RecordSuccess(p) /\ ~touched /\ ~native.meddled => Status(desired)' = "in sync"]_vars

\* After a failed apply of a revision other than the applied one the desired
\* state is shown as not in effect: "the failed desired transition is explicit".
FailureIsPending ==
  [][\A p \in Processes :
       /\ RecordFailure(p) /\ ~touched
       /\ applied # None => applied.revision # snapshot.revision
       => Status(desired)' \in {"pending changes", "not yet applied"}]_vars

\* "Rollback restores the requested historical network desired state
\* atomically": a step of a rollback that changes the desired state leaves the
\* requested one.
RollbackAtomic ==
  [][\A p \in Processes :
       Rewrite(p) /\ desired' # desired => desired' = work[p].tree]_vars

\* "Raised when an edit would overwrite an externally changed desired state":
\* an edit replaces a document only while all are as its editor found them.
EditsOverwriteNothing ==
  [][\A p \in Processes : Replace(p) => desired = work[p].tree]_vars

\* What a revision may hold, and what may be installed for it.
Planned == {t \in Trees : FilesFor(t) # {}}
PlannedFiles == [t \in Planned |-> FilesFor(t)]

Service == INSTANCE ServicePromise WITH
  FilesOf <- PlannedFiles, history <- commits, files <- Installed,
  wanted <- Wanted, record <- applied, failed <- failures, attempt <- Call

\* Seen through the history, the store and the files in effect, applies and
\* rollbacks are the steps of ServicePromise, whatever fails within them and
\* wherever their process ends.  Where it ends between `git add' and `git
\* commit', the next revision may hold documents that are not installed.
ServicePromised == Service!PromiseSpec

\* Once no editor is open, an operation comes to its end and frees the lock.
OperationsEnd ==
  \A p \in Processes :
    lock = p /\ ~At(p, "editor") ~> lock # p \/ At(p, "editor")
=============================================================================
