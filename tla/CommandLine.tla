---------------------------- MODULE CommandLine ----------------------------
(***************************************************************************)
(* cli.py main(): `kavernis edit', `apply' and `rollback' as the person at *)
(* the terminal meets them.  A command runs one operation of NetworkState; *)
(* how that ends decides what is said, and main() turns every exception it *)
(* names into "Error: ..." and Ctrl-C, at any moment, into "Aborted ...".  *)
(* `command' is the last command that got the lock: a command that finds   *)
(* it taken says "Error" and changes nothing.  Only commands act here:     *)
(* writers without the lock are left to NetworkState.                      *)
(***************************************************************************)
EXTENDS NetworkState

VARIABLE command   \* the command under way or just over, or None

commandVars == <<vars, command>>

Actions == {"edit", "apply", "rollback"}

\* "done" stands for "Updated desired state.", "Applied ..." and "Rolled back
\* and applied ..."; "nothing" is a command that goes on or was killed.
Messages == {"nothing", "done", "no changes", "error", "aborted"}

(* What the documents, the record and the managed files were when it began *)
(* is kept to compare with; broken says that it ended by a failure of a    *)
(* step the operation does not handle.  No step looks at these.            *)
Invoked(action) ==
  [action |-> action, said |-> "nothing", broken |-> FALSE,
   desired |-> desired, applied |-> applied, networkd |-> networkd]

Says(messages) == \E m \in messages : command' = [command EXCEPT !.said = m]
Breaks == command' = [command EXCEPT !.said = "error", !.broken = TRUE]

Invoke(p) ==
  \/ \E f \in Files : BeginEdit(p, f) /\ command' = Invoked("edit")
  \/ BeginApply(p) /\ command' = Invoked("apply")
  \/ \E r \in Revisions :
       BeginRollback(p, r) /\ command' = Invoked("rollback")

GoingOn(p) ==
  /\ Proceed(p) \/ \E d \in Written : EditorSaves(p, d)
  /\ lock' = p
  /\ UNCHANGED command

\* Ctrl-C or death may still come when all is done.
Late == IF ProcessesEnd THEN {"aborted", "nothing"} ELSE {}
AppliedFiles(p) == RecordSuccess(p) /\ Says({"done"} \cup Late)

\* The document is replaced, but the fsync of its directory fails.
Unsynced == ProcessesEnd /\ Breaks
Updated(p) == Replace(p) /\ (Says({"done"} \cup Late) \/ Unsynced)

\* The text is unchanged, or _retry_invalid_edit is answered with "x".
NoChanges(p) == EditorGivesUp(p) /\ Says({"no changes"})

\* Mutant: an editor that fails is taken for one that saves.
EditorFailedReplaces(p) ==
  /\ At(p, "editor")
  /\ desired' = [desired EXCEPT ![work[p].file] = work[p].doc]
  /\ Finish(p)
  /\ Says({"error"})
  /\ UNCHANGED <<commits, index, networkd, applied, failures>>

\* The editor cannot be started or exits with a failure.
EditorFailed(p) == EditorGivesUp(p) /\ Says({"error"})

\* The operation raises: desired state changed, does not load, resolve or
\* stage, or the native apply failed.
Failed(p) ==
  /\ \/ ReadOriginal(p) \/ Check(p) \/ Plan(p) \/ Resolve(p) \/ StageFiles(p)
     \/ NativeBreaks(p) \/ RecordFailure(p)
  /\ lock' = Nobody
  /\ Says({"error"})

\* Ctrl-C, or death, at any moment in between.
Stopped(p) == End(p) /\ Says({"aborted", "nothing"})

\* A file operation, a command or the store fails where nothing handles it.
Broken(p) == End(p) /\ Breaks

CommandInit == Init /\ command = None
CommandNext ==
  \E p \in Processes :
    \/ Invoke(p) \/ GoingOn(p)
    \/ Updated(p) \/ AppliedFiles(p) \/ NoChanges(p) \/ EditorFailed(p)
    \/ Failed(p) \/ Stopped(p) \/ Broken(p)
CommandSpec == CommandInit /\ [][CommandNext]_commandVars

(* ----------------------------- properties ------------------------------ *)

Has(message) == command # None /\ command.said = message

\* Exit status 0 of apply and rollback: the managed files are those of the
\* documents on disk, and the newest revision holds these documents, at
\* whatever point earlier commands were stopped.  Status then says in sync,
\* unless the revision holds more: a document that a command stopped between
\* `git add' and `git commit' had staged.
DoneIsInSync ==
  Has("done") /\ command.action # "edit" =>
    /\ desired \in GivenFor(HeadTree)
    /\ PlanSucceeds(desired) /\ networkd = Candidate(desired)
    /\ desired = HeadTree => Status(desired) = "in sync"

\* A success puts the repository right: `git add' refuses no desired state any
\* more, at whatever point earlier commands were stopped, and every revision
\* resolves, if need be without documents that such a command had staged.
SuccessRepairs ==
  Has("done") /\ command.action # "edit" =>
    /\ SnapshotPossible
    /\ \A r \in Revisions : FilesFor(commits[r]) # {}

\* "Error" for a reason the operation handles: the record and the managed
\* files are what they were when the command began, also when an earlier one
\* was stopped half way, and so are the documents unless it was a rollback.
ErrorChangesNothing ==
  Has("error") /\ ~command.broken =>
    /\ applied = command.applied /\ networkd = command.networkd
    /\ command.action # "rollback" => desired = command.desired

\* "Aborted; desired state was unchanged."
AbortedIsUnchanged == Has("aborted") => desired = command.desired
=============================================================================
