--------------------------- MODULE ServicePromise ---------------------------
(***************************************************************************)
(* What apply and rollback promise whoever looks at the history, the store *)
(* and the managed files: nothing is installed before it is a revision;    *)
(* the files then change to those of the newest revision in one step or    *)
(* not at all; a success is recorded of that revision with those files, a  *)
(* failure changes nothing else.  Only an attempt that is cut short may    *)
(* leave of each file the old, the new or none, and then nothing says that *)
(* it was applied.                                                         *)
(*                                                                         *)
(* A revision may hold more than was asked for (a document that was staged *)
(* when an earlier attempt ended), so what is installed for it is one of a *)
(* set; the set has one element when nothing ends there.                   *)
(***************************************************************************)
EXTENDS Naturals, Sequences

CONSTANTS
  ArtifactNames, Absent, None,
  FilesOf   \* documents of a revision |-> the sets of managed files that
            \* may be generated for it

VARIABLES
  history,  \* the revisions
  files,    \* the managed files, as they count
  wanted,   \* those the attempt is to install, or None
  record,   \* the last success, or None
  failed,   \* the revisions with a failed attempt
  attempt   \* "idle", "applying", "succeeded" or "failed"

promiseVars == <<history, files, wanted, record, failed, attempt>>

Newest == FilesOf[history[Len(history)]]

PromiseInit ==
  /\ history = <<>> /\ record = None /\ failed = {}
  /\ attempt = "idle" /\ wanted = None
  /\ files = [a \in ArtifactNames |-> Absent]

\* Documents that are not those of the newest revision become one.
Keep ==
  /\ attempt = "idle" /\ history' # history
  /\ \E t \in DOMAIN FilesOf :
       /\ history # <<>> => t # history[Len(history)]
       /\ history' = Append(history, t)
  /\ UNCHANGED <<files, wanted, record, failed, attempt>>

Attempt ==
  /\ attempt = "idle" /\ history # <<>>
  /\ attempt' = "applying" /\ wanted' \in Newest
  /\ UNCHANGED <<history, files, record, failed>>

Install ==
  /\ attempt = "applying"
  /\ attempt' = "succeeded" /\ files' = wanted
  /\ UNCHANGED <<history, wanted, record, failed>>

Refuse ==
  /\ attempt = "applying"
  /\ attempt' = "failed"
  /\ UNCHANGED <<history, files, wanted, record, failed>>

RecordSuccess ==
  /\ attempt = "succeeded"
  /\ attempt' = "idle" /\ wanted' = None
  /\ record' = [revision |-> Len(history), artifacts |-> files]
  /\ UNCHANGED <<history, files, failed>>

RecordFailure ==
  /\ attempt = "failed"
  /\ attempt' = "idle" /\ wanted' = None
  /\ failed' = failed \cup {Len(history)}
  /\ UNCHANGED <<history, files, record>>

\* The process dies, is interrupted or fails in a way that is not handled.
CutShort ==
  /\ attempt # "idle"
  /\ attempt' = "idle" /\ wanted' = None
  /\ \/ files' = files
     \/ /\ attempt = "applying"
        /\ DOMAIN files' = ArtifactNames
        /\ \A a \in ArtifactNames : files'[a] \in {files[a], wanted[a], Absent}
  /\ UNCHANGED <<history, record, failed>>

PromiseNext ==
  \/ Keep \/ Attempt \/ Install \/ Refuse
  \/ RecordSuccess \/ RecordFailure \/ CutShort

PromiseSpec == PromiseInit /\ [][PromiseNext]_promiseVars
=============================================================================
