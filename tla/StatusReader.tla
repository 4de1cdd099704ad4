---------------------------- MODULE StatusReader ----------------------------
(***************************************************************************)
(* `kavernis status network' next to the operations of NetworkState.  It   *)
(* takes no lock: the documents, HEAD, the record of the store and the     *)
(* managed files are looked at one after the other, and any of them may    *)
(* change in between.  What a revision holds never changes, so comparing   *)
(* with one belongs to the step that learns which revision it is.          *)
(***************************************************************************)
EXTENDS NetworkState

VARIABLE reader   \* the status call under way or just answered, or None

readerVars == <<vars, reader>>

Answers == {"not yet applied", "pending changes", "drift detected", "in sync"}
Looks == {"load", "head", "revision", "hashes", "list", "files", "told"}

(* pc is what is looked at next, at the next document, files the documents *)
(* read, head the desired revision or 0, revision and hashes the record,   *)
(* todo the managed files listed and not yet read, held those read.        *)
(* overtaken says whether anything status looks at has changed since the   *)
(* call began, torn whether the record has between its two SELECTs; no     *)
(* step looks at these two.                                                *)
Asked == [pc |-> "load", at |-> 1, files |-> EmptyTree, head |-> 0,
          revision |-> 0, hashes |-> NoArtifacts, todo |-> {},
          held |-> NoArtifacts, answer |-> "error",
          overtaken |-> FALSE, torn |-> FALSE]

Looking(pc) == reader # None /\ reader.pc = pc
Answer(a) == reader' = [reader EXCEPT !.pc = "told", !.answer = a]

AskStatus ==
  /\ reader = None
  /\ reader' = Asked

\* load_network, document by document; an invalid one ends the command.
LoadFile ==
  /\ Looking("load")
  /\ LET f == reader.at
         files == [reader.files EXCEPT ![f] = desired[f]]
     IN  IF f < LastFile
         THEN reader' = [reader EXCEPT !.files = files, !.at = f + 1]
         ELSE IF Loads(files)
              THEN reader' = [reader EXCEPT !.files = files, !.pc = "head"]
              ELSE reader' = [reader EXCEPT !.files = files, !.pc = "told"]

\* revision_for_contents
LookAtHead ==
  /\ Looking("head")
  /\ reader' = [reader EXCEPT !.head = RevisionFor(reader.files), !.pc = "revision"]

\* get_domain_state: the revision, then in a second statement the hashes.
SelectRevision ==
  /\ Looking("revision")
  /\ \/ applied = None /\ Answer("not yet applied")
     \/ applied # None
        /\ reader' = [reader EXCEPT !.revision = applied.revision, !.pc = "hashes"]

\* Mutant: a desired state that is not HEAD's is not compared any further.
CompareHeadOnly ==
  /\ Looking("hashes")
  /\ IF reader.head = reader.revision
     THEN reader' = [reader EXCEPT !.hashes = applied.artifacts, !.pc = "list"]
     ELSE Answer("pending changes")

\* Mutant: a desired state that is not in the history counts as the applied one.
CompareRecorded ==
  /\ Looking("hashes")
  /\ IF reader.head \in {reader.revision, 0}
     THEN reader' = [reader EXCEPT !.hashes = applied.artifacts, !.pc = "list"]
     ELSE Answer("pending changes")

\* The second statement; then the desired revision, or the documents when
\* they are not HEAD's, against the applied revision.
Compare ==
  /\ Looking("hashes")
  /\ IF \/ reader.head = reader.revision
        \/ reader.head = 0 /\ Matches(reader.revision, reader.files)
     THEN reader' = [reader EXCEPT !.hashes = applied.artifacts, !.pc = "list"]
     ELSE Answer("pending changes")

\* inspect_artifact_drift lists the managed files and reads them one by one.
ListManaged ==
  /\ Looking("list")
  /\ reader' = [reader EXCEPT !.todo = Held(networkd), !.pc = "files"]

ReadManaged(a) ==
  /\ Looking("files") /\ a \in reader.todo
  /\ reader' = [reader EXCEPT !.todo = @ \ {a}, !.held[a] = networkd[a]]

\* A file listed is gone after it was seen to be a file.
ManagedGone(a) ==
  /\ Looking("files") /\ a \in reader.todo
  /\ networkd[a] = Absent
  /\ Answer("error")

Inspected ==
  /\ Looking("files") /\ reader.todo = {}
  /\ Answer(IF reader.held = reader.hashes THEN "in sync" ELSE "drift detected")

Told ==
  /\ Looking("told")
  /\ reader' = None

\* Whatever the operations and the others do while status looks.
Overtake ==
  reader' = IF reader = None THEN None
            ELSE [reader EXCEPT
                    !.overtaken = @ \/ <<desired, commits, applied, networkd>>'
                                         # <<desired, commits, applied, networkd>>,
                    !.torn = @ \/ (reader.pc = "hashes" /\ applied' # applied)]

Look ==
  \/ AskStatus \/ LoadFile \/ LookAtHead \/ SelectRevision \/ Compare
  \/ ListManaged \/ Inspected \/ Told
  \/ \E a \in ArtifactNames : ReadManaged(a) \/ ManagedGone(a)

ReaderInit == Init /\ reader = None
ReaderNext == (Look /\ UNCHANGED vars) \/ (Next /\ Overtake)
ReaderSpec == ReaderInit /\ [][ReaderNext]_readerVars

(* ----------------------------- properties ------------------------------ *)

ReaderTypeOK ==
  reader \in [pc : Looks, at : Files, files : Trees, head : 0 .. MaxCommits,
              revision : 0 .. MaxCommits, hashes : Artifacts,
              todo : SUBSET ArtifactNames, held : Artifacts,
              answer : Answers \cup {"error"},
              overtaken : BOOLEAN, torn : BOOLEAN] \cup {None}

\* The one-step Status that the properties of NetworkState speak of is what a
\* status call answers whenever nothing changed while it looked, whatever had
\* happened before.
StatusAnswers ==
  Looking("told") /\ ~reader.overtaken /\ reader.answer # "error" =>
    reader.answer = Status(desired)

\* Also while operations run, "in sync" is said only of documents and managed
\* files that belong together - the files that were read are what the
\* documents that were read generate - unless a success was recorded between
\* the two statements that read the record.
InSyncBelongs ==
  Looking("told") /\ ~reader.torn /\ reader.answer = "in sync" =>
    reader.held \in FilesFor(reader.files)
=============================================================================
