--------------------------- MODULE CommandProofs ---------------------------
(***************************************************************************)
(* What the commands of `kavernis' say, for every number of processes,     *)
(* documents, revisions and managed files: the theorems about StatusReader *)
(* (status, while others work) and CommandLine (edit, apply, rollback).    *)
(***************************************************************************)
EXTENDS StatusReader, CommandLine, NetworkStateProofs

(* ------------------------------- status -------------------------------- *)

Readers ==
  [pc : Looks, at : Files, files : Trees, head : 0 .. MaxCommits,
   revision : 0 .. MaxCommits, hashes : Artifacts,
   todo : SUBSET ArtifactNames, held : Artifacts,
   answer : Answers \cup {"error"}, overtaken : BOOLEAN, torn : BOOLEAN]

\* A call that reads the record has found one; nothing is held before the
\* managed files are listed, and nothing is said before the end.
Kept(r) ==
  /\ r \in Readers
  /\ r.pc = "hashes" => applied # None
  /\ r.pc \notin {"files", "told"} => r.held = NoArtifacts
  /\ r.pc # "told" => r.answer = "error"

\* status() compares the documents on disk with the record and finds them equal.
Agrees == \/ RevisionFor(desired) = applied.revision
          \/ RevisionFor(desired) = 0 /\ Matches(applied.revision, desired)

\* What a call that nothing has overtaken has seen is what there is.
Current(r) ==
  ~r.overtaken =>
    /\ r.pc = "load" => \A f \in Files : f < r.at => r.files[f] = desired[f]
    /\ r.pc \notin {"load", "told"} => r.files = desired
    /\ r.pc \in {"revision", "hashes"} => r.head = RevisionFor(desired)
    /\ r.pc = "hashes" => applied # None /\ r.revision = applied.revision
    /\ r.pc \in {"list", "files"} =>
         applied # None /\ Agrees /\ r.hashes = applied.artifacts
    /\ r.pc = "files" =>
         \A a \in ArtifactNames : r.held[a] = IF a \in r.todo THEN Absent ELSE networkd[a]
    /\ r.pc = "told" /\ r.answer # "error" => r.answer = Status(desired)

CurrentInv == reader # None => Kept(reader) /\ Current(reader)

LEMMA StatusIs ==
  /\ applied = None => Status(desired) = "not yet applied"
  /\ applied # None /\ ~Agrees => Status(desired) = "pending changes"
  /\ applied # None /\ Agrees =>
       Status(desired) = IF networkd = applied.artifacts THEN "in sync" ELSE "drift detected"
  BY DEF Status, Agrees

LEMMA NoArtifactsIsArtifacts == NoArtifacts \in Artifacts
  BY DEF NoArtifacts, Artifacts

LEMMA RevisionForIsRevision ==
  ASSUME Inv, NEW t
  PROVE  /\ RevisionFor(t) \in 0 .. MaxCommits
         /\ RevisionFor(t) # 0 => RevisionFor(t) \in Revisions /\ Matches(RevisionFor(t), t)
<1>1. commits \in Seq(Trees) /\ Len(commits) \in Nat /\ Len(commits) <= MaxCommits
  BY LenProperties DEF Inv, TypeOK, HistoryTypeOK
<1>2. CASE commits # <<>> /\ Matches(Len(commits), t)
  <2>1. RevisionFor(t) = Len(commits) /\ Len(commits) # 0
    BY <1>1, <1>2, EmptySeq DEF RevisionFor
  <2> QED  BY <1>1, <1>2, <2>1, HistoryAssumption DEF Revisions
<1>3. CASE ~(commits # <<>> /\ Matches(Len(commits), t))
  BY <1>3, HistoryAssumption DEF RevisionFor
<1> QED  BY <1>2, <1>3

\* What a state says of itself does not change with a step of the reader.
LEMMA LookChangesNothing ==
  ASSUME UNCHANGED vars
  PROVE  /\ desired' = desired /\ commits' = commits /\ applied' = applied
         /\ networkd' = networkd
         /\ RevisionFor(desired)' = RevisionFor(desired)
         /\ Agrees' = Agrees /\ Status(desired)' = Status(desired)
<1>1. /\ desired' = desired /\ commits' = commits /\ applied' = applied
      /\ networkd' = networkd
  BY DEF vars
<1>2. RevisionFor(desired)' = RevisionFor(desired)
  BY <1>1 DEF RevisionFor, Matches, Present, ReadBack
<1>3. Agrees' = Agrees
  BY <1>1, <1>2 DEF Agrees, Matches, Present, ReadBack
<1>4. Status(desired)' = Status(desired)
  BY <1>1, <1>2 DEF Status, Matches, Present, ReadBack
<1> QED  BY <1>1, <1>2, <1>3, <1>4

LEMMA ReaderFields ==
  ASSUME CurrentInv, NEW step, Looking(step)
  PROVE  /\ reader # None /\ reader \in Readers /\ reader.pc = step
         /\ Kept(reader) /\ Current(reader)
  BY DEF CurrentInv, Looking, Kept

LEMMA AskKeepsCurrent ==
  ASSUME AskStatus, UNCHANGED vars
  PROVE  CurrentInv'
<1>1. reader' = Asked
  BY DEF AskStatus
<1>2. Asked \in Readers
  <2>1. 1 \in Files /\ 0 \in 0 .. MaxCommits
    BY FilesAssumption, HistoryAssumption DEF Files
  <2> QED  BY <2>1, EmptyTreeIsTree, NoArtifactsIsArtifacts DEF Asked, Readers, Looks, Answers
<1>3. /\ Asked.pc = "load" /\ Asked.at = 1 /\ Asked.held = NoArtifacts
      /\ Asked.overtaken = FALSE /\ Asked.answer = "error"
  BY DEF Asked
<1>4. Kept(Asked)'
  BY <1>2, <1>3 DEF Kept
<1>5. \A f \in Files : ~(f < 1)
  BY DEF Files
<1>6. Current(Asked)'
  BY <1>3, <1>5 DEF Current
<1> QED  BY <1>1, <1>4, <1>6 DEF CurrentInv, Kept, Current

LEMMA LoadKeepsCurrent ==
  ASSUME Inv, CurrentInv, LoadFile, UNCHANGED vars
  PROVE  CurrentInv'
<1> DEFINE files == [reader.files EXCEPT ![reader.at] = desired[reader.at]]
           onward == [reader EXCEPT !.files = files, !.at = reader.at + 1]
           ready == [reader EXCEPT !.files = files, !.pc = "head"]
           refused == [reader EXCEPT !.files = files, !.pc = "told"]
<1>1. /\ reader # None /\ reader \in Readers /\ reader.pc = "load"
      /\ Kept(reader) /\ Current(reader)
  BY ReaderFields DEF LoadFile
<1>2. desired \in Trees /\ reader.files \in Trees /\ reader.at \in Files
  BY <1>1 DEF Inv, TypeOK, Readers
<1>3. /\ files \in Trees /\ files[reader.at] = desired[reader.at]
      /\ \A f \in Files \ {reader.at} : files[f] = reader.files[f]
  BY <1>2 DEF Trees
<1>4. \/ reader.at < LastFile /\ reader' = onward
      \/ reader.at >= LastFile /\ reader' = ready
      \/ reader.at >= LastFile /\ reader' = refused
  BY <1>2, FilesAssumption DEF LoadFile, Files
<1>5. /\ onward.pc = "load" /\ onward.at = reader.at + 1 /\ onward.files = files
      /\ onward.held = reader.held /\ onward.answer = reader.answer
      /\ onward.overtaken = reader.overtaken
      /\ reader.at < LastFile => onward \in Readers
  <2>1. reader.at < LastFile => reader.at + 1 \in Files
    BY <1>2, FilesAssumption DEF Files
  <2> HIDE DEF files
  <2> QED  BY <1>1, <1>3, <2>1 DEF Readers
<1>6. /\ ready.pc = "head" /\ ready.files = files /\ ready.held = reader.held
      /\ ready.answer = reader.answer
      /\ ready.overtaken = reader.overtaken /\ ready \in Readers
  <2> HIDE DEF files
  <2> QED  BY <1>1, <1>3 DEF Readers, Looks
<1>7. /\ refused.pc = "told" /\ refused.answer = reader.answer /\ refused.files = files
      /\ refused.overtaken = reader.overtaken /\ refused \in Readers
  <2> HIDE DEF files
  <2> QED  BY <1>1, <1>3 DEF Readers, Looks
<1> HIDE DEF files, onward, ready, refused
<1>8. UNCHANGED <<desired, applied>> /\ reader.held = NoArtifacts /\ reader.answer = "error"
  BY <1>1, LookChangesNothing DEF Kept
<1>9. CASE reader.at < LastFile /\ reader' = onward
  <2>1. Kept(reader)'
    BY <1>5, <1>8, <1>9 DEF Kept
  <2>2. ASSUME ~reader.overtaken, NEW f \in Files, f < reader.at + 1
        PROVE  files[f] = desired[f]
    <3>1. f = reader.at \/ f < reader.at
      BY <1>2, <2>2 DEF Files
    <3> QED  BY <1>1, <1>2, <1>3, <2>2, <3>1 DEF Current
  <2>3. Current(reader)'
    BY <1>5, <1>8, <1>9, <2>2 DEF Current
  <2> QED  BY <2>1, <2>3 DEF CurrentInv
<1>10. CASE reader.at >= LastFile /\ reader' = ready
  <2>1. Kept(reader)'
    BY <1>6, <1>8, <1>10 DEF Kept
  <2>2. ASSUME ~reader.overtaken PROVE files = desired
    <3>1. ASSUME NEW f \in Files PROVE files[f] = desired[f]
      <4>1. f = reader.at \/ f < reader.at
        BY <1>2, <1>10, FilesAssumption DEF Files
      <4> QED  BY <1>1, <1>2, <1>3, <2>2, <4>1 DEF Current
    <3> QED  BY <1>2, <1>3, <3>1 DEF Trees
  <2>3. Current(reader)'
    BY <1>6, <1>8, <1>10, <2>2 DEF Current
  <2> QED  BY <2>1, <2>3 DEF CurrentInv
<1>11. CASE reader' = refused
  BY <1>7, <1>8, <1>11 DEF Kept, Current, CurrentInv
<1> QED  BY <1>4, <1>9, <1>10, <1>11

LEMMA HeadKeepsCurrent ==
  ASSUME Inv, CurrentInv, LookAtHead, UNCHANGED vars
  PROVE  CurrentInv'
<1> DEFINE r == [reader EXCEPT !.head = RevisionFor(reader.files), !.pc = "revision"]
<1>1. /\ reader # None /\ reader \in Readers /\ reader.pc = "head"
      /\ Kept(reader) /\ Current(reader) /\ reader' = r
  BY ReaderFields DEF LookAtHead
<1>2. RevisionFor(reader.files) \in 0 .. MaxCommits
  BY RevisionForIsRevision
<1>3. /\ r \in Readers /\ r.pc = "revision" /\ r.head = RevisionFor(reader.files)
      /\ r.files = reader.files /\ r.held = reader.held /\ r.answer = reader.answer
      /\ r.overtaken = reader.overtaken
  BY <1>1, <1>2 DEF Readers, Looks
<1> HIDE DEF r
<1>4. Kept(reader)'
  BY <1>1, <1>3 DEF Kept
<1>5. ~reader.overtaken => reader.files = desired
  BY <1>1 DEF Current
<1>6. Current(reader)'
  BY <1>1, <1>3, <1>5, LookChangesNothing DEF Current
<1> QED  BY <1>4, <1>6 DEF CurrentInv

\* A call that answers.
LEMMA AnswerKeepsCurrent ==
  ASSUME CurrentInv, NEW a \in Answers \cup {"error"}, reader # None, Answer(a), UNCHANGED vars,
         ~reader.overtaken /\ a # "error" => a = Status(desired)
  PROVE  CurrentInv'
<1> DEFINE r == [reader EXCEPT !.pc = "told", !.answer = a]
<1>1. reader \in Readers /\ reader' = r
  BY DEF CurrentInv, Kept, Answer
<1>2. /\ r \in Readers /\ r.pc = "told" /\ r.answer = a /\ r.overtaken = reader.overtaken
  BY <1>1 DEF Readers, Looks
<1> HIDE DEF r
<1>3. Kept(reader)'
  BY <1>1, <1>2 DEF Kept
<1>4. Current(reader)'
  BY <1>1, <1>2, LookChangesNothing DEF Current
<1> QED  BY <1>3, <1>4 DEF CurrentInv

LEMMA RevisionKeepsCurrent ==
  ASSUME Inv, CurrentInv, SelectRevision, UNCHANGED vars
  PROVE  CurrentInv'
<1>1. /\ reader # None /\ reader \in Readers /\ reader.pc = "revision"
      /\ Kept(reader) /\ Current(reader)
  BY ReaderFields DEF SelectRevision
<1>2. CASE applied = None /\ Answer("not yet applied")
  BY <1>1, <1>2, StatusIs, AnswerKeepsCurrent DEF Answers
<1>3. CASE applied # None
           /\ reader' = [reader EXCEPT !.revision = applied.revision, !.pc = "hashes"]
  <2> DEFINE r == [reader EXCEPT !.revision = applied.revision, !.pc = "hashes"]
  <2>1. applied.revision \in 0 .. MaxCommits
    BY <1>3, HistoryAssumption DEF Inv, TypeOK
  <2>2. /\ r \in Readers /\ r.pc = "hashes" /\ r.revision = applied.revision
        /\ r.files = reader.files /\ r.head = reader.head /\ r.held = reader.held
        /\ r.answer = reader.answer /\ r.overtaken = reader.overtaken
    BY <1>1, <2>1 DEF Readers, Looks
  <2>3. reader' = r
    BY <1>3
  <2> HIDE DEF r
  <2>4. Kept(reader)'
    BY <1>1, <1>3, <2>2, <2>3, LookChangesNothing DEF Kept
  <2>5. Current(reader)'
    BY <1>1, <1>3, <2>2, <2>3, LookChangesNothing DEF Current
  <2> QED  BY <2>4, <2>5 DEF CurrentInv
<1> QED  BY <1>2, <1>3 DEF SelectRevision

LEMMA CompareKeepsCurrent ==
  ASSUME Inv, CurrentInv, Compare, UNCHANGED vars
  PROVE  CurrentInv'
<1> DEFINE same == \/ reader.head = reader.revision
                   \/ reader.head = 0 /\ Matches(reader.revision, reader.files)
           r == [reader EXCEPT !.hashes = applied.artifacts, !.pc = "list"]
<1>1. /\ reader # None /\ reader \in Readers /\ reader.pc = "hashes"
      /\ Kept(reader) /\ Current(reader) /\ applied # None
  BY ReaderFields DEF Compare, Kept
<1>2. ~reader.overtaken => (same <=> Agrees) /\ reader.files = desired
  BY <1>1 DEF Current, Agrees
<1>3. IF same THEN reader' = r ELSE Answer("pending changes")
  BY DEF Compare
<1>4. applied.artifacts \in Artifacts
  BY <1>1 DEF Inv, TypeOK
<1>5. /\ r \in Readers /\ r.pc = "list" /\ r.hashes = applied.artifacts
      /\ r.files = reader.files /\ r.held = reader.held /\ r.answer = reader.answer
      /\ r.overtaken = reader.overtaken
  BY <1>1, <1>4 DEF Readers, Looks
<1> HIDE DEF same, r
<1>6. CASE same
  <2>1. Kept(reader)'
    BY <1>1, <1>3, <1>5, <1>6 DEF Kept
  <2>2. Current(reader)'
    BY <1>1, <1>2, <1>3, <1>5, <1>6, LookChangesNothing DEF Current
  <2> QED  BY <2>1, <2>2 DEF CurrentInv
<1>7. CASE ~same
  BY <1>1, <1>2, <1>3, <1>7, StatusIs, AnswerKeepsCurrent DEF Answers
<1> QED  BY <1>6, <1>7

LEMMA ListKeepsCurrent ==
  ASSUME Inv, CurrentInv, ListManaged, UNCHANGED vars
  PROVE  CurrentInv'
<1> DEFINE r == [reader EXCEPT !.todo = Held(networkd), !.pc = "files"]
<1>1. /\ reader # None /\ reader \in Readers /\ reader.pc = "list"
      /\ Kept(reader) /\ Current(reader) /\ reader' = r
  BY ReaderFields DEF ListManaged
<1>2. Held(networkd) \in SUBSET ArtifactNames
  BY DEF Held
<1>3. /\ r \in Readers /\ r.pc = "files" /\ r.todo = Held(networkd)
      /\ r.files = reader.files /\ r.hashes = reader.hashes /\ r.held = reader.held
      /\ r.answer = reader.answer /\ r.overtaken = reader.overtaken
  BY <1>1, <1>2 DEF Readers, Looks
<1> HIDE DEF r
<1>4. reader.held = NoArtifacts
  BY <1>1 DEF Kept
<1>5. Kept(reader)'
  BY <1>1, <1>3 DEF Kept
<1>6. \A a \in ArtifactNames :
        r.held[a] = IF a \in r.todo THEN Absent ELSE networkd[a]
  BY <1>3, <1>4 DEF NoArtifacts, Held
<1>7. Current(reader)'
  BY <1>1, <1>3, <1>6, LookChangesNothing DEF Current
<1> QED  BY <1>5, <1>7 DEF CurrentInv

LEMMA ReadKeepsCurrent ==
  ASSUME Inv, CurrentInv, NEW a \in ArtifactNames, ReadManaged(a), UNCHANGED vars
  PROVE  CurrentInv'
<1> DEFINE r == [reader EXCEPT !.todo = @ \ {a}, !.held[a] = networkd[a]]
<1>1. /\ reader # None /\ reader \in Readers /\ reader.pc = "files"
      /\ Kept(reader) /\ Current(reader) /\ reader' = r
  BY ReaderFields DEF ReadManaged
<1>2. networkd \in Artifacts /\ reader.held \in Artifacts
  BY <1>1 DEF Inv, NetworkdInv, NetworkdTypeOK, Readers
<1>3. /\ [reader.held EXCEPT ![a] = networkd[a]] \in Artifacts
      /\ reader.todo \ {a} \in SUBSET ArtifactNames
  BY <1>1, <1>2 DEF Artifacts, Readers
<1>4. /\ r \in Readers /\ r.pc = "files" /\ r.todo = reader.todo \ {a}
      /\ r.held = [reader.held EXCEPT ![a] = networkd[a]]
      /\ r.files = reader.files /\ r.hashes = reader.hashes
      /\ r.answer = reader.answer /\ r.overtaken = reader.overtaken
  BY <1>1, <1>3 DEF Readers
<1> HIDE DEF r
<1>5. Kept(reader)'
  BY <1>1, <1>4 DEF Kept
<1>6. ASSUME ~reader.overtaken, NEW b \in ArtifactNames
      PROVE  r.held[b] = IF b \in r.todo THEN Absent ELSE networkd[b]
  BY <1>1, <1>2, <1>4, <1>6 DEF Current, Artifacts
<1>7. Current(reader)'
  BY <1>1, <1>4, <1>6, LookChangesNothing DEF Current
<1> QED  BY <1>5, <1>7 DEF CurrentInv

LEMMA InspectedKeepsCurrent ==
  ASSUME Inv, CurrentInv, Inspected, UNCHANGED vars
  PROVE  CurrentInv'
<1>1. /\ reader # None /\ reader \in Readers /\ reader.pc = "files" /\ reader.todo = {}
      /\ Kept(reader) /\ Current(reader)
  BY ReaderFields DEF Inspected
<1>2. networkd \in Artifacts /\ reader.held \in Artifacts
  BY <1>1 DEF Inv, NetworkdInv, NetworkdTypeOK, Readers
<1>3. ~reader.overtaken => /\ applied # None /\ Agrees
                           /\ reader.hashes = applied.artifacts /\ reader.held = networkd
  <2>1. ASSUME ~reader.overtaken PROVE reader.held = networkd
    BY <1>1, <1>2, <2>1, ArtifactsAgree DEF Current
  <2> QED  BY <1>1, <2>1 DEF Current
<1>4. CASE reader.held = reader.hashes
  BY <1>1, <1>3, <1>4, StatusIs, AnswerKeepsCurrent DEF Inspected, Answers
<1>5. CASE reader.held # reader.hashes
  BY <1>1, <1>3, <1>5, StatusIs, AnswerKeepsCurrent DEF Inspected, Answers
<1> QED  BY <1>4, <1>5

LEMMA LookKeepsCurrent ==
  ASSUME Inv, CurrentInv, Look, UNCHANGED vars
  PROVE  CurrentInv'
<1>1. ASSUME NEW a \in ArtifactNames, ManagedGone(a) PROVE CurrentInv'
  BY <1>1, ReaderFields, AnswerKeepsCurrent DEF ManagedGone
<1>2. CASE Told
  BY <1>2 DEF Told, CurrentInv
<1> QED  BY <1>1, <1>2, AskKeepsCurrent, LoadKeepsCurrent, HeadKeepsCurrent,
            RevisionKeepsCurrent, CompareKeepsCurrent, ListKeepsCurrent, ReadKeepsCurrent,
            InspectedKeepsCurrent DEF Look

\* The record of a success is never taken back.
LEMMA RecordsStay ==
  ASSUME Inv, [Next]_vars, applied # None
  PROVE  applied' # None
<1>1. CASE applied' = applied
  BY <1>1
<1>2. ASSUME NEW p \in Processes, RecordSuccess(p) PROVE applied' # None
  <2>1. At(p, "native") /\ Progress(p) /\ work[p] \in Works
    BY <1>2, ActorHoldsLock DEF RecordSuccess, At
  <2>2. Answered /\ PlanSucceeds(work[p].tree)
    BY <2>1 DEF Progress, At
  <2>3. snapshot.revision \in 1 .. MaxCommits
    BY <2>2, HistoryAssumption DEF Inv, TypeOK, HistoryTypeOK, Answered
  <2>4. Candidate(work[p].tree) \in Artifacts
    BY <2>2, NetworkStateAssumption, CandidatesAreArtifacts DEF PlanSucceeds, Candidate
  <2> QED  BY <1>2, <2>3, <2>4, NetworkStateAssumption DEF RecordSuccess
<1>3. (\E p \in Processes : RecordSuccess(p)) \/ applied' = applied
  BY DEF Next, Proceed, BeginEdit, BeginApply, BeginRollback, Enter, ReadFile, ReadOriginal,
         EditorSaves, EditorGivesUp, Check, Replace, Plan, Resolve, Rewrite, StageFiles,
         CommitFiles, Install, Native, NativeBreaks, RecordFailure, End, Outside,
         DriftFile, vars
<1> QED  BY <1>1, <1>2, <1>3

\* Being overtaken changes nothing that was read, and is noticed.
LEMMA OvertakeEffect ==
  ASSUME CurrentInv, reader # None, Overtake
  PROVE  /\ reader' \in Readers
         /\ reader'.pc = reader.pc /\ reader'.at = reader.at /\ reader'.files = reader.files
         /\ reader'.head = reader.head /\ reader'.revision = reader.revision
         /\ reader'.hashes = reader.hashes /\ reader'.todo = reader.todo
         /\ reader'.held = reader.held /\ reader'.answer = reader.answer
         /\ ~reader'.overtaken =>
              ~reader.overtaken /\ UNCHANGED <<desired, commits, applied, networkd>>
         /\ ~reader'.torn => ~reader.torn /\ (reader.pc = "hashes" => applied' = applied)
<1>1. reader \in Readers
  BY DEF CurrentInv, Kept
<1> DEFINE overtaken == reader.overtaken \/ <<desired, commits, applied, networkd>>'
                                              # <<desired, commits, applied, networkd>>
           torn == reader.torn \/ (reader.pc = "hashes" /\ applied' # applied)
           r == [reader EXCEPT !.overtaken = overtaken, !.torn = torn]
<1>2. overtaken \in BOOLEAN /\ torn \in BOOLEAN
  BY <1>1 DEF Readers
<1>3. reader' = r
  BY DEF Overtake
<1>4. ~overtaken =>
        ~reader.overtaken /\ UNCHANGED <<desired, commits, applied, networkd>>
  OBVIOUS
<1>5. ~torn => ~reader.torn /\ (reader.pc = "hashes" => applied' = applied)
  OBVIOUS
<1> HIDE DEF overtaken, torn
<1>6. /\ r \in Readers
      /\ r.pc = reader.pc /\ r.at = reader.at /\ r.files = reader.files
      /\ r.head = reader.head /\ r.revision = reader.revision
      /\ r.hashes = reader.hashes /\ r.todo = reader.todo
      /\ r.held = reader.held /\ r.answer = reader.answer
      /\ r.overtaken = overtaken /\ r.torn = torn
  BY <1>1, <1>2 DEF Readers
<1> HIDE DEF r
<1> QED  BY <1>3, <1>4, <1>5, <1>6

LEMMA OvertakeKeepsCurrent ==
  ASSUME Inv, CurrentInv, Next, Overtake
  PROVE  CurrentInv'
<1>1. CASE reader = None
  BY <1>1 DEF Overtake, CurrentInv
<1>2. CASE reader # None
  <2>1. Kept(reader) /\ Current(reader)
    BY <1>2 DEF CurrentInv
  <2>2. Kept(reader)'
    BY <1>2, <2>1, OvertakeEffect, RecordsStay DEF Kept
  <2>3. CASE reader'.overtaken
    BY <2>2, <2>3 DEF Current, CurrentInv
  <2>4. CASE ~reader'.overtaken
    <3>1. /\ desired' = desired /\ commits' = commits /\ applied' = applied
          /\ networkd' = networkd /\ ~reader.overtaken
      BY <1>2, <2>4, OvertakeEffect
    <3>2. RevisionFor(desired)' = RevisionFor(desired)
      BY <3>1 DEF RevisionFor, Matches, Present, ReadBack
    <3>3. Agrees' = Agrees
      BY <3>1, <3>2 DEF Agrees, Matches, Present, ReadBack
    <3>4. Status(desired)' = Status(desired)
      BY <3>1, <3>2 DEF Status, Matches, Present, ReadBack
    <3>5. Current(reader)'
      BY <1>2, <2>1, <3>1, <3>2, <3>3, <3>4, OvertakeEffect DEF Current
    <3> QED  BY <2>2, <3>5 DEF CurrentInv
  <2> QED  BY <2>3, <2>4
<1> QED  BY <1>1, <1>2

\* The operations do what they do without a reader.
LEMMA ReaderStepIsStep ==
  ASSUME [ReaderNext]_readerVars
  PROVE  [Next]_vars
  BY DEF ReaderNext, readerVars

LEMMA ReaderStepKeepsCurrent ==
  ASSUME Inv, CurrentInv, [ReaderNext]_readerVars
  PROVE  CurrentInv'
<1>1. CASE UNCHANGED readerVars
  <2>1. UNCHANGED vars /\ reader' = reader
    BY <1>1 DEF readerVars
  <2>2. Kept(reader)' = Kept(reader)
    BY <2>1, LookChangesNothing DEF Kept
  <2>3. Current(reader)' = Current(reader)
    BY <2>1, LookChangesNothing DEF Current
  <2> QED  BY <2>1, <2>2, <2>3 DEF CurrentInv
<1> QED  BY <1>1, LookKeepsCurrent, OvertakeKeepsCurrent DEF ReaderNext

(* Every status call keeps its type, and answers what the documents, HEAD, *)
(* the record and the managed files say, when nothing changed while it     *)
(* looked: whatever was cut short or disturbed before it began             *)
(* (NetworkStateService.status and inspect_artifact_drift).                *)
THEOREM StatusIsAnswered == ReaderSpec => [](ReaderTypeOK /\ StatusAnswers)
<1>1. ReaderInit => Inv /\ CurrentInv
  BY InvInit DEF ReaderInit, CurrentInv
<1>2. Inv /\ CurrentInv /\ [ReaderNext]_readerVars => (Inv /\ CurrentInv)'
  BY ReaderStepIsStep, StepKeepsInv, ReaderStepKeepsCurrent
<1>3. CurrentInv => ReaderTypeOK /\ StatusAnswers
  BY DEF CurrentInv, Kept, Current, Readers, ReaderTypeOK, StatusAnswers, Looking
<1> QED  BY <1>1, <1>2, <1>3, PTL DEF ReaderSpec

(* ------------------- "in sync" while others work ------------------------ *)

HeadFits(r) == r.head = 0 \/ (r.head \in Revisions /\ Matches(r.head, r.files))

\* What a call holds of the record belongs to the documents it has read, unless
\* the record changed while it was read.
Belongs(r) ==
  /\ r.pc \in {"revision", "hashes"} => HeadFits(r)
  /\ r.pc = "hashes" /\ ~r.torn => r.revision = applied.revision
  /\ r.pc \in {"list", "files"} /\ ~r.torn => r.hashes \in FilesFor(r.files)
  /\ r.pc = "told" /\ r.answer = "in sync" /\ ~r.torn => r.held \in FilesFor(r.files)

BelongsInv == reader # None => Belongs(reader)

\* Documents that the recorded revision matches generate what it generated.
LEMMA RecordedIsGenerated ==
  ASSUME Inv, RecordFaithful, applied # None, NEW t \in Trees, Matches(applied.revision, t)
  PROVE  applied.artifacts \in FilesFor(t)
<1>1. /\ applied.revision \in Revisions /\ commits \in Seq(Trees)
      /\ applied.artifacts \in FilesFor(commits[applied.revision])
  BY DEF RecordFaithful, Inv, TypeOK, HistoryTypeOK
<1> QED  BY <1>1, MatchMeans

\* Whoever answers anything else says nothing of the files.
LEMMA AnswerKeepsBelongs ==
  ASSUME CurrentInv, NEW a, reader # None, Answer(a), a # "in sync"
  PROVE  BelongsInv'
<1>1. reader \in Readers /\ reader' = [reader EXCEPT !.pc = "told", !.answer = a]
  BY DEF CurrentInv, Kept, Answer
<1>2. reader'.pc = "told" /\ reader'.answer = a
  BY <1>1 DEF Readers
<1> QED  BY <1>2 DEF BelongsInv, Belongs

LEMMA BeginningKeepsBelongs ==
  ASSUME Inv, CurrentInv, BelongsInv, AskStatus \/ LoadFile \/ LookAtHead, UNCHANGED vars
  PROVE  BelongsInv'
<1>1. CASE AskStatus
  <2>1. reader'.pc = "load"
    BY <1>1 DEF AskStatus, Asked
  <2> QED  BY <2>1 DEF BelongsInv, Belongs
<1>2. CASE LoadFile
  <2>1. reader \in Readers /\ reader.pc = "load" /\ reader.answer = "error"
    BY <1>2, ReaderFields DEF LoadFile, Kept
  <2>2. reader'.pc \in {"load", "head", "told"} /\ reader'.answer = "error"
    BY <1>2, <2>1 DEF LoadFile, Readers
  <2> QED  BY <2>2 DEF BelongsInv, Belongs
<1>3. CASE LookAtHead
  <2>1. reader \in Readers
    BY <1>3, ReaderFields DEF LookAtHead
  <2>2. reader'.pc = "revision" /\ reader'.head = RevisionFor(reader.files)
        /\ reader'.files = reader.files
    BY <1>3, <2>1 DEF LookAtHead, Readers
  <2>3. RevisionFor(reader.files) # 0 =>
          /\ RevisionFor(reader.files) \in Revisions
          /\ Matches(RevisionFor(reader.files), reader.files)
    BY RevisionForIsRevision
  <2>4. HeadFits(reader)'
    BY <2>2, <2>3, LookChangesNothing DEF HeadFits, Revisions, Matches, Present, ReadBack
  <2> QED  BY <2>2, <2>4 DEF BelongsInv, Belongs
<1> QED  BY <1>1, <1>2, <1>3

LEMMA RevisionKeepsBelongs ==
  ASSUME Inv, CurrentInv, BelongsInv, SelectRevision, UNCHANGED vars
  PROVE  BelongsInv'
<1>1. /\ reader # None /\ reader \in Readers /\ reader.pc = "revision"
      /\ HeadFits(reader)
  BY ReaderFields DEF SelectRevision, BelongsInv, Belongs
<1>2. CASE Answer("not yet applied")
  BY <1>1, <1>2, AnswerKeepsBelongs
<1>3. CASE reader' = [reader EXCEPT !.revision = applied.revision, !.pc = "hashes"]
  <2>1. /\ reader'.pc = "hashes" /\ reader'.revision = applied.revision
        /\ reader'.files = reader.files /\ reader'.head = reader.head
    BY <1>1, <1>3 DEF Readers
  <2>2. HeadFits(reader)'
    BY <1>1, <2>1, LookChangesNothing DEF HeadFits, Revisions, Matches, Present, ReadBack
  <2> QED  BY <2>1, <2>2, LookChangesNothing DEF BelongsInv, Belongs
<1> QED  BY <1>2, <1>3 DEF SelectRevision

\* Here the documents that were read meet the record.
LEMMA CompareKeepsBelongs ==
  ASSUME Inv, CurrentInv, RecordFaithful, BelongsInv, Compare, UNCHANGED vars
  PROVE  BelongsInv'
<1>1. /\ reader # None /\ reader \in Readers /\ reader.pc = "hashes" /\ applied # None
      /\ HeadFits(reader)
      /\ ~reader.torn => reader.revision = applied.revision
  BY ReaderFields DEF Compare, Kept, BelongsInv, Belongs
<1>2. CASE \/ reader.head = reader.revision
           \/ reader.head = 0 /\ Matches(reader.revision, reader.files)
  <2>1. /\ reader'.pc = "list" /\ reader'.hashes = applied.artifacts
        /\ reader'.files = reader.files /\ reader'.torn = reader.torn
    BY <1>1, <1>2 DEF Compare, Readers
  <2>2. ASSUME ~reader.torn
        PROVE  applied.artifacts \in FilesFor(reader.files)
    <3>1. applied.revision \in Revisions /\ commits \in Seq(Trees) /\ reader.files \in Trees
      BY <1>1 DEF RecordFaithful, Inv, TypeOK, HistoryTypeOK, Readers
    <3>2. applied.revision # 0
      BY <3>1, RevisionsArePositive
    <3>3. Matches(applied.revision, reader.files)
      BY <1>1, <1>2, <2>2, <3>2 DEF HeadFits
    <3> QED  BY <1>1, <3>1, <3>3, RecordedIsGenerated
  <2> QED  BY <2>1, <2>2 DEF BelongsInv, Belongs, FilesFor, GivenFor, PlanSucceeds, Candidate
<1>3. CASE ~(\/ reader.head = reader.revision
             \/ reader.head = 0 /\ Matches(reader.revision, reader.files))
  BY <1>1, <1>3, AnswerKeepsBelongs DEF Compare
<1> QED  BY <1>2, <1>3

LEMMA LookingOnKeepsBelongs ==
  ASSUME Inv, CurrentInv, BelongsInv, UNCHANGED vars,
         \/ ListManaged \/ Inspected
         \/ \E a \in ArtifactNames : ReadManaged(a) \/ ManagedGone(a)
  PROVE  BelongsInv'
<1>1. CASE ListManaged
  <2>1. reader # None /\ reader \in Readers /\ reader.pc = "list"
    BY <1>1, ReaderFields DEF ListManaged
  <2>2. /\ reader'.pc = "files" /\ reader'.files = reader.files
        /\ reader'.hashes = reader.hashes /\ reader'.torn = reader.torn
    BY <1>1, <2>1 DEF ListManaged, Readers
  <2> QED  BY <2>1, <2>2 DEF BelongsInv, Belongs, FilesFor, GivenFor, PlanSucceeds, Candidate
<1>2. ASSUME NEW a \in ArtifactNames, ReadManaged(a) PROVE BelongsInv'
  <2>1. reader # None /\ reader \in Readers /\ reader.pc = "files"
    BY <1>2, ReaderFields DEF ReadManaged
  <2>2. /\ reader'.pc = "files" /\ reader'.files = reader.files
        /\ reader'.hashes = reader.hashes /\ reader'.torn = reader.torn
    BY <1>2, <2>1 DEF ReadManaged, Readers
  <2> QED  BY <2>1, <2>2 DEF BelongsInv, Belongs, FilesFor, GivenFor, PlanSucceeds, Candidate
<1>3. ASSUME NEW a \in ArtifactNames, ManagedGone(a) PROVE BelongsInv'
  BY <1>3, ReaderFields, AnswerKeepsBelongs DEF ManagedGone
<1>4. CASE Inspected
  <2>1. reader # None /\ reader \in Readers /\ reader.pc = "files"
    BY <1>4, ReaderFields DEF Inspected
  <2>2. CASE reader.held = reader.hashes
    <3>1. /\ reader'.pc = "told" /\ reader'.files = reader.files
          /\ reader'.held = reader.hashes /\ reader'.torn = reader.torn
      BY <1>4, <2>1, <2>2 DEF Inspected, Answer, Readers
    <3> QED  BY <2>1, <3>1 DEF BelongsInv, Belongs, FilesFor, GivenFor, PlanSucceeds, Candidate
  <2>3. CASE reader.held # reader.hashes
    BY <1>4, <2>1, <2>3, AnswerKeepsBelongs DEF Inspected
  <2> QED  BY <2>2, <2>3
<1> QED  BY <1>1, <1>2, <1>3, <1>4

LEMMA LookKeepsBelongs ==
  ASSUME Inv, CurrentInv, RecordFaithful, BelongsInv, Look, UNCHANGED vars
  PROVE  BelongsInv'
<1>1. CASE Told
  BY <1>1 DEF Told, BelongsInv
<1> QED  BY <1>1, BeginningKeepsBelongs, RevisionKeepsBelongs, CompareKeepsBelongs,
            LookingOnKeepsBelongs DEF Look

\* Revisions keep what they hold, and a changed record is noticed.
LEMMA OvertakeKeepsBelongs ==
  ASSUME Inv, CurrentInv, BelongsInv, Next, Overtake
  PROVE  BelongsInv'
<1>1. CASE reader = None
  BY <1>1 DEF Overtake, BelongsInv
<1>2. CASE reader # None
  <2>1. Belongs(reader)
    BY <1>2 DEF BelongsInv
  <2>2. /\ reader'.pc = reader.pc /\ reader'.files = reader.files
        /\ reader'.head = reader.head /\ reader'.revision = reader.revision
        /\ reader'.hashes = reader.hashes /\ reader'.held = reader.held
        /\ reader'.answer = reader.answer
        /\ ~reader'.torn => ~reader.torn /\ (reader.pc = "hashes" => applied' = applied)
    BY <1>2, OvertakeEffect
  <2>3. HeadFits(reader) => HeadFits(reader)'
    <3>1. ASSUME reader.head \in Revisions, Matches(reader.head, reader.files)
          PROVE  reader'.head \in Revisions' /\ Matches(reader.head, reader.files)'
      <4>1. reader.head \in Revisions' /\ commits'[reader.head] = commits[reader.head]
        BY <3>1, StepProjects, HistoryKeepsRevisions DEF Inv
      <4> QED  BY <2>2, <3>1, <4>1 DEF Matches, Present, ReadBack
    <3> QED  BY <2>2, <3>1 DEF HeadFits
  <2> QED  BY <2>1, <2>2, <2>3 DEF BelongsInv, Belongs, FilesFor, GivenFor, PlanSucceeds, Candidate
<1> QED  BY <1>1, <1>2

LEMMA ReaderStepKeepsBelongs ==
  ASSUME Inv, CurrentInv, RecordFaithful, BelongsInv, [ReaderNext]_readerVars
  PROVE  BelongsInv'
<1>1. CASE UNCHANGED readerVars
  <2>1. UNCHANGED vars /\ reader' = reader
    BY <1>1 DEF readerVars
  <2>2. HeadFits(reader) => HeadFits(reader)'
    BY <2>1, LookChangesNothing DEF HeadFits, Revisions, Matches, Present, ReadBack
  <2> QED  BY <2>1, <2>2, LookChangesNothing
           DEF BelongsInv, Belongs, FilesFor, GivenFor, PlanSucceeds, Candidate
<1> QED  BY <1>1, LookKeepsBelongs, OvertakeKeepsBelongs DEF ReaderNext

(* While operations run next to it, status says "in sync" only of managed  *)
(* files that are what the documents it has read generate, unless a        *)
(* success was recorded between its two SELECTs: up to documents that an   *)
(* operation stopped between `git add' and `git commit' had staged         *)
(* (NetworkStateService.status).                                           *)
THEOREM InSyncBelongsTogether == ReaderSpec => []InSyncBelongs
<1> DEFINE J == Inv /\ ExactInv /\ RecordFaithful /\ CurrentInv /\ BelongsInv
<1>1. ReaderInit => J
  BY InvInit, ExactInvInit
     DEF ReaderInit, Init, RecordFaithful, CurrentInv, BelongsInv
<1>2. J /\ [ReaderNext]_readerVars => J'
  BY ReaderStepIsStep, StepKeepsInv, StepProjects, HistoryStepKeepsExactInv,
     StepKeepsRecordFaithful, ReaderStepKeepsCurrent, ReaderStepKeepsBelongs
<1>3. J => InSyncBelongs
  BY DEF BelongsInv, Belongs, InSyncBelongs, Looking
<1> QED  BY <1>1, <1>2, <1>3, PTL DEF ReaderSpec

(* ----------------------- edit, apply and rollback ----------------------- *)

EditSteps == {"baseline", "original", "editor", "check", "replace"}
RollbackSteps == {"resolve", "rewrite"}

Commands == [action : Actions, said : Messages, broken : BOOLEAN,
             desired : Trees, networkd : Artifacts,
             applied : [revision : 1 .. MaxCommits, artifacts : Artifacts] \cup {None}]

\* A command that goes on has said nothing yet, and has changed nothing of what
\* was there when it began but the documents of a rollback.
Running ==
  /\ command \in Commands
  /\ command.said = "nothing" /\ ~command.broken
  /\ command.applied = applied
  /\ command.action # "rollback" => command.desired = desired

\* The step an operation is at tells which command it belongs to.
OnCourse(p) ==
  /\ work[p].pc \in EditSteps => command.action = "edit"
  /\ work[p].pc \in RollbackSteps => command.action = "rollback"

RunningInv ==
  /\ ~touched
  /\ native # None => ~native.meddled
  /\ lock # Nobody => Running
  /\ \A p \in Processes : lock = p => OnCourse(p)

\* A command is an operation of the service.
LEMMA CommandStepIsStep ==
  ASSUME [CommandNext]_commandVars
  PROVE  [Next]_vars
<1>1. ASSUME NEW p \in Processes, Invoke(p) PROVE Next
  BY <1>1 DEF Invoke, Next
<1>2. ASSUME NEW p \in Processes, GoingOn(p) PROVE Next
  BY <1>2 DEF GoingOn, Next
<1>3. ASSUME NEW p \in Processes,
             Updated(p) \/ AppliedFiles(p) \/ NoChanges(p) \/ EditorFailed(p)
      PROVE  Next
  BY <1>3 DEF Updated, AppliedFiles, NoChanges, EditorFailed, Proceed, Next
<1>4. ASSUME NEW p \in Processes, Failed(p) PROVE Next
  BY <1>4 DEF Failed, Proceed, Next
<1>5. ASSUME NEW p \in Processes, Stopped(p) \/ Broken(p) PROVE Next
  BY <1>5 DEF Stopped, Broken, Next
<1>6. CASE UNCHANGED commandVars
  BY <1>6 DEF commandVars
<1> QED  BY <1>1, <1>2, <1>3, <1>4, <1>5, <1>6 DEF CommandNext

\* A command that goes on leaves its operation a holder of the lock.
LEMMA HolderGoesOn ==
  ASSUME Inv, NEW p \in Processes, GoingOn(p)
  PROVE  /\ lock = p /\ Progress(p) /\ work[p] \in Works /\ p # Nobody
         /\ lock' = p /\ ~Finish(p) /\ UNCHANGED command
<1>1. ~At(p, "idle")
  BY DEF GoingOn, Proceed, EditorSaves, ReadFile, ReadOriginal, Check, Replace, Plan, Resolve,
         Rewrite, StageFiles, CommitFiles, Install, Native, NativeBreaks, RecordSuccess,
         RecordFailure, At
<1> QED  BY <1>1, ActorHoldsLock DEF GoingOn, Finish

\* It goes on by one of these.
LEMMA WaysOn ==
  ASSUME Inv, NEW p \in Processes, GoingOn(p)
  PROVE  \/ ReadFile(p) \/ ReadOriginal(p) \/ Check(p) \/ Plan(p) \/ Resolve(p)
         \/ Rewrite(p) \/ StageFiles(p) \/ CommitFiles(p) \/ Install(p) \/ Native(p)
         \/ \E d \in Written : EditorSaves(p, d)
  BY HolderGoesOn DEF GoingOn, Proceed, Replace, NativeBreaks, RecordSuccess, RecordFailure

\* Its next step belongs to the same command.
LEMMA StaysOnCourse ==
  ASSUME Inv, NEW p \in Processes, GoingOn(p)
  PROVE  /\ work'[p].pc \in EditSteps => work[p].pc \in EditSteps
         /\ work'[p].pc \in RollbackSteps => work[p].pc \in RollbackSteps
<1>0. work \in [Processes -> Works] /\ work[p] \in Works /\ ~Finish(p)
  BY HolderGoesOn DEF Inv, TypeOK
<1>1. ASSUME NEW pc, work'[p].pc = pc,
             \/ work[p].pc \in EditSteps /\ pc \in EditSteps
             \/ work[p].pc \in RollbackSteps /\ pc \notin EditSteps
             \/ pc \notin EditSteps \cup RollbackSteps
      PROVE  /\ work'[p].pc \in EditSteps => work[p].pc \in EditSteps
             /\ work'[p].pc \in RollbackSteps => work[p].pc \in RollbackSteps
  BY <1>1 DEF EditSteps, RollbackSteps
<1>2. CASE ReadFile(p)
  <2> DEFINE f == work[p].at
             next == IF f < LastFile THEN work[p].pc
                     ELSE IF At(p, "load") THEN "plan" ELSE "original"
             t == [work[p].tree EXCEPT ![f] = desired[f]]
  <2>1. work' = [work EXCEPT ![p] = [work[p] EXCEPT !.tree = t, !.at = f + 1, !.pc = next]]
    BY <1>0, <1>2 DEF ReadFile, At, Works
  <2>2. \/ work[p].pc = "baseline" /\ next \in {"baseline", "original"}
        \/ work[p].pc = "load" /\ next \in {"load", "plan"}
    BY <1>2 DEF ReadFile, At
  <2> HIDE DEF f, next, t
  <2>3. work'[p].pc = next
    BY <1>0, <2>1 DEF Works
  <2> QED  BY <1>1, <2>2, <2>3 DEF EditSteps, RollbackSteps
<1>3. CASE ReadOriginal(p)
  <2>1. work[p].pc = "original"
    BY <1>3 DEF ReadOriginal, At
  <2>2. PICK d : work' = [work EXCEPT ![p].doc = d, ![p].pc = "editor"]
    BY <1>0, <1>3 DEF ReadOriginal
  <2>3. work'[p].pc = "editor"
    BY <1>0, <2>2 DEF Works
  <2> QED  BY <1>1, <2>1, <2>3 DEF EditSteps
<1>4. CASE Check(p)
  <2> DEFINE pc == IF work[p].at < LastFile THEN work[p].pc ELSE "replace"
             at == work[p].at + 1
  <2>1. work[p].pc = "check" /\ work' = [work EXCEPT ![p].at = at, ![p].pc = pc]
    BY <1>0, <1>4 DEF Check, At
  <2>2. pc \in {"check", "replace"}
    BY <2>1
  <2> HIDE DEF pc, at
  <2>3. work'[p].pc = pc
    BY <1>0, <2>1 DEF Works
  <2> QED  BY <1>1, <2>1, <2>2, <2>3 DEF EditSteps
<1>5. CASE \E d \in Written : EditorSaves(p, d)
  <2>1. PICK d : /\ work' = [work EXCEPT ![p].doc = d, ![p].at = 1, ![p].pc = "check"]
                 /\ work[p].pc = "editor"
    BY <1>5 DEF EditorSaves, At
  <2>2. work'[p].pc = "check"
    BY <1>0, <2>1 DEF Works
  <2> QED  BY <1>1, <2>1, <2>2 DEF EditSteps
<1>6. CASE Rewrite(p)
  <2>1. work[p].pc = "rewrite" /\ work'[p].pc \in {"rewrite", "stage"}
    BY <1>0, <1>6 DEF Rewrite, At, Works
  <2> QED  BY <1>1, <2>1 DEF EditSteps, RollbackSteps
<1>7. CASE Plan(p) \/ StageFiles(p) \/ CommitFiles(p) \/ Install(p)
  <2>1. PICK step \in {"stage", "commit", "install", "native"} : GoOn(p, step)
    BY <1>0, <1>7 DEF Plan, StageFiles, CommitFiles, Install
  <2>2. work'[p].pc = step
    BY <1>0, <2>1 DEF GoOn, Works
  <2> QED  BY <1>1, <2>1, <2>2 DEF EditSteps, RollbackSteps
<1>8. CASE Native(p)
  BY <1>8 DEF Native
<1>9. CASE Resolve(p)
  <2>1. lock' = p
    BY HolderGoesOn
  <2>2. work[p].pc = "resolve" /\ work'[p].pc = "rewrite"
    BY <1>9, <2>1, ResolveKeepsMeaning DEF Resolve, At
  <2> QED  BY <1>1, <2>2 DEF EditSteps, RollbackSteps
<1> QED  BY <1>2, <1>3, <1>4, <1>5, <1>6, <1>7, <1>8, <1>9, WaysOn

\* While a command goes on the record stays, nobody else steps in, and only a
\* rollback changes the documents.
LEMMA GoingOnKeeps ==
  ASSUME Inv, Inv', RunningInv, NEW p \in Processes, GoingOn(p)
  PROVE  /\ native' # None => ~native'.meddled
         /\ applied' = applied /\ ~touched'
         /\ desired' = desired \/ work[p].pc = "rewrite"
<1>0. Progress(p) /\ ~Finish(p) /\ lock' = p /\ ~touched
  BY HolderGoesOn DEF RunningInv
<1>1. CASE Native(p)
  <2>1. At(p, "native") /\ CallStep /\ native # None
        /\ UNCHANGED <<desired, applied, work, touched>>
    BY <1>0, <1>1 DEF Native, Progress, At
  <2>2. native' # None
    BY <1>0, <2>1 DEF Inv, Progress, At
  <2>3. NetworkdInv /\ [NetworkdNext]_networkdVars /\ native \in Calls /\ ~native.meddled
    BY <2>1 DEF Inv, NetworkdInv, NetworkdTypeOK, NetworkdNext, RunningInv
  <2>4. ~native'.meddled
    BY <2>1, <2>3 DEF CallStep, ReadPrevious, AllRead, AllWritten, AllPruned, Reload, Refuse,
       AllCleared, AllRestored, ReloadAgain, Write, Prune, Clear, Restore, GoTo, Done, Calls
  <2> QED  BY <1>0, <2>1, <2>4
<1>2. CASE Install(p)
  <2>1. At(p, "install") /\ Begin(Candidate(work[p].tree))
        /\ UNCHANGED <<desired, applied, touched>>
    BY <1>0, <1>2 DEF Install
  <2>2. ~native'.meddled
    BY <2>1 DEF Begin
  <2> QED  BY <1>0, <2>1, <2>2
<1>3. CASE Rewrite(p)
  BY <1>0, <1>3 DEF Rewrite, At, RunningInv
<1>4. CASE \/ ReadFile(p) \/ ReadOriginal(p) \/ Check(p) \/ Plan(p) \/ Resolve(p)
           \/ StageFiles(p) \/ CommitFiles(p) \/ \E d \in Written : EditorSaves(p, d)
  <2>1. CASE ReadFile(p) \/ CommitFiles(p) \/ \E d \in Written : EditorSaves(p, d)
    <3>1. UNCHANGED <<desired, applied, networkd, native>>
      BY <2>1 DEF ReadFile, CommitFiles, EditorSaves
    <3>2. touched' = touched \/ touched' = FALSE
      BY <2>1 DEF ReadFile, CommitFiles, EditorSaves
    <3> QED  BY <1>0, <3>1, <3>2 DEF RunningInv
  <2>2. CASE ReadOriginal(p) \/ Check(p)
    BY <1>0, <2>2 DEF ReadOriginal, Check, RunningInv
  <2>3. CASE Plan(p) \/ Resolve(p)
    BY <1>0, <2>3 DEF Plan, Resolve, RunningInv
  <2>4. CASE StageFiles(p)
    BY <1>0, <2>4 DEF StageFiles, RunningInv
  <2> QED  BY <1>4, <2>1, <2>2, <2>3, <2>4
<1> QED  BY <1>1, <1>2, <1>3, <1>4, WaysOn

LEMMA GoingOnKeepsRunningInv ==
  ASSUME Inv, Inv', RunningInv, NEW p \in Processes, GoingOn(p)
  PROVE  RunningInv'
<1>1. lock = p /\ lock' = p /\ p # Nobody /\ command' = command
  BY HolderGoesOn
<1>2. Running /\ OnCourse(p)
  BY <1>1 DEF RunningInv
<1>3. OnCourse(p)'
  BY <1>1, <1>2, StaysOnCourse DEF OnCourse
<1>4. desired' = desired \/ command.action = "rollback"
  BY <1>2, GoingOnKeeps DEF OnCourse, RollbackSteps
<1>5. command.applied' = applied'
  BY <1>1, <1>2, GoingOnKeeps DEF Running
<1>6. /\ command' \in Commands' /\ command'.said = "nothing" /\ ~command'.broken
      /\ command'.action # "rollback" => command'.desired = desired'
  BY <1>1, <1>2, <1>4 DEF Running, Commands
<1> QED  BY <1>1, <1>3, <1>5, <1>6, GoingOnKeeps DEF RunningInv, Running

LEMMA InvokeKeepsRunningInv ==
  ASSUME Inv, RunningInv, NEW p \in Processes, Invoke(p)
  PROVE  RunningInv'
<1>1. PICK action \in Actions, w \in Works :
        /\ Enter(p, w) /\ command' = Invoked(action)
        /\ w.pc \in EditSteps => action = "edit"
        /\ w.pc \in RollbackSteps => action = "rollback"
  <2>1. ASSUME NEW f \in Files, BeginEdit(p, f), command' = Invoked("edit")
        PROVE  \E w \in Works : Enter(p, w) /\ w.pc = "baseline"
    <3>1. [Idle EXCEPT !.pc = "baseline", !.file = f] \in Works
          /\ [Idle EXCEPT !.pc = "baseline", !.file = f].pc = "baseline"
      BY IdleIsWork DEF Works, Steps
    <3> QED  BY <2>1, <3>1 DEF BeginEdit
  <2>2. ASSUME BeginApply(p), command' = Invoked("apply")
        PROVE  \E w \in Works : Enter(p, w) /\ w.pc = "load"
    <3>1. [Idle EXCEPT !.pc = "load"] \in Works /\ [Idle EXCEPT !.pc = "load"].pc = "load"
      BY IdleIsWork DEF Works, Steps
    <3> QED  BY <2>2, <3>1 DEF BeginApply
  <2>3. ASSUME NEW r \in Revisions, BeginRollback(p, r), command' = Invoked("rollback")
        PROVE  \E w \in Works : Enter(p, w) /\ w.pc = "resolve"
    <3>1. r \in 0 .. MaxCommits
      BY LenProperties, HistoryAssumption DEF Revisions, Inv, TypeOK, HistoryTypeOK
    <3>2. [Idle EXCEPT !.pc = "resolve", !.goal = r] \in Works
          /\ [Idle EXCEPT !.pc = "resolve", !.goal = r].pc = "resolve"
      BY <3>1, IdleIsWork DEF Works, Steps
    <3> QED  BY <2>3, <3>2 DEF BeginRollback
  <2> QED  BY <2>1, <2>2, <2>3 DEF Invoke, Actions, EditSteps, RollbackSteps
<1>2. /\ lock = Nobody /\ lock' = p /\ work'[p] = w /\ native = None
      /\ UNCHANGED <<networkd, native, desired, applied, touched>>
  BY <1>1 DEF Enter, Inv, TypeOK
<1>3. /\ command'.action = action /\ command'.said = "nothing" /\ ~command'.broken
      /\ command'.desired = desired /\ command'.applied = applied
      /\ command'.networkd = networkd /\ command' \in Commands
  BY <1>1 DEF Invoked, Commands, Messages, Inv, TypeOK, NetworkdTypeOK
<1>4. Running'
  BY <1>2, <1>3 DEF Running, Commands
<1>5. OnCourse(p)'
  BY <1>1, <1>2, <1>3 DEF OnCourse
<1> QED  BY <1>2, <1>4, <1>5 DEF RunningInv

\* What ends a command ends its operation.
LEMMA EndingsFinish ==
  ASSUME Inv, NEW p \in Processes,
         \/ Updated(p) \/ AppliedFiles(p) \/ NoChanges(p) \/ EditorFailed(p)
         \/ Failed(p) \/ Stopped(p) \/ Broken(p)
  PROVE  Finish(p) /\ lock = p
<1>1. CASE Failed(p)
  <2>1. ~At(p, "idle") /\ lock' = Nobody
    BY <1>1 DEF Failed, ReadOriginal, Check, Plan, Resolve, StageFiles, NativeBreaks,
                RecordFailure, At
  <2>2. lock = p /\ p # Nobody
    BY <2>1, ActorHoldsLock
  <2>3. CASE ReadOriginal(p) \/ Check(p) \/ Plan(p) \/ Resolve(p)
    BY <2>1, <2>2, <2>3 DEF ReadOriginal, Check, Plan, Resolve
  <2>4. CASE StageFiles(p) \/ NativeBreaks(p) \/ RecordFailure(p)
    BY <2>1, <2>2, <2>4 DEF StageFiles, NativeBreaks, RecordFailure
  <2> QED  BY <1>1, <2>2, <2>3, <2>4 DEF Failed
<1>2. CASE Updated(p) \/ AppliedFiles(p) \/ NoChanges(p) \/ EditorFailed(p)
  <2>1. Finish(p) /\ ~At(p, "idle")
    BY <1>2 DEF Updated, AppliedFiles, NoChanges, EditorFailed, Replace, RecordSuccess,
                EditorGivesUp, At
  <2> QED  BY <2>1, ActorHoldsLock
<1>3. CASE Stopped(p) \/ Broken(p)
  BY <1>3 DEF Stopped, Broken, End
<1> QED  BY <1>1, <1>2, <1>3

LEMMA CommandStepKeepsRunningInv ==
  ASSUME Inv, RunningInv, [CommandNext]_commandVars
  PROVE  RunningInv'
<1>0. Inv'
  BY CommandStepIsStep, StepKeepsInv
<1>1. ASSUME NEW p \in Processes, Invoke(p) PROVE RunningInv'
  BY <1>1, InvokeKeepsRunningInv
<1>2. ASSUME NEW p \in Processes, GoingOn(p) PROVE RunningInv'
  BY <1>0, <1>2, GoingOnKeepsRunningInv
<1>3. ASSUME NEW p \in Processes,
             \/ Updated(p) \/ AppliedFiles(p) \/ NoChanges(p) \/ EditorFailed(p)
             \/ Failed(p) \/ Stopped(p) \/ Broken(p)
      PROVE  RunningInv'
  <2>1. lock' = Nobody /\ native' = None /\ touched' = FALSE
    BY <1>3, EndingsFinish DEF Finish
  <2> QED  BY <2>1, NetworkStateAssumption DEF RunningInv
<1>4. CASE UNCHANGED commandVars
  BY <1>4 DEF commandVars, vars, RunningInv, Running, OnCourse, Commands
<1> QED  BY <1>1, <1>2, <1>3, <1>4 DEF CommandNext

LEMMA RunningInvInit == ASSUME CommandInit PROVE RunningInv
  BY NetworkStateAssumption DEF CommandInit, Init, NetworkdInit, RunningInv

(* The commands at the terminal are operations of the service: whatever    *)
(* holds of its operations holds while commands run (cli.py main).         *)
THEOREM CommandsAreOperations == CommandSpec => Spec
<1>1. CommandInit => Init
  BY DEF CommandInit
<1>2. [CommandNext]_commandVars => [Next]_vars
  BY CommandStepIsStep
<1> QED  BY <1>1, <1>2, PTL DEF CommandSpec, Spec

\* What can be said at the end; what is kept to compare with stays.
LEMMA EndingsSay ==
  ASSUME Inv, RunningInv, NEW p \in Processes,
         \/ Updated(p) \/ AppliedFiles(p) \/ NoChanges(p) \/ EditorFailed(p)
         \/ Failed(p) \/ Stopped(p) \/ Broken(p)
  PROVE  /\ command' \in Commands
         /\ command'.action = command.action /\ command'.desired = command.desired
         /\ command'.applied = command.applied /\ command'.networkd = command.networkd
         /\ command'.said = "done" => Updated(p) \/ AppliedFiles(p)
         /\ command'.said = "error" /\ ~command'.broken => EditorFailed(p) \/ Failed(p)
<1>1. command \in Commands /\ command.said = "nothing" /\ ~command.broken
  BY EndingsFinish, NetworkStateAssumption DEF RunningInv, Running
<1>2. ASSUME NEW messages \in SUBSET Messages, Says(messages)
      PROVE  /\ command' \in Commands
             /\ command'.action = command.action /\ command'.desired = command.desired
             /\ command'.applied = command.applied /\ command'.networkd = command.networkd
             /\ command'.said \in messages
  BY <1>1, <1>2 DEF Says, Commands
<1>3. ASSUME Breaks
      PROVE  /\ command' \in Commands
             /\ command'.action = command.action /\ command'.desired = command.desired
             /\ command'.applied = command.applied /\ command'.networkd = command.networkd
             /\ command'.said = "error" /\ command'.broken
  BY <1>1, <1>3 DEF Breaks, Commands, Messages
<1>4. CASE Updated(p)
  <2>1. Says({"done"} \cup Late) \/ Breaks
    BY <1>4 DEF Updated, Unsynced
  <2>2. {"done"} \cup Late \in SUBSET Messages /\ "error" \notin {"done"} \cup Late
    BY DEF Late, Messages
  <2> QED  BY <1>2, <1>3, <1>4, <2>1, <2>2
<1>5. CASE AppliedFiles(p)
  <2>1. Says({"done"} \cup Late)
    BY <1>5 DEF AppliedFiles
  <2>2. {"done"} \cup Late \in SUBSET Messages /\ "error" \notin {"done"} \cup Late
    BY DEF Late, Messages
  <2> QED  BY <1>2, <1>5, <2>1, <2>2
<1>6. CASE NoChanges(p)
  <2>1. Says({"no changes"}) /\ {"no changes"} \in SUBSET Messages
    BY <1>6 DEF NoChanges, Messages
  <2>2. command'.said \in {"no changes"}
    BY <1>2, <2>1
  <2> QED  BY <1>2, <2>1, <2>2
<1>7. CASE EditorFailed(p) \/ Failed(p)
  <2>1. Says({"error"}) /\ {"error"} \in SUBSET Messages
    BY <1>7 DEF EditorFailed, Failed, Messages
  <2>2. command'.said \in {"error"}
    BY <1>2, <2>1
  <2> QED  BY <1>2, <1>7, <2>1, <2>2
<1>8. CASE Stopped(p)
  <2>1. Says({"aborted", "nothing"}) /\ {"aborted", "nothing"} \in SUBSET Messages
    BY <1>8 DEF Stopped, Messages
  <2>2. command'.said \in {"aborted", "nothing"}
    BY <1>2, <2>1
  <2> QED  BY <1>2, <2>1, <2>2
<1>9. CASE Broken(p)
  BY <1>3, <1>9 DEF Broken
<1> QED  BY <1>4, <1>5, <1>6, <1>7, <1>8, <1>9

\* An apply or a rollback that says "done" has just recorded its success.
LEMMA DoneIsTrue ==
  ASSUME \A d \in Docs : AsText[d] = d, OperationInv, OperationInv', RunningInv,
         NEW p \in Processes,
         \/ Updated(p) \/ AppliedFiles(p) \/ NoChanges(p) \/ EditorFailed(p)
         \/ Failed(p) \/ Stopped(p) \/ Broken(p)
  PROVE  DoneIsInSync'
<1>1. Inv /\ Inv' /\ ExactInv /\ IsolationInv /\ InstallingInv /\ CandidateInv
  BY DEF OperationInv
<1>2. Finish(p) /\ lock = p /\ OnCourse(p) /\ ~touched
  BY <1>1, EndingsFinish DEF RunningInv
<1>3. CASE Updated(p)
  <2>1. command.action = "edit"
    BY <1>2, <1>3 DEF Updated, Replace, At, OnCourse, EditSteps
  <2>2. command'.action = "edit"
    BY <1>1, <1>3, <2>1, EndingsSay
  <2> QED  BY <2>2 DEF DoneIsInSync
<1>4. CASE AppliedFiles(p)
  <2>1. /\ RecordSuccess(p) /\ ~native.meddled /\ At(p, "native") /\ InPhase("succeeded")
        /\ UNCHANGED <<commits, networkd, desired>>
    BY <1>4 DEF AppliedFiles, RecordSuccess, InPhase, RunningInv
  <2>2. desired = work[p].tree /\ desired \in GivenFor(HeadTree)
    BY <1>1, <1>2, <2>1, EndsGiven
  <2>3. PlanSucceeds(desired)
    BY <1>1, <1>2, <2>1, <2>2, ActorHoldsLock DEF Progress, At
  <2>4. networkd = Candidate(desired)
    BY <1>1, <2>1, <2>2, SucceededHolds DEF CandidateInv, Inv
  <2>5. (desired \in GivenFor(HeadTree))'
    BY <2>1, <2>2 DEF GivenFor, HeadTree
  <2>6. (PlanSucceeds(desired) /\ networkd = Candidate(desired))'
    BY <2>1, <2>3, <2>4 DEF PlanSucceeds, Candidate
  <2>7. desired' = HeadTree' => Status(desired)' = "in sync"
    <3>1. desired' = HeadTree' => desired = HeadTree
      BY <2>1 DEF HeadTree
    <3> QED  BY <1>1, <2>1, <3>1, RecordedIsInSync
  <2> QED  BY <2>5, <2>6, <2>7 DEF DoneIsInSync
<1>5. CASE ~Updated(p) /\ ~AppliedFiles(p)
  BY <1>1, <1>5, EndingsSay DEF DoneIsInSync, Has
<1> QED  BY <1>3, <1>4, <1>5

\* And so has committed its documents: nothing is left staged.
LEMMA DoneRepairs ==
  ASSUME Inv, ExactInv, PlannedInv', RunningInv, NEW p \in Processes,
         \/ Updated(p) \/ AppliedFiles(p) \/ NoChanges(p) \/ EditorFailed(p)
         \/ Failed(p) \/ Stopped(p) \/ Broken(p)
  PROVE  SuccessRepairs'
<1>1. Finish(p) /\ lock = p /\ OnCourse(p)
  BY EndingsFinish DEF RunningInv
<1>2. CASE Updated(p)
  <2>1. command.action = "edit"
    BY <1>1, <1>2 DEF Updated, Replace, At, OnCourse, EditSteps
  <2>2. command'.action = "edit"
    BY <1>2, <2>1, EndingsSay
  <2> QED  BY <2>2 DEF SuccessRepairs
<1>3. CASE AppliedFiles(p)
  <2>1. At(p, "native") /\ UNCHANGED <<commits, index>>
    BY <1>3 DEF AppliedFiles, RecordSuccess
  <2>2. Answered
    BY <1>1, <2>1, ActorHoldsLock DEF Progress, At
  <2>3. ASSUME NEW t \in Snapshots PROVE AddSucceeds(t)'
    <3>1. AddSucceeds(t)
      BY <2>2, CleanIndexIsStageable DEF ExactInv, Snapshots
    <3> QED  BY <2>1, <3>1 DEF AddSucceeds, HeadTree, Present
  <2>4. SnapshotPossible'
    BY <2>3 DEF SnapshotPossible, Snapshots
  <2> QED  BY <2>4 DEF SuccessRepairs, PlannedInv
<1>4. CASE ~Updated(p) /\ ~AppliedFiles(p)
  BY <1>4, EndingsSay DEF SuccessRepairs, Has
<1> QED  BY <1>2, <1>3, <1>4

(* While a command goes on, until its native call has succeeded, the files *)
(* that count are those there were when it began.                          *)
UndoneInv == lock # Nobody /\ ~InPhase("succeeded") => command.networkd = Installed

LEMMA GoingOnKeepsUndoneInv ==
  ASSUME \A c \in Contents : ReadText[c] = c,
         Inv, Inv', FilesInv, RunningInv, UndoneInv, NEW p \in Processes, GoingOn(p)
  PROVE  UndoneInv'
<1>0. /\ lock = p /\ lock' = p /\ p # Nobody /\ Progress(p) /\ ~Finish(p)
      /\ command' = command /\ NetworkdInv
  BY HolderGoesOn DEF Inv
<1>1. CASE Native(p)
  <2>1. CallStep
    BY <1>1 DEF Native
  <2>2. native # None /\ ~native.meddled
    BY <1>0, <2>1, CallStepEffect DEF RunningInv
  <2>3. Installed' = Installed \/ Call' = "succeeded"
    BY <1>0, <2>1, <2>2, CallStepIsSeen DEF Meddled
  <2>4. Call' = "succeeded" => InPhase("succeeded")'
    BY DEF Call
  <2>5. ~InPhase("succeeded")
    BY <1>0, <2>1, CallStepIsSeen DEF Call, InPhase
  <2> QED  BY <1>0, <2>3, <2>4, <2>5 DEF UndoneInv
<1>2. CASE Install(p)
  <2>1. Begin(Candidate(work[p].tree)) /\ native = None
    BY <1>2 DEF Install, Begin
  <2>2. native'.phase = "read" /\ native'.meddled = FALSE /\ networkd' = networkd
    BY <2>1 DEF Begin
  <2>3. native' # None
    <3>1. GoOn(p, "native") /\ work \in [Processes -> Works]
      BY <1>2 DEF Install, Inv, TypeOK
    <3>2. work'[p].pc = "native"
      BY <3>1 DEF GoOn, Works
    <3> QED  BY <1>0, <3>2 DEF Inv, Progress
  <2>4. Installed' = Installed
    BY <2>1, <2>2, <2>3, SeenIdle, SeenReadingNext
  <2> QED  BY <1>0, <2>1, <2>4 DEF UndoneInv, InPhase
<1>3. CASE ~Native(p) /\ ~Install(p)
  <2>1. UNCHANGED <<networkd, native>>
    <3>1. \/ ReadFile(p) \/ ReadOriginal(p) \/ Check(p) \/ Plan(p) \/ Resolve(p)
          \/ Rewrite(p) \/ StageFiles(p) \/ CommitFiles(p)
          \/ \E d \in Written : EditorSaves(p, d)
      BY <1>3, WaysOn
    <3> QED  BY <1>0, <3>1 DEF ReadFile, ReadOriginal, Check, Plan, Resolve, Rewrite,
             StageFiles, CommitFiles, EditorSaves
  <2> QED  BY <1>0, <2>1 DEF UndoneInv, Installed, Changing, Applying, InPhase
<1> QED  BY <1>1, <1>2, <1>3

LEMMA CommandStepKeepsUndoneInv ==
  ASSUME \A c \in Contents : ReadText[c] = c,
         Inv, FilesInv, RunningInv, UndoneInv, [CommandNext]_commandVars
  PROVE  UndoneInv'
<1>0. Inv'
  BY CommandStepIsStep, StepKeepsInv
<1>1. ASSUME NEW p \in Processes, Invoke(p) PROVE UndoneInv'
  <2>1. lock = Nobody /\ native = None /\ UNCHANGED <<networkd, native>>
    BY <1>1 DEF Invoke, BeginEdit, BeginApply, BeginRollback, Enter, Inv
  <2>2. command'.networkd = networkd
    BY <1>1 DEF Invoke, Invoked
  <2> QED  BY <2>1, <2>2, SeenIdleNext DEF UndoneInv
<1>2. ASSUME NEW p \in Processes, GoingOn(p) PROVE UndoneInv'
  BY <1>0, <1>2, GoingOnKeepsUndoneInv
<1>3. ASSUME NEW p \in Processes,
             \/ Updated(p) \/ AppliedFiles(p) \/ NoChanges(p) \/ EditorFailed(p)
             \/ Failed(p) \/ Stopped(p) \/ Broken(p)
      PROVE  UndoneInv'
  BY <1>3, EndingsFinish DEF Finish, UndoneInv
<1>4. CASE UNCHANGED commandVars
  BY <1>4 DEF commandVars, vars, UndoneInv, Installed, Changing, Applying, InPhase
<1> QED  BY <1>1, <1>2, <1>3, <1>4 DEF CommandNext

\* A command that says "error" for a reason that is handled ends where it began.
LEMMA ErrorIsTrue ==
  ASSUME Inv, ListedInv, RunningInv, UndoneInv, NEW p \in Processes,
         \/ Updated(p) \/ AppliedFiles(p) \/ NoChanges(p) \/ EditorFailed(p)
         \/ Failed(p) \/ Stopped(p) \/ Broken(p)
  PROVE  ErrorChangesNothing'
<1>1. lock = p /\ p # Nobody /\ Progress(p)
  BY EndingsFinish, NetworkStateAssumption DEF Inv
<1>2. Running
  BY <1>1 DEF RunningInv
<1>3. CASE EditorFailed(p) \/ Failed(p)
  <2>1. UNCHANGED <<desired, applied, networkd>>
    <3>1. CASE EditorFailed(p)
      BY <3>1 DEF EditorFailed, EditorGivesUp
    <3>2. CASE ReadOriginal(p) \/ Check(p) \/ Plan(p) \/ Resolve(p)
      BY <3>2 DEF ReadOriginal, Check, Plan, Resolve
    <3>3. CASE StageFiles(p) \/ NativeBreaks(p) \/ RecordFailure(p)
      BY <3>3 DEF StageFiles, NativeBreaks, RecordFailure
    <3> QED  BY <1>3, <3>1, <3>2, <3>3 DEF Failed
  <2>2. Installed = networkd /\ ~InPhase("succeeded")
    <3>1. CASE native = None
      BY <3>1, SeenIdle DEF InPhase
    <3>2. CASE native # None
      <4>1. At(p, "native")
        BY <1>1, <3>2 DEF Progress, At
      <4>2. NativeBreaks(p) \/ RecordFailure(p)
        BY <1>3, <4>1 DEF EditorFailed, EditorGivesUp, Failed, ReadOriginal, Check, Plan,
           Resolve, StageFiles, At
      <4>3. InPhase("read") \/ InPhase("failed")
        BY <4>2 DEF NativeBreaks, RecordFailure, Stumbles, ListedInv
      <4> QED  BY <4>3 DEF Installed, Changing, Applying, InPhase
    <3> QED  BY <3>1, <3>2
  <2>3. command.networkd = networkd
    BY <1>1, <2>2 DEF UndoneInv
  <2>4. /\ command'.action = command.action /\ command'.desired = command.desired
        /\ command'.applied = command.applied /\ command'.networkd = command.networkd
    BY <1>3, EndingsSay
  <2> QED  BY <1>2, <2>1, <2>3, <2>4 DEF Running, ErrorChangesNothing
<1>4. CASE ~EditorFailed(p) /\ ~Failed(p)
  BY <1>4, EndingsSay DEF ErrorChangesNothing, Has
<1> QED  BY <1>3, <1>4

\* A step of the commands ends one, or has one go on, or is none of theirs.
LEMMA CommandStep ==
  ASSUME Inv, [CommandNext]_commandVars
  PROVE  \/ lock' # Nobody
         \/ UNCHANGED commandVars
         \/ \E p \in Processes :
              \/ Updated(p) \/ AppliedFiles(p) \/ NoChanges(p) \/ EditorFailed(p)
              \/ Failed(p) \/ Stopped(p) \/ Broken(p)
<1>1. ASSUME NEW p \in Processes, Invoke(p) \/ GoingOn(p) PROVE lock' # Nobody
  BY <1>1, NetworkStateAssumption
     DEF Invoke, GoingOn, BeginEdit, BeginApply, BeginRollback, Enter
<1> QED  BY <1>1 DEF CommandNext

\* Nobody but the commands writes the managed files.
LEMMA CommandsDoNotDrift ==
  ASSUME Inv, RunningInv, [CommandNext]_commandVars
  PROVE  NobodyDrifts
<1>1. networkd \in Artifacts /\ native \in Calls \cup {None}
  BY DEF Inv, NetworkdInv, NetworkdTypeOK
<1>2. networkd' = networkd \/ CallStep
  <2>1. ASSUME NEW p \in Processes, Invoke(p) PROVE networkd' = networkd
    BY <2>1 DEF Invoke, BeginEdit, BeginApply, BeginRollback, Enter
  <2>2. ASSUME NEW p \in Processes, GoingOn(p) PROVE networkd' = networkd \/ CallStep
    BY <2>2, WaysOn DEF ReadFile, ReadOriginal, Check, Plan, Resolve, Rewrite, StageFiles,
       CommitFiles, Install, Begin, Native, EditorSaves
  <2>3. ASSUME NEW p \in Processes,
               Updated(p) \/ AppliedFiles(p) \/ NoChanges(p) \/ EditorFailed(p)
               \/ Stopped(p) \/ Broken(p)
        PROVE  networkd' = networkd
    BY <2>3 DEF Updated, AppliedFiles, NoChanges, EditorFailed, Stopped, Broken, Replace,
       RecordSuccess, EditorGivesUp, End
  <2>4. ASSUME NEW p \in Processes, Failed(p) PROVE networkd' = networkd
    BY <2>4 DEF Failed, ReadOriginal, Check, Plan, Resolve, StageFiles, NativeBreaks,
       RecordFailure
  <2>5. CASE UNCHANGED commandVars
    BY <2>5 DEF commandVars, vars
  <2> QED  BY <2>1, <2>2, <2>3, <2>4, <2>5 DEF CommandNext
<1> SUFFICES ASSUME NEW a \in ArtifactNames, NEW c \in Contents \cup {Absent}, Drift(a, c)
             PROVE  FALSE
  BY DEF NobodyDrifts
<1>3. networkd' # networkd
  BY <1>1 DEF Drift, Artifacts
<1>4. CallStep /\ native \in Calls /\ ~native.meddled
  BY <1>1, <1>2, <1>3 DEF CallStep, ReadPrevious, AllRead, AllWritten, AllPruned, Reload,
     Refuse, AllCleared, AllRestored, ReloadAgain, Write, Prune, Clear, Restore, InPhase,
     RunningInv
<1>5. native'.meddled = native.meddled
  BY <1>4 DEF CallStep, ReadPrevious, AllRead, AllWritten, AllPruned, Reload, Refuse, AllCleared, AllRestored,
     ReloadAgain, Write, Prune, Clear, Restore, GoTo, Done, Calls
<1>6. native'.meddled = TRUE
  <2>1. native # None
    BY <1>4, NetworkdAssumption
  <2>2. native' = [native EXCEPT !.meddled = TRUE]
    BY <2>1 DEF Drift
  <2> QED  BY <1>4, <2>2 DEF Calls
<1> QED  BY <1>4, <1>5, <1>6

(* "Applied ..." and "Rolled back and applied ..." are the truth: the      *)
(* managed files are those of the documents on disk, the newest revision   *)
(* holds these, and status says in sync when it holds no others, at        *)
(* whatever point earlier commands were stopped, when no document is       *)
(* changed by being read as text (cli.py main, NetworkStateService.apply   *)
(* and rollback).                                                          *)
THEOREM DoneIsDone ==
  ASSUME \A d \in Docs : AsText[d] = d
  PROVE  CommandSpec => []DoneIsInSync
<1> DEFINE J == OperationInv /\ RunningInv /\ DoneIsInSync
<1>1. CommandInit => J
  BY OperationInvInit, RunningInvInit DEF CommandInit, DoneIsInSync, Has
<1>2. J /\ [CommandNext]_commandVars => J'
  <2> SUFFICES ASSUME J, [CommandNext]_commandVars PROVE J'
    OBVIOUS
  <2>1. Inv /\ [Next]_vars
    BY CommandStepIsStep DEF OperationInv
  <2>2. OperationInv' /\ RunningInv'
    BY <2>1, StepKeepsOperationInv, CommandStepKeepsRunningInv
  <2>3. CASE lock' # Nobody
    BY <2>2, <2>3 DEF RunningInv, Running, DoneIsInSync, Has
  <2>4. CASE UNCHANGED commandVars
    <3>1. UNCHANGED vars /\ command' = command
      BY <2>4 DEF commandVars
    <3>2. /\ desired' = desired /\ networkd' = networkd /\ commits' = commits
          /\ Status(desired)' = Status(desired)
      BY <3>1, LookChangesNothing
    <3>3. HeadTree' = HeadTree
      BY <3>2 DEF HeadTree
    <3>4. Candidate(desired)' = Candidate(desired)
      BY <3>2 DEF Candidate
    <3>5. PlanSucceeds(desired)' <=> PlanSucceeds(desired)
      BY <3>2 DEF PlanSucceeds
    <3>6. GivenFor(HeadTree)' = GivenFor(HeadTree)
      BY <3>3 DEF GivenFor
    <3> QED  BY <2>2, <3>1, <3>2, <3>3, <3>4, <3>5, <3>6 DEF DoneIsInSync, Has
  <2> QED  BY <2>1, <2>2, <2>3, <2>4, CommandStep, DoneIsTrue
<1> QED  BY <1>1, <1>2, PTL DEF CommandSpec

(* An apply or a rollback that says so has put the repository right: `git  *)
(* add' refuses no desired state any more and every revision resolves, if  *)
(* need be without documents left staged, at whatever point earlier        *)
(* commands were stopped (cli.py main, DesiredStateHistory.snapshot,       *)
(* NetworkStateService.rollback).                                          *)
THEOREM SuccessPutsRight == CommandSpec => []SuccessRepairs
<1> DEFINE J == Inv /\ ExactInv /\ PlannedInv /\ RunningInv /\ SuccessRepairs
<1>1. CommandInit => J
  BY InvInit, ExactInvInit, PlannedInvInit, RunningInvInit
     DEF CommandInit, Init, SuccessRepairs, Has
<1>2. J /\ [CommandNext]_commandVars => J'
  <2> SUFFICES ASSUME J, [CommandNext]_commandVars PROVE J'
    OBVIOUS
  <2>1. [Next]_vars /\ [HistoryNext]_historyVars
    BY CommandStepIsStep, StepProjects
  <2>2. Inv' /\ ExactInv' /\ PlannedInv' /\ RunningInv'
    BY <2>1, StepKeepsInv, HistoryStepKeepsExactInv, StepKeepsPlannedInv,
       CommandStepKeepsRunningInv
  <2>3. CASE lock' # Nobody
    BY <2>2, <2>3 DEF RunningInv, Running, SuccessRepairs, Has
  <2>4. CASE UNCHANGED commandVars
    <3>1. /\ commits' = commits /\ index' = index /\ snapshot' = snapshot
          /\ command' = command
      BY <2>4 DEF commandVars, vars
    <3>2. SnapshotPossible' = SnapshotPossible
      BY <3>1 DEF SnapshotPossible, Snapshots, AddSucceeds, HeadTree, Present
    <3> QED  BY <2>2, <3>1, <3>2 DEF SuccessRepairs, Has, PlannedInv
  <2> QED  BY <2>2, <2>3, <2>4, CommandStep, DoneRepairs
<1> QED  BY <1>1, <1>2, PTL DEF CommandSpec

(* "Error" for a reason the operation handles means that nothing was       *)
(* changed: the record and the managed files are what they were when the   *)
(* command began, and so are the documents unless it was a rollback, when  *)
(* no managed file is changed by being read as text (cli.py main,          *)
(* backends/networkd.py apply).                                            *)
THEOREM ErrorsChangeNothing ==
  ASSUME \A c \in Contents : ReadText[c] = c
  PROVE  CommandSpec => []ErrorChangesNothing
<1> DEFINE J == /\ Inv /\ FilesInv /\ ListedInv
                /\ RunningInv /\ UndoneInv /\ ErrorChangesNothing
<1>1. CommandInit => J
  BY InvInit, RunningInvInit
     DEF CommandInit, Init, NetworkdInit, FilesInv, ListedInv, InPhase, UndoneInv,
         ErrorChangesNothing, Has
<1>2. J /\ [CommandNext]_commandVars => J'
  <2> SUFFICES ASSUME J, [CommandNext]_commandVars PROVE J'
    OBVIOUS
  <2>1. NobodyDrifts /\ [Next]_vars /\ NetworkdInv
    BY CommandsDoNotDrift, CommandStepIsStep DEF Inv
  <2>2. Inv' /\ RunningInv' /\ [NetworkdNext]_networkdVars
    BY <2>1, StepKeepsInv, CommandStepKeepsRunningInv, StepProjects
  <2>3. FilesInv' /\ ListedInv' /\ UndoneInv'
    BY <2>1, <2>2, NetworkdStepKeepsFilesInv, NetworkdStepKeepsListedInv,
       CommandStepKeepsUndoneInv
  <2>4. ASSUME lock' # Nobody PROVE ErrorChangesNothing'
    BY <2>2, <2>4 DEF RunningInv, Running, ErrorChangesNothing, Has
  <2>5. ASSUME UNCHANGED commandVars PROVE ErrorChangesNothing'
    BY <2>5 DEF commandVars, vars, ErrorChangesNothing, Has
  <2>6. ASSUME NEW p \in Processes,
               \/ Updated(p) \/ AppliedFiles(p) \/ NoChanges(p) \/ EditorFailed(p)
               \/ Failed(p) \/ Stopped(p) \/ Broken(p)
        PROVE  ErrorChangesNothing'
    BY <2>6, ErrorIsTrue
  <2> QED  BY <2>2, <2>3, <2>4, <2>5, <2>6, CommandStep
<1> QED  BY <1>1, <1>2, PTL DEF CommandSpec
=============================================================================
