------------------------ MODULE NetworkStateProofs ------------------------
(***************************************************************************)
(* What edit, apply and rollback guarantee for every number of processes,  *)
(* documents, revisions and managed files.                                 *)
(*                                                                         *)
(* The argument is compositional.  The invariant says where each operation *)
(* stands: what holds of the history and of the native call at its next    *)
(* step.  From it every step of the service is a step of the history and a *)
(* step of the installation, so their invariants carry over.  On top of it *)
(* come what a whole edit, apply or rollback guarantees: operations are    *)
(* isolated, a rollback restores what was asked for, every revision stays  *)
(* a possible goal, and what is installed, recorded and shown agrees.      *)
(***************************************************************************)
EXTENDS NetworkState, DesiredHistoryProofs, NetworkdProofs

(* What holds when the lock holder is at its next step.                    *)
Progress(p) ==
  LET pc == work[p].pc
  IN  /\ pc \in {"baseline", "load", "check", "resolve", "rewrite"} => work[p].at \in Files
      /\ pc \in {"check", "replace"} => work[p].doc \in Docs
      /\ pc = "resolve" => work[p].goal \in Revisions
      /\ pc \in {"load", "plan", "resolve", "rewrite", "stage"} =>
           Len(commits) < MaxCommits
      /\ pc \in {"rewrite", "stage", "commit", "install", "native"} =>
           PlanSucceeds(work[p].tree)
      /\ pc = "commit" => Staged
      /\ pc \in {"install", "native"} => Answered
      /\ pc \in {"commit", "install", "native"} => snapshot.files = work[p].tree
      /\ pc \notin {"commit", "install", "native"} => snapshot = None
      /\ pc = "native" <=> native # None

Inv ==
  /\ TypeOK
  /\ CoverInv
  /\ NetworkdInv
  /\ LockHeld
  /\ lock = Nobody => snapshot = None /\ native = None
  /\ \A p \in Processes : lock = p => Progress(p)

LEMMA ActorHoldsLock ==
  ASSUME Inv, NEW p \in Processes, ~At(p, "idle")
  PROVE  lock = p /\ Progress(p) /\ work[p] \in Works /\ p # Nobody
  BY NetworkStateAssumption DEF Inv, LockHeld, TypeOK

LEMMA IdleIsWork == Idle \in Works /\ Idle.pc = "idle"
<1>1. EmptyTree \in Trees
  BY EmptyTreeIsTree
<1>2. Interfaces \in Files /\ 1 \in 1 .. (LastFile + 1) /\ 0 \in 0 .. MaxCommits
  BY FilesAssumption, HistoryAssumption DEF Interfaces, Files
<1> QED  BY <1>1, <1>2 DEF Idle, Works, Steps

\* An operation that ends, wherever it is, whatever it changed besides.
LEMMA FinishKeepsInv ==
  ASSUME Inv, NEW p \in Processes, lock = p, Finish(p),
         CoverInv', NetworkdInv',
         desired' \in Trees,
         applied' \in [revision : 1 .. MaxCommits, artifacts : Artifacts] \cup {None},
         failures' \subseteq 1 .. MaxCommits
  PROVE  Inv'
<1>1. work' = [work EXCEPT ![p] = Idle] /\ lock' = Nobody /\ touched' = FALSE
      /\ snapshot' = None /\ native' = None
  BY DEF Finish
<1>2. work \in [Processes -> Works]
  BY DEF Inv, TypeOK
<1>3. work' \in [Processes -> Works]
  BY <1>1, <1>2, IdleIsWork
<1>4. TypeOK'
  BY <1>1, <1>3 DEF TypeOK, CoverInv, NetworkdInv
<1>5. \A q \in Processes : work'[q].pc = "idle"
  <2> SUFFICES ASSUME NEW q \in Processes PROVE work'[q].pc = "idle"
    OBVIOUS
  <2>1. CASE q = p
    BY <1>1, <1>2, <2>1, IdleIsWork
  <2>2. CASE q # p
    BY <1>1, <1>2, <2>2 DEF Inv, LockHeld, At
  <2> QED  BY <2>1, <2>2
<1>6. LockHeld'
  BY <1>1, <1>5, NetworkStateAssumption DEF LockHeld, At
<1> QED  BY <1>1, <1>4, <1>6, NetworkStateAssumption DEF Inv

\* A step of the lock holder that leaves it in its operation, or of a process
\* that takes the free lock.
LEMMA WorkKeepsInv ==
  ASSUME Inv, NEW p \in Processes, lock = p \/ lock = Nobody, lock' = p,
         NEW w \in Works, work' = [work EXCEPT ![p] = w], w.pc # "idle",
         CoverInv', NetworkdInv',
         desired' \in Trees, applied' = applied, failures' = failures,
         touched' \in BOOLEAN,
         Progress(p)'
  PROVE  Inv'
<1>1. work \in [Processes -> Works]
  BY DEF Inv, TypeOK
<1>2. work' \in [Processes -> Works] /\ work'[p] = w
  BY <1>1
<1>3. TypeOK'
  BY <1>2 DEF Inv, TypeOK, CoverInv, NetworkdInv
<1>4. LockHeld'
  <2> SUFFICES ASSUME NEW q \in Processes PROVE lock' = q <=> work'[q].pc # "idle"
    BY DEF LockHeld, At
  <2>1. CASE q = p
    BY <1>2, <2>1
  <2>2. CASE q # p
    BY <1>1, <2>2, NetworkStateAssumption DEF Inv, LockHeld, At
  <2> QED  BY <2>1, <2>2
<1> QED  BY <1>3, <1>4, NetworkStateAssumption DEF Inv

LEMMA UnchangedKeepsHistory == ASSUME CoverInv, UNCHANGED historyVars PROVE CoverInv'
  BY HistoryStepKeepsCoverInv

LEMMA UnchangedKeepsNetworkd ==
  ASSUME NetworkdInv, UNCHANGED networkdVars PROVE NetworkdInv'
  BY NetworkdStepKeepsInv

(* -------------------- the service drives its parts --------------------- *)

LEMMA PlannedIsSnapshot ==
  ASSUME NEW t \in Trees, PlanSucceeds(t)
  PROVE  t \in Snapshots /\ Candidate(t) \in Candidates
  BY NetworkStateAssumption DEF PlanSucceeds, Loads, Snapshots, Candidate

\* However an operation ends, its snapshot is answered, lost or not begun and
\* its native call over, abandoned or not begun.
LEMMA FinishProjects ==
  ASSUME Inv, NEW p \in Processes, ~At(p, "idle"), Finish(p),
         UNCHANGED <<commits, index, networkd>>,
         Staged => CommitsCanBeLost,
         Applying => CanAbandon \/ Stumbles
  PROVE  [HistoryNext]_historyVars /\ [NetworkdNext]_networkdVars
<1>1. snapshot' = None /\ native' = None /\ commits' = commits /\ index' = index
      /\ networkd' = networkd
  BY DEF Finish
<1>2. [HistoryNext]_historyVars
  <2>1. CASE Staged
    BY <1>1, <2>1 DEF LoseCommit, HistoryNext
  <2>2. CASE Answered
    BY <1>1, <2>2 DEF Forget, HistoryNext
  <2>3. CASE snapshot = None
    BY <1>1, <2>3 DEF historyVars
  <2> QED  BY <2>1, <2>2, <2>3 DEF Staged, Answered
<1>3. [NetworkdNext]_networkdVars
  <2>1. CASE Applying
    BY <1>1, <2>1 DEF Abandon, NetworkdNext
  <2>2. CASE native = None
    BY <1>1, <2>2 DEF networkdVars
  <2>3. CASE native # None /\ ~Applying
    BY <1>1, <2>3 DEF Applying, InPhase, Return, NetworkdNext
  <2> QED  BY <2>1, <2>2, <2>3
<1> QED  BY <1>2, <1>3

LEMMA FreeFinishProjects ==
  ASSUME Inv, NEW p \in Processes, ~At(p, "idle"), Finish(p),
         UNCHANGED <<commits, index, networkd>>,
         work[p].pc \notin {"commit", "install", "native"}
  PROVE  [HistoryNext]_historyVars /\ [NetworkdNext]_networkdVars
<1>1. snapshot = None /\ native = None
  BY ActorHoldsLock DEF Progress
<1> QED  BY <1>1, FinishProjects DEF Staged, Applying

LEMMA NativeFinishProjects ==
  ASSUME Inv, NEW p \in Processes, At(p, "install") \/ At(p, "native"), Finish(p),
         UNCHANGED <<commits, index, networkd>>,
         native = None \/ Stumbles \/ InPhase("succeeded") \/ InPhase("failed")
  PROVE  [HistoryNext]_historyVars /\ [NetworkdNext]_networkdVars
<1>1. ~At(p, "idle")
  BY DEF At
<1>2. Answered
  BY <1>1, ActorHoldsLock DEF Progress, At
<1>3. Applying => CanAbandon \/ Stumbles
  BY DEF Applying, InPhase
<1> QED  BY <1>1, <1>2, <1>3, FinishProjects DEF Staged, Answered

LEMMA StageFilesProjects ==
  ASSUME Inv, NEW p \in Processes, StageFiles(p)
  PROVE  [HistoryNext]_historyVars /\ [NetworkdNext]_networkdVars
<1>1. /\ At(p, "stage") /\ Progress(p) /\ work[p] \in Works /\ ~At(p, "idle")
      /\ networkd' = networkd
  BY ActorHoldsLock DEF StageFiles, At
<1>2. PlanSucceeds(work[p].tree) /\ Len(commits) < MaxCommits /\ work[p].tree \in Trees
  BY <1>1 DEF Progress, At, Works
<1>3. CASE Stage(work[p].tree) /\ UNCHANGED native
  BY <1>1, <1>2, <1>3, PlannedIsSnapshot DEF HistoryNext, WithinBound, networkdVars
<1>4. CASE Finish(p) /\ UNCHANGED <<commits, index>>
  BY <1>1, <1>4, FreeFinishProjects DEF At
<1> QED  BY <1>3, <1>4 DEF StageFiles

LEMMA InstallProjects ==
  ASSUME Inv, NEW p \in Processes, Install(p)
  PROVE  [HistoryNext]_historyVars /\ [NetworkdNext]_networkdVars
<1>1. /\ At(p, "install") /\ Progress(p) /\ work[p] \in Works
      /\ Begin(Candidate(work[p].tree)) /\ UNCHANGED <<commits, index, snapshot>>
  BY ActorHoldsLock DEF Install, At
<1>2. PlanSucceeds(work[p].tree) /\ work[p].tree \in Trees
  BY <1>1 DEF Progress, At, Works
<1> QED  BY <1>1, <1>2, PlannedIsSnapshot DEF NetworkdNext, historyVars

\* The steps that touch neither the history nor the managed files, and their
\* early returns.
LEMMA FreeStepProjects ==
  ASSUME Inv, NEW p \in Processes,
         \/ ReadFile(p) \/ ReadOriginal(p) \/ Check(p) \/ Replace(p) \/ Plan(p)
         \/ Resolve(p) \/ Rewrite(p) \/ EditorGivesUp(p)
         \/ \E d \in Written : EditorSaves(p, d)
  PROVE  [HistoryNext]_historyVars /\ [NetworkdNext]_networkdVars
<1>1. CASE ReadFile(p) \/ Rewrite(p) \/ \E d \in Written : EditorSaves(p, d)
  BY <1>1 DEF ReadFile, Rewrite, EditorSaves, historyVars, networkdVars
<1>2. CASE ReadOriginal(p) \/ Check(p) \/ Replace(p) \/ Plan(p) \/ Resolve(p)
           \/ EditorGivesUp(p)
  <2>1. /\ ~At(p, "idle") /\ work[p].pc \notin {"commit", "install", "native"}
        /\ UNCHANGED <<commits, index, networkd>>
    BY <1>2 DEF ReadOriginal, Check, Replace, Plan, Resolve, EditorGivesUp, At
  <2>2. Finish(p) \/ UNCHANGED <<snapshot, native>>
    BY <1>2 DEF ReadOriginal, Check, Replace, Plan, Resolve, EditorGivesUp
  <2>3. CASE Finish(p)
    BY <2>1, <2>3, FreeFinishProjects
  <2>4. CASE UNCHANGED <<snapshot, native>>
    BY <2>1, <2>4 DEF historyVars, networkdVars
  <2> QED  BY <2>2, <2>3, <2>4
<1> QED  BY <1>1, <1>2

\* Every step of the service is a step of its history and of its native
\* backend.
LEMMA StepProjects ==
  ASSUME Inv, [Next]_vars
  PROVE  [HistoryNext]_historyVars /\ [NetworkdNext]_networkdVars
<1>1. ASSUME NEW p \in Processes,
             \/ \E f \in Files : BeginEdit(p, f)
             \/ BeginApply(p)
             \/ \E r \in Revisions : BeginRollback(p, r)
      PROVE  [HistoryNext]_historyVars /\ [NetworkdNext]_networkdVars
  BY <1>1 DEF BeginEdit, BeginApply, BeginRollback, Enter, historyVars, networkdVars
<1>2. ASSUME NEW p \in Processes, Proceed(p)
      PROVE  [HistoryNext]_historyVars /\ [NetworkdNext]_networkdVars
  <2>1. CASE CommitFiles(p)
    BY <2>1 DEF CommitFiles, HistoryNext, networkdVars
  <2>2. CASE Native(p)
    BY <2>2 DEF Native, NetworkdNext, historyVars
  <2>3. CASE NativeBreaks(p) \/ RecordSuccess(p) \/ RecordFailure(p)
    BY <2>3, NativeFinishProjects DEF NativeBreaks, RecordSuccess, RecordFailure
  <2> QED  BY <1>2, <2>1, <2>2, <2>3, FreeStepProjects, StageFilesProjects, InstallProjects
           DEF Proceed
<1>3. ASSUME NEW p \in Processes, End(p)
      PROVE  [HistoryNext]_historyVars /\ [NetworkdNext]_networkdVars
  <2>1. ~At(p, "idle")
    BY <1>3 DEF End, Inv, LockHeld
  <2> QED  BY <1>3, <2>1, FinishProjects DEF End
<1>4. ASSUME NEW f \in Files, NEW d \in Written \cup {Absent}, Outside(f, d)
      PROVE  [HistoryNext]_historyVars /\ [NetworkdNext]_networkdVars
  BY <1>4 DEF Outside, historyVars, networkdVars
<1>5. ASSUME NEW a \in ArtifactNames, NEW c \in Contents \cup {Absent}, DriftFile(a, c)
      PROVE  [HistoryNext]_historyVars /\ [NetworkdNext]_networkdVars
  BY <1>5 DEF DriftFile, NetworkdNext, historyVars
<1>6. CASE UNCHANGED vars
  BY <1>6 DEF vars, historyVars, networkdVars
<1> QED  BY <1>1, <1>2, <1>3, <1>4, <1>5, <1>6, FreeStepProjects DEF Next

(* ------------------------- each step by itself ------------------------- *)

LEMMA EnterKeepsInv ==
  ASSUME Inv, CoverInv', NetworkdInv', NEW p \in Processes,
         NEW w \in Works, Enter(p, w),
         w.pc # "idle",
         w.at \in Files,
         w.pc \in {"load", "resolve"} => Len(commits) < MaxCommits,
         w.pc = "resolve" => w.goal \in Revisions,
         w.pc \in {"baseline", "load", "resolve"}
  PROVE  Inv'
<1>1. /\ lock = Nobody /\ lock' = p /\ work' = [work EXCEPT ![p] = w]
      /\ UNCHANGED <<commits, index, snapshot, native, desired, applied, failures, touched>>
  BY DEF Enter
<1>2. snapshot = None /\ native = None
  BY <1>1 DEF Inv
<1>3. work'[p] = w /\ desired' \in Trees /\ touched' \in BOOLEAN
  BY <1>1 DEF Inv, TypeOK
<1>4. Progress(p)'
  BY <1>1, <1>2, <1>3 DEF Progress, Revisions
<1> QED  BY <1>1, <1>3, <1>4, WorkKeepsInv

LEMMA BeginKeepsInv ==
  ASSUME Inv, CoverInv', NetworkdInv', NEW p \in Processes,
         \/ \E f \in Files : BeginEdit(p, f)
         \/ BeginApply(p)
         \/ \E r \in Revisions : BeginRollback(p, r)
  PROVE  Inv'
<1>0. 1 \in Files /\ Idle.at = 1
  BY FilesAssumption DEF Files, Idle
<1>1. ASSUME NEW f \in Files, BeginEdit(p, f) PROVE Inv'
  <2> DEFINE w == [Idle EXCEPT !.pc = "baseline", !.file = f]
  <2>1. w \in Works /\ w.pc = "baseline" /\ w.at = 1
    BY <1>0, IdleIsWork DEF Works, Steps
  <2> QED  BY <1>0, <1>1, <2>1, EnterKeepsInv DEF BeginEdit
<1>2. CASE BeginApply(p)
  <2> DEFINE w == [Idle EXCEPT !.pc = "load"]
  <2>1. w \in Works /\ w.pc = "load" /\ w.at = 1
    BY <1>0, IdleIsWork DEF Works, Steps
  <2> QED  BY <1>0, <1>2, <2>1, EnterKeepsInv DEF BeginApply
<1>3. ASSUME NEW r \in Revisions, BeginRollback(p, r) PROVE Inv'
  <2> DEFINE w == [Idle EXCEPT !.pc = "resolve", !.goal = r]
  <2>0. r \in 0 .. MaxCommits
    BY LenProperties, HistoryAssumption DEF Inv, CoverInv, HistoryTypeOK, Revisions
  <2>1. w \in Works /\ w.pc = "resolve" /\ w.goal = r /\ w.at = 1
    BY <1>0, <2>0, IdleIsWork DEF Works, Steps
  <2> QED  BY <1>0, <1>3, <2>1, EnterKeepsInv DEF BeginRollback
<1> QED  BY <1>1, <1>2, <1>3

LEMMA ReadFileKeepsInv ==
  ASSUME Inv, CoverInv', NetworkdInv', NEW p \in Processes, ReadFile(p)
  PROVE  Inv'
<1> DEFINE f == work[p].at
           next == IF f < LastFile THEN work[p].pc
                   ELSE IF At(p, "load") THEN "plan" ELSE "original"
           w == [work[p] EXCEPT !.tree = [work[p].tree EXCEPT ![f] = desired[f]],
                                !.at = f + 1, !.pc = next]
<1>1. /\ lock = p /\ Progress(p) /\ work[p] \in Works
      /\ work[p].pc \in {"baseline", "load"} /\ f \in Files
      /\ UNCHANGED <<commits, index, snapshot, native, desired, applied, failures,
                     lock, touched>>
  BY ActorHoldsLock DEF ReadFile, At, Progress
<1>2. desired \in Trees /\ touched \in BOOLEAN /\ work \in [Processes -> Works]
  BY DEF Inv, TypeOK
<1>3. next \in {"baseline", "load", "plan", "original"}
      /\ (next \in {"baseline", "load"} => f < LastFile /\ next = work[p].pc)
      /\ (next = "plan" => work[p].pc = "load")
  BY <1>1 DEF At
<1>4. [work[p].tree EXCEPT ![f] = desired[f]] \in Trees
  BY <1>1, <1>2 DEF Works, Trees
<1>5. w \in Works /\ w.pc = next /\ w.at = f + 1
  <2>1. f + 1 \in 1 .. (LastFile + 1)
    BY <1>1, FilesAssumption DEF Files
  <2>2. next \in Steps
    BY <1>3 DEF Steps
  <2> HIDE DEF next, f
  <2> QED  BY <1>1, <1>4, <2>1, <2>2 DEF Works
<1>6. work' = [work EXCEPT ![p] = w]
  BY <1>1, <1>2 DEF ReadFile, At, Works
<1>7. work'[p] = w
  BY <1>2, <1>6
<1>8. Progress(p)'
  BY <1>1, <1>3, <1>5, <1>7, FilesAssumption DEF Progress, Files
<1> QED  BY <1>1, <1>2, <1>3, <1>5, <1>6, <1>8, WorkKeepsInv

\* Ends that leave the store alone; the desired state stays one.
LEMMA PlainFinishKeepsInv ==
  ASSUME Inv, CoverInv', NetworkdInv', NEW p \in Processes, ~At(p, "idle"), Finish(p),
         desired' \in Trees, UNCHANGED <<applied, failures>>
  PROVE  Inv'
<1>1. lock = p
  BY ActorHoldsLock
<1> QED  BY <1>1, FinishKeepsInv DEF Inv, TypeOK

LEMMA DocsWithHeader == ASSUME NEW d \in Docs PROVE WithHeader(d) \in Docs
  BY DEF WithHeader, Docs

LEMMA ReadOriginalKeepsInv ==
  ASSUME Inv, CoverInv', NetworkdInv', NEW p \in Processes, ReadOriginal(p)
  PROVE  Inv'
<1>1. /\ lock = p /\ Progress(p) /\ work[p] \in Works /\ At(p, "original") /\ ~At(p, "idle")
      /\ UNCHANGED <<commits, index, desired, applied, failures>>
  BY ActorHoldsLock DEF ReadOriginal, At
<1>2. desired \in Trees /\ touched \in BOOLEAN /\ work \in [Processes -> Works]
  BY DEF Inv, TypeOK
<1>3. CASE Finish(p)
  BY <1>1, <1>2, <1>3, PlainFinishKeepsInv
<1>4. CASE ~Finish(p)
  <2> DEFINE held == desired[work[p].file]
             d == WithHeader(IF held = Absent THEN EmptyDoc ELSE held)
             w == [work[p] EXCEPT !.doc = d, !.pc = "editor"]
  <2>1. EmptyDoc \in Docs /\ held \in Docs \cup {Absent}
    BY <1>1, <1>2, DocsAssumption DEF EmptyDoc, Docs, Works, Trees
  <2>2. d \in Docs
    BY <2>1, DocsWithHeader
  <2>3. work' = [work EXCEPT ![p] = w] /\ UNCHANGED <<snapshot, native, lock, touched>>
    BY <1>1, <1>2, <1>4 DEF ReadOriginal
  <2>4. w \in Works /\ w.pc = "editor"
    BY <1>1, <2>2 DEF Works, Steps
  <2>5. work'[p] = w
    BY <1>2, <2>3
  <2>6. Progress(p)'
    BY <1>1, <2>3, <2>4, <2>5 DEF Progress, At
  <2> QED  BY <1>1, <1>2, <2>3, <2>4, <2>6, WorkKeepsInv
<1> QED  BY <1>3, <1>4

LEMMA EditorSavesKeepsInv ==
  ASSUME Inv, CoverInv', NetworkdInv', NEW p \in Processes, NEW d \in Written,
         EditorSaves(p, d)
  PROVE  Inv'
<1> DEFINE w == [work[p] EXCEPT !.doc = d, !.at = 1, !.pc = "check"]
<1>1. /\ lock = p /\ Progress(p) /\ work[p] \in Works /\ At(p, "editor")
      /\ work' = [work EXCEPT ![p] = w] /\ touched' = FALSE
      /\ UNCHANGED <<commits, index, snapshot, native, desired, applied, failures, lock>>
  BY ActorHoldsLock DEF EditorSaves, At
<1>2. desired \in Trees /\ work \in [Processes -> Works] /\ d \in Docs
  BY NetworkStateAssumption DEF Inv, TypeOK
<1>3. 1 \in Files /\ 1 \in 1 .. (LastFile + 1)
  BY FilesAssumption DEF Files
<1>4. w \in Works /\ w.pc = "check" /\ w.at = 1 /\ w.doc = d
  BY <1>1, <1>2, <1>3 DEF Works, Steps
<1>5. work'[p] = w
  BY <1>1, <1>2
<1>6. Progress(p)'
  BY <1>1, <1>2, <1>3, <1>4, <1>5 DEF Progress, At
<1> QED  BY <1>1, <1>2, <1>4, <1>6, WorkKeepsInv

\* A loop over the documents goes on to the next one or to the next step.
LEMMA LoopEffect ==
  ASSUME NEW v \in Works, NEW step \in Steps, v.at \in Files
  PROVE  LET w == [v EXCEPT !.at = v.at + 1, !.pc = IF v.at < LastFile THEN v.pc ELSE step]
         IN  /\ w \in Works
             /\ w.tree = v.tree /\ w.doc = v.doc
             /\ \/ w.pc = v.pc /\ w.at \in Files
                \/ w.pc = step
<1> DEFINE pc == IF v.at < LastFile THEN v.pc ELSE step
           at == v.at + 1
<1>1. pc \in Steps
  BY DEF Works
<1>2. at \in 1 .. (LastFile + 1) /\ (v.at < LastFile => at \in Files)
  BY FilesAssumption DEF Files
<1>3. (pc = v.pc /\ at \in Files) \/ pc = step
  BY <1>2
<1> HIDE DEF pc, at
<1>4. [v EXCEPT !.at = at, !.pc = pc] \in Works
  BY <1>1, <1>2 DEF Works
<1>5. /\ [v EXCEPT !.at = at, !.pc = pc].pc = pc
      /\ [v EXCEPT !.at = at, !.pc = pc].at = at
      /\ [v EXCEPT !.at = at, !.pc = pc].tree = v.tree
      /\ [v EXCEPT !.at = at, !.pc = pc].doc = v.doc
  BY DEF Works
<1> QED  BY <1>3, <1>4, <1>5 DEF pc, at

LEMMA CheckKeepsInv ==
  ASSUME Inv, CoverInv', NetworkdInv', NEW p \in Processes, Check(p)
  PROVE  Inv'
<1>1. /\ lock = p /\ Progress(p) /\ work[p] \in Works /\ At(p, "check") /\ ~At(p, "idle")
      /\ work[p].at \in Files
      /\ UNCHANGED <<commits, index, desired, applied, failures>>
  BY ActorHoldsLock DEF Check, At, Progress
<1>2. desired \in Trees /\ touched \in BOOLEAN /\ work \in [Processes -> Works]
  BY DEF Inv, TypeOK
<1>3. CASE Finish(p)
  BY <1>1, <1>2, <1>3, PlainFinishKeepsInv
<1>4. CASE ~Finish(p)
  <2> DEFINE w == [work[p] EXCEPT !.at = work[p].at + 1,
                      !.pc = IF work[p].at < LastFile THEN work[p].pc ELSE "replace"]
  <2>1. work' = [work EXCEPT ![p] = w] /\ UNCHANGED <<snapshot, native, lock, touched>>
    BY <1>4 DEF Check
  <2>2. /\ w \in Works /\ w.doc = work[p].doc
        /\ (w.pc = "check" /\ w.at \in Files) \/ w.pc = "replace"
    BY <1>1, LoopEffect DEF Steps, At
  <2> HIDE DEF w
  <2>3. work'[p] = w
    BY <1>2, <2>1
  <2>4. Progress(p)'
    BY <1>1, <2>1, <2>2, <2>3 DEF Progress, At
  <2> QED  BY <1>1, <1>2, <2>1, <2>2, <2>4, WorkKeepsInv
<1> QED  BY <1>3, <1>4

LEMMA ReplaceKeepsInv ==
  ASSUME Inv, CoverInv', NetworkdInv', NEW p \in Processes,
         Replace(p) \/ EditorGivesUp(p)
  PROVE  Inv'
<1>1. ~At(p, "idle") /\ work[p] \in Works /\ Finish(p) /\ UNCHANGED <<applied, failures>>
  BY ActorHoldsLock DEF Replace, EditorGivesUp, At
<1>2. desired \in Trees
  BY DEF Inv, TypeOK
<1>3. desired' \in Trees
  <2>1. CASE desired' = desired
    BY <1>2, <2>1
  <2>2. CASE Replace(p)
    <3>1. Progress(p) /\ At(p, "replace")
      BY <1>1, <2>2, ActorHoldsLock DEF Replace
    <3>2. WithHeader(work[p].doc) \in Docs
      BY <3>1, DocsWithHeader DEF Progress, At
    <3> QED  BY <1>2, <2>2, <3>2 DEF Replace, Trees
  <2> QED  BY <2>1, <2>2 DEF EditorGivesUp
<1> QED  BY <1>1, <1>3, PlainFinishKeepsInv

LEMMA RewriteKeepsInv ==
  ASSUME Inv, CoverInv', NetworkdInv', NEW p \in Processes, Rewrite(p)
  PROVE  Inv'
<1> DEFINE w == [work[p] EXCEPT !.at = work[p].at + 1,
                    !.pc = IF work[p].at < LastFile THEN work[p].pc ELSE "stage"]
<1>1. /\ lock = p /\ Progress(p) /\ work[p] \in Works /\ At(p, "rewrite")
      /\ work[p].at \in Files
      /\ work' = [work EXCEPT ![p] = w]
      /\ desired' = [desired EXCEPT ![work[p].at] = work[p].tree[work[p].at]]
      /\ touched' \in BOOLEAN
      /\ UNCHANGED <<commits, index, snapshot, native, applied, failures, lock>>
  BY ActorHoldsLock DEF Rewrite, At, Progress
<1>2. desired \in Trees /\ work \in [Processes -> Works]
  BY DEF Inv, TypeOK
<1>3. desired' \in Trees
  BY <1>1, <1>2 DEF Works, Trees
<1>4. /\ w \in Works /\ w.tree = work[p].tree
      /\ (w.pc = "rewrite" /\ w.at \in Files) \/ w.pc = "stage"
  BY <1>1, LoopEffect DEF Steps, At
<1> HIDE DEF w
<1>5. work'[p] = w
  BY <1>1, <1>2
<1>6. Progress(p)'
  BY <1>1, <1>4, <1>5 DEF Progress, At
<1> QED  BY <1>1, <1>3, <1>4, <1>6, WorkKeepsInv

\* An operation that goes on to another step has the same documents there.
LEMMA GoOnEffect ==
  ASSUME NEW p \in Processes, work \in [Processes -> Works],
         NEW step \in Steps, GoOn(p, step)
  PROVE  LET w == [work[p] EXCEPT !.pc = step, !.at = 1]
         IN  /\ w \in Works /\ w.pc = step /\ w.tree = work[p].tree
             /\ work' = [work EXCEPT ![p] = w] /\ work'[p] = w
<1>1. 1 \in 1 .. (LastFile + 1)
  BY FilesAssumption
<1> QED  BY <1>1 DEF GoOn, Works

LEMMA PlanKeepsInv ==
  ASSUME Inv, CoverInv', NetworkdInv', NEW p \in Processes, Plan(p)
  PROVE  Inv'
<1>1. /\ lock = p /\ Progress(p) /\ work[p] \in Works /\ At(p, "plan") /\ ~At(p, "idle")
      /\ UNCHANGED <<commits, index, desired, applied, failures>>
  BY ActorHoldsLock DEF Plan, At
<1>2. desired \in Trees /\ touched \in BOOLEAN /\ work \in [Processes -> Works]
  BY DEF Inv, TypeOK
<1>3. CASE Finish(p)
  BY <1>1, <1>2, <1>3, PlainFinishKeepsInv
<1>4. CASE PlanSucceeds(work[p].tree) /\ GoOn(p, "stage")
           /\ UNCHANGED <<snapshot, native, lock, touched>>
  <2> DEFINE w == [work[p] EXCEPT !.pc = "stage", !.at = 1]
  <2>1. /\ w \in Works /\ w.pc = "stage" /\ w.tree = work[p].tree
        /\ work' = [work EXCEPT ![p] = w] /\ work'[p] = w
    BY <1>2, <1>4, GoOnEffect DEF Steps
  <2> HIDE DEF w
  <2>2. Progress(p)'
    BY <1>1, <1>4, <2>1 DEF Progress, At
  <2> QED  BY <1>1, <1>2, <1>4, <2>1, <2>2, WorkKeepsInv
<1> QED  BY <1>3, <1>4 DEF Plan

\* What Git gives back of a revision means what the revision means, with or
\* without its headers.
LEMMA ReadBackMeaning ==
  ASSUME NEW t \in Trees
  PROVE  LET files == [f \in Files |-> IF t[f] = Absent THEN Absent ELSE ReadBack(t[f])]
             tree == [f \in Files |-> IF files[f] = Absent THEN Absent
                                      ELSE WithHeader(files[f])]
         IN  /\ files \in Trees /\ tree \in Trees
             /\ Intent(files) = Intent(t) /\ Intent(tree) = Intent(t)
             /\ Loads(files) <=> Loads(t)
             /\ Loads(tree) <=> Loads(t)
<1> DEFINE files == [f \in Files |-> IF t[f] = Absent THEN Absent ELSE ReadBack(t[f])]
           tree == [f \in Files |-> IF files[f] = Absent THEN Absent
                                    ELSE WithHeader(files[f])]
<1>1. ASSUME NEW d \in Docs
      PROVE  /\ ReadBack(d) \in Docs /\ Means[ReadBack(d).body] = Means[d.body]
             /\ WithHeader(d) \in Docs /\ WithHeader(d).body = d.body
  BY AsTextAssumption DEF ReadBack, WithHeader, Docs
<1>2. ASSUME NEW f \in Files
      PROVE  /\ files[f] \in Docs \cup {Absent} /\ tree[f] \in Docs \cup {Absent}
             /\ files[f] = Absent <=> t[f] = Absent
             /\ tree[f] = Absent <=> t[f] = Absent
             /\ t[f] # Absent => /\ Means[files[f].body] = Means[t[f].body]
                                 /\ Means[tree[f].body] = Means[t[f].body]
  <2>1. CASE t[f] = Absent
    BY <2>1
  <2>2. CASE t[f] # Absent
    <3>1. t[f] \in Docs
      BY <2>2 DEF Trees
    <3>2. files[f] = ReadBack(t[f]) /\ files[f] \in Docs
      BY <1>1, <2>2, <3>1
    <3>3. files[f] # Absent
      BY <3>2, DocsAssumption
    <3>4. tree[f] = WithHeader(files[f])
      BY <3>3
    <3>5. tree[f] \in Docs /\ tree[f] # Absent
      BY <1>1, <3>2, <3>4, DocsAssumption
    <3>6. Means[files[f].body] = Means[t[f].body] /\ Means[tree[f].body] = Means[files[f].body]
      BY <1>1, <3>1, <3>2, <3>4
    <3> QED  BY <2>2, <3>2, <3>3, <3>5, <3>6
  <2> QED  BY <2>1, <2>2
<1>3. Interfaces \in Files
  BY FilesAssumption DEF Files, Interfaces
<1>4. files \in Trees /\ tree \in Trees
  BY <1>2 DEF Trees
<1> HIDE DEF files, tree
<1>5. Intent(files) = Intent(t) /\ Intent(tree) = Intent(t)
  BY <1>2 DEF Intent
<1>6. (Loads(files) <=> Loads(t)) /\ (Loads(tree) <=> Loads(t))
  BY <1>2, <1>3, <1>5 DEF Loads
<1> QED  BY <1>4, <1>5, <1>6 DEF files, tree

LEMMA ResolveKeepsInv ==
  ASSUME Inv, CoverInv', NetworkdInv', NEW p \in Processes, Resolve(p)
  PROVE  Inv'
<1> DEFINE t == commits[work[p].goal]
           files == [f \in Files |-> IF t[f] = Absent THEN Absent ELSE ReadBack(t[f])]
           tree == [f \in Files |-> IF files[f] = Absent THEN Absent
                                    ELSE WithHeader(files[f])]
           w == [work[p] EXCEPT !.tree = tree, !.pc = "rewrite"]
<1>1. /\ lock = p /\ Progress(p) /\ work[p] \in Works /\ At(p, "resolve") /\ ~At(p, "idle")
      /\ UNCHANGED <<commits, index, desired, applied, failures>>
  BY ActorHoldsLock DEF Resolve, At
<1>2. desired \in Trees /\ touched \in BOOLEAN /\ work \in [Processes -> Works]
      /\ commits \in Seq(Trees)
  BY DEF Inv, TypeOK, HistoryTypeOK
<1>3. CASE Finish(p)
  BY <1>1, <1>2, <1>3, PlainFinishKeepsInv
<1>4. CASE ~Finish(p)
  <2>1. /\ PlanSucceeds(files) /\ work' = [work EXCEPT ![p] = w]
        /\ UNCHANGED <<snapshot, native, lock, touched>>
    BY <1>4 DEF Resolve
  <2>2. t \in Trees
    BY <1>1, <1>2, ElementOfSeq DEF Progress, At, Revisions
  <2> HIDE DEF t
  <2>3. tree \in Trees /\ PlanSucceeds(tree)
    BY <2>1, <2>2, ReadBackMeaning DEF PlanSucceeds
  <2> HIDE DEF tree, files
  <2>4. w \in Works /\ w.pc = "rewrite" /\ w.tree = tree /\ w.at = work[p].at
    BY <1>1, <2>3 DEF Works, Steps
  <2>5. work'[p] = w
    BY <1>2, <2>1
  <2>6. Progress(p)'
    BY <1>1, <2>1, <2>3, <2>4, <2>5 DEF Progress, At
  <2> QED  BY <1>1, <1>2, <2>1, <2>4, <2>6, WorkKeepsInv
<1> QED  BY <1>3, <1>4

LEMMA StageFilesKeepsInv ==
  ASSUME Inv, CoverInv', NetworkdInv', NEW p \in Processes, StageFiles(p)
  PROVE  Inv'
<1>1. /\ lock = p /\ Progress(p) /\ work[p] \in Works /\ At(p, "stage") /\ ~At(p, "idle")
      /\ UNCHANGED <<desired, applied, failures>>
  BY ActorHoldsLock DEF StageFiles, At
<1>2. /\ desired \in Trees /\ touched \in BOOLEAN /\ work \in [Processes -> Works]
      /\ work[p].tree \in Trees
  BY <1>1 DEF Inv, TypeOK, Works
<1>3. CASE Finish(p)
  BY <1>1, <1>2, <1>3, PlainFinishKeepsInv
<1>4. CASE Stage(work[p].tree) /\ GoOn(p, "commit") /\ UNCHANGED <<native, lock, touched>>
  <2> DEFINE w == [work[p] EXCEPT !.pc = "commit", !.at = 1]
  <2>1. /\ w \in Works /\ w.pc = "commit" /\ w.tree = work[p].tree
        /\ work' = [work EXCEPT ![p] = w] /\ work'[p] = w
    BY <1>2, <1>4, GoOnEffect DEF Steps
  <2> HIDE DEF w
  <2>2. Staged' /\ snapshot'.files = work[p].tree
    BY <1>2, <1>4, StageEffect DEF Staged
  <2>3. Progress(p)'
    BY <1>1, <1>4, <2>1, <2>2 DEF Progress, At
  <2> QED  BY <1>1, <1>2, <1>4, <2>1, <2>3, WorkKeepsInv
<1> QED  BY <1>3, <1>4 DEF StageFiles

\* The mandatory document is in the index, so a commit leaves a HEAD.
LEMMA CommitAnswers ==
  ASSUME CoverInv, Commit, snapshot.files[Interfaces] # Absent
  PROVE  Answered' /\ snapshot'.files = snapshot.files
<1>1. Staged /\ Interfaces \in Files
  BY FilesAssumption DEF Commit, Files, Interfaces
<1>2. index[Interfaces] # Absent
  BY <1>1 DEF CoverInv, Present
<1>3. commits' # <<>>
  <2>1. CASE commits' = <<>>
    BY <1>1, <1>2, <2>1, CommitOutcome DEF HeadTree, EmptyTree
  <2> QED  BY <2>1
<1>4. commits' \in Seq(Trees) /\ snapshot'.revision = Len(commits')
      /\ snapshot' \in [files : Trees, revision : 0 .. MaxCommits, clean : BOOLEAN]
  BY CommitOutcome
<1>5. Len(commits') # 0
  BY <1>3, <1>4, EmptySeq
<1> QED  BY <1>4, <1>5, CommitOutcome, HistoryAssumption DEF Answered

LEMMA CommitFilesKeepsInv ==
  ASSUME Inv, CoverInv', NetworkdInv', NEW p \in Processes, CommitFiles(p)
  PROVE  Inv'
<1> DEFINE w == [work[p] EXCEPT !.pc = "install", !.at = 1]
<1>1. /\ lock = p /\ Progress(p) /\ work[p] \in Works /\ At(p, "commit")
      /\ Commit /\ GoOn(p, "install")
      /\ UNCHANGED <<native, desired, applied, failures, lock, touched>>
  BY ActorHoldsLock DEF CommitFiles, At
<1>2. /\ desired \in Trees /\ touched \in BOOLEAN /\ work \in [Processes -> Works]
      /\ CoverInv
  BY DEF Inv, TypeOK
<1>3. PlanSucceeds(work[p].tree) /\ snapshot.files = work[p].tree
  BY <1>1 DEF Progress, At
<1>4. Answered' /\ snapshot'.files = work[p].tree
  BY <1>1, <1>2, <1>3, CommitAnswers DEF PlanSucceeds, Loads
<1>5. /\ w \in Works /\ w.pc = "install" /\ w.tree = work[p].tree
      /\ work' = [work EXCEPT ![p] = w] /\ work'[p] = w
  BY <1>1, <1>2, GoOnEffect DEF Steps
<1> HIDE DEF w
<1>6. Progress(p)'
  BY <1>1, <1>3, <1>4, <1>5 DEF Progress, At
<1> QED  BY <1>1, <1>2, <1>5, <1>6, WorkKeepsInv

LEMMA InstallKeepsInv ==
  ASSUME Inv, CoverInv', NetworkdInv', NEW p \in Processes, Install(p)
  PROVE  Inv'
<1> DEFINE w == [work[p] EXCEPT !.pc = "native", !.at = 1]
<1>1. /\ lock = p /\ Progress(p) /\ work[p] \in Works /\ At(p, "install")
      /\ Begin(Candidate(work[p].tree)) /\ GoOn(p, "native")
      /\ UNCHANGED <<commits, index, snapshot, desired, applied, failures, lock, touched>>
  BY ActorHoldsLock DEF Install, At
<1>2. /\ desired \in Trees /\ touched \in BOOLEAN /\ work \in [Processes -> Works]
      /\ work[p].tree \in Trees /\ NetworkdTypeOK
  BY <1>1 DEF Inv, TypeOK, Works, NetworkdInv
<1>3. /\ w \in Works /\ w.pc = "native" /\ w.tree = work[p].tree
      /\ work' = [work EXCEPT ![p] = w] /\ work'[p] = w
  BY <1>1, <1>2, GoOnEffect DEF Steps
<1> HIDE DEF w
<1>4. PlanSucceeds(work[p].tree) /\ Answered /\ snapshot.files = work[p].tree
  BY <1>1 DEF Progress, At
<1>5. native' # None
  BY <1>1, <1>2, <1>4, PlannedIsSnapshot, BeginEffect
<1>6. Answered' /\ snapshot'.files = work[p].tree
  BY <1>1, <1>4 DEF Answered
<1>7. Progress(p)'
  BY <1>1, <1>3, <1>4, <1>5, <1>6 DEF Progress
<1> QED  BY <1>1, <1>2, <1>3, <1>7, WorkKeepsInv

LEMMA NativeKeepsInv ==
  ASSUME Inv, CoverInv', NetworkdInv', NEW p \in Processes, Native(p)
  PROVE  Inv'
<1>1. /\ lock = p /\ Progress(p) /\ work[p] \in Works /\ At(p, "native") /\ CallStep
      /\ UNCHANGED <<commits, index, snapshot, desired, applied, failures,
                     lock, work, touched>>
  BY ActorHoldsLock DEF Native, At
<1>2. native' # None
  BY <1>1, CallStepEffect DEF Inv
<1>3. desired \in Trees /\ touched \in BOOLEAN /\ work \in [Processes -> Works]
  BY DEF Inv, TypeOK
<1>4. work' = [work EXCEPT ![p] = work[p]]
  BY <1>1, <1>3
<1>5. Progress(p)'
  BY <1>1, <1>2 DEF Progress, At, Answered, Staged, PlanSucceeds, Revisions
<1> QED  BY <1>1, <1>3, <1>4, <1>5, WorkKeepsInv DEF At

LEMMA NativeEndsKeepsInv ==
  ASSUME Inv, CoverInv', NetworkdInv', NEW p \in Processes,
         NativeBreaks(p) \/ RecordSuccess(p) \/ RecordFailure(p) \/ End(p)
  PROVE  Inv'
<1>1. Finish(p) /\ desired' = desired /\ desired \in Trees
      /\ applied \in [revision : 1 .. MaxCommits, artifacts : Artifacts] \cup {None}
      /\ failures \subseteq 1 .. MaxCommits
  BY DEF NativeBreaks, RecordSuccess, RecordFailure, End, Inv, TypeOK
<1>2. ~At(p, "idle") /\ lock = p
  BY ActorHoldsLock DEF NativeBreaks, RecordSuccess, RecordFailure, End, At, Inv, LockHeld
<1>3. CASE NativeBreaks(p) \/ End(p)
  BY <1>1, <1>2, <1>3, FinishKeepsInv DEF NativeBreaks, End
<1>4. CASE RecordSuccess(p) \/ RecordFailure(p)
  <2>1. At(p, "native") /\ Progress(p) /\ work[p] \in Works
    BY <1>2, <1>4, ActorHoldsLock DEF RecordSuccess, RecordFailure
  <2>2. Answered /\ PlanSucceeds(work[p].tree) /\ work[p].tree \in Trees
    BY <2>1 DEF Progress, At, Works
  <2>3. snapshot.revision \in 1 .. MaxCommits
    BY <2>2, HistoryAssumption DEF Inv, CoverInv, HistoryTypeOK, Answered
  <2>4. Candidate(work[p].tree) \in Artifacts
    BY <2>2, PlannedIsSnapshot, CandidatesAreArtifacts
  <2>5. /\ applied' \in [revision : 1 .. MaxCommits, artifacts : Artifacts] \cup {None}
        /\ failures' \subseteq 1 .. MaxCommits
    <3>1. CASE RecordSuccess(p)
      <4>1. /\ applied' = [revision |-> snapshot.revision,
                           artifacts |-> Candidate(work[p].tree)]
            /\ failures' = failures
        BY <3>1 DEF RecordSuccess
      <4>2. applied' \in [revision : 1 .. MaxCommits, artifacts : Artifacts]
        BY <4>1, <2>3, <2>4
      <4> QED  BY <4>1, <4>2, <1>1
    <3>2. CASE RecordFailure(p)
      <4>1. applied' = applied /\ failures' = failures \cup {snapshot.revision}
        BY <3>2 DEF RecordFailure
      <4> QED  BY <4>1, <1>1, <2>3
    <3> QED  BY <1>4, <3>1, <3>2
  <2> QED  BY <1>1, <1>2, <2>5, FinishKeepsInv
<1> QED  BY <1>3, <1>4

\* Those who do not take the lock change nothing the operations count on
\* beyond the documents and the files themselves.
LEMMA OthersKeepInv ==
  ASSUME Inv, CoverInv', NetworkdInv',
         UNCHANGED <<commits, index, snapshot, applied, failures, lock, work>>,
         native = None <=> native' = None,
         desired' \in Trees, touched' \in BOOLEAN
  PROVE  Inv'
<1>1. TypeOK'
  BY DEF Inv, TypeOK, CoverInv, NetworkdInv
<1>2. LockHeld' /\ (lock' = Nobody => snapshot' = None /\ native' = None)
  BY DEF Inv, LockHeld, At
<1>3. ASSUME NEW p \in Processes, lock' = p PROVE Progress(p)'
  <2>1. Progress(p)
    BY <1>3 DEF Inv
  <2> QED  BY <2>1 DEF Progress, Answered, Staged, PlanSucceeds, Revisions
<1> QED  BY <1>1, <1>2, <1>3 DEF Inv

LEMMA StepKeepsInv ==
  ASSUME Inv, [Next]_vars
  PROVE  Inv'
<1>1. CoverInv' /\ NetworkdInv'
  BY StepProjects, HistoryStepKeepsCoverInv, NetworkdStepKeepsInv DEF Inv
<1>2. desired \in Trees /\ touched \in BOOLEAN
  BY DEF Inv, TypeOK
<1>3. ASSUME NEW p \in Processes, Proceed(p) PROVE Inv'
  BY <1>1, <1>3, ReadFileKeepsInv, ReadOriginalKeepsInv, CheckKeepsInv, ReplaceKeepsInv,
     PlanKeepsInv, ResolveKeepsInv, RewriteKeepsInv, StageFilesKeepsInv,
     CommitFilesKeepsInv, InstallKeepsInv, NativeKeepsInv, NativeEndsKeepsInv
     DEF Proceed
<1>4. ASSUME NEW p \in Processes,
             \/ \E f \in Files : BeginEdit(p, f)
             \/ BeginApply(p)
             \/ \E r \in Revisions : BeginRollback(p, r)
             \/ \E d \in Written : EditorSaves(p, d)
             \/ EditorGivesUp(p)
             \/ End(p)
      PROVE  Inv'
  BY <1>1, <1>4, BeginKeepsInv, EditorSavesKeepsInv, ReplaceKeepsInv, NativeEndsKeepsInv
<1>5. ASSUME NEW f \in Files, NEW d \in Written \cup {Absent}, Outside(f, d) PROVE Inv'
  <2>1. desired' \in Trees
    BY <1>2, <1>5, NetworkStateAssumption DEF Outside, Trees
  <2> QED  BY <1>1, <1>5, <2>1, OthersKeepInv DEF Outside
<1>6. ASSUME NEW a \in ArtifactNames, NEW c \in Contents \cup {Absent}, DriftFile(a, c)
      PROVE  Inv'
  <2>1. native = None <=> native' = None
    BY <1>6, DriftKeepsNetworkdInv DEF DriftFile, Inv
  <2> QED  BY <1>1, <1>2, <1>6, <2>1, OthersKeepInv DEF DriftFile
<1>7. CASE UNCHANGED vars
  BY <1>1, <1>2, <1>7, OthersKeepInv DEF vars
<1> QED  BY <1>3, <1>4, <1>5, <1>6, <1>7 DEF Next

LEMMA InvInit == ASSUME Init PROVE Inv
<1>1. HistoryInit /\ NetworkdInit /\ lock = Nobody /\ applied = None /\ failures = {}
      /\ work = [p \in Processes |-> Idle] /\ touched = FALSE
      /\ desired \in Trees
  BY NetworkStateAssumption DEF Init, Trees
<1>2. CoverInv /\ NetworkdInv
  BY <1>1, CoverInvInit, NetworkdInvInit
<1>3. TypeOK
  BY <1>1, <1>2, IdleIsWork DEF TypeOK, CoverInv, NetworkdInv
<1>4. LockHeld
  BY <1>1, IdleIsWork, NetworkStateAssumption DEF LockHeld, At
<1> QED  BY <1>1, <1>2, <1>3, <1>4, NetworkStateAssumption DEF Inv, HistoryInit, NetworkdInit

LEMMA InvHolds == Spec => []Inv
<1>1. Init => Inv
  BY InvInit
<1>2. Inv /\ [Next]_vars => Inv'
  BY StepKeepsInv
<1> QED  BY <1>1, <1>2, PTL DEF Spec

(* Every variable keeps its type, wherever processes die and whatever      *)
(* fails (NetworkStateService and the parts it calls).                     *)
THEOREM TypesHold == Spec => []TypeOK
<1>1. Inv => TypeOK
  BY DEF Inv
<1> QED  BY <1>1, InvHolds, PTL

(* Whoever is in an operation owns network.lock, and nobody else does,     *)
(* wherever processes die and whatever fails (state_lock around edit,      *)
(* apply and rollback).                                                    *)
THEOREM LockIsHeld == Spec => []LockHeld
<1>1. Inv => LockHeld
  BY DEF Inv
<1> QED  BY <1>1, InvHolds, PTL

(* The service uses its parts as they may be used: seen by the history it  *)
(* is a history, and seen by the native backend a sequence of its calls.   *)
THEOREM ServiceUsesParts ==
  Spec => HistorySpec /\ NetworkdInit /\ [][NetworkdNext]_networkdVars
<1>1. Init => Inv /\ HistoryInit /\ NetworkdInit
  BY InvInit DEF Init
<1>2. Inv /\ [Next]_vars => Inv'
  BY StepKeepsInv
<1>3. Inv /\ [Next]_vars => [HistoryNext]_historyVars /\ [NetworkdNext]_networkdVars
  BY StepProjects
<1> QED  BY <1>1, <1>2, <1>3, PTL DEF Spec, HistorySpec

(* So the history keeps in the service what it keeps by itself: revisions  *)
(* hold what was applied, and each can be rolled back to.                  *)
THEOREM ServiceHistory == Spec => [](SnapshotCovers /\ RevisionsHoldInterfaces)
  BY ServiceUsesParts, HistoryCovers, PTL

(* -------------------------- what status says --------------------------- *)

\* The applied revision is in the history to stay, with what was applied.
LEMMA HistoryKeepsRevisions ==
  ASSUME CoverInv, [HistoryNext]_historyVars, NEW r \in Revisions
  PROVE  r \in Revisions' /\ commits'[r] = commits[r]
<1>1. CASE commits' = commits
  BY <1>1 DEF Revisions
<1>2. CASE commits' = Append(commits, index)
  <2>1. index \in Trees /\ commits \in Seq(Trees)
    BY DEF CoverInv, HistoryTypeOK
  <2>2. /\ Len(commits) \in Nat
        /\ Len(commits') = Len(commits) + 1
        /\ \A i \in 1 .. Len(commits) : commits'[i] = commits[i]
    BY <1>2, <2>1, AppendProperties, LenProperties
  <2> QED  BY <2>2 DEF Revisions
<1> QED  BY <1>1, <1>2 DEF HistoryNext, Stage, Commit, Forget, LoseCommit, historyVars

LEMMA RecordSuccessIsFaithful ==
  ASSUME Inv, ExactInv, NEW p \in Processes, RecordSuccess(p)
  PROVE  RecordFaithful'
<1>1. At(p, "native") /\ Progress(p)
  BY ActorHoldsLock DEF RecordSuccess, At
<1>2. Answered /\ PlanSucceeds(work[p].tree) /\ snapshot.files = work[p].tree
  BY <1>1 DEF Progress, At
<1>3. snapshot.revision \in Revisions
      /\ Candidate(work[p].tree) \in FilesFor(commits[snapshot.revision])
  BY <1>2, AnswerIsHead, AnswerWasGiven DEF FilesFor
<1>4. /\ applied'.revision = snapshot.revision
      /\ applied'.artifacts = Candidate(work[p].tree)
      /\ commits' = commits
  BY DEF RecordSuccess
<1> QED  BY <1>3, <1>4 DEF RecordFaithful, Revisions, FilesFor, GivenFor, PlanSucceeds,
                           Candidate

LEMMA StepKeepsRecordFaithful ==
  ASSUME Inv, ExactInv, RecordFaithful, [Next]_vars
  PROVE  RecordFaithful'
<1>1. CASE \E p \in Processes : RecordSuccess(p)
  BY <1>1, RecordSuccessIsFaithful
<1>2. CASE applied' = applied
  <2> SUFFICES ASSUME applied # None
               PROVE  /\ applied.revision \in Revisions'
                      /\ applied.artifacts \in FilesFor(commits'[applied.revision])
    BY <1>2 DEF RecordFaithful, FilesFor, GivenFor, PlanSucceeds, Candidate
  <2>1. applied.revision \in Revisions' /\ commits'[applied.revision] = commits[applied.revision]
    BY StepProjects, HistoryKeepsRevisions DEF RecordFaithful, Inv
  <2> QED  BY <2>1 DEF RecordFaithful
<1>3. (\E p \in Processes : RecordSuccess(p)) \/ applied' = applied
  BY DEF Next, Proceed, BeginEdit, BeginApply, BeginRollback, Enter, ReadFile, ReadOriginal,
         EditorSaves, EditorGivesUp, Check, Replace, Plan, Resolve, Rewrite, StageFiles,
         CommitFiles, Install, Native, NativeBreaks, RecordFailure, End, Outside,
         DriftFile, vars
<1> QED  BY <1>1, <1>2, <1>3

LEMMA RevisionsArePositive == ASSUME commits \in Seq(Trees), NEW r \in Revisions PROVE r # 0
<1>1. Len(commits) \in Nat
  BY LenProperties
<1>2. r \in 1 .. Len(commits)
  BY DEF Revisions
<1> QED  BY <1>1, <1>2

\* Documents of which each means what the other's counterpart means generate
\* the same files.
LEMMA MeanAlike ==
  ASSUME NEW s, NEW t,
         \A f \in Files : /\ s[f] = Absent <=> t[f] = Absent
                          /\ s[f] # Absent => Means[s[f].body] = Means[t[f].body]
  PROVE  /\ PlanSucceeds(s) <=> PlanSucceeds(t)
         /\ Candidate(s) = Candidate(t)
<1>1. Interfaces \in Files
  BY FilesAssumption DEF Files, Interfaces
<1>2. Intent(s) = Intent(t)
  BY DEF Intent
<1> QED  BY <1>1, <1>2 DEF PlanSucceeds, Loads, Candidate

\* Documents that a revision matches, byte for byte as Git gives it back,
\* generate what is installed for the revision: document by document they mean
\* the same.
LEMMA MatchMeans ==
  ASSUME NEW r \in Revisions, commits \in Seq(Trees), NEW t \in Trees, Matches(r, t)
  PROVE  FilesFor(commits[r]) \subseteq FilesFor(t)
<1>1. commits[r] \in Trees
  BY ElementOfSeq DEF Revisions
<1>2. ASSUME NEW f \in Files
      PROVE  /\ t[f] = Absent <=> commits[r][f] = Absent
             /\ t[f] # Absent => Means[t[f].body] = Means[commits[r][f].body]
  <2>1. t[f] = Absent <=> commits[r][f] = Absent
    BY DEF Matches, Present
  <2>2. CASE t[f] # Absent
    <3>1. t[f] = ReadBack(commits[r][f]) /\ commits[r][f] \in Docs
      BY <1>1, <2>1, <2>2 DEF Matches, Present, Trees
    <3> QED  BY <2>1, <3>1, AsTextAssumption DEF ReadBack, Docs
  <2> QED  BY <2>1, <2>2
<1> SUFFICES ASSUME NEW s \in GivenFor(commits[r]), PlanSucceeds(s)
             PROVE  \E u \in GivenFor(t) : PlanSucceeds(u) /\ Candidate(u) = Candidate(s)
  BY DEF FilesFor
<1>3. CASE ~CommitsCanBeLost
  <2>1. s = commits[r] /\ t \in GivenFor(t)
    BY <1>3 DEF GivenFor
  <2> QED  BY <1>2, <2>1, MeanAlike
<1>4. CASE CommitsCanBeLost
  <2>1. PICK gone \in SUBSET (Files \ {Interfaces}) : s = Without(commits[r], gone)
    BY <1>4 DEF GivenFor
  <2>2. Without(t, gone) \in GivenFor(t)
    BY <1>4 DEF GivenFor
  <2>3. ASSUME NEW f \in Files
        PROVE  /\ s[f] = Absent <=> Without(t, gone)[f] = Absent
               /\ s[f] # Absent => Means[s[f].body] = Means[Without(t, gone)[f].body]
    BY <1>2, <2>1 DEF Without
  <2> QED  BY <2>2, <2>3, MeanAlike
<1> QED  BY <1>3, <1>4

LEMMA InSyncFromRecord ==
  ASSUME Inv, RecordFaithful
  PROVE  InSyncIsTrue
<1> SUFFICES ASSUME Status(desired) = "in sync"
             PROVE  networkd \in FilesFor(desired)
  BY DEF InSyncIsTrue
<1>1. /\ applied # None /\ networkd = applied.artifacts
      /\ \/ RevisionFor(desired) = applied.revision
         \/ RevisionFor(desired) = 0 /\ Matches(applied.revision, desired)
  BY DEF Status
<1>2. /\ applied.revision \in Revisions /\ commits \in Seq(Trees) /\ desired \in Trees
      /\ applied.artifacts \in FilesFor(commits[applied.revision])
  BY <1>1 DEF RecordFaithful, Inv, TypeOK, HistoryTypeOK
<1>3. Matches(applied.revision, desired)
  <2>1. applied.revision # 0
    BY <1>2, RevisionsArePositive
  <2> QED  BY <1>1, <2>1 DEF RevisionFor
<1> QED  BY <1>1, <1>2, <1>3, MatchMeans

LEMMA RecordInvHolds == Spec => [](Inv /\ ExactInv /\ RecordFaithful)
<1>1. Init => Inv /\ ExactInv /\ RecordFaithful
  BY InvInit, ExactInvInit DEF Init, RecordFaithful
<1>2. Inv /\ ExactInv /\ RecordFaithful /\ [Next]_vars => (Inv /\ ExactInv /\ RecordFaithful)'
  BY StepKeepsInv, StepProjects, HistoryStepKeepsExactInv, StepKeepsRecordFaithful
<1> QED  BY <1>1, <1>2, PTL DEF Spec

(* The record of the last success belongs to its revision, whatever failed *)
(* or died before it was written: its hashes are those of the revision's   *)
(* documents, of which some optional ones may be left out only when a      *)
(* process can end between `git add' and `git commit'                      *)
(* (NetworkStateService.apply and rollback).                               *)
THEOREM RecordIsFaithful == Spec => []RecordFaithful
  BY RecordInvHolds, PTL

(* So whenever status says "in sync" the managed files are what the        *)
(* documents on disk generate, up to the same documents: whatever failed,  *)
(* died or was changed by hand before (NetworkStateService.apply, rollback *)
(* and status).                                                            *)
THEOREM InSyncIsTheTruth == Spec => []InSyncIsTrue
<1>1. Inv /\ ExactInv /\ RecordFaithful => InSyncIsTrue
  BY InSyncFromRecord
<1> QED  BY <1>1, RecordInvHolds, PTL

(* ------------------------ isolation of operations ---------------------- *)

(* A rollback has yet to rewrite its first document when it has read its   *)
(* revision.                                                               *)
IsolationInv ==
  /\ TransactionIsolated
  /\ \A p \in Processes : At(p, "resolve") => work[p].at = 1

\* When nobody is in an operation, nobody has documents to agree with.
LEMMA AllIdleIsIsolated ==
  ASSUME \A p \in Processes : At(p, "idle")
  PROVE  IsolationInv
  BY DEF At, IsolationInv, TransactionIsolated, Agreed

LEMMA OthersAreIdle ==
  ASSUME Inv, NEW p \in Processes, lock = p, NEW q \in Processes, q # p
  PROVE  At(q, "idle")
  BY DEF Inv, LockHeld

LEMMA FinishKeepsIsolation ==
  ASSUME Inv, Inv', NEW p \in Processes, Finish(p)
  PROVE  IsolationInv'
<1>1. lock' = Nobody
  BY DEF Finish
<1>2. ASSUME NEW q \in Processes PROVE At(q, "idle")'
  BY <1>1, NetworkStateAssumption DEF Inv, LockHeld, At
<1> QED  BY <1>2 DEF At, IsolationInv, TransactionIsolated, Agreed

\* Only the documents of the process that has the lock after the step matter.
LEMMA HolderDecidesIsolation ==
  ASSUME Inv', NEW p \in Processes, lock' = p,
         At(p, "resolve")' => work'[p].at = 1,
         ~touched' => \A f \in Agreed(p)' : work'[p].tree[f] = desired'[f]
  PROVE  IsolationInv'
<1>1. ASSUME NEW q \in Processes, q # p
      PROVE  Agreed(q)' = {} /\ ~At(q, "resolve")'
  <2>1. work'[q].pc = "idle"
    BY <1>1 DEF Inv, LockHeld, At
  <2> QED  BY <2>1 DEF Agreed, At
<1>2. TransactionIsolated'
  BY <1>1 DEF TransactionIsolated
<1> QED  BY <1>1, <1>2 DEF IsolationInv

\* A step that leaves the documents alone and goes on from a view of all of
\* them to another.
LEMMA SameViewKeepsIsolation ==
  ASSUME Inv', IsolationInv, NEW p \in Processes, lock' = p,
         Agreed(p) = Files, ~At(p, "resolve")',
         work'[p].tree = work[p].tree, desired' = desired, touched' = touched
  PROVE  IsolationInv'
<1>1. ASSUME ~touched', NEW f \in Agreed(p)' PROVE work'[p].tree[f] = desired'[f]
  <2>1. f \in Files
    BY <1>1 DEF Agreed
  <2> QED  BY <1>1, <2>1 DEF IsolationInv, TransactionIsolated
<1> QED  BY <1>1, HolderDecidesIsolation

LEMMA NoneBeforeFirst == {f \in Files : f < 1} = {}
<1>1. \A f \in Files : ~(f < 1)
  BY FilesAssumption DEF Files
<1> QED  BY <1>1

LEMMA EnterKeepsIsolation ==
  ASSUME Inv, Inv', NEW p \in Processes,
         \/ \E f \in Files : BeginEdit(p, f)
         \/ BeginApply(p)
         \/ \E r \in Revisions : BeginRollback(p, r)
  PROVE  IsolationInv'
<1>1. PICK w \in {[Idle EXCEPT !.pc = "baseline", !.file = f] : f \in Files}
                 \cup {[Idle EXCEPT !.pc = "load"]}
                 \cup {[Idle EXCEPT !.pc = "resolve", !.goal = r] : r \in Revisions} :
        Enter(p, w)
  BY DEF BeginEdit, BeginApply, BeginRollback
<1>2. w.pc \in {"baseline", "load", "resolve"} /\ w.at = 1
  BY <1>1 DEF Idle
<1>3. work'[p] = w /\ lock' = p
  BY <1>1 DEF Enter, Inv, TypeOK
<1>4. Agreed(p)' \subseteq {f \in Files : f < 1}
  BY <1>2, <1>3 DEF Agreed
<1> QED  BY <1>2, <1>3, <1>4, NoneBeforeFirst, HolderDecidesIsolation DEF At

LEMMA ReadFileKeepsIsolation ==
  ASSUME Inv, Inv', IsolationInv, NEW p \in Processes, ReadFile(p)
  PROVE  IsolationInv'
<1> DEFINE f == work[p].at
           next == IF f < LastFile THEN work[p].pc
                   ELSE IF At(p, "load") THEN "plan" ELSE "original"
           w == [work[p] EXCEPT !.tree = [work[p].tree EXCEPT ![f] = desired[f]],
                                !.at = f + 1, !.pc = next]
<1>1. /\ lock = p /\ work[p] \in Works /\ work[p].pc \in {"baseline", "load"} /\ f \in Files
      /\ UNCHANGED <<desired, lock, touched>>
  BY ActorHoldsLock DEF ReadFile, At, Progress
<1>2. work' = [work EXCEPT ![p] = w] /\ work \in [Processes -> Works]
  BY <1>1 DEF ReadFile, At, Inv, TypeOK, Works
<1>3. work'[p] = w
  BY <1>2
<1>4. /\ w.at = f + 1 /\ w.pc = next
      /\ w.tree = [work[p].tree EXCEPT ![f] = desired[f]] /\ work[p].tree \in Trees
  <2> HIDE DEF f, next
  <2> QED  BY <1>1 DEF Works
<1>5. /\ next \in {"baseline", "load", "plan", "original"}
      /\ next \in {"plan", "original"} => f = LastFile
  <2>1. CASE f < LastFile
    BY <1>1, <2>1
  <2>2. CASE ~(f < LastFile)
    <3>1. f = LastFile
      BY <1>1, <2>2, FilesAssumption DEF Files
    <3>2. next \in {"plan", "original"}
      BY <1>1, <2>2 DEF At
    <3> QED  BY <3>1, <3>2
  <2> QED  BY <2>1, <2>2
<1>6. Agreed(p)' \subseteq {g \in Files : g <= f}
  BY <1>1, <1>3, <1>4, <1>5, FilesAssumption DEF Agreed, Files
<1>7. Agreed(p) = {g \in Files : g < f}
  BY <1>1 DEF Agreed
<1>8. ASSUME ~touched', NEW g \in Agreed(p)' PROVE w.tree[g] = desired[g]
  <2>1. g \in Files /\ g <= f
    BY <1>6, <1>8
  <2>2. CASE g = f
    BY <1>4, <2>1, <2>2 DEF Trees
  <2>3. CASE g # f
    <3>1. g < f
      BY <1>1, <2>1, <2>3, FilesAssumption DEF Files
    <3>2. g \in Agreed(p)
      BY <1>7, <2>1, <3>1
    <3>3. work[p].tree[g] = desired[g]
      BY <1>1, <1>8, <3>2 DEF IsolationInv, TransactionIsolated
    <3> QED  BY <1>4, <2>1, <2>3, <3>3 DEF Trees
  <2> QED  BY <2>2, <2>3
<1>9. work'[p].pc # "resolve" /\ lock' = p
  BY <1>1, <1>3, <1>4, <1>5
<1> HIDE DEF f, next, w
<1> QED  BY <1>1, <1>3, <1>8, <1>9, HolderDecidesIsolation DEF At

LEMMA CheckKeepsIsolation ==
  ASSUME Inv, Inv', IsolationInv, NEW p \in Processes, Check(p)
  PROVE  IsolationInv'
<1> DEFINE f == work[p].at
           w == [work[p] EXCEPT !.at = f + 1,
                                !.pc = IF f < LastFile THEN work[p].pc ELSE "replace"]
<1>1. lock = p /\ work[p] \in Works /\ work[p].pc = "check" /\ f \in Files
  BY ActorHoldsLock DEF Check, At, Progress
<1>2. CASE Finish(p)
  BY <1>2, FinishKeepsIsolation
<1>3. CASE ~Finish(p)
  <2>1. /\ desired[f] = work[p].tree[f] /\ work' = [work EXCEPT ![p] = w]
        /\ UNCHANGED <<lock, touched, desired>>
    BY <1>3 DEF Check
  <2>2. work'[p] = w
    BY <2>1 DEF Inv, TypeOK
  <2>3. /\ w.tree = work[p].tree /\ w.at = f + 1
        /\ w.pc = IF f < LastFile THEN "check" ELSE "replace"
    BY <1>1 DEF Works
  <2>4. Agreed(p)' \subseteq Agreed(p) \cup {f}
    BY <1>1, <2>2, <2>3, FilesAssumption DEF Agreed, Files
  <2>5. ASSUME ~touched', NEW g \in Agreed(p)' PROVE w.tree[g] = desired[g]
    BY <2>1, <2>3, <2>4, <2>5 DEF IsolationInv, TransactionIsolated
  <2> QED  BY <1>1, <2>1, <2>2, <2>3, <2>5, HolderDecidesIsolation DEF At
<1> QED  BY <1>2, <1>3

LEMMA RewriteKeepsIsolation ==
  ASSUME Inv, Inv', IsolationInv, NEW p \in Processes, Rewrite(p)
  PROVE  IsolationInv'
<1> DEFINE f == work[p].at
           w == [work[p] EXCEPT !.at = f + 1,
                                !.pc = IF f < LastFile THEN work[p].pc ELSE "stage"]
<1>1. /\ lock = p /\ work[p] \in Works /\ work[p].pc = "rewrite" /\ f \in Files
      /\ work' = [work EXCEPT ![p] = w]
      /\ desired' = [desired EXCEPT ![f] = work[p].tree[f]]
      /\ touched' = (touched /\ f # 1) /\ lock' = lock
  BY ActorHoldsLock DEF Rewrite, At, Progress
<1>2. work'[p] = w /\ desired \in Trees
  BY <1>1 DEF Inv, TypeOK
<1>3. /\ w.tree = work[p].tree /\ w.at = f + 1
      /\ w.pc = IF f < LastFile THEN "rewrite" ELSE "stage"
  BY <1>1 DEF Works
<1>4. Agreed(p)' \subseteq {g \in Files : g <= f}
  BY <1>1, <1>2, <1>3, FilesAssumption DEF Agreed, Files
<1>5. ASSUME ~touched', NEW g \in Agreed(p)' PROVE w.tree[g] = desired'[g]
  <2>1. g \in Files /\ g <= f
    BY <1>4, <1>5
  <2>2. CASE g = f
    BY <1>1, <1>2, <1>3, <2>2 DEF Trees
  <2>3. CASE g # f
    <3>1. g < f /\ f # 1
      BY <1>1, <2>1, <2>3, FilesAssumption DEF Files
    <3>2. g \in Agreed(p) /\ ~touched
      BY <1>1, <1>5, <2>1, <3>1 DEF Agreed
    <3>3. work[p].tree[g] = desired[g]
      BY <3>2 DEF IsolationInv, TransactionIsolated
    <3> QED  BY <1>1, <1>2, <1>3, <2>1, <2>3, <3>3 DEF Trees
  <2> QED  BY <2>2, <2>3
<1> QED  BY <1>1, <1>2, <1>3, <1>5, HolderDecidesIsolation DEF At

LEMMA EditorSavesKeepsIsolation ==
  ASSUME Inv, Inv', IsolationInv, NEW p \in Processes, NEW d \in Written, EditorSaves(p, d)
  PROVE  IsolationInv'
<1>1. /\ lock' = p /\ work \in [Processes -> Works]
      /\ work' = [work EXCEPT ![p].doc = d, ![p].at = 1, ![p].pc = "check"]
  BY ActorHoldsLock DEF EditorSaves, At, Inv, TypeOK
<1>2. work'[p].pc = "check" /\ work'[p].at = 1
  BY <1>1 DEF Works
<1>3. Agreed(p)' \subseteq {f \in Files : f < 1}
  BY <1>2 DEF Agreed
<1> QED  BY <1>1, <1>2, <1>3, NoneBeforeFirst, HolderDecidesIsolation DEF At

LEMMA ResolveKeepsIsolation ==
  ASSUME Inv, Inv', IsolationInv, NEW p \in Processes, Resolve(p)
  PROVE  IsolationInv'
<1>1. lock = p /\ work[p] \in Works /\ work[p].pc = "resolve" /\ work[p].at = 1
  BY ActorHoldsLock DEF Resolve, At, IsolationInv
<1>2. CASE Finish(p)
  BY <1>2, FinishKeepsIsolation
<1>3. CASE ~Finish(p)
  <2>1. lock' = p /\ \E t : work' = [work EXCEPT ![p].tree = t, ![p].pc = "rewrite"]
    BY <1>1, <1>3 DEF Resolve
  <2>2. work'[p].pc = "rewrite" /\ work'[p].at = 1
    BY <1>1, <2>1 DEF Inv, TypeOK, Works
  <2>3. Agreed(p)' \subseteq {f \in Files : f < 1}
    BY <2>2 DEF Agreed
  <2> QED  BY <2>1, <2>2, <2>3, NoneBeforeFirst, HolderDecidesIsolation DEF At
<1> QED  BY <1>2, <1>3

\* The steps between which the documents are all read, written or given up.
LEMMA GoOnKeepsIsolation ==
  ASSUME Inv, Inv', IsolationInv, NEW p \in Processes,
         \/ ReadOriginal(p) \/ Plan(p) \/ StageFiles(p) \/ CommitFiles(p)
         \/ Install(p) \/ Native(p)
  PROVE  IsolationInv'
<1>1. /\ lock = p /\ work[p] \in Works /\ work \in [Processes -> Works]
      /\ work[p].pc \in {"original", "plan", "stage", "commit", "install", "native"}
      /\ desired' = desired
  BY ActorHoldsLock DEF ReadOriginal, Plan, StageFiles, CommitFiles, Install, Native,
                        At, Inv, TypeOK
<1>2. CASE Finish(p)
  BY <1>2, FinishKeepsIsolation
<1>3. CASE ~Finish(p)
  <2>1. touched' = touched /\ lock' = p
    BY <1>1, <1>3 DEF ReadOriginal, Plan, StageFiles, CommitFiles, Install, Native
  <2>2. work'[p].tree = work[p].tree /\ work'[p].pc # "resolve"
    <3>1. CASE ReadOriginal(p)
      BY <1>1, <1>3, <3>1 DEF ReadOriginal, Works
    <3>2. CASE Native(p)
      BY <1>1, <3>2 DEF Native
    <3>3. CASE Plan(p) \/ StageFiles(p) \/ CommitFiles(p) \/ Install(p)
      <4>1. PICK step \in {"stage", "commit", "install", "native"} : GoOn(p, step)
        BY <1>3, <3>3 DEF Plan, StageFiles, CommitFiles, Install
      <4>2. step \in Steps /\ step # "resolve"
        BY <4>1 DEF Steps
      <4> QED  BY <1>1, <4>1, <4>2 DEF GoOn, Works
    <3> QED  BY <3>1, <3>2, <3>3
  <2>3. Agreed(p) = Files
    BY <1>1 DEF Agreed
  <2> QED  BY <1>1, <2>1, <2>2, <2>3, SameViewKeepsIsolation DEF At
<1> QED  BY <1>2, <1>3

LEMMA OthersKeepIsolation ==
  ASSUME Inv, Inv', IsolationInv, UNCHANGED <<lock, work>>,
         UNCHANGED <<desired, touched>> \/ touched' = (lock # Nobody)
  PROVE  IsolationInv'
<1>1. CASE UNCHANGED <<desired, touched>>
  BY <1>1 DEF IsolationInv, TransactionIsolated, Agreed, At
<1>2. CASE touched' = (lock # Nobody)
  <2>1. CASE lock = Nobody
    <3>1. \A q \in Processes : work'[q].pc = "idle"
      BY <2>1, NetworkStateAssumption DEF Inv, LockHeld, At
    <3> QED  BY <3>1 DEF IsolationInv, TransactionIsolated, Agreed, At
  <2>2. CASE lock # Nobody
    BY <1>2, <2>2 DEF IsolationInv, TransactionIsolated, At
  <2> QED  BY <2>1, <2>2
<1> QED  BY <1>1, <1>2

LEMMA StepKeepsIsolation ==
  ASSUME Inv, IsolationInv, [Next]_vars
  PROVE  IsolationInv'
<1>0. Inv'
  BY StepKeepsInv
<1>1. ASSUME NEW p \in Processes, Proceed(p) PROVE IsolationInv'
  <2>1. CASE Replace(p) \/ NativeBreaks(p) \/ RecordSuccess(p) \/ RecordFailure(p)
    BY <1>0, <2>1, FinishKeepsIsolation DEF Replace, NativeBreaks, RecordSuccess, RecordFailure
  <2> QED  BY <1>0, <1>1, <2>1, ReadFileKeepsIsolation, CheckKeepsIsolation,
              ResolveKeepsIsolation, RewriteKeepsIsolation, GoOnKeepsIsolation DEF Proceed
<1>2. ASSUME NEW p \in Processes, EditorGivesUp(p) \/ End(p) PROVE IsolationInv'
  BY <1>0, <1>2, FinishKeepsIsolation DEF EditorGivesUp, End
<1>3. ASSUME NEW f \in Files, NEW d \in Written \cup {Absent}, Outside(f, d)
      PROVE  IsolationInv'
  BY <1>0, <1>3, OthersKeepIsolation DEF Outside
<1>4. ASSUME NEW a \in ArtifactNames, NEW c \in Contents \cup {Absent}, DriftFile(a, c)
      PROVE  IsolationInv'
  BY <1>0, <1>4, OthersKeepIsolation DEF DriftFile
<1>5. CASE UNCHANGED vars
  BY <1>0, <1>5, OthersKeepIsolation DEF vars
<1> QED  BY <1>0, <1>1, <1>2, <1>3, <1>4, <1>5, EnterKeepsIsolation,
            EditorSavesKeepsIsolation DEF Next

LEMMA IsolationInvInit == ASSUME Init PROVE IsolationInv
  BY AllIdleIsIsolated, IdleIsWork DEF Init, At

(* While an operation runs no other operation changes the documents it has *)
(* read, checked or written, for every number of processes and documents   *)
(* and wherever processes die: only a writer without the lock does         *)
(* (state_lock around edit, apply and rollback).                           *)
THEOREM OperationsAreIsolated == Spec => []TransactionIsolated
<1>1. Init => Inv /\ IsolationInv
  BY InvInit, IsolationInvInit
<1>2. Inv /\ IsolationInv /\ [Next]_vars => (Inv /\ IsolationInv)'
  BY StepKeepsInv, StepKeepsIsolation
<1>3. IsolationInv => TransactionIsolated
  BY DEF IsolationInv
<1> QED  BY <1>1, <1>2, <1>3, PTL DEF Spec

(* ------------------------ what a rollback restores --------------------- *)

\* The steps of a rollback after it has read its revision.
Restoring == {"rewrite", "stage", "commit", "install", "native"}

RollbackInv ==
  \A p \in Processes :
    work[p].goal # 0 =>
      \/ At(p, "resolve")
      \/ /\ work[p].pc \in Restoring
         /\ work[p].goal \in Revisions
         /\ Intent(work[p].tree) = Intent(commits[work[p].goal])

\* How an operation that goes on can have got where it is.
GoesOn(p) ==
  /\ work[p].pc \in Restoring => work'[p].pc \in Restoring /\ work'[p].tree = work[p].tree
  /\ \/ work'[p].goal = 0
     \/ At(p, "resolve")'
     \/ Resolve(p)
     \/ ~At(p, "resolve") /\ work'[p].goal = work[p].goal

\* A free lock is taken and a lock that is held is kept or freed.
LEMMA LockPasses ==
  ASSUME Inv, [Next]_vars
  PROVE  lock' = lock \/ lock' = Nobody \/ lock = Nobody
  BY DEF Next, Proceed, BeginEdit, BeginApply, BeginRollback, Enter, ReadFile, ReadOriginal,
         EditorSaves, EditorGivesUp, Check, Replace, Plan, Resolve, Rewrite, StageFiles,
         CommitFiles, Install, Native, NativeBreaks, RecordSuccess, RecordFailure, End, Outside,
         DriftFile, Finish, vars

LEMMA BeginGoesOn ==
  ASSUME Inv, NEW p \in Processes,
         \/ \E f \in Files : BeginEdit(p, f)
         \/ BeginApply(p)
         \/ \E r \in Revisions : BeginRollback(p, r)
  PROVE  GoesOn(p)
<1>1. PICK w \in {[Idle EXCEPT !.pc = "baseline", !.file = f] : f \in Files}
                 \cup {[Idle EXCEPT !.pc = "load"]}
                 \cup {[Idle EXCEPT !.pc = "resolve", !.goal = r] : r \in Revisions} :
        Enter(p, w)
  BY DEF BeginEdit, BeginApply, BeginRollback
<1>2. w.pc = "resolve" \/ w.goal = 0
  BY <1>1 DEF Idle
<1>3. work'[p] = w /\ work[p].pc = "idle"
  BY <1>1 DEF Enter, At, Inv, TypeOK
<1> QED  BY <1>2, <1>3 DEF GoesOn, At, Restoring

LEMMA OwnStepGoesOn ==
  ASSUME Inv, NEW p \in Processes,
         Proceed(p) \/ EditorGivesUp(p) \/ End(p) \/ \E d \in Written : EditorSaves(p, d)
  PROVE  GoesOn(p) \/ lock' = Nobody
<1>0. work \in [Processes -> Works] /\ work[p] \in Works
  BY DEF Inv, TypeOK
<1>1. CASE Finish(p)
  BY <1>1 DEF Finish
<1>2. CASE ReadFile(p)
  <2> DEFINE f == work[p].at
             next == IF f < LastFile THEN work[p].pc
                     ELSE IF At(p, "load") THEN "plan" ELSE "original"
             t == [work[p].tree EXCEPT ![f] = desired[f]]
  <2>1. work[p].pc \in {"baseline", "load"}
    BY <1>2 DEF ReadFile, At
  <2>2. work' = [work EXCEPT ![p] = [work[p] EXCEPT !.tree = t, !.at = f + 1, !.pc = next]]
    BY <1>0, <1>2 DEF ReadFile, At, Works
  <2> HIDE DEF f, next, t
  <2>3. work'[p].goal = work[p].goal
    BY <1>0, <2>2 DEF Works
  <2> QED  BY <2>1, <2>3 DEF GoesOn, Restoring, At
<1>3. CASE ~Finish(p) /\ (ReadOriginal(p) \/ Check(p))
  <2>1. CASE ReadOriginal(p)
    <3>1. PICK d : work' = [work EXCEPT ![p].doc = d, ![p].pc = "editor"]
      BY <1>3, <2>1 DEF ReadOriginal
    <3>2. work'[p].goal = work[p].goal /\ work[p].pc = "original"
      BY <1>0, <2>1, <3>1 DEF ReadOriginal, At, Works
    <3> QED  BY <3>2 DEF GoesOn, Restoring, At
  <2>2. CASE Check(p)
    <3> DEFINE pc == IF work[p].at < LastFile THEN work[p].pc ELSE "replace"
               at == work[p].at + 1
    <3>0. work[p].pc = "check" /\ work' = [work EXCEPT ![p].at = at, ![p].pc = pc]
      BY <1>3, <2>2 DEF Check, At
    <3> HIDE DEF pc, at
    <3>1. work'[p].goal = work[p].goal /\ work[p].pc = "check"
      BY <1>0, <3>0 DEF Works
    <3> QED  BY <3>1 DEF GoesOn, Restoring, At
  <2> QED  BY <1>3, <2>1, <2>2
<1>4. CASE \E d \in Written : EditorSaves(p, d)
  <2>1. PICK d : /\ work' = [work EXCEPT ![p].doc = d, ![p].at = 1, ![p].pc = "check"]
                 /\ work[p].pc = "editor"
    BY <1>4 DEF EditorSaves, At
  <2>2. work'[p].goal = work[p].goal
    BY <1>0, <2>1 DEF Works
  <2> QED  BY <2>1, <2>2 DEF GoesOn, Restoring, At
<1>5. CASE Rewrite(p)
  <2>1. /\ work'[p].goal = work[p].goal /\ work'[p].tree = work[p].tree
        /\ work[p].pc = "rewrite" /\ work'[p].pc \in {"rewrite", "stage"}
    BY <1>0, <1>5 DEF Rewrite, At, Works
  <2> QED  BY <2>1 DEF GoesOn, Restoring, At
<1>6. CASE ~Finish(p) /\ (Plan(p) \/ StageFiles(p) \/ CommitFiles(p) \/ Install(p))
  <2>1. PICK step \in {"stage", "commit", "install", "native"} : GoOn(p, step)
    BY <1>6 DEF Plan, StageFiles, CommitFiles, Install
  <2>2. /\ work'[p].goal = work[p].goal /\ work'[p].tree = work[p].tree
        /\ work'[p].pc = step /\ step \in Restoring /\ work[p].pc # "resolve"
    BY <1>0, <1>6, <2>1 DEF GoOn, Works, Restoring, Plan, StageFiles, CommitFiles, Install, At
  <2> QED  BY <2>2 DEF GoesOn, At
<1>7. CASE Native(p)
  BY <1>7 DEF Native, GoesOn, At
<1>8. CASE Resolve(p)
  BY <1>8 DEF Resolve, GoesOn, At, Restoring
<1> QED  BY <1>1, <1>2, <1>3, <1>4, <1>5, <1>6, <1>7, <1>8
         DEF Proceed, EditorGivesUp, End, Replace, NativeBreaks, RecordSuccess, RecordFailure

\* The revision a rollback has read means what its documents mean.
LEMMA ResolveKeepsMeaning ==
  ASSUME Inv, NEW p \in Processes, Resolve(p), lock' = p
  PROVE  /\ work'[p].pc = "rewrite" /\ work'[p].goal = work[p].goal
         /\ work[p].goal \in Revisions /\ commits' = commits
         /\ Intent(work'[p].tree) = Intent(commits[work[p].goal])
<1> DEFINE t == commits[work[p].goal]
           files == [f \in Files |-> IF t[f] = Absent THEN Absent ELSE ReadBack(t[f])]
           tree == [f \in Files |-> IF files[f] = Absent THEN Absent
                                    ELSE WithHeader(files[f])]
<1>1. /\ work[p] \in Works /\ work[p].goal \in Revisions /\ commits' = commits
      /\ commits \in Seq(Trees) /\ p # Nobody
  BY ActorHoldsLock DEF Resolve, At, Progress, Inv, TypeOK, HistoryTypeOK
<1>2. work' = [work EXCEPT ![p].tree = tree, ![p].pc = "rewrite"]
  BY <1>1 DEF Resolve, Finish
<1>3. t \in Trees
  BY <1>1, ElementOfSeq DEF Revisions
<1> HIDE DEF t
<1>4. Intent(tree) = Intent(t)
  BY <1>3, ReadBackMeaning
<1> HIDE DEF tree, files
<1>5. work'[p].tree = tree /\ work'[p].pc = "rewrite" /\ work'[p].goal = work[p].goal
  BY <1>1, <1>2 DEF Inv, TypeOK, Works
<1> QED  BY <1>1, <1>4, <1>5 DEF t

\* Of all operations a step treats one, and ends it or goes on with it.
LEMMA StepOfOne ==
  ASSUME Inv, [Next]_vars
  PROVE  \/ UNCHANGED work
         \/ \E p \in Processes :
              /\ \/ work'[p] = Idle
                 \/ GoesOn(p) /\ lock' = p
              /\ \A q \in Processes : q # p => work'[q] = work[q]
<1>0. work \in [Processes -> Works]
  BY DEF Inv, TypeOK
<1>1. ASSUME NEW p \in Processes, Finish(p)
      PROVE  work'[p] = Idle /\ \A q \in Processes : q # p => work'[q] = work[q]
  BY <1>0, <1>1 DEF Finish
<1>2. ASSUME NEW p \in Processes,
             \/ \E f \in Files : BeginEdit(p, f)
             \/ BeginApply(p)
             \/ \E r \in Revisions : BeginRollback(p, r)
      PROVE  /\ GoesOn(p) /\ lock' = p
             /\ \A q \in Processes : q # p => work'[q] = work[q]
  <2>1. lock' = p /\ \E w : work' = [work EXCEPT ![p] = w]
    BY <1>2 DEF BeginEdit, BeginApply, BeginRollback, Enter
  <2> QED  BY <1>0, <1>2, <2>1, BeginGoesOn
<1>3. ASSUME NEW p \in Processes,
             Proceed(p) \/ EditorGivesUp(p) \/ End(p) \/ \E d \in Written : EditorSaves(p, d)
      PROVE  \/ Finish(p)
             \/ /\ GoesOn(p) /\ lock' = p
                /\ \A q \in Processes : q # p => work'[q] = work[q]
  <2> SUFFICES ASSUME ~Finish(p)
               PROVE  /\ GoesOn(p) /\ lock' = p
                      /\ \A q \in Processes : q # p => work'[q] = work[q]
    OBVIOUS
  <2>1. lock = p /\ p # Nobody
    BY <1>3, ActorHoldsLock
       DEF Proceed, EditorGivesUp, End, EditorSaves, ReadFile, ReadOriginal, Check, Replace,
           Plan, Resolve, Rewrite, StageFiles, CommitFiles, Install, Native, NativeBreaks,
           RecordSuccess, RecordFailure, At
  <2>2. lock' = p
    BY <1>3, <2>1
       DEF Proceed, EditorGivesUp, End, EditorSaves, ReadFile, ReadOriginal, Check, Replace,
           Plan, Resolve, Rewrite, StageFiles, CommitFiles, Install, Native, NativeBreaks,
           RecordSuccess, RecordFailure
  <2>3. \A q \in Processes : q # p => work'[q] = work[q]
    <3>1. CASE ReadFile(p) \/ ReadOriginal(p) \/ Check(p)
               \/ \E d \in Written : EditorSaves(p, d)
      BY <1>0, <3>1 DEF ReadFile, ReadOriginal, Check, Finish, EditorSaves
    <3>2. CASE Plan(p) \/ Resolve(p) \/ Rewrite(p) \/ StageFiles(p) \/ CommitFiles(p)
               \/ Install(p) \/ Native(p)
      BY <1>0, <3>2 DEF Plan, Resolve, Rewrite, StageFiles, CommitFiles, Install, Native,
                        Finish, GoOn
    <3> QED  BY <1>3, <3>1, <3>2 DEF Proceed, EditorGivesUp, End, Replace, NativeBreaks,
                                     RecordSuccess, RecordFailure
  <2> QED  BY <1>3, <2>1, <2>2, <2>3, OwnStepGoesOn
<1>4. CASE \/ UNCHANGED vars
           \/ \E f \in Files, d \in Written \cup {Absent} : Outside(f, d)
           \/ \E a \in ArtifactNames, c \in Contents \cup {Absent} : DriftFile(a, c)
  BY <1>4 DEF vars, Outside, DriftFile
<1> QED  BY <1>1, <1>2, <1>3, <1>4 DEF Next

LEMMA StepKeepsRollbackInv ==
  ASSUME Inv, RollbackInv, [Next]_vars
  PROVE  RollbackInv'
<1>0. [HistoryNext]_historyVars /\ CoverInv
  BY StepProjects DEF Inv
<1>1. ASSUME NEW p \in Processes, work[p].goal # 0, ~At(p, "resolve")
      PROVE  /\ work[p].pc \in Restoring /\ work[p].goal \in Revisions'
             /\ Intent(work[p].tree) = Intent(commits'[work[p].goal])
  <2>1. /\ work[p].pc \in Restoring /\ work[p].goal \in Revisions
        /\ Intent(work[p].tree) = Intent(commits[work[p].goal])
    BY <1>1 DEF RollbackInv
  <2>2. work[p].goal \in Revisions' /\ commits'[work[p].goal] = commits[work[p].goal]
    BY <1>0, <2>1, HistoryKeepsRevisions
  <2> QED  BY <2>1, <2>2
<1> SUFFICES ASSUME NEW p \in Processes, work'[p].goal # 0, work'[p].pc # "resolve"
             PROVE  /\ work'[p].pc \in Restoring
                    /\ work'[p].goal \in Revisions'
                    /\ Intent(work'[p].tree) = Intent(commits'[work'[p].goal])
  BY DEF RollbackInv, At
<1>2. CASE work'[p] = work[p]
  BY <1>1, <1>2 DEF At
<1>3. CASE work'[p] # work[p]
  <2>1. GoesOn(p) /\ lock' = p
    <3>1. ~UNCHANGED work
      BY <1>3
    <3>2. PICK q \in Processes :
            /\ \/ work'[q] = Idle
               \/ GoesOn(q) /\ lock' = q
            /\ \A r \in Processes : r # q => work'[r] = work[r]
      BY <3>1, StepOfOne
    <3>3. q = p
      BY <1>3, <3>2
    <3> QED  BY <3>2, <3>3 DEF Idle
  <2>2. CASE Resolve(p)
    <3>1. /\ work'[p].pc = "rewrite" /\ work'[p].goal = work[p].goal
          /\ work[p].goal \in Revisions /\ commits' = commits
          /\ Intent(work'[p].tree) = Intent(commits[work[p].goal])
      BY <2>1, <2>2, ResolveKeepsMeaning
    <3> QED  BY <3>1 DEF Restoring, Revisions
  <2>3. CASE ~Resolve(p)
    <3>1. /\ work'[p].goal = work[p].goal /\ ~At(p, "resolve")
          /\ work[p].pc \in Restoring => work'[p].pc \in Restoring
                                          /\ work'[p].tree = work[p].tree
      BY <2>1, <2>3 DEF GoesOn, At
    <3> QED  BY <1>1, <3>1
  <2> QED  BY <2>2, <2>3
<1> QED  BY <1>2, <1>3

LEMMA RollbackInvInit == ASSUME Init PROVE RollbackInv
  BY DEF Init, Idle, RollbackInv

\* What nobody touched since it was rewritten is on disk as it was read.
LEMMA RestoredFromGoal ==
  ASSUME Inv, IsolationInv, RollbackInv
  PROVE  RollbackRestoresIntent
<1> SUFFICES ASSUME ~touched, NEW p \in Processes, work[p].goal # 0,
                    work[p].pc \in {"stage", "commit", "install", "native"}
             PROVE  Intent(desired) = Intent(commits[work[p].goal])
  BY DEF RollbackRestoresIntent
<1>1. Intent(work[p].tree) = Intent(commits[work[p].goal])
  BY DEF RollbackInv, At
<1>2. Agreed(p) = Files
  BY DEF Agreed
<1>3. \A f \in Files : work[p].tree[f] = desired[f]
  BY <1>2 DEF IsolationInv, TransactionIsolated
<1>4. Intent(desired) = Intent(work[p].tree)
  BY <1>3 DEF Intent
<1> QED  BY <1>1, <1>4

(* From its last rewritten document on a rollback has the desired state    *)
(* mean what the requested revision means, whatever was committed since,   *)
(* with or without headers and whatever its line ends                      *)
(* (NetworkStateService.rollback).                                         *)
THEOREM RollbacksRestore == Spec => []RollbackRestoresIntent
<1>1. Init => Inv /\ IsolationInv /\ RollbackInv
  BY InvInit, IsolationInvInit, RollbackInvInit
<1>2. Inv /\ IsolationInv /\ RollbackInv /\ [Next]_vars
        => (Inv /\ IsolationInv /\ RollbackInv)'
  BY StepKeepsInv, StepKeepsIsolation, StepKeepsRollbackInv
<1>3. Inv /\ IsolationInv /\ RollbackInv => RollbackRestoresIntent
  BY RestoredFromGoal
<1> QED  BY <1>1, <1>2, <1>3, PTL DEF Spec

(* --------------------- every revision can be applied -------------------- *)

\* Only CommitFiles adds a revision: one for which the documents that were
\* planned may have been given.
LEMMA RevisionIsPlanned ==
  ASSUME Inv, ExactInv, NEW p \in Processes, CommitFiles(p)
  PROVE  /\ index \in Planned
         /\ commits' = commits \/ commits' = Append(commits, index)
<1>1. At(p, "commit") /\ Progress(p) /\ Commit
  BY ActorHoldsLock DEF CommitFiles, At
<1>2. Staged /\ snapshot.files = work[p].tree /\ PlanSucceeds(work[p].tree)
  BY <1>1 DEF Progress, At
<1>3. FilesFor(index) # {}
  BY <1>2, StagedWasGiven DEF FilesFor
<1>4. index \in Trees
  BY DEF Inv, TypeOK, HistoryTypeOK
<1> QED  BY <1>1, <1>3, <1>4 DEF Commit, Planned

LEMMA OthersCommitNothing ==
  ASSUME [Next]_vars, ~\E p \in Processes : CommitFiles(p)
  PROVE  commits' = commits
  BY DEF Next, Proceed, BeginEdit, BeginApply, BeginRollback, Enter, ReadFile, ReadOriginal,
         EditorSaves, EditorGivesUp, Check, Replace, Plan, Resolve, Rewrite, StageFiles, Stage,
         Install, Native, NativeBreaks, RecordSuccess, RecordFailure, End, Outside,
         DriftFile, vars

PlannedInv == \A r \in Revisions : FilesFor(commits[r]) # {}

LEMMA StepKeepsPlannedInv ==
  ASSUME Inv, ExactInv, PlannedInv, [Next]_vars
  PROVE  PlannedInv'
<1>1. CASE commits' = commits
  BY <1>1 DEF PlannedInv, Revisions, FilesFor, GivenFor, PlanSucceeds, Candidate
<1>2. CASE commits' # commits
  <2>1. PICK p \in Processes : CommitFiles(p)
    BY <1>2, OthersCommitNothing
  <2>2. FilesFor(index) # {} /\ commits' = Append(commits, index)
    BY <1>2, <2>1, RevisionIsPlanned DEF Planned
  <2>3. index \in Trees /\ commits \in Seq(Trees)
    BY DEF Inv, TypeOK, HistoryTypeOK
  <2>4. /\ Len(commits) \in Nat
        /\ Len(commits') = Len(commits) + 1
        /\ commits'[Len(commits) + 1] = index
        /\ \A i \in 1 .. Len(commits) : commits'[i] = commits[i]
    BY <2>2, <2>3, AppendProperties, LenProperties
  <2> SUFFICES ASSUME NEW r \in 1 .. Len(commits') PROVE FilesFor(commits'[r]) # {}
    BY DEF PlannedInv, Revisions, FilesFor, GivenFor, PlanSucceeds, Candidate
  <2>5. CASE r \in 1 .. Len(commits)
    BY <2>4, <2>5 DEF PlannedInv, Revisions
  <2>6. CASE r = Len(commits) + 1
    BY <2>2, <2>4, <2>6
  <2> QED  BY <2>4, <2>5, <2>6
<1> QED  BY <1>1, <1>2

LEMMA PlannedInvInit == ASSUME Init PROVE PlannedInv
  BY EmptySeq DEF Init, HistoryInit, PlannedInv, Revisions

(* --------------------------- what is installed ------------------------- *)

\* A call begins only when an operation installs the files of its documents.
LEMMA CallsBegin ==
  ASSUME [Next]_vars, native = None, native' # None
  PROVE  \E p \in Processes : Install(p) /\ Begin(Candidate(work[p].tree))
<1>1. ~\E p \in Processes : Finish(p)
  BY DEF Finish
<1>2. ~CallStep
  BY DEF CallStep, ReadPrevious, AllRead, AllWritten, AllPruned, Reload, Refuse, AllCleared, AllRestored, ReloadAgain,
         Write, Prune, Clear, Restore, InPhase
<1> QED  BY <1>1, <1>2
         DEF Next, Proceed, BeginEdit, BeginApply, BeginRollback, Enter, ReadFile, ReadOriginal,
         EditorSaves, EditorGivesUp, Check, Replace, Plan, Resolve, Rewrite, StageFiles,
         CommitFiles, Install, Native, NativeBreaks, RecordSuccess, RecordFailure, End, Outside,
         DriftFile, Drift, vars

\* What the call installs are the files of the documents of its operation.
CandidateInv ==
  \A p \in Processes : At(p, "native") => native.candidate = Candidate(work[p].tree)

LEMMA CallKeepsItsFiles ==
  ASSUME NetworkdInv, [NetworkdNext]_networkdVars, native # None, native' # None
  PROVE  /\ native'.candidate = native.candidate
         /\ \A a \in ArtifactNames : native'.previous[a] \in {native.previous[a], networkd[a]}
<1> DEFINE Kept == native'.candidate = native.candidate
                     /\ native'.previous = native.previous
<1>1. NetworkdTypeOK /\ native \in Calls
  BY DEF NetworkdInv, NetworkdTypeOK
<1>2. ASSUME NEW phase, NEW todo, GoTo(phase, todo) PROVE Kept
  BY <1>1, <1>2 DEF GoTo, Calls
<1>3. ASSUME NEW a, Done(a) PROVE Kept
  BY <1>1, <1>3 DEF Done, Calls
<1>4. ASSUME NEW b \in ArtifactNames, ReadPrevious(b)
      PROVE  /\ native'.candidate = native.candidate
             /\ \A a \in ArtifactNames :
                  native'.previous[a] \in {native.previous[a], networkd[a]}
  BY <1>1, <1>4, ReadEffect, CallsAreCalls DEF Artifacts
<1>5. CASE CallStep /\ ~\E a \in ArtifactNames : ReadPrevious(a)
  BY <1>2, <1>3, <1>5 DEF CallStep, AllRead, AllWritten, AllPruned, Reload, Refuse,
     AllCleared, AllRestored, ReloadAgain, Write, Prune, Clear, Restore
<1>6. ASSUME NEW a \in ArtifactNames, NEW c \in Contents \cup {Absent}, Drift(a, c)
      PROVE  Kept
  BY <1>1, <1>6 DEF Drift, Calls
<1> QED  BY <1>4, <1>5, <1>6 DEF NetworkdNext, Begin, Return, Abandon, networkdVars

LEMMA StepKeepsCandidateInv ==
  ASSUME Inv, CandidateInv, [Next]_vars
  PROVE  CandidateInv'
<1>0. Inv' /\ [NetworkdNext]_networkdVars /\ NetworkdInv
  BY StepKeepsInv, StepProjects DEF Inv
<1> SUFFICES ASSUME NEW p \in Processes, At(p, "native")'
             PROVE  native'.candidate = Candidate(work'[p].tree)
  BY DEF CandidateInv, At, Candidate
<1>1. lock' = p /\ native' # None /\ p # Nobody /\ work'[p] # Idle
  <2>1. ~At(p, "idle")' /\ Idle.pc = "idle"
    BY IdleIsWork DEF At
  <2> QED  BY <1>0, <2>1, NetworkStateAssumption DEF Inv, LockHeld, Progress, At
<1>2. CASE native = None
  <2>1. PICK q \in Processes : Install(q) /\ Begin(Candidate(work[q].tree))
    BY <1>1, <1>2, CallsBegin
  <2>2. lock = q /\ q # Nobody /\ work[q] \in Works /\ work[q].pc = "install"
    BY <2>1, ActorHoldsLock DEF Install, At
  <2>3. q = p /\ GoOn(p, "native")
    BY <1>1, <2>1, <2>2 DEF Install, Finish
  <2>4. work'[p].tree = work[p].tree
    BY <2>2, <2>3 DEF GoOn, Works, Inv, TypeOK
  <2>5. native'.candidate = Candidate(work[p].tree)
    BY <2>1, <2>3 DEF Begin
  <2> QED  BY <2>4, <2>5
<1>3. CASE native # None
  <2>1. lock = p
    BY <1>1, <1>3, LockPasses DEF Inv
  <2>2. At(p, "native")
    BY <1>3, <2>1 DEF Inv, Progress, At
  <2>3. work'[p].tree = work[p].tree
    <3>1. CASE UNCHANGED work
      BY <3>1
    <3>2. CASE ~UNCHANGED work
      <4>1. PICK q \in Processes :
              /\ \/ work'[q] = Idle
                 \/ GoesOn(q) /\ lock' = q
              /\ \A r \in Processes : r # q => work'[r] = work[r]
        BY <3>2, StepOfOne
      <4>2. CASE q = p
        BY <1>1, <2>2, <4>1, <4>2 DEF GoesOn, Restoring, At
      <4> QED  BY <4>1, <4>2
    <3> QED  BY <3>1, <3>2
  <2>4. native'.candidate = native.candidate
    BY <1>0, <1>1, <1>3, CallKeepsItsFiles
  <2> QED  BY <2>2, <2>3, <2>4 DEF CandidateInv
<1> QED  BY <1>2, <1>3

LEMMA CandidateInvInit == ASSUME Init PROVE CandidateInv
  BY IdleIsWork DEF Init, CandidateInv, At

(* ----------------------- what status says afterwards ------------------- *)

\* When Git gives documents back as they were stored, HEAD is the revision of
\* the documents it holds.
LEMMA HeadMatches ==
  ASSUME \A d \in Docs : AsText[d] = d, commits \in Seq(Trees), commits # <<>>,
         NEW t \in Trees, \A f \in Files : t[f] = HeadTree[f]
  PROVE  RevisionFor(t) = Len(commits) /\ Len(commits) # 0
<1>1. HeadTree = commits[Len(commits)]
  BY DEF HeadTree
<1>2. ASSUME NEW d \in Docs PROVE ReadBack(d) = d
  BY <1>2 DEF ReadBack
<1>3. Present(commits[Len(commits)]) = Present(t)
  BY <1>1 DEF Present
<1>4. ASSUME NEW f \in Present(t) PROVE ReadBack(commits[Len(commits)][f]) = t[f]
  <2>1. f \in Files /\ t[f] # Absent
    BY DEF Present
  <2>2. t[f] \in Docs /\ commits[Len(commits)][f] = t[f]
    BY <1>1, <2>1 DEF Trees
  <2> QED  BY <1>2, <2>2
<1>5. Matches(Len(commits), t)
  BY <1>3, <1>4 DEF Matches
<1> QED  BY <1>5, EmptySeq, LenProperties DEF RevisionFor

\* At the end of an operation nobody stepped in, the documents on disk may have
\* been given for HEAD, and are HEAD's when no commit can be lost.
LEMMA EndsGiven ==
  ASSUME Inv, ExactInv, IsolationInv, NEW p \in Processes, At(p, "native"), ~touched
  PROVE  /\ desired = work[p].tree /\ desired \in GivenFor(HeadTree)
         /\ ~CommitsCanBeLost => desired = HeadTree
<1>1. Progress(p) /\ work[p] \in Works /\ desired \in Trees
  BY ActorHoldsLock DEF At, Inv, TypeOK
<1>2. Answered /\ snapshot.files = work[p].tree /\ work[p].tree \in Trees
  BY <1>1 DEF Progress, At, Works
<1>3. \A f \in Files : desired[f] = work[p].tree[f]
  BY DEF IsolationInv, TransactionIsolated, Agreed, At
<1>4. desired = work[p].tree
  BY <1>1, <1>2, <1>3 DEF Trees
<1>5. ~CommitsCanBeLost => HeadTree = snapshot.files
  BY <1>2 DEF ExactInv, Answered
<1> QED  BY <1>2, <1>4, <1>5, AnswerWasGiven, AnswerIsHead

\* Documents that are HEAD's are those of the revision snapshot() answered with.
LEMMA EndsAtHead ==
  ASSUME \A d \in Docs : AsText[d] = d, Inv, ExactInv,
         NEW p \in Processes, At(p, "native"), desired = HeadTree
  PROVE  RevisionFor(desired) = snapshot.revision /\ snapshot.revision # 0
<1>1. Progress(p)
  BY ActorHoldsLock DEF At
<1>2. Answered
  BY <1>1 DEF Progress, At
<1>3. snapshot.revision = Len(commits) /\ snapshot.revision # 0
  BY <1>2 DEF ExactInv, CoverInv, Answered
<1>4. commits \in Seq(Trees) /\ desired \in Trees
  BY DEF Inv, TypeOK, HistoryTypeOK
<1>5. commits # <<>>
  BY <1>3, EmptySeq
<1> QED  BY <1>3, <1>4, <1>5, HeadMatches

\* A call that succeeded undisturbed has left its candidate.
LEMMA SucceededHolds ==
  ASSUME NetworkdInv, InstallingInv, InPhase("succeeded"), ~native.meddled
  PROVE  networkd = native.candidate
<1>1. native # None /\ NetworkdTypeOK /\ native.phase = "succeeded"
  BY DEF InPhase, NetworkdInv
<1>2. native.candidate \in Artifacts /\ networkd \in Artifacts
  BY <1>1, CallsAreCalls DEF NetworkdTypeOK
<1>3. \A a \in ArtifactNames : networkd[a] = native.candidate[a]
  BY <1>1 DEF InstallingInv, Installing, FileIn
<1> QED  BY <1>2, <1>3, ArtifactsAgree

LEMMA FilesAreInstalled == ASSUME FilesInv PROVE InstallingInv
  BY DEF FilesInv, InstallingInv, Installing

LEMMA FailedHolds ==
  ASSUME NetworkdInv, FilesInv, InPhase("failed"), ~native.meddled
  PROVE  networkd = native.previous
<1>1. native # None /\ NetworkdTypeOK /\ native.phase = "failed"
  BY DEF InPhase, NetworkdInv
<1>2. native.previous \in Artifacts /\ networkd \in Artifacts
  BY <1>1, CallsAreCalls DEF NetworkdTypeOK
<1>3. \A a \in ArtifactNames : networkd[a] = native.previous[a]
  BY <1>1 DEF FilesInv, FileIn
<1> QED  BY <1>2, <1>3, ArtifactsAgree

\* What recording the success makes status say.
LEMMA RecordedIsInSync ==
  ASSUME \A d \in Docs : AsText[d] = d,
         Inv, Inv', ExactInv, InstallingInv, CandidateInv,
         NEW p \in Processes, RecordSuccess(p), desired = HeadTree, ~native.meddled
  PROVE  Status(desired)' = "in sync"
<1>1. /\ At(p, "native") /\ InPhase("succeeded")
      /\ applied' = [revision |-> snapshot.revision, artifacts |-> Candidate(work[p].tree)]
      /\ UNCHANGED <<commits, networkd, desired>>
  BY DEF RecordSuccess
<1>2. RevisionFor(desired) = snapshot.revision /\ snapshot.revision # 0
  BY <1>1, EndsAtHead
<1>3. RevisionFor(desired)' = RevisionFor(desired)
  BY <1>1 DEF RevisionFor, Matches, Present
<1>4. networkd' = applied'.artifacts
  BY <1>1, SucceededHolds DEF CandidateInv, Inv
<1>5. applied' # None
  <2>1. Progress(p) /\ work[p] \in Works
    BY <1>1, ActorHoldsLock DEF At
  <2>2. PlanSucceeds(work[p].tree) /\ work[p].tree \in Trees /\ Answered
    BY <1>1, <2>1 DEF Progress, At, Works
  <2>3. Candidate(work[p].tree) \in Artifacts
    BY <2>2, PlannedIsSnapshot, CandidatesAreArtifacts
  <2>4. snapshot.revision \in 1 .. MaxCommits
    BY <1>2, <2>2, HistoryAssumption DEF Inv, CoverInv, HistoryTypeOK, Answered
  <2> QED  BY <1>1, <2>3, <2>4, NetworkStateAssumption
<1> QED  BY <1>1, <1>2, <1>3, <1>4, <1>5 DEF Status

\* What recording a failure leaves status to say.
LEMMA FailedIsPending ==
  ASSUME \A d \in Docs : AsText[d] = d, Inv, ExactInv,
         NEW p \in Processes, RecordFailure(p), desired = HeadTree,
         applied # None => applied.revision # snapshot.revision
  PROVE  Status(desired)' \in {"pending changes", "not yet applied"}
<1>1. At(p, "native") /\ UNCHANGED <<commits, networkd, desired, applied>>
  BY DEF RecordFailure
<1>2. RevisionFor(desired) = snapshot.revision /\ snapshot.revision # 0
  BY <1>1, EndsAtHead
<1>3. RevisionFor(desired)' = RevisionFor(desired)
  BY <1>1 DEF RevisionFor, Matches, Present
<1> QED  BY <1>1, <1>2, <1>3 DEF Status

OperationInv == Inv /\ ExactInv /\ IsolationInv /\ InstallingInv /\ CandidateInv

LEMMA StepKeepsOperationInv ==
  ASSUME OperationInv, [Next]_vars
  PROVE  OperationInv'
<1>1. /\ Inv /\ ExactInv /\ IsolationInv /\ InstallingInv /\ CandidateInv
      /\ NetworkdInv
  BY DEF OperationInv, Inv
<1>2. [HistoryNext]_historyVars /\ [NetworkdNext]_networkdVars
  BY <1>1, StepProjects
<1>3. InstallingInv'
  BY <1>1, <1>2, NetworkdStepKeepsInstallingInv
<1>4. ExactInv'
  BY <1>1, <1>2, HistoryStepKeepsExactInv
<1>5. Inv' /\ IsolationInv' /\ CandidateInv'
  BY <1>1, StepKeepsInv, StepKeepsIsolation, StepKeepsCandidateInv
<1> QED  BY <1>3, <1>4, <1>5 DEF OperationInv

LEMMA OperationInvInit == ASSUME Init PROVE OperationInv
  BY InvInit, ExactInvInit, IsolationInvInit, CandidateInvInit
     DEF Init, NetworkdInit, OperationInv, InstallingInv, Installing

LEMMA OperationInvHolds == Spec => []OperationInv
<1>1. Init => OperationInv
  BY OperationInvInit
<1>2. OperationInv /\ [Next]_vars => OperationInv'
  BY StepKeepsOperationInv
<1> QED  BY <1>1, <1>2, PTL DEF Spec

(* After a successful apply or rollback that nobody stepped in, status     *)
(* says "in sync", when no process ends between `git add' and `git commit' *)
(* and no document is changed by being read as text (NetworkStateService   *)
(* apply, rollback and status).                                            *)
THEOREM SuccessShows ==
  ASSUME ~CommitsCanBeLost, \A d \in Docs : AsText[d] = d
  PROVE  Spec => SuccessIsInSync
<1> DEFINE Succeeding == \A p \in Processes :
             RecordSuccess(p) /\ ~touched /\ ~native.meddled => Status(desired)' = "in sync"
<1>1. OperationInv /\ OperationInv' /\ [Next]_vars => [Succeeding]_vars
  BY EndsGiven, RecordedIsInSync DEF OperationInv, RecordSuccess
<1> QED  BY <1>1, OperationInvHolds, PTL DEF Spec, SuccessIsInSync

(* After a failed one of a revision other than the applied one status says *)
(* that the desired state is not in effect, under the same assumptions     *)
(* (NetworkStateService apply, rollback and status).                       *)
THEOREM FailureShows ==
  ASSUME ~CommitsCanBeLost, \A d \in Docs : AsText[d] = d
  PROVE  Spec => FailureIsPending
<1> DEFINE Failing == \A p \in Processes :
             /\ RecordFailure(p) /\ ~touched
             /\ applied # None => applied.revision # snapshot.revision
             => Status(desired)' \in {"pending changes", "not yet applied"}
<1>1. OperationInv /\ [Next]_vars => [Failing]_vars
  BY EndsGiven, FailedIsPending DEF OperationInv, RecordFailure
<1> QED  BY <1>1, OperationInvHolds, PTL DEF Spec, FailureIsPending

(* ---------------------- what remains in effect ------------------------- *)

\* A restore that nobody disturbs finds the files it listed.
ListedInv == InPhase("clear") => \A a \in native.todo : networkd[a] # Absent

\* A step of somebody other than an outside writer of the managed files.
NobodyDrifts == \A a \in ArtifactNames, c \in Contents \cup {Absent} : ~Drift(a, c)

LEMMA NetworkdStepKeepsListedInv ==
  ASSUME NobodyDrifts, NetworkdInv, ListedInv, [NetworkdNext]_networkdVars
  PROVE  ListedInv'
<1>1. networkd \in Artifacts /\ NetworkdTypeOK
  BY DEF NetworkdInv, NetworkdTypeOK
<1>2. CASE Refuse
  <2>1. native # None /\ native'.phase = "clear" /\ native'.todo = Held(networkd)
        /\ networkd' = networkd
    BY <1>1, <1>2, GoToEffect, HeldIsNames DEF Refuse, InPhase, Phases
  <2> QED  BY <2>1 DEF ListedInv, Held
<1>3. ASSUME NEW a \in ArtifactNames, Clear(a) PROVE ListedInv'
  <2>1. /\ InPhase("clear") /\ native.todo \subseteq ArtifactNames
        /\ native'.todo = native.todo \ {a} /\ networkd' = [networkd EXCEPT ![a] = Absent]
    BY <1>1, <1>3, DoneEffect, CallsAreCalls DEF Clear, InPhase
  <2> QED  BY <1>1, <2>1 DEF ListedInv, Artifacts
<1>4. ASSUME NEW a \in ArtifactNames, ReadPrevious(a) \/ Write(a) \/ Prune(a) \/ Restore(a)
      PROVE  ListedInv'
  <2>1. native'.phase = native.phase /\ native.phase # "clear"
    BY <1>1, <1>4, ReadEffect, DoneEffect DEF Write, Prune, Restore, InPhase
  <2> QED  BY <2>1 DEF ListedInv, InPhase
<1>5. CASE AllRead \/ AllWritten \/ AllPruned \/ Reload \/ AllCleared \/ AllRestored
           \/ ReloadAgain
  <2>1. PICK phase \in Phases \ {"clear"} : \E todo : GoTo(phase, todo)
    BY <1>5 DEF AllRead, AllWritten, AllPruned, Reload, AllCleared, AllRestored,
                ReloadAgain, Phases
  <2>2. native # None
    BY <1>5 DEF AllRead, AllWritten, AllPruned, Reload, AllCleared, AllRestored,
                ReloadAgain, InPhase
  <2>3. native'.phase = phase
    BY <1>1, <2>1, <2>2, CallsAreCalls DEF GoTo, Calls
  <2> QED  BY <2>1, <2>3 DEF ListedInv, InPhase
<1>6. ASSUME NEW c \in Candidates, Begin(c) PROVE ListedInv'
  BY <1>1, <1>6, BeginEffect DEF ListedInv, InPhase
<1>7. CASE Return \/ Abandon
  BY <1>7 DEF Return, Abandon, ListedInv, InPhase
<1>8. CASE UNCHANGED networkdVars
  BY <1>8 DEF networkdVars, ListedInv, InPhase
<1> QED  BY <1>2, <1>3, <1>4, <1>5, <1>6, <1>7, <1>8 DEF NetworkdNext, CallStep, NobodyDrifts

\* The files of the last success.
InEffect == IF applied = None THEN NoArtifacts ELSE applied.artifacts

(* Until a call has succeeded the files that count are those of the last   *)
(* success.                                                                *)
EffectInv ==
  /\ ~InPhase("succeeded") => Installed = InEffect
  /\ native # None => ~native.meddled

LEMMA Undisturbed ==
  ASSUME NobodyDrifts, NetworkdInv, [NetworkdNext]_networkdVars,
         native # None, ~native.meddled, native' # None
  PROVE  ~native'.meddled
<1>1. native \in Calls
  BY DEF NetworkdInv, NetworkdTypeOK
<1>2. CASE CallStep
  BY <1>1, <1>2, CallStepEffect DEF CallStep, ReadPrevious, AllRead, AllWritten, AllPruned,
     Reload, Refuse, AllCleared, AllRestored, ReloadAgain, Write, Prune, Clear, Restore, GoTo,
     Done, Calls
<1> QED  BY <1>2 DEF NetworkdNext, Begin, Return, Abandon, NobodyDrifts, networkdVars

LEMMA SuccessTakesEffect ==
  ASSUME Inv, InstallingInv, CandidateInv, EffectInv, NEW p \in Processes, RecordSuccess(p)
  PROVE  EffectInv'
<1>1. /\ At(p, "native") /\ InPhase("succeeded") /\ native' = None /\ networkd' = networkd
      /\ applied' = [revision |-> snapshot.revision, artifacts |-> Candidate(work[p].tree)]
      /\ Installed' = networkd'
  BY SeenIdleNext DEF RecordSuccess, Finish
<1>2. networkd = Candidate(work[p].tree)
  BY <1>1, SucceededHolds DEF CandidateInv, EffectInv, InPhase, Inv
<1>3. applied' # None
  <2>1. Progress(p) /\ work[p] \in Works
    BY <1>1, ActorHoldsLock DEF At
  <2>2. PlanSucceeds(work[p].tree) /\ work[p].tree \in Trees /\ Answered
    BY <1>1, <2>1 DEF Progress, At, Works
  <2>3. Candidate(work[p].tree) \in Artifacts
    BY <2>2, PlannedIsSnapshot, CandidatesAreArtifacts
  <2>4. snapshot.revision \in 1 .. MaxCommits
    BY <2>2, HistoryAssumption DEF Inv, CoverInv, HistoryTypeOK, Answered
  <2> QED  BY <1>1, <2>3, <2>4, NetworkStateAssumption
<1> QED  BY <1>1, <1>2, <1>3 DEF EffectInv, InEffect, InPhase

\* A call that ends without a success leaves what was in effect before.
LEMMA FailureChangesNothing ==
  ASSUME ListedInv, EffectInv, NEW p \in Processes,
         RecordFailure(p) \/ NativeBreaks(p)
  PROVE  EffectInv'
<1>1. /\ InPhase("failed") \/ InPhase("read")
      /\ native' = None /\ UNCHANGED <<networkd, applied>>
  BY DEF RecordFailure, NativeBreaks, Finish, Stumbles, ListedInv
<1>2. Installed = networkd
  BY <1>1 DEF Installed, Changing, Applying, InPhase
<1>3. Installed' = networkd
  BY <1>1, SeenIdleNext
<1> QED  BY <1>1, <1>2, <1>3 DEF EffectInv, InEffect, InPhase

\* While a call is under way nothing else can happen to its operation.
LEMMA OnlyTheCallGoesOn ==
  ASSUME ~ProcessesEnd, Inv, [Next]_vars, NEW p \in Processes, lock = p, At(p, "native"),
         ~\E q \in Processes : RecordSuccess(q) \/ RecordFailure(q) \/ NativeBreaks(q)
  PROVE  UNCHANGED <<lock, work>>
<1>1. ASSUME NEW q \in Processes,
             Proceed(q) \/ EditorGivesUp(q) \/ \E d \in Written : EditorSaves(q, d)
      PROVE  UNCHANGED <<lock, work>>
  <2>1. ~At(q, "idle")
    BY <1>1 DEF Proceed, EditorGivesUp, EditorSaves, ReadFile, ReadOriginal, Check, Replace,
           Plan, Resolve, Rewrite, StageFiles, CommitFiles, Install, Native, NativeBreaks,
           RecordSuccess, RecordFailure, At
  <2>2. q = p
    BY <2>1, OthersAreIdle
  <2> QED  BY <1>1, <2>2 DEF Proceed, EditorGivesUp, EditorSaves, ReadFile, ReadOriginal, Check,
           Replace, Plan, Resolve, Rewrite, StageFiles, CommitFiles, Install, Native, At
<1>2. ASSUME NEW q \in Processes,
             \/ \E f \in Files : BeginEdit(q, f)
             \/ BeginApply(q)
             \/ \E r \in Revisions : BeginRollback(q, r)
             \/ End(q)
      PROVE  FALSE
  BY <1>2, NetworkStateAssumption DEF BeginEdit, BeginApply, BeginRollback, Enter, End
<1> QED  BY <1>1, <1>2 DEF Next, Outside, DriftFile, vars

LEMMA StepKeepsEffectInv ==
  ASSUME ~CanDrift, ~ProcessesEnd, \A c \in Contents : ReadText[c] = c,
         Inv, FilesInv, ListedInv, CandidateInv, EffectInv, [Next]_vars
  PROVE  EffectInv'
<1>0. Inv' /\ [NetworkdNext]_networkdVars /\ NetworkdInv /\ NobodyDrifts
  BY StepKeepsInv, StepProjects DEF Inv, NobodyDrifts, Drift
<1>1. CASE \E p \in Processes : RecordSuccess(p) \/ RecordFailure(p) \/ NativeBreaks(p)
  BY <1>1, SuccessTakesEffect, FailureChangesNothing, FilesAreInstalled
<1>2. CASE ~\E p \in Processes : RecordSuccess(p) \/ RecordFailure(p) \/ NativeBreaks(p)
  <2>1. applied' = applied
    BY <1>2 DEF Next, Proceed, BeginEdit, BeginApply, BeginRollback, Enter, ReadFile,
       ReadOriginal, EditorSaves, EditorGivesUp, Check, Replace, Plan, Resolve, Rewrite,
       StageFiles, CommitFiles, Install, Native, End, Outside, DriftFile, vars
  <2>2. CASE native = None
    <3>1. networkd' = networkd
      <4>1. ~CallStep
        BY <2>2 DEF CallStep, ReadPrevious, AllRead, AllWritten, AllPruned, Reload, Refuse,
           AllCleared, AllRestored, ReloadAgain, Write, Prune, Clear, Restore, InPhase
      <4> QED  BY <1>0, <4>1 DEF NetworkdNext, Begin, Return, Abandon, Drift, networkdVars
    <3>2. CASE native' = None
      BY <2>1, <2>2, <3>1, <3>2, SeenIdle, SeenIdleNext DEF EffectInv, InEffect, InPhase
    <3>3. CASE native' # None
      <4>1. PICK p \in Processes : Begin(Candidate(work[p].tree))
        BY <2>2, <3>3, CallsBegin
      <4>2. native'.phase = "read" /\ native'.meddled = FALSE
        BY <4>1 DEF Begin
      <4>3. Installed' = networkd /\ Installed = networkd
        BY <2>2, <3>1, <3>3, <4>2, SeenIdle, SeenReadingNext
      <4> QED  BY <2>1, <2>2, <4>2, <4>3 DEF EffectInv, InEffect, InPhase
    <3> QED  BY <3>2, <3>3
  <2>3. CASE native # None
    <3>1. native' # None
      <4>1. PICK p \in Processes : lock = p /\ At(p, "native")
        BY <2>3 DEF Inv, Progress, TypeOK, At
      <4>2. UNCHANGED <<lock, work>>
        BY <1>2, <4>1, OnlyTheCallGoesOn
      <4>3. lock' = p /\ At(p, "native")'
        BY <4>1, <4>2 DEF At
      <4> QED  BY <1>0, <4>3 DEF Inv, Progress, At
    <3>2. native' # None => ~native'.meddled
      BY <1>0, <2>3, Undisturbed DEF EffectInv
    <3>3. CASE CallStep
      <4>1. \/ Installed' = Installed
            \/ Call' = "succeeded"
        BY <1>0, <2>3, <3>3, CallStepIsSeen DEF EffectInv, Meddled
      <4>2. Call' = "succeeded" => InPhase("succeeded")'
        BY DEF Call
      <4>3. ~InPhase("succeeded")
        BY <1>0, <3>3, CallStepIsSeen DEF Call, InPhase
      <4> QED  BY <2>1, <3>2, <4>1, <4>2, <4>3 DEF EffectInv, InEffect
    <3>4. CASE UNCHANGED networkdVars
      BY <2>1, <3>2, <3>4 DEF networkdVars, EffectInv, InEffect, Installed, Changing, Applying,
                              InPhase
    <3> QED  BY <1>0, <2>3, <3>1, <3>3, <3>4
             DEF NetworkdNext, NobodyDrifts, Begin, Return, Abandon
  <2> QED  BY <2>2, <2>3
<1> QED  BY <1>1, <1>2

(* Between operations the managed files are those of the last recorded     *)
(* success, whatever failed in between, when no process ends within an     *)
(* operation, nobody else changes the managed files and none of them is    *)
(* changed by being read as text (backends/networkd.py apply,              *)
(* NetworkStateService.apply).                                             *)
THEOREM LastSuccessInEffect ==
  ASSUME ~ProcessesEnd, ~CanDrift, \A c \in Contents : ReadText[c] = c
  PROVE  Spec => []AppliedInEffect
<1> DEFINE CallInv == Inv /\ FilesInv /\ ListedInv /\ CandidateInv /\ EffectInv
<1>1. Init => CallInv
  <2> SUFFICES ASSUME Init PROVE CallInv
    OBVIOUS
  <2>1. native = None /\ networkd = NoArtifacts /\ applied = None
    BY DEF Init, NetworkdInit
  <2>2. Installed = NoArtifacts
    BY <2>1, SeenIdle
  <2> QED  BY <2>1, <2>2, InvInit, CandidateInvInit DEF FilesInv, ListedInv, InPhase,
              EffectInv, InEffect
<1>2. CallInv /\ [Next]_vars => CallInv'
  <2> SUFFICES ASSUME CallInv, [Next]_vars PROVE CallInv'
    OBVIOUS
  <2>1. [NetworkdNext]_networkdVars /\ NetworkdInv
    BY StepProjects DEF Inv
  <2>2. NobodyDrifts
    BY DEF NobodyDrifts, Drift
  <2>3. FilesInv' /\ ListedInv'
    BY <2>1, <2>2, NetworkdStepKeepsFilesInv, NetworkdStepKeepsListedInv
  <2> QED  BY <2>3, StepKeepsInv, StepKeepsCandidateInv, StepKeepsEffectInv
<1>3. CallInv => AppliedInEffect
  BY SeenIdle DEF Inv, EffectInv, AppliedInEffect, InEffect, InPhase
<1> QED  BY <1>1, <1>2, <1>3, PTL DEF Spec

(* ------------------- nothing but revisions is installed ---------------- *)

\* A content that is generated for a file from what may have been given for
\* some revision.
Sourced(a, c) == \E r \in Revisions : \E files \in FilesFor(commits[r]) : c = files[a]

SourceInv ==
  \A a \in ArtifactNames :
    /\ networkd[a] # Absent => Sourced(a, networkd[a])
    /\ native # None =>
         /\ native.previous[a] # Absent => Sourced(a, native.previous[a])
         /\ native.candidate[a] # Absent => Sourced(a, native.candidate[a])

\* A file holds after a step what it held, nothing, or what the call has for it.
LEMMA WhereFilesComeFrom ==
  ASSUME ~CanDrift, \A c \in Contents : ReadText[c] = c,
         NetworkdInv, [NetworkdNext]_networkdVars, NEW a \in ArtifactNames
  PROVE  \/ networkd'[a] \in {networkd[a], Absent}
         \/ native # None /\ networkd'[a] \in {native.previous[a], native.candidate[a]}
<1>1. networkd \in Artifacts /\ NetworkdTypeOK
  BY DEF NetworkdInv, NetworkdTypeOK
<1>2. ASSUME NEW b \in ArtifactNames, Restore(b)
      PROVE  networkd'[b] = native.previous[b] /\ native # None
  <2>1. native # None /\ b \in Held(native.previous) /\ native.previous \in Artifacts
        /\ networkd' = [networkd EXCEPT ![b] = ReadText[native.previous[b]]]
    BY <1>1, <1>2, CallsAreCalls DEF Restore, InPhase, NetworkdInv
  <2>2. native.previous[b] \in Contents
    BY <2>1 DEF Held, Artifacts
  <2> QED  BY <1>1, <2>1, <2>2 DEF Artifacts
<1>3. ASSUME NEW b \in ArtifactNames, Write(b) \/ Prune(b) \/ Clear(b) \/ Restore(b)
      PROVE  \/ networkd'[a] \in {networkd[a], Absent}
             \/ native # None /\ networkd'[a] \in {native.previous[a], native.candidate[a]}
  <2>1. CASE b = a
    BY <1>1, <1>2, <1>3, <2>1 DEF Write, Prune, Clear, InPhase, Artifacts
  <2>2. CASE b # a
    BY <1>1, <1>3, <2>2 DEF Write, Prune, Clear, Restore, Artifacts
  <2> QED  BY <2>1, <2>2
<1>4. CASE AllRead \/ AllWritten \/ AllPruned \/ Reload \/ Refuse \/ AllCleared \/ AllRestored
           \/ ReloadAgain \/ Return \/ Abandon \/ (\E c \in Candidates : Begin(c))
           \/ (\E b \in ArtifactNames : ReadPrevious(b)) \/ UNCHANGED networkdVars
  BY <1>4 DEF AllRead, ReadPrevious, AllWritten, AllPruned, Reload, Refuse, AllCleared, AllRestored,
     ReloadAgain, Return, Abandon, Begin, networkdVars
<1> QED  BY <1>3, <1>4 DEF NetworkdNext, CallStep, Drift

LEMMA SourcesStay ==
  ASSUME Inv, [Next]_vars
  PROVE  \A a, c : Sourced(a, c) =>
           \E r \in Revisions' : \E files \in FilesFor(commits'[r]) : c = files[a]
<1> SUFFICES ASSUME NEW a, NEW c, Sourced(a, c)
             PROVE  \E r \in Revisions' : \E files \in FilesFor(commits'[r]) : c = files[a]
  OBVIOUS
<1>1. PICK r \in Revisions : \E files \in FilesFor(commits[r]) : c = files[a]
  BY DEF Sourced
<1>2. r \in Revisions' /\ commits'[r] = commits[r]
  BY StepProjects, HistoryKeepsRevisions DEF Inv
<1> QED  BY <1>1, <1>2

LEMMA StepKeepsSourceInv ==
  ASSUME ~CanDrift, \A c \in Contents : ReadText[c] = c,
         Inv, ExactInv, SourceInv, [Next]_vars
  PROVE  SourceInv'
<1>0. [NetworkdNext]_networkdVars /\ NetworkdInv
  BY StepProjects DEF Inv
<1> SUFFICES ASSUME NEW a \in ArtifactNames
             PROVE  /\ networkd'[a] # Absent => Sourced(a, networkd[a])'
                    /\ native' # None =>
                         /\ native'.previous[a] # Absent => Sourced(a, native.previous[a])'
                         /\ native'.candidate[a] # Absent => Sourced(a, native.candidate[a])'
  BY DEF SourceInv
<1>1. ASSUME NEW c, Sourced(a, c)
      PROVE  \E r \in Revisions' : \E files \in FilesFor(commits'[r]) : c = files[a]
  BY <1>1, SourcesStay
<1>2. networkd'[a] # Absent => Sourced(a, networkd[a])'
  <2> SUFFICES ASSUME networkd'[a] # Absent
               PROVE  \E r \in Revisions' : \E files \in FilesFor(commits'[r]) :
                        networkd'[a] = files[a]
    BY DEF Sourced, FilesFor, GivenFor, PlanSucceeds, Candidate
  <2>1. Sourced(a, networkd'[a])
    BY <1>0, WhereFilesComeFrom DEF SourceInv
  <2> QED  BY <1>1, <2>1
<1>3. ASSUME native' # None
      PROVE  /\ native'.previous[a] # Absent => Sourced(a, native.previous[a])'
             /\ native'.candidate[a] # Absent => Sourced(a, native.candidate[a])'
  <2> SUFFICES /\ native'.previous[a] # Absent => Sourced(a, native'.previous[a])
               /\ native'.candidate[a] # Absent => Sourced(a, native'.candidate[a])
    BY <1>1 DEF Sourced, FilesFor, GivenFor, PlanSucceeds, Candidate
  <2>1. CASE native # None
    BY <1>0, <1>3, <2>1, CallKeepsItsFiles DEF SourceInv
  <2>2. CASE native = None
    <3>1. PICK p \in Processes : Install(p) /\ Begin(Candidate(work[p].tree))
      BY <1>3, <2>2, CallsBegin
    <3>2. native'.previous = NoArtifacts /\ native'.candidate = Candidate(work[p].tree)
      BY <3>1 DEF Begin
    <3>3. At(p, "install") /\ Progress(p)
      BY <3>1, ActorHoldsLock DEF Install, At
    <3>4. Answered /\ PlanSucceeds(work[p].tree) /\ snapshot.files = work[p].tree
      BY <3>3 DEF Progress, At
    <3>5. /\ snapshot.revision \in Revisions
          /\ Candidate(work[p].tree) \in FilesFor(commits[snapshot.revision])
      BY <3>4, AnswerIsHead, AnswerWasGiven DEF FilesFor
    <3> QED  BY <3>2, <3>5 DEF NoArtifacts, Sourced
  <2> QED  BY <2>1, <2>2
<1> QED  BY <1>2, <1>3

LEMMA SourceInvInit == ASSUME Init PROVE SourceInv
  BY DEF Init, NetworkdInit, NoArtifacts, SourceInv

(* Nothing is installed that is not in the history, wherever processes     *)
(* die, when nobody else changes the managed files and none of them is     *)
(* changed by being read as text (NetworkStateService takes the snapshot   *)
(* before backends/networkd.py apply).                                     *)
THEOREM OnlyRevisionsInstalled ==
  ASSUME ~CanDrift, \A c \in Contents : ReadText[c] = c
  PROVE  Spec => []InstalledFromHistory
<1>1. Init => Inv /\ ExactInv /\ SourceInv
  BY InvInit, ExactInvInit, SourceInvInit DEF Init
<1>2. Inv /\ ExactInv /\ SourceInv /\ [Next]_vars => (Inv /\ ExactInv /\ SourceInv)'
  BY StepKeepsInv, StepProjects, HistoryStepKeepsExactInv, StepKeepsSourceInv
<1>3. SourceInv => InstalledFromHistory
  BY DEF SourceInv, Sourced, InstalledFromHistory
<1> QED  BY <1>1, <1>2, <1>3, PTL DEF Spec

(* ---------------- the service as ServicePromise shows it --------------- *)

ServiceInv ==
  /\ Inv /\ ExactInv /\ FilesInv /\ CandidateInv
  /\ native # None => ~native.meddled

LEMMA ServiceInvInit ==
  ASSUME Init
  PROVE  ServiceInv
<1>1. native = None
  BY DEF Init, NetworkdInit
<1> QED  BY <1>1, InvInit, ExactInvInit, CandidateInvInit
         DEF Init, ServiceInv, FilesInv

LEMMA StepKeepsServiceInv ==
  ASSUME ~CanDrift, \A c \in Contents : ReadText[c] = c,
         ServiceInv, [Next]_vars
  PROVE  ServiceInv'
<1>1. /\ Inv /\ ExactInv /\ FilesInv /\ CandidateInv /\ NetworkdInv
      /\ native # None => ~native.meddled
  BY DEF ServiceInv, Inv
<1>2. /\ [HistoryNext]_historyVars /\ [NetworkdNext]_networkdVars /\ NobodyDrifts
  BY <1>1, StepProjects DEF NobodyDrifts, Drift
<1>3. Inv' /\ ExactInv' /\ CandidateInv'
  BY <1>1, <1>2, StepKeepsInv, HistoryStepKeepsExactInv, StepKeepsCandidateInv
<1>4. FilesInv'
  BY <1>1, <1>2, NetworkdStepKeepsFilesInv
<1>5. native' # None => ~native'.meddled
  <2>1. CASE native # None
    BY <1>1, <1>2, <2>1, Undisturbed
  <2>2. CASE native = None
    <3>1. ASSUME native' # None PROVE ~native'.meddled
      <4>1. PICK p \in Processes : Begin(Candidate(work[p].tree))
        BY <2>2, <3>1, CallsBegin
      <4> QED  BY <4>1 DEF Begin
    <3> QED  BY <3>1
  <2> QED  BY <2>1, <2>2
<1> QED  BY <1>3, <1>4, <1>5 DEF ServiceInv

\* A step that changes neither the history nor the managed files nor the store.
LEMMA QuietStep ==
  ASSUME UNCHANGED <<commits, networkd, native, applied, failures>>
  PROVE  UNCHANGED Service!promiseVars
  BY DEF Service!promiseVars, Installed, Wanted, Call, Changing, Applying, InPhase

\* An operation that ends before its native call, and changes the documents at most.
LEMMA EarlyEndIsQuiet ==
  ASSUME Inv, NEW p \in Processes, lock = p, ~At(p, "native"), Finish(p),
         UNCHANGED <<commits, networkd, applied, failures>>
  PROVE  UNCHANGED Service!promiseVars
<1>1. native = None
  BY DEF Inv, Progress, At
<1> QED  BY <1>1, QuietStep DEF Finish

\* What is installed is generated for the newest revision.
LEMMA NewestIsPlanned ==
  ASSUME Inv, ExactInv, NEW p \in Processes, At(p, "install") \/ At(p, "native")
  PROVE  /\ commits # <<>> /\ snapshot.revision = Len(commits)
         /\ Candidate(work[p].tree) \in Service!Newest
<1>1. lock = p /\ Progress(p) /\ work[p] \in Works
  BY ActorHoldsLock DEF At
<1>2. Answered /\ PlanSucceeds(work[p].tree) /\ snapshot.files = work[p].tree
  BY <1>1 DEF Progress, At
<1>3. /\ snapshot.revision = Len(commits) /\ snapshot.revision # 0
      /\ commits \in Seq(Trees) /\ Len(commits) \in Revisions
  BY <1>2, AnswerIsHead DEF ExactInv, CoverInv, HistoryTypeOK, Answered
<1>4. commits # <<>>
  BY <1>3, EmptySeq
<1>5. Candidate(work[p].tree) \in FilesFor(commits[Len(commits)])
  BY <1>2, <1>3, AnswerWasGiven DEF FilesFor
<1>6. commits[Len(commits)] \in Planned
  BY <1>3, <1>5, ElementOfSeq DEF Planned, Revisions
<1> QED  BY <1>3, <1>4, <1>5, <1>6 DEF Service!Newest, PlannedFiles

LEMMA CommitIsKept ==
  ASSUME Inv, ExactInv, NEW p \in Processes, CommitFiles(p)
  PROVE  [Service!PromiseNext]_(Service!promiseVars)
<1>1. /\ At(p, "commit") /\ Commit /\ UNCHANGED <<networkd, native, applied, failures>>
  BY DEF CommitFiles
<1>2. lock = p /\ Progress(p) /\ work[p] \in Works
  BY <1>1, ActorHoldsLock DEF At
<1>3. native = None
  BY <1>1, <1>2 DEF Progress, At
<1>4. CASE commits' = commits
  BY <1>1, <1>4, QuietStep
<1>5. CASE commits' # commits
  <2>1. /\ commits' = Append(commits, index) /\ index # HeadTree
        /\ index \in Planned
    BY <1>1, <1>5, RevisionIsPlanned DEF Commit
  <2>2. index \in DOMAIN PlannedFiles
    BY <2>1 DEF PlannedFiles
  <2>3. commits # <<>> => index # commits[Len(commits)]
    BY <2>1 DEF HeadTree
  <2>4. Call = "idle" /\ UNCHANGED <<Installed, Wanted, Call>>
    BY <1>1, <1>3, SeenIdle, SeenIdleNext
  <2>5. Service!Keep
    BY <1>1, <1>5, <2>1, <2>2, <2>3, <2>4 DEF Service!Keep
  <2> QED  BY <2>5 DEF Service!PromiseNext
<1> QED  BY <1>4, <1>5

LEMMA InstallIsAttempt ==
  ASSUME Inv, ExactInv, NEW p \in Processes, Install(p)
  PROVE  Service!PromiseNext
<1>1. /\ At(p, "install") /\ Progress(p) /\ work[p] \in Works
      /\ Begin(Candidate(work[p].tree)) /\ UNCHANGED <<commits, applied, failures>>
  BY ActorHoldsLock DEF Install, At
<1>2. PlanSucceeds(work[p].tree) /\ work[p].tree \in Trees
  BY <1>1 DEF Progress, At, Works
<1>3. /\ native = None /\ native' # None /\ native'.phase = "read" /\ networkd' = networkd
      /\ native'.candidate = Candidate(work[p].tree) /\ native'.meddled = FALSE
  BY <1>1, <1>2, PlannedIsSnapshot, BeginEffect DEF Begin, Inv, NetworkdInv
<1>4. /\ Call = "idle" /\ Call' = "applying" /\ Installed' = Installed
      /\ Wanted' = Candidate(work[p].tree)
  BY <1>3, SeenIdle, SeenReadingNext
<1>5. commits # <<>> /\ Candidate(work[p].tree) \in Service!Newest
  BY <1>1, NewestIsPlanned
<1> QED  BY <1>1, <1>4, <1>5 DEF Service!PromiseNext, Service!Attempt

LEMMA NativeIsSeen ==
  ASSUME \A c \in Contents : ReadText[c] = c, ServiceInv, NEW p \in Processes, Native(p)
  PROVE  [Service!PromiseNext]_(Service!promiseVars)
<1>1. /\ At(p, "native") /\ CallStep /\ UNCHANGED <<commits, applied, failures>>
      /\ FilesInv /\ NetworkdInv
  BY DEF Native, ServiceInv, Inv
<1>2. ~Meddled
  BY DEF Meddled, ServiceInv
<1>3. /\ Call = "applying" /\ Wanted' = Wanted
      /\ \/ Call' = "applying" /\ Installed' = Installed
         \/ Call' = "succeeded" /\ Installed' = Wanted
         \/ Call' = "failed" /\ Installed' = Installed
  BY <1>1, <1>2, CallStepIsSeen
<1>4. CASE Call' = "applying" /\ Installed' = Installed
  BY <1>1, <1>3, <1>4 DEF Service!promiseVars
<1>5. CASE Call' = "succeeded" /\ Installed' = Wanted
  BY <1>1, <1>3, <1>5 DEF Service!PromiseNext, Service!Install
<1>6. CASE Call' = "failed" /\ Installed' = Installed
  BY <1>1, <1>3, <1>6 DEF Service!PromiseNext, Service!Refuse
<1> QED  BY <1>3, <1>4, <1>5, <1>6

\* The store learns of the newest revision.
LEMMA RecordingIsSeen ==
  ASSUME ServiceInv, NEW p \in Processes, RecordSuccess(p) \/ RecordFailure(p)
  PROVE  Service!PromiseNext
<1>1. /\ At(p, "native") /\ native' = None /\ UNCHANGED <<commits, networkd>>
      /\ Inv /\ ExactInv /\ FilesInv /\ CandidateInv /\ NetworkdInv
  BY DEF RecordSuccess, RecordFailure, Finish, ServiceInv, Inv
<1>2. snapshot.revision = Len(commits)
  BY <1>1, NewestIsPlanned
<1>3. Call' = "idle" /\ Installed' = networkd /\ Wanted' = None
  BY <1>1, SeenIdleNext
<1>4. CASE RecordSuccess(p)
  <2>1. /\ InPhase("succeeded") /\ ~native.meddled /\ failures' = failures
        /\ applied' = [revision |-> snapshot.revision, artifacts |-> Candidate(work[p].tree)]
    BY <1>4 DEF RecordSuccess, ServiceInv, InPhase
  <2>2. Call = "succeeded" /\ Installed = networkd
    BY <2>1 DEF Call, Installed, Changing, Applying, InPhase
  <2>3. networkd = Candidate(work[p].tree)
    BY <1>1, <2>1, SucceededHolds, FilesAreInstalled DEF CandidateInv
  <2> QED  BY <1>1, <1>2, <1>3, <2>1, <2>2, <2>3
           DEF Service!PromiseNext, Service!RecordSuccess
<1>5. CASE RecordFailure(p)
  <2>1. /\ InPhase("failed") /\ applied' = applied
        /\ failures' = failures \cup {snapshot.revision}
    BY <1>5 DEF RecordFailure
  <2>2. Call = "failed" /\ Installed = networkd
    BY <2>1 DEF Call, Installed, Changing, Applying, InPhase
  <2> QED  BY <1>1, <1>2, <1>3, <2>1, <2>2
           DEF Service!PromiseNext, Service!RecordFailure
<1> QED  BY <1>4, <1>5

LEMMA EndIsSeen ==
  ASSUME ServiceInv, NEW p \in Processes, End(p) \/ NativeBreaks(p)
  PROVE  [Service!PromiseNext]_(Service!promiseVars)
<1>1. /\ lock = p /\ Finish(p) /\ native' = None
      /\ UNCHANGED <<commits, networkd, applied, failures>>
      /\ Inv /\ FilesInv /\ NetworkdInv
  BY ActorHoldsLock DEF End, NativeBreaks, At, Finish, ServiceInv, Inv
<1>2. CASE ~At(p, "native")
  BY <1>1, <1>2, EarlyEndIsQuiet
<1>3. CASE At(p, "native") /\ Applying
  <2>1. ~Meddled
    BY DEF Meddled, ServiceInv
  <2>2. /\ Call = "applying" /\ Call' = "idle" /\ Wanted' = None /\ Installed' \in Artifacts
        /\ \A a \in ArtifactNames : Installed'[a] \in {Installed[a], Wanted[a], Absent}
    BY <1>1, <1>3, <2>1, AbandonIsSeen
  <2>3. DOMAIN Installed' = ArtifactNames
    BY <2>2 DEF Artifacts
  <2> QED  BY <1>1, <2>2, <2>3 DEF Service!PromiseNext, Service!CutShort
<1>4. CASE At(p, "native") /\ ~Applying
  <2>1. native # None
    BY <1>1, <1>4 DEF Inv, Progress, At
  <2>2. Call \in {"succeeded", "failed"} /\ Installed = networkd
    BY <1>4, <2>1 DEF Call, Installed, Changing, Applying, InPhase
  <2>3. Call' = "idle" /\ Installed' = networkd /\ Wanted' = None
    BY <1>1, SeenIdleNext
  <2> QED  BY <1>1, <2>2, <2>3 DEF Service!PromiseNext, Service!CutShort
<1> QED  BY <1>2, <1>3, <1>4

\* Everything before the snapshot, and what others do, is not seen.
LEMMA EarlyStepIsQuiet ==
  ASSUME Inv, NEW p \in Processes,
         \/ ReadFile(p) \/ ReadOriginal(p) \/ Check(p) \/ Replace(p) \/ Plan(p)
         \/ Resolve(p) \/ Rewrite(p) \/ StageFiles(p) \/ EditorGivesUp(p)
         \/ \E d \in Written : EditorSaves(p, d)
  PROVE  UNCHANGED Service!promiseVars
<1>1. /\ ~At(p, "idle") /\ ~At(p, "native")
      /\ UNCHANGED <<commits, networkd, applied, failures>>
  BY DEF ReadFile, ReadOriginal, Check, Replace, Plan, Resolve, Rewrite, StageFiles, Stage,
         EditorGivesUp, EditorSaves, At
<1>2. lock = p
  BY <1>1, ActorHoldsLock
<1>3. CASE Finish(p)
  BY <1>1, <1>2, <1>3, EarlyEndIsQuiet
<1>4. CASE ~Finish(p)
  <2>1. native' = native
    BY <1>4 DEF ReadFile, ReadOriginal, Check, Replace, Plan, Resolve, Rewrite, StageFiles,
                EditorGivesUp, EditorSaves
  <2> QED  BY <1>1, <2>1, QuietStep
<1> QED  BY <1>3, <1>4

LEMMA StepKeepsServicePromise ==
  ASSUME ~CanDrift, \A c \in Contents : ReadText[c] = c, ServiceInv, [Next]_vars
  PROVE  [Service!PromiseNext]_(Service!promiseVars)
<1>0. Inv /\ ExactInv
  BY DEF ServiceInv
<1>1. ASSUME NEW p \in Processes,
             \/ \E f \in Files : BeginEdit(p, f)
             \/ BeginApply(p)
             \/ \E r \in Revisions : BeginRollback(p, r)
      PROVE  UNCHANGED Service!promiseVars
  <2>1. UNCHANGED <<commits, networkd, native, applied, failures>>
    BY <1>1 DEF BeginEdit, BeginApply, BeginRollback, Enter
  <2> QED  BY <2>1, QuietStep
<1>2. ASSUME NEW p \in Processes,
             \/ ReadFile(p) \/ ReadOriginal(p) \/ Check(p) \/ Replace(p) \/ Plan(p)
             \/ Resolve(p) \/ Rewrite(p) \/ StageFiles(p) \/ EditorGivesUp(p)
             \/ \E d \in Written : EditorSaves(p, d)
      PROVE  UNCHANGED Service!promiseVars
  BY <1>0, <1>2, EarlyStepIsQuiet
<1>3. ASSUME NEW p \in Processes, CommitFiles(p)
      PROVE  [Service!PromiseNext]_(Service!promiseVars)
  BY <1>0, <1>3, CommitIsKept
<1>4. ASSUME NEW p \in Processes, Install(p) PROVE Service!PromiseNext
  BY <1>0, <1>4, InstallIsAttempt
<1>5. ASSUME NEW p \in Processes, Native(p)
      PROVE  [Service!PromiseNext]_(Service!promiseVars)
  BY <1>5, NativeIsSeen
<1>6. ASSUME NEW p \in Processes, RecordSuccess(p) \/ RecordFailure(p)
      PROVE  Service!PromiseNext
  BY <1>6, RecordingIsSeen
<1>7. ASSUME NEW p \in Processes, End(p) \/ NativeBreaks(p)
      PROVE  [Service!PromiseNext]_(Service!promiseVars)
  BY <1>7, EndIsSeen
<1>8. CASE \E f \in Files, d \in Written \cup {Absent} : Outside(f, d)
  BY <1>8, QuietStep DEF Outside
<1>9. ASSUME NEW a \in ArtifactNames, NEW c \in Contents \cup {Absent}, DriftFile(a, c)
      PROVE  FALSE
  BY <1>9 DEF DriftFile, Drift
<1>10. CASE UNCHANGED vars
  BY <1>10, QuietStep DEF vars
<1> QED  BY <1>1, <1>2, <1>3, <1>4, <1>5, <1>6, <1>7, <1>8, <1>9, <1>10
         DEF Next, Proceed

(* Every behaviour of the service is one of ServicePromise: nothing is     *)
(* installed before it is a revision, the files change to those of the     *)
(* newest revision in one step or not at all, the store records a success  *)
(* of that revision with those files, and a failure changes nothing else,  *)
(* wherever processes end, when nobody else changes the managed files and  *)
(* none of them is changed by being read as text                           *)
(* (NetworkStateService.apply and rollback).                               *)
THEOREM ServiceKeepsPromise ==
  ASSUME ~CanDrift, \A c \in Contents : ReadText[c] = c
  PROVE  Spec => ServicePromised
<1>1. Init => ServiceInv
  BY ServiceInvInit
<1>2. Init => Service!PromiseInit
  <2> SUFFICES ASSUME Init PROVE Service!PromiseInit
    OBVIOUS
  <2>1. /\ commits = <<>> /\ applied = None /\ failures = {} /\ native = None
        /\ networkd = NoArtifacts
    BY DEF Init, HistoryInit, NetworkdInit
  <2>2. Call = "idle" /\ Wanted = None /\ Installed = NoArtifacts
    BY <2>1, SeenIdle
  <2> QED  BY <2>1, <2>2 DEF Service!PromiseInit, NoArtifacts
<1>3. ServiceInv /\ [Next]_vars => ServiceInv'
  BY StepKeepsServiceInv
<1>4. ServiceInv /\ [Next]_vars => [Service!PromiseNext]_(Service!promiseVars)
  BY StepKeepsServicePromise
<1> QED  BY <1>1, <1>2, <1>3, <1>4, PTL DEF Spec, ServicePromised, Service!PromiseSpec
=============================================================================
