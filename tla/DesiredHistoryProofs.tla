----------------------- MODULE DesiredHistoryProofs -----------------------
(***************************************************************************)
(* What the Git history of desired states guarantees for every number of   *)
(* documents, every set of bodies and every bound.                         *)
(***************************************************************************)
EXTENDS DesiredHistory, SequenceTheorems, TLAPS

(* While `git add' has run and `git commit' has not, the index holds the   *)
(* files of the call and either a commit fits in the bound or none is due; *)
(* an answer is HEAD, and HEAD holds the files it was given.               *)
CoverInv ==
  /\ HistoryTypeOK
  /\ Staged => /\ Len(commits) < MaxCommits \/ index = HeadTree
               /\ \A f \in Present(snapshot.files) : index[f] = snapshot.files[f]
  /\ Answered => /\ snapshot.revision = Len(commits)
                 /\ SnapshotCovers

LEMMA EmptyTreeIsTree == EmptyTree \in Trees
  BY DEF EmptyTree, Trees

LEMMA HeadTreeIsTree == ASSUME commits \in Seq(Trees) PROVE HeadTree \in Trees
<1>1. CASE commits = <<>>
  BY <1>1, EmptyTreeIsTree DEF HeadTree
<1>2. CASE commits # <<>>
  <2>1. Len(commits) \in 1 .. Len(commits)
    BY <1>2, EmptySeq, LenProperties
  <2> QED  BY <1>2, <2>1, ElementOfSeq DEF HeadTree
<1> QED  BY <1>1, <1>2

\* What a call notes down when `git add' has run.
LEMMA StageEffect ==
  ASSUME NEW t \in Trees, Stage(t)
  PROVE  /\ snapshot' \in [files : Trees, revision : 0 .. MaxCommits, clean : BOOLEAN]
         /\ snapshot' # None /\ snapshot'.revision = 0 /\ snapshot'.files = t
         /\ snapshot'.clean <=> index = HeadTree
<1> DEFINE clean == index = HeadTree
<1>1. clean \in BOOLEAN
  OBVIOUS
<1>2. snapshot' = [files |-> t, revision |-> 0, clean |-> clean]
  BY DEF Stage
<1> HIDE DEF clean
<1>3. /\ snapshot' \in [files : Trees, revision : 0 .. MaxCommits, clean : BOOLEAN]
      /\ snapshot' # None
  BY <1>1, <1>2, HistoryAssumption
<1>4. snapshot'.clean = clean
  BY <1>2
<1> QED  BY <1>2, <1>3, <1>4 DEF clean

\* `git add' keeps the invariant when the bound allows the commit.
LEMMA StageKeepsCoverInv ==
  ASSUME CoverInv, NEW t \in Trees, Stage(t), WithinBound
  PROVE  CoverInv'
<1> USE DEF CoverInv, HistoryTypeOK
<1>1. HeadTree \in Trees
  BY HeadTreeIsTree
<1>2. index' \in Trees
  BY DEF Stage, Trees
<1>3. snapshot' \in [files : Trees, revision : 0 .. MaxCommits, clean : BOOLEAN]
  BY StageEffect
<1>4. HistoryTypeOK'
  BY <1>2, <1>3 DEF Stage
<1>5. snapshot' # None /\ snapshot'.revision = 0 /\ snapshot'.files = t
  BY StageEffect
<1>6. \A f \in Present(t) : index'[f] = t[f]
  BY DEF Stage, Present
<1>7. HeadTree' = HeadTree
  BY DEF Stage, HeadTree
<1>8. Len(commits') < MaxCommits \/ index' = HeadTree'
  BY <1>7 DEF Stage, WithinBound
<1>9. ~Answered'
  BY <1>5 DEF Answered
<1> QED  BY <1>4, <1>5, <1>6, <1>8, <1>9 DEF Staged, Present

\* What a commit leaves: the new HEAD is the index, and the answer is HEAD.
LEMMA CommitOutcome ==
  ASSUME CoverInv, Commit
  PROVE  /\ commits' \in Seq(Trees)
         /\ Len(commits') \in 0 .. MaxCommits
         /\ HeadTree' = index
         /\ snapshot'.files = snapshot.files
         /\ snapshot'.revision = Len(commits')
         /\ snapshot'.clean = snapshot.clean
         /\ snapshot' \in [files : Trees, revision : 0 .. MaxCommits, clean : BOOLEAN]
         /\ commits' # <<>> => commits'[Len(commits')] = index
<1> USE DEF CoverInv, HistoryTypeOK
<1>0. /\ Staged /\ index \in Trees
      /\ snapshot \in [files : Trees, revision : 0 .. MaxCommits, clean : BOOLEAN]
  BY DEF Commit, Staged
<1>1. CASE index = HeadTree
  <2>1. commits' = commits
    BY <1>1 DEF Commit
  <2>2. HeadTree' = index
    BY <1>1, <2>1 DEF HeadTree
  <2>3. Len(commits') \in 0 .. MaxCommits
    BY <2>1, HistoryAssumption, LenProperties
  <2> QED  BY <1>0, <1>1, <2>1, <2>2, <2>3 DEF Commit, HeadTree
<1>2. CASE index # HeadTree
  <2>1. commits' = Append(commits, index)
    BY <1>2 DEF Commit
  <2>2. /\ commits' \in Seq(Trees)
        /\ Len(commits') = Len(commits) + 1
        /\ commits'[Len(commits')] = index
    BY <1>0, <2>1, AppendProperties
  <2>3. Len(commits) < MaxCommits
    BY <1>0, <1>2
  <2>4. Len(commits') \in 0 .. MaxCommits
    BY <2>2, <2>3, HistoryAssumption, LenProperties
  <2>5. HeadTree' = index
    BY <2>2, EmptySeq, LenProperties DEF HeadTree
  <2> QED  BY <1>0, <2>2, <2>4, <2>5 DEF Commit
<1> QED  BY <1>1, <1>2

LEMMA CommitKeepsCoverInv == ASSUME CoverInv, Commit PROVE CoverInv'
<1> USE DEF CoverInv, HistoryTypeOK
<1>1. Staged /\ UNCHANGED index
  BY DEF Commit
<1>2. \A f \in Present(snapshot.files) : index[f] = snapshot.files[f]
  BY <1>1
<1>3. HistoryTypeOK'
  BY <1>1, CommitOutcome
<1>4. Answered' => snapshot'.revision = Len(commits') /\ SnapshotCovers'
  <2> SUFFICES ASSUME Answered'
               PROVE  snapshot'.revision = Len(commits') /\ SnapshotCovers'
    OBVIOUS
  <2>1. commits' # <<>>
    BY CommitOutcome, EmptySeq, LenProperties DEF Answered
  <2>2. commits'[snapshot'.revision] = index
    BY <2>1, CommitOutcome
  <2> QED  BY <1>2, <2>2, CommitOutcome DEF SnapshotCovers, Present
<1>5. Staged' => Len(commits') < MaxCommits \/ index' = HeadTree'
  BY <1>1, CommitOutcome
<1>6. Staged' => \A f \in Present(snapshot'.files) : index'[f] = snapshot'.files[f]
  BY <1>1, <1>2, CommitOutcome
<1> QED  BY <1>3, <1>4, <1>5, <1>6

LEMMA ForgetKeepsCoverInv ==
  ASSUME CoverInv, snapshot' = None, UNCHANGED <<commits, index>>
  PROVE  CoverInv'
  BY DEF CoverInv, HistoryTypeOK, Staged, Answered

LEMMA CoverInvInit == ASSUME HistoryInit PROVE CoverInv
<1>1. HistoryTypeOK
  BY EmptyTreeIsTree, EmptySeq, HistoryAssumption DEF HistoryInit, HistoryTypeOK
<1> QED  BY <1>1 DEF HistoryInit, CoverInv, Staged, Answered

LEMMA HistoryStepKeepsCoverInv ==
  ASSUME CoverInv, [HistoryNext]_historyVars
  PROVE  CoverInv'
<1>1. ASSUME NEW t \in Snapshots, Stage(t), WithinBound PROVE CoverInv'
  BY <1>1, StageKeepsCoverInv DEF Snapshots
<1>2. CASE Commit
  BY <1>2, CommitKeepsCoverInv
<1>3. CASE Forget \/ LoseCommit
  BY <1>3, ForgetKeepsCoverInv DEF Forget, LoseCommit
<1>4. CASE UNCHANGED historyVars
  BY <1>4 DEF historyVars, CoverInv, HistoryTypeOK, Staged, Answered, HeadTree,
              SnapshotCovers, Present
<1> QED  BY <1>1, <1>2, <1>3, <1>4 DEF HistoryNext

(* No revision lacks the mandatory document: it is in what is being        *)
(* committed, because callers give it and `git add' stages all they give.  *)
InterfacesInv ==
  /\ Staged => snapshot.files[Interfaces] # Absent
  /\ RevisionsHoldInterfaces

LEMMA CommitKeepsInterfacesInv ==
  ASSUME CoverInv, InterfacesInv, Commit
  PROVE  InterfacesInv'
<1>1. Staged /\ Interfaces \in Files
  BY FilesAssumption DEF Commit, Files, Interfaces
<1>2. index[Interfaces] # Absent /\ index \in Trees /\ commits \in Seq(Trees)
  BY <1>1 DEF CoverInv, HistoryTypeOK, InterfacesInv, Present
<1>3. RevisionsHoldInterfaces'
  <2>1. CASE commits' = commits
    BY <2>1 DEF InterfacesInv, RevisionsHoldInterfaces, Revisions
  <2>2. CASE commits' = Append(commits, index)
    <3>1. /\ Len(commits) \in Nat
          /\ Len(commits') = Len(commits) + 1
          /\ commits'[Len(commits) + 1] = index
          /\ \A r \in 1 .. Len(commits) : commits'[r] = commits[r]
      BY <1>2, <2>2, AppendProperties, LenProperties
    <3> SUFFICES ASSUME NEW r \in 1 .. Len(commits') PROVE commits'[r][Interfaces] # Absent
      BY DEF RevisionsHoldInterfaces, Revisions
    <3>2. r \in 1 .. Len(commits) \/ r = Len(commits) + 1
      BY <3>1
    <3> QED  BY <1>2, <3>1, <3>2 DEF InterfacesInv, RevisionsHoldInterfaces, Revisions
  <2> QED  BY <2>1, <2>2 DEF Commit
<1>4. Staged' => snapshot'.files[Interfaces] # Absent
  BY <1>1, CommitOutcome DEF InterfacesInv
<1> QED  BY <1>3, <1>4 DEF InterfacesInv

LEMMA HistoryStepKeepsInterfacesInv ==
  ASSUME CoverInv, InterfacesInv, [HistoryNext]_historyVars
  PROVE  InterfacesInv'
<1>1. ASSUME NEW t \in Snapshots, Stage(t), WithinBound PROVE InterfacesInv'
  <2>1. t[Interfaces] # Absent /\ snapshot'.files = t /\ UNCHANGED commits
    BY <1>1 DEF Snapshots, Stage
  <2> QED  BY <2>1 DEF InterfacesInv, RevisionsHoldInterfaces, Revisions
<1>2. CASE Commit
  BY <1>2, CommitKeepsInterfacesInv
<1>3. CASE Forget \/ LoseCommit
  BY <1>3 DEF Forget, LoseCommit, InterfacesInv, RevisionsHoldInterfaces, Revisions, Staged
<1>4. CASE UNCHANGED historyVars
  BY <1>4 DEF historyVars, InterfacesInv, RevisionsHoldInterfaces, Revisions, Staged
<1> QED  BY <1>1, <1>2, <1>3, <1>4 DEF HistoryNext

LEMMA InterfacesInvInit == ASSUME HistoryInit PROVE InterfacesInv
  BY EmptySeq DEF HistoryInit, InterfacesInv, RevisionsHoldInterfaces, Revisions, Staged

(* Type correctness; every answered revision holds the files it was given, *)
(* however many earlier calls were cut short between `git add' and `git    *)
(* commit' (DesiredStateHistory.snapshot); and every revision holds the    *)
(* mandatory document rollback insists on.                                 *)
THEOREM HistoryCovers ==
  HistorySpec => [](HistoryTypeOK /\ SnapshotCovers /\ RevisionsHoldInterfaces)
<1>1. HistoryInit => CoverInv /\ InterfacesInv
  BY CoverInvInit, InterfacesInvInit
<1>2. CoverInv /\ InterfacesInv /\ [HistoryNext]_historyVars
        => (CoverInv /\ InterfacesInv)'
  BY HistoryStepKeepsCoverInv, HistoryStepKeepsInterfacesInv
<1>3. CoverInv /\ InterfacesInv
        => HistoryTypeOK /\ SnapshotCovers /\ RevisionsHoldInterfaces
  BY DEF CoverInv, SnapshotCovers, InterfacesInv
<1> QED  BY <1>1, <1>2, <1>3, PTL DEF HistorySpec

(* From a clean index a call stages and commits exactly the files it was   *)
(* given, and an answer leaves the index clean, whatever it was before.    *)
(* Only a call cut short between its commands leaves it otherwise.         *)
ExactInv ==
  /\ CoverInv
  /\ snapshot # None => snapshot.files[Interfaces] # Absent
  /\ Staged /\ snapshot.clean => index = snapshot.files
  /\ Answered => index = HeadTree
  /\ Answered /\ snapshot.clean => HeadTree = snapshot.files
  /\ ~CommitsCanBeLost => /\ snapshot # None => snapshot.clean
                          /\ snapshot = None => index = HeadTree

\* From a clean index every set of files can be staged: whatever HEAD has is
\* in the index.
LEMMA CleanIndexIsStageable ==
  ASSUME index = HeadTree, NEW t \in Trees
  PROVE  AddSucceeds(t)
  BY DEF AddSucceeds, Present

\* From a clean index `git add' makes the index the files given.
LEMMA StageMakesIndex ==
  ASSUME CoverInv, index = HeadTree, NEW t \in Trees, Stage(t)
  PROVE  index' = t
<1>1. HeadTree \in Trees
  BY HeadTreeIsTree DEF CoverInv, HistoryTypeOK
<1>2. ASSUME NEW f \in Files PROVE index'[f] = t[f]
  BY <1>1 DEF Stage, Present
<1>3. index' = [f \in Files |-> index'[f]] /\ t = [f \in Files |-> t[f]]
  BY DEF Stage, Trees
<1> QED  BY <1>2, <1>3

LEMMA ExactInvInit == ASSUME HistoryInit PROVE ExactInv
<1>1. HeadTree = index
  BY DEF HistoryInit, HeadTree
<1> QED  BY <1>1, CoverInvInit DEF ExactInv, HistoryInit, Staged, Answered

LEMMA StageKeepsExactInv ==
  ASSUME ExactInv, NEW t \in Snapshots, Stage(t), WithinBound
  PROVE  ExactInv'
<1>1. CoverInv' /\ t \in Trees /\ t[Interfaces] # Absent
  BY StageKeepsCoverInv DEF ExactInv, Snapshots
<1>2. /\ snapshot' # None /\ snapshot'.revision = 0 /\ snapshot'.files = t
      /\ snapshot'.clean <=> index = HeadTree
  BY <1>1, StageEffect
<1>3. index = HeadTree => index' = t
  BY <1>1, StageMakesIndex DEF ExactInv
<1>4. ~CommitsCanBeLost => index = HeadTree
  BY DEF ExactInv, Stage
<1> QED  BY <1>1, <1>2, <1>3, <1>4 DEF ExactInv, Staged, Answered

LEMMA CommitKeepsExactInv ==
  ASSUME ExactInv, Commit
  PROVE  ExactInv'
<1>1. CoverInv'
  BY CommitKeepsCoverInv DEF ExactInv
<1>2. /\ Staged /\ HeadTree' = index /\ index' = index /\ snapshot'.clean = snapshot.clean
      /\ snapshot'.files = snapshot.files
  BY CommitOutcome DEF ExactInv, Commit
<1>3. snapshot # None /\ snapshot' # None
  BY <1>2, CommitOutcome, HistoryAssumption DEF Staged, ExactInv
<1> QED  BY <1>1, <1>2, <1>3 DEF ExactInv

LEMMA ForgetKeepsExactInv ==
  ASSUME ExactInv, snapshot' = None, UNCHANGED <<commits, index>>,
         Staged => CommitsCanBeLost
  PROVE  ExactInv'
<1>1. CoverInv' /\ HeadTree' = HeadTree
  BY ForgetKeepsCoverInv DEF ExactInv, HeadTree
<1>2. ~CommitsCanBeLost => index = HeadTree
  BY DEF ExactInv, Staged, Answered
<1> QED  BY <1>1, <1>2 DEF ExactInv, Staged, Answered

LEMMA HistoryStepKeepsExactInv ==
  ASSUME ExactInv, [HistoryNext]_historyVars
  PROVE  ExactInv'
<1>1. ASSUME NEW t \in Snapshots, Stage(t), WithinBound PROVE ExactInv'
  BY <1>1, StageKeepsExactInv
<1>2. CASE Commit
  BY <1>2, CommitKeepsExactInv
<1>3. CASE Forget \/ LoseCommit
  BY <1>3, ForgetKeepsExactInv DEF Forget, LoseCommit, Staged, Answered
<1>4. CASE UNCHANGED historyVars
  BY <1>4 DEF historyVars, ExactInv, CoverInv, HistoryTypeOK, Staged, Answered,
              HeadTree, SnapshotCovers, Present
<1> QED  BY <1>1, <1>2, <1>3, <1>4 DEF HistoryNext

\* The answer is HEAD.
LEMMA AnswerIsHead ==
  ASSUME ExactInv, Answered
  PROVE  /\ snapshot.revision \in Revisions
         /\ commits[snapshot.revision] = HeadTree
<1>1. /\ commits \in Seq(Trees) /\ snapshot.revision = Len(commits)
      /\ snapshot.revision # 0
  BY DEF ExactInv, CoverInv, HistoryTypeOK, Answered
<1>2. commits # <<>> /\ Len(commits) \in Nat
  BY <1>1, EmptySeq, LenProperties
<1> QED  BY <1>1, <1>2 DEF HeadTree, Revisions

\* Files that are all in a tree, as they are there, may have been given for it.
LEMMA CoveredWasGiven ==
  ASSUME NEW s \in Trees, NEW t \in Trees, s[Interfaces] # Absent,
         \A f \in Present(s) : t[f] = s[f],
         ~CommitsCanBeLost => t = s
  PROVE  s \in GivenFor(t)
<1>1. CASE ~CommitsCanBeLost
  BY <1>1 DEF GivenFor
<1>2. CASE CommitsCanBeLost
  <2> DEFINE gone == {f \in Files : s[f] = Absent}
  <2>1. gone \in SUBSET (Files \ {Interfaces})
    OBVIOUS
  <2>2. ASSUME NEW f \in Files PROVE s[f] = Without(t, gone)[f]
    BY DEF Without, Present
  <2>3. s = [f \in Files |-> s[f]]
    BY DEF Trees
  <2>4. s = Without(t, gone)
    BY <2>2, <2>3 DEF Without
  <2> QED  BY <1>2, <2>1, <2>4 DEF GivenFor
<1> QED  BY <1>1, <1>2

\* The files of a call are among those its commit may have been given for.
LEMMA StagedWasGiven ==
  ASSUME ExactInv, Staged
  PROVE  snapshot.files \in GivenFor(index)
<1>1. /\ snapshot # None /\ snapshot.files \in Trees /\ index \in Trees
      /\ snapshot.files[Interfaces] # Absent
      /\ \A f \in Present(snapshot.files) : index[f] = snapshot.files[f]
      /\ ~CommitsCanBeLost => index = snapshot.files
  BY DEF ExactInv, CoverInv, HistoryTypeOK, Staged
<1> QED  BY <1>1, CoveredWasGiven

\* And those of an answered call among those of its answer.
LEMMA AnswerWasGiven ==
  ASSUME ExactInv, Answered
  PROVE  snapshot.files \in GivenFor(commits[snapshot.revision])
<1>1. /\ snapshot # None /\ snapshot.files \in Trees /\ SnapshotCovers
      /\ snapshot.files[Interfaces] # Absent
      /\ commits[snapshot.revision] = HeadTree /\ HeadTree \in Trees
      /\ ~CommitsCanBeLost => HeadTree = snapshot.files
  BY AnswerIsHead, HeadTreeIsTree DEF ExactInv, CoverInv, HistoryTypeOK, Answered
<1>2. \A f \in Present(snapshot.files) : HeadTree[f] = snapshot.files[f]
  BY <1>1 DEF SnapshotCovers
<1> QED  BY <1>1, <1>2, CoveredWasGiven

(* When nothing was left staged, the revision that snapshot() answers with *)
(* holds exactly the files given; and with every answer nothing is left    *)
(* staged, however many calls were cut short between `git add' and `git    *)
(* commit' before (DesiredStateHistory.snapshot).                          *)
THEOREM HistoryExact == HistorySpec => []SnapshotExact
<1>1. HistoryInit => ExactInv
  BY ExactInvInit
<1>2. ExactInv /\ [HistoryNext]_historyVars => ExactInv'
  BY HistoryStepKeepsExactInv
<1>3. ExactInv => SnapshotExact
  BY AnswerIsHead DEF ExactInv, SnapshotExact
<1> QED  BY <1>1, <1>2, <1>3, PTL DEF HistorySpec
=============================================================================
