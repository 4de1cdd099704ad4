----------------------- MODULE NetworkdLoadedProofs -----------------------
(***************************************************************************)
(* What systemd-networkd runs with, for every set of managed files and of  *)
(* candidates: the theorems about NetworkdLoaded.                          *)
(***************************************************************************)
EXTENDS NetworkdLoaded, NetworkdProofs

Sets == Candidates \cup {NoArtifacts}

(* The directory holds a whole set as long as no call changes it, and that  *)
(* is what the call has read.                                              *)
LoadedInv ==
  /\ NetworkdInv
  /\ FilesInv
  /\ native # None => native.candidate \in Candidates
  /\ ~disturbed => /\ loaded \in Sets
                   /\ native # None => ~native.meddled
                   /\ Changing => native.previous \in Sets
                   /\ ~Changing => networkd \in Sets

\* The steps are those of Networkd.
LEMMA LoadedStepIsNetworkdStep ==
  ASSUME [LoadedNext]_loadedVars
  PROVE  [NetworkdNext]_networkdVars
  BY DEF LoadedNext, loadedVars, networkdVars, NetworkdNext, CallStep, Succeeds,
         RefusedReload, SecondReload, FileStep, Disturb

\* When networkd is asked to reload, the directory holds the candidate, and
\* when it is asked again, what the call found.
LEMMA WhatIsThere ==
  ASSUME LoadedInv, native # None, ~native.meddled
  PROVE  /\ native.phase \in {"reload", "succeeded"} => networkd = native.candidate
         /\ native.phase \in {"reload again", "failed"} => networkd = native.previous
<1>1. NetworkdTypeOK /\ networkd \in Artifacts
  BY DEF LoadedInv, NetworkdInv, NetworkdTypeOK
<1>2. native.candidate \in Artifacts /\ native.previous \in Artifacts
  BY <1>1, CallsAreCalls
<1>3. \A a \in ArtifactNames : FileIn(a)
  BY DEF LoadedInv, FilesInv
<1>4. CASE native.phase \in {"reload", "succeeded"}
  BY <1>1, <1>2, <1>3, <1>4, ArtifactsAgree DEF FileIn
<1>5. CASE native.phase \in {"reload again", "failed"}
  BY <1>1, <1>2, <1>3, <1>5, ArtifactsAgree DEF FileIn
<1> QED  BY <1>4, <1>5

\* Once all is read, a step of the call keeps what it installs and what it read.
LEMMA CallKeeps ==
  ASSUME LoadedInv, CallStep, native.phase # "read"
  PROVE  /\ native # None /\ native' # None
         /\ native'.candidate = native.candidate
         /\ native'.previous = native.previous
         /\ native'.meddled = native.meddled
<1>1. NetworkdTypeOK
  BY DEF LoadedInv, NetworkdInv
<1>2. native # None
  BY CallStepEffect DEF LoadedInv
<1>3. ASSUME NEW a \in ArtifactNames, Write(a) \/ Prune(a) \/ Clear(a) \/ Restore(a)
      PROVE  /\ native' # None /\ native'.candidate = native.candidate
             /\ native'.previous = native.previous /\ native'.meddled = native.meddled
  BY <1>1, <1>2, <1>3, DoneEffect DEF Write, Prune, Clear, Restore
<1>4. ASSUME AllWritten \/ AllPruned \/ Reload \/ Refuse \/ AllCleared \/ AllRestored
               \/ ReloadAgain
      PROVE  /\ native' # None /\ native'.candidate = native.candidate
             /\ native'.previous = native.previous /\ native'.meddled = native.meddled
  <2>1. Held(native.previous) \ Held(native.candidate) \in SUBSET ArtifactNames
        /\ Held(networkd) \in SUBSET ArtifactNames
        /\ Held(native.previous) \in SUBSET ArtifactNames /\ {} \in SUBSET ArtifactNames
    BY DEF Held
  <2> QED  BY <1>1, <1>2, <1>4, <2>1, GoToEffect
              DEF AllWritten, AllPruned, Reload, Refuse, AllCleared, AllRestored,
                  ReloadAgain, Phases
<1> QED  BY <1>2, <1>3, <1>4 DEF CallStep, ReadPrevious, AllRead, InPhase

LEMMA SucceedsKeepsLoaded ==
  ASSUME LoadedInv, NetworkdInv', FilesInv', Succeeds
  PROVE  LoadedInv'
<1>1. CallStep /\ native.phase = "reload" /\ networkd' = networkd
      /\ loaded' = networkd /\ disturbed' = native.meddled
  BY DEF Succeeds, Reload, InPhase, CallStep
<1>2. /\ native # None /\ native' # None /\ native'.candidate = native.candidate
      /\ native'.meddled = native.meddled
  BY <1>1, CallKeeps
<1>3. native'.phase = "succeeded"
  BY <1>2, GoToEffect DEF Succeeds, Reload, Phases, LoadedInv, NetworkdInv
<1>4. ~native.meddled => networkd = native.candidate
  BY <1>1, <1>2, WhatIsThere
<1>5. native.candidate \in Candidates
  BY <1>2 DEF LoadedInv
<1> QED  BY <1>1, <1>2, <1>3, <1>4, <1>5 DEF LoadedInv, InPhase, Changing, Applying, Sets

\* A step that is on its way and reads nothing but the directory as it is.
LEMMA ReloadsKeepLoaded ==
  ASSUME LoadedInv, NetworkdInv', FilesInv', RefusedReload \/ SecondReload
  PROVE  LoadedInv'
<1>1. CallStep /\ native.phase \in {"reload", "reload again"} /\ networkd' = networkd
      /\ loaded' \in {loaded, networkd} /\ disturbed' = disturbed
  BY DEF RefusedReload, SecondReload, Refuse, ReloadAgain, InPhase, CallStep
<1>2. /\ native # None /\ native' # None /\ native'.candidate = native.candidate
      /\ native'.previous = native.previous /\ native'.meddled = native.meddled
  BY <1>1, CallKeeps
<1>3. /\ RefusedReload => native'.phase = "clear"
      /\ SecondReload => native'.phase = "failed" /\ native.phase = "reload again"
  <2>1. NetworkdTypeOK /\ Held(networkd) \in SUBSET ArtifactNames
        /\ {} \in SUBSET ArtifactNames
    BY DEF LoadedInv, NetworkdInv, Held
  <2> QED  BY <1>2, <2>1, GoToEffect
              DEF RefusedReload, SecondReload, Refuse, ReloadAgain, Phases, InPhase
<1>4. native.candidate \in Candidates /\ native'.phase # "succeeded"
  BY <1>2, <1>3 DEF LoadedInv
<1>5. ASSUME ~disturbed
      PROVE  /\ loaded \in Sets /\ networkd \in Sets
             /\ ~native.meddled /\ native.previous \in Sets
  <2>1. ~native.meddled /\ native.previous \in Sets /\ loaded \in Sets
    BY <1>1, <1>2, <1>5 DEF LoadedInv, Changing, Applying, InPhase
  <2>2. networkd = native.candidate \/ networkd = native.previous
    BY <1>1, <1>2, <2>1, WhatIsThere
  <2> QED  BY <1>4, <2>1, <2>2 DEF Sets
<1> QED  BY <1>1, <1>2, <1>4, <1>5 DEF LoadedInv, InPhase, Changing

LEMMA FileStepKeepsLoaded ==
  ASSUME LoadedInv, NetworkdInv', FilesInv', FileStep
  PROVE  LoadedInv'
<1>1. loaded' = loaded /\ disturbed' = disturbed
  BY DEF FileStep
<1>2. ASSUME NEW c \in Candidates, Begin(c) PROVE LoadedInv'
  <2>1. /\ native' # None /\ native'.phase = "read" /\ networkd' = networkd
        /\ native'.candidate = c /\ ~native'.meddled
    BY <1>2, BeginEffect DEF LoadedInv, NetworkdInv
  <2>2. ~Changing /\ ~Changing'
    BY <1>2, <2>1 DEF Begin, Changing, Applying, InPhase
  <2> QED  BY <1>1, <2>1, <2>2 DEF LoadedInv
<1>3. CASE Return
  <2>1. native' = None /\ networkd' = networkd /\ ~Changing /\ ~Changing'
    BY <1>3 DEF Return, InPhase, Changing, Applying
  <2> QED  BY <1>1, <2>1 DEF LoadedInv
<1>4. ASSUME NEW a \in ArtifactNames, ReadPrevious(a) PROVE LoadedInv'
  <2>1. /\ native # None /\ native.phase = "read" /\ native' # None
        /\ native'.phase = "read" /\ native'.candidate = native.candidate
        /\ native'.meddled = native.meddled /\ networkd' = networkd
    BY <1>4, ReadEffect DEF LoadedInv, NetworkdInv
  <2>2. ~Changing /\ ~Changing'
    BY <2>1 DEF Changing, InPhase
  <2> QED  BY <1>1, <2>1, <2>2 DEF LoadedInv
<1>5. CASE AllRead
  <2>1. native # None /\ native.phase = "read" /\ native.todo = {} /\ networkd' = networkd
    BY <1>5 DEF AllRead, InPhase
  <2>2. /\ native' # None /\ native'.candidate = native.candidate
        /\ native'.previous = native.previous /\ native'.meddled = native.meddled
    BY <1>5, <2>1, GoToEffect, HeldIsNames DEF AllRead, Phases, LoadedInv, NetworkdInv
  <2>3. ASSUME ~native.meddled PROVE native.previous = networkd
    <3>1. \A a \in ArtifactNames : native.previous[a] = networkd[a]
      BY <2>1, <2>3 DEF LoadedInv, FilesInv, FileIn
    <3>2. native.previous \in Artifacts /\ networkd \in Artifacts
      BY <2>1, CallsAreCalls DEF LoadedInv, NetworkdInv, NetworkdTypeOK
    <3> QED  BY <3>1, <3>2, ArtifactsAgree
  <2>4. ~Changing
    BY <2>1 DEF Changing, InPhase
  <2> QED  BY <1>1, <2>1, <2>2, <2>3, <2>4 DEF LoadedInv
<1>6. ASSUME CallStep, native.phase \notin {"read", "reload", "reload again", "succeeded", "failed"}
      PROVE  LoadedInv'
  <2>1. /\ native # None /\ native' # None /\ native'.candidate = native.candidate
        /\ native'.previous = native.previous /\ native'.meddled = native.meddled
    BY <1>6, CallKeeps
  <2>2. native'.phase \notin {"read", "succeeded", "failed"}
    <3>1. NetworkdTypeOK
      BY DEF LoadedInv, NetworkdInv
    <3>2. ASSUME NEW a \in ArtifactNames, Write(a) \/ Prune(a) \/ Clear(a) \/ Restore(a)
          PROVE  native'.phase = native.phase
      BY <2>1, <3>1, <3>2, DoneEffect DEF Write, Prune, Clear, Restore
    <3>3. ASSUME AllWritten \/ AllPruned \/ Refuse \/ AllCleared \/ AllRestored
          PROVE  native'.phase \in {"prune", "reload", "clear", "restore", "reload again"}
      <4>1. Held(native.previous) \ Held(native.candidate) \in SUBSET ArtifactNames
            /\ Held(networkd) \in SUBSET ArtifactNames
            /\ Held(native.previous) \in SUBSET ArtifactNames
            /\ {} \in SUBSET ArtifactNames
        BY DEF Held
      <4> QED  BY <2>1, <3>1, <3>3, <4>1, GoToEffect
                  DEF AllWritten, AllPruned, Refuse, AllCleared, AllRestored, Phases
    <3>4. ~Reload /\ ~ReloadAgain /\ ~AllRead /\ ~\E a \in ArtifactNames : ReadPrevious(a)
      BY <1>6 DEF Reload, ReloadAgain, AllRead, ReadPrevious, InPhase
    <3> QED  BY <1>6, <3>2, <3>3, <3>4 DEF CallStep
  <2>3. Changing /\ Changing'
    BY <1>6, <2>1, <2>2 DEF Changing, Applying, InPhase
  <2> QED  BY <1>1, <2>1, <2>3 DEF LoadedInv
<1>7. ASSUME NEW a \in ArtifactNames, Write(a) \/ Prune(a) \/ Clear(a) \/ Restore(a)
      PROVE  LoadedInv'
  BY <1>6, <1>7 DEF CallStep, Write, Prune, Clear, Restore, InPhase
<1>8. CASE AllWritten \/ AllPruned \/ AllCleared \/ AllRestored
  BY <1>6, <1>8 DEF CallStep, AllWritten, AllPruned, AllCleared, AllRestored, InPhase
<1>9. CASE ~InPhase("reload") /\ Refuse
  BY <1>6, <1>9 DEF CallStep, Refuse, InPhase
<1> QED  BY <1>2, <1>3, <1>4, <1>5, <1>7, <1>8, <1>9 DEF FileStep

LEMMA DisturbKeepsLoaded ==
  ASSUME LoadedInv, NetworkdInv', FilesInv', Disturb
  PROVE  LoadedInv'
<1>1. loaded' = loaded /\ disturbed' = TRUE
  BY DEF Disturb
<1>2. CASE Abandon
  BY <1>1, <1>2 DEF Abandon, LoadedInv
<1>3. ASSUME NEW a \in ArtifactNames, NEW c \in Contents \cup {Absent}, Drift(a, c)
      PROVE  LoadedInv'
  <2>1. /\ native = None <=> native' = None
        /\ native # None => native'.candidate = native.candidate
    BY <1>3, DriftKeepsNetworkdInv DEF LoadedInv
  <2>2. native # None => native'.meddled
    BY <1>3, DriftEffect DEF LoadedInv
  <2> QED  BY <1>1, <2>1, <2>2 DEF LoadedInv
<1> QED  BY <1>2, <1>3 DEF Disturb

LEMMA LoadedInvHolds ==
  ASSUME \A c \in Contents : ReadText[c] = c
  PROVE  LoadedSpec => []LoadedInv
<1>1. LoadedInit => LoadedInv
  <2> SUFFICES ASSUME LoadedInit PROVE LoadedInv
    OBVIOUS
  <2>1. native = None /\ networkd = NoArtifacts /\ loaded = networkd /\ NetworkdInv
    BY NetworkdInvInit DEF LoadedInit, NetworkdInit
  <2> QED  BY <2>1 DEF LoadedInv, FilesInv, Changing, Applying, Sets
<1>2. LoadedInv /\ [LoadedNext]_loadedVars => LoadedInv'
  <2> SUFFICES ASSUME LoadedInv, [LoadedNext]_loadedVars PROVE LoadedInv'
    OBVIOUS
  <2>1. NetworkdInv' /\ FilesInv'
    BY LoadedStepIsNetworkdStep, NetworkdStepKeepsInv, NetworkdStepKeepsFilesInv
       DEF LoadedInv
  <2>2. CASE UNCHANGED loadedVars
    BY <2>1, <2>2 DEF LoadedInv, loadedVars, networkdVars, InPhase, Changing, Applying
  <2> QED  BY <2>1, <2>2, SucceedsKeepsLoaded, ReloadsKeepLoaded, FileStepKeepsLoaded,
              DisturbKeepsLoaded DEF LoadedNext
<1> QED  BY <1>1, <1>2, PTL DEF LoadedSpec

(* After a failed reload, even if the second one fails unnoticed, networkd *)
(* runs with a whole set: the restored one or the refused one.             *)
THEOREM NetworkdRunsWholeSets ==
  ASSUME \A c \in Contents : ReadText[c] = c
  PROVE  LoadedSpec => []RunsWholeSet
<1>1. LoadedInv => RunsWholeSet
  BY DEF LoadedInv, RunsWholeSet, Sets
<1> QED  BY <1>1, LoadedInvHolds, PTL
=============================================================================
