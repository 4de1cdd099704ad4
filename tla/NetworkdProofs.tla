-------------------------- MODULE NetworkdProofs --------------------------
(***************************************************************************)
(* What installing a candidate guarantees for every set of managed files,  *)
(* contents and candidates.                                                *)
(***************************************************************************)
EXTENDS Networkd, TLAPS

(* Types; only what is wanted is written, and only what was there before   *)
(* is put back.                                                            *)
NetworkdInv ==
  /\ NetworkdTypeOK
  /\ InPhase("write") => native.todo \subseteq Held(native.candidate)
  /\ InPhase("restore") => native.todo \subseteq Held(native.previous)

LEMMA CandidatesAreArtifacts == Candidates \subseteq Artifacts
  BY NetworkdAssumption DEF Artifacts

LEMMA CallsAreCalls ==
  ASSUME NetworkdTypeOK, native # None
  PROVE  /\ native \in Calls
         /\ native.phase \in Phases
         /\ native.previous \in Artifacts
         /\ native.candidate \in Artifacts
         /\ native.todo \subseteq ArtifactNames
         /\ native.meddled \in BOOLEAN
  BY DEF NetworkdTypeOK, Calls

\* Moving on to another phase changes the phase and the names to treat.
LEMMA GoToEffect ==
  ASSUME NetworkdTypeOK, native # None, NEW phase \in Phases,
         NEW todo \in SUBSET ArtifactNames, GoTo(phase, todo)
  PROVE  /\ native' \in Calls
         /\ native' # None
         /\ native'.phase = phase
         /\ native'.todo = todo
         /\ native'.previous = native.previous
         /\ native'.candidate = native.candidate
         /\ native'.meddled = native.meddled
<1>1. native \in Calls
  BY CallsAreCalls
<1>2. native' = [native EXCEPT !.phase = phase, !.todo = todo]
  BY DEF GoTo
<1>3. native' \in Calls
  BY <1>1, <1>2 DEF Calls
<1> QED  BY <1>1, <1>2, <1>3, NetworkdAssumption DEF Calls

\* Having treated a name takes it from the names to treat.
LEMMA DoneEffect ==
  ASSUME NetworkdTypeOK, native # None, NEW a \in ArtifactNames, Done(a)
  PROVE  /\ native' \in Calls
         /\ native' # None
         /\ native'.phase = native.phase
         /\ native'.todo = native.todo \ {a}
         /\ native'.previous = native.previous
         /\ native'.candidate = native.candidate
         /\ native'.meddled = native.meddled
<1>1. native \in Calls
  BY CallsAreCalls
<1>2. native' = [native EXCEPT !.todo = native.todo \ {a}]
  BY DEF Done
<1>3. native' \in Calls
  BY <1>1, <1>2 DEF Calls
<1> QED  BY <1>1, <1>2, <1>3, NetworkdAssumption DEF Calls

\* Having read a file notes it down and takes it from the names to treat.
LEMMA ReadEffect ==
  ASSUME NetworkdTypeOK, NEW a \in ArtifactNames, ReadPrevious(a)
  PROVE  /\ native # None /\ native.phase = "read" /\ a \in native.todo
         /\ native' \in Calls
         /\ native' # None
         /\ native'.phase = "read"
         /\ native'.todo = native.todo \ {a}
         /\ native'.previous = [native.previous EXCEPT ![a] = networkd[a]]
         /\ native'.candidate = native.candidate
         /\ native'.meddled = native.meddled
         /\ networkd' = networkd
<1>1. native # None /\ native \in Calls /\ native.phase = "read" /\ a \in native.todo
  BY CallsAreCalls DEF ReadPrevious, InPhase
<1>2. native' = [native EXCEPT !.previous[a] = networkd[a], !.todo = native.todo \ {a}]
  BY DEF ReadPrevious
<1>3. networkd[a] \in Contents \cup {Absent} /\ native.previous \in Artifacts
  BY <1>1 DEF NetworkdTypeOK, Artifacts, Calls
<1>4. /\ native'.phase = "read" /\ native'.todo = native.todo \ {a}
      /\ native'.previous = [native.previous EXCEPT ![a] = networkd[a]]
      /\ native'.candidate = native.candidate /\ native'.meddled = native.meddled
  BY <1>1, <1>2 DEF Calls
<1>5. [native.previous EXCEPT ![a] = networkd[a]] \in Artifacts
  BY <1>3 DEF Artifacts
<1>6. native' \in Calls
  BY <1>1, <1>2, <1>5 DEF Calls
<1>7. networkd' = networkd
  BY DEF ReadPrevious
<1> QED  BY <1>1, <1>4, <1>6, <1>7, NetworkdAssumption

LEMMA BeginEffect ==
  ASSUME NetworkdTypeOK, NEW c \in Candidates, Begin(c)
  PROVE  /\ native' \in Calls
         /\ native' # None
         /\ native'.phase = "read"
         /\ native'.todo = Held(networkd)
         /\ native'.previous = NoArtifacts
         /\ native'.candidate = c
         /\ ~native'.meddled
         /\ networkd' = networkd
<1>1. NoArtifacts \in Artifacts /\ c \in Artifacts /\ Held(networkd) \subseteq ArtifactNames
  BY CandidatesAreArtifacts DEF NoArtifacts, Artifacts, Held
<1>2. native' = [phase |-> "read", previous |-> NoArtifacts, candidate |-> c,
                 todo |-> Held(networkd), meddled |-> FALSE]
  BY DEF Begin
<1>3. native' \in Calls
  BY <1>1, <1>2 DEF Calls, Phases
<1>4. native' # None
  BY <1>3, NetworkdAssumption
<1>5. networkd' = networkd
  BY DEF Begin
<1> QED  BY <1>2, <1>3, <1>4, <1>5

LEMMA HeldIsNames == ASSUME NEW files PROVE Held(files) \subseteq ArtifactNames
  BY DEF Held


\* A step that only moves to another phase.
LEMMA PhaseStepEffect ==
  ASSUME NetworkdInv, AllRead \/ AllWritten \/ AllPruned \/ Reload \/ Refuse
                      \/ AllCleared \/ AllRestored \/ ReloadAgain
  PROVE  /\ NetworkdInv'
         /\ native # None
         /\ native' # None
         /\ native'.candidate = native.candidate
<1>0. NetworkdTypeOK /\ native # None /\ UNCHANGED networkd
  BY DEF NetworkdInv, AllRead, AllWritten, AllPruned, Reload, Refuse, AllCleared,
         AllRestored, ReloadAgain, InPhase
<1>1. PICK phase \in Phases, todo \in SUBSET ArtifactNames :
        /\ GoTo(phase, todo)
        /\ phase = "write" => todo = Held(native.candidate)
        /\ phase = "restore" => todo = Held(native.previous)
  <2>1. /\ Held(networkd) \subseteq ArtifactNames
        /\ Held(native.candidate) \subseteq ArtifactNames
        /\ Held(native.previous) \subseteq ArtifactNames
        /\ Held(native.previous) \ Held(native.candidate) \subseteq ArtifactNames
    BY HeldIsNames
  <2> QED  BY <2>1 DEF Phases, AllRead, AllWritten, AllPruned, Reload, Refuse,
                       AllCleared, AllRestored, ReloadAgain
<1>2. /\ native' \in Calls /\ native' # None
      /\ native'.candidate = native.candidate /\ native'.previous = native.previous
      /\ native'.phase = "write" => native'.todo = Held(native'.candidate)
      /\ native'.phase = "restore" => native'.todo = Held(native'.previous)
  BY <1>0, <1>1, GoToEffect
<1> QED  BY <1>0, <1>2 DEF NetworkdInv, NetworkdTypeOK, InPhase

\* A step that treats one file.
LEMMA FileStepEffect ==
  ASSUME NetworkdInv, NEW a \in ArtifactNames,
         Write(a) \/ Prune(a) \/ Clear(a) \/ Restore(a)
  PROVE  /\ NetworkdInv'
         /\ native # None
         /\ native' # None
         /\ native'.candidate = native.candidate
<1>0. NetworkdTypeOK /\ native # None /\ Done(a)
  BY DEF NetworkdInv, Write, Prune, Clear, Restore, InPhase
<1>1. /\ native' \in Calls /\ native' # None
      /\ native'.candidate = native.candidate /\ native'.previous = native.previous
      /\ native'.phase = native.phase /\ native'.todo = native.todo \ {a}
  BY <1>0, DoneEffect
<1>2. PICK c \in Contents \cup {Absent} : networkd' = [networkd EXCEPT ![a] = c]
  <2>1. CASE Write(a)
    BY <1>0, <2>1, CallsAreCalls DEF Write, Artifacts
  <2>2. CASE Prune(a) \/ Clear(a)
    BY <2>2 DEF Prune, Clear
  <2>3. CASE Restore(a)
    <3>1. a \in Held(native.previous) /\ native.previous \in Artifacts
      BY <1>0, <2>3, CallsAreCalls DEF NetworkdInv, Restore
    <3>2. native.previous[a] \in Contents
      BY <3>1 DEF Held, Artifacts
    <3> QED  BY <2>3, <3>2, NetworkdAssumption DEF Restore
  <2> QED  BY <2>1, <2>2, <2>3
<1>3. networkd' \in Artifacts
  BY <1>0, <1>2 DEF NetworkdTypeOK, Artifacts
<1> QED  BY <1>0, <1>1, <1>3 DEF NetworkdInv, NetworkdTypeOK, InPhase

LEMMA ReadKeepsNetworkdInv ==
  ASSUME NetworkdInv, NEW a \in ArtifactNames, ReadPrevious(a)
  PROVE  NetworkdInv'
<1>1. NetworkdTypeOK
  BY DEF NetworkdInv
<1> QED  BY <1>1, ReadEffect DEF NetworkdInv, NetworkdTypeOK, InPhase

LEMMA CallStepEffect ==
  ASSUME NetworkdInv, CallStep
  PROVE  /\ NetworkdInv'
         /\ native # None
         /\ native' # None
         /\ native'.candidate = native.candidate
<1>1. ASSUME NEW a \in ArtifactNames, ReadPrevious(a)
      PROVE  /\ NetworkdInv' /\ native # None /\ native' # None
             /\ native'.candidate = native.candidate
  BY <1>1, ReadEffect, ReadKeepsNetworkdInv DEF NetworkdInv
<1> QED  BY <1>1, PhaseStepEffect, FileStepEffect DEF CallStep

LEMMA DriftEffect ==
  ASSUME NetworkdInv, NEW a \in ArtifactNames, NEW c \in Contents \cup {Absent}, Drift(a, c)
  PROVE  \/ native = None /\ native' = None
         \/ native # None /\ native'.meddled
<1>1. CASE native = None
  BY <1>1 DEF Drift
<1>2. CASE native # None
  <2>1. native \in Calls /\ native' = [native EXCEPT !.meddled = TRUE]
    BY <1>2 DEF Drift, NetworkdInv, NetworkdTypeOK
  <2> QED  BY <1>2, <2>1 DEF Calls
<1> QED  BY <1>1, <1>2

LEMMA DriftKeepsNetworkdInv ==
  ASSUME NetworkdInv, NEW a \in ArtifactNames, NEW c \in Contents \cup {Absent}, Drift(a, c)
  PROVE  /\ NetworkdInv'
         /\ native = None <=> native' = None
         /\ native # None => native'.candidate = native.candidate
<1>1. networkd' \in Artifacts
  BY DEF NetworkdInv, NetworkdTypeOK, Artifacts, Drift
<1>2. CASE native = None
  BY <1>1, <1>2 DEF Drift, NetworkdInv, NetworkdTypeOK, InPhase
<1>3. CASE native # None
  <2>1. native \in Calls /\ native' = [native EXCEPT !.meddled = TRUE]
    BY <1>3 DEF Drift, NetworkdInv, NetworkdTypeOK
  <2>2. /\ native' \in Calls /\ native'.phase = native.phase /\ native'.todo = native.todo
        /\ native'.previous = native.previous /\ native'.candidate = native.candidate
    BY <2>1 DEF Calls
  <2> QED  BY <1>1, <1>3, <2>2, NetworkdAssumption DEF NetworkdInv, NetworkdTypeOK, InPhase
<1> QED  BY <1>2, <1>3

LEMMA NoCallKeepsNetworkdInv ==
  ASSUME NetworkdInv, native' = None, UNCHANGED networkd
  PROVE  NetworkdInv'
  BY DEF NetworkdInv, NetworkdTypeOK, InPhase

LEMMA BeginKeepsNetworkdInv ==
  ASSUME NetworkdInv, NEW c \in Candidates, Begin(c)
  PROVE  NetworkdInv'
<1>1. NetworkdTypeOK
  BY DEF NetworkdInv
<1> QED  BY <1>1, BeginEffect DEF NetworkdInv, NetworkdTypeOK, InPhase

LEMMA NetworkdInvInit == ASSUME NetworkdInit PROVE NetworkdInv
  BY DEF NetworkdInit, NetworkdInv, NetworkdTypeOK, InPhase, NoArtifacts, Artifacts

LEMMA NetworkdStepKeepsInv ==
  ASSUME NetworkdInv, [NetworkdNext]_networkdVars
  PROVE  NetworkdInv'
<1>1. ASSUME NEW c \in Candidates, Begin(c) PROVE NetworkdInv'
  BY <1>1, BeginKeepsNetworkdInv
<1>2. CASE CallStep
  BY <1>2, CallStepEffect
<1>3. CASE Return \/ Abandon
  BY <1>3, NoCallKeepsNetworkdInv DEF Return, Abandon
<1>4. ASSUME NEW a \in ArtifactNames, NEW c \in Contents \cup {Absent}, Drift(a, c)
      PROVE  NetworkdInv'
  BY <1>4, DriftKeepsNetworkdInv
<1>5. CASE UNCHANGED networkdVars
  BY <1>5 DEF networkdVars, NetworkdInv, NetworkdTypeOK, InPhase
<1> QED  BY <1>1, <1>2, <1>3, <1>4, <1>5 DEF NetworkdNext

(* What the directory holds in each phase of a call nobody disturbs: what  *)
(* was read is what there is; then the names treated so far have their new *)
(* contents, the others their old.                                         *)
FileIn(a) ==
  LET old == native.previous[a]
      new == native.candidate[a]
      waits == a \in native.todo
  IN  /\ native.phase = "read" => old = IF waits THEN Absent ELSE networkd[a]
      /\ native.phase = "write" =>
           networkd[a] = IF ~waits /\ new # Absent THEN new ELSE old
      /\ native.phase = "prune" =>
           /\ waits => new = Absent
           /\ networkd[a] = IF waits THEN old ELSE new
      /\ native.phase \in {"reload", "succeeded"} => networkd[a] = new
      /\ native.phase = "clear" =>
           networkd[a] \in (IF waits THEN {old, new, Absent} ELSE {Absent})
      /\ native.phase = "restore" => networkd[a] = IF waits THEN Absent ELSE old
      /\ native.phase \in {"reload again", "failed"} => networkd[a] = old

FilesInv == native # None /\ ~native.meddled => \A a \in ArtifactNames : FileIn(a)

LEMMA BeginKeepsFilesInv ==
  ASSUME NetworkdInv, NEW c \in Candidates, Begin(c)
  PROVE  FilesInv'
<1>1. NetworkdTypeOK
  BY DEF NetworkdInv
<1>2. /\ native'.phase = "read" /\ native'.todo = Held(networkd)
      /\ native'.previous = NoArtifacts /\ networkd' = networkd
  BY <1>1, BeginEffect
<1> QED  BY <1>2 DEF FilesInv, FileIn, Held, NoArtifacts

LEMMA ReadKeepsFilesInv ==
  ASSUME NetworkdInv, FilesInv, NEW a \in ArtifactNames, ReadPrevious(a)
  PROVE  FilesInv'
<1>1. NetworkdTypeOK
  BY DEF NetworkdInv
<1>2. /\ native # None /\ native.phase = "read" /\ native'.phase = "read"
      /\ native'.todo = native.todo \ {a} /\ native'.meddled = native.meddled
      /\ native'.previous = [native.previous EXCEPT ![a] = networkd[a]]
      /\ networkd' = networkd /\ native.previous \in Artifacts
  BY <1>1, ReadEffect, CallsAreCalls
<1> SUFFICES ASSUME ~native'.meddled, NEW b \in ArtifactNames PROVE FileIn(b)'
  BY DEF FilesInv
<1>3. FileIn(b)
  BY <1>2 DEF FilesInv
<1> QED  BY <1>2, <1>3 DEF FileIn, Artifacts

LEMMA PhaseStepKeepsFilesInv ==
  ASSUME NetworkdInv, FilesInv,
         AllRead \/ AllWritten \/ AllPruned \/ Reload \/ Refuse
           \/ AllCleared \/ AllRestored \/ ReloadAgain
  PROVE  FilesInv'
<1>0. NetworkdTypeOK /\ native # None /\ UNCHANGED networkd
  BY DEF NetworkdInv, AllRead, AllWritten, AllPruned, Reload, Refuse, AllCleared, AllRestored,
         ReloadAgain, InPhase
<1>1. ASSUME NEW phase \in Phases, NEW todo \in SUBSET ArtifactNames, GoTo(phase, todo)
      PROVE  /\ native'.phase = phase /\ native'.todo = todo
             /\ native'.previous = native.previous
             /\ native'.candidate = native.candidate
             /\ native'.meddled = native.meddled
  BY <1>0, <1>1, GoToEffect
<1>2. /\ Held(networkd) \in SUBSET ArtifactNames
      /\ Held(native.previous) \in SUBSET ArtifactNames
      /\ Held(native.previous) \ Held(native.candidate) \in SUBSET ArtifactNames
      /\ {} \in SUBSET ArtifactNames
      /\ Held(native.candidate) \in SUBSET ArtifactNames
      /\ Phases = {"read", "write", "prune", "reload", "clear", "restore",
                   "reload again", "succeeded", "failed"}
  BY HeldIsNames DEF Phases
<1> SUFFICES ASSUME ~native'.meddled, NEW a \in ArtifactNames PROVE FileIn(a)'
  BY DEF FilesInv
<1>3. native.meddled \in BOOLEAN
  BY <1>0, CallsAreCalls
<1>4. ASSUME ~native.meddled PROVE FileIn(a)
  BY <1>0, <1>4 DEF FilesInv
<1>5. CASE AllWritten
  <2>1. GoTo("prune", Held(native.previous) \ Held(native.candidate))
    BY <1>5 DEF AllWritten
  <2>2. FileIn(a) /\ native.phase = "write" /\ native.todo = {}
    BY <1>1, <1>2, <1>4, <1>5, <2>1 DEF AllWritten, InPhase
  <2>3. networkd[a] = IF native.candidate[a] # Absent THEN native.candidate[a]
                      ELSE native.previous[a]
    BY <2>2 DEF FileIn
  <2>4. /\ native'.phase = "prune" /\ native'.todo = Held(native.previous) \ Held(native.candidate)
        /\ native'.previous = native.previous /\ native'.candidate = native.candidate
    BY <1>1, <1>2, <2>1
  <2>5. a \in native'.todo <=> native.previous[a] # Absent /\ native.candidate[a] = Absent
    BY <2>4 DEF Held
  <2> QED  BY <1>0, <2>3, <2>4, <2>5 DEF FileIn
<1>6. CASE AllPruned
  BY <1>0, <1>1, <1>2, <1>4, <1>6 DEF AllPruned, InPhase, FileIn
<1>7. CASE Reload
  BY <1>0, <1>1, <1>2, <1>4, <1>7 DEF Reload, InPhase, FileIn
<1>8. CASE Refuse
  <2>1. GoTo("clear", Held(networkd))
    BY <1>8 DEF Refuse
  <2>2. FileIn(a) /\ native.phase \in {"write", "prune", "reload"}
    BY <1>1, <1>2, <1>4, <1>8, <2>1 DEF Refuse, InPhase
  <2>3. networkd[a] \in {native.previous[a], native.candidate[a], Absent}
    BY <2>2 DEF FileIn
  <2>4. /\ native'.phase = "clear" /\ native'.todo = Held(networkd)
        /\ native'.previous = native.previous /\ native'.candidate = native.candidate
    BY <1>1, <1>2, <2>1
  <2>5. a \in native'.todo <=> networkd[a] # Absent
    BY <2>4 DEF Held
  <2> QED  BY <1>0, <2>3, <2>4, <2>5 DEF FileIn
<1>9. CASE AllCleared
  <2>1. GoTo("restore", Held(native.previous))
    BY <1>9 DEF AllCleared
  <2>2. FileIn(a) /\ native.phase = "clear" /\ native.todo = {}
    BY <1>1, <1>2, <1>4, <1>9, <2>1 DEF AllCleared, InPhase
  <2>3. networkd[a] = Absent
    BY <2>2 DEF FileIn
  <2>4. /\ native'.phase = "restore" /\ native'.todo = Held(native.previous)
        /\ native'.previous = native.previous /\ native'.candidate = native.candidate
    BY <1>1, <1>2, <2>1
  <2>5. a \in native'.todo <=> native.previous[a] # Absent
    BY <2>4 DEF Held
  <2> QED  BY <1>0, <2>3, <2>4, <2>5 DEF FileIn
<1>10. CASE AllRestored
  BY <1>0, <1>1, <1>2, <1>4, <1>10 DEF AllRestored, InPhase, FileIn
<1>11. CASE ReloadAgain
  BY <1>0, <1>1, <1>2, <1>4, <1>11 DEF ReloadAgain, InPhase, FileIn
<1>12. CASE AllRead
  <2>1. GoTo("write", Held(native.candidate))
    BY <1>12 DEF AllRead
  <2>2. FileIn(a) /\ native.phase = "read" /\ native.todo = {}
    BY <1>1, <1>2, <1>4, <1>12, <2>1 DEF AllRead, InPhase
  <2>3. native.previous[a] = networkd[a]
    BY <2>2 DEF FileIn
  <2>4. /\ native'.phase = "write" /\ native'.todo = Held(native.candidate)
        /\ native'.previous = native.previous /\ native'.candidate = native.candidate
    BY <1>1, <1>2, <2>1
  <2>5. a \in native'.todo <=> native.candidate[a] # Absent
    BY <2>4 DEF Held
  <2> QED  BY <1>0, <2>3, <2>4, <2>5 DEF FileIn
<1> QED  BY <1>5, <1>6, <1>7, <1>8, <1>9, <1>10, <1>11, <1>12

\* What is written back is what was read when no managed file has carriage
\* returns; nothing else depends on how files are read.
LEMMA FileStepKeepsFilesInv ==
  ASSUME NetworkdInv, FilesInv, NEW a \in ArtifactNames,
         Write(a) \/ Prune(a) \/ Clear(a) \/ Restore(a),
         Restore(a) => \A c \in Contents : ReadText[c] = c
  PROVE  FilesInv'
<1>0. NetworkdTypeOK /\ native # None /\ Done(a) /\ a \in native.todo
  BY DEF NetworkdInv, Write, Prune, Clear, Restore, InPhase
<1>1. /\ native'.candidate = native.candidate /\ native'.previous = native.previous
      /\ native'.phase = native.phase /\ native'.todo = native.todo \ {a}
      /\ native'.meddled = native.meddled
  BY <1>0, DoneEffect
<1>2. networkd \in [ArtifactNames -> Contents \cup {Absent}]
  BY <1>0 DEF NetworkdTypeOK, Artifacts
<1> SUFFICES ASSUME ~native'.meddled, NEW b \in ArtifactNames PROVE FileIn(b)'
  BY DEF FilesInv
<1>3. FileIn(b) /\ FileIn(a)
  BY <1>0, <1>1 DEF FilesInv
<1>4. CASE Write(a)
  <2>1. networkd' = [networkd EXCEPT ![a] = native.candidate[a]] /\ native.phase = "write"
    BY <1>4 DEF Write, InPhase
  <2> QED  BY <1>0, <1>1, <1>2, <1>3, <2>1 DEF FileIn, NetworkdInv, InPhase, Held
<1>5. CASE Prune(a)
  <2>1. networkd' = [networkd EXCEPT ![a] = Absent] /\ native.phase = "prune"
    BY <1>5 DEF Prune, InPhase
  <2> QED  BY <1>0, <1>1, <1>2, <1>3, <2>1 DEF FileIn
<1>6. CASE Clear(a)
  <2>1. networkd' = [networkd EXCEPT ![a] = Absent] /\ native.phase = "clear"
    BY <1>6 DEF Clear, InPhase
  <2> QED  BY <1>0, <1>1, <1>2, <1>3, <2>1 DEF FileIn
<1>7. CASE Restore(a)
  <2>1. /\ networkd' = [networkd EXCEPT ![a] = ReadText[native.previous[a]]]
        /\ native.phase = "restore"
    BY <1>7 DEF Restore, InPhase
  <2>2. native.previous[a] \in Contents
    BY <1>0, <2>1, CallsAreCalls DEF NetworkdInv, InPhase, Held, Artifacts
  <2>3. ReadText[native.previous[a]] = native.previous[a]
    BY <1>7, <2>2
  <2> QED  BY <1>0, <1>1, <1>2, <1>3, <2>1, <2>2, <2>3 DEF FileIn
<1> QED  BY <1>4, <1>5, <1>6, <1>7

LEMMA NetworkdStepKeepsFilesInv ==
  ASSUME \A c \in Contents : ReadText[c] = c,
         NetworkdInv, FilesInv, [NetworkdNext]_networkdVars
  PROVE  FilesInv'
<1>1. ASSUME NEW c \in Candidates, Begin(c) PROVE FilesInv'
  BY <1>1, BeginKeepsFilesInv
<1>2. CASE CallStep
  BY <1>2, ReadKeepsFilesInv, PhaseStepKeepsFilesInv, FileStepKeepsFilesInv DEF CallStep
<1>3. CASE Return \/ Abandon
  BY <1>3 DEF Return, Abandon, FilesInv
<1>4. ASSUME NEW a \in ArtifactNames, NEW c \in Contents \cup {Absent}, Drift(a, c)
      PROVE  FilesInv'
  BY <1>4, DriftEffect DEF FilesInv
<1>5. CASE UNCHANGED networkdVars
  BY <1>5 DEF networkdVars, FilesInv, FileIn
<1> QED  BY <1>1, <1>2, <1>3, <1>4, <1>5 DEF NetworkdNext

(* The same while the candidate is being installed, whatever a restore     *)
(* after it makes of the previous files.                                   *)
Installing ==
  native # None /\ native.phase \in {"read", "write", "prune", "reload", "succeeded"}

InstallingInv == Installing /\ ~native.meddled => \A a \in ArtifactNames : FileIn(a)

\* What has been given up is not taken up again by the same call.
LEMMA RestoringGoesOn ==
  ASSUME NetworkdInv, CallStep, ~Installing
  PROVE  ~Installing'
<1>0. NetworkdTypeOK /\ native # None
      /\ native.phase \in {"clear", "restore", "reload again", "failed"}
  BY CallStepEffect, CallsAreCalls DEF NetworkdInv, Installing, Phases
<1>1. ASSUME NEW a \in ArtifactNames, Write(a) \/ Prune(a) \/ Clear(a) \/ Restore(a)
      PROVE  ~Installing'
  BY <1>0, <1>1, DoneEffect DEF Write, Prune, Clear, Restore, Installing
<1>2. CASE AllCleared \/ AllRestored \/ ReloadAgain
  <2>1. PICK phase \in {"restore", "reload again", "failed"} :
          \E todo \in SUBSET ArtifactNames : GoTo(phase, todo)
    BY <1>2, HeldIsNames DEF AllCleared, AllRestored, ReloadAgain
  <2>2. phase \in Phases
    BY <2>1 DEF Phases
  <2> QED  BY <1>0, <2>1, <2>2, GoToEffect DEF Installing
<1> QED  BY <1>0, <1>1, <1>2 DEF CallStep, ReadPrevious, AllRead, AllWritten, AllPruned,
                                Reload, Refuse, InPhase

LEMMA NetworkdStepKeepsInstallingInv ==
  ASSUME NetworkdInv, InstallingInv, [NetworkdNext]_networkdVars
  PROVE  InstallingInv'
<1>1. ASSUME NEW c \in Candidates, Begin(c) PROVE InstallingInv'
  BY <1>1, BeginKeepsFilesInv DEF FilesInv, InstallingInv, Installing
<1>2. CASE CallStep
  <2>1. CASE Installing
    <3>1. FilesInv
      BY <2>1 DEF FilesInv, InstallingInv
    <3>2. \A a \in ArtifactNames : ~Restore(a)
      BY <2>1 DEF Installing, Restore, InPhase
    <3>3. FilesInv'
      BY <1>2, <3>1, <3>2, ReadKeepsFilesInv, PhaseStepKeepsFilesInv,
         FileStepKeepsFilesInv DEF CallStep
    <3> QED  BY <3>3 DEF FilesInv, InstallingInv, Installing
  <2>2. CASE ~Installing
    BY <1>2, <2>2, RestoringGoesOn DEF InstallingInv
  <2> QED  BY <2>1, <2>2
<1>3. CASE Return \/ Abandon
  BY <1>3 DEF Return, Abandon, InstallingInv, Installing
<1>4. ASSUME NEW a \in ArtifactNames, NEW c \in Contents \cup {Absent}, Drift(a, c)
      PROVE  InstallingInv'
  BY <1>4, DriftEffect DEF InstallingInv, Installing
<1>5. CASE UNCHANGED networkdVars
  BY <1>5 DEF networkdVars, InstallingInv, Installing, FileIn
<1> QED  BY <1>1, <1>2, <1>3, <1>4, <1>5 DEF NetworkdNext

LEMMA ArtifactsAgree ==
  ASSUME NEW s \in Artifacts, NEW t \in Artifacts,
         \A a \in ArtifactNames : s[a] = t[a]
  PROVE  s = t
  BY DEF Artifacts

(* networkd reads the directory only when it holds a complete set, whatever *)
(* step of the installation or of the restore failed (backends/networkd.py  *)
(* apply), when no managed file is changed by being read as text.           *)
THEOREM ReloadsComplete ==
  ASSUME \A c \in Contents : ReadText[c] = c
  PROVE  NetworkdSpec => [](NetworkdTypeOK /\ NeverReloadsPartial)
<1>1. NetworkdInit => NetworkdInv /\ FilesInv
  BY NetworkdInvInit DEF NetworkdInit, FilesInv
<1>2. NetworkdInv /\ FilesInv /\ [NetworkdNext]_networkdVars => (NetworkdInv /\ FilesInv)'
  BY NetworkdStepKeepsInv, NetworkdStepKeepsFilesInv
<1>3. NetworkdInv /\ FilesInv => NetworkdTypeOK /\ NeverReloadsPartial
  <2> SUFFICES ASSUME NetworkdInv, FilesInv PROVE NetworkdTypeOK /\ NeverReloadsPartial
    OBVIOUS
  <2>1. NetworkdTypeOK
    BY DEF NetworkdInv
  <2>2. ASSUME native # None, ~native.meddled, native.phase = "reload"
        PROVE  networkd = native.candidate
    BY <2>1, <2>2, CallsAreCalls, ArtifactsAgree DEF FilesInv, FileIn, NetworkdTypeOK
  <2>3. ASSUME native # None, ~native.meddled, native.phase = "reload again"
        PROVE  networkd = native.previous
    BY <2>1, <2>3, CallsAreCalls, ArtifactsAgree DEF FilesInv, FileIn, NetworkdTypeOK
  <2> QED  BY <2>1, <2>2, <2>3 DEF NeverReloadsPartial
<1> QED  BY <1>1, <1>2, <1>3, PTL DEF NetworkdSpec

(* -------------------- the call as its caller sees it ------------------- *)

LEMMA SeenIdle ==
  ASSUME native = None
  PROVE  Installed = networkd /\ Wanted = None /\ Call = "idle" /\ Meddled = FALSE
  BY DEF Installed, Changing, Applying, Wanted, Call, Meddled, InPhase

LEMMA SeenApplying ==
  ASSUME native # None, native.phase \notin {"read", "succeeded", "failed"},
         native.meddled \in BOOLEAN
  PROVE  /\ Installed = native.previous /\ Wanted = native.candidate
         /\ Call = "applying" /\ Meddled = native.meddled
  BY DEF Installed, Changing, Applying, Wanted, Call, Meddled, InPhase

LEMMA SeenReading ==
  ASSUME native # None, native.phase = "read", native.meddled \in BOOLEAN
  PROVE  /\ Installed = networkd /\ Wanted = native.candidate
         /\ Call = "applying" /\ Meddled = native.meddled
  BY DEF Installed, Changing, Applying, Wanted, Call, Meddled, InPhase

LEMMA SeenOver ==
  ASSUME native # None, native.phase \in {"succeeded", "failed"},
         native.meddled \in BOOLEAN
  PROVE  /\ Installed = networkd /\ Wanted = native.candidate
         /\ Call = native.phase /\ Meddled = native.meddled
  BY DEF Installed, Changing, Applying, Wanted, Call, Meddled, InPhase

LEMMA SeenApplyingNext ==
  ASSUME native' # None, native'.phase \notin {"read", "succeeded", "failed"},
         native'.meddled \in BOOLEAN
  PROVE  /\ Installed' = native'.previous /\ Wanted' = native'.candidate
         /\ Call' = "applying" /\ Meddled' = native'.meddled
  BY DEF Installed, Changing, Applying, Wanted, Call, Meddled, InPhase

LEMMA SeenReadingNext ==
  ASSUME native' # None, native'.phase = "read", native'.meddled \in BOOLEAN
  PROVE  /\ Installed' = networkd' /\ Wanted' = native'.candidate
         /\ Call' = "applying" /\ Meddled' = native'.meddled
  BY DEF Installed, Changing, Applying, Wanted, Call, Meddled, InPhase

LEMMA SeenOverNext ==
  ASSUME native' # None, native'.phase \in {"succeeded", "failed"},
         native'.meddled \in BOOLEAN
  PROVE  /\ Installed' = networkd' /\ Wanted' = native'.candidate
         /\ Call' = native'.phase /\ Meddled' = native'.meddled
  BY DEF Installed, Changing, Applying, Wanted, Call, Meddled, InPhase

LEMMA SeenIdleNext ==
  ASSUME native' = None
  PROVE  /\ Installed' = networkd' /\ Wanted' = None
         /\ Call' = "idle" /\ Meddled' = FALSE
  BY DEF Installed, Changing, Applying, Wanted, Call, Meddled, InPhase

\* The writing begins when all is read.
LEMMA WritingFollowsReading ==
  ASSUME NetworkdInv, CallStep, native.phase = "read", native'.phase = "write"
  PROVE  native.todo = {}
<1>1. NetworkdTypeOK
  BY DEF NetworkdInv
<1>2. ASSUME NEW a \in ArtifactNames, ReadPrevious(a) PROVE FALSE
  BY <1>1, <1>2, ReadEffect
<1> QED  BY <1>2 DEF CallStep, AllRead, AllWritten, AllPruned, Reload, Refuse, AllCleared,
                    AllRestored, ReloadAgain, Write, Prune, Clear, Restore, InPhase

\* A step of the call's own is invisible, or its success or its failure.
LEMMA CallStepIsSeen ==
  ASSUME \A c \in Contents : ReadText[c] = c,
         NetworkdInv, FilesInv, CallStep
  PROVE  /\ Call = "applying" /\ Wanted = native.candidate
         /\ Wanted' = Wanted /\ Meddled' = Meddled
         /\ \/ /\ Call' = "applying"
               /\ Installed' = Installed \/ (Meddled /\ Installed' \in Artifacts)
            \/ /\ Call' = "succeeded"
               /\ Installed' = Wanted \/ (Meddled /\ Installed' \in Artifacts)
            \/ /\ Call' = "failed"
               /\ Installed' = Installed \/ (Meddled /\ Installed' \in Artifacts)
<1>1. NetworkdTypeOK /\ native # None /\ native' # None /\ NetworkdTypeOK'
      /\ NetworkdInv' /\ FilesInv'
  BY CallStepEffect, NetworkdStepKeepsFilesInv DEF NetworkdInv, NetworkdNext
<1>2. /\ native \in Calls /\ native' \in Calls
      /\ native.meddled \in BOOLEAN /\ native'.meddled \in BOOLEAN
  BY <1>1 DEF NetworkdTypeOK, Calls
<1>3. /\ native'.candidate = native.candidate /\ native'.meddled = native.meddled
      /\ native.phase # "read" => native'.previous = native.previous /\ native'.phase # "read"
      /\ native.phase = "read" => networkd' = networkd
                                 /\ native'.phase \in {"read", "write"}
      /\ native'.phase = "write" /\ native.phase = "read" =>
           native'.previous = native.previous
      /\ native.phase \notin {"succeeded", "failed"}
      /\ native'.phase = "succeeded" => native.phase = "reload" /\ networkd' = networkd
      /\ native'.phase = "failed" => native.phase = "reload again" /\ networkd' = networkd
  <2>1. CASE \E a \in ArtifactNames : Write(a) \/ Prune(a) \/ Clear(a) \/ Restore(a)
    BY <1>1, <2>1, DoneEffect DEF Write, Prune, Clear, Restore, InPhase
  <2>2. CASE \E a \in ArtifactNames : ReadPrevious(a)
    BY <1>1, <2>2, ReadEffect
  <2>3. CASE /\ ~\E a \in ArtifactNames : Write(a) \/ Prune(a) \/ Clear(a) \/ Restore(a)
             /\ ~\E a \in ArtifactNames : ReadPrevious(a)
    <3>1. \A phase \in Phases, todo \in SUBSET ArtifactNames : GoTo(phase, todo) =>
             /\ native'.phase = phase
             /\ native'.previous = native.previous
             /\ native'.candidate = native.candidate
             /\ native'.meddled = native.meddled
      BY <1>1, GoToEffect
    <3>2. /\ Held(networkd) \in SUBSET ArtifactNames
          /\ Held(native.previous) \in SUBSET ArtifactNames
          /\ Held(native.previous) \ Held(native.candidate) \in SUBSET ArtifactNames
          /\ {} \in SUBSET ArtifactNames
          /\ Held(native.candidate) \in SUBSET ArtifactNames
      BY HeldIsNames
    <3> QED  BY <2>3, <3>1, <3>2 DEF CallStep, AllRead, AllWritten, AllPruned, Reload, Refuse,
                  AllCleared, AllRestored, ReloadAgain, InPhase, Phases
  <2> QED  BY <2>1, <2>2, <2>3
<1>4. CASE native'.phase \notin {"succeeded", "failed"}
  <2>1. CASE native.phase # "read"
    BY <1>1, <1>2, <1>3, <1>4, <2>1, SeenApplying, SeenApplyingNext
  <2>2. CASE native.phase = "read" /\ native'.phase = "read"
    BY <1>1, <1>2, <1>3, <2>2, SeenReading, SeenReadingNext
  <2>3. CASE native.phase = "read" /\ native'.phase = "write"
    <3>1. /\ Installed' = native'.previous /\ Installed = networkd /\ networkd' = networkd
          /\ Call = "applying" /\ Call' = "applying" /\ Meddled = native.meddled
          /\ Wanted = native.candidate /\ Wanted' = Wanted /\ Meddled' = Meddled
      BY <1>1, <1>2, <1>3, <2>3, SeenReading, SeenApplyingNext
    <3>2. native'.previous \in Artifacts
      BY <1>1, CallsAreCalls DEF NetworkdTypeOK, Calls
    <3>3. ASSUME ~native.meddled PROVE native'.previous = networkd
      <4>1. \A a \in ArtifactNames : FileIn(a)
        BY <1>1, <3>3 DEF FilesInv
      <4>2. native.previous = native'.previous /\ native.todo = {}
        BY <1>1, <1>3, <2>3, ReadEffect, WritingFollowsReading
      <4>3. \A a \in ArtifactNames : native.previous[a] = networkd[a]
        BY <2>3, <4>1, <4>2 DEF FileIn
      <4> QED  BY <1>1, <3>2, <4>2, <4>3, ArtifactsAgree DEF NetworkdTypeOK
    <3> QED  BY <3>1, <3>2, <3>3
  <2> QED  BY <1>3, <2>1, <2>2, <2>3
<1>5. CASE native'.phase = "succeeded"
  <2>1. /\ Installed' = networkd /\ Call = "applying" /\ Call' = "succeeded"
        /\ Wanted = native.candidate /\ Wanted' = Wanted /\ Meddled' = Meddled
    BY <1>1, <1>2, <1>3, <1>5, SeenApplying, SeenOverNext
  <2>2. Installed' = Wanted \/ (Meddled /\ Installed' \in Artifacts)
    <3>1. CASE native.meddled
      BY <1>1, <2>1, <3>1 DEF Meddled, NetworkdTypeOK
    <3>2. CASE ~native.meddled
      <4>1. \A a \in ArtifactNames : networkd'[a] = native'.candidate[a]
        BY <1>1, <1>3, <1>5, <3>2 DEF FilesInv, FileIn
      <4>2. native.candidate \in Artifacts /\ networkd' \in Artifacts
        BY <1>1, CallsAreCalls DEF NetworkdTypeOK
      <4> QED  BY <1>3, <1>5, <2>1, <4>1, <4>2, ArtifactsAgree
    <3> QED  BY <3>1, <3>2
  <2> QED  BY <2>1, <2>2
<1>6. CASE native'.phase = "failed"
  <2>1. /\ Installed' = networkd /\ Call = "applying" /\ Call' = "failed"
        /\ Installed = native.previous
        /\ Wanted = native.candidate /\ Wanted' = Wanted /\ Meddled' = Meddled
    BY <1>1, <1>2, <1>3, <1>6, SeenApplying, SeenOverNext
  <2>2. Installed' = Installed \/ (Meddled /\ Installed' \in Artifacts)
    <3>1. CASE native.meddled
      BY <1>1, <2>1, <3>1 DEF Meddled, NetworkdTypeOK
    <3>2. CASE ~native.meddled
      BY <1>1, <1>3, <1>6, <2>1, <3>2, CallsAreCalls, ArtifactsAgree
         DEF FilesInv, FileIn, NetworkdTypeOK
    <3> QED  BY <3>1, <3>2
  <2> QED  BY <2>1, <2>2
<1> QED  BY <1>4, <1>5, <1>6

LEMMA CallStepKeepsPromise ==
  ASSUME \A c \in Contents : ReadText[c] = c,
         NetworkdInv, FilesInv, CallStep
  PROVE  [Promise!NativeNext]_(Promise!nativeVars)
  BY CallStepIsSeen
  DEF Promise!NativeNext, Promise!Succeed, Promise!Fail, Promise!Meddle,
      Promise!nativeVars, Meddled

\* An abandoned call leaves of each file the old one, the new one or none.
LEMMA AbandonIsSeen ==
  ASSUME NetworkdInv, FilesInv, Applying, native' = None, networkd' = networkd
  PROVE  /\ Call = "applying" /\ Wanted = native.candidate /\ Meddled = native.meddled
         /\ Call' = "idle" /\ Wanted' = None /\ Meddled' = FALSE
         /\ Installed' \in Artifacts
         /\ Meddled \/ \A a \in ArtifactNames :
                         Installed'[a] \in {Installed[a], Wanted[a], Absent}
<1>1. /\ native # None /\ native \in Calls /\ native.phase \notin {"succeeded", "failed"}
      /\ native.meddled \in BOOLEAN /\ networkd \in Artifacts
      /\ native' = None /\ networkd' = networkd
  BY DEF Applying, NetworkdInv, NetworkdTypeOK, Calls
<1>2. /\ Wanted = native.candidate /\ Call = "applying" /\ Meddled = native.meddled
      /\ Installed = IF native.phase = "read" THEN networkd ELSE native.previous
  BY <1>1, SeenReading, SeenApplying
<1>3. /\ Installed' = networkd /\ Wanted' = None /\ Call' = "idle" /\ Meddled' = FALSE
  BY <1>1, SeenIdleNext
<1>4. Meddled \/ \A a \in ArtifactNames : Installed'[a] \in {Installed[a], Wanted[a], Absent}
  <2> SUFFICES ASSUME ~native.meddled, NEW a \in ArtifactNames, native.phase # "read"
               PROVE  networkd[a] \in {native.previous[a], native.candidate[a], Absent}
    BY <1>2, <1>3
  <2>1. FileIn(a)
    BY <1>1 DEF FilesInv
  <2>2. native.phase \in Phases
    BY <1>1, CallsAreCalls DEF NetworkdInv
  <2> QED  BY <1>1, <2>1, <2>2 DEF FileIn, Phases
<1> QED  BY <1>1, <1>2, <1>3, <1>4

LEMMA AbandonKeepsPromise ==
  ASSUME NetworkdInv, FilesInv, Abandon
  PROVE  Promise!NativeNext
  BY AbandonIsSeen DEF Abandon, Promise!NativeNext, Promise!Break

LEMMA DriftKeepsPromise ==
  ASSUME NetworkdInv, NEW a \in ArtifactNames, NEW c \in Contents \cup {Absent}, Drift(a, c)
  PROVE  Promise!NativeNext
<1>1. networkd' \in Artifacts /\ NetworkdInv
  BY DriftKeepsNetworkdInv DEF NetworkdInv, NetworkdTypeOK
<1>2. CASE native = None
  <2>1. /\ Call = "idle" /\ Wanted = None
        /\ Installed' = networkd' /\ Wanted' = None /\ Call' = "idle" /\ Meddled' = FALSE
    BY <1>2, DriftEffect, SeenIdle, SeenIdleNext
  <2> QED  BY <1>1, <2>1 DEF Promise!NativeNext, Promise!Meddle
<1>3. CASE native # None
  <2>1. native \in Calls /\ native' = [native EXCEPT !.meddled = TRUE]
    BY <1>3 DEF Drift, NetworkdInv, NetworkdTypeOK
  <2>2. /\ native' \in Calls /\ native' # None /\ native'.meddled = TRUE
        /\ native'.phase = native.phase
        /\ native'.previous = native.previous /\ native'.candidate = native.candidate
        /\ native.meddled \in BOOLEAN /\ native.previous \in Artifacts
    BY <2>1, NetworkdAssumption DEF Calls
  <2>3. CASE native.phase \in {"succeeded", "failed"}
    <3>1. /\ Call = native.phase /\ Wanted = native.candidate
          /\ Installed' = networkd' /\ Wanted' = native.candidate
          /\ Call' = native.phase /\ Meddled' = TRUE
      BY <1>3, <2>2, <2>3, SeenOver, SeenOverNext
    <3> QED  BY <1>1, <2>3, <3>1 DEF Promise!NativeNext, Promise!Meddle
  <2>4. CASE native.phase \notin {"succeeded", "failed"}
    <3>1. /\ Call = "applying" /\ Wanted = native.candidate
          /\ Installed' \in {native.previous, networkd'} /\ Wanted' = native.candidate
          /\ Call' = "applying" /\ Meddled' = TRUE
      BY <1>3, <2>2, <2>4, SeenApplying, SeenApplyingNext, SeenReading, SeenReadingNext
    <3> QED  BY <1>1, <2>2, <3>1 DEF Promise!NativeNext, Promise!Meddle
  <2> QED  BY <2>3, <2>4
<1> QED  BY <1>2, <1>3

(* Every behaviour of the installation is one of NativeApply: while nobody *)
(* else changes the directory the caller sees the candidate in place, or   *)
(* the previous files and an error; after a call nothing handled every     *)
(* file is the old one, the new one or gone (backends/networkd.py apply).  *)
(* That a call also ends is left to TLC.                                   *)
THEOREM KeepsPromise ==
  ASSUME \A c \in Contents : ReadText[c] = c
  PROVE  NetworkdSpec => Promise!NativeInit /\ [][Promise!NativeNext]_(Promise!nativeVars)
<1>1. NetworkdInit => NetworkdInv /\ FilesInv
  BY NetworkdInvInit DEF NetworkdInit, FilesInv
<1>2. NetworkdInit => Promise!NativeInit
  <2> SUFFICES ASSUME NetworkdInit PROVE Promise!NativeInit
    OBVIOUS
  <2>1. networkd \in Artifacts /\ native = None
    BY NetworkdInvInit DEF NetworkdInv, NetworkdTypeOK, NetworkdInit
  <2> QED  BY <2>1, SeenIdle DEF Promise!NativeInit
<1>3. NetworkdInv /\ FilesInv /\ [NetworkdNext]_networkdVars => (NetworkdInv /\ FilesInv)'
  BY NetworkdStepKeepsInv, NetworkdStepKeepsFilesInv
<1>4. NetworkdInv /\ FilesInv /\ [NetworkdNext]_networkdVars
        => [Promise!NativeNext]_(Promise!nativeVars)
  <2> SUFFICES ASSUME NetworkdInv, FilesInv, [NetworkdNext]_networkdVars
               PROVE  [Promise!NativeNext]_(Promise!nativeVars)
    OBVIOUS
  <2>1. ASSUME NEW c \in Candidates, Begin(c) PROVE Promise!NativeNext
    <3>1. /\ native = None /\ native' # None /\ native' \in Calls
          /\ native'.phase = "read" /\ networkd' = networkd
          /\ native'.candidate = c /\ ~native'.meddled
      BY <2>1, BeginEffect DEF Begin, NetworkdInv
    <3>2. native'.meddled \in BOOLEAN
      BY <3>1 DEF Calls
    <3>3. /\ Installed' = Installed /\ Call = "idle" /\ Call' = "applying"
          /\ Wanted' = c /\ Meddled' = Meddled
      BY <3>1, <3>2, SeenIdle, SeenReadingNext
    <3> QED  BY <3>3 DEF Promise!NativeNext, Promise!Start
  <2>2. CASE CallStep
    BY <2>2, CallStepKeepsPromise
  <2>3. CASE Return
    <3>1. /\ native # None /\ native.phase \in {"succeeded", "failed"}
          /\ native.meddled \in BOOLEAN /\ native' = None /\ networkd' = networkd
      BY <2>3 DEF Return, InPhase, NetworkdInv, NetworkdTypeOK, Calls
    <3>2. /\ Installed' = Installed /\ Call \in {"succeeded", "failed"}
          /\ Call' = "idle" /\ Wanted' = None /\ Meddled' = FALSE
      BY <3>1, SeenOver, SeenIdleNext
    <3> QED  BY <3>2 DEF Promise!NativeNext, Promise!Return
  <2>4. CASE Abandon
    BY <2>4, AbandonKeepsPromise
  <2>5. ASSUME NEW a \in ArtifactNames, NEW c \in Contents \cup {Absent}, Drift(a, c)
        PROVE  Promise!NativeNext
    BY <2>5, DriftKeepsPromise
  <2>6. CASE UNCHANGED networkdVars
    BY <2>6 DEF networkdVars, Promise!nativeVars, Installed, Wanted, Call, Meddled,
                Changing, Applying, InPhase
  <2> QED  BY <2>1, <2>2, <2>3, <2>4, <2>5, <2>6 DEF NetworkdNext
<1> QED  BY <1>1, <1>2, <1>3, <1>4, PTL DEF NetworkdSpec
=============================================================================
