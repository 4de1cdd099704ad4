----------------------- MODULE HistoryFirstUseProofs -----------------------
(***************************************************************************)
(* That first users of the history who get into each other's way leave a   *)
(* repository with an identity, for every number of them: the theorems     *)
(* about HistoryFirstUse.                                                  *)
(***************************************************************************)
EXTENDS HistoryFirstUse, TLAPS

(* Who holds config.lock is still configuring, nobody configures or uses a *)
(* repository that is not there, and nobody gets to the e-mail address     *)
(* before the name is configured.                                          *)
PlacesInv ==
  /\ TypeOK
  /\ configLock # Nobody => at[configLock] \in Configuring
  /\ \A p \in Processes : at[p] \in Configuring \cup {"use", "commit"} => git # "none"
  /\ \A p \in Processes : at[p] = "email" => "name" \in identity

\* With it, whoever gives up because of config.lock leaves somebody behind who
\* goes on with all that is missing.
FirstUseInv == PlacesInv /\ IdentityComing

(* ---------------------- where the first users are ---------------------- *)

\* A process that goes somewhere without config.lock, or gives it back.
LEMMA GoesKeepsPlaces ==
  ASSUME PlacesInv, NEW p \in Processes,
         NEW step \in {"idle", "look", "use", "commit"} \cup FirstUse, Goes(p, step),
         TypeOK',
         configLock' \in {configLock, Nobody}, configLock' # p,
         git # "none" => git' # "none", identity \subseteq identity',
         step \in Configuring \cup {"use", "commit"} => git' # "none",
         step = "email" => "name" \in identity'
  PROVE  PlacesInv'
<1>1. at'[p] = step /\ \A q \in Processes : q # p => at'[q] = at[q]
  BY DEF Goes, PlacesInv, TypeOK
<1>2. configLock' # Nobody => at'[configLock'] \in Configuring
  <2> SUFFICES ASSUME configLock' # Nobody PROVE at'[configLock'] \in Configuring
    OBVIOUS
  <2>1. configLock' = configLock /\ configLock \in Processes
    BY DEF PlacesInv, TypeOK
  <2> QED  BY <1>1, <2>1 DEF PlacesInv
<1>3. \A q \in Processes : at'[q] \in Configuring \cup {"use", "commit"} => git' # "none"
  BY <1>1 DEF PlacesInv
<1>4. \A q \in Processes : at'[q] = "email" => "name" \in identity'
  BY <1>1 DEF PlacesInv
<1> QED  BY <1>2, <1>3, <1>4 DEF PlacesInv

LEMMA GoesKeepsTypes ==
  ASSUME TypeOK, NEW p \in Processes,
         NEW step \in {"idle", "look", "use", "commit"} \cup FirstUse, Goes(p, step),
         git' \in {"none", "begun", "ready"}, identity' \subseteq Identity,
         networkLock' \in {networkLock, p, Nobody}, configLock' \in {configLock, Nobody},
         cut' \in BOOLEAN
  PROVE  TypeOK'
  BY DEF TypeOK, Goes

\* The steps of p that take it somewhere.
LEMMA MoveKeepsPlaces ==
  ASSUME PlacesInv, NEW p \in Processes,
         \/ BeginRead(p) \/ BeginWrite(p) \/ Look(p) \/ MakeDirectory(p)
         \/ Contend(p) \/ Read(p) \/ Add(p) \/ Commit(p) \/ End(p)
  PROVE  PlacesInv'
<1>1. configLock' = configLock /\ configLock # p
  <2>1. at[p] \in Configuring \/ configLock # p
    BY FirstUseAssumption DEF PlacesInv
  <2>2. CASE Contend(p) \/ End(p)
    BY <2>2 DEF Contend, End
  <2>3. CASE ~Contend(p) /\ ~End(p)
    <3>1. at[p] \notin Configuring
      BY <2>3 DEF BeginRead, BeginWrite, Look, MakeDirectory, Read, Add, Commit, Configuring
    <3>2. configLock' = configLock
      BY <2>3 DEF BeginRead, BeginWrite, Look, MakeDirectory, Read, Add, Commit
    <3> QED  BY <2>1, <3>1, <3>2
  <2> QED  BY <2>2, <2>3
<1>2. PICK step \in {"idle", "look", "make", "init", "use", "commit"} :
        /\ Goes(p, step)
        /\ step \in {"init", "use", "commit"} => git' # "none"
  <2>1. CASE Look(p)
    BY <2>1 DEF Look, PlacesInv, TypeOK
  <2>2. CASE MakeDirectory(p)
    BY <2>2 DEF MakeDirectory
  <2>3. CASE Add(p)
    BY <2>3 DEF Add, Leave
  <2> QED  BY <2>1, <2>2, <2>3 DEF BeginRead, BeginWrite, Contend, Read, Commit, End, Leave
<1>3. /\ git' \in {"none", "begun", "ready"} /\ (git # "none" => git' # "none")
      /\ identity' = identity /\ identity \subseteq Identity
  BY DEF BeginRead, BeginWrite, Look, MakeDirectory, Contend, Read, Add, Commit, End,
         PlacesInv, TypeOK
<1>4. networkLock' \in {networkLock, p, Nobody} /\ cut' \in BOOLEAN
  BY DEF BeginRead, BeginWrite, Look, MakeDirectory, Contend, Read, Add, Commit, End, Leave,
         PlacesInv, TypeOK
<1>5. step \in {"idle", "look", "use", "commit"} \cup FirstUse /\ step # "email"
      /\ (step \in Configuring => step = "init")
  BY DEF FirstUse, Configuring
<1>6. TypeOK'
  BY <1>1, <1>2, <1>3, <1>4, <1>5, GoesKeepsTypes DEF PlacesInv
<1> QED  BY <1>1, <1>2, <1>3, <1>5, <1>6, GoesKeepsPlaces

\* A command of `git init' or `git config' is over.
LEMMA ConfiguredKeepsPlaces ==
  ASSUME PlacesInv, NEW p \in Processes, Initialized(p) \/ Named(p) \/ Addressed(p)
  PROVE  PlacesInv'
<1>1. at[p] \in Configuring /\ git # "none" /\ configLock' = Nobody /\ p # Nobody
  BY FirstUseAssumption DEF Initialized, Named, Addressed, Configuring, PlacesInv
<1>2. PICK step \in {"name", "email", "use"} :
        Goes(p, step) /\ (step = "email" => "name" \in identity')
  BY DEF Initialized, Named, Addressed
<1>3. /\ git' \in {git, "ready"} /\ identity \subseteq identity'
      /\ identity' \subseteq Identity /\ networkLock' = networkLock /\ cut' = cut
  BY DEF Initialized, Named, Addressed, PlacesInv, TypeOK, Identity
<1>4. step \in {"idle", "look", "use", "commit"} \cup FirstUse
  BY DEF FirstUse, Configuring
<1>5. TypeOK'
  BY <1>1, <1>2, <1>3, <1>4, GoesKeepsTypes DEF PlacesInv, TypeOK
<1> QED  BY <1>1, <1>2, <1>3, <1>4, <1>5, GoesKeepsPlaces

LEMMA LockKeepsPlaces ==
  ASSUME PlacesInv, NEW p \in Processes, LockConfig(p)
  PROVE  PlacesInv'
  BY DEF LockConfig, PlacesInv, TypeOK

(* -------------------- what is still to be configured ------------------- *)

LEMMA AheadOf ==
  ASSUME NEW p \in Processes
  PROVE  /\ at[p] \in {"make", "init", "name"} => Ahead(p) = Identity
         /\ at[p] = "email" => Ahead(p) = {"email"}
         /\ at[p] \notin FirstUse => Ahead(p) = {}
  BY DEF Ahead, FirstUse, Configuring

\* It is enough that what was ahead of p still is, is done, or is ahead of
\* somebody else.
LEMMA GoesKeepsComing ==
  ASSUME FirstUseInv, NEW p \in Processes, NEW step, Goes(p, step),
         identity \subseteq identity', ~cut' => ~cut, git' # "none",
         git = "none" => Ahead(p)' = Identity,
         \A part \in Ahead(p) :
           ~cut' => \/ part \in identity' \/ part \in Ahead(p)'
                    \/ \E q \in Processes \ {p} : part \in Ahead(q)
  PROVE  IdentityComing'
<1>1. \A q \in Processes \ {p} : Ahead(q)' = Ahead(q)
  <2>1. \A q \in Processes \ {p} : at'[q] = at[q]
    BY DEF Goes, FirstUseInv, PlacesInv, TypeOK
  <2> QED  BY <2>1 DEF Ahead
<1> SUFFICES ASSUME ~cut', NEW part \in Identity
             PROVE  part \in identity' \/ \E q \in Processes : part \in Ahead(q)'
  BY DEF IdentityComing
<1>2. CASE git = "none"
  BY <1>2
<1>3. CASE git # "none"
  <2>1. part \in identity \/ \E q \in Processes : part \in Ahead(q)
    BY <1>3 DEF FirstUseInv, IdentityComing
  <2>2. CASE part \in Ahead(p)
    BY <1>1, <2>2
  <2>3. CASE \E q \in Processes \ {p} : part \in Ahead(q)
    BY <1>1, <2>3
  <2> QED  BY <2>1, <2>2, <2>3
<1> QED  BY <1>2, <1>3

\* Who finds config.lock taken may give up: its holder does the rest.
LEMMA ContendKeepsComing ==
  ASSUME FirstUseInv, NEW p \in Processes, Contend(p)
  PROVE  IdentityComing'
<1>1. /\ Goes(p, "idle") /\ git' = git /\ identity' = identity /\ cut' = cut
      /\ configLock \in Processes \ {p} /\ at[p] \in Configuring
  BY DEF Contend, Leave, FirstUseInv, PlacesInv, TypeOK
<1>2. git # "none" /\ at[configLock] \in Configuring
  BY <1>1, FirstUseAssumption DEF FirstUseInv, PlacesInv
<1>3. ASSUME NEW part \in Identity PROVE part \in identity \/ part \in Ahead(configLock)
  <2>1. CASE at[configLock] = "email"
    <3>1. "name" \in identity /\ Ahead(configLock) = {"email"}
      BY <1>1, <2>1, AheadOf DEF FirstUseInv, PlacesInv
    <3> QED  BY <3>1 DEF Identity
  <2>2. CASE at[configLock] \in {"init", "name"}
    BY <1>1, <2>2, AheadOf
  <2> QED  BY <1>2, <2>1, <2>2 DEF Configuring
<1>4. Ahead(p) \subseteq Identity
  BY DEF Ahead, Identity
<1> QED  BY <1>1, <1>2, <1>3, <1>4, GoesKeepsComing

\* A command that is over has configured its part, or leaves all to be done.
LEMMA ConfiguredKeepsComing ==
  ASSUME FirstUseInv, NEW p \in Processes, Initialized(p) \/ Named(p) \/ Addressed(p)
  PROVE  IdentityComing'
<1>0. \A step : Goes(p, step) => at'[p] = step
  BY DEF Goes, FirstUseInv, PlacesInv, TypeOK
<1>1. /\ at[p] \in Configuring /\ git # "none" /\ cut' = cut
      /\ git' # "none" /\ identity \subseteq identity'
  BY DEF Initialized, Named, Addressed, Configuring, FirstUseInv, PlacesInv
<1>2. CASE Initialized(p)
  <2>1. Goes(p, "name") /\ at'[p] = "name" /\ Ahead(p) \subseteq Identity
    BY <1>0, <1>2 DEF Initialized, Ahead, Identity
  <2>2. Ahead(p)' = Identity
    BY <2>1 DEF Ahead
  <2> QED  BY <1>1, <2>1, <2>2, GoesKeepsComing
<1>3. CASE Named(p)
  <2>1. Goes(p, "email") /\ at'[p] = "email" /\ "name" \in identity'
        /\ Ahead(p) \subseteq Identity
    BY <1>0, <1>3 DEF Named, Ahead, Identity
  <2>2. Ahead(p)' = {"email"}
    BY <2>1 DEF Ahead
  <2> QED  BY <1>1, <2>1, <2>2, GoesKeepsComing DEF Identity
<1>4. CASE Addressed(p)
  <2>1. Goes(p, "use") /\ Ahead(p) = {"email"} /\ "email" \in identity'
    BY <1>4, AheadOf DEF Addressed
  <2> QED  BY <1>1, <2>1, GoesKeepsComing
<1> QED  BY <1>2, <1>3, <1>4

\* A process that makes nothing leaves nothing behind that it had to do.
LEMMA OthersKeepComing ==
  ASSUME FirstUseInv, NEW p \in Processes, at[p] \notin FirstUse,
         NEW step, Goes(p, step), UNCHANGED <<git, identity>>, ~cut' => ~cut
  PROVE  IdentityComing'
<1>1. CASE git = "none"
  BY <1>1 DEF IdentityComing
<1>2. CASE git # "none"
  <2>1. Ahead(p) = {}
    BY AheadOf
  <2> QED  BY <1>2, <2>1, GoesKeepsComing
<1> QED  BY <1>1, <1>2

LEMMA MoveKeepsComing ==
  ASSUME FirstUseInv, NEW p \in Processes,
         \/ BeginRead(p) \/ BeginWrite(p) \/ Look(p) \/ Read(p) \/ Add(p) \/ Commit(p)
  PROVE  IdentityComing'
<1>1. at[p] \in {"idle", "look", "use", "commit"} /\ UNCHANGED <<git, identity, cut>>
  BY DEF BeginRead, BeginWrite, Look, Read, Add, Commit
<1>2. \E step : Goes(p, step)
  BY DEF BeginRead, BeginWrite, Look, Read, Add, Commit, Leave
<1> QED  BY <1>1, <1>2, OthersKeepComing DEF FirstUse, Configuring

LEMMA MakeKeepsComing ==
  ASSUME FirstUseInv, NEW p \in Processes, MakeDirectory(p)
  PROVE  IdentityComing'
<1>1. Goes(p, "init") /\ at'[p] = "init" /\ git' # "none" /\ UNCHANGED <<identity, cut>>
  BY DEF MakeDirectory, Goes, FirstUseInv, PlacesInv, TypeOK
<1>2. Ahead(p)' = Identity /\ Ahead(p) \subseteq Identity
  BY <1>1 DEF Ahead, Identity
<1> QED  BY <1>1, <1>2, GoesKeepsComing

\* A process that ends while it makes the repository is remembered as cut.
LEMMA EndKeepsComing ==
  ASSUME FirstUseInv, NEW p \in Processes, End(p)
  PROVE  IdentityComing'
<1>1. Goes(p, "idle") /\ UNCHANGED <<git, identity>> /\ cut' = (cut \/ at[p] \in FirstUse)
  BY DEF End, Leave
<1>2. CASE at[p] \in FirstUse
  BY <1>1, <1>2 DEF IdentityComing
<1>3. CASE at[p] \notin FirstUse
  BY <1>1, <1>3, OthersKeepComing
<1> QED  BY <1>2, <1>3

(* ------------------------------ theorems ------------------------------- *)

LEMMA StepKeepsFirstUseInv ==
  ASSUME FirstUseInv, [Next]_firstUseVars
  PROVE  FirstUseInv'
<1>1. ASSUME NEW p \in Processes, LockConfig(p) PROVE FirstUseInv'
  <2>1. IdentityComing'
    BY <1>1 DEF LockConfig, FirstUseInv, IdentityComing, Ahead
  <2> QED  BY <1>1, <2>1, LockKeepsPlaces DEF FirstUseInv
<1>2. ASSUME NEW p \in Processes, Initialized(p) \/ Named(p) \/ Addressed(p)
      PROVE  FirstUseInv'
  BY <1>2, ConfiguredKeepsPlaces, ConfiguredKeepsComing DEF FirstUseInv
<1>3. ASSUME NEW p \in Processes,
             \/ BeginRead(p) \/ BeginWrite(p) \/ Look(p) \/ MakeDirectory(p)
             \/ Contend(p) \/ Read(p) \/ Add(p) \/ Commit(p) \/ End(p)
      PROVE  FirstUseInv'
  BY <1>3, MoveKeepsPlaces, MoveKeepsComing, MakeKeepsComing, ContendKeepsComing,
     EndKeepsComing DEF FirstUseInv
<1>4. CASE UNCHANGED firstUseVars
  BY <1>4 DEF firstUseVars, FirstUseInv, PlacesInv, TypeOK, IdentityComing, Ahead
<1> QED  BY <1>1, <1>2, <1>3, <1>4 DEF Next, Proceed

LEMMA FirstUseInvHolds == Spec => []FirstUseInv
<1>1. Init => FirstUseInv
  BY DEF Init, FirstUseInv, PlacesInv, TypeOK, IdentityComing, FirstUse, Configuring
<1>2. FirstUseInv /\ [Next]_firstUseVars => FirstUseInv'
  BY StepKeepsFirstUseInv
<1> QED  BY <1>1, <1>2, PTL DEF Spec

(* However many first users race, and whoever of them raises because of     *)
(* config.lock, what is missing of the identity is still configured by one  *)
(* of them, unless one died while making the repository                     *)
(* (DesiredStateHistory._initialize).                                       *)
THEOREM IdentityIsComing == Spec => [](TypeOK /\ IdentityComing)
<1>1. FirstUseInv => TypeOK /\ IdentityComing
  BY DEF FirstUseInv, PlacesInv
<1> QED  BY <1>1, FirstUseInvHolds, PTL
=============================================================================
