------------------------- MODULE StateStoreProofs -------------------------
(***************************************************************************)
(* Theorems about StateStore: what the file holds is whole whatever is cut *)
(* short, and every step is one of AppliedRecord or invisible to it.       *)
(***************************************************************************)
EXTENDS StateStore, TLAPS

Inside(c) == c.pc \in WritingSteps

\* What the open transaction has made of d when its owner's call is c.
Pending(c, d) ==
  CASE c.pc = "tables" -> [d EXCEPT !.versions = Append(d.versions, SchemaVersion)]
    [] c.pc = "commit schema" ->
         [d EXCEPT !.versions = Append(d.versions, SchemaVersion), !.tables = TRUE]
    [] c.pc = "delete" -> [d EXCEPT !.revision = c.number]
    [] c.pc = "insert" -> [d EXCEPT !.revision = c.number, !.hashes = 0]
    [] c.pc = "commit" /\ c.op = "success" ->
         [d EXCEPT !.revision = c.number, !.hashes = c.number]
    [] OTHER -> [d EXCEPT !.failures = d.failures \cup {c.number}]

\* The step a call is at belongs to its operation; recorded numbers count;
\* the schema is about to be committed only where there is none.
Fits(c, tables) ==
  /\ c.pc \in {"select revision", "select hashes"} => c.op = "read"
  /\ c.pc \in {"upsert", "delete", "insert"} => c.op = "success"
  /\ c.pc = "insert failure" => c.op = "failure"
  /\ c.pc = "commit" => c.op \in {"success", "failure"}
  /\ c.pc = "idle" <=> c.op = "none"
  /\ c.pc = "idle" => c = Idle
  /\ c.pc = "commit schema" => ~tables
  /\ c.op \in {"success", "failure"} => c.number \in Numbers

CallsFit == \A p \in Processes : Fits(call[p], db.tables)

\* Whoever is inside a transaction owns the open one, and it holds what the
\* statements so far have changed; the open one is of somebody inside.
Owned == \A p \in Processes :
  Inside(call[p]) => tx # None /\ tx.owner = p /\ tx.db = Pending(call[p], db)
OwnerInside == tx # None => Inside(call[tx.owner])

IInv == TypeOK /\ SchemaWhole /\ RecordWhole /\ CallsFit /\ Owned /\ OwnerInside

LEMMA OneCallChanges ==
  ASSUME TypeOK, NEW p \in Processes, NEW c \in Calls, call' = [call EXCEPT ![p] = c]
  PROVE  /\ call' \in [Processes -> Calls]
         /\ call'[p] = c
         /\ \A q \in Processes \ {p} : call'[q] = call[q]
  BY DEF TypeOK

LEMMA GoOnEffect ==
  ASSUME TypeOK, NEW p \in Processes, NEW step \in Steps, GoOn(p, step)
  PROVE  /\ [call[p] EXCEPT !.pc = step] \in Calls
         /\ call' = [call EXCEPT ![p] = [call[p] EXCEPT !.pc = step]]
<1>1. call[p] \in Calls
  BY DEF TypeOK
<1>2. [call[p] EXCEPT !.pc = step] \in Calls
  BY <1>1 DEF Calls
<1> QED  BY <1>2 DEF GoOn

LEMMA IdleIsCall == Idle \in Calls
  BY DEF Idle, Calls, Steps, Operations

\* A step outside any transaction that leaves the file alone.
LEMMA PrivateStep ==
  ASSUME IInv, NEW p \in Processes, NEW c \in Calls, call' = [call EXCEPT ![p] = c],
         ~Inside(call[p]), ~Inside(c), Fits(c, db.tables),
         number' \in Numbers \cup {0}, tx' = tx, db' = db
  PROVE  IInv'
<1>1. /\ call' \in [Processes -> Calls] /\ call'[p] = c
      /\ \A q \in Processes \ {p} : call'[q] = call[q]
  BY OneCallChanges DEF IInv
<1>2. TypeOK'
  BY <1>1 DEF IInv, TypeOK
<1>3. SchemaWhole' /\ RecordWhole' /\ CallsFit' /\ Owned'
  BY <1>1 DEF IInv, SchemaWhole, RecordWhole, CallsFit, Owned
<1>4. OwnerInside'
  BY <1>1 DEF IInv, TypeOK, OwnerInside
<1> QED  BY <1>2, <1>3, <1>4 DEF IInv

\* A statement of a transaction: it is opened, or goes on.
LEMMA WritingStep ==
  ASSUME IInv, NEW p \in Processes, NEW c \in Calls, call' = [call EXCEPT ![p] = c],
         tx = None \/ tx.owner = p, Inside(c), Fits(c, db.tables),
         Pending(c, db) \in Databases,
         tx' = [owner |-> p, db |-> Pending(c, db)], number' = number, db' = db
  PROVE  IInv'
<1>1. /\ call' \in [Processes -> Calls] /\ call'[p] = c
      /\ \A q \in Processes \ {p} : call'[q] = call[q]
  BY OneCallChanges DEF IInv
<1>2. tx' \in [owner : Processes, db : Databases] /\ tx' # None /\ tx'.owner = p
      /\ tx'.db = Pending(c, db)
  BY NoTransactionAssumption
<1>3. TypeOK'
  BY <1>1, <1>2 DEF IInv, TypeOK
<1>4. SchemaWhole' /\ RecordWhole' /\ CallsFit'
  BY <1>1 DEF IInv, SchemaWhole, RecordWhole, CallsFit
<1>5. \A q \in Processes \ {p} : ~Inside(call[q])
  BY DEF IInv, Owned
<1>6. Owned' /\ OwnerInside'
  BY <1>1, <1>2, <1>5 DEF Owned, OwnerInside
<1> QED  BY <1>3, <1>4, <1>6 DEF IInv

\* The end of a transaction; nobody else is inside one.
LEMMA CommittingStep ==
  ASSUME IInv, NEW p \in Processes, NEW c \in Calls, call' = [call EXCEPT ![p] = c],
         Inside(call[p]), ~Inside(c), Fits(c, tx.db.tables),
         tx.db.tables = db.tables \/ call[p].pc = "commit schema",
         SchemaWhole', RecordWhole', tx' = None, number' = number, db' = tx.db
  PROVE  IInv'
<1>1. /\ call' \in [Processes -> Calls] /\ call'[p] = c
      /\ \A q \in Processes \ {p} : call'[q] = call[q]
  BY OneCallChanges DEF IInv
<1>2. tx # None /\ tx.owner = p /\ tx.db \in Databases
  BY DEF IInv, Owned, TypeOK
<1>3. \A q \in Processes \ {p} : ~Inside(call[q])
  BY <1>2 DEF IInv, Owned
<1>4. TypeOK'
  BY <1>1, <1>2 DEF IInv, TypeOK
<1>5. CallsFit'
  <2> SUFFICES ASSUME NEW q \in Processes \ {p} PROVE Fits(call[q], tx.db.tables)
    BY <1>1 DEF CallsFit
  <2>1. call[q].pc # "commit schema"
    BY <1>3 DEF Inside, WritingSteps
  <2> QED  BY <2>1 DEF IInv, CallsFit, Fits
<1>6. Owned' /\ OwnerInside'
  BY <1>1, <1>3 DEF Owned, OwnerInside
<1> QED  BY <1>4, <1>5, <1>6 DEF IInv

\* An error leaves the file as it is, and nobody else's transaction changes.
LEMMA RaisingStep ==
  ASSUME IInv, NEW p \in Processes, Raise(p)
  PROVE  IInv'
<1>1. /\ call' \in [Processes -> Calls] /\ call'[p] = Idle
      /\ \A q \in Processes \ {p} : call'[q] = call[q]
  BY IdleIsCall, OneCallChanges DEF IInv, Raise
<1>2. db' = db /\ number' = number
      /\ tx' = IF tx # None /\ tx.owner = p THEN None ELSE tx
  BY DEF Raise
<1>3. ~Inside(Idle) /\ Fits(Idle, db.tables)
  BY DEF Idle, Inside, WritingSteps, Fits
<1>4. TypeOK'
  BY <1>1, <1>2 DEF IInv, TypeOK
<1>5. SchemaWhole' /\ RecordWhole' /\ CallsFit'
  BY <1>1, <1>2, <1>3 DEF IInv, SchemaWhole, RecordWhole, CallsFit
<1>6. Owned'
  BY <1>1, <1>2, <1>3 DEF IInv, Owned
<1>7. OwnerInside'
  BY <1>1, <1>2 DEF IInv, TypeOK, OwnerInside
<1> QED  BY <1>4, <1>5, <1>6, <1>7 DEF IInv

\* What Pending makes of a database, step by step.
LEMMA PendingFields ==
  ASSUME NEW d \in Databases, NEW c \in Calls
  PROVE  /\ c.pc = "tables" =>
              Pending(c, d) = [d EXCEPT !.versions = Append(d.versions, SchemaVersion)]
         /\ c.pc = "commit schema" =>
              Pending(c, d) = [d EXCEPT !.versions = Append(d.versions, SchemaVersion),
                                        !.tables = TRUE]
         /\ c.pc = "delete" => Pending(c, d) = [d EXCEPT !.revision = c.number]
         /\ c.pc = "insert" => Pending(c, d) = [d EXCEPT !.revision = c.number,
                                                         !.hashes = 0]
         /\ c.pc = "commit" /\ c.op = "success" =>
              Pending(c, d) = [d EXCEPT !.revision = c.number, !.hashes = c.number]
         /\ c.pc = "commit" /\ c.op = "failure" =>
              Pending(c, d) = [d EXCEPT !.failures = d.failures \cup {c.number}]
         /\ Inside(c) /\ (c.op \in {"success", "failure"} => c.number \in Numbers)
              /\ (c.pc \in {"delete", "insert"} => c.op = "success")
              /\ (c.pc = "commit" => c.op \in {"success", "failure"})
              => Pending(c, d) \in Databases
<1>1. c.pc = "tables" =>
        Pending(c, d) = [d EXCEPT !.versions = Append(d.versions, SchemaVersion)]
  BY DEF Pending
<1>2. c.pc = "commit schema" =>
        Pending(c, d) = [d EXCEPT !.versions = Append(d.versions, SchemaVersion),
                                  !.tables = TRUE]
  BY DEF Pending
<1>3. c.pc = "delete" => Pending(c, d) = [d EXCEPT !.revision = c.number]
  BY DEF Pending
<1>4. c.pc = "insert" => Pending(c, d) = [d EXCEPT !.revision = c.number, !.hashes = 0]
  BY DEF Pending
<1>5. c.pc = "commit" /\ c.op = "success" =>
        Pending(c, d) = [d EXCEPT !.revision = c.number, !.hashes = c.number]
  BY DEF Pending
<1>6. c.pc = "commit" /\ c.op = "failure" =>
        Pending(c, d) = [d EXCEPT !.failures = d.failures \cup {c.number}]
  BY DEF Pending
<1>7. Append(d.versions, SchemaVersion) \in Seq(Nat)
  BY StateStoreAssumption DEF Databases
<1>8. ASSUME Inside(c), c.op \in {"success", "failure"} => c.number \in Numbers,
             c.pc \in {"delete", "insert"} => c.op = "success",
             c.pc = "commit" => c.op \in {"success", "failure"}
      PROVE  Pending(c, d) \in Databases
  <2>1. CASE c.pc \in {"tables", "commit schema"}
    BY <1>1, <1>2, <1>7, <2>1 DEF Databases
  <2>2. CASE c.pc \in {"delete", "insert"} \/ (c.pc = "commit" /\ c.op = "success")
    BY <1>3, <1>4, <1>5, <1>8, <2>2 DEF Databases
  <2>3. CASE c.pc = "commit" /\ c.op = "failure"
    BY <1>6, <1>8, <2>3 DEF Databases
  <2> QED  BY <1>8, <2>1, <2>2, <2>3 DEF Inside, WritingSteps
<1> QED  BY <1>1, <1>2, <1>3, <1>4, <1>5, <1>6, <1>8

\* A call that goes on to a step that fits it.
LEMMA GoingOn ==
  ASSUME IInv, NEW p \in Processes, NEW step \in Steps
  PROVE  LET c == [call[p] EXCEPT !.pc = step]
         IN  /\ call[p] \in Calls /\ c \in Calls
             /\ c.pc = step /\ c.op = call[p].op /\ c.number = call[p].number
             /\ c.revision = call[p].revision /\ c.hashes = call[p].hashes
             /\ call[p].op \in {"success", "failure"} => call[p].number \in Numbers
             /\ call[p].pc # "idle" => call[p].op \in {"read", "success", "failure"}
  BY DEF IInv, TypeOK, Calls, CallsFit, Fits, Operations

LEMMA BodyValues ==
  ASSUME IInv, NEW p \in Processes, call[p].pc # "idle"
  PROVE  /\ call[p].op \in {"read", "success", "failure"}
         /\ Body(call[p].op) \in {"select revision", "upsert", "insert failure"}
<1>1. call[p].op \in {"read", "success", "failure"}
  BY DEF IInv, TypeOK, Calls, CallsFit, Fits, Operations
<1> QED  BY <1>1 DEF Body

LEMMA BodyFits ==
  ASSUME IInv, NEW p \in Processes, call[p].pc # "idle"
  PROVE  LET step == Body(call[p].op)
             c == [call[p] EXCEPT !.pc = step]
         IN  step \in Steps /\ ~Inside(c) /\ \A tables \in BOOLEAN : Fits(c, tables)
<1>1. \/ call[p].op = "read" /\ Body(call[p].op) = "select revision"
      \/ call[p].op = "success" /\ Body(call[p].op) = "upsert"
      \/ call[p].op = "failure" /\ Body(call[p].op) = "insert failure"
  BY GoingOn DEF Body, Steps
<1>2. Body(call[p].op) \in Steps
  BY <1>1 DEF Steps
<1> QED  BY <1>1, <1>2, GoingOn DEF Inside, WritingSteps, Fits

LEMMA CreateVersionTableKeepsInv ==
  ASSUME IInv, NEW p \in Processes, CreateVersionTable(p)
  PROVE  IInv'
<1> DEFINE c == [call[p] EXCEPT !.pc = "version"]
<1>1. c \in Calls /\ call' = [call EXCEPT ![p] = c]
  BY GoOnEffect DEF IInv, CreateVersionTable, Steps
<1>2. ~Inside(call[p]) /\ ~Inside(c) /\ Fits(c, db.tables)
  <2>1. call[p].pc = "create" /\ Fits(call[p], db.tables)
    BY DEF CreateVersionTable, At, IInv, CallsFit
  <2>2. c.pc = "version" /\ c.op = call[p].op /\ c.number = call[p].number
    BY GoingOn DEF Steps
  <2> HIDE DEF c
  <2> QED  BY <2>1, <2>2 DEF Inside, WritingSteps, Fits
<1>3. tx' = tx /\ number' = number /\ number' \in Numbers \cup {0}
  BY DEF CreateVersionTable, IInv, TypeOK
<1> HIDE DEF c
<1>4. CASE db' = db
  BY <1>1, <1>2, <1>3, <1>4, PrivateStep
<1>5. CASE db' # db
  <2>1. db \in Databases /\ db' = [db EXCEPT !.versionTable = TRUE]
    BY DEF CreateVersionTable, IInv, TypeOK
  <2>2. tx = None
    BY <1>5, <2>1 DEF CreateVersionTable, Databases
  <2>3. /\ db' \in Databases /\ db'.tables = db.tables /\ db'.versions = db.versions
        /\ db'.revision = db.revision /\ db'.hashes = db.hashes
    BY <2>1 DEF Databases
  <2>4. /\ call' \in [Processes -> Calls] /\ call'[p] = c
        /\ \A q \in Processes \ {p} : call'[q] = call[q]
    BY <1>1, OneCallChanges DEF IInv
  <2>5. TypeOK'
    BY <1>3, <2>3, <2>4 DEF IInv, TypeOK
  <2>6. SchemaWhole' /\ RecordWhole' /\ CallsFit'
    BY <1>2, <2>3, <2>4 DEF IInv, SchemaWhole, RecordWhole, CallsFit
  <2>7. Owned' /\ OwnerInside'
    BY <1>2, <1>3, <2>2, <2>4 DEF IInv, Owned, OwnerInside
  <2> QED  BY <2>5, <2>6, <2>7 DEF IInv
<1> QED  BY <1>4, <1>5

LEMMA CheckVersionKeepsInv ==
  ASSUME IInv, NEW p \in Processes, CheckVersion(p)
  PROVE  IInv'
<1>1. At(p, "version") /\ call[p].pc # "idle" /\ ~Inside(call[p])
  BY DEF CheckVersion, At, Inside, WritingSteps
<1>2. ASSUME NEW step \in {"seed", Body(call[p].op)}, GoOn(p, step),
             UNCHANGED <<db, tx, number>>
      PROVE  IInv'
  <2> DEFINE c == [call[p] EXCEPT !.pc = step]
  <2>1. step \in Steps
    BY <1>1, BodyFits DEF Steps
  <2>2. c \in Calls /\ call' = [call EXCEPT ![p] = c]
    BY <1>2, <2>1, GoOnEffect DEF IInv
  <2>3. db.tables \in BOOLEAN /\ number' \in Numbers \cup {0}
    BY <1>2 DEF IInv, TypeOK, Databases
  <2>4. ~Inside(c) /\ Fits(c, db.tables)
    <3>1. CASE step = "seed"
      <4>1. c.pc = "seed" /\ c.op = call[p].op /\ c.number = call[p].number
        BY <2>1, <3>1, GoingOn
      <4>2. Fits(call[p], db.tables) /\ call[p].op # "none"
        BY <1>1, BodyValues DEF IInv, CallsFit
      <4> HIDE DEF c
      <4> QED  BY <4>1, <4>2 DEF Inside, WritingSteps, Fits
    <3>2. CASE step = Body(call[p].op)
      BY <3>2, <1>1, <2>3, BodyFits
    <3> QED  BY <3>1, <3>2
  <2> HIDE DEF c
  <2> QED  BY <1>1, <1>2, <2>2, <2>3, <2>4, PrivateStep
<1>3. CASE Raise(p)
  BY <1>3, RaisingStep
<1> QED  BY <1>2, <1>3 DEF CheckVersion

\* A statement of a transaction, its effect as Pending says.
LEMMA StatementStep ==
  ASSUME IInv, NEW p \in Processes, NEW step \in WritingSteps, GoOn(p, step),
         tx = None \/ tx.owner = p, number' = number, db' = db,
         Fits([call[p] EXCEPT !.pc = step], db.tables),
         tx' = [owner |-> p, db |-> Pending([call[p] EXCEPT !.pc = step], db)]
  PROVE  IInv'
<1> DEFINE c == [call[p] EXCEPT !.pc = step]
<1>1. step \in Steps
  BY DEF Steps
<1>2. c \in Calls /\ call' = [call EXCEPT ![p] = c] /\ c.pc = step
  BY <1>1, GoOnEffect, GoingOn DEF IInv
<1>3. Inside(c)
  BY <1>2 DEF Inside
<1>4. db \in Databases
  BY DEF IInv, TypeOK
<1> HIDE DEF c
<1>5. Fits(c, db.tables) /\ tx' = [owner |-> p, db |-> Pending(c, db)]
  BY DEF c
<1>6. Pending(c, db) \in Databases
  BY <1>2, <1>3, <1>4, <1>5, PendingFields DEF Fits
<1> QED  BY <1>2, <1>3, <1>5, <1>6, WritingStep

\* The transaction a process inside it finds.
LEMMA OwnTransaction ==
  ASSUME IInv, NEW p \in Processes, Inside(call[p])
  PROVE  /\ tx # None /\ tx \in [owner : Processes, db : Databases]
         /\ tx.owner = p /\ tx.db = Pending(call[p], db) /\ tx.db \in Databases
         /\ db \in Databases /\ call[p] \in Calls /\ Fits(call[p], db.tables)
         /\ \A d \in Databases : [tx EXCEPT !.db = d] = [owner |-> p, db |-> d]
  BY DEF IInv, TypeOK, Owned, CallsFit

LEMMA SeedKeepsInv ==
  ASSUME IInv, NEW p \in Processes, Seed(p)
  PROVE  IInv'
<1> DEFINE c == [call[p] EXCEPT !.pc = "tables"]
<1>1. call[p].pc = "seed" /\ db \in Databases /\ Fits(call[p], db.tables)
  BY DEF Seed, At, IInv, TypeOK, CallsFit
<1>2. c \in Calls /\ c.pc = "tables" /\ c.op = call[p].op /\ c.number = call[p].number
  BY GoingOn DEF Steps, WritingSteps
<1>3. Fits(c, db.tables)
  BY <1>1, <1>2 DEF Fits
<1>4. tx' = [owner |-> p,
             db |-> [db EXCEPT !.versions = Append(db.versions, SchemaVersion)]]
  BY DEF Seed, Open
<1> HIDE DEF c
<1>5. tx' = [owner |-> p, db |-> Pending(c, db)]
  BY <1>1, <1>2, <1>4, PendingFields
<1>6. "tables" \in WritingSteps /\ GoOn(p, "tables") /\ tx = None
      /\ number' = number /\ db' = db
  BY DEF Seed, Open, WritingSteps
<1> QED  BY <1>3, <1>5, <1>6, StatementStep DEF c

LEMMA UpsertKeepsInv ==
  ASSUME IInv, NEW p \in Processes, Upsert(p)
  PROVE  IInv'
<1> DEFINE c == [call[p] EXCEPT !.pc = "delete"]
<1>1. call[p].pc = "upsert" /\ db \in Databases /\ Fits(call[p], db.tables)
  BY DEF Upsert, At, IInv, TypeOK, CallsFit
<1>2. c \in Calls /\ c.pc = "delete" /\ c.op = call[p].op /\ c.number = call[p].number
  BY GoingOn DEF Steps, WritingSteps
<1>3. Fits(c, db.tables)
  BY <1>1, <1>2 DEF Fits
<1>4. tx' = [owner |-> p, db |-> [db EXCEPT !.revision = call[p].number]]
  BY DEF Upsert, Open
<1> HIDE DEF c
<1>5. tx' = [owner |-> p, db |-> Pending(c, db)]
  BY <1>1, <1>2, <1>4, PendingFields
<1>6. "delete" \in WritingSteps /\ GoOn(p, "delete") /\ tx = None
      /\ number' = number /\ db' = db
  BY DEF Upsert, Open, WritingSteps
<1> QED  BY <1>3, <1>5, <1>6, StatementStep DEF c

LEMMA InsertFailureKeepsInv ==
  ASSUME IInv, NEW p \in Processes, InsertFailure(p)
  PROVE  IInv'
<1> DEFINE c == [call[p] EXCEPT !.pc = "commit"]
<1>1. call[p].pc = "insert failure" /\ db \in Databases /\ Fits(call[p], db.tables)
  BY DEF InsertFailure, At, IInv, TypeOK, CallsFit
<1>2. c \in Calls /\ c.pc = "commit" /\ c.op = call[p].op /\ c.number = call[p].number
  BY GoingOn DEF Steps, WritingSteps
<1>3. Fits(c, db.tables) /\ c.op = "failure"
  BY <1>1, <1>2 DEF Fits
<1>4. tx' = [owner |-> p,
             db |-> [db EXCEPT !.failures = db.failures \cup {call[p].number}]]
  BY DEF InsertFailure, Open
<1> HIDE DEF c
<1>5. tx' = [owner |-> p, db |-> Pending(c, db)]
  BY <1>1, <1>2, <1>3, <1>4, PendingFields
<1>6. "commit" \in WritingSteps /\ GoOn(p, "commit") /\ tx = None
      /\ number' = number /\ db' = db
  BY DEF InsertFailure, Open, WritingSteps
<1> QED  BY <1>3, <1>5, <1>6, StatementStep DEF c

LEMMA CreateTablesKeepsInv ==
  ASSUME IInv, NEW p \in Processes, CreateTables(p)
  PROVE  IInv'
<1> DEFINE c == [call[p] EXCEPT !.pc = "commit schema"]
<1>1. call[p].pc = "tables" /\ Inside(call[p])
  BY DEF CreateTables, At, Inside, WritingSteps
<1>2. CASE Raise(p)
  BY <1>2, RaisingStep
<1>3. CASE ~tx.db.tables /\ Change([tx.db EXCEPT !.tables = TRUE])
           /\ GoOn(p, "commit schema") /\ UNCHANGED <<db, number>>
  <2>1. c \in Calls /\ c.pc = "commit schema" /\ c.op = call[p].op
        /\ c.number = call[p].number
    BY GoingOn DEF Steps, WritingSteps
  <2>2. tx.db = [db EXCEPT !.versions = Append(db.versions, SchemaVersion)]
    BY <1>1, OwnTransaction, PendingFields
  <2>3. ~db.tables
    BY <1>1, <1>3, <2>2, OwnTransaction DEF Databases
  <2>4. Fits(c, db.tables)
    BY <1>1, <2>1, <2>3, OwnTransaction DEF Fits
  <2>5. [tx.db EXCEPT !.tables = TRUE]
          = [db EXCEPT !.versions = Append(db.versions, SchemaVersion), !.tables = TRUE]
        /\ [tx.db EXCEPT !.tables = TRUE] \in Databases
    BY <1>1, <2>2, OwnTransaction DEF Databases
  <2>6. tx' = [owner |-> p, db |-> [tx.db EXCEPT !.tables = TRUE]]
    BY <1>1, <1>3, <2>5, OwnTransaction DEF Change
  <2> HIDE DEF c
  <2>7. tx' = [owner |-> p, db |-> Pending(c, db)]
    <3>1. Pending(c, db)
            = [db EXCEPT !.versions = Append(db.versions, SchemaVersion), !.tables = TRUE]
      BY <2>1 DEF Pending
    <3> QED  BY <2>5, <2>6, <3>1
  <2>8. "commit schema" \in WritingSteps
    BY DEF WritingSteps
  <2> QED  BY <1>1, <1>3, <2>4, <2>7, <2>8, OwnTransaction, StatementStep DEF c
<1> QED  BY <1>2, <1>3 DEF CreateTables

LEMMA DeleteHashesKeepsInv ==
  ASSUME IInv, NEW p \in Processes, DeleteHashes(p)
  PROVE  IInv'
<1> DEFINE c == [call[p] EXCEPT !.pc = "insert"]
<1>1. call[p].pc = "delete" /\ Inside(call[p])
  BY DEF DeleteHashes, At, Inside, WritingSteps
<1>2. c \in Calls /\ c.pc = "insert" /\ c.op = call[p].op /\ c.number = call[p].number
  BY GoingOn DEF Steps, WritingSteps
<1>3. tx.db = [db EXCEPT !.revision = call[p].number]
  BY <1>1, OwnTransaction, PendingFields
<1>4. Fits(c, db.tables)
  BY <1>1, <1>2, OwnTransaction DEF Fits
<1>5. [tx.db EXCEPT !.hashes = 0] = [db EXCEPT !.revision = call[p].number, !.hashes = 0]
      /\ [tx.db EXCEPT !.hashes = 0] \in Databases
  BY <1>1, <1>3, OwnTransaction DEF Databases
<1>6. tx' = [owner |-> p, db |-> [tx.db EXCEPT !.hashes = 0]]
  BY <1>1, <1>5, OwnTransaction DEF DeleteHashes, Change
<1> HIDE DEF c
<1>7. tx' = [owner |-> p, db |-> Pending(c, db)]
  <2>1. Pending(c, db) = [db EXCEPT !.revision = call[p].number, !.hashes = 0]
    BY <1>2 DEF Pending
  <2> QED  BY <1>5, <1>6, <2>1
<1>8. "insert" \in WritingSteps /\ GoOn(p, "insert") /\ number' = number /\ db' = db
  BY DEF DeleteHashes, WritingSteps
<1> QED  BY <1>1, <1>4, <1>7, <1>8, OwnTransaction, StatementStep DEF c

LEMMA InsertHashesKeepsInv ==
  ASSUME IInv, NEW p \in Processes, InsertHashes(p)
  PROVE  IInv'
<1> DEFINE c == [call[p] EXCEPT !.pc = "commit"]
<1>1. call[p].pc = "insert" /\ Inside(call[p])
  BY DEF InsertHashes, At, Inside, WritingSteps
<1>2. c \in Calls /\ c.pc = "commit" /\ c.op = call[p].op /\ c.number = call[p].number
  BY GoingOn DEF Steps, WritingSteps
<1>3. tx.db = [db EXCEPT !.revision = call[p].number, !.hashes = 0]
  <2>1. tx.db = Pending(call[p], db)
    BY <1>1, OwnTransaction
  <2> QED  BY <1>1, <2>1 DEF Pending
<1>4. Fits(c, db.tables) /\ c.op = "success" /\ call[p].number \in Numbers
  BY <1>1, <1>2, OwnTransaction DEF Fits
<1>5. [tx.db EXCEPT !.hashes = call[p].number]
        = [db EXCEPT !.revision = call[p].number, !.hashes = call[p].number]
      /\ [tx.db EXCEPT !.hashes = call[p].number] \in Databases
  BY <1>1, <1>3, <1>4, OwnTransaction DEF Databases
<1>6. tx' = [owner |-> p, db |-> [tx.db EXCEPT !.hashes = call[p].number]]
  BY <1>1, <1>5, OwnTransaction DEF InsertHashes, Change
<1> HIDE DEF c
<1>7. tx' = [owner |-> p, db |-> Pending(c, db)]
  <2>1. Pending(c, db)
          = [db EXCEPT !.revision = call[p].number, !.hashes = call[p].number]
    BY <1>2, <1>4 DEF Pending
  <2> QED  BY <1>5, <1>6, <2>1
<1>8. "commit" \in WritingSteps /\ GoOn(p, "commit") /\ number' = number /\ db' = db
  BY DEF InsertHashes, WritingSteps
<1> QED  BY <1>1, <1>4, <1>7, <1>8, OwnTransaction, StatementStep DEF c

\* The schema is committed where there was none, so there is one version row.
LEMMA CommitSchemaKeepsInv ==
  ASSUME IInv, NEW p \in Processes, CommitSchema(p)
  PROVE  IInv'
<1> DEFINE c == [call[p] EXCEPT !.pc = Body(call[p].op)]
<1>1. call[p].pc = "commit schema" /\ Inside(call[p])
  BY DEF CommitSchema, At, Inside, WritingSteps
<1>2. Body(call[p].op) \in Steps /\ ~Inside(c) /\ \A tables \in BOOLEAN : Fits(c, tables)
  BY <1>1, BodyFits
<1>3. c \in Calls /\ call' = [call EXCEPT ![p] = c]
  BY <1>2, GoOnEffect DEF CommitSchema, IInv
<1>4. tx.db = [db EXCEPT !.versions = Append(db.versions, SchemaVersion), !.tables = TRUE]
  BY <1>1, OwnTransaction, PendingFields
<1>5. /\ db' = tx.db /\ tx' = None /\ number' = number
      /\ tx.db.tables = TRUE /\ tx.db.versions = Append(db.versions, SchemaVersion)
      /\ tx.db.revision = db.revision /\ tx.db.hashes = db.hashes
  BY <1>1, <1>4, OwnTransaction DEF CommitSchema, Databases
<1>6. SchemaWhole'
  <2>1. ~db.tables /\ db.versions \in Seq(Nat)
    BY <1>1, OwnTransaction DEF Fits, Databases
  <2>2. db.versions = <<>>
    BY <2>1 DEF IInv, SchemaWhole
  <2>3. db'.versions = <<SchemaVersion>>
    BY <1>5, <2>2
  <2> QED  BY <1>5, <2>3 DEF SchemaWhole
<1>7. RecordWhole'
  BY <1>5 DEF IInv, RecordWhole
<1> HIDE DEF c
<1> QED  BY <1>1, <1>2, <1>3, <1>5, <1>6, <1>7, CommittingStep

LEMMA CommitKeepsInv ==
  ASSUME IInv, NEW p \in Processes, Commit(p)
  PROVE  /\ IInv'
         /\ db'.revision = IF call[p].op = "success" THEN call[p].number ELSE db.revision
         /\ db'.failures = IF call[p].op = "failure"
                           THEN db.failures \cup {call[p].number} ELSE db.failures
<1> DEFINE c == [call[p] EXCEPT !.pc = "answered"]
<1>1. call[p].pc = "commit" /\ Inside(call[p])
  BY DEF Commit, At, Inside, WritingSteps
<1>2. c \in Calls /\ c.pc = "answered" /\ c.op = call[p].op /\ c.number = call[p].number
      /\ call' = [call EXCEPT ![p] = c]
  BY GoingOn, GoOnEffect DEF Commit, Steps, IInv
<1>3. call[p].op \in {"success", "failure"} /\ call[p].number \in Numbers
  BY <1>1, OwnTransaction DEF Fits
<1>4. /\ call[p].op = "success" =>
           tx.db = [db EXCEPT !.revision = call[p].number, !.hashes = call[p].number]
      /\ call[p].op = "failure" =>
           tx.db = [db EXCEPT !.failures = db.failures \cup {call[p].number}]
  <2>1. tx.db = Pending(call[p], db)
    BY <1>1, OwnTransaction
  <2> QED  BY <1>1, <2>1 DEF Pending
<1>5. /\ db' = tx.db /\ tx' = None /\ number' = number
      /\ tx.db.tables = db.tables /\ tx.db.versions = db.versions
  BY <1>1, <1>3, <1>4, OwnTransaction DEF Commit, Databases
<1>6. /\ db'.revision = IF call[p].op = "success" THEN call[p].number ELSE db.revision
      /\ db'.failures = IF call[p].op = "failure"
                        THEN db.failures \cup {call[p].number} ELSE db.failures
      /\ db'.hashes = IF call[p].op = "success" THEN call[p].number ELSE db.hashes
  BY <1>1, <1>3, <1>4, <1>5, OwnTransaction DEF Databases
<1>7. SchemaWhole' /\ RecordWhole'
  BY <1>5, <1>6 DEF IInv, SchemaWhole, RecordWhole
<1>8. ~Inside(c) /\ Fits(c, db.tables)
  BY <1>2, <1>3 DEF Inside, WritingSteps, Fits
<1> HIDE DEF c
<1>9. IInv'
  BY <1>1, <1>2, <1>5, <1>7, <1>8, CommittingStep
<1> QED  BY <1>6, <1>9

\* The steps that read and the beginnings and ends of calls.
LEMMA ReadingStepsKeepInv ==
  ASSUME IInv, NEW p \in Processes,
         \/ BeginRead(p) \/ Return(p) \/ SelectRevision(p) \/ SelectHashes(p)
         \/ BeginRecord(p, "success") \/ BeginRecord(p, "failure")
  PROVE  IInv'
<1>1. /\ db \in Databases /\ number \in Numbers \cup {0} /\ call[p] \in Calls
      /\ Fits(call[p], db.tables)
  BY DEF IInv, TypeOK, CallsFit
<1>2. db.revision \in Numbers \cup {0} /\ db.hashes \in Numbers \cup {0}
  BY <1>1 DEF Databases
<1>3. CASE BeginRead(p)
  <2> DEFINE c == [Idle EXCEPT !.op = "read", !.pc = "create"]
  <2>1. c \in Calls /\ ~Inside(c) /\ Fits(c, db.tables) /\ ~Inside(call[p])
    BY <1>3 DEF Idle, Calls, Operations, Steps, Inside, WritingSteps, Fits, BeginRead, At
  <2>2. call' = [call EXCEPT ![p] = c] /\ UNCHANGED <<db, tx, number>>
    BY <1>3 DEF BeginRead
  <2> HIDE DEF c
  <2> QED  BY <1>1, <2>1, <2>2, PrivateStep
<1>4. CASE Return(p)
  <2>1. Idle \in Calls /\ ~Inside(Idle) /\ Fits(Idle, db.tables) /\ ~Inside(call[p])
    BY <1>4, IdleIsCall DEF Idle, Inside, WritingSteps, Fits, Return, At
  <2> QED  BY <1>1, <1>4, <2>1, PrivateStep DEF Return
<1>5. CASE SelectRevision(p)
  <2> DEFINE c == [call[p] EXCEPT !.revision = db.revision,
                                  !.pc = IF db.revision = 0 THEN "answered"
                                         ELSE "select hashes"]
  <2>1. c \in Calls /\ c.op = "read" /\ c.pc \in {"answered", "select hashes"}
    BY <1>1, <1>2, <1>5 DEF Calls, Steps, SelectRevision, At, Fits
  <2>2. ~Inside(c) /\ Fits(c, db.tables) /\ ~Inside(call[p])
    BY <1>5, <2>1 DEF Inside, WritingSteps, Fits, SelectRevision, At
  <2>3. call' = [call EXCEPT ![p] = c] /\ UNCHANGED <<db, tx, number>>
    BY <1>1, <1>5 DEF SelectRevision, IInv, TypeOK, Calls
  <2> HIDE DEF c
  <2> QED  BY <1>1, <2>1, <2>2, <2>3, PrivateStep
<1>6. CASE SelectHashes(p)
  <2> DEFINE c == [call[p] EXCEPT !.hashes = db.hashes, !.pc = "answered"]
  <2>1. c \in Calls /\ c.op = "read" /\ c.pc = "answered"
    BY <1>1, <1>2, <1>6 DEF Calls, Steps, SelectHashes, At, Fits
  <2>2. ~Inside(c) /\ Fits(c, db.tables) /\ ~Inside(call[p])
    BY <1>6, <2>1 DEF Inside, WritingSteps, Fits, SelectHashes, At
  <2>3. call' = [call EXCEPT ![p] = c] /\ UNCHANGED <<db, tx, number>>
    BY <1>1, <1>6 DEF SelectHashes, IInv, TypeOK, Calls
  <2> HIDE DEF c
  <2> QED  BY <1>1, <2>1, <2>2, <2>3, PrivateStep
<1>7. ASSUME NEW op \in {"success", "failure"}, BeginRecord(p, op)
      PROVE  IInv'
  <2> DEFINE c == [Idle EXCEPT !.op = op, !.pc = "create", !.number = number + 1]
  <2>1. number + 1 \in Numbers
    BY <1>1, <1>7, StateStoreAssumption DEF BeginRecord, Numbers
  <2>2. c \in Calls /\ ~Inside(c) /\ Fits(c, db.tables) /\ ~Inside(call[p])
    BY <1>7, <2>1
       DEF Idle, Calls, Operations, Steps, Inside, WritingSteps, Fits, BeginRecord, At
  <2>3. call' = [call EXCEPT ![p] = c] /\ UNCHANGED <<db, tx>> /\ number' = number + 1
    BY <1>7 DEF BeginRecord
  <2> HIDE DEF c
  <2> QED  BY <2>1, <2>2, <2>3, PrivateStep
<1> QED  BY <1>3, <1>4, <1>5, <1>6, <1>7

LEMMA InitEstablishesInv == Init => IInv
<1> SUFFICES ASSUME Init PROVE IInv
  OBVIOUS
<1>1. db \in Databases
  <2>1. Fresh \in Databases
    BY DEF Fresh, Databases
  <2>2. \A v \in OtherVersions : <<v>> \in Seq(Nat)
    BY StateStoreAssumption
  <2>3. \A s \in Seq(Nat) :
          [Fresh EXCEPT !.versionTable = TRUE, !.versions = s, !.tables = TRUE] \in Databases
    BY <2>1 DEF Databases
  <2> QED  BY <2>1, <2>2, <2>3 DEF Init
<1>2. SchemaWhole /\ RecordWhole
  <2>1. CASE db = Fresh
    BY <2>1 DEF Fresh, SchemaWhole, RecordWhole
  <2>2. ASSUME NEW v \in OtherVersions,
               db = [Fresh EXCEPT !.versionTable = TRUE, !.versions = <<v>>, !.tables = TRUE]
        PROVE  SchemaWhole /\ RecordWhole
    <3>1. /\ db.versions = <<v>> /\ db.tables = TRUE
          /\ db.revision = 0 /\ db.hashes = 0
      BY <2>2 DEF Fresh
    <3>2. Len(<<v>>) = 1 /\ <<v>> # <<>>
      OBVIOUS
    <3> QED  BY <3>1, <3>2 DEF SchemaWhole, RecordWhole
  <2> QED  BY <2>1, <2>2 DEF Init
<1>3. TypeOK
  BY <1>1, IdleIsCall DEF Init, TypeOK
<1>4. CallsFit /\ Owned /\ OwnerInside
  BY DEF Init, CallsFit, Owned, OwnerInside, Idle, Inside, WritingSteps, Fits
<1> QED  BY <1>2, <1>3, <1>4 DEF IInv

LEMMA StepKeepsInv == IInv /\ [Next]_storeVars => IInv'
<1> SUFFICES ASSUME IInv, [Next]_storeVars PROVE IInv'
  OBVIOUS
<1>1. CASE UNCHANGED storeVars
  BY <1>1 DEF storeVars, IInv, TypeOK, SchemaWhole, RecordWhole, CallsFit, Owned,
              OwnerInside
<1>2. ASSUME NEW p \in Processes, Proceed(p) PROVE IInv'
  BY <1>2, CreateVersionTableKeepsInv, CheckVersionKeepsInv, SeedKeepsInv,
     CreateTablesKeepsInv, CommitSchemaKeepsInv, UpsertKeepsInv, DeleteHashesKeepsInv,
     InsertHashesKeepsInv, InsertFailureKeepsInv, CommitKeepsInv, RaisingStep,
     ReadingStepsKeepInv
     DEF Proceed, Busy
<1>3. ASSUME NEW p \in Processes,
             \/ BeginRead(p) \/ Return(p) \/ Break(p)
             \/ \E op \in {"success", "failure"} : BeginRecord(p, op)
      PROVE  IInv'
  BY <1>3, ReadingStepsKeepInv, RaisingStep DEF Break
<1> QED  BY <1>1, <1>2, <1>3 DEF Next

LEMMA StoreInvHolds == Spec => []IInv
  BY InitEstablishesInv, StepKeepsInv, PTL DEF Spec

(***************************************************************************)
(* Whatever is cut short, races or runs into a locked database, the file   *)
(* has one version row and the tables or neither (_initialize of           *)
(* state/sqlite.py).                                                       *)
(***************************************************************************)
THEOREM SchemaStaysWhole == Spec => []SchemaWhole
<1>1. IInv => SchemaWhole
  BY DEF IInv
<1> QED  BY <1>1, StoreInvHolds, PTL

(* And the revision and the hashes in the file are always of the same      *)
(* apply (record_successful_apply of state/sqlite.py).                     *)
THEOREM StoreWhole == Spec => [](TypeOK /\ RecordWhole)
<1>1. IInv => TypeOK /\ RecordWhole
  BY DEF IInv
<1> QED  BY <1>1, StoreInvHolds, PTL

(* ------------------- what the callers are promised --------------------- *)

LEMMA RecordingField ==
  ASSUME TypeOK, NEW p \in Processes
  PROVE  Recording[p] = IF call[p].op \in {"success", "failure"}
                        THEN [op |-> call[p].op, number |-> call[p].number,
                              state |-> IF call[p].pc = "answered" THEN "recorded" ELSE "asked"]
                        ELSE [op |-> "none", number |-> 0, state |-> "none"]
  BY DEF Recording, Writing, At

\* A step that changes one call changes what is seen of that call only.
LEMMA RecordingChanges ==
  ASSUME TypeOK, NEW p \in Processes, NEW c \in Calls, call' = [call EXCEPT ![p] = c]
  PROVE  Recording' =
           [Recording EXCEPT ![p] =
              IF c.op \in {"success", "failure"}
              THEN [op |-> c.op, number |-> c.number,
                         state |-> IF c.pc = "answered" THEN "recorded" ELSE "asked"]
              ELSE [op |-> "none", number |-> 0, state |-> "none"]]
<1>1. /\ call' \in [Processes -> Calls] /\ call'[p] = c
      /\ \A q \in Processes \ {p} : call'[q] = call[q]
  BY OneCallChanges
<1> QED  BY <1>1 DEF Recording, Writing, At

\* Going on to a step other than the answer shows the callers nothing.
LEMMA NothingSeen ==
  ASSUME IInv, NEW p \in Processes, NEW c \in Calls, call' = [call EXCEPT ![p] = c],
         c.op = call[p].op, c.number = call[p].number,
         call[p].op \in {"success", "failure"} =>
           call[p].pc # "answered" /\ c.pc # "answered",
         db'.revision = db.revision, db'.failures = db.failures
  PROVE  UNCHANGED Record!recordVars
<1>1. TypeOK /\ Recording = [q \in Processes |-> Recording[q]]
  BY DEF IInv, Recording
<1> DEFINE seen == IF c.op \in {"success", "failure"}
                   THEN [op |-> c.op, number |-> c.number,
                         state |-> IF c.pc = "answered" THEN "recorded" ELSE "asked"]
                   ELSE [op |-> "none", number |-> 0, state |-> "none"]
<1>2. Recording[p] = seen
  BY <1>1, RecordingField
<1>3. Recording' = [Recording EXCEPT ![p] = seen]
  BY <1>1, RecordingChanges
<1> HIDE DEF seen
<1> QED  BY <1>1, <1>2, <1>3 DEF Record!recordVars

LEMMA RaiseSeen ==
  ASSUME IInv, NEW p \in Processes, call[p].pc # "answered", Raise(p)
  PROVE  Record!RecordNext \/ UNCHANGED Record!recordVars
<1>1. TypeOK /\ Recording = [q \in Processes |-> Recording[q]]
  BY DEF IInv, Recording
<1>2. /\ db' = db /\ call' = [call EXCEPT ![p] = Idle]
      /\ Recording' = [Recording EXCEPT ![p] = Record!NoCall]
  BY <1>1, IdleIsCall, RecordingChanges DEF Raise, Idle, Record!NoCall
<1>3. CASE call[p].op \in {"success", "failure"}
  <2>1. Recording[p] = [op |-> call[p].op, number |-> call[p].number, state |-> "asked"]
    BY <1>1, <1>3, RecordingField
  <2>2. Record!Pending(p, "success") \/ Record!Pending(p, "failure")
    BY <1>3, <2>1 DEF Record!Pending
  <2> QED  BY <1>2, <2>2 DEF Record!RecordNext, Record!Raise
<1>4. CASE call[p].op \notin {"success", "failure"}
  <2>1. Recording[p] = Record!NoCall
    BY <1>1, <1>4, RecordingField DEF Record!NoCall
  <2> QED  BY <1>1, <1>2, <2>1 DEF Record!recordVars
<1> QED  BY <1>3, <1>4

LEMMA CommitSeen ==
  ASSUME IInv, NEW p \in Processes, Commit(p)
  PROVE  Record!RecordNext
<1> DEFINE c == [call[p] EXCEPT !.pc = "answered"]
<1>1. /\ call[p].pc = "commit" /\ call[p].op \in {"success", "failure"}
      /\ TypeOK /\ Recording = [q \in Processes |-> Recording[q]]
  BY DEF Commit, At, IInv, CallsFit, Fits, Recording
<1>2. /\ c \in Calls /\ c.pc = "answered" /\ c.op = call[p].op
      /\ c.number = call[p].number /\ call' = [call EXCEPT ![p] = c]
  BY GoingOn, GoOnEffect DEF Commit, Steps, IInv
<1>3. Recording[p] = [op |-> call[p].op, number |-> call[p].number, state |-> "asked"]
  BY <1>1, RecordingField
<1> HIDE DEF c
<1>4. Recording' = [Recording EXCEPT ![p] =
                      [op |-> call[p].op, number |-> call[p].number, state |-> "recorded"]]
  BY <1>1, <1>2, RecordingChanges
<1>5. Recording' = [Recording EXCEPT ![p].state = "recorded"]
  <2>1. [Recording[p] EXCEPT !.state = "recorded"]
          = [op |-> call[p].op, number |-> call[p].number, state |-> "recorded"]
    BY <1>3
  <2> QED  BY <1>1, <1>4, <2>1
<1>6. /\ db'.revision = IF call[p].op = "success" THEN call[p].number ELSE db.revision
      /\ db'.failures = IF call[p].op = "failure"
                        THEN db.failures \cup {call[p].number} ELSE db.failures
  BY CommitKeepsInv
<1>7. /\ Recording[p].op = call[p].op /\ Recording[p].number = call[p].number
      /\ Recording[p].state = "asked"
  BY <1>3
<1>8. CASE call[p].op = "success"
  <2>1. Record!RecordSuccess(p)
    BY <1>5, <1>6, <1>7, <1>8 DEF Record!RecordSuccess, Record!Pending
  <2> QED  BY <2>1 DEF Record!RecordNext
<1>9. CASE call[p].op = "failure"
  <2>1. Record!RecordFailure(p)
    BY <1>5, <1>6, <1>7, <1>9 DEF Record!RecordFailure, Record!Pending
  <2> QED  BY <2>1 DEF Record!RecordNext
<1> QED  BY <1>1, <1>8, <1>9

LEMMA GoingOnSeen ==
  ASSUME IInv, NEW p \in Processes, NEW step \in Steps \ {"answered"}, GoOn(p, step),
         call[p].pc # "answered",
         db'.revision = db.revision, db'.failures = db.failures
  PROVE  UNCHANGED Record!recordVars
<1> DEFINE c == [call[p] EXCEPT !.pc = step]
<1>1. /\ c \in Calls /\ c.pc = step /\ c.op = call[p].op
      /\ c.number = call[p].number /\ call' = [call EXCEPT ![p] = c]
  BY GoingOn, GoOnEffect DEF IInv
<1> HIDE DEF c
<1> QED  BY <1>1, NothingSeen

LEMMA ProceedSeen ==
  ASSUME IInv, NEW p \in Processes, Proceed(p)
  PROVE  Record!RecordNext \/ UNCHANGED Record!recordVars
<1>1. db \in Databases /\ call[p] \in Calls
  BY DEF IInv, TypeOK
<1>2. CASE CreateVersionTable(p)
  <2>1. db'.revision = db.revision /\ db'.failures = db.failures
    BY <1>1, <1>2 DEF CreateVersionTable, Databases
  <2> QED  BY <1>2, <2>1, GoingOnSeen DEF CreateVersionTable, At, Steps
<1>3. CASE CheckVersion(p)
  <2>1. Body(call[p].op) \in Steps \ {"answered"}
    BY <1>3, GoingOn DEF Body, Steps, CheckVersion, At
  <2>2. call[p].pc # "answered"
    BY <1>3 DEF CheckVersion, At
  <2>3. "seed" \in Steps \ {"answered"}
    BY DEF Steps
  <2> QED  BY <1>3, <2>1, <2>2, <2>3, GoingOnSeen, RaiseSeen DEF CheckVersion
<1>4. CASE Seed(p)
  BY <1>4, GoingOnSeen DEF Seed, At, Steps, WritingSteps
<1>5. CASE CreateTables(p)
  BY <1>5, GoingOnSeen, RaiseSeen DEF CreateTables, At, Steps, WritingSteps
<1>6. CASE CommitSchema(p)
  <2>1. Body(call[p].op) \in Steps \ {"answered"} /\ call[p].pc # "answered"
    BY <1>6, GoingOn DEF Body, Steps, CommitSchema, At
  <2>2. tx.db = [db EXCEPT !.versions = Append(db.versions, SchemaVersion), !.tables = TRUE]
    BY <1>6, OwnTransaction, PendingFields DEF CommitSchema, At, Inside, WritingSteps
  <2>3. db'.revision = db.revision /\ db'.failures = db.failures
    BY <1>1, <1>6, <2>2 DEF CommitSchema, Databases
  <2> QED  BY <1>6, <2>1, <2>3, GoingOnSeen DEF CommitSchema
<1>7. CASE SelectRevision(p) \/ SelectHashes(p)
  <2>1. PICK c \in Calls : call' = [call EXCEPT ![p] = c] /\ c.op = call[p].op
                           /\ c.number = call[p].number
    <3>1. db.revision \in Numbers \cup {0} /\ db.hashes \in Numbers \cup {0}
      BY <1>1 DEF Databases
    <3>2. CASE SelectRevision(p)
      <4> DEFINE c == [call[p] EXCEPT !.revision = db.revision,
                                      !.pc = IF db.revision = 0 THEN "answered"
                                             ELSE "select hashes"]
      <4>1. c \in Calls /\ c.op = call[p].op /\ c.number = call[p].number
        BY <1>1, <3>1 DEF Calls, Steps
      <4>2. call' = [call EXCEPT ![p] = c]
        BY <1>1, <3>2 DEF SelectRevision, IInv, TypeOK, Calls
      <4> HIDE DEF c
      <4> QED  BY <4>1, <4>2
    <3>3. CASE SelectHashes(p)
      <4> DEFINE c == [call[p] EXCEPT !.hashes = db.hashes, !.pc = "answered"]
      <4>1. c \in Calls /\ c.op = call[p].op /\ c.number = call[p].number
        BY <1>1, <3>1 DEF Calls, Steps
      <4>2. call' = [call EXCEPT ![p] = c]
        BY <1>1, <3>3 DEF SelectHashes, IInv, TypeOK, Calls
      <4> HIDE DEF c
      <4> QED  BY <4>1, <4>2
    <3> QED  BY <1>7, <3>2, <3>3
  <2>2. call[p].op = "read"
    BY <1>7 DEF IInv, CallsFit, Fits, SelectRevision, SelectHashes, At
  <2> QED  BY <1>7, <2>1, <2>2, NothingSeen DEF SelectRevision, SelectHashes
<1>8. CASE Upsert(p) \/ DeleteHashes(p) \/ InsertHashes(p) \/ InsertFailure(p)
  BY <1>8, GoingOnSeen
     DEF Upsert, DeleteHashes, InsertHashes, InsertFailure, At, Steps, WritingSteps
<1>9. CASE Commit(p)
  BY <1>9, CommitSeen
<1>10. CASE Busy(p)
  BY <1>10, RaiseSeen DEF Busy, At
<1> QED  BY <1>2, <1>3, <1>4, <1>5, <1>6, <1>7, <1>8, <1>9, <1>10 DEF Proceed

LEMMA BeginningsAndEndsSeen ==
  ASSUME IInv, NEW p \in Processes,
         \/ BeginRead(p) \/ Return(p) \/ Break(p)
         \/ \E op \in {"success", "failure"} : BeginRecord(p, op)
  PROVE  Record!RecordNext \/ UNCHANGED Record!recordVars
<1>1. TypeOK /\ Recording = [q \in Processes |-> Recording[q]]
      /\ call[p] \in Calls /\ number \in Numbers \cup {0}
  BY DEF IInv, TypeOK, Recording
<1>2. call[p].pc = "idle" => Recording[p] = Record!NoCall
  BY <1>1, RecordingField DEF IInv, CallsFit, Fits, Record!NoCall
<1>3. CASE BeginRead(p)
  <2> DEFINE c == [Idle EXCEPT !.op = "read", !.pc = "create"]
  <2>1. c \in Calls /\ c.op = "read" /\ call' = [call EXCEPT ![p] = c]
        /\ call[p].pc = "idle" /\ db' = db
    BY <1>3 DEF BeginRead, At, Idle, Calls, Operations, Steps
  <2> HIDE DEF c
  <2>2. Recording' = [Recording EXCEPT ![p] = Record!NoCall]
    BY <1>1, <2>1, RecordingChanges DEF Record!NoCall
  <2> QED  BY <1>1, <1>2, <2>1, <2>2 DEF Record!recordVars
<1>4. CASE Return(p)
  <2>1. db' = db /\ call[p].pc = "answered"
        /\ Recording' = [Recording EXCEPT ![p] = Record!NoCall]
    BY <1>1, <1>4, IdleIsCall, RecordingChanges DEF Return, At, Idle, Record!NoCall
  <2>2. CASE call[p].op \in {"success", "failure"}
    <3>1. Recording[p].state = "recorded"
      BY <1>1, <2>1, <2>2, RecordingField
    <3> QED  BY <2>1, <3>1 DEF Record!RecordNext, Record!Answer
  <2>3. CASE call[p].op \notin {"success", "failure"}
    <3>1. Recording[p] = Record!NoCall
      BY <1>1, <2>3, RecordingField DEF Record!NoCall
    <3> QED  BY <1>1, <2>1, <3>1 DEF Record!recordVars
  <2> QED  BY <2>2, <2>3
<1>5. CASE Break(p)
  BY <1>5, RaiseSeen DEF Break, At
<1>6. ASSUME NEW op \in {"success", "failure"}, BeginRecord(p, op)
      PROVE  Record!RecordNext
  <2> DEFINE c == [Idle EXCEPT !.op = op, !.pc = "create", !.number = number + 1]
  <2>1. number + 1 \in 1 .. MaxRecords
    BY <1>1, <1>6, StateStoreAssumption DEF BeginRecord, Numbers
  <2>2. c \in Calls /\ c.op = op /\ c.pc = "create" /\ c.number = number + 1
        /\ call' = [call EXCEPT ![p] = c] /\ call[p].pc = "idle" /\ db' = db
    BY <1>6, <2>1 DEF BeginRecord, At, Idle, Calls, Operations, Steps, Numbers
  <2> HIDE DEF c
  <2>3. Recording' = [Recording EXCEPT ![p] =
                        [op |-> op, number |-> number + 1, state |-> "asked"]]
    BY <1>1, <2>2, RecordingChanges
  <2>4. Record!Ask(p, op, number + 1)
    BY <1>2, <2>2, <2>3 DEF Record!Ask
  <2> QED  BY <2>1, <2>4 DEF Record!RecordNext
<1> QED  BY <1>3, <1>4, <1>5, <1>6

(***************************************************************************)
(* Whoever records an outcome sees its call as one step or none: every     *)
(* step of the store is a step of AppliedRecord or changes nothing there.  *)
(* (That a call ends is checked by TLC.)                                   *)
(***************************************************************************)
THEOREM StoreKeepsPromise ==
  Spec => Record!RecordInit /\ [][Record!RecordNext]_(Record!recordVars)
<1>1. Init => Record!RecordInit
  <2> SUFFICES ASSUME Init PROVE Record!RecordInit
    OBVIOUS
  <2>1. db.revision = 0 /\ db.failures = {}
    <3>1. Fresh.revision = 0 /\ Fresh.failures = {}
      BY DEF Fresh
    <3>2. ASSUME NEW v
          PROVE  LET d == [Fresh EXCEPT !.versionTable = TRUE, !.versions = <<v>>,
                                        !.tables = TRUE]
                 IN  d.revision = 0 /\ d.failures = {}
      BY DEF Fresh
    <3> QED  BY <3>1, <3>2 DEF Init
  <2>2. Recording = [p \in Processes |-> Record!NoCall]
    BY DEF Init, Idle, Recording, Writing, Record!NoCall
  <2> QED  BY <2>1, <2>2 DEF Record!RecordInit
<1>2. IInv /\ [Next]_storeVars => [Record!RecordNext]_(Record!recordVars)
  <2> SUFFICES ASSUME IInv, [Next]_storeVars
               PROVE  Record!RecordNext \/ UNCHANGED Record!recordVars
    OBVIOUS
  <2>1. CASE UNCHANGED storeVars
    BY <2>1 DEF storeVars, Record!recordVars, Recording, Writing, At
  <2>2. CASE Next
    BY <2>2, ProceedSeen, BeginningsAndEndsSeen DEF Next
  <2> QED  BY <2>1, <2>2
<1> QED  BY <1>1, <1>2, InitEstablishesInv, StepKeepsInv, PTL DEF Spec

(* ------------------- what a reader may rely on -------------------------- *)

\* What a call may look like when db.revision is r and n outcomes were begun:
\* a writer records the last of them, a reader has read nothing newer than r
\* and no hashes older than its revision.
Forward(c, r, n) ==
  /\ c.op \in {"success", "failure"} => c.number = n
  /\ c.pc = "select hashes" => c.revision <= r
  /\ c.op = "read" /\ c.pc = "answered" => c.revision <= c.hashes

ForwardInv ==
  /\ db.revision <= number
  /\ \A p \in Processes : Forward(call[p], db.revision, number)

LEMMA ReadingsAreNumbers ==
  ASSUME IInv
  PROVE  /\ db.revision \in Nat /\ db.hashes \in Nat /\ number \in Nat
         /\ \A p \in Processes : call[p].revision \in Nat /\ call[p].hashes \in Nat
<1>1. Numbers \cup {0} \subseteq Nat
  BY DEF Numbers
<1>2. /\ db.revision \in Numbers \cup {0} /\ db.hashes \in Numbers \cup {0}
      /\ number \in Numbers \cup {0}
  BY DEF IInv, TypeOK, Databases
<1>3. ASSUME NEW p \in Processes
      PROVE  call[p].revision \in Numbers \cup {0} /\ call[p].hashes \in Numbers \cup {0}
  BY DEF IInv, TypeOK, Calls
<1> QED  BY <1>1, <1>2, <1>3

LEMMA NoMoreThanItself == \A n \in Nat : n <= n
  OBVIOUS

\* A step of p's call: the recorded revision grows and stays below the number.
LEMMA ForwardStep ==
  ASSUME IInv, IInv', ForwardInv, NEW p \in Processes, NEW c \in Calls,
         call' = [call EXCEPT ![p] = c], Forward(c, db'.revision, number'),
         db.revision <= db'.revision, db'.revision <= number', number' = number
  PROVE  ForwardInv'
<1>1. /\ call'[p] = c /\ \A q \in Processes \ {p} : call'[q] = call[q]
  BY OneCallChanges DEF IInv
<1>2. db.revision \in Nat /\ db'.revision \in Nat
  <2>1. db'.revision \in Numbers \cup {0}
    BY DEF IInv, TypeOK, Databases
  <2> QED  BY <2>1, ReadingsAreNumbers DEF Numbers
<1>3. ASSUME NEW q \in Processes \ {p}
      PROVE  Forward(call'[q], db'.revision, number')
  <2>1. Forward(call[q], db.revision, number) /\ call[q].revision \in Nat
    BY ReadingsAreNumbers DEF ForwardInv
  <2>2. call[q].revision <= db.revision => call[q].revision <= db'.revision
    <3>1. \A a, b, d \in Nat : a <= b /\ b <= d => a <= d
      OBVIOUS
    <3> QED  BY <1>2, <2>1, <3>1
  <2>3. Forward(call[q], db'.revision, number)
    BY <2>1, <2>2 DEF Forward
  <2> QED  BY <1>1, <2>3
<1> QED  BY <1>1, <1>3 DEF ForwardInv

\* A step that changes nothing but p's call.
LEMMA ForwardSame ==
  ASSUME IInv, IInv', ForwardInv, NEW p \in Processes, NEW c \in Calls,
         call' = [call EXCEPT ![p] = c], Forward(c, db.revision, number),
         db' = db, number' = number
  PROVE  ForwardInv'
<1>1. db.revision <= db'.revision /\ db'.revision <= number'
  BY ReadingsAreNumbers DEF ForwardInv
<1> QED  BY <1>1, ForwardStep

\* A call that only goes on, and answers nothing to a reader.
LEMMA ForwardGoOn ==
  ASSUME IInv, IInv', ForwardInv, NEW p \in Processes, NEW step \in Steps, GoOn(p, step),
         step # "select hashes", step = "answered" => call[p].op # "read",
         db.revision <= db'.revision, db'.revision <= number', number' = number
  PROVE  ForwardInv'
<1> DEFINE c == [call[p] EXCEPT !.pc = step]
<1>1. c \in Calls /\ call' = [call EXCEPT ![p] = c]
  BY GoOnEffect DEF IInv
<1>2. c.pc = step /\ c.op = call[p].op /\ c.number = call[p].number
  BY GoingOn
<1> HIDE DEF c
<1>3. Forward(c, db'.revision, number')
  BY <1>2 DEF ForwardInv, Forward
<1> QED  BY <1>1, <1>3, ForwardStep

LEMMA ForwardRaise ==
  ASSUME IInv, IInv', ForwardInv, NEW p \in Processes, Raise(p)
  PROVE  ForwardInv'
<1>1. Forward(Idle, db.revision, number)
  BY DEF Idle, Forward
<1> QED  BY <1>1, IdleIsCall, ForwardSame DEF Raise

\* The steps of a call that leave the revision as it is.
LEMMA ForwardQuiet ==
  ASSUME IInv, IInv', ForwardInv, NEW p \in Processes, NEW step \in Steps, GoOn(p, step),
         step \notin {"select hashes", "answered"},
         db'.revision = db.revision, number' = number
  PROVE  ForwardInv'
<1>1. db.revision \in Nat
  BY ReadingsAreNumbers
<1>2. db.revision <= number
  BY DEF ForwardInv
<1>3. db.revision <= db'.revision
  <2>1. db.revision <= db.revision
    BY <1>1, NoMoreThanItself
  <2> QED  BY <2>1, Zenon
<1>4. db'.revision <= number'
  BY <1>2, Zenon
<1> QED  BY <1>3, <1>4, ForwardGoOn

LEMMA ForwardProceeds ==
  ASSUME IInv, IInv', ForwardInv, NEW p \in Processes, Proceed(p)
  PROVE  ForwardInv'
<1>1. /\ db \in Databases /\ db.revision \in Nat /\ db.hashes \in Nat /\ number \in Nat
      /\ db.revision = db.hashes
      /\ db.revision <= number /\ call[p] \in Calls /\ Fits(call[p], db.tables)
      /\ Forward(call[p], db.revision, number)
  BY ReadingsAreNumbers DEF IInv, TypeOK, RecordWhole, CallsFit, ForwardInv
<1>2. CASE CreateVersionTable(p)
  <2>1. db'.revision = db.revision
    BY <1>1, <1>2 DEF CreateVersionTable, Databases
  <2> QED  BY <1>2, <2>1, ForwardQuiet DEF CreateVersionTable, Steps
<1>3. CASE CheckVersion(p)
  <2>1. Body(call[p].op) \in {"select revision", "upsert", "insert failure"}
    BY <1>3, BodyValues DEF CheckVersion, At
  <2> QED  BY <1>3, <2>1, ForwardQuiet, ForwardRaise DEF CheckVersion, Steps
<1>4. CASE Seed(p)
  BY <1>4, ForwardQuiet DEF Seed, Steps, WritingSteps
<1>5. CASE CreateTables(p)
  BY <1>5, ForwardQuiet, ForwardRaise DEF CreateTables, Steps, WritingSteps
<1>6. CASE CommitSchema(p)
  <2>1. call[p].pc = "commit schema" /\ Inside(call[p])
    BY <1>6 DEF CommitSchema, At, Inside, WritingSteps
  <2>2. tx.db = [db EXCEPT !.versions = Append(db.versions, SchemaVersion), !.tables = TRUE]
    BY <2>1, OwnTransaction, PendingFields
  <2>3. db'.revision = db.revision
    BY <1>1, <1>6, <2>2 DEF CommitSchema, Databases
  <2>4. Body(call[p].op) \in {"select revision", "upsert", "insert failure"}
    BY <2>1, BodyValues
  <2> QED  BY <1>6, <2>3, <2>4, ForwardQuiet DEF CommitSchema, Steps
<1>7. CASE SelectRevision(p)
  <2> DEFINE c == [call[p] EXCEPT !.revision = db.revision,
                                  !.pc = IF db.revision = 0 THEN "answered"
                                         ELSE "select hashes"]
  <2>1. call' = [call EXCEPT ![p] = c] /\ db' = db /\ number' = number
    BY <1>1, <1>7 DEF SelectRevision, IInv, TypeOK, Calls
  <2>2. /\ c \in Calls /\ c.revision = db.revision /\ c.hashes = call[p].hashes
        /\ c.op = call[p].op /\ c.number = call[p].number
        /\ c.pc = "answered" => db.revision = 0
    BY <1>1 DEF Calls, Steps, Databases
  <2>3. c.hashes \in Nat
    BY <2>2, ReadingsAreNumbers
  <2> HIDE DEF c
  <2>4. c.op # "success" /\ c.op # "failure"
    BY <1>1, <1>7, <2>2 DEF SelectRevision, At, Fits
  <2>5. c.revision <= db.revision /\ (c.pc = "answered" => c.revision <= c.hashes)
    BY <1>1, <2>2, <2>3
  <2>6. Forward(c, db.revision, number)
    BY <2>4, <2>5 DEF Forward
  <2> QED  BY <1>1, <2>1, <2>2, <2>6, ForwardSame
<1>8. CASE SelectHashes(p)
  <2> DEFINE c == [call[p] EXCEPT !.hashes = db.hashes, !.pc = "answered"]
  <2>1. call' = [call EXCEPT ![p] = c] /\ db' = db /\ number' = number
    BY <1>1, <1>8 DEF SelectHashes, IInv, TypeOK, Calls
  <2>2. /\ c \in Calls /\ c.revision = call[p].revision /\ c.hashes = db.hashes
        /\ c.op = call[p].op /\ c.number = call[p].number /\ c.pc = "answered"
    BY <1>1 DEF Calls, Steps, Databases
  <2>3. call[p].revision <= db.revision
    BY <1>1, <1>8 DEF SelectHashes, At, Forward
  <2> HIDE DEF c
  <2>4. Forward(c, db.revision, number)
    BY <1>1, <2>2, <2>3 DEF Forward
  <2> QED  BY <1>1, <2>1, <2>2, <2>4, ForwardSame
<1>9. CASE Upsert(p)
  BY <1>9, ForwardQuiet DEF Upsert, Steps, WritingSteps
<1>10. CASE DeleteHashes(p)
  BY <1>10, ForwardQuiet DEF DeleteHashes, Steps, WritingSteps
<1>11. CASE InsertHashes(p)
  BY <1>11, ForwardQuiet DEF InsertHashes, Steps, WritingSteps
<1>12. CASE InsertFailure(p)
  BY <1>12, ForwardQuiet DEF InsertFailure, Steps, WritingSteps
<1>13. CASE Commit(p)
  <2>1. call[p].op \in {"success", "failure"} /\ call[p].number = number
    BY <1>1, <1>13 DEF Commit, At, Fits, Forward
  <2>2. db.revision <= db'.revision /\ db'.revision <= number
    <3>1. db'.revision \in {call[p].number, db.revision}
      BY <1>13, CommitKeepsInv
    <3> QED  BY <1>1, <2>1, <3>1
  <2>3. GoOn(p, "answered") /\ number' = number /\ "answered" \in Steps
    BY <1>13 DEF Commit, Steps
  <2> QED  BY <2>1, <2>2, <2>3, ForwardGoOn
<1>14. CASE Busy(p)
  BY <1>14, ForwardRaise DEF Busy
<1> QED  BY <1>2, <1>3, <1>4, <1>5, <1>6, <1>7, <1>8, <1>9, <1>10, <1>11, <1>12, <1>13,
            <1>14 DEF Proceed

LEMMA ForwardBeginsAndEnds ==
  ASSUME IInv, IInv', ForwardInv, NEW p \in Processes,
         \/ BeginRead(p) \/ Return(p)
         \/ \E op \in {"success", "failure"} : BeginRecord(p, op)
  PROVE  ForwardInv'
<1>1. db.revision \in Nat /\ number \in Nat /\ db.revision <= number
  BY ReadingsAreNumbers DEF ForwardInv
<1>2. CASE BeginRead(p)
  <2> DEFINE c == [Idle EXCEPT !.op = "read", !.pc = "create"]
  <2>1. c \in Calls /\ Forward(c, db.revision, number)
    BY DEF Idle, Calls, Operations, Steps, Forward
  <2>2. call' = [call EXCEPT ![p] = c] /\ db' = db /\ number' = number
    BY <1>2 DEF BeginRead
  <2> HIDE DEF c
  <2> QED  BY <2>1, <2>2, ForwardSame
<1>3. CASE Return(p)
  <2>1. Forward(Idle, db.revision, number)
    BY DEF Idle, Forward
  <2> QED  BY <1>3, <2>1, IdleIsCall, ForwardSame DEF Return
<1>4. ASSUME NEW op \in {"success", "failure"}, BeginRecord(p, op) PROVE ForwardInv'
  <2> DEFINE c == [Idle EXCEPT !.op = op, !.pc = "create", !.number = number + 1]
  <2>1. /\ call' = [call EXCEPT ![p] = c] /\ db' = db /\ number' = number + 1
        /\ \A q \in Processes : call[q].op \notin {"success", "failure"}
    BY <1>4 DEF BeginRecord, Writing
  <2>2. c.pc = "create" /\ c.op = op /\ c.number = number + 1
    BY DEF Idle
  <2> HIDE DEF c
  <2>3. call'[p] = c /\ \A q \in Processes \ {p} : call'[q] = call[q]
    BY <2>1 DEF IInv, TypeOK
  <2>4. Forward(c, db'.revision, number')
    BY <1>4, <2>1, <2>2 DEF Forward
  <2>5. \A q \in Processes \ {p} : Forward(call'[q], db'.revision, number')
    BY <2>1, <2>3 DEF ForwardInv, Forward
  <2> QED  BY <1>1, <2>1, <2>3, <2>4, <2>5 DEF ForwardInv
<1> QED  BY <1>2, <1>3, <1>4

LEMMA StepKeepsForwardInv ==
  ASSUME IInv, IInv', ForwardInv, [Next]_storeVars
  PROVE  ForwardInv'
<1>1. CASE UNCHANGED storeVars
  BY <1>1 DEF storeVars, ForwardInv
<1>2. ASSUME NEW p \in Processes, Break(p) PROVE ForwardInv'
  BY <1>2, ForwardRaise DEF Break
<1> QED  BY <1>1, <1>2, ForwardProceeds, ForwardBeginsAndEnds DEF Next

(***************************************************************************)
(* A reader may see the hashes of a later apply than its revision, but     *)
(* never of an earlier one, whoever writes between its two SELECTs         *)
(* (get_domain_state of state/sqlite.py).                                  *)
(***************************************************************************)
THEOREM ReadersGoForward == Spec => []ReadsForward
<1>1. Init => ForwardInv
  <2> SUFFICES ASSUME Init PROVE ForwardInv
    OBVIOUS
  <2>1. db.revision = 0 /\ number = 0 /\ \A p \in Processes : call[p] = Idle
    <3>1. Fresh.revision = 0
      BY DEF Fresh
    <3>2. \A v \in OtherVersions :
            [Fresh EXCEPT !.versionTable = TRUE, !.versions = <<v>>,
                          !.tables = TRUE].revision = 0
      BY DEF Fresh
    <3>3. PICK d : db = d /\ d.revision = 0
      BY <3>1, <3>2, Zenon DEF Init
    <3> QED  BY <3>3 DEF Init
  <2>2. Forward(Idle, 0, 0)
    BY DEF Idle, Forward
  <2> QED  BY <2>1, <2>2 DEF ForwardInv
<1>2. IInv /\ IInv' /\ ForwardInv /\ [Next]_storeVars => ForwardInv'
  BY StepKeepsForwardInv
<1>3. ForwardInv => ReadsForward
  BY DEF ForwardInv, Forward, ReadsForward, At
<1> QED  BY <1>1, <1>2, <1>3, StoreInvHolds, PTL DEF Spec

(* ------------------- files of another schema version -------------------- *)

Foreign(d) == d.versions # <<>> /\ Head(d.versions) # SchemaVersion

\* Nobody gets past the version of a foreign file.
ForeignInv ==
  Foreign(db) =>
    /\ db.versionTable = TRUE /\ tx = None
    /\ \A p \in Processes : call[p].pc \in {"idle", "create", "version"}

LEMMA ForeignStepKeeps ==
  ASSUME IInv, ForeignInv, Foreign(db), Next
  PROVE  db' = db /\ ForeignInv'
<1>1. PICK p \in Processes :
        \/ BeginRead(p) \/ (\E op \in {"success", "failure"} : BeginRecord(p, op))
        \/ Proceed(p) \/ Break(p) \/ Return(p)
  BY DEF Next
<1>2. /\ call[p].pc \in {"idle", "create", "version"} /\ tx = None
      /\ db.versionTable = TRUE /\ db \in Databases /\ call[p] \in Calls
  BY DEF ForeignInv, IInv, TypeOK
<1>3. db = [db EXCEPT !.versionTable = TRUE]
  BY <1>2 DEF Databases
<1>4. SUFFICES /\ db' = db /\ tx' = None
               /\ \E c \in Calls : /\ call' = [call EXCEPT ![p] = c]
                                   /\ c.pc \in {"idle", "create", "version"}
  <2>1. ASSUME NEW c \in Calls, call' = [call EXCEPT ![p] = c],
               c.pc \in {"idle", "create", "version"}, db' = db, tx' = None
        PROVE  ForeignInv'
    BY <1>2, <2>1, OneCallChanges DEF ForeignInv, IInv
  <2> QED  BY <1>4, <2>1
<1>5. CASE Raise(p)
  <2>1. Idle.pc = "idle"
    BY DEF Idle
  <2> QED  BY <1>2, <1>5, <2>1, IdleIsCall DEF Raise
<1>6. CASE BeginRead(p)
  <2> DEFINE c == [Idle EXCEPT !.op = "read", !.pc = "create"]
  <2>1. c \in Calls /\ c.pc = "create"
    BY DEF Idle, Calls, Operations, Steps
  <2> QED  BY <1>2, <1>6, <2>1 DEF BeginRead
<1>7. ASSUME NEW op \in {"success", "failure"}, BeginRecord(p, op)
      PROVE  /\ db' = db /\ tx' = None
             /\ \E c \in Calls : /\ call' = [call EXCEPT ![p] = c]
                                 /\ c.pc \in {"idle", "create", "version"}
  <2> DEFINE c == [Idle EXCEPT !.op = op, !.pc = "create", !.number = number + 1]
  <2>1. number + 1 \in Numbers
    BY <1>7, StateStoreAssumption DEF BeginRecord, Numbers, IInv, TypeOK
  <2>2. c \in Calls /\ c.pc = "create"
    BY <1>7, <2>1 DEF Idle, Calls, Operations, Steps
  <2> QED  BY <1>2, <1>7, <2>2 DEF BeginRecord
<1>8. CASE CreateVersionTable(p)
  <2>1. "version" \in Steps
    BY DEF Steps
  <2>2. [call[p] EXCEPT !.pc = "version"].pc = "version"
    BY <1>2 DEF Calls
  <2>3. /\ [call[p] EXCEPT !.pc = "version"] \in Calls
        /\ call' = [call EXCEPT ![p] = [call[p] EXCEPT !.pc = "version"]]
    BY <1>8, <2>1, GoOnEffect DEF CreateVersionTable, IInv
  <2> QED  BY <1>2, <1>3, <1>8, <2>2, <2>3 DEF CreateVersionTable
<1>9. CASE CheckVersion(p)
  BY <1>5, <1>9 DEF CheckVersion, Foreign
<1>10. CASE Return(p)
  BY <1>2, <1>10 DEF Return, At
<1> QED
  <2>1. CASE Proceed(p)
    BY <1>2, <1>5, <1>8, <1>9, <2>1
       DEF Proceed, Seed, CreateTables, CommitSchema, SelectRevision, SelectHashes, Upsert,
           DeleteHashes, InsertHashes, InsertFailure, Commit, Busy, At
  <2> QED  BY <1>1, <1>5, <1>6, <1>7, <1>10, <2>1 DEF Break

\* No step makes a file foreign: the one version row written is of this release.
LEMMA NothingBecomesForeign ==
  ASSUME IInv, ~Foreign(db), Next
  PROVE  ~Foreign(db')
<1>1. PICK p \in Processes :
        \/ BeginRead(p) \/ (\E op \in {"success", "failure"} : BeginRecord(p, op))
        \/ Proceed(p) \/ Break(p) \/ Return(p)
  BY DEF Next
<1>2. db \in Databases
  BY DEF IInv, TypeOK
<1>3. CASE CreateVersionTable(p)
  BY <1>2, <1>3 DEF CreateVersionTable, Databases, Foreign
<1>4. CASE CommitSchema(p)
  <2>1. call[p].pc = "commit schema" /\ Inside(call[p])
    BY <1>4 DEF CommitSchema, At, Inside, WritingSteps
  <2>2. tx.db = [db EXCEPT !.versions = Append(db.versions, SchemaVersion), !.tables = TRUE]
    BY <2>1, OwnTransaction, PendingFields
  <2>3. db.versions = <<>>
    BY <1>2, <2>1, OwnTransaction DEF Fits, Databases, IInv, SchemaWhole
  <2>4. Append(db.versions, SchemaVersion) = <<SchemaVersion>>
    BY <2>3
  <2>5. tx.db.versions = Append(db.versions, SchemaVersion)
    BY <1>2, <2>2 DEF Databases
  <2>6. db'.versions = <<SchemaVersion>>
    BY <1>4, <2>4, <2>5 DEF CommitSchema
  <2> QED  BY <2>6 DEF Foreign
<1>5. CASE Commit(p)
  <2>1. call[p].pc = "commit" /\ Inside(call[p])
    BY <1>5 DEF Commit, At, Inside, WritingSteps
  <2>2. call[p].op \in {"success", "failure"}
    BY <2>1, OwnTransaction DEF Fits
  <2>3. tx.db = Pending(call[p], db)
    BY <2>1, OwnTransaction
  <2>4. tx.db.versions = db.versions
    BY <1>2, <2>1, <2>2, <2>3 DEF Pending, Databases
  <2> QED  BY <1>5, <2>4 DEF Commit, Foreign
<1>6. CASE db' = db
  BY <1>6
<1> QED  BY <1>1, <1>3, <1>4, <1>5, <1>6
            DEF Proceed, BeginRead, BeginRecord, Break, Return, Raise, CheckVersion, Seed,
                CreateTables, SelectRevision, SelectHashes, Upsert, DeleteHashes,
                InsertHashes, InsertFailure, Busy

(***************************************************************************)
(* A file of another schema version is never written to: no version table, *)
(* no row, no outcome (StateSchemaError of _initialize, state/sqlite.py).  *)
(***************************************************************************)
THEOREM OtherVersionsAreKept == Spec => OtherVersionKept
<1>1. Init => ForeignInv
  <2> SUFFICES ASSUME Init, Foreign(db) PROVE ForeignInv
    BY DEF ForeignInv
  <2>1. db # Fresh
    BY DEF Fresh, Foreign
  <2>2. db.versionTable = TRUE
    BY <2>1 DEF Init, Fresh
  <2> QED  BY <2>2 DEF Init, ForeignInv, Idle
<1>2. IInv /\ ForeignInv /\ [Next]_storeVars => ForeignInv'
  <2> SUFFICES ASSUME IInv, ForeignInv, [Next]_storeVars PROVE ForeignInv'
    OBVIOUS
  <2>1. CASE UNCHANGED storeVars
    BY <2>1 DEF storeVars, ForeignInv, Foreign
  <2>2. CASE Next /\ Foreign(db)
    BY <2>2, ForeignStepKeeps
  <2>3. CASE Next /\ ~Foreign(db)
    <3>1. ~Foreign(db')
      BY <2>3, NothingBecomesForeign
    <3> QED  BY <3>1 DEF ForeignInv
  <2> QED  BY <2>1, <2>2, <2>3
<1>3. IInv /\ ForeignInv /\ [Next]_storeVars
        => [db.versions # <<>> /\ Head(db.versions) # SchemaVersion => db' = db]_storeVars
  BY ForeignStepKeeps DEF Foreign
<1> QED  BY <1>1, <1>2, <1>3, StoreInvHolds, PTL DEF Spec, OtherVersionKept
=============================================================================
