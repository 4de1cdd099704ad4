---------------------------- MODULE StateStore ----------------------------
(***************************************************************************)
(* state/sqlite.py: SQLiteStateStore over one database file, used by       *)
(* several processes.  Every statement is an action.  Outside a            *)
(* transaction a statement takes effect by itself; in Python's sqlite3     *)
(* module CREATE TABLE and SELECT begin none, INSERT and DELETE do.        *)
(*                                                                         *)
(* `db' is what the file holds, `tx' the write transaction that is open    *)
(* (SQLite has one at a time; the others see `db'), `call' the call every  *)
(* process is in.  Applies are numbered in the order they are recorded:    *)
(* the number stands for the revision, and in the hash table for the set   *)
(* of hashes of that apply.                                                *)
(***************************************************************************)
EXTENDS Sequences, Absence, Naturals

CONSTANTS
  Processes,
  SchemaVersion,   \* SCHEMA_VERSION
  OtherVersions,   \* versions that another release may have left
  MaxRecords       \* bound: outcomes recorded

ASSUME StateStoreAssumption ==
  /\ SchemaVersion \in Nat
  /\ OtherVersions \subseteq Nat \ {SchemaVersion}
  /\ MaxRecords \in Nat

Numbers == 1 .. MaxRecords
Databases == [versionTable : BOOLEAN, versions : Seq(Nat), tables : BOOLEAN,
              revision : Numbers \cup {0}, hashes : Numbers \cup {0},
              failures : SUBSET Numbers]

Operations == {"none", "read", "success", "failure"}
WritingSteps == {"tables", "commit schema", "delete", "insert", "commit"}
Steps == {"idle", "create", "version", "seed", "select revision",
          "select hashes", "upsert", "insert failure", "answered"}
         \cup WritingSteps
\* revision and hashes are what a reader has read, number what a writer records.
Calls == [op : Operations, pc : Steps, number : Numbers \cup {0},
          revision : Numbers \cup {0}, hashes : Numbers \cup {0}]
Idle == [op |-> "none", pc |-> "idle", number |-> 0, revision |-> 0, hashes |-> 0]

ASSUME NoTransactionAssumption == None \notin [owner : Processes, db : Databases]

VARIABLES db, tx, call, number

storeVars == <<db, tx, call, number>>

At(p, step) == call[p].pc = step
Writing(p) == call[p].op \in {"success", "failure"}
GoOn(p, step) == call' = [call EXCEPT ![p].pc = step]

\* What the call is for begins when the schema is known to be there.
Body(op) == CASE op = "read" -> "select revision"
              [] op = "success" -> "upsert"
              [] op = "failure" -> "insert failure"

Open(p, changed) == tx = None /\ tx' = [owner |-> p, db |-> changed]
Change(changed) == tx' = [tx EXCEPT !.db = changed]

\* sqlite3.Error or the end of the process: what is not committed is lost.
Raise(p) ==
  /\ tx' = IF tx # None /\ tx.owner = p THEN None ELSE tx
  /\ call' = [call EXCEPT ![p] = Idle]
  /\ UNCHANGED <<db, number>>

(* ------------------------------- calls --------------------------------- *)

BeginRead(p) ==
  /\ At(p, "idle")
  /\ call' = [call EXCEPT ![p] = [Idle EXCEPT !.op = "read", !.pc = "create"]]
  /\ UNCHANGED <<db, tx, number>>

\* Outcomes are recorded by the holder of the network lock.
BeginRecord(p, op) ==
  /\ At(p, "idle")
  /\ ~\E q \in Processes : Writing(q)
  /\ number < MaxRecords
  /\ number' = number + 1
  /\ call' = [call EXCEPT ![p] =
                [Idle EXCEPT !.op = op, !.pc = "create", !.number = number + 1]]
  /\ UNCHANGED <<db, tx>>

Return(p) ==
  /\ At(p, "answered")
  /\ call' = [call EXCEPT ![p] = Idle]
  /\ UNCHANGED <<db, tx, number>>

(* ---------------------------- _initialize ------------------------------ *)

\* CREATE TABLE IF NOT EXISTS schema_version, a transaction of its own.
CreateVersionTable(p) ==
  /\ At(p, "create")
  /\ db.versionTable \/ tx = None
  /\ db' = [db EXCEPT !.versionTable = TRUE]
  /\ GoOn(p, "version")
  /\ UNCHANGED <<tx, number>>

\* Mutant: whatever version there is will do.
AcceptVersion(p) ==
  /\ At(p, "version")
  /\ GoOn(p, IF db.versions = <<>> THEN "seed" ELSE Body(call[p].op))
  /\ UNCHANGED <<db, tx, number>>

\* The first row decides; StateSchemaError for another version.
CheckVersion(p) ==
  /\ At(p, "version")
  /\ \/ /\ db.versions = <<>>
        /\ GoOn(p, "seed")
        /\ UNCHANGED <<db, tx, number>>
     \/ /\ db.versions # <<>> /\ Head(db.versions) = SchemaVersion
        /\ GoOn(p, Body(call[p].op))
        /\ UNCHANGED <<db, tx, number>>
     \/ /\ db.versions # <<>> /\ Head(db.versions) # SchemaVersion
        /\ Raise(p)

Seed(p) ==
  /\ At(p, "seed")
  /\ Open(p, [db EXCEPT !.versions = Append(@, SchemaVersion)])
  /\ GoOn(p, "tables")
  /\ UNCHANGED <<db, number>>

\* Mutant: tables that exist are accepted.
CreateMissingTables(p) ==
  /\ At(p, "tables")
  /\ Change([tx.db EXCEPT !.tables = TRUE])
  /\ GoOn(p, "commit schema")
  /\ UNCHANGED <<db, number>>

\* _create_schema fails when another process has made the tables since the
\* version was looked up.
CreateTables(p) ==
  /\ At(p, "tables")
  /\ \/ /\ ~tx.db.tables
        /\ Change([tx.db EXCEPT !.tables = TRUE])
        /\ GoOn(p, "commit schema")
        /\ UNCHANGED <<db, number>>
     \/ tx.db.tables /\ Raise(p)

CommitSchema(p) ==
  /\ At(p, "commit schema")
  /\ db' = tx.db
  /\ tx' = None
  /\ GoOn(p, Body(call[p].op))
  /\ UNCHANGED number

(* -------------------------- get_domain_state --------------------------- *)

\* No row is an answer: not yet applied.
SelectRevision(p) ==
  /\ At(p, "select revision")
  /\ call' = [call EXCEPT ![p].revision = db.revision,
                          ![p].pc = IF db.revision = 0 THEN "answered"
                                    ELSE "select hashes"]
  /\ UNCHANGED <<db, tx, number>>

SelectHashes(p) ==
  /\ At(p, "select hashes")
  /\ call' = [call EXCEPT ![p].hashes = db.hashes, ![p].pc = "answered"]
  /\ UNCHANGED <<db, tx, number>>

(* ------------- record_successful_apply, record_failed_apply ------------ *)

\* Mutant: the statement is not part of the transaction.
UpsertAlone(p) ==
  /\ At(p, "upsert")
  /\ db' = [db EXCEPT !.revision = call[p].number]
  /\ Open(p, db')
  /\ GoOn(p, "delete")
  /\ UNCHANGED number

Upsert(p) ==
  /\ At(p, "upsert")
  /\ Open(p, [db EXCEPT !.revision = call[p].number])
  /\ GoOn(p, "delete")
  /\ UNCHANGED <<db, number>>

DeleteHashes(p) ==
  /\ At(p, "delete")
  /\ Change([tx.db EXCEPT !.hashes = 0])
  /\ GoOn(p, "insert")
  /\ UNCHANGED <<db, number>>

InsertHashes(p) ==
  /\ At(p, "insert")
  /\ Change([tx.db EXCEPT !.hashes = call[p].number])
  /\ GoOn(p, "commit")
  /\ UNCHANGED <<db, number>>

InsertFailure(p) ==
  /\ At(p, "insert failure")
  /\ Open(p, [db EXCEPT !.failures = @ \cup {call[p].number}])
  /\ GoOn(p, "commit")
  /\ UNCHANGED <<db, number>>

Commit(p) ==
  /\ At(p, "commit")
  /\ db' = tx.db
  /\ tx' = None
  /\ GoOn(p, "answered")
  /\ UNCHANGED number

(* ------------------------------- errors -------------------------------- *)

\* The database stays locked for the whole busy timeout.
Busy(p) ==
  /\ tx # None
  /\ \/ At(p, "create") /\ ~db.versionTable
     \/ At(p, "seed") \/ At(p, "upsert") \/ At(p, "insert failure")
  /\ Raise(p)

\* Mutant: leaving the transaction on an error commits it.
BreakCommits(p) ==
  /\ ~At(p, "idle") /\ ~At(p, "answered")
  /\ db' = IF tx # None /\ tx.owner = p THEN tx.db ELSE db
  /\ tx' = IF tx # None /\ tx.owner = p THEN None ELSE tx
  /\ call' = [call EXCEPT ![p] = Idle]
  /\ UNCHANGED number

\* Any other error of SQLite, in any statement, or the process dies.
Break(p) == ~At(p, "idle") /\ ~At(p, "answered") /\ Raise(p)

Fresh == [versionTable |-> FALSE, versions |-> <<>>, tables |-> FALSE,
          revision |-> 0, hashes |-> 0, failures |-> {}]

\* A new file, or one that another release has left.
Init ==
  /\ db \in {Fresh} \cup
       {[Fresh EXCEPT !.versionTable = TRUE, !.versions = <<v>>, !.tables = TRUE] :
          v \in OtherVersions}
  /\ tx = None
  /\ call = [p \in Processes |-> Idle]
  /\ number = 0

Proceed(p) ==
  \/ CreateVersionTable(p) \/ CheckVersion(p) \/ Seed(p) \/ CreateTables(p)
  \/ CommitSchema(p) \/ SelectRevision(p) \/ SelectHashes(p)
  \/ Upsert(p) \/ DeleteHashes(p) \/ InsertHashes(p) \/ InsertFailure(p)
  \/ Commit(p) \/ Busy(p)

Next ==
  \E p \in Processes :
    \/ BeginRead(p)
    \/ \E op \in {"success", "failure"} : BeginRecord(p, op)
    \/ Proceed(p)
    \/ Break(p)
    \/ Return(p)

\* Statements return: a locked database is waited for no longer than the busy
\* timeout.
Spec == Init /\ [][Next]_storeVars /\ \A p \in Processes : WF_storeVars(Proceed(p))

(* ----------------------------- properties ------------------------------ *)

TypeOK ==
  /\ db \in Databases
  /\ tx \in [owner : Processes, db : Databases] \cup {None}
  /\ call \in [Processes -> Calls]
  /\ number \in Numbers \cup {0}

\* The version row is there exactly when the tables are, and once: whoever
\* finds it needs no further look, also after races and deaths in _initialize.
SchemaWhole ==
  /\ Len(db.versions) <= 1
  /\ db.tables <=> db.versions # <<>>

\* The revision and the hashes in the file are of the same apply, also after
\* deaths and errors in the middle of record_successful_apply.
RecordWhole == db.revision = db.hashes

\* What get_domain_state returns is of one apply: "Last successfully applied
\* state for one Kavernis domain".
ReadsWhole ==
  \A p \in Processes : call[p].op = "read" /\ At(p, "answered") =>
    call[p].revision = call[p].hashes

\* The hashes a reader returns are never older than the revision it returns.
ReadsForward ==
  \A p \in Processes : call[p].op = "read" /\ At(p, "answered") =>
    call[p].revision <= call[p].hashes

\* A file of another schema version is not written to: state that cannot be
\* safely recorded is left alone.
OtherVersionKept ==
  [][db.versions # <<>> /\ Head(db.versions) # SchemaVersion => db' = db]_storeVars

\* The outcome a call is recording, as its caller sees it.
Recording ==
  [p \in Processes |->
     IF Writing(p) THEN [op |-> call[p].op, number |-> call[p].number,
                         state |-> IF At(p, "answered") THEN "recorded" ELSE "asked"]
     ELSE [op |-> "none", number |-> 0, state |-> "none"]]

Record == INSTANCE AppliedRecord WITH
  applied <- db.revision, failures <- db.failures, calls <- Recording

\* To the callers that record outcomes all of it is one step or none, and it
\* ends: the record is whole when the call returns and absent when it raises.
RecordsInOneStep == Record!RecordSpec
=============================================================================
