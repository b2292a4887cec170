-------------------------- MODULE SchemaMigration --------------------------
(***************************************************************************)
(* Opening a database of any age: initialize of createSyncStorage          *)
(* (src/storage.ts) and MutationQueue::initialize (cpp/MutationQueue.cpp), *)
(* which bring sync_queue from its version (PRAGMA user_version) to        *)
(* version 6, one statement at a time.  The two differ in one brace: native *)
(* says which of them is at work.                                          *)
(*                                                                         *)
(* db is what the connection sees and disk what SQLite has committed: they *)
(* differ inside a transaction only.  The process may die, or a statement  *)
(* fail, before any statement.                                             *)
(***************************************************************************)
EXTENDS Naturals

CONSTANTS
    Mutations,
    NoRow,
    Natives    \* the implementations at work: TRUE is C++, FALSE the adapter

ASSUME SchemaAssumption == Natives \subseteq BOOLEAN

CurrentSchemaVersion == 6

VARIABLES
    native,     \* the C++ queue, or the SQLite adapter in TypeScript
    disk, db,   \* committed content, and the content the connection sees
    stored,     \* the version initialize works from (storedVersion)
    phase,      \* "closed", "version", "migrating", "recover" or "open"
    migration,  \* the migration at work
    at          \* the statement of that migration that comes next

vars == <<native, disk, db, stored, phase, migration, at>>

\* What a version added to the columns of version 0.
Added(n) ==
    CASE n = 4 -> {"schema_version"}
      [] n = 5 -> {"next_retry_at", "rejection_code", "rejection_message"}
      [] n = 6 -> {"depends_on"}
      [] OTHER -> {}

ColumnsOf(n) == UNION {Added(k) : k \in 1 .. n}

Statuses == {"PENDING", "SYNCING", "FAILED", "REJECTED"}

Contents == [Mutations -> Statuses \cup {NoRow}]

Empty == [m \in Mutations |-> NoRow]

\* rows is sync_queue, copy is sync_queue_v3, which exists during migration 3.
Database ==
    [version: 0 .. CurrentSchemaVersion + 1, exists: BOOLEAN,
     columns: SUBSET ColumnsOf(CurrentSchemaVersion), rows: Contents, copy: Contents]

TypeOK ==
    /\ native \in Natives
    /\ disk \in Database
    /\ db \in Database
    /\ stored \in 0 .. CurrentSchemaVersion + 1
    /\ phase \in {"closed", "version", "migrating", "recover", "open"}
    /\ migration \in 1 .. CurrentSchemaVersion
    /\ at \in {"start", "drop", "rename", "advance", "commit"}

\* No database yet, or one that an earlier release (or a later one) left behind;
\* migration 3 is the one that made room for REJECTED.
Init ==
    /\ native \in Natives
    /\ \/ disk = [version |-> 0, exists |-> FALSE, columns |-> {}, rows |-> Empty,
                  copy |-> Empty]
       \/ \E v \in 0 .. CurrentSchemaVersion + 1, rows \in Contents :
             /\ v < 3 => \A m \in Mutations : rows[m] # "REJECTED"
             /\ disk = [version |-> v, exists |-> TRUE, columns |-> ColumnsOf(v), rows |-> rows,
                        copy |-> Empty]
    /\ db = disk
    /\ stored = 0
    /\ phase = "closed"
    /\ migration = 1
    /\ at = "start"

----------------------------------------------------------------------------
\* A statement outside a transaction, and one inside.
Execute(content) == db' = content /\ disk' = content

InTransaction(content) == db' = content /\ UNCHANGED disk

EnterPhase(name) == phase' = name /\ migration' = 1 /\ at' = "start"

Continue(n, next) == at' = next /\ migration' = n /\ UNCHANGED phase

\* Past migration n: the next one, or the recovery that ends initialize.
Finish(n) == IF n = CurrentSchemaVersion THEN EnterPhase("recover") ELSE Continue(n + 1, "start")

\* Statement s of migration n is next.
IsAt(n, s) == phase = "migrating" /\ migration = n /\ at = s

\* CREATE TABLE IF NOT EXISTS: a new table has the column depends_on already.
CreateTables ==
    /\ phase = "closed"
    /\ Execute(IF db.exists THEN db
               ELSE [db EXCEPT !.exists = TRUE, !.columns = {"depends_on"}])
    /\ EnterPhase("version")
    /\ UNCHANGED stored

\* A database of a later release is refused.
ReadVersion ==
    /\ phase = "version"
    /\ stored' = db.version
    /\ EnterPhase(IF db.version > CurrentSchemaVersion THEN "closed" ELSE "migrating")
    /\ UNCHANGED <<disk, db>>

\* The conditions on the version: in the adapter the block of migration 6 is
\* inside the one of migration 5.
PendingNested(n) == stored < n /\ (n = 6 => stored < 5)

Pending(n) == stored < n /\ (n = 6 /\ ~native => stored < 5)

Skip(n) ==
    /\ IsAt(n, "start")
    /\ ~Pending(n)
    /\ Finish(n)
    /\ UNCHANGED <<disk, db, stored>>

\* Migrations 1 and 2: an index, and the version.
SetVersion(n) ==
    /\ n \in {1, 2}
    /\ IsAt(n, "start")
    /\ Pending(n)
    /\ Execute([db EXCEPT !.version = n])
    /\ Finish(n)
    /\ UNCHANGED stored

\* Migration 3: sync_queue is copied with the columns of version 0, dropped,
\* and replaced by the copy.
CopyQueue ==
    /\ IsAt(3, "start")
    /\ Pending(3)
    /\ InTransaction([db EXCEPT !.copy = db.rows])
    /\ Continue(3, "drop")
    /\ UNCHANGED stored

DropQueueAtOnce ==
    /\ IsAt(3, "drop")
    /\ Execute([db EXCEPT !.rows = Empty, !.exists = FALSE])
    /\ Continue(3, "rename")
    /\ UNCHANGED stored

DropQueue ==
    /\ IsAt(3, "drop")
    /\ InTransaction([db EXCEPT !.rows = Empty, !.exists = FALSE])
    /\ Continue(3, "rename")
    /\ UNCHANGED stored

Renamed == [db EXCEPT !.rows = db.copy, !.copy = Empty, !.exists = TRUE, !.columns = {}]

RenamedWithColumns == [Renamed EXCEPT !.columns = db.columns]

RenameCopyKeepingColumns ==
    /\ IsAt(3, "rename")
    /\ InTransaction(RenamedWithColumns)
    /\ Continue(3, "advance")
    /\ UNCHANGED stored

RenameCopy ==
    /\ IsAt(3, "rename")
    /\ InTransaction(Renamed)
    /\ Continue(3, "advance")
    /\ UNCHANGED stored

\* Migrations 4, 5 and 6 add columns; a column that exists is an error.
AddColumns(n) ==
    /\ n \in 4 .. CurrentSchemaVersion
    /\ IsAt(n, "start")
    /\ Pending(n)
    /\ Added(n) \cap db.columns = {}
    /\ InTransaction([db EXCEPT !.columns = @ \cup Added(n)])
    /\ Continue(n, "advance")
    /\ UNCHANGED stored

Advance(n) ==
    /\ IsAt(n, "advance")
    /\ InTransaction([db EXCEPT !.version = n])
    /\ Continue(n, "commit")
    /\ UNCHANGED stored

Commit(n) ==
    /\ IsAt(n, "commit")
    /\ Execute(db)
    /\ Finish(n)
    /\ UNCHANGED stored

\* UPDATE sync_queue SET status = 'PENDING' WHERE status = 'SYNCING'
RecoveredByEvent(rows) ==
    [m \in Mutations |-> IF rows[m] = "SYNCING" THEN "RECOVERED" ELSE rows[m]]

Recovered(rows) == [m \in Mutations |-> IF rows[m] = "SYNCING" THEN "PENDING" ELSE rows[m]]

Recover ==
    /\ phase = "recover"
    /\ Execute([db EXCEPT !.rows = Recovered(@)])
    /\ EnterPhase("open")
    /\ UNCHANGED stored

\* initialize of a queue whose connection is open, in C++; the adapter has no such
\* shortcut and starts over, as after Abort.
RecoverAgain ==
    /\ native
    /\ phase = "open"
    /\ Execute([db EXCEPT !.rows = Recovered(@)])
    /\ UNCHANGED <<stored, phase, migration, at>>

\* A statement fails, the process dies, or the app is closed: what was not
\* committed is gone, and initialize starts over.
Abort ==
    /\ phase # "closed"
    /\ db' = disk
    /\ EnterPhase("closed")
    /\ UNCHANGED <<disk, stored>>

\* What the app does with an open queue that leaves work in it.
Work ==
    /\ phase = "open"
    /\ \E m \in Mutations :
          /\ db.rows[m] \in {"PENDING", "FAILED"}
          /\ Execute([db EXCEPT !.rows[m] = "SYNCING"])
    /\ UNCHANGED <<stored, phase, migration, at>>

Migrate(n) == Skip(n) \/ SetVersion(n) \/ AddColumns(n) \/ Advance(n) \/ Commit(n)

Next ==
    /\ \/ CreateTables \/ ReadVersion
       \/ \E n \in 1 .. CurrentSchemaVersion : Migrate(n)
       \/ CopyQueue \/ DropQueue \/ RenameCopy
       \/ Recover \/ RecoverAgain \/ Abort \/ Work
    /\ UNCHANGED native

Spec == Init /\ [][Next]_vars

----------------------------------------------------------------------------
(***************************************************************************)
(* Properties                                                              *)
(***************************************************************************)
\* storage.test.ts:359-362 for a database of version 1, "expect(
\* olderDatabase.getUserVersion()).toBe(6)": a queue that opens has reached the
\* current version and has all the columns its statements name, whatever version
\* and whatever interrupted upgrade it started from.
OpensUpToDate ==
    phase = "open" =>
        /\ db.version = CurrentSchemaVersion
        /\ db.columns = ColumnsOf(CurrentSchemaVersion)

\* What holds of both implementations: the adapter is up to date unless it found
\* the database at version 5.
OpensUpToDateButFrom5 == native \/ stored # 5 => OpensUpToDate

\* No crash and no failure leaves a database that no later start can upgrade:
\* the columns a migration adds are never there before it (the new table of
\* CREATE TABLE has one of them already, and migration 3 takes it away).
NeverStuck ==
    \A n \in 4 .. CurrentSchemaVersion :
        IsAt(n, "start") /\ Pending(n) => Added(n) \cap db.columns = {}

\* README.md:302: "Queue migrations ... preserve existing queued work."  What is
\* committed never loses a mutation, and a status changes only from SYNCING to
\* PENDING, or when the app claims: also when the process dies between dropping
\* the old table and renaming the new one.
WorkIsPreserved ==
    [][\A m \in Mutations :
          \/ disk'.rows[m] = disk.rows[m]
          \/ disk.rows[m] = "SYNCING" /\ disk'.rows[m] = "PENDING"
          \/ phase = "open" /\ disk'.rows[m] = "SYNCING"]_vars
=============================================================================
