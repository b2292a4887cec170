----------------------- MODULE SchemaMigrationProofs -----------------------
(***************************************************************************)
(* Theorems about the upgrade of the database, for any queued mutations    *)
(* and both implementations.                                               *)
(***************************************************************************)
EXTENDS SchemaMigration, TLAPS

\* The columns, version by version.
LEMMA Columns ==
    /\ ColumnsOf(3) = {}
    /\ ColumnsOf(4) = {"schema_version"}
    /\ ColumnsOf(5) = {"schema_version", "next_retry_at", "rejection_code", "rejection_message"}
    /\ ColumnsOf(6) = ColumnsOf(5) \cup {"depends_on"}
    /\ ColumnsOf(7) = ColumnsOf(6)
<1>1. /\ Added(1) = {} /\ Added(2) = {} /\ Added(3) = {} /\ Added(7) = {}
      /\ Added(4) = {"schema_version"}
      /\ Added(5) = {"next_retry_at", "rejection_code", "rejection_message"}
      /\ Added(6) = {"depends_on"}
  BY DEF Added
<1>2. ASSUME NEW n \in Nat PROVE ColumnsOf(n + 1) = ColumnsOf(n) \cup Added(n + 1)
  <2>1. 1 .. n + 1 = 1 .. n \cup {n + 1}
    OBVIOUS
  <2> QED BY <2>1 DEF ColumnsOf
<1>3. ColumnsOf(0) = {}
  BY DEF ColumnsOf
<1>4. ColumnsOf(3) = {}
  <2>1. ColumnsOf(0 + 1) = {}
    BY <1>1, <1>2, <1>3
  <2>2. ColumnsOf(1 + 1) = {}
    BY <1>1, <1>2, <2>1
  <2>3. ColumnsOf(2 + 1) = {}
    BY <1>1, <1>2, <2>2
  <2> QED BY <2>3
<1>5. ColumnsOf(3 + 1) = {"schema_version"}
  BY <1>1, <1>2, <1>4
<1>6. ColumnsOf(4 + 1) = {"schema_version", "next_retry_at", "rejection_code", "rejection_message"}
  BY <1>1, <1>2, <1>5
<1>7. ColumnsOf(5 + 1) = ColumnsOf(5) \cup {"depends_on"}
  BY <1>1, <1>2
<1>8. ColumnsOf(7) = ColumnsOf(6)
  <2>1. ColumnsOf(6 + 1) = ColumnsOf(6) \cup Added(6 + 1)
    BY <1>2
  <2>2. 6 + 1 = 7
    OBVIOUS
  <2> QED BY <1>1, <2>1, <2>2
<1> QED BY <1>4, <1>5, <1>6, <1>7, <1>8

\* What a migration adds is not there yet, and is there afterwards.
LEMMA AddedIsNew ==
    ASSUME NEW n \in 4 .. CurrentSchemaVersion
    PROVE  /\ Added(n) \cap ColumnsOf(n - 1) = {}
           /\ ColumnsOf(n) = ColumnsOf(n - 1) \cup Added(n)
           /\ ColumnsOf(n) \subseteq ColumnsOf(CurrentSchemaVersion)
<1>1. n \in {4, 5, 6} /\ CurrentSchemaVersion = 6
  BY DEF CurrentSchemaVersion
<1>2. /\ Added(4) = {"schema_version"}
      /\ Added(5) = {"next_retry_at", "rejection_code", "rejection_message"}
      /\ Added(6) = {"depends_on"}
  BY DEF Added
<1>3. CASE n = 4
  BY <1>1, <1>2, <1>3, Columns
<1>4. CASE n = 5
  BY <1>1, <1>2, <1>4, Columns
<1>5. CASE n = 6
  BY <1>1, <1>2, <1>5, Columns
<1> QED BY <1>1, <1>3, <1>4, <1>5

----------------------------------------------------------------------------
\* Before version 3 the table may be a new one, with its column depends_on.
Shape(d) ==
    /\ d.version = 0 \/ d.exists
    /\ d.version < 3 => d.columns \subseteq {"depends_on"}
    /\ d.version >= 3 => d.columns = ColumnsOf(d.version)

Reached(n) == IF stored < n THEN n ELSE stored

Between ==
    /\ stored < migration /\ migration \in 3 .. CurrentSchemaVersion
    /\ disk.version = migration - 1
    /\ at \in {"drop", "rename"} => migration = 3 /\ db.copy = disk.rows
    /\ at \in {"advance", "commit"} =>
          db.exists /\ db.rows = disk.rows /\ db.columns = ColumnsOf(migration)
    /\ at = "commit" => db.version = migration

\* How far the upgrade is, and what has been committed of it.
Progress ==
    /\ Shape(disk)
    /\ phase # "migrating" \/ at = "start" => db = disk
    /\ phase \notin {"closed"} => disk.exists
    /\ phase = "migrating" =>
          /\ stored \in 0 .. CurrentSchemaVersion
          /\ at = "start" => disk.version = Reached(migration - 1)
          /\ at # "start" => Between
    /\ phase \in {"recover", "open"} =>
          \/ disk.version = CurrentSchemaVersion
          \/ ~native /\ stored = 5

IInv == TypeOK /\ Progress

LEMMA InitProgress == Init => IInv
<1> SUFFICES ASSUME Init PROVE IInv
  OBVIOUS
<1>1. disk \in Database /\ Shape(disk)
  <2>1. Empty \in Contents
    BY DEF Empty, Contents
  <2>2. CASE disk = [version |-> 0, exists |-> FALSE, columns |-> {}, rows |-> Empty,
                     copy |-> Empty]
    BY <2>1, <2>2 DEF Database, Shape, CurrentSchemaVersion
  <2>3. ASSUME NEW v \in 0 .. CurrentSchemaVersion + 1, NEW rows \in Contents,
               disk = [version |-> v, exists |-> TRUE, columns |-> ColumnsOf(v), rows |-> rows,
                       copy |-> Empty]
        PROVE  disk \in Database /\ Shape(disk)
    <3>1. v \in 0 .. 7 /\ CurrentSchemaVersion = 6
      BY DEF CurrentSchemaVersion
    <3>2. v < 3 => ColumnsOf(v) = {}
      <4>1. v < 3 => ColumnsOf(v) \subseteq ColumnsOf(3)
        BY <3>1 DEF ColumnsOf
      <4> QED BY <4>1, Columns
    <3>3. ColumnsOf(v) \subseteq ColumnsOf(6)
      <4>1. v <= 6 => ColumnsOf(v) \subseteq ColumnsOf(6)
        BY <3>1 DEF ColumnsOf
      <4> QED BY <3>1, <4>1, Columns
    <3>4. disk \in Database
      BY <2>1, <2>3, <3>1, <3>3 DEF Database
    <3>5. Shape(disk)
      BY <2>3, <3>1, <3>2 DEF Shape
    <3> QED BY <3>4, <3>5
  <2> QED BY <2>2, <2>3 DEF Init
<1>2. TypeOK
  BY <1>1 DEF Init, TypeOK, CurrentSchemaVersion
<1>3. Progress
  BY <1>1 DEF Init, Progress
<1> QED BY <1>2, <1>3 DEF IInv

\* What the steps that end a migration leave behind.
LEMMA FinishedProgress ==
    ASSUME NEW n \in 1 .. CurrentSchemaVersion, Finish(n), TypeOK, phase = "migrating",
           native' = native, stored' = stored, stored \in 0 .. CurrentSchemaVersion,
           db' = disk', disk' \in Database, Shape(disk'), disk'.exists,
           \/ disk'.version = Reached(n)
           \/ n = CurrentSchemaVersion /\ ~native /\ stored = 5
    PROVE  IInv'
<1> USE DEF CurrentSchemaVersion
<1>1. CASE n = 6
  <2>1. phase' = "recover" /\ migration' = 1 /\ at' = "start"
    BY <1>1 DEF Finish, EnterPhase
  <2>2. TypeOK'
    BY <2>1 DEF TypeOK
  <2>3. Progress'
    BY <1>1, <2>1 DEF Progress, Reached
  <2> QED BY <2>2, <2>3 DEF IInv
<1>2. CASE n # 6
  <2>1. phase' = "migrating" /\ migration' = n + 1 /\ at' = "start" /\ n \in 1 .. 5
    BY <1>2 DEF Finish, Continue
  <2>2. TypeOK'
    BY <2>1 DEF TypeOK
  <2>3. disk'.version = Reached(n + 1 - 1)
    BY <1>2
  <2>4. Progress'
    BY <2>1, <2>3 DEF Progress, Reached
  <2> QED BY <2>2, <2>4 DEF IInv
<1> QED BY <1>1, <1>2

LEMMA MigrationStep ==
    ASSUME IInv, native' = native, NEW n \in 1 .. CurrentSchemaVersion,
           Skip(n) \/ SetVersion(n) \/ Commit(n)
    PROVE  IInv'
<1> USE DEF CurrentSchemaVersion
<1>1. /\ TypeOK /\ disk \in Database /\ db \in Database /\ stored \in Nat /\ native \in BOOLEAN
      /\ phase = "migrating" /\ stored \in 0 .. 6 /\ Shape(disk) /\ disk.exists
  BY SchemaAssumption DEF IInv, TypeOK, Progress, Skip, SetVersion, Commit, IsAt
<1>2. CASE Skip(n)
  <2>1. /\ disk' = disk /\ db' = db /\ stored' = stored /\ db = disk /\ Finish(n)
        /\ disk.version = Reached(n - 1)
    BY <1>1, <1>2 DEF Skip, IsAt, IInv, Progress
  <2>2. stored >= n \/ (n = 6 /\ ~native /\ stored = 5)
    <3>1. ~Pending(n)
      BY <1>2 DEF Skip
    <3>2. stored < n => n = 6 /\ ~native /\ ~(stored < 5)
      BY <3>1, Zenon DEF Pending
    <3>3. stored < 6 /\ ~(stored < 5) => stored = 5
      BY <1>1
    <3>4. stored < n \/ stored >= n
      BY <1>1
    <3> QED BY <3>2, <3>3, <3>4
  <2>3. disk.version = Reached(n) \/ (n = 6 /\ ~native /\ stored = 5)
    BY <1>1, <2>1, <2>2 DEF Reached
  <2> QED BY <1>1, <2>1, <2>3, FinishedProgress DEF Shape
<1>3. CASE SetVersion(n)
  <2>1. /\ disk' = [disk EXCEPT !.version = n] /\ db' = disk' /\ stored' = stored /\ Finish(n)
        /\ disk.version = Reached(n - 1) /\ n \in {1, 2} /\ stored < n
    BY <1>1, <1>3 DEF SetVersion, IsAt, IInv, Progress, Execute, Pending
  <2>2. disk' \in Database /\ disk'.exists /\ disk'.version = n /\ disk'.columns = disk.columns
    BY <1>1, <2>1 DEF Database
  <2>3. disk.version < 3
    BY <1>1, <2>1 DEF Reached
  <2>4. Shape(disk') /\ disk'.version = Reached(n)
    BY <1>1, <2>1, <2>2, <2>3 DEF Shape, Reached
  <2> QED BY <1>1, <2>1, <2>2, <2>4, FinishedProgress
<1>4. CASE Commit(n)
  <2>1. /\ disk' = db /\ db' = db /\ stored' = stored /\ Finish(n)
        /\ migration = n /\ at = "commit" /\ Between
    BY <1>1, <1>4 DEF Commit, IsAt, IInv, Progress, Execute
  <2>2. stored < n /\ n >= 3 /\ db.exists /\ db.columns = ColumnsOf(n) /\ db.version = n
    BY <2>1 DEF Between
  <2>3. Shape(disk') /\ disk'.version = Reached(n) /\ disk'.exists
    BY <2>1, <2>2 DEF Shape, Reached
  <2> QED BY <1>1, <2>1, <2>3, FinishedProgress
<1> QED BY <1>2, <1>3, <1>4

LEMMA TransactionStep ==
    ASSUME IInv, native' = native,
           \/ CopyQueue \/ DropQueue \/ RenameCopy
           \/ \E n \in 1 .. CurrentSchemaVersion : AddColumns(n) \/ Advance(n)
    PROVE  IInv'
<1> USE DEF CurrentSchemaVersion
<1>1. /\ TypeOK /\ disk \in Database /\ db \in Database /\ Shape(disk) /\ disk.exists
      /\ phase = "migrating" /\ stored \in 0 .. 6 /\ migration \in 1 .. 6
      /\ disk' = disk /\ stored' = stored /\ phase' = phase
      /\ at = "start" => db = disk /\ disk.version = Reached(migration - 1)
      /\ at # "start" => Between
  BY DEF IInv, TypeOK, Progress, CopyQueue, DropQueue, RenameCopy, AddColumns, Advance, IsAt,
     InTransaction, Continue
<1>2. ASSUME db' \in Database, migration' = migration, Between',
             at' \in {"drop", "rename", "advance", "commit"}
      PROVE  IInv'
  <2>1. TypeOK'
    BY <1>1, <1>2 DEF TypeOK
  <2>2. Progress'
    BY <1>1, <1>2 DEF Progress, Shape
  <2> QED BY <2>1, <2>2 DEF IInv
<1>3. CASE CopyQueue
  <2>1. /\ db' = [db EXCEPT !.copy = db.rows] /\ at' = "drop" /\ migration' = migration
        /\ migration = 3 /\ stored < 3 /\ db = disk /\ disk.version = Reached(2)
    BY <1>1, <1>3 DEF CopyQueue, IsAt, Pending, InTransaction, Continue
  <2>2. db' \in Database /\ db'.copy = disk.rows
    BY <1>1, <2>1 DEF Database
  <2>3. Between'
    BY <1>1, <2>1, <2>2 DEF Between, Reached
  <2> QED BY <1>2, <2>1, <2>2, <2>3
<1>4. CASE DropQueue
  <2>1. /\ db' = [db EXCEPT !.rows = Empty, !.exists = FALSE] /\ at' = "rename"
        /\ migration' = migration /\ migration = 3 /\ at = "drop" /\ Between
    BY <1>1, <1>4 DEF DropQueue, IsAt, InTransaction, Continue
  <2>2. Empty \in Contents
    BY DEF Empty, Contents
  <2>3. db' \in Database /\ db'.copy = db.copy
    BY <1>1, <2>1, <2>2 DEF Database
  <2>4. Between'
    BY <1>1, <2>1, <2>3 DEF Between
  <2> QED BY <1>2, <2>1, <2>3, <2>4
<1>5. CASE RenameCopy
  <2>1. /\ db' = Renamed /\ at' = "advance"
        /\ migration' = migration /\ migration = 3 /\ at = "rename" /\ Between
    BY <1>1, <1>5 DEF RenameCopy, IsAt, InTransaction, Continue
  <2>2. Empty \in Contents
    BY DEF Empty, Contents
  <2>3. db' \in Database /\ db'.exists /\ db'.rows = db.copy /\ db'.columns = {}
    BY <1>1, <2>1, <2>2 DEF Database, Renamed
  <2>4. Between'
    BY <1>1, <2>1, <2>3, Columns DEF Between
  <2> QED BY <1>2, <2>1, <2>3, <2>4
<1>6. ASSUME NEW n \in 1 .. CurrentSchemaVersion, AddColumns(n) PROVE IInv'
  <2>1. /\ db' = [db EXCEPT !.columns = @ \cup Added(n)] /\ at' = "advance"
        /\ migration' = migration /\ migration = n /\ n \in 4 .. 6 /\ stored < n /\ db = disk
        /\ disk.version = Reached(n - 1)
    BY <1>1, <1>6 DEF AddColumns, IsAt, Pending, InTransaction, Continue
  <2>2. disk.version = n - 1 /\ disk.columns = ColumnsOf(n - 1)
    BY <1>1, <2>1 DEF Reached, Shape
  <2>3. disk.columns \cup Added(n) = ColumnsOf(n) /\ ColumnsOf(n) \subseteq ColumnsOf(6)
    BY <2>1, <2>2, AddedIsNew
  <2>4. db' \in Database /\ db'.exists /\ db'.rows = disk.rows /\ db'.columns = ColumnsOf(n)
    BY <1>1, <2>1, <2>3 DEF Database
  <2>5. Between'
    BY <1>1, <2>1, <2>2, <2>4 DEF Between
  <2> QED BY <1>2, <2>1, <2>4, <2>5
<1>7. ASSUME NEW n \in 1 .. CurrentSchemaVersion, Advance(n) PROVE IInv'
  <2>1. /\ db' = [db EXCEPT !.version = n] /\ at' = "commit" /\ migration' = migration
        /\ migration = n /\ at = "advance" /\ Between
    BY <1>1, <1>7 DEF Advance, IsAt, InTransaction, Continue
  <2>2. /\ db' \in Database /\ db'.exists = db.exists /\ db'.rows = db.rows
        /\ db'.columns = db.columns /\ db'.version = n
    BY <1>1, <2>1 DEF Database
  <2>3. Between'
    BY <1>1, <2>1, <2>2 DEF Between
  <2> QED BY <1>2, <2>1, <2>2, <2>3
<1> QED BY <1>3, <1>4, <1>5, <1>6, <1>7

LEMMA OtherStep ==
    ASSUME IInv, native' = native,
           CreateTables \/ ReadVersion \/ Recover \/ RecoverAgain \/ Abort \/ Work
    PROVE  IInv'
<1> USE DEF CurrentSchemaVersion
<1>1. TypeOK /\ disk \in Database /\ db \in Database /\ Shape(disk) /\ stored \in 0 .. 7
  BY DEF IInv, TypeOK, Progress
<1>2. CASE CreateTables
  <2>1. /\ db = disk /\ db' = disk' /\ stored' = stored
        /\ phase' = "version" /\ migration' = 1 /\ at' = "start"
        /\ disk' = IF db.exists THEN db ELSE [db EXCEPT !.exists = TRUE, !.columns = {"depends_on"}]
    BY <1>2 DEF CreateTables, Execute, EnterPhase, IInv, Progress
  <2>2. disk' \in Database /\ disk'.exists /\ Shape(disk')
    <3>1. CASE db.exists
      BY <1>1, <2>1, <3>1 DEF Shape
    <3>2. CASE ~db.exists
      <4>1. disk' = [disk EXCEPT !.exists = TRUE, !.columns = {"depends_on"}] /\ disk.version = 0
        BY <1>1, <2>1, <3>2 DEF Shape
      <4>2. {"depends_on"} \subseteq ColumnsOf(6)
        BY Columns
      <4>3. disk' \in Database /\ disk'.exists /\ disk'.version = 0 /\ disk'.columns = {"depends_on"}
        BY <1>1, <4>1, <4>2 DEF Database
      <4> QED BY <4>3 DEF Shape
    <3> QED BY <3>1, <3>2
  <2>3. TypeOK'
    BY <1>1, <2>1, <2>2 DEF TypeOK
  <2>4. Progress'
    BY <2>1, <2>2 DEF Progress
  <2> QED BY <2>3, <2>4 DEF IInv
<1>3. CASE ReadVersion
  <2>1. /\ db = disk /\ db' = db /\ disk' = disk /\ stored' = disk.version /\ disk.exists
        /\ phase' = IF disk.version > 6 THEN "closed" ELSE "migrating"
        /\ migration' = 1 /\ at' = "start"
    BY <1>3 DEF ReadVersion, EnterPhase, IInv, Progress
  <2>2. disk.version \in 0 .. 7
    BY <1>1 DEF Database
  <2>3. TypeOK'
    BY <1>1, <2>1, <2>2 DEF TypeOK
  <2>4. Shape(disk')
    BY <1>1, <2>1 DEF Shape
  <2>5. Progress'
    BY <2>1, <2>2, <2>4 DEF Progress, Reached
  <2> QED BY <2>3, <2>5 DEF IInv
<1>4. ASSUME NEW rows \in Contents, db = disk, disk' = [disk EXCEPT !.rows = rows], db' = disk',
             phase \in {"recover", "open"}, stored' = stored, at' \in {at, "start"},
             migration' \in {migration, 1}, phase' = "open"
      PROVE  IInv'
  <2>1. disk' \in Database /\ disk'.exists = disk.exists /\ disk'.version = disk.version
        /\ disk'.columns = disk.columns
    BY <1>1, <1>4 DEF Database
  <2>2. TypeOK'
    BY <1>1, <1>4, <2>1 DEF TypeOK
  <2>3. Progress'
    BY <1>4, <2>1 DEF IInv, Progress, Shape
  <2> QED BY <2>2, <2>3 DEF IInv
<1>5. Recovered(disk.rows) \in Contents
  BY <1>1 DEF Recovered, Database, Contents, Statuses
<1>6. CASE Recover
  BY <1>4, <1>5, <1>6 DEF Recover, Execute, EnterPhase, IInv, Progress
<1>7. CASE RecoverAgain
  BY <1>4, <1>5, <1>7 DEF RecoverAgain, Execute, IInv, Progress
<1>8. CASE Work
  <2>1. PICK m \in Mutations : db' = [db EXCEPT !.rows[m] = "SYNCING"] /\ disk' = db'
    BY <1>8 DEF Work, Execute
  <2>2. db = disk
    BY <1>8 DEF Work, IInv, Progress
  <2>3. [disk.rows EXCEPT ![m] = "SYNCING"] \in Contents
    BY <1>1 DEF Database, Contents, Statuses
  <2>4. disk' = [disk EXCEPT !.rows = [disk.rows EXCEPT ![m] = "SYNCING"]]
    BY <2>1, <2>2
  <2> QED BY <1>4, <1>8, <2>1, <2>2, <2>3, <2>4 DEF Work
<1>9. CASE Abort
  <2>1. /\ db' = disk /\ disk' = disk /\ stored' = stored
        /\ phase' = "closed" /\ migration' = 1 /\ at' = "start"
    BY <1>9 DEF Abort, EnterPhase
  <2>2. TypeOK'
    BY <1>1, <2>1 DEF TypeOK
  <2>3. Progress'
    BY <1>1, <2>1 DEF Progress, Shape
  <2> QED BY <2>2, <2>3 DEF IInv
<1> QED BY <1>2, <1>3, <1>6, <1>7, <1>8, <1>9

\* Progress is inductive.
LEMMA Invariance == Spec => []IInv
<1>1. IInv /\ [Next]_vars => IInv'
  <2> SUFFICES ASSUME IInv, [Next]_vars PROVE IInv'
    OBVIOUS
  <2>1. CASE UNCHANGED vars
    BY <2>1 DEF IInv, TypeOK, Progress, Between, Shape, Reached, vars
  <2>2. CASE Next
    BY <2>2, MigrationStep, TransactionStep, OtherStep DEF Next, Migrate
  <2> QED BY <2>1, <2>2
<1> QED BY <1>1, InitProgress, PTL DEF Spec

\* Whatever is interrupted, the content of the database and the place in the
\* upgrade have their types.
THEOREM TypeCorrect == Spec => []TypeOK
BY Invariance, PTL DEF IInv

\* A queue that opens is at the current version with all its columns, whatever
\* version and interrupted upgrade it started from, unless it is the adapter and
\* found the database at version 5 (initialize in both implementations).
THEOREM OpensUpToDateOtherwise == Spec => []OpensUpToDateButFrom5
<1>1. IInv => OpensUpToDateButFrom5
  <2> SUFFICES ASSUME IInv, native \/ stored # 5, phase = "open" PROVE db.version = CurrentSchemaVersion /\ db.columns = ColumnsOf(CurrentSchemaVersion)
    BY DEF OpensUpToDateButFrom5, OpensUpToDate
  <2>1. db = disk /\ disk.version = CurrentSchemaVersion
    BY DEF IInv, Progress
  <2> QED BY <2>1 DEF IInv, Progress, Shape, CurrentSchemaVersion
<1> QED BY <1>1, Invariance, PTL

\* No crash and no failure leaves a database that no later start can upgrade: the
\* columns a migration adds are never there before it (the new table of CREATE
\* TABLE has one of them, and migration 3 takes it away).
THEOREM AlwaysUpgradable == Spec => []NeverStuck
<1>1. IInv => NeverStuck
  <2> SUFFICES ASSUME IInv, NEW n \in 4 .. CurrentSchemaVersion, IsAt(n, "start"), Pending(n)
               PROVE  Added(n) \cap db.columns = {}
    BY DEF NeverStuck
  <2>1. stored < n /\ db = disk /\ disk.version = Reached(n - 1) /\ Shape(disk)
        /\ stored \in 0 .. CurrentSchemaVersion
    BY DEF IsAt, Pending, IInv, Progress
  <2>2. disk.version = n - 1 /\ n - 1 >= 3
    BY <2>1 DEF Reached, CurrentSchemaVersion
  <2>3. db.columns = ColumnsOf(n - 1)
    BY <2>1, <2>2 DEF Shape
  <2> QED BY <2>3, AddedIsNew
<1> QED BY <1>1, Invariance, PTL

\* What is committed never loses a mutation, and a status changes only from SYNCING
\* to PENDING, or when the app claims: also when the process dies between dropping
\* the old table and renaming the new one (migration 3).
THEOREM NothingIsLost == Spec => WorkIsPreserved
<1> DEFINE Kept(m) == \/ disk'.rows[m] = disk.rows[m]
                      \/ disk.rows[m] = "SYNCING" /\ disk'.rows[m] = "PENDING"
                      \/ phase = "open" /\ disk'.rows[m] = "SYNCING"
<1>1. ASSUME IInv, [Next]_vars, NEW m \in Mutations PROVE Kept(m)
  <2>1. disk \in Database /\ db \in Database /\ (phase # "migrating" \/ at = "start" => db = disk)
    BY <1>1 DEF IInv, TypeOK, Progress
  <2>2. CASE disk'.rows = disk.rows
    BY <2>2
  <2>3. CASE CreateTables \/ \E n \in 1 .. CurrentSchemaVersion : SetVersion(n)
    <3>1. phase # "migrating" \/ at = "start"
      BY <2>3 DEF CreateTables, SetVersion, IsAt
    <3>2. disk'.rows = disk.rows
      BY <2>1, <2>3, <3>1 DEF CreateTables, SetVersion, Execute, Database
    <3> QED BY <3>2
  <2>4. ASSUME NEW n \in 1 .. CurrentSchemaVersion, Commit(n) PROVE disk'.rows = disk.rows
    BY <1>1, <2>4 DEF Commit, IsAt, Execute, IInv, Progress, Between
  <2>5. CASE Recover \/ RecoverAgain
    <3>1. disk' = [disk EXCEPT !.rows = Recovered(disk.rows)]
      BY <2>1, <2>5 DEF Recover, RecoverAgain, Execute
    <3>2. disk'.rows = Recovered(disk.rows)
      BY <2>1, <3>1 DEF Database
    <3> QED BY <3>2 DEF Recovered
  <2>6. CASE Work
    <3>1. PICK i \in Mutations : disk' = [db EXCEPT !.rows[i] = "SYNCING"]
      BY <2>6 DEF Work, Execute
    <3>2. db = disk /\ phase = "open"
      BY <2>1, <2>6 DEF Work
    <3>3. disk'.rows = [disk.rows EXCEPT ![i] = "SYNCING"]
      BY <2>1, <3>1, <3>2 DEF Database
    <3> QED BY <2>1, <3>2, <3>3 DEF Database, Contents
  <2>7. CASE \/ ReadVersion \/ CopyQueue \/ DropQueue \/ RenameCopy \/ Abort \/ UNCHANGED vars
             \/ \E n \in 1 .. CurrentSchemaVersion : Skip(n) \/ AddColumns(n) \/ Advance(n)
    BY <2>7 DEF ReadVersion, CopyQueue, DropQueue, RenameCopy, Abort, Skip, AddColumns, Advance,
       InTransaction, vars
  <2> QED BY <1>1, <2>2, <2>3, <2>4, <2>5, <2>6, <2>7 DEF Next, Migrate
<1>2. ASSUME IInv, [Next]_vars PROVE [\A m \in Mutations : Kept(m)]_vars
  BY <1>1, <1>2
<1> QED BY <1>2, Invariance, PTL DEF Spec, WorkIsPreserved
=============================================================================
