----------------------------- MODULE QueueRows -----------------------------
(***************************************************************************)
(* The statements that createSyncStorage (src/storage.ts) issues against   *)
(* the sync_queue table, each as a function from one content of the table  *)
(* to the next.  MutationQueue.cpp issues the same statements, so its      *)
(* actions (module MutationQueue) and the provider's (module SyncEngine)   *)
(* are both written with these operators.                                  *)
(*                                                                         *)
(* A queue q maps every mutation id to its row, or to NoRow when the table *)
(* has no row with that id (id is the primary key).  A row has the columns *)
(*   table, record, operation, dependsOn, timestamp: what the mutation is  *)
(*     (record is the id at '$.id' of the payload, the only part of the    *)
(*     payload a statement reads or writes);                               *)
(*   status, retryCount, nextRetryAt: where its delivery stands.           *)
(* Time is counted in seconds, the granularity of strftime('%s').          *)
(*                                                                         *)
(* The operators named ...Replaces, ...NeverFailed, ...KeepingDelay,       *)
(* ...Unguarded, ...Softly, ...Nothing and ...AnyTable are the statements  *)
(* with a mistake in them, to see that the properties notice it.           *)
(***************************************************************************)
EXTENDS Naturals, FiniteSets

CONSTANTS
    NoRow,     \* "there is no row with this id"
    RetryCap   \* bound: retryCount saturates here (9 is where the delay does)

MutationStatus == {"PENDING", "SYNCING", "FAILED", "REJECTED"}

Operations == {"CREATE", "UPDATE", "DELETE"}

\* The rows, and the contents of the table, over given names and ids.
RowOf(tables, records, mutations) ==
    [table: tables, record: records, operation: Operations, dependsOn: SUBSET mutations,
     timestamp: Nat, status: MutationStatus, retryCount: Nat, nextRetryAt: Nat]

QueueOf(tables, records, mutations) ==
    [mutations -> RowOf(tables, records, mutations) \cup {NoRow}]

\* The ids in the table, and those with a given status.
Queued(q) == {m \in DOMAIN q : q[m] # NoRow}

WithStatus(q, statuses) == {m \in Queued(q) : q[m].status \in statuses}

----------------------------------------------------------------------------
\* RETRY_DELAY_SQL: 1 s, doubled by every failure, capped at five minutes.
Doubling == <<1, 2, 4, 8, 16, 32, 64, 128, 256>>

RetryDelay(retryCount) ==
    IF retryCount \in 0 .. 8 THEN Doubling[retryCount + 1] ELSE 300

\* The row INSERT writes for a mutation with content draft.
FreshRow(draft, now) ==
    [table       |-> draft.table,
     record      |-> draft.record,
     operation   |-> draft.operation,
     dependsOn   |-> draft.dependsOn,
     timestamp   |-> now,
     status      |-> "PENDING",
     retryCount  |-> 0,
     nextRetryAt |-> 0]

\* INSERT ... ON CONFLICT(id) DO NOTHING.
SaveMutationReplaces(q, m, row) == [q EXCEPT ![m] = row]

SaveMutation(q, m, row) == IF q[m] = NoRow THEN [q EXCEPT ![m] = row] ELSE q

\* The eligible rows of listPendingMutations; tables is the one requested or all.
DueNeverFailed(q, now, tables) ==
    {m \in WithStatus(q, {"PENDING"}) : q[m].nextRetryAt <= now /\ q[m].table \in tables}

Due(q, now, tables) ==
    {m \in WithStatus(q, {"PENDING", "FAILED"}) :
        q[m].nextRetryAt <= now /\ q[m].table \in tables}

\* ORDER BY timestamp ASC LIMIT: S is a result the query may return (equal
\* timestamps come in no particular order).
IsClaim(S, q, now, tables, limit) ==
    LET due == Due(q, now, tables) IN
    /\ S \subseteq due
    /\ Cardinality(S) <= limit
    /\ S = due \/ Cardinality(S) = limit
    /\ \A m \in S, other \in due \ S : q[m].timestamp <= q[other].timestamp

\* UPDATE ... SET status = 'SYNCING' for the claimed ids.
MarkSyncing(q, S) ==
    [m \in DOMAIN q |-> IF m \in S THEN [q[m] EXCEPT !.status = "SYNCING"] ELSE q[m]]

\* The statements keyed by id change nothing when the row is gone.
UpdateWhere(q, m, condition, row) ==
    IF q[m] # NoRow /\ condition THEN [q EXCEPT ![m] = row] ELSE q

NextRetryCount(retryCount) ==
    IF retryCount < RetryCap THEN retryCount + 1 ELSE retryCount

MarkFailed(q, m, now) ==
    UpdateWhere(q, m, TRUE,
        [q[m] EXCEPT !.status = "FAILED",
                     !.nextRetryAt = now + RetryDelay(q[m].retryCount),
                     !.retryCount = NextRetryCount(q[m].retryCount)])

MarkRejected(q, m) ==
    UpdateWhere(q, m, TRUE, [q[m] EXCEPT !.status = "REJECTED"])

\* The only statements with a guard on the status: the user's two answers.
RequeuedKeepingDelay(row) == [row EXCEPT !.status = "PENDING", !.retryCount = 0]

Requeued(row) ==
    [row EXCEPT !.status = "PENDING", !.retryCount = 0, !.nextRetryAt = 0]

RetryRejected(q, m) ==
    UpdateWhere(q, m, q[m].status = "REJECTED", Requeued(q[m]))

DiscardRejectedUnguarded(q, m) == UpdateWhere(q, m, TRUE, NoRow)

DiscardRejectedSoftly(q, m) ==
    UpdateWhere(q, m, q[m].status = "REJECTED", [q[m] EXCEPT !.status = "DISCARDED"])

DiscardRejected(q, m) == UpdateWhere(q, m, q[m].status = "REJECTED", NoRow)

MarkPending(q, m) ==
    UpdateWhere(q, m, TRUE, [q[m] EXCEPT !.status = "PENDING", !.nextRetryAt = 0])

\* UPDATE ... SET status = 'PENDING' WHERE status = 'SYNCING'.
RecoverStuckNothing(q) == q

RecoverStuck(q) ==
    [m \in DOMAIN q |->
        IF m \in WithStatus(q, {"SYNCING"}) THEN [q[m] EXCEPT !.status = "PENDING"] ELSE q[m]]

RemoveMutation(q, m) == UpdateWhere(q, m, TRUE, NoRow)

\* The queue half of remapRecordId.
RemapQueueAnyTable(q, table, from, to) ==
    [m \in DOMAIN q |->
        IF m \in Queued(q) /\ q[m].record = from THEN [q[m] EXCEPT !.record = to] ELSE q[m]]

RemapQueue(q, table, from, to) ==
    [m \in DOMAIN q |->
        IF m \in Queued(q) /\ q[m].table = table /\ q[m].record = from
        THEN [q[m] EXCEPT !.record = to] ELSE q[m]]
=============================================================================
