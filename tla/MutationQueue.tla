--------------------------- MODULE MutationQueue ---------------------------
(***************************************************************************)
(* The durable store of nitro-sync: class MutationQueue of                 *)
(* cpp/MutationQueue.cpp, with the two SQLite tables it owns, sync_queue   *)
(* (queue) and sync_records (records).                                     *)
(*                                                                         *)
(* Every public method holds mutex_ from its first line to its last and    *)
(* runs one statement or one transaction, so every method is one action;   *)
(* a method that throws rolls back and is a stuttering step.  The callers  *)
(* are not constrained here: any method may be called at any time, with    *)
(* any of the arguments, which is what several providers, hooks and        *)
(* background tasks of one process can do.  What the sync run does with    *)
(* the queue is module SyncEngine.                                         *)
(***************************************************************************)
EXTENDS QueueRows, RecordCells

CONSTANTS
    Mutations,   \* mutation ids
    Tables,      \* collection names
    RecordIds,   \* record ids, local and server-issued
    Values,      \* record payloads
    Drafts,      \* contents a mutation may be enqueued with
    MaxClock,    \* bound: the wall clock stays in 0..MaxClock
    Limits       \* claim limits the callers use

Draft == [table: Tables, record: RecordIds, operation: Operations,
          dependsOn: SUBSET Mutations, value: Values]

Cell == [value: Values \cup {Blank}, updatedAt: Nat, deleted: BOOLEAN]

ASSUME StoreAssumption ==
    /\ Drafts \subseteq Draft
    /\ MaxClock \in Nat
    /\ RetryCap \in Nat \ {0}
    /\ Limits \subseteq Nat
    /\ NoRow \notin RowOf(Tables, RecordIds, Mutations)
    /\ NoCell \notin Cell

VARIABLES
    queue,     \* sync_queue
    records,   \* sync_records
    clock,     \* the device's wall clock, which the user may set either way
    open       \* database_ # nullptr

vars == <<queue, records, clock, open>>

Clock == 0 .. MaxClock

TypeOK ==
    /\ queue \in QueueOf(Tables, RecordIds, Mutations)
    /\ records \in [Tables -> [RecordIds -> Cell \cup {NoCell}]]
    /\ clock \in Clock
    /\ open \in BOOLEAN

Init ==
    /\ queue = [m \in Mutations |-> NoRow]
    /\ records = [t \in Tables |-> [id \in RecordIds |-> NoCell]]
    /\ clock \in Clock
    /\ open = FALSE

----------------------------------------------------------------------------
\* Opening recovers what was being sent; so does initializing again.
Initialize ==
    /\ open' = TRUE
    /\ queue' = RecoverStuck(queue)
    /\ UNCHANGED <<records, clock>>

\* The process dies or the object is destroyed: SQLite keeps what committed.
Close ==
    /\ open
    /\ open' = FALSE
    /\ UNCHANGED <<queue, records, clock>>

\* Time passes, or the clock is set.
SetClock ==
    /\ clock' \in Clock
    /\ UNCHANGED <<queue, records, open>>

\* Common frame of the methods that write one of the two tables.
WriteQueue(newQueue) ==
    /\ open
    /\ queue' = newQueue
    /\ UNCHANGED <<records, clock, open>>

WriteRecords(newRecords) ==
    /\ open
    /\ records' = newRecords
    /\ UNCHANGED <<queue, clock, open>>

Enqueue(m, draft) == WriteQueue(SaveMutation(queue, m, FreshRow(draft, clock)))

\* The record half of applyMutation.
PersistLocal(draft) ==
    IF draft.operation = "DELETE"
    THEN RemoveRecord(records, draft.table, draft.record, clock)
    ELSE SaveRecord(records, draft.table, draft.record, draft.value, clock)

ApplyMutation(m, draft) ==
    /\ open
    /\ queue' = SaveMutation(queue, m, FreshRow(draft, clock))
    /\ records' = PersistLocal(draft)
    /\ UNCHANGED <<clock, open>>

ClaimPending(limit, tables) ==
    \E S \in SUBSET Due(queue, clock, tables) :
        /\ IsClaim(S, queue, clock, tables, limit)
        /\ WriteQueue(MarkSyncing(queue, S))

\* updateStatus(id, Syncing, false): the bridge offers it, nothing in src/ calls it.
MarkOneSyncing(m) ==
    WriteQueue(UpdateWhere(queue, m, TRUE, [queue[m] EXCEPT !.status = "SYNCING"]))

FailMutation(m) == WriteQueue(MarkFailed(queue, m, clock))

RejectMutation(m) == WriteQueue(MarkRejected(queue, m))

ReturnToPending(m) == WriteQueue(MarkPending(queue, m))

RetryRejectedMutation(m) == WriteQueue(RetryRejected(queue, m))

DiscardRejectedMutation(m) == WriteQueue(DiscardRejected(queue, m))

Remove(m) == WriteQueue(RemoveMutation(queue, m))

UpsertRecord(t, id, value, timestamp) ==
    WriteRecords(SaveRecord(records, t, id, value, timestamp))

DeleteRecord(t, id, timestamp) ==
    WriteRecords(RemoveRecord(records, t, id, timestamp))

ForgetTombstone(t, id, through) ==
    WriteRecords(ClearTombstone(records, t, id, through))

\* Both tables in one transaction; a taken key rolls it back.
RemapRecordId(t, from, to) ==
    /\ open
    /\ from # to
    /\ ~RemapBreaks(records, t, from, to)
    /\ records' = RemapCells(records, t, from, to)
    /\ queue' = RemapQueue(queue, t, from, to)
    /\ UNCHANGED <<clock, open>>

ReplaceStoredTable(t, live, dead, timestamp) ==
    /\ ~ReplaceBreaks(live, dead)
    /\ WriteRecords(ReplaceTable(records, t, live, dead, timestamp))

----------------------------------------------------------------------------
QueueStep ==
    \/ \E m \in Mutations, draft \in Drafts :
          Enqueue(m, draft) \/ ApplyMutation(m, draft)
    \/ \E limit \in Limits :
          \/ ClaimPending(limit, Tables)
          \/ \E t \in Tables : ClaimPending(limit, {t})
    \/ \E m \in Mutations :
          \/ MarkOneSyncing(m)
          \/ FailMutation(m)
          \/ RejectMutation(m)
          \/ ReturnToPending(m)
          \/ RetryRejectedMutation(m)
          \/ DiscardRejectedMutation(m)
          \/ Remove(m)

RecordStep ==
    \/ \E t \in Tables, id \in RecordIds, timestamp \in Clock :
          \/ \E value \in Values : UpsertRecord(t, id, value, timestamp)
          \/ DeleteRecord(t, id, timestamp)
          \/ ForgetTombstone(t, id, timestamp)
    \/ \E t \in Tables, from, to \in RecordIds : RemapRecordId(t, from, to)
    \/ \E t \in Tables, L, D \in SUBSET RecordIds, timestamp \in Clock :
          \E live \in [L -> Values], dead \in [D -> Clock] :
              ReplaceStoredTable(t, live, dead, timestamp)

Next == Initialize \/ Close \/ SetClock \/ QueueStep \/ RecordStep

Spec == Init /\ [][Next]_vars

----------------------------------------------------------------------------
(***************************************************************************)
(* Properties                                                              *)
(***************************************************************************)
\* A row that was never failed, or whose rejection the user answered, has no
\* delay left: a retried rejection goes out with the next sync
\* (retryRejected resets both columns, markFailed sets both).
DelayHasACause ==
    \A m \in Queued(queue) : queue[m].retryCount = 0 => queue[m].nextRetryAt = 0

Content(row) == <<row.table, row.operation, row.dependsOn, row.timestamp>>

\* A step leaves what mutation m is as it was, or moves its record with it.
KeepsContent(m) ==
    /\ Content(queue'[m]) = Content(queue[m])
    /\ queue'[m].record # queue[m].record =>
          LET t == queue[m].table IN
          /\ records'[t][queue[m].record] = NoCell
          /\ records[t][queue[m].record] # NoCell =>
                records'[t][queue'[m].record] = records[t][queue[m].record]

\* As long as a mutation is queued its content never changes, whatever is
\* enqueued again under its id, retried, recovered or replaced: a resend
\* carries the mutation the server may already have applied.  The record it
\* names changes only together with the record itself, when the server issues
\* its id (enqueue, applyMutation, updateStatus, remapRecordId).
QueuedContentIsFixed ==
    [][\A m \in Queued(queue) \cap Queued(queue') : KeepsContent(m)]_vars

\* The steps that may rewrite a table whatever its timestamps are.
ReplacesTable(t) ==
    \E L, D \in SUBSET RecordIds, timestamp \in Clock :
        \E live \in [L -> Values], dead \in [D -> Clock] :
            ReplaceStoredTable(t, live, dead, timestamp)

MovesRecord(t) == \E from, to \in RecordIds : RemapRecordId(t, from, to)

\* new was written no earlier than old, or it clears a tombstone.
InOrder(old, new) ==
    old # NoCell /\ new # old =>
        \/ IsTombstone(old) /\ new = NoCell
        \/ new # NoCell /\ new.updatedAt >= old.updatedAt

\* Outside a replacement of the table and a change of id, a stored record or
\* tombstone is only ever overwritten by a later or simultaneous write, and
\* only a tombstone disappears: an answer applied late never takes back what
\* was written after it (the guard of every upsert, clearTombstone).
LastWriterWins ==
    [][\A t \in Tables, id \in RecordIds :
          \/ InOrder(records[t][id], records'[t][id])
          \/ ReplacesTable(t) \/ MovesRecord(t)]_vars

\* No call reaches into another table than its own: its records and the
\* mutations queued for them (the table_name conditions of the statements).
OneTablePerStep ==
    [][\E t \in Tables : \A u \in Tables \ {t} :
          /\ records'[u] = records[u]
          /\ \A m \in Queued(queue) \cap Queued(queue') :
                queue[m].table = u => queue'[m].record = queue[m].record]_vars
=============================================================================
