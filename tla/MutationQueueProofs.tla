------------------------ MODULE MutationQueueProofs ------------------------
(***************************************************************************)
(* Theorems about the durable store, for any set of mutations, tables,     *)
(* records, payloads and claim limits, and a clock of any range.           *)
(***************************************************************************)
EXTENDS MutationQueue, QueueRowsProofs

QueueType == QueueOf(Tables, RecordIds, Mutations)

Row == RowOf(Tables, RecordIds, Mutations)

USE DEF QueueType, Row

TableType == [RecordIds -> Cell \cup {NoCell}]

RecordsType == [Tables -> TableType]

----------------------------------------------------------------------------
(***************************************************************************)
(* What the statements return                                              *)
(***************************************************************************)
\* Replacing the row of one key yields a content of sync_records.
LEMMA PutType ==
    ASSUME NEW c \in RecordsType, NEW t \in Tables, NEW id \in RecordIds,
           NEW cell \in Cell \cup {NoCell}
    PROVE  Put(c, t, id, cell) \in RecordsType
BY DEF Put, RecordsType, TableType

LEMMA SaveRecordType ==
    ASSUME NEW c \in RecordsType, NEW t \in Tables, NEW id \in RecordIds,
           NEW value \in Values, NEW timestamp \in Nat
    PROVE  SaveRecord(c, t, id, value, timestamp) \in RecordsType
<1>1. LiveCell(value, timestamp) \in Cell
  BY DEF LiveCell, Cell
<1> QED BY <1>1, PutType DEF SaveRecord

LEMMA RemoveRecordType ==
    ASSUME NEW c \in RecordsType, NEW t \in Tables, NEW id \in RecordIds, NEW timestamp \in Nat
    PROVE  RemoveRecord(c, t, id, timestamp) \in RecordsType
<1> DEFINE value == IF c[t][id] = NoCell THEN Blank ELSE c[t][id].value
<1>1. c[t][id] \in Cell \cup {NoCell}
  BY DEF RecordsType, TableType
<1>2. value \in Values \cup {Blank}
  BY <1>1 DEF Cell
<1>3. TombstoneCell(value, timestamp) \in Cell
  BY <1>2 DEF TombstoneCell, Cell
<1> HIDE DEF value
<1>4. Put(c, t, id, TombstoneCell(value, timestamp)) \in RecordsType
  BY <1>3, PutType
<1> QED BY <1>4 DEF RemoveRecord, value

LEMMA ClearTombstoneType ==
    ASSUME NEW c \in RecordsType, NEW t \in Tables, NEW id \in RecordIds, NEW through \in Nat
    PROVE  ClearTombstone(c, t, id, through) \in RecordsType
BY PutType DEF ClearTombstone

LEMMA RemapCellsType ==
    ASSUME NEW c \in RecordsType, NEW t \in Tables, NEW from \in RecordIds, NEW to \in RecordIds
    PROVE  RemapCells(c, t, from, to) \in RecordsType
BY DEF RemapCells, RecordsType, TableType

LEMMA ReplaceTableType ==
    ASSUME NEW c \in RecordsType, NEW t \in Tables, NEW timestamp \in Nat,
           NEW L \in SUBSET RecordIds, NEW D \in SUBSET RecordIds,
           NEW live \in [L -> Values], NEW dead \in [D -> Nat]
    PROVE  ReplaceTable(c, t, live, dead, timestamp) \in RecordsType
<1>1. DOMAIN c[t] = RecordIds
  BY DEF RecordsType, TableType
<1>2. ReplacedTable(RecordIds, live, dead, timestamp) \in TableType
  BY DEF ReplacedTable, TableType, LiveCell, TombstoneCell, Cell
<1> HIDE DEF TableType
<1> QED BY <1>1, <1>2 DEF ReplaceTable, RecordsType

----------------------------------------------------------------------------
(***************************************************************************)
(* Type correctness                                                        *)
(***************************************************************************)
LEMMA ClockIsNat == Clock \subseteq Nat
BY StoreAssumption DEF Clock

LEMMA TypeOKForms == TypeOK <=> /\ queue \in QueueType
                               /\ records \in RecordsType
                               /\ clock \in Clock
                               /\ open \in BOOLEAN
BY DEF TypeOK, QueueType, RecordsType, TableType

LEMMA QueueStepType == TypeOK /\ QueueStep => TypeOK'
<1> SUFFICES ASSUME TypeOK, QueueStep PROVE TypeOK'
  OBVIOUS
<1> USE DEF WriteQueue
<1>1. /\ queue \in QueueType /\ records \in RecordsType
      /\ clock \in Clock /\ clock \in Nat /\ open \in BOOLEAN
  BY TypeOKForms, ClockIsNat
<1>2. RetryCap \in Nat /\ Drafts \subseteq Draft
  BY StoreAssumption
<1>3. ASSUME queue' \in QueueType, records' \in RecordsType, UNCHANGED <<clock, open>>
      PROVE  TypeOK'
  <2>1. clock' \in Clock /\ open' \in BOOLEAN
    BY <1>1, <1>3 DEF Clock
  <2> QED BY <1>3, <2>1 DEF TypeOK, QueueType, RecordsType, TableType
<1>8. ASSUME NEW m \in Mutations, NEW draft \in Drafts
      PROVE  SaveMutation(queue, m, FreshRow(draft, clock)) \in QueueType
  <2>1. FreshRow(draft, clock) \in Row
    BY <1>1, <1>2, FreshRowType DEF Draft
  <2> QED BY <1>1, <2>1, SaveMutationType
<1>4. ASSUME NEW m \in Mutations, NEW draft \in Drafts, Enqueue(m, draft)
      PROVE  TypeOK'
  BY <1>1, <1>3, <1>4, <1>8 DEF Enqueue
<1>5. ASSUME NEW m \in Mutations, NEW draft \in Drafts, ApplyMutation(m, draft)
      PROVE  TypeOK'
  <2>1. queue' \in QueueType
    BY <1>5, <1>8 DEF ApplyMutation
  <2>2. draft.table \in Tables /\ draft.record \in RecordIds /\ draft.value \in Values
    BY <1>2 DEF Draft
  <2>3. records' \in RecordsType
    BY <1>1, <1>5, <2>2, SaveRecordType, RemoveRecordType DEF ApplyMutation, PersistLocal
  <2> QED BY <1>3, <1>5, <2>1, <2>3 DEF ApplyMutation
<1>6. ASSUME NEW limit, NEW tables, ClaimPending(limit, tables)
      PROVE  TypeOK'
  <2>1. PICK S \in SUBSET Due(queue, clock, tables) : WriteQueue(MarkSyncing(queue, S))
    BY <1>6 DEF ClaimPending
  <2>2. S \in SUBSET Queued(queue)
    BY DEF Due, WithStatus
  <2>3. MarkSyncing(queue, S) \in QueueType
    BY <1>1, <2>2, MarkSyncingType
  <2> QED BY <1>1, <1>3, <2>1, <2>3
<1>7. ASSUME NEW m \in Mutations,
             \/ MarkOneSyncing(m) \/ FailMutation(m) \/ RejectMutation(m)
             \/ ReturnToPending(m) \/ RetryRejectedMutation(m)
             \/ DiscardRejectedMutation(m) \/ Remove(m)
      PROVE  TypeOK'
  <2>1. queue' \in QueueType
    BY <1>1, <1>2, <1>7, SetStatusType, MarkFailedType, RemovalType
       DEF MarkOneSyncing, FailMutation, RejectMutation, ReturnToPending,
           RetryRejectedMutation, DiscardRejectedMutation, Remove
  <2>2. UNCHANGED <<records, clock, open>>
    BY <1>7 DEF MarkOneSyncing, FailMutation, RejectMutation, ReturnToPending,
           RetryRejectedMutation, DiscardRejectedMutation, Remove
  <2> QED BY <1>1, <1>3, <2>1, <2>2
<1> QED BY <1>4, <1>5, <1>6, <1>7 DEF QueueStep

LEMMA RecordStepType == TypeOK /\ RecordStep => TypeOK'
<1> SUFFICES ASSUME TypeOK, RecordStep PROVE TypeOK'
  OBVIOUS
<1> USE DEF WriteRecords
<1>1. /\ queue \in QueueType /\ records \in RecordsType
      /\ clock \in Clock /\ open \in BOOLEAN
  BY TypeOKForms
<1>2. ASSUME queue' \in QueueType, records' \in RecordsType, UNCHANGED <<clock, open>>
      PROVE  TypeOK'
  <2>1. clock' \in Clock /\ open' \in BOOLEAN
    BY <1>1, <1>2 DEF Clock
  <2> QED BY <1>2, <2>1 DEF TypeOK, QueueType, RecordsType, TableType
<1>3. ASSUME NEW t \in Tables, NEW id \in RecordIds, NEW timestamp \in Clock,
             \/ \E value \in Values : UpsertRecord(t, id, value, timestamp)
             \/ DeleteRecord(t, id, timestamp)
             \/ ForgetTombstone(t, id, timestamp)
      PROVE  TypeOK'
  <2>1. timestamp \in Nat
    BY ClockIsNat
  <2>2. records' \in RecordsType
    BY <1>1, <1>3, <2>1, SaveRecordType, RemoveRecordType, ClearTombstoneType
       DEF UpsertRecord, DeleteRecord, ForgetTombstone
  <2>3. UNCHANGED <<queue, clock, open>>
    BY <1>3 DEF UpsertRecord, DeleteRecord, ForgetTombstone
  <2> QED BY <1>1, <1>2, <2>2, <2>3
<1>4. ASSUME NEW t \in Tables, NEW from \in RecordIds, NEW to \in RecordIds,
             RemapRecordId(t, from, to)
      PROVE  TypeOK'
  BY <1>1, <1>2, <1>4, RemapCellsType, RemapQueueType DEF RemapRecordId
<1>5. ASSUME NEW t \in Tables, NEW L \in SUBSET RecordIds, NEW D \in SUBSET RecordIds,
             NEW timestamp \in Clock, NEW live \in [L -> Values], NEW dead \in [D -> Clock],
             ReplaceStoredTable(t, live, dead, timestamp)
      PROVE  TypeOK'
  <2>1. timestamp \in Nat /\ dead \in [D -> Nat]
    BY ClockIsNat
  <2>2. ReplaceTable(records, t, live, dead, timestamp) \in RecordsType
    BY <1>1, <2>1, ReplaceTableType
  <2> QED BY <1>1, <1>2, <1>5, <2>2 DEF ReplaceStoredTable
<1> QED BY <1>3, <1>4, <1>5 DEF RecordStep

\* The two tables always hold rows of their declared columns, whatever is called
\* in whatever order, across closing and opening (all methods of MutationQueue).
THEOREM TypeCorrect == Spec => []TypeOK
<1>1. Init => TypeOK
  BY DEF Init, TypeOK, QueueOf
<1>2. TypeOK /\ [Next]_vars => TypeOK'
  <2> SUFFICES ASSUME TypeOK, [Next]_vars PROVE TypeOK'
    OBVIOUS
  <2>1. CASE Initialize
    BY <2>1, RecoverStuckType DEF Initialize, TypeOK, Clock
  <2>2. CASE Close
    BY <2>2 DEF Close, TypeOK, Clock
  <2>3. CASE SetClock
    BY <2>3 DEF SetClock, TypeOK, Clock
  <2>4. CASE QueueStep
    BY <2>4, QueueStepType
  <2>5. CASE RecordStep
    BY <2>5, RecordStepType
  <2>6. CASE UNCHANGED vars
    BY <2>6 DEF vars, TypeOK, Clock
  <2> QED BY <2>1, <2>2, <2>3, <2>4, <2>5, <2>6 DEF Next
<1> QED BY <1>1, <1>2, PTL DEF Spec

----------------------------------------------------------------------------
(***************************************************************************)
(* Delays                                                                  *)
(***************************************************************************)
Untroubled(row) == row.retryCount = 0 => row.nextRetryAt = 0

NoIdleDelay(q) == \A m \in Queued(q) : Untroubled(q[m])

\* Writing one row that has no delay without a cause leaves none in the table.
LEMMA UpdateWhereDelay ==
    ASSUME NEW q \in QueueType, NEW m \in Mutations, NEW condition \in BOOLEAN, NEW row,
           NoIdleDelay(q), q[m] # NoRow => row = NoRow \/ Untroubled(row)
    PROVE  NoIdleDelay(UpdateWhere(q, m, condition, row))
BY DEF NoIdleDelay, UpdateWhere, Queued, QueueOf

LEMMA MarkFailedDelay ==
    ASSUME NEW q \in QueueType, NEW m \in Mutations, NEW now \in Nat, NoIdleDelay(q)
    PROVE  NoIdleDelay(MarkFailed(q, m, now))
<1> DEFINE due == now + RetryDelay(q[m].retryCount)
           count == NextRetryCount(q[m].retryCount)
           row == [q[m] EXCEPT !.status = "FAILED", !.nextRetryAt = due,
                               !.retryCount = count]
<1>1. ASSUME q[m] # NoRow PROVE Untroubled(row)
  <2>1. q[m] \in Row
    BY <1>1 DEF QueueOf
  <2>2. q[m].retryCount \in Nat
    BY <2>1 DEF RowOf
  <2>3. count # 0
    BY <2>2, StoreAssumption DEF NextRetryCount
  <2>4. row.retryCount = count
    <3> HIDE DEF count, due
    <3> QED BY <2>1 DEF RowOf
  <2> HIDE DEF row, count
  <2> QED BY <2>3, <2>4 DEF Untroubled
<1> HIDE DEF row
<1>2. NoIdleDelay(UpdateWhere(q, m, TRUE, row))
  BY <1>1, UpdateWhereDelay
<1> QED BY <1>2 DEF MarkFailed, row

LEMMA OtherStatementsDelay ==
    ASSUME NEW q \in QueueType, NoIdleDelay(q)
    PROVE  /\ NoIdleDelay(RecoverStuck(q))
           /\ \A S \in SUBSET Queued(q) : NoIdleDelay(MarkSyncing(q, S))
           /\ \A m \in Mutations :
                 /\ NoIdleDelay(MarkRejected(q, m))
                 /\ NoIdleDelay(MarkPending(q, m))
                 /\ NoIdleDelay(RetryRejected(q, m))
                 /\ NoIdleDelay(RemoveMutation(q, m))
                 /\ NoIdleDelay(DiscardRejected(q, m))
                 /\ NoIdleDelay(UpdateWhere(q, m, TRUE, [q[m] EXCEPT !.status = "SYNCING"]))
           /\ \A m \in Mutations, draft \in Draft, now \in Nat :
                 NoIdleDelay(SaveMutation(q, m, FreshRow(draft, now)))
           /\ \A t \in Tables, from, to \in RecordIds : NoIdleDelay(RemapQueue(q, t, from, to))
<1> USE DEF NoIdleDelay, Queued, QueueOf, Untroubled, RowOf
<1>1. NoIdleDelay(RecoverStuck(q))
  BY DEF RecoverStuck, WithStatus
<1>2. \A S \in SUBSET Queued(q) : NoIdleDelay(MarkSyncing(q, S))
  BY DEF MarkSyncing
<1>3. ASSUME NEW m \in Mutations
      PROVE  /\ NoIdleDelay(MarkRejected(q, m))
             /\ NoIdleDelay(MarkPending(q, m))
             /\ NoIdleDelay(RetryRejected(q, m))
             /\ NoIdleDelay(RemoveMutation(q, m))
             /\ NoIdleDelay(DiscardRejected(q, m))
             /\ NoIdleDelay(UpdateWhere(q, m, TRUE, [q[m] EXCEPT !.status = "SYNCING"]))
  BY DEF MarkRejected, MarkPending, RetryRejected, Requeued, RemoveMutation,
         DiscardRejected, UpdateWhere
<1>4. ASSUME NEW m \in Mutations, NEW draft \in Draft, NEW now \in Nat
      PROVE  NoIdleDelay(SaveMutation(q, m, FreshRow(draft, now)))
  BY DEF SaveMutation, FreshRow
<1>5. ASSUME NEW t \in Tables, NEW from \in RecordIds, NEW to \in RecordIds
      PROVE  NoIdleDelay(RemapQueue(q, t, from, to))
  BY DEF RemapQueue
<1> QED BY <1>1, <1>2, <1>3, <1>4, <1>5

\* A mutation waits out a delay only if it failed since it was last enqueued or
\* taken back from its rejection (markFailed, retryRejected, markPending).
THEOREM DelaysHaveCauses == Spec => []DelayHasACause
<1>1. Init => DelayHasACause
  BY DEF Init, DelayHasACause, Queued
<1>2. TypeOK /\ DelayHasACause /\ [Next]_vars => DelayHasACause'
  <2> SUFFICES ASSUME TypeOK, NoIdleDelay(queue), [Next]_vars PROVE NoIdleDelay(queue')
    BY DEF NoIdleDelay, Untroubled, DelayHasACause
  <2>1. queue \in QueueType /\ clock \in Nat /\ Drafts \subseteq Draft
    BY TypeOKForms, ClockIsNat, StoreAssumption
  <2>2. CASE Initialize
    BY <2>1, <2>2, OtherStatementsDelay DEF Initialize
  <2>3. CASE Close \/ SetClock \/ UNCHANGED vars
    BY <2>3 DEF Close, SetClock, vars
  <2>4. CASE QueueStep
    <3>1. ASSUME NEW m \in Mutations, NEW draft \in Drafts,
                 Enqueue(m, draft) \/ ApplyMutation(m, draft)
          PROVE  NoIdleDelay(queue')
      BY <2>1, <3>1, OtherStatementsDelay DEF Enqueue, ApplyMutation, WriteQueue
    <3>2. ASSUME NEW limit, NEW tables, ClaimPending(limit, tables)
          PROVE  NoIdleDelay(queue')
      <4>1. PICK S \in SUBSET Due(queue, clock, tables) : queue' = MarkSyncing(queue, S)
        BY <3>2 DEF ClaimPending, WriteQueue
      <4>2. S \in SUBSET Queued(queue)
        BY DEF Due, WithStatus
      <4> QED BY <2>1, <4>1, <4>2, OtherStatementsDelay
    <3>3. ASSUME NEW m \in Mutations, FailMutation(m)
          PROVE  NoIdleDelay(queue')
      BY <2>1, <3>3, MarkFailedDelay DEF FailMutation, WriteQueue
    <3>4. ASSUME NEW m \in Mutations,
                 \/ MarkOneSyncing(m) \/ RejectMutation(m) \/ ReturnToPending(m)
                 \/ RetryRejectedMutation(m) \/ DiscardRejectedMutation(m) \/ Remove(m)
          PROVE  NoIdleDelay(queue')
      BY <2>1, <3>4, OtherStatementsDelay
         DEF MarkOneSyncing, RejectMutation, ReturnToPending, RetryRejectedMutation,
             DiscardRejectedMutation, Remove, WriteQueue
    <3> QED BY <2>4, <3>1, <3>2, <3>3, <3>4 DEF QueueStep
  <2>5. CASE RecordStep
    <3>1. ASSUME NEW t \in Tables, NEW from \in RecordIds, NEW to \in RecordIds,
                 RemapRecordId(t, from, to)
          PROVE  NoIdleDelay(queue')
      BY <2>1, <3>1, OtherStatementsDelay DEF RemapRecordId
    <3> QED BY <2>5, <3>1
            DEF RecordStep, UpsertRecord, DeleteRecord, ForgetTombstone, ReplaceStoredTable,
                WriteRecords
  <2> QED BY <2>2, <2>3, <2>4, <2>5 DEF Next
<1> QED BY <1>1, <1>2, TypeCorrect, PTL DEF Spec

----------------------------------------------------------------------------
(***************************************************************************)
(* Records                                                                 *)
(***************************************************************************)
LEMMA PutInOrder ==
    ASSUME NEW c \in RecordsType, NEW t \in Tables, NEW id \in RecordIds,
           NEW cell, InOrder(c[t][id], cell),
           NEW u \in Tables, NEW other \in RecordIds
    PROVE  InOrder(c[u][other], Put(c, t, id, cell)[u][other])
<1>1. CASE u = t /\ other = id
  BY <1>1 DEF Put, RecordsType, TableType
<1>2. CASE ~(u = t /\ other = id)
  BY <1>2 DEF Put, RecordsType, TableType, InOrder
<1> QED BY <1>1, <1>2

\* The guarded upserts and the clearing of a tombstone never go back in time.
LEMMA SaveInOrder ==
    ASSUME NEW c \in RecordsType, NEW t \in Tables, NEW id \in RecordIds,
           NEW value \in Values, NEW timestamp \in Nat,
           NEW u \in Tables, NEW other \in RecordIds
    PROVE  InOrder(c[u][other], SaveRecord(c, t, id, value, timestamp)[u][other])
<1>1. c[t][id] \in Cell \cup {NoCell}
  BY DEF RecordsType, TableType
<1>2. InOrder(c[u][other], c[u][other])
  BY DEF InOrder
<1>3. Accepts(c[t][id], timestamp) => InOrder(c[t][id], LiveCell(value, timestamp))
  <2>1. LiveCell(value, timestamp) \in Cell /\ LiveCell(value, timestamp).updatedAt = timestamp
    BY DEF LiveCell, Cell
  <2> QED BY <1>1, <2>1, StoreAssumption DEF Accepts, InOrder
<1> QED BY <1>2, <1>3, PutInOrder DEF SaveRecord

LEMMA DeletionsInOrder ==
    ASSUME NEW c \in RecordsType, NEW t \in Tables, NEW id \in RecordIds,
           NEW timestamp \in Nat,
           NEW u \in Tables, NEW other \in RecordIds
    PROVE  /\ InOrder(c[u][other], RemoveRecord(c, t, id, timestamp)[u][other])
           /\ InOrder(c[u][other], ClearTombstone(c, t, id, timestamp)[u][other])
<1>1. c[t][id] \in Cell \cup {NoCell}
  BY DEF RecordsType, TableType
<1>2. InOrder(c[u][other], c[u][other])
  BY DEF InOrder
<1>3. InOrder(c[u][other], RemoveRecord(c, t, id, timestamp)[u][other])
  <2> DEFINE kept == IF c[t][id] = NoCell THEN Blank ELSE c[t][id].value
  <2>1. Accepts(c[t][id], timestamp) => InOrder(c[t][id], TombstoneCell(kept, timestamp))
    <3>1. kept \in Values \cup {Blank}
      BY <1>1 DEF Cell
    <3>2. /\ TombstoneCell(kept, timestamp) \in Cell
          /\ TombstoneCell(kept, timestamp).updatedAt = timestamp
      BY <3>1 DEF TombstoneCell, Cell
    <3> HIDE DEF kept
    <3> QED BY <1>1, <3>2, StoreAssumption DEF Accepts, InOrder
  <2> HIDE DEF kept
  <2>2. Accepts(c[t][id], timestamp) =>
          InOrder(c[u][other], Put(c, t, id, TombstoneCell(kept, timestamp))[u][other])
    BY <2>1, PutInOrder
  <2> QED BY <1>2, <2>2 DEF RemoveRecord, kept
<1>4. InOrder(c[u][other], ClearTombstone(c, t, id, timestamp)[u][other])
  <2>1. IsTombstone(c[t][id]) => InOrder(c[t][id], NoCell)
    BY DEF InOrder
  <2> QED BY <1>2, <2>1, PutInOrder DEF ClearTombstone
<1> QED BY <1>3, <1>4

\* No record or tombstone is overwritten by an earlier write, outside table
\* replacements and changes of id (the guards of upsertRecord, deleteRecord,
\* clearTombstone and applyMutation).
THEOREM StoreIsLastWriterWins == Spec => LastWriterWins
<1> DEFINE Ordered == \A t \in Tables, id \in RecordIds :
                         \/ InOrder(records[t][id], records'[t][id])
                         \/ ReplacesTable(t) \/ MovesRecord(t)
<1>1. TypeOK /\ [Next]_vars => [Ordered]_vars
  <2> SUFFICES ASSUME TypeOK, Next, NEW u \in Tables, NEW other \in RecordIds
               PROVE  \/ InOrder(records[u][other], records'[u][other])
                      \/ ReplacesTable(u) \/ MovesRecord(u)
    OBVIOUS
  <2>1. /\ records \in RecordsType /\ clock \in Nat /\ Drafts \subseteq Draft
        /\ Clock \subseteq Nat
    BY TypeOKForms, ClockIsNat, StoreAssumption
  <2>2. ASSUME UNCHANGED records PROVE InOrder(records[u][other], records'[u][other])
    BY <2>2 DEF InOrder
  <2>3. CASE Initialize \/ Close \/ SetClock
    BY <2>2, <2>3 DEF Initialize, Close, SetClock
  <2>4. CASE QueueStep
    <3>1. ASSUME NEW m \in Mutations, NEW draft \in Drafts, ApplyMutation(m, draft)
          PROVE  InOrder(records[u][other], records'[u][other])
      <4>1. draft.table \in Tables /\ draft.record \in RecordIds /\ draft.value \in Values
        BY <2>1 DEF Draft
      <4> QED BY <2>1, <3>1, <4>1, SaveInOrder, DeletionsInOrder DEF ApplyMutation, PersistLocal
    <3> QED BY <2>2, <2>4, <3>1
            DEF QueueStep, Enqueue, ClaimPending, MarkOneSyncing, FailMutation, RejectMutation,
                ReturnToPending, RetryRejectedMutation, DiscardRejectedMutation, Remove,
                WriteQueue
  <2>5. CASE RecordStep
    <3>1. ASSUME NEW t \in Tables, NEW id \in RecordIds, NEW timestamp \in Clock,
                 NEW value \in Values, UpsertRecord(t, id, value, timestamp)
          PROVE  InOrder(records[u][other], records'[u][other])
      BY <2>1, <3>1, SaveInOrder DEF UpsertRecord, WriteRecords
    <3>2. ASSUME NEW t \in Tables, NEW id \in RecordIds, NEW timestamp \in Clock,
                 DeleteRecord(t, id, timestamp) \/ ForgetTombstone(t, id, timestamp)
          PROVE  InOrder(records[u][other], records'[u][other])
      <4>1. \/ records' = RemoveRecord(records, t, id, timestamp)
            \/ records' = ClearTombstone(records, t, id, timestamp)
        BY <3>2 DEF DeleteRecord, ForgetTombstone, WriteRecords
      <4>2. timestamp \in Nat
        BY <2>1
      <4> QED BY <2>1, <4>1, <4>2, DeletionsInOrder
    <3>3. ASSUME NEW t \in Tables, NEW from \in RecordIds, NEW to \in RecordIds,
                 RemapRecordId(t, from, to)
          PROVE  InOrder(records[u][other], records'[u][other]) \/ MovesRecord(u)
      <4>1. CASE u = t
        BY <3>3, <4>1 DEF MovesRecord
      <4>2. CASE u # t
        <5>1. records'[u] = records[u]
          BY <2>1, <3>3, <4>2 DEF RemapRecordId, RemapCells, RecordsType
        <5> QED BY <5>1 DEF InOrder
      <4> QED BY <4>1, <4>2
    <3>4. ASSUME NEW t \in Tables, NEW L \in SUBSET RecordIds, NEW D \in SUBSET RecordIds,
                 NEW timestamp \in Clock, NEW live \in [L -> Values],
                 NEW dead \in [D -> Clock], ReplaceStoredTable(t, live, dead, timestamp)
          PROVE  InOrder(records[u][other], records'[u][other]) \/ ReplacesTable(u)
      <4>1. CASE u = t
        BY <3>4, <4>1 DEF ReplacesTable
      <4>2. CASE u # t
        <5>1. records'[u] = records[u]
          BY <2>1, <3>4, <4>2 DEF ReplaceStoredTable, WriteRecords, ReplaceTable, RecordsType
        <5> QED BY <5>1 DEF InOrder
      <4> QED BY <4>1, <4>2
    <3> QED BY <2>5, <3>1, <3>2, <3>3, <3>4 DEF RecordStep
  <2> QED BY <2>3, <2>4, <2>5 DEF Next
<1> QED BY <1>1, TypeCorrect, PTL DEF Spec, LastWriterWins

----------------------------------------------------------------------------
(***************************************************************************)
(* What stays as it was queued                                             *)
(***************************************************************************)
\* The rows in both contents are the same mutations of the same records.
SameMutations(q, r) ==
    \A m \in Queued(q) \cap Queued(r) :
        Content(r[m]) = Content(q[m]) /\ r[m].record = q[m].record

\* Every statement but the remapping touches only the delivery columns.
LEMMA StatementsKeepMutations ==
    ASSUME NEW q \in QueueType
    PROVE  /\ SameMutations(q, RecoverStuck(q))
           /\ \A S \in SUBSET Queued(q) : SameMutations(q, MarkSyncing(q, S))
           /\ \A m \in Mutations : \A row : SameMutations(q, SaveMutation(q, m, row))
           /\ \A m \in Mutations, now \in Nat : SameMutations(q, MarkFailed(q, m, now))
           /\ \A m \in Mutations :
                 /\ SameMutations(q, MarkRejected(q, m))
                 /\ SameMutations(q, MarkPending(q, m))
                 /\ SameMutations(q, RetryRejected(q, m))
                 /\ SameMutations(q, DiscardRejected(q, m))
                 /\ SameMutations(q, RemoveMutation(q, m))
                 /\ SameMutations(q, UpdateWhere(q, m, TRUE, [q[m] EXCEPT !.status = "SYNCING"]))
<1> USE DEF SameMutations, Queued, QueueOf, Content
<1>1. \A m \in Queued(q) : q[m] \in Row
  OBVIOUS
<1>2. SameMutations(q, RecoverStuck(q))
  BY <1>1 DEF RecoverStuck, WithStatus, RowOf
<1>3. \A S \in SUBSET Queued(q) : SameMutations(q, MarkSyncing(q, S))
  BY <1>1 DEF MarkSyncing, RowOf
<1>4. \A m \in Mutations : \A row : SameMutations(q, SaveMutation(q, m, row))
  BY DEF SaveMutation
<1>5. ASSUME NEW m \in Mutations, NEW now \in Nat
      PROVE  SameMutations(q, MarkFailed(q, m, now))
  <2> DEFINE due == now + RetryDelay(q[m].retryCount)
             count == NextRetryCount(q[m].retryCount)
  <2> HIDE DEF due, count
  <2>1. SameMutations(q, UpdateWhere(q, m, TRUE,
            [q[m] EXCEPT !.status = "FAILED", !.nextRetryAt = due, !.retryCount = count]))
    BY <1>1 DEF UpdateWhere, RowOf
  <2> QED BY <2>1 DEF MarkFailed, due, count
<1>6. ASSUME NEW m \in Mutations
      PROVE  /\ SameMutations(q, MarkRejected(q, m))
             /\ SameMutations(q, MarkPending(q, m))
             /\ SameMutations(q, RetryRejected(q, m))
             /\ SameMutations(q, UpdateWhere(q, m, TRUE, [q[m] EXCEPT !.status = "SYNCING"]))
  BY <1>1 DEF MarkRejected, MarkPending, RetryRejected, Requeued, UpdateWhere, RowOf
<1>7. ASSUME NEW m \in Mutations
      PROVE  SameMutations(q, DiscardRejected(q, m)) /\ SameMutations(q, RemoveMutation(q, m))
  BY DEF DiscardRejected, RemoveMutation, UpdateWhere
<1> QED BY <1>2, <1>3, <1>4, <1>5, <1>6, <1>7

\* So does every call that is not about a stored record alone.
LEMMA CallsKeepMutations ==
    ASSUME TypeOK, Initialize \/ Close \/ SetClock \/ QueueStep
    PROVE  SameMutations(queue, queue')
<1>1. queue \in QueueType /\ clock \in Nat
  BY TypeOKForms, ClockIsNat
<1>2. CASE Initialize \/ Close \/ SetClock
  <2>1. SameMutations(queue, queue)
    BY DEF SameMutations
  <2> QED BY <1>1, <1>2, <2>1, StatementsKeepMutations DEF Initialize, Close, SetClock
<1>3. ASSUME NEW m \in Mutations, NEW draft \in Drafts,
             Enqueue(m, draft) \/ ApplyMutation(m, draft)
      PROVE  SameMutations(queue, queue')
  <2>1. queue' = SaveMutation(queue, m, FreshRow(draft, clock))
    BY <1>3 DEF Enqueue, ApplyMutation, WriteQueue
  <2> QED BY <1>1, <2>1, StatementsKeepMutations
<1>4. ASSUME NEW limit, NEW tables, ClaimPending(limit, tables)
      PROVE  SameMutations(queue, queue')
  <2>1. PICK S \in SUBSET Due(queue, clock, tables) : queue' = MarkSyncing(queue, S)
    BY <1>4 DEF ClaimPending, WriteQueue
  <2>2. S \in SUBSET Queued(queue)
    BY DEF Due, WithStatus
  <2> QED BY <1>1, <2>1, <2>2, StatementsKeepMutations
<1>5. ASSUME NEW m \in Mutations,
             \/ MarkOneSyncing(m) \/ FailMutation(m) \/ RejectMutation(m)
             \/ ReturnToPending(m) \/ RetryRejectedMutation(m)
             \/ DiscardRejectedMutation(m) \/ Remove(m)
      PROVE  SameMutations(queue, queue')
  <2>1. \/ queue' = UpdateWhere(queue, m, TRUE, [queue[m] EXCEPT !.status = "SYNCING"])
        \/ queue' = MarkFailed(queue, m, clock)
        \/ queue' = MarkRejected(queue, m)
        \/ queue' = MarkPending(queue, m)
        \/ queue' = RetryRejected(queue, m)
        \/ queue' = DiscardRejected(queue, m)
        \/ queue' = RemoveMutation(queue, m)
    BY <1>5 DEF MarkOneSyncing, FailMutation, RejectMutation, ReturnToPending,
                RetryRejectedMutation, DiscardRejectedMutation, Remove, WriteQueue
  <2> QED BY <1>1, <2>1, StatementsKeepMutations
<1> QED BY <1>2, <1>3, <1>4, <1>5 DEF QueueStep

\* The remapping renames the record of a queued mutation with the record.
LEMMA RemapKeepsContent ==
    ASSUME TypeOK, NEW t \in Tables, NEW from \in RecordIds, NEW to \in RecordIds,
           RemapRecordId(t, from, to), NEW m \in Queued(queue) \cap Queued(queue')
    PROVE  KeepsContent(m)
<1>1. queue \in QueueType /\ records \in RecordsType /\ m \in Mutations /\ queue[m] \in Row
  BY TypeOKForms DEF Queued, QueueOf
<1>2. queue' = RemapQueue(queue, t, from, to) /\ records' = RemapCells(records, t, from, to)
  BY DEF RemapRecordId
<1>3. \/ queue'[m] = queue[m]
      \/ /\ queue[m].table = t /\ queue[m].record = from
         /\ queue'[m] = [queue[m] EXCEPT !.record = to]
  BY <1>1, <1>2 DEF RemapQueue, QueueOf
<1>4. Content(queue'[m]) = Content(queue[m])
  BY <1>1, <1>3 DEF Content, RowOf
<1>5. ASSUME queue'[m].record # queue[m].record
      PROVE  /\ queue[m].table = t /\ queue[m].record = from /\ queue'[m].record = to
             /\ from # to
  BY <1>1, <1>3, <1>5 DEF RowOf
<1>6. /\ from # to => RemapCells(records, t, from, to)[t][from] = NoCell
      /\ from # to /\ records[t][from] # NoCell =>
            RemapCells(records, t, from, to)[t][to] = records[t][from]
  BY <1>1 DEF RemapCells, RecordsType, TableType
<1> QED BY <1>2, <1>4, <1>5, <1>6 DEF KeepsContent

\* What was queued stays what it was, whatever is called (enqueue, updateStatus,
\* retryRejected, initialize, remapRecordId).
THEOREM ContentIsFixed == Spec => QueuedContentIsFixed
<1> DEFINE Fixed == \A m \in Queued(queue) \cap Queued(queue') : KeepsContent(m)
<1>1. TypeOK /\ [Next]_vars => [Fixed]_vars
  <2> SUFFICES ASSUME TypeOK, Next PROVE Fixed
    OBVIOUS
  <2>2. ASSUME SameMutations(queue, queue') PROVE Fixed
    BY <2>2 DEF SameMutations, KeepsContent
  <2>3. ASSUME queue' = queue PROVE Fixed
    BY <2>3 DEF KeepsContent
  <2>4. CASE Initialize \/ Close \/ SetClock \/ QueueStep
    BY <2>2, <2>4, CallsKeepMutations
  <2>6. CASE RecordStep
    <3>1. ASSUME NEW t \in Tables, NEW from \in RecordIds, NEW to \in RecordIds,
                 RemapRecordId(t, from, to)
          PROVE  Fixed
      BY <3>1, RemapKeepsContent
    <3> QED BY <2>3, <2>6, <3>1
            DEF RecordStep, UpsertRecord, DeleteRecord, ForgetTombstone, ReplaceStoredTable,
                WriteRecords
  <2> QED BY <2>4, <2>6 DEF Next
<1> QED BY <1>1, TypeCorrect, PTL DEF Spec, QueuedContentIsFixed

----------------------------------------------------------------------------
(***************************************************************************)
(* Tables are apart                                                        *)
(***************************************************************************)
\* What a step does to the records is in one row, or one table.
LEMMA RecordsOfOneTable ==
    ASSUME NEW c \in RecordsType, NEW t \in Tables, NEW u \in Tables \ {t},
           NEW id, NEW to, NEW value, NEW timestamp, NEW live, NEW dead
    PROVE  /\ SaveRecord(c, t, id, value, timestamp)[u] = c[u]
           /\ RemoveRecord(c, t, id, timestamp)[u] = c[u]
           /\ ClearTombstone(c, t, id, timestamp)[u] = c[u]
           /\ RemapCells(c, t, id, to)[u] = c[u]
           /\ ReplaceTable(c, t, live, dead, timestamp)[u] = c[u]
<1>1. \A cell : Put(c, t, id, cell)[u] = c[u]
  BY DEF Put, RecordsType
<1> QED BY <1>1 DEF SaveRecord, RemoveRecord, ClearTombstone, RemapCells, ReplaceTable, RecordsType

\* No call reaches into another table than its own, for any tables that share
\* record ids (sync_queue and sync_records, keyed by table_name).
THEOREM TablesAreApart ==
    ASSUME Tables # {}
    PROVE  Spec => OneTablePerStep
<1> DEFINE Leaves(u) ==
              /\ records'[u] = records[u]
              /\ \A m \in Queued(queue) \cap Queued(queue') :
                    queue[m].table = u => queue'[m].record = queue[m].record
           Apart == \E t \in Tables : \A u \in Tables \ {t} : Leaves(u)
<1>1. TypeOK /\ [Next]_vars => [Apart]_vars
  <2> SUFFICES ASSUME TypeOK, Next PROVE Apart
    OBVIOUS
  <2>1. queue \in QueueType /\ records \in RecordsType
    BY TypeOKForms
  <2>2. ASSUME SameMutations(queue, queue'), NEW t \in Tables,
               \A u \in Tables \ {t} : records'[u] = records[u]
        PROVE  Apart
    BY <2>2 DEF SameMutations
  <2>3. SameMutations(queue, queue)
    BY DEF SameMutations
  <2>4. ASSUME NEW m \in Mutations, NEW draft \in Drafts, ApplyMutation(m, draft)
        PROVE  Apart
    <3>1. SameMutations(queue, queue')
      BY <2>4, CallsKeepMutations DEF QueueStep
    <3>2. draft.table \in Tables
      BY StoreAssumption DEF Draft
    <3>3. records' = PersistLocal(draft)
      BY <2>4 DEF ApplyMutation
    <3>4. \A u \in Tables \ {draft.table} : records'[u] = records[u]
      BY <2>1, <3>2, <3>3, RecordsOfOneTable DEF PersistLocal
    <3> QED BY <2>2, <3>1, <3>2, <3>4
  <2>5. ASSUME SameMutations(queue, queue'), UNCHANGED records
        PROVE  Apart
    BY <2>2, <2>5
  <2>6. CASE Initialize \/ Close \/ SetClock \/ QueueStep
    <3>1. SameMutations(queue, queue')
      BY <2>6, CallsKeepMutations
    <3>2. UNCHANGED records \/ \E m \in Mutations, draft \in Drafts : ApplyMutation(m, draft)
      BY <2>6 DEF Initialize, Close, SetClock, QueueStep, Enqueue, ClaimPending, MarkOneSyncing,
                  FailMutation, RejectMutation, ReturnToPending, RetryRejectedMutation,
                  DiscardRejectedMutation, Remove, WriteQueue
    <3> QED BY <2>4, <2>5, <3>1, <3>2
  <2>7. CASE RecordStep
    <3>1. ASSUME NEW t \in Tables, NEW id \in RecordIds, NEW timestamp \in Clock,
                 \/ \E value \in Values : UpsertRecord(t, id, value, timestamp)
                 \/ DeleteRecord(t, id, timestamp)
                 \/ ForgetTombstone(t, id, timestamp)
          PROVE  Apart
      <4>1. queue' = queue /\ \A u \in Tables \ {t} : records'[u] = records[u]
        BY <2>1, <3>1, RecordsOfOneTable
           DEF UpsertRecord, DeleteRecord, ForgetTombstone, WriteRecords
      <4> QED BY <2>2, <2>3, <4>1
    <3>2. ASSUME NEW t \in Tables, NEW from \in RecordIds, NEW to \in RecordIds,
                 RemapRecordId(t, from, to)
          PROVE  Apart
      <4>1. \A u \in Tables \ {t} : records'[u] = records[u]
        BY <2>1, <3>2, RecordsOfOneTable DEF RemapRecordId
      <4>2. \A m \in Queued(queue) : queue[m].table # t => queue'[m] = queue[m]
        BY <2>1, <3>2 DEF RemapRecordId, RemapQueue, Queued, QueueOf
      <4> QED BY <4>1, <4>2
    <3>3. ASSUME NEW t \in Tables, NEW live, NEW dead, NEW timestamp,
                 ReplaceStoredTable(t, live, dead, timestamp)
          PROVE  Apart
      <4>1. queue' = queue /\ \A u \in Tables \ {t} : records'[u] = records[u]
        BY <2>1, <3>3, RecordsOfOneTable DEF ReplaceStoredTable, WriteRecords
      <4> QED BY <2>2, <2>3, <4>1
    <3> QED BY <2>7, <3>1, <3>2, <3>3 DEF RecordStep
  <2> QED BY <2>6, <2>7 DEF Next
<1> QED BY <1>1, TypeCorrect, PTL DEF Spec, OneTablePerStep
=============================================================================
