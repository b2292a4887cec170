-------------------------- MODULE QueueRowsProofs --------------------------
(***************************************************************************)
(* What the statements on sync_queue return: from a content of the table   *)
(* they make a content of the table, over any names (Ts), record ids (Rs)  *)
(* and mutation ids (Ms).                                                  *)
(***************************************************************************)
EXTENDS QueueRows, TLAPS

\* The delay is a natural number, whatever the retry count (RETRY_DELAY_SQL).
LEMMA RetryDelayIsNat ==
    ASSUME NEW n \in Nat
    PROVE  RetryDelay(n) \in Nat
<1>1. CASE n \in 0 .. 8
  <2>1. n + 1 \in 1 .. 9
    BY <1>1
  <2>2. \A i \in 1 .. 9 : Doubling[i] \in Nat
    BY DEF Doubling
  <2> QED BY <1>1, <2>1, <2>2 DEF RetryDelay
<1>2. CASE n \notin 0 .. 8
  BY <1>2 DEF RetryDelay
<1> QED BY <1>1, <1>2

\* An UPDATE keyed by id yields a queue when the new row is one.
LEMMA UpdateWhereType ==
    ASSUME NEW Ts, NEW Rs, NEW Ms, NEW q \in QueueOf(Ts, Rs, Ms), NEW m \in Ms,
           NEW condition \in BOOLEAN, NEW row,
           q[m] # NoRow => row \in RowOf(Ts, Rs, Ms) \cup {NoRow}
    PROVE  UpdateWhere(q, m, condition, row) \in QueueOf(Ts, Rs, Ms)
BY DEF UpdateWhere, QueueOf

\* A new mutation's row (FreshRow) has the types of its columns.
LEMMA FreshRowType ==
    ASSUME NEW Ts, NEW Rs, NEW Ms, NEW draft, NEW now \in Nat,
           draft.table \in Ts, draft.record \in Rs, draft.operation \in Operations,
           draft.dependsOn \in SUBSET Ms
    PROVE  FreshRow(draft, now) \in RowOf(Ts, Rs, Ms)
BY DEF FreshRow, RowOf, MutationStatus

LEMMA SaveMutationType ==
    ASSUME NEW Ts, NEW Rs, NEW Ms, NEW q \in QueueOf(Ts, Rs, Ms), NEW m \in Ms,
           NEW row \in RowOf(Ts, Rs, Ms)
    PROVE  SaveMutation(q, m, row) \in QueueOf(Ts, Rs, Ms)
BY DEF SaveMutation, QueueOf

LEMMA FailedRowType ==
    ASSUME NEW Ts, NEW Rs, NEW Ms, NEW row \in RowOf(Ts, Rs, Ms),
           NEW due \in Nat, NEW count \in Nat
    PROVE  [row EXCEPT !.status = "FAILED", !.nextRetryAt = due, !.retryCount = count]
              \in RowOf(Ts, Rs, Ms)
BY DEF RowOf, MutationStatus

LEMMA MarkFailedType ==
    ASSUME NEW Ts, NEW Rs, NEW Ms, NEW q \in QueueOf(Ts, Rs, Ms), NEW m \in Ms,
           NEW now \in Nat, RetryCap \in Nat
    PROVE  MarkFailed(q, m, now) \in QueueOf(Ts, Rs, Ms)
<1> DEFINE due == now + RetryDelay(q[m].retryCount)
           count == NextRetryCount(q[m].retryCount)
           row == [q[m] EXCEPT !.status = "FAILED", !.nextRetryAt = due,
                               !.retryCount = count]
<1>1. ASSUME q[m] # NoRow PROVE row \in RowOf(Ts, Rs, Ms)
  <2>1. q[m] \in RowOf(Ts, Rs, Ms)
    BY <1>1 DEF QueueOf
  <2>2. q[m].retryCount \in Nat
    BY <2>1 DEF RowOf
  <2>3. due \in Nat
    BY <2>2, RetryDelayIsNat
  <2>4. count \in Nat
    BY <2>2 DEF NextRetryCount
  <2> HIDE DEF due, count
  <2> QED BY <2>1, <2>3, <2>4, FailedRowType
<1> HIDE DEF row
<1>2. UpdateWhere(q, m, TRUE, row) \in QueueOf(Ts, Rs, Ms)
  BY <1>1, UpdateWhereType
<1> QED BY <1>2 DEF MarkFailed, row

LEMMA SetStatusType ==
    ASSUME NEW Ts, NEW Rs, NEW Ms, NEW q \in QueueOf(Ts, Rs, Ms), NEW m \in Ms
    PROVE  /\ MarkRejected(q, m) \in QueueOf(Ts, Rs, Ms)
           /\ MarkPending(q, m) \in QueueOf(Ts, Rs, Ms)
           /\ RetryRejected(q, m) \in QueueOf(Ts, Rs, Ms)
           /\ UpdateWhere(q, m, TRUE, [q[m] EXCEPT !.status = "SYNCING"])
                 \in QueueOf(Ts, Rs, Ms)
BY DEF MarkRejected, MarkPending, RetryRejected, Requeued, UpdateWhere, QueueOf, RowOf,
       MutationStatus

LEMMA RemovalType ==
    ASSUME NEW Ts, NEW Rs, NEW Ms, NEW q \in QueueOf(Ts, Rs, Ms), NEW m \in Ms
    PROVE  /\ RemoveMutation(q, m) \in QueueOf(Ts, Rs, Ms)
           /\ DiscardRejected(q, m) \in QueueOf(Ts, Rs, Ms)
BY DEF RemoveMutation, DiscardRejected, UpdateWhere, QueueOf

LEMMA RecoverStuckType ==
    ASSUME NEW Ts, NEW Rs, NEW Ms, NEW q \in QueueOf(Ts, Rs, Ms)
    PROVE  RecoverStuck(q) \in QueueOf(Ts, Rs, Ms)
BY DEF RecoverStuck, WithStatus, Queued, QueueOf, RowOf, MutationStatus

LEMMA MarkSyncingType ==
    ASSUME NEW Ts, NEW Rs, NEW Ms, NEW q \in QueueOf(Ts, Rs, Ms), NEW S \in SUBSET Queued(q)
    PROVE  MarkSyncing(q, S) \in QueueOf(Ts, Rs, Ms)
BY DEF MarkSyncing, Queued, QueueOf, RowOf, MutationStatus

LEMMA RemapQueueType ==
    ASSUME NEW Ts, NEW Rs, NEW Ms, NEW q \in QueueOf(Ts, Rs, Ms),
           NEW t \in Ts, NEW from \in Rs, NEW to \in Rs
    PROVE  RemapQueue(q, t, from, to) \in QueueOf(Ts, Rs, Ms)
BY DEF RemapQueue, Queued, QueueOf, RowOf

----------------------------------------------------------------------------
(***************************************************************************)
(* What the statements leave of the statuses and what they leave queued    *)
(***************************************************************************)
\* No statement but the claim makes a mutation SYNCING, and what is written for
\* m concerns m only.
LEMMA NothingNewSyncing ==
    ASSUME NEW Ts, NEW Rs, NEW Ms, NEW q \in QueueOf(Ts, Rs, Ms), NEW m \in Ms
    PROVE  /\ WithStatus(MarkRejected(q, m), {"SYNCING"}) \subseteq WithStatus(q, {"SYNCING"}) \ {m}
           /\ WithStatus(MarkPending(q, m), {"SYNCING"}) \subseteq WithStatus(q, {"SYNCING"}) \ {m}
           /\ WithStatus(RemoveMutation(q, m), {"SYNCING"}) \subseteq WithStatus(q, {"SYNCING"}) \ {m}
           /\ WithStatus(RetryRejected(q, m), {"SYNCING"}) \subseteq WithStatus(q, {"SYNCING"})
           /\ WithStatus(DiscardRejected(q, m), {"SYNCING"}) \subseteq WithStatus(q, {"SYNCING"})
BY DEF MarkRejected, MarkPending, RemoveMutation, RetryRejected, DiscardRejected, Requeued,
       UpdateWhere, WithStatus, Queued, QueueOf, RowOf

LEMMA FailedIsNotSyncing ==
    ASSUME NEW Ts, NEW Rs, NEW Ms, NEW q \in QueueOf(Ts, Rs, Ms), NEW m \in Ms, NEW now \in Nat
    PROVE  WithStatus(MarkFailed(q, m, now), {"SYNCING"}) \subseteq WithStatus(q, {"SYNCING"}) \ {m}
<1> DEFINE due == now + RetryDelay(q[m].retryCount)
           count == NextRetryCount(q[m].retryCount)
           row == [q[m] EXCEPT !.status = "FAILED", !.nextRetryAt = due,
                               !.retryCount = count]
<1>1. q[m] # NoRow => row.status = "FAILED"
  <2> HIDE DEF due, count
  <2> QED BY DEF QueueOf, RowOf
<1> HIDE DEF row
<1>2. WithStatus(UpdateWhere(q, m, TRUE, row), {"SYNCING"})
         \subseteq WithStatus(q, {"SYNCING"}) \ {m}
  BY <1>1 DEF UpdateWhere, WithStatus, Queued, QueueOf
<1> QED BY <1>2 DEF MarkFailed, row

LEMMA SavedIsNotSyncing ==
    ASSUME NEW Ts, NEW Rs, NEW Ms, NEW q \in QueueOf(Ts, Rs, Ms), NEW m \in Ms,
           NEW draft, NEW now
    PROVE  WithStatus(SaveMutation(q, m, FreshRow(draft, now)), {"SYNCING"})
              \subseteq WithStatus(q, {"SYNCING"})
BY DEF SaveMutation, FreshRow, WithStatus, Queued, QueueOf

\* A claim makes SYNCING what it claims; a recovery leaves nothing SYNCING.
LEMMA ClaimIsSyncing ==
    ASSUME NEW Ts, NEW Rs, NEW Ms, NEW q \in QueueOf(Ts, Rs, Ms), NEW S \in SUBSET Queued(q)
    PROVE  WithStatus(MarkSyncing(q, S), {"SYNCING"}) \subseteq WithStatus(q, {"SYNCING"}) \cup S
BY DEF MarkSyncing, WithStatus, Queued, QueueOf, RowOf

LEMMA NothingSyncingRecovered ==
    ASSUME NEW Ts, NEW Rs, NEW Ms, NEW q \in QueueOf(Ts, Rs, Ms)
    PROVE  WithStatus(RecoverStuck(q), {"SYNCING"}) = {}
BY DEF RecoverStuck, WithStatus, Queued, QueueOf, RowOf
=============================================================================
