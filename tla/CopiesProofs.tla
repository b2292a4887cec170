---------------------------- MODULE CopiesProofs ----------------------------
(***************************************************************************)
(* The copies of a table follow the server: nothing that lies before the   *)
(* stored cursor is missing from memory or from the database.              *)
(***************************************************************************)
EXTENDS MergeProofs

\* The revisions are times, as tombstones and rows are compared with them; the
\* strategy does not keep what the server has replaced; and the server has an id
\* of its own for one record at most, so that an answer renames one.  The device's
\* clock may be behind the server's by any of ClockBehind, and by another at every
\* write, but never ahead: a row that is stored under a time the server has not
\* reached refuses what is pulled next.
Setting ==
    /\ Revisions = "clock"
    /\ Strategy # "client-wins"
    /\ \A x, y \in Ids : AssignedId[x] # x /\ AssignedId[y] # y => x = y
    /\ ClockAhead \subseteq {0}

\* The server knows a record under this id.
Final(id) == AssignedId[id] = id

\* An id that the server gives is its own.
LEMMA AssignedIsFinal ==
    ASSUME Setting, NEW id \in Ids
    PROVE  AssignedId[id] \in Ids /\ Final(AssignedId[id])
BY ReplicaAssumption DEF Setting, Final

----------------------------------------------------------------------------
(***************************************************************************)
(* The last change of a record                                             *)
(***************************************************************************)
\* The last change of a record is the greatest position that names it, or 0.
LEMMA LastChangeIs ==
    ASSUME NEW l, NEW id, NEW n \in Nat, NEW k, k = LastChange(l, id, n)
    PROVE  /\ k \in 0 .. n
           /\ k # 0 => l[k].id = id
           /\ \A j \in 1 .. n : l[j].id = id => j <= k
<1> DEFINE touching == {j \in 1 .. n : l[j].id = id}
<1>1. CASE touching = {}
  BY <1>1 DEF LastChange
<1>2. CASE touching # {}
  <2>1. touching \subseteq Nat /\ IsFiniteSet(touching)
    <3>1. touching \in SUBSET (1 .. n)
      OBVIOUS
    <3> HIDE DEF touching
    <3> QED BY <3>1, CountingSet
  <2>2. k = Latest(touching)
    BY <1>2 DEF LastChange, Latest
  <2>3. k \in touching /\ \A j \in touching : j <= k
    <3> HIDE DEF touching
    <3> QED BY <1>2, <2>1, <2>2, LatestIsGreatest
  <2> QED BY <2>3
<1> QED BY <1>1, <1>2

\* A change of the record after which there is no other is the last.
LEMMA IsLastChange ==
    ASSUME NEW l, NEW id, NEW n \in Nat, NEW k \in 0 .. n, k # 0 => l[k].id = id,
           \A j \in 1 .. n : l[j].id = id => j <= k
    PROVE  LastChange(l, id, n) = k
<1>1. PICK last : last = LastChange(l, id, n)
  OBVIOUS
<1>2. /\ last \in 0 .. n
      /\ last # 0 => l[last].id = id
      /\ \A j \in 1 .. n : l[j].id = id => j <= last
  BY <1>1, LastChangeIs
<1> QED BY <1>1, <1>2

\* A prefix of the log in which id has no change adds nothing.
LEMMA NoChangeBetween ==
    ASSUME NEW l, NEW id, NEW a \in Nat, NEW b \in Nat, a <= b,
           \A k \in a + 1 .. b : l[k].id # id
    PROVE  LastChange(l, id, b) = LastChange(l, id, a)
<1>1. PICK last : last = LastChange(l, id, a)
  OBVIOUS
<1>2. /\ last \in 0 .. a
      /\ last # 0 => l[last].id = id
      /\ \A j \in 1 .. a : l[j].id = id => j <= last
  BY <1>1, LastChangeIs
<1>3. last \in 0 .. b /\ \A j \in 1 .. b : l[j].id = id => j <= last
  <2>1. \A j \in 1 .. b : j \in 1 .. a \/ j \in a + 1 .. b
    OBVIOUS
  <2> QED BY <1>2, <2>1
<1> QED BY <1>1, <1>2, <1>3, IsLastChange

\* The last change among the first n depends on these only.
LEMMA LastChangeStays ==
    ASSUME NEW l, NEW longer, NEW id, NEW n \in Nat, \A k \in 1 .. n : longer[k] = l[k]
    PROVE  LastChange(longer, id, n) = LastChange(l, id, n)
<1>1. PICK last : last = LastChange(l, id, n)
  OBVIOUS
<1>2. /\ last \in 0 .. n
      /\ last # 0 => l[last].id = id
      /\ \A j \in 1 .. n : l[j].id = id => j <= last
  BY <1>1, LastChangeIs
<1>3. last # 0 => longer[last].id = id
  BY <1>2
<1>4. \A j \in 1 .. n : longer[j].id = id => j <= last
  BY <1>2
<1> QED BY <1>1, <1>2, <1>3, <1>4, IsLastChange

\* What the server shows is what its last change of the record left.
LEMMA ServerShowsLast ==
    ASSUME NEW id, NEW n, NEW k, k = LastChange(log, id, n)
    PROVE  /\ ServerShows(id, n) = IF k # 0 /\ ~log[k].deleted THEN log[k].value ELSE NoValue
           /\ \A m : LastChange(log, id, m) = k => ServerShows(id, m) = ServerShows(id, n)
BY DEF ServerShows, Exists

\* What the server showed after n changes it has shown then for ever.
LEMMA ServerShowsStays ==
    ASSUME NEW id, NEW n \in Nat, n <= Len(log), ServerOK, Extends(log', log)
    PROVE  ServerShows(id, n)' = ServerShows(id, n)
<1>1. \A k \in 1 .. n : log'[k] = log[k]
  BY LogTyped DEF Extends, ServerOK
<1>2. PICK k : k = LastChange(log, id, n)
  OBVIOUS
<1>3. LastChange(log', id, n) = k
  BY <1>1, <1>2, LastChangeStays
<1>4. k \in 0 .. n
  BY <1>2, LastChangeIs
<1>5. k # 0 => log'[k] = log[k]
  BY <1>1, <1>4
<1> QED BY <1>2, <1>3, <1>5 DEF ServerShows, Exists

----------------------------------------------------------------------------
(***************************************************************************)
(* How the log grows, and what happens to a queued mutation                *)
(***************************************************************************)
\* A change made by a mutation of rows that was not applied before.
MadeBy(change, rows) ==
    /\ change.value \in Mutations /\ rows[change.value] # NoRow
    /\ change.value \notin applied
    /\ change.id = AssignedId[rows[change.value].record]

\* The log gains one change for every mutation that is applied, and no others.
LEMMA HandlesAppends ==
    ASSUME Setting, ServerOK, LogInTime, NEW rows \in QueueType, NEW taken \in SUBSET Mutations,
           NEW refuse, Handles(rows, taken, refuse)
    PROVE  /\ \A k \in Len(log) + 1 .. Len(log') :
                 MadeBy(log'[k], rows) /\ log'[k].value \in taken /\ log'[k].revision > now
           /\ \A m \in taken : \E k \in Len(log) + 1 .. Len(log') : log'[k].value = m
<1>1. Cardinality(taken) \in Nat
  BY ReplicaAssumption, FS_Subset, FS_CardinalityType
<1> DEFINE n == Cardinality(taken)
<1>2. PICK order \in [1 .. n -> Mutations] :
          /\ InOrder(order, taken, rows)
          /\ log' = Appended(log, order, rows, AssignedId, now)
  BY DEF Handles
<1> HIDE DEF n
<1>3. n \in Nat
  BY <1>1 DEF n
<1> DEFINE change(k) == NewChange(AssignedId[rows[order[k]].record], order[k],
                                  rows[order[k]].operation = "DELETE", Revision(log, k, now))
           tail == [k \in 1 .. n |-> change(k)]
<1>4. Len(order) = n
  <2>1. order \in Seq(Mutations)
    BY <1>3, IsASeq
  <2>2. 1 .. Len(order) = 1 .. n /\ Len(order) \in Nat
    BY <2>1, LenProperties
  <2> QED BY <1>3, <2>2
<1>5. {order[k] : k \in 1 .. n} = taken /\ \A k \in 1 .. n : order[k] \in taken
  BY <1>2 DEF InOrder
<1>6. \A m \in taken : rows[m] # NoRow /\ m \notin applied
  BY DEF Handles
<1>7. ASSUME NEW k \in 1 .. n
      PROVE  change(k) \in ChangeOf(Ids, Values) /\ change(k).revision > now
  <2>1. rows[order[k]].record \in Ids
    BY <1>5, <1>6 DEF QueueType, QueueOf, RowOf
  <2>2. AssignedId[rows[order[k]].record] \in Ids /\ order[k] \in Values
    BY <2>1, ReplicaAssumption DEF Values
  <2>3. k \in Nat \ {0}
    OBVIOUS
  <2>4. Revision(log, k, now) \in Nat /\ Revision(log, k, now) = now + k
    BY <2>3, RevisionIsAhead DEF Setting
  <2> QED BY <2>2, <2>3, <2>4 DEF NewChange, ChangeOf, ServerOK
<1>8. tail \in LogType /\ Len(tail) = n
  <2>0. \A k \in 1 .. n : change(k) \in ChangeOf(Ids, Values)
    BY <1>7
  <2> HIDE DEF change
  <2>1. tail \in [1 .. n -> ChangeOf(Ids, Values)]
    BY <2>0
  <2>2. tail \in Seq(ChangeOf(Ids, Values))
    BY <1>3, <2>1, IsASeq
  <2>3. 1 .. Len(tail) = 1 .. n /\ Len(tail) \in Nat
    BY <2>2, LenProperties
  <2> QED BY <1>3, <2>2, <2>3 DEF LogType
<1>9. log' = log \o tail
  BY <1>2, <1>4 DEF Appended
<1>10. ASSUME NEW k \in 1 .. n
       PROVE  /\ tail[k].value = order[k] /\ tail[k].id = AssignedId[rows[order[k]].record]
              /\ tail[k].revision > now
  BY <1>7 DEF NewChange
<1> HIDE DEF tail
<1>11. Len(log) \in Nat /\ Len(log') = Len(log) + n
  BY <1>8, <1>9, LogTyped, ConcatProperties DEF LogType, ServerOK
<1>12. \A k \in Len(log) + 1 .. Len(log) + n : log'[k] = tail[k - Len(log)]
  <2>1. \A i \in 1 .. Len(log) + n : log'[i] = IF i <= Len(log) THEN log[i] ELSE tail[i - Len(log)]
    BY <1>8, <1>9, ConcatProperties DEF LogType, ServerOK
  <2> QED BY <1>3, <1>11, <2>1
<1>13. ASSUME NEW k \in Len(log) + 1 .. Len(log')
       PROVE  MadeBy(log'[k], rows) /\ log'[k].value \in taken /\ log'[k].revision > now
  <2>1. PICK j \in 1 .. n : log'[k] = tail[j]
    <3>1. k - Len(log) \in 1 .. n
      BY <1>3, <1>11
    <3> QED BY <1>11, <1>12, <3>1
  <2> QED BY <1>5, <1>6, <1>10, <2>1 DEF MadeBy
<1>14. ASSUME NEW m \in taken PROVE \E k \in Len(log) + 1 .. Len(log') : log'[k].value = m
  <2>1. PICK j \in 1 .. n : order[j] = m
    BY <1>5
  <2>2. Len(log) + j \in Len(log) + 1 .. Len(log')
    BY <1>3, <1>11
  <2>3. log'[Len(log) + j] = tail[j]
    BY <1>3, <1>11, <1>12, <2>2
  <2> QED BY <1>10, <2>1, <2>2, <2>3
<1> QED BY <1>13, <1>14

\* What the log gains is of now or later, under the server's ids, and of another
\* device or of mutations that were sent and not applied before.
LEMMA LogGains ==
    ASSUME Setting, IInv, LogInTime, [Next]_vars
    PROVE  /\ \A k \in Len(log) + 1 .. Len(log') :
                 /\ log'[k].revision > now /\ log'[k].id \in Ids /\ Final(log'[k].id)
                 /\ \/ log'[k].value = Foreign
                    \/ HandleSync /\ MadeBy(log'[k], claim)
                    \/ HandleLate /\ MadeBy(log'[k], late)
                 /\ log'[k].value \in applied' \cup {Foreign}
           /\ \A m \in applied' \ applied : \E k \in Len(log) + 1 .. Len(log') : log'[k].value = m
           /\ applied \subseteq applied' /\ refused \subseteq refused'
           /\ now <= now'
<1> USE DEF IInv
<1> DEFINE Goal == /\ \A k \in Len(log) + 1 .. Len(log') :
                         /\ log'[k].revision > now /\ log'[k].id \in Ids /\ Final(log'[k].id)
                         /\ \/ log'[k].value = Foreign
                            \/ HandleSync /\ MadeBy(log'[k], claim)
                            \/ HandleLate /\ MadeBy(log'[k], late)
                         /\ log'[k].value \in applied' \cup {Foreign}
                   /\ \A m \in applied' \ applied :
                         \E k \in Len(log) + 1 .. Len(log') : log'[k].value = m
                   /\ applied \subseteq applied' /\ refused \subseteq refused'
                   /\ now <= now'
<1>1. Len(log) \in Nat /\ now \in Nat
  BY LogTyped DEF ServerOK
<1>2. ASSUME NEW rows \in QueueType, NEW taken \in SUBSET Mutations, NEW refuse,
             Handles(rows, taken, refuse),
             \/ HandleSync /\ rows = claim
             \/ HandleLate /\ rows = late
      PROVE  Goal
  <2>1. /\ \A k \in Len(log) + 1 .. Len(log') :
              MadeBy(log'[k], rows) /\ log'[k].value \in taken /\ log'[k].revision > now
        /\ \A m \in taken : \E k \in Len(log) + 1 .. Len(log') : log'[k].value = m
    BY <1>2, HandlesAppends
  <2>2. /\ applied' = applied \cup taken /\ refused' = refused \cup refuse
        /\ now' = now + Cardinality(taken)
    BY <1>2 DEF Handles
  <2>3. now <= now'
    <3>1. Cardinality(taken) \in Nat
      BY ReplicaAssumption, FS_Subset, FS_CardinalityType
    <3> QED BY <1>1, <2>2, <3>1
  <2>4. ASSUME NEW k \in Len(log) + 1 .. Len(log') PROVE log'[k].id \in Ids /\ Final(log'[k].id)
    <3>1. MadeBy(log'[k], rows)
      BY <2>1
    <3>2. rows[log'[k].value].record \in Ids
      BY <3>1 DEF MadeBy, QueueType, QueueOf, RowOf
    <3> QED BY <3>1, <3>2, AssignedIsFinal DEF MadeBy
  <2> QED BY <1>2, <2>1, <2>2, <2>3, <2>4
<1>3. CASE HandleSync
  <2>1. PICK taken \in SUBSET Batch, refuse \in SUBSET Batch : Handles(claim, taken, refuse)
    BY <1>3 DEF HandleSync
  <2>2. taken \in SUBSET Mutations
    BY DEF Batch
  <2>3. claim \in QueueType
    BY DEF RowsOK
  <2> QED BY <1>2, <1>3, <2>1, <2>2, <2>3
<1>4. CASE HandleLate
  <2>1. PICK taken \in SUBSET Mutations : \E refuse \in SUBSET (Mutations \ taken) :
            Handles(late, taken, refuse)
    BY <1>4 DEF HandleLate
  <2> QED BY <1>2, <1>4, <2>1 DEF RowsOK
<1>5. ASSUME NEW id \in Ids, NEW deleted \in BOOLEAN, ForeignWrite(id, deleted) PROVE Goal
  <2> DEFINE change == NewChange(id, Foreign, deleted, Revision(log, 1, now))
  <2>1. Revision(log, 1, now) \in Nat /\ Revision(log, 1, now) > now
    BY <1>1, RevisionIsAhead DEF Setting
  <2>2. change \in ChangeOf(Ids, Values)
    BY <2>1 DEF NewChange, ChangeOf, Values
  <2>3. change.id = id /\ change.value = Foreign /\ change.revision > now
    BY <2>1 DEF NewChange
  <2> HIDE DEF change
  <2>4. log' = Append(log, change)
    BY <1>5 DEF ForeignWrite, change
  <2>5. Len(log') = Len(log) + 1 /\ log'[Len(log) + 1] = change
    BY <2>2, <2>4, AppendProperties DEF LogType, ServerOK
  <2>6. \A k \in Len(log) + 1 .. Len(log') : k = Len(log) + 1
    BY <1>1, <2>5
  <2>7. Final(id) /\ applied' = applied /\ refused' = refused /\ now' = now + 1
    BY <1>5 DEF ForeignWrite, Final
  <2> QED BY <1>1, <2>3, <2>5, <2>6, <2>7
<1>6. ASSUME log' = log, applied' = applied, refused' = refused, now <= now' PROVE Goal
  BY <1>1, <1>6
<1>7. ASSUME NEW m \in Mutations, NEW operation, NEW id, Mutate(m, operation, id) PROVE Goal
  <2>1. PICK tick \in Ticks : now' = now + tick
    BY <1>7 DEF Mutate
  <2>2. tick \in Nat
    BY ReplicaAssumption
  <2> QED BY <1>1, <1>6, <1>7, <2>1, <2>2 DEF Mutate, server
<1>8. CASE \/ \E m \in Mutations : UserRetries(m) \/ UserDiscards(m)
           \/ EnsureTable \/ SendRequest \/ RunStep \/ PrimaryKeyBreaks \/ TransportFails \/ StatementFails
           \/ Crash \/ Restart \/ UNCHANGED vars
  BY <1>1, <1>6, <1>8 DEF UserRetries, UserDiscards, EnsureTable, SendRequest, RunStep, RemapNext,
     Merge, Replace,
       SaveNext, BuryNext, Settle, Finish, PrimaryKeyBreaks, TransportFails, StatementFails, Crash,
       Restart, server, vars
<1> QED BY <1>3, <1>4, <1>5, <1>7, <1>8 DEF Next

\* A statement that leaves every mutation in the queue, with its record and its time.
Kept(r, q) ==
    \A n \in Mutations :
        /\ r[n] = NoRow <=> q[n] = NoRow
        /\ q[n] # NoRow => r[n].record = q[n].record /\ r[n].timestamp = q[n].timestamp

\* Rejecting and retrying a rejection keep the mutations.
LEMMA SetStatusKeeps ==
    ASSUME NEW q \in QueueType, NEW m \in Mutations
    PROVE  Kept(MarkRejected(q, m), q) /\ Kept(RetryRejected(q, m), q)
<1> DEFINE rejected == [q[m] EXCEPT !.status = "REJECTED"]
<1>1. ASSUME q[m] # NoRow
      PROVE  /\ rejected \in RowOf({Table}, Ids, Mutations)
             /\ rejected.record = q[m].record /\ rejected.timestamp = q[m].timestamp
             /\ Requeued(q[m]) \in RowOf({Table}, Ids, Mutations)
             /\ Requeued(q[m]).record = q[m].record /\ Requeued(q[m]).timestamp = q[m].timestamp
  <2>1. q[m] \in RowOf({Table}, Ids, Mutations)
    BY <1>1 DEF QueueType, QueueOf
  <2> QED BY <2>1 DEF RowOf, Requeued, MutationStatus
<1>2. /\ MarkRejected(q, m) = IF q[m] # NoRow THEN [q EXCEPT ![m] = rejected] ELSE q
      /\ RetryRejected(q, m) \in {q, [q EXCEPT ![m] = Requeued(q[m])]}
      /\ q[m] = NoRow => RetryRejected(q, m) = q
  BY DEF MarkRejected, RetryRejected, UpdateWhere
<1> HIDE DEF rejected
<1>3. Kept(q, q)
  BY DEF Kept
<1>4. ASSUME q[m] # NoRow, NEW row \in RowOf({Table}, Ids, Mutations), row.record = q[m].record,
             row.timestamp = q[m].timestamp
      PROVE  Kept([q EXCEPT ![m] = row], q)
  BY <1>4, NothingAssumption DEF Kept, QueueType, QueueOf
<1> QED BY <1>1, <1>2, <1>3, <1>4

\* Marking one mutation failed keeps them all, and changes no other.
LEMMA MarkFailedKeeps ==
    ASSUME NEW q \in QueueType, NEW m \in Mutations
    PROVE  /\ Kept(MarkFailed(q, m, 0), q)
           /\ \A n \in Mutations \ {m} : MarkFailed(q, m, 0)[n] = q[n]
           /\ q[m] # NoRow => MarkFailed(q, m, 0)[m].status = "FAILED"
           /\ q[m] = NoRow => MarkFailed(q, m, 0)[m] = NoRow
<1> DEFINE due == 0 + RetryDelay(q[m].retryCount)
           count == NextRetryCount(q[m].retryCount)
           row == [q[m] EXCEPT !.status = "FAILED", !.nextRetryAt = due, !.retryCount = count]
<1>1. MarkFailed(q, m, 0) = IF q[m] # NoRow THEN [q EXCEPT ![m] = row] ELSE q
  BY DEF MarkFailed, UpdateWhere
<1> HIDE DEF due, count
<1>2. q[m] # NoRow => /\ q[m] \in RowOf({Table}, Ids, Mutations)
  BY DEF QueueType, QueueOf
<1>3. ASSUME q[m] # NoRow
      PROVE  /\ DOMAIN row = DOMAIN q[m] /\ row.record = q[m].record
             /\ row.timestamp = q[m].timestamp /\ row.status = "FAILED"
  BY <1>2, <1>3 DEF RowOf
<1>4. q[m] # NoRow => row # NoRow
  <2>1. ASSUME q[m] # NoRow PROVE due \in Nat /\ count \in Nat
    <3>1. q[m].retryCount \in Nat
      BY <1>2, <2>1 DEF RowOf
    <3> QED BY <3>1, RetryDelayIsNat, ReplicaAssumption DEF due, count, NextRetryCount
  <2>2. q[m] # NoRow => row \in RowOf({Table}, Ids, Mutations)
    BY <1>2, <2>1, FailedRowType
  <2> QED BY <2>2, NothingAssumption
<1> HIDE DEF row
<1> QED BY <1>1, <1>3, <1>4 DEF Kept, QueueType, QueueOf

\* Marking what is unsettled failed keeps the mutations.
LEMMA FailAllKeeps ==
    ASSUME NEW q \in QueueType, NEW S \in SUBSET Mutations
    PROVE  /\ Kept(FailAll(q, S), q)
           /\ \A n \in Mutations : FailAll(q, S)[n] # NoRow /\ FailAll(q, S)[n].status # "FAILED"
                 => FailAll(q, S)[n] = q[n]
<1>1. \A n \in Mutations : FailAll(q, S)[n] = IF n \in S THEN MarkFailed(q, n, 0)[n] ELSE q[n]
  BY DEF FailAll, QueueType, QueueOf
<1> QED BY <1>1, MarkFailedKeeps DEF Kept

\* The recovery at the start keeps the mutations.
LEMMA RecoverStuckKeeps ==
    ASSUME NEW q \in QueueType
    PROVE  /\ Kept(RecoverStuck(q), q)
           /\ \A n \in Mutations : RecoverStuck(q)[n] # NoRow /\ RecoverStuck(q)[n].status # "PENDING"
                 => RecoverStuck(q)[n] = q[n]
<1>1. ASSUME NEW n \in Mutations, q[n] # NoRow
      PROVE  /\ [q[n] EXCEPT !.status = "PENDING"] \in RowOf({Table}, Ids, Mutations)
             /\ [q[n] EXCEPT !.status = "PENDING"].record = q[n].record
             /\ [q[n] EXCEPT !.status = "PENDING"].timestamp = q[n].timestamp
             /\ [q[n] EXCEPT !.status = "PENDING"].status = "PENDING"
  BY <1>1 DEF QueueType, QueueOf, RowOf, MutationStatus
<1>2. ASSUME NEW n \in Mutations
      PROVE  \/ RecoverStuck(q)[n] = q[n]
             \/ q[n] # NoRow /\ RecoverStuck(q)[n] = [q[n] EXCEPT !.status = "PENDING"]
  BY DEF RecoverStuck, WithStatus, Queued, QueueType, QueueOf
<1> QED BY <1>1, <1>2, NothingAssumption DEF Kept

\* The claim keeps the mutations.
LEMMA MarkSyncingKeeps ==
    ASSUME NEW q \in QueueType, NEW S \in SUBSET Queued(q)
    PROVE  /\ Kept(MarkSyncing(q, S), q)
           /\ \A n \in S : MarkSyncing(q, S)[n].status = "SYNCING"
           /\ \A n \in Mutations \ S : MarkSyncing(q, S)[n] = q[n]
<1>1. ASSUME NEW n \in Mutations, q[n] # NoRow
      PROVE  /\ [q[n] EXCEPT !.status = "SYNCING"] \in RowOf({Table}, Ids, Mutations)
             /\ [q[n] EXCEPT !.status = "SYNCING"].record = q[n].record
             /\ [q[n] EXCEPT !.status = "SYNCING"].timestamp = q[n].timestamp
             /\ [q[n] EXCEPT !.status = "SYNCING"].status = "SYNCING"
  BY <1>1 DEF QueueType, QueueOf, RowOf, MutationStatus
<1>2. ASSUME NEW n \in Mutations
      PROVE  MarkSyncing(q, S)[n] = IF n \in S THEN [q[n] EXCEPT !.status = "SYNCING"] ELSE q[n]
  BY DEF MarkSyncing, QueueType, QueueOf
<1>3. S \subseteq Mutations /\ \A n \in S : q[n] # NoRow
  BY DEF Queued, QueueType, QueueOf
<1> QED BY <1>1, <1>2, <1>3, NothingAssumption DEF Kept

\* What can happen to a mutation in the queue: it takes the new id of its record, it
\* is removed when it is acknowledged or discarded; a new one comes from mutate.
LEMMA QueueMoves ==
    ASSUME IInv, [Next]_vars, NEW m \in Mutations
    PROVE  /\ queue[m] # NoRow /\ queue'[m] # NoRow =>
                /\ queue'[m].timestamp = queue[m].timestamp
                /\ \/ queue'[m].record = queue[m].record
                   \/ /\ RemapNext /\ queue[m].record \in todo.rename
                      /\ queue'[m].record = AssignedId[queue[m].record]
           /\ queue[m] = NoRow /\ queue'[m] # NoRow =>
                \E operation \in Operations, id \in Ids : Mutate(m, operation, id)
           /\ queue[m] # NoRow /\ queue'[m] = NoRow =>
                UserDiscards(m) \/ (Settle /\ m \in unacked /\ m \in reply.ack)
           /\ queue'[m] # NoRow /\ queue'[m].status = "REJECTED" =>
                \/ queue[m] # NoRow /\ queue[m].status = "REJECTED"
                \/ Settle /\ m \in reply.reject
<1> DEFINE Same == /\ queue[m] # NoRow /\ queue'[m] # NoRow =>
                         /\ queue'[m].timestamp = queue[m].timestamp
                         /\ \/ queue'[m].record = queue[m].record
                            \/ /\ RemapNext /\ queue[m].record \in todo.rename
                               /\ queue'[m].record = AssignedId[queue[m].record]
           Comes == queue[m] = NoRow /\ queue'[m] # NoRow =>
                      \E operation \in Operations, id \in Ids : Mutate(m, operation, id)
           Goes == queue[m] # NoRow /\ queue'[m] = NoRow =>
                      UserDiscards(m) \/ (Settle /\ m \in unacked /\ m \in reply.ack)
           Rejected == queue'[m] # NoRow /\ queue'[m].status = "REJECTED" =>
                      \/ queue[m] # NoRow /\ queue[m].status = "REJECTED"
                      \/ Settle /\ m \in reply.reject
           Goal == Same /\ Comes /\ Goes /\ Rejected
<1> USE DEF IInv
<1>0. queue \in QueueType /\ unacked \in SUBSET Mutations
  BY DEF RowsOK
<1>1. ASSUME Kept(queue', queue),
             queue'[m] # NoRow /\ queue'[m].status = "REJECTED" =>
                (queue[m].status = "REJECTED" \/ (Settle /\ m \in reply.reject))
      PROVE  Goal
  BY <1>1 DEF Kept
<1>2. ASSUME queue'[m] = queue[m] PROVE Goal
  BY <1>2
<1>3. ASSUME NEW n \in Mutations, NEW operation \in Operations, NEW id \in Ids,
             Mutate(n, operation, id)
      PROVE  Goal
  <2>1. PICK time : /\ queue[n] = NoRow
                    /\ queue' = [queue EXCEPT ![n] = FreshRow(Draft(operation, id), time)]
    BY <1>3 DEF Mutate, SaveMutation
  <2>2. CASE n = m
    <3>1. queue'[m].status = "PENDING"
      BY <1>0, <2>1, <2>2 DEF FreshRow, QueueType, QueueOf
    <3> QED BY <1>3, <2>1, <2>2, <3>1
  <2>3. CASE n # m
    BY <1>0, <1>2, <2>1, <2>3 DEF QueueType, QueueOf
  <2> QED BY <2>2, <2>3
<1>4. ASSUME NEW n \in Mutations, UserRetries(n) PROVE Goal
  <2>1. queue' = RetryRejected(queue, n)
    BY <1>4 DEF UserRetries
  <2>2. Kept(queue', queue)
    BY <1>0, <2>1, SetStatusKeeps
  <2>3. queue'[m] # NoRow /\ queue'[m].status = "REJECTED" => queue[m].status = "REJECTED"
    BY <1>0, <2>1 DEF RetryRejected, Requeued, UpdateWhere, QueueType, QueueOf, RowOf
  <2> QED BY <1>1, <2>2, <2>3
<1>5. ASSUME NEW n \in Mutations, UserDiscards(n) PROVE Goal
  <2>1. queue' \in {queue, [queue EXCEPT ![n] = NoRow]}
    BY <1>5 DEF UserDiscards, DiscardRejected, UpdateWhere
  <2>2. CASE n = m
    BY <1>0, <1>2, <1>5, <2>1, <2>2 DEF QueueType, QueueOf
  <2>3. CASE n # m
    BY <1>0, <1>2, <2>1, <2>3 DEF QueueType, QueueOf
  <2> QED BY <2>2, <2>3
<1>6. CASE SendRequest
  <2>1. PICK due \in SUBSET Due(queue, RetryDelay(RetryCap), {Table}) :
            queue' = MarkSyncing(queue, due)
    BY <1>6 DEF SendRequest
  <2>2. due \in SUBSET Queued(queue)
    BY DEF Due, WithStatus
  <2>3. /\ Kept(queue', queue) /\ \A n \in due : queue'[n].status = "SYNCING"
        /\ \A n \in Mutations \ due : queue'[n] = queue[n]
    BY <1>0, <2>1, <2>2, MarkSyncingKeeps
  <2> QED BY <1>1, <2>3
<1>7. CASE PrimaryKeyBreaks \/ TransportFails \/ StatementFails
  <2>1. queue' = FailAll(queue, unacked)
    BY <1>7 DEF PrimaryKeyBreaks, TransportFails, StatementFails, Throw
  <2>2. /\ Kept(queue', queue)
        /\ queue'[m] # NoRow /\ queue'[m].status # "FAILED" => queue'[m] = queue[m]
    BY <1>0, <2>1, FailAllKeeps
  <2> QED BY <1>1, <2>2
<1>8. CASE Restart
  <2>1. queue' = RecoverStuck(queue)
    BY <1>8 DEF Restart
  <2>2. /\ Kept(queue', queue)
        /\ queue'[m] # NoRow /\ queue'[m].status # "PENDING" => queue'[m] = queue[m]
    BY <1>0, <2>1, RecoverStuckKeeps
  <2> QED BY <1>1, <2>2
<1>9. CASE RemapNext
  <2>1. PICK from \in todo.rename : queue' = RemapQueue(queue, Table, from, AssignedId[from])
    BY <1>9 DEF RemapNext
  <2>2. CASE queue[m] # NoRow /\ queue[m].table = Table /\ queue[m].record = from
    <3>1. queue'[m] = [queue[m] EXCEPT !.record = AssignedId[from]]
      BY <1>0, <2>1, <2>2 DEF RemapQueue, Queued, QueueType, QueueOf
    <3>2. queue[m] \in RowOf({Table}, Ids, Mutations)
      BY <1>0, <2>2 DEF QueueType, QueueOf
    <3>3. /\ queue'[m].record = AssignedId[from] /\ queue'[m].timestamp = queue[m].timestamp
          /\ queue'[m].status = queue[m].status
      BY <3>1, <3>2 DEF RowOf
    <3>4. queue'[m] # NoRow
      <4>1. AssignedId[from] \in Ids
        BY ReplicaAssumption DEF AnswerOK
      <4>2. queue'[m] \in RowOf({Table}, Ids, Mutations)
        BY <3>1, <3>2, <4>1 DEF RowOf
      <4> QED BY <4>2, NothingAssumption
    <3> QED BY <1>9, <2>2, <3>3, <3>4
  <2>3. CASE ~(queue[m] # NoRow /\ queue[m].table = Table /\ queue[m].record = from)
    <3>1. queue'[m] = queue[m]
      BY <1>0, <2>1, <2>3 DEF RemapQueue, Queued, QueueType, QueueOf
    <3> QED BY <1>2, <3>1
  <2> QED BY <2>2, <2>3
<1>10. CASE Settle
  <2>1. PICK n \in unacked :
            \/ n \in reply.ack /\ Acknowledge(n)
            \/ queue' = MarkFailed(queue, n, 0)
            \/ n \in reply.reject /\ queue' = MarkRejected(queue, n)
    BY <1>10 DEF Settle
  <2>2. CASE n \in reply.ack /\ Acknowledge(n)
    <3>1. queue' \in {queue, [queue EXCEPT ![n] = NoRow]}
      BY <2>2 DEF Acknowledge, RemoveMutation, UpdateWhere
    <3>2. CASE n = m
      BY <1>0, <1>2, <1>10, <2>2, <3>1, <3>2 DEF QueueType, QueueOf
    <3>3. CASE n # m
      BY <1>0, <1>2, <3>1, <3>3 DEF QueueType, QueueOf
    <3> QED BY <3>2, <3>3
  <2>3. CASE queue' = MarkFailed(queue, n, 0)
    <3>1. /\ Kept(queue', queue)
          /\ \A i \in Mutations \ {n} : queue'[i] = queue[i]
          /\ queue[n] # NoRow => queue'[n].status = "FAILED"
          /\ queue[n] = NoRow => queue'[n] = NoRow
      BY <1>0, <2>3, MarkFailedKeeps
    <3> QED BY <1>1, <3>1
  <2>4. CASE n \in reply.reject /\ queue' = MarkRejected(queue, n)
    <3>1. Kept(queue', queue)
      BY <1>0, <2>4, SetStatusKeeps
    <3>2. n # m => queue'[m] = queue[m]
      BY <1>0, <2>4 DEF MarkRejected, UpdateWhere, QueueType, QueueOf
    <3> QED BY <1>1, <1>10, <2>4, <3>1, <3>2
  <2> QED BY <2>1, <2>2, <2>3, <2>4
<1>11. CASE \/ \E id \in Ids, deleted \in BOOLEAN : ForeignWrite(id, deleted)
            \/ EnsureTable \/ HandleSync \/ HandleLate \/ Crash \/ Merge \/ Replace
            \/ SaveNext \/ BuryNext \/ Finish \/ UNCHANGED vars
  <2>1. queue' = queue
    BY <1>11 DEF ForeignWrite, EnsureTable, HandleSync, HandleLate, Crash, Merge, Replace, SaveNext,
       BuryNext, Finish, durable, vars
  <2> QED BY <1>2, <2>1
<1> QED BY <1>3, <1>4, <1>5, <1>6, <1>7, <1>8, <1>9, <1>10, <1>11 DEF Next, RunStep

----------------------------------------------------------------------------
(***************************************************************************)
(* A mutation keeps its identity in the queue, on its way and in the log   *)
(***************************************************************************)
\* The answer is there.
Answered == stage \in {"answered", "renaming", "storing"}

\* The first n changes have one that m made.
InLog(m, n) == \E k \in 1 .. n : log[k].value = m

\* What was sent is still queued, or the server knows it; what is settled for good
\* is known to the server.
Named ==
    /\ \A m \in Mutations :
          /\ claim[m] # NoRow \/ late[m] # NoRow => queue[m] # NoRow \/ m \in applied \cup refused
          /\ queue[m] # NoRow /\ queue[m].status = "REJECTED" => m \in refused
          /\ m \in applied <=> InLog(m, Len(log))
    /\ reply.ack \subseteq applied /\ reply.reject \subseteq refused

\* Wherever a queued mutation is met, it is of the same record, under the old id or
\* the new one.
SameMutation ==
    /\ \A m \in Mutations : queue[m] # NoRow =>
          /\ claim[m] # NoRow =>
                /\ AssignedId[claim[m].record] = AssignedId[queue[m].record]
                /\ Final(queue[m].record) \/ claim[m].record = queue[m].record
          /\ late[m] # NoRow => AssignedId[late[m].record] = AssignedId[queue[m].record]
          /\ \A k \in 1 .. Len(log) : log[k].value = m => log[k].id = AssignedId[queue[m].record]
    /\ \A k \in 1 .. Len(log) : Final(log[k].id)

\* How a run goes on.
LEMMA RunMoves ==
    ASSUME [Next]_vars
    PROVE  \/ HandleSync
           \/ /\ EndRun
              /\ PrimaryKeyBreaks \/ TransportFails \/ StatementFails \/ Crash \/ Finish
           \/ SendRequest
           \/ /\ claim' = claim /\ reply' = reply
              /\ stage' = stage \/ RemapNext \/ Merge \/ Replace
<1>1. CASE PrimaryKeyBreaks \/ TransportFails \/ StatementFails \/ Crash \/ Finish
  BY <1>1 DEF PrimaryKeyBreaks, TransportFails, StatementFails, Crash, Finish, Throw
<1>2. CASE \/ \E m \in Mutations, operation \in Operations, id \in Ids : Mutate(m, operation, id)
           \/ \E m \in Mutations : UserRetries(m) \/ UserDiscards(m)
           \/ \E id \in Ids, deleted \in BOOLEAN : ForeignWrite(id, deleted)
           \/ EnsureTable \/ HandleLate \/ Restart \/ RemapNext \/ Merge \/ Replace \/ SaveNext
           \/ BuryNext \/ Settle \/ UNCHANGED vars
  BY <1>2 DEF Mutate, UserRetries, UserDiscards, ForeignWrite, EnsureTable, HandleLate, Restart,
     RemapNext,
     Merge, Replace, SaveNext, BuryNext, Settle, run, vars
<1> QED BY <1>1, <1>2 DEF Next, RunStep

\* A clock that is never ahead shows the server's time or an earlier one.
LEMMA ReadingsAreBehind ==
    ASSUME Setting, NEW t \in Nat, NEW time \in Readings(t)
    PROVE  time \in Nat /\ time <= t
<1>1. CASE time \in {t + d : d \in ClockAhead}
  BY <1>1 DEF Setting
<1>2. CASE time \in {t - d : d \in {e \in ClockBehind : e <= t}}
  <2>1. PICK d \in ClockBehind : d <= t /\ time = t - d
    BY <1>2
  <2>2. d \in Nat
    BY ReplicaAssumption
  <2> QED BY <2>1, <2>2
<1> QED BY <1>1, <1>2 DEF Readings

\* A local write is stamped with one time, which is now or earlier.
LEMMA MutateStamps ==
    ASSUME Setting, IInv, [Next]_vars, NEW m \in Mutations, NEW operation \in Operations,
           NEW id \in Ids, Mutate(m, operation, id)
    PROVE  \E time \in Nat :
              /\ time <= now'
              /\ queue' = [queue EXCEPT ![m] = FreshRow(Draft(operation, id), time)]
              /\ FreshRow(Draft(operation, id), time) # NoRow
              /\ cells' = IF operation = "DELETE" THEN RemoveRecord(cells, Table, id, time)
                          ELSE SaveRecord(cells, Table, id, Written(m, operation, id), time)
<1>1. now' \in Nat
  BY LogGrows DEF IInv
<1>2. PICK time \in Readings(now') :
          /\ queue' = SaveMutation(queue, m, FreshRow(Draft(operation, id), time))
          /\ cells' = IF operation = "DELETE" THEN RemoveRecord(cells, Table, id, time)
                      ELSE SaveRecord(cells, Table, id, Written(m, operation, id), time)
  BY DEF Mutate
<1>3. time \in Nat /\ time <= now'
  BY <1>1, <1>2, ReadingsAreBehind
<1>4. FreshRow(Draft(operation, id), time) # NoRow
  <2>1. FreshRow(Draft(operation, id), time) \in RowOf({Table}, Ids, Mutations)
    BY <1>3, DraftRowType
  <2> QED BY <2>1, NothingAssumption
<1>5. queue[m] = NoRow
  BY DEF Mutate
<1> QED BY <1>2, <1>3, <1>4, <1>5 DEF SaveMutation

\* What is claimed was queued, and what may arrive late was claimed.
LEMMA ClaimMoves ==
    ASSUME IInv, [Next]_vars, NEW m \in Mutations
    PROVE  /\ claim'[m] # NoRow =>
                \/ claim'[m] = claim[m]
                \/ SendRequest /\ claim'[m] = queue[m]
           /\ late'[m] # NoRow => late'[m] = late[m] \/ late'[m] = claim[m]
<1>1. claim'[m] # NoRow => claim'[m] = claim[m] \/ (SendRequest /\ claim'[m] = queue[m])
  <2>1. CASE HandleSync
    BY <2>1 DEF HandleSync
  <2>2. CASE EndRun
    BY <2>2 DEF EndRun, NoRows
  <2>3. CASE SendRequest
    BY <2>3 DEF SendRequest
  <2>4. CASE claim' = claim
    BY <2>4
  <2> QED BY <2>1, <2>2, <2>3, <2>4, RunMoves
<1>2. late'[m] # NoRow => late'[m] = late[m] \/ late'[m] = claim[m]
  <2>1. CASE HandleLate
    BY <2>1 DEF HandleLate, NoRows
  <2>2. CASE ~HandleLate
    <3>1. late' = late \/ late' = claim
      BY <2>2 DEF Next, RunStep, Mutate, UserRetries, UserDiscards, EnsureTable, SendRequest,
         HandleSync,
         ForeignWrite, RemapNext, Merge, Replace, SaveNext, BuryNext, Settle, Finish,
         PrimaryKeyBreaks, TransportFails, StatementFails, Crash, Restart, vars
    <3> QED BY <3>1
  <2> QED BY <2>1, <2>2
<1> QED BY <1>1, <1>2

\* The log never loses a change.
LEMMA InLogStays ==
    ASSUME ServerOK, Extends(log', log), NEW n \in Nat, n <= Len(log), NEW m
    PROVE  InLog(m, n)' <=> InLog(m, n)
<1>1. \A k \in 1 .. n : log'[k] = log[k]
  BY LogTyped DEF Extends, ServerOK
<1> QED BY <1>1 DEF InLog

\* Named is inductive: an acknowledged mutation is applied, a rejected one refused.
LEMMA NamedStays ==
    ASSUME Setting, IInv, LogInTime, Named, [Next]_vars
    PROVE  Named'
<1> USE DEF IInv
<1>1. Extends(log', log) /\ Len(log) \in Nat /\ Len(log') \in Nat /\ Len(log) <= Len(log')
  BY LogGrows, LogTyped, LenProperties DEF Extends, ServerOK, LogType
<1>2. /\ applied \subseteq applied' /\ refused \subseteq refused'
      /\ \A k \in Len(log) + 1 .. Len(log') : log'[k].value \in applied' \cup {Foreign}
      /\ \A m \in applied' \ applied : \E k \in Len(log) + 1 .. Len(log') : log'[k].value = m
  BY LogGains
<1>3. ASSUME NEW m \in Mutations PROVE m \in applied' <=> InLog(m, Len(log))'
  <2>1. ASSUME m \in applied' PROVE InLog(m, Len(log))'
    <3>1. CASE m \in applied
      <4>1. PICK k \in 1 .. Len(log) : log[k].value = m
        BY <3>1 DEF Named, InLog
      <4>2. k \in 1 .. Len(log') /\ log'[k] = log[k]
        BY <1>1, <4>1 DEF Extends
      <4> QED BY <4>1, <4>2 DEF InLog
    <3>2. CASE m \notin applied
      <4>1. PICK k \in Len(log) + 1 .. Len(log') : log'[k].value = m
        BY <1>2, <2>1, <3>2
      <4>2. k \in 1 .. Len(log')
        BY <1>1
      <4> QED BY <4>1, <4>2 DEF InLog
    <3> QED BY <3>1, <3>2
  <2>2. ASSUME InLog(m, Len(log))' PROVE m \in applied'
    <3>1. PICK k \in 1 .. Len(log') : log'[k].value = m
      BY <2>2 DEF InLog
    <3>2. CASE k \in 1 .. Len(log)
      BY <1>1, <1>2, <3>1, <3>2 DEF Named, InLog, Extends
    <3>3. CASE k \notin 1 .. Len(log)
      <4>1. k \in Len(log) + 1 .. Len(log')
        BY <1>1, <3>3
      <4> QED BY <1>2, <3>1, <4>1, ReplicaAssumption
    <3> QED BY <3>2, <3>3
  <2> QED BY <2>1, <2>2
<1>4. ASSUME NEW m \in Mutations, queue[m] # NoRow, queue'[m] = NoRow
      PROVE  m \in applied \cup refused
  <2>1. CASE UserDiscards(m)
    BY <2>1 DEF UserDiscards, WithStatus, Queued, Named
  <2>2. CASE Settle /\ m \in unacked /\ m \in reply.ack
    BY <2>2 DEF Named
  <2> QED BY <1>4, <2>1, <2>2, QueueMoves
<1>5. ASSUME NEW m \in Mutations, claim'[m] # NoRow \/ late'[m] # NoRow
      PROVE  queue'[m] # NoRow \/ m \in applied' \cup refused'
  <2>1. \/ claim[m] # NoRow \/ late[m] # NoRow \/ queue[m] # NoRow
    BY <1>5, ClaimMoves
  <2>2. queue[m] # NoRow \/ m \in applied \cup refused
    BY <2>1 DEF Named
  <2> QED BY <1>2, <1>4, <2>2
<1>6. ASSUME NEW m \in Mutations, queue'[m] # NoRow, queue'[m].status = "REJECTED"
      PROVE  m \in refused'
  <2>1. \/ queue[m] # NoRow /\ queue[m].status = "REJECTED"
        \/ m \in reply.reject
    BY <1>6, QueueMoves
  <2> QED BY <1>2, <2>1 DEF Named
<1>7. reply'.ack \subseteq applied' /\ reply'.reject \subseteq refused'
  <2>1. CASE HandleSync
    <3>1. PICK drop \in SUBSET Batch, reset \in BOOLEAN, graves \in BOOLEAN : Answers(drop, reset, graves)
      BY <2>1 DEF HandleSync
    <3> QED BY <3>1 DEF Answers
  <2>2. CASE EndRun
    BY <2>2 DEF EndRun, NoReply
  <2>3. CASE SendRequest
    BY <1>2, <2>3 DEF SendRequest, Named
  <2>4. CASE reply' = reply
    BY <1>2, <2>4 DEF Named
  <2> QED BY <2>1, <2>2, <2>3, <2>4, RunMoves
<1> QED BY <1>3, <1>5, <1>6, <1>7 DEF Named

\* SameMutation is inductive: a rename moves what is queued to the id that the log uses.
LEMMA SameMutationStays ==
    ASSUME Setting, IInv, LogInTime, Named, SameMutation, [Next]_vars
    PROVE  SameMutation'
<1> USE DEF IInv
<1>1. Extends(log', log) /\ Len(log) \in Nat /\ Len(log') \in Nat /\ Len(log) <= Len(log')
  BY LogGrows, LogTyped, LenProperties DEF Extends, ServerOK, LogType
<1>2. \A k \in Len(log) + 1 .. Len(log') :
         /\ Final(log'[k].id)
         /\ \/ log'[k].value = Foreign
            \/ HandleSync /\ MadeBy(log'[k], claim)
            \/ HandleLate /\ MadeBy(log'[k], late)
  BY LogGains
<1>3. \A k \in 1 .. Len(log') :
         (k \in 1 .. Len(log) /\ log'[k] = log[k]) \/ k \in Len(log) + 1 .. Len(log')
  <2>1. \A k \in 1 .. Len(log') : k \in 1 .. Len(log) \/ k \in Len(log) + 1 .. Len(log')
    BY <1>1
  <2> QED BY <1>1, <2>1 DEF Extends
<1>4. \A k \in 1 .. Len(log') : Final(log'[k].id)
  BY <1>2, <1>3 DEF SameMutation
<1>5. ASSUME NEW m \in Mutations, queue'[m] # NoRow
      PROVE  /\ claim'[m] # NoRow =>
                   /\ AssignedId[claim'[m].record] = AssignedId[queue'[m].record]
                   /\ Final(queue'[m].record) \/ claim'[m].record = queue'[m].record
             /\ late'[m] # NoRow => AssignedId[late'[m].record] = AssignedId[queue'[m].record]
             /\ \A k \in 1 .. Len(log') :
                   log'[k].value = m => log'[k].id = AssignedId[queue'[m].record]
  <2>1. CASE queue[m] = NoRow
    <3>1. PICK operation \in Operations, id \in Ids : Mutate(m, operation, id)
      BY <1>5, <2>1, QueueMoves
    <3>2. claim' = claim /\ late' = late /\ log' = log /\ m \notin applied \cup refused
      BY <3>1 DEF Mutate, run, server
    <3>3. claim[m] = NoRow /\ late[m] = NoRow /\ ~InLog(m, Len(log))
      BY <2>1, <3>2 DEF Named
    <3> QED BY <3>2, <3>3 DEF InLog
  <2>2. CASE queue[m] # NoRow
    <3>1. queue[m].record \in Ids
      BY <2>2 DEF RowsOK, QueueType, QueueOf, RowOf
    <3>2. \/ queue'[m].record = queue[m].record
          \/ queue'[m].record = AssignedId[queue[m].record] /\ RemapNext
      BY <1>5, <2>2, QueueMoves
    <3>3. /\ AssignedId[queue'[m].record] = AssignedId[queue[m].record]
          /\ Final(queue'[m].record) \/ queue'[m].record = queue[m].record
      BY <3>1, <3>2, AssignedIsFinal DEF Final
    <3>4. claim'[m] # NoRow => claim'[m] = claim[m] \/ (SendRequest /\ claim'[m] = queue[m])
      BY ClaimMoves
    <3>5. late'[m] # NoRow => late'[m] = late[m] \/ late'[m] = claim[m]
      BY ClaimMoves
    <3>6. /\ claim[m] # NoRow =>
                /\ AssignedId[claim[m].record] = AssignedId[queue[m].record]
                /\ Final(queue[m].record) \/ claim[m].record = queue[m].record
          /\ late[m] # NoRow => AssignedId[late[m].record] = AssignedId[queue[m].record]
          /\ \A k \in 1 .. Len(log) : log[k].value = m => log[k].id = AssignedId[queue[m].record]
      BY <2>2 DEF SameMutation
    <3>7. ASSUME NEW k \in 1 .. Len(log'), log'[k].value = m
          PROVE  log'[k].id = AssignedId[queue[m].record]
      <4>1. CASE k \in 1 .. Len(log) /\ log'[k] = log[k]
        BY <3>6, <3>7, <4>1
      <4>2. CASE k \in Len(log) + 1 .. Len(log')
        <5>1. MadeBy(log'[k], claim) \/ MadeBy(log'[k], late)
          BY <1>2, <3>7, <4>2, ReplicaAssumption
        <5> QED BY <3>6, <3>7, <5>1 DEF MadeBy
      <4> QED BY <1>3, <4>1, <4>2
    <3>8. claim'[m] # NoRow =>
             /\ AssignedId[claim'[m].record] = AssignedId[queue'[m].record]
             /\ Final(queue'[m].record) \/ claim'[m].record = queue'[m].record
      BY <3>3, <3>4, <3>6 DEF Final
    <3>9. late'[m] # NoRow => AssignedId[late'[m].record] = AssignedId[queue'[m].record]
      BY <3>3, <3>5, <3>6
    <3> QED BY <3>3, <3>7, <3>8, <3>9
  <2> QED BY <2>1, <2>2
<1> QED BY <1>4, <1>5 DEF SameMutation

\* When the status of a queued mutation changes.
LEMMA StatusMoves ==
    ASSUME IInv, [Next]_vars, NEW m \in Mutations, queue[m] # NoRow, queue'[m] # NoRow
    PROVE  \/ queue'[m].status = queue[m].status
           \/ queue[m].status = "REJECTED" /\ UserRetries(m)
           \/ SendRequest \/ EndRun \/ Restart
           \/ Settle /\ m \in unacked
<1>0. queue \in QueueType /\ unacked \in SUBSET Mutations
  BY DEF IInv, RowsOK
<1>1. ASSUME NEW n \in Mutations, NEW operation \in Operations, NEW id \in Ids,
             Mutate(n, operation, id)
      PROVE  queue'[m] = queue[m]
  BY <1>0, <1>1 DEF Mutate, SaveMutation, QueueType, QueueOf
<1>2. ASSUME NEW n \in Mutations, UserRetries(n) \/ UserDiscards(n)
      PROVE  queue'[m] = queue[m] \/ (queue[m].status = "REJECTED" /\ UserRetries(m))
  <2>1. \/ UserRetries(n) /\ queue' \in {queue, [queue EXCEPT ![n] = Requeued(queue[n])]}
        \/ queue' \in {queue, [queue EXCEPT ![n] = NoRow]}
    BY <1>2 DEF UserRetries, UserDiscards, RetryRejected, DiscardRejected, UpdateWhere
  <2>2. UserRetries(n) => queue[n].status = "REJECTED"
    BY DEF UserRetries, WithStatus
  <2>3. CASE n = m
    BY <1>0, <2>1, <2>2, <2>3 DEF QueueType, QueueOf
  <2>4. CASE n # m
    BY <1>0, <2>1, <2>4 DEF QueueType, QueueOf
  <2> QED BY <2>3, <2>4
<1>3. CASE RemapNext
  <2>1. PICK from \in todo.rename : queue' = RemapQueue(queue, Table, from, AssignedId[from])
    BY <1>3 DEF RemapNext
  <2>2. queue[m] \in RowOf({Table}, Ids, Mutations)
    BY <1>0 DEF QueueType, QueueOf
  <2>3. queue'[m] \in {queue[m], [queue[m] EXCEPT !.record = AssignedId[from]]}
    BY <1>0, <2>1 DEF RemapQueue, QueueType, QueueOf
  <2> QED BY <2>2, <2>3 DEF RowOf
<1>4. CASE Settle
  <2>1. PICK n \in unacked :
            Acknowledge(n) \/ queue' \in {MarkFailed(queue, n, 0), MarkRejected(queue, n)}
    BY <1>4 DEF Settle
  <2>2. CASE n = m
    BY <1>4, <2>2
  <2>3. CASE n # m
    <3>1. Acknowledge(n) => queue'[m] = queue[m]
      BY <1>0, <2>3 DEF Acknowledge, RemoveMutation, UpdateWhere, QueueType, QueueOf
    <3>2. MarkFailed(queue, n, 0)[m] = queue[m] /\ MarkRejected(queue, n)[m] = queue[m]
      BY <1>0, <2>3 DEF MarkFailed, MarkRejected, UpdateWhere, QueueType, QueueOf
    <3> QED BY <2>1, <3>1, <3>2
  <2> QED BY <2>2, <2>3
<1>5. CASE PrimaryKeyBreaks \/ TransportFails \/ StatementFails \/ Crash \/ Finish
  BY <1>5 DEF PrimaryKeyBreaks, TransportFails, StatementFails, Crash, Finish, Throw
<1>6. CASE \/ \E id \in Ids, deleted \in BOOLEAN : ForeignWrite(id, deleted)
           \/ EnsureTable \/ HandleSync \/ HandleLate \/ Merge \/ Replace \/ SaveNext
           \/ BuryNext \/ UNCHANGED vars
  <2>1. queue' = queue
    BY <1>6 DEF ForeignWrite, EnsureTable, HandleSync, HandleLate, Merge, Replace, SaveNext,
       BuryNext, durable, vars
  <2> QED BY <2>1
<1> QED BY <1>1, <1>2, <1>3, <1>4, <1>5, <1>6 DEF Next, RunStep

----------------------------------------------------------------------------
(***************************************************************************)
(* The answer and its time                                                 *)
(***************************************************************************)
\* The answer covers the changes up to its time, and all that it acknowledges or
\* renames.
AnswerFits ==
    Answered =>
        /\ reply.from = cursor /\ cursor <= reply.to /\ reply.at <= now
        /\ \A k \in 1 .. Len(log) : log[k].revision <= reply.at <=> k <= reply.to
        /\ \A m \in reply.ack : InLog(m, reply.to)
        /\ todo.rename = (IF stage = "answered" THEN reply.renames ELSE {})
        /\ \A id \in reply.renames :
              ~Final(id) /\ \E m \in Batch : claim[m].record = id /\ InLog(m, reply.to)
        /\ \A m \in Batch :
              Final(claim[m].record) \/ claim[m].record \in reply.renames \/ ~InLog(m, reply.to)

\* Until the answer is stored, what was sent stays in the queue.
BatchQueued ==
    stage \in {"sent", "answered", "renaming"} =>
        \A m \in Batch :
            /\ queue[m] # NoRow /\ queue[m].status = "SYNCING"
            /\ \/ stage = "renaming" /\ claim[m].record \in reply.renames
               \/ queue[m].record = claim[m].record

\* Nothing is queued under an id that was renamed.
RenamedAway == Answered => \A id \in reply.renames \ todo.rename : ~Pending(id)

\* Queued mutations are of now or earlier, and what was claimed is older than the answer.
QueueTimes ==
    /\ \A m \in Mutations : queue[m] # NoRow => queue[m].timestamp <= now
    /\ \A m \in Mutations : claim[m] # NoRow =>
          claim[m].timestamp <= (IF Answered THEN reply.at ELSE now)

\* What is written after the answer was made is not on its way.
Newcomer(m) == queue[m] # NoRow /\ queue[m].timestamp > reply.at

\* Such a mutation is neither claimed nor known to the server.
Newcomers ==
    Answered => \A m \in Mutations : Newcomer(m) =>
        queue[m].status = "PENDING" /\ claim[m] = NoRow /\ late[m] = NoRow /\ m \notin applied

\* Where an answer is in hand before and after a step, it is the same one.
LEMMA SameAnswer ==
    ASSUME [Next]_vars, Answered'
    PROVE  \/ HandleSync
           \/ /\ Answered /\ reply' = reply /\ claim' = claim
              /\ ~EndRun /\ ~SendRequest
<1>1. CASE SendRequest
  BY <1>1 DEF SendRequest, Answered
<1>2. ASSUME EndRun PROVE FALSE
  BY <1>2 DEF EndRun, Answered
<1>3. CASE RemapNext \/ Merge \/ Replace
  <2>1. Answered
    BY <1>3 DEF RemapNext, Merge, Replace, Merging, Answered
  <2> QED BY <1>1, <1>2, <1>3, <2>1, RunMoves DEF SendRequest, HandleSync, RemapNext, Merge,
             Replace,
          Merging, EndRun
<1>4. CASE stage' = stage
  BY <1>1, <1>2, <1>4, RunMoves DEF Answered, SendRequest
<1> QED BY <1>1, <1>2, <1>3, <1>4, RunMoves

\* QueueTimes is inductive.
LEMMA QueueTimesStay ==
    ASSUME Setting, IInv, LogInTime, QueueTimes, [Next]_vars
    PROVE  QueueTimes'
<1> USE DEF IInv
<1>1. now \in Nat /\ now' \in Nat /\ now <= now'
  BY LogGains, LogGrows DEF ServerOK
<1>2. ASSUME NEW m \in Mutations, queue'[m] # NoRow PROVE queue'[m].timestamp <= now'
  <2>1. CASE queue[m] = NoRow
    <3>1. PICK operation \in Operations, id \in Ids : Mutate(m, operation, id)
      BY <1>2, <2>1, QueueMoves
    <3>2. PICK time \in Nat :
              time <= now' /\ queue' = [queue EXCEPT ![m] = FreshRow(Draft(operation, id), time)]
      BY <3>1, MutateStamps
    <3>3. queue'[m].timestamp = time
      BY <3>2 DEF FreshRow, RowsOK, QueueType, QueueOf
    <3> QED BY <3>2, <3>3
  <2>2. CASE queue[m] # NoRow
    <3>1. queue[m].timestamp <= now /\ queue'[m].timestamp = queue[m].timestamp
      BY <1>2, <2>2, QueueMoves DEF QueueTimes
    <3>2. queue[m].timestamp \in Nat
      BY <2>2 DEF RowsOK, QueueType, QueueOf, RowOf
    <3> QED BY <1>1, <3>1, <3>2
  <2> QED BY <2>1, <2>2
<1>3. ASSUME NEW m \in Mutations, claim'[m] # NoRow
      PROVE  claim'[m].timestamp <= (IF Answered' THEN reply'.at ELSE now')
  <2>1. CASE SendRequest
    <3>1. claim'[m] = queue[m] /\ ~Answered'
      BY <1>3, <2>1 DEF SendRequest, Answered
    <3>2. queue[m].timestamp <= now /\ queue[m].timestamp \in Nat
      BY <1>3, <3>1 DEF QueueTimes, RowsOK, QueueType, QueueOf, RowOf
    <3> QED BY <1>1, <3>1, <3>2
  <2>2. CASE ~SendRequest
    <3>1. claim'[m] = claim[m] /\ claim[m] # NoRow
      BY <1>3, <2>2, ClaimMoves
    <3>2. claim[m].timestamp \in Nat
      BY <3>1 DEF RowsOK, QueueType, QueueOf, RowOf
    <3>3. claim[m].timestamp <= (IF Answered THEN reply.at ELSE now)
      BY <3>1 DEF QueueTimes
    <3>4. CASE HandleSync
      <4>1. ~Answered /\ reply'.at = now'
        BY <3>4 DEF HandleSync, Answered, Answers
      <4> QED BY <1>1, <3>1, <3>2, <3>3, <4>1
    <3>5. CASE Answered' /\ ~HandleSync
      BY <3>1, <3>3, <3>5, SameAnswer
    <3>6. CASE ~Answered' /\ ~Answered
      BY <1>1, <3>1, <3>2, <3>3, <3>6
    <3>7. CASE ~Answered' /\ Answered
      <4>1. EndRun
        BY <2>2, <3>7, RunMoves DEF HandleSync, RemapNext, Merge, Replace, Answered
      <4> QED BY <1>3, <4>1 DEF EndRun, NoRows
    <3> QED BY <3>4, <3>5, <3>6, <3>7
  <2> QED BY <2>1, <2>2
<1> QED BY <1>2, <1>3 DEF QueueTimes

\* Newcomers is inductive.
LEMMA NewcomersStay ==
    ASSUME Setting, IInv, LogInTime, Named, QueueTimes, Newcomers, [Next]_vars
    PROVE  Newcomers'
<1> USE DEF IInv
<1> SUFFICES ASSUME Answered', NEW m \in Mutations, queue'[m] # NoRow,
                    queue'[m].timestamp > reply'.at
             PROVE  /\ queue'[m].status = "PENDING" /\ claim'[m] = NoRow /\ late'[m] = NoRow
                    /\ m \notin applied'
  BY DEF Newcomers, Newcomer
<1>1. CASE HandleSync
  <2>1. queue' = queue /\ reply'.at = now' /\ now <= now' /\ now \in Nat /\ now' \in Nat
    BY <1>1, LogGains, LogGrows DEF HandleSync, durable, Answers, ServerOK
  <2>2. queue[m].timestamp <= now /\ queue[m].timestamp \in Nat
    BY <2>1 DEF QueueTimes, RowsOK, QueueType, QueueOf, RowOf
  <2> QED BY <2>1, <2>2
<1>2. CASE ~HandleSync
  <2>1. Answered /\ reply' = reply /\ claim' = claim /\ ~EndRun /\ ~SendRequest
    BY <1>2, SameAnswer
  <2>2. late'[m] # NoRow => late'[m] = late[m]
    <3>1. CASE TransportFails \/ Crash
      BY <2>1, <3>1 DEF TransportFails, Crash, Throw
    <3>2. CASE HandleLate
      BY <3>2 DEF HandleLate, NoRows
    <3>3. CASE ~(TransportFails \/ Crash \/ HandleLate)
      <4>1. late' = late
        BY <1>2, <3>3 DEF Next, RunStep, Mutate, UserRetries, UserDiscards, EnsureTable,
           SendRequest,
           ForeignWrite, RemapNext, Merge, Replace, SaveNext, BuryNext, Settle, Finish,
           PrimaryKeyBreaks, StatementFails, Restart, vars
      <4> QED BY <4>1
    <3> QED BY <3>1, <3>2, <3>3
  <2>3. CASE queue[m] = NoRow
    <3>1. PICK operation \in Operations, id \in Ids : Mutate(m, operation, id)
      BY <2>3, QueueMoves
    <3>2. /\ queue'[m].status = "PENDING" /\ m \notin applied \cup refused
          /\ late' = late /\ applied' = applied
      BY <2>3, <3>1 DEF Mutate, SaveMutation, FreshRow, server, RowsOK, QueueType, QueueOf
    <3>3. claim[m] = NoRow /\ late[m] = NoRow
      BY <2>3, <3>2 DEF Named
    <3> QED BY <2>1, <3>2, <3>3
  <2>4. CASE queue[m] # NoRow
    <3>1. queue'[m].timestamp = queue[m].timestamp
      BY <2>4, QueueMoves
    <3>2. /\ queue[m].status = "PENDING" /\ claim[m] = NoRow /\ late[m] = NoRow
          /\ m \notin applied
      BY <2>1, <2>4, <3>1 DEF Newcomers, Newcomer
    <3>3. m \notin unacked
      BY <3>2 DEF RowsOK
    <3>4. ~Restart
      BY <2>1 DEF Restart, Answered, AnswerInHand
    <3>5. queue'[m].status = queue[m].status
      BY <2>1, <2>4, <3>2, <3>3, <3>4, StatusMoves
    <3>6. m \notin applied'
      <4>1. SUFFICES ASSUME m \in applied' PROVE FALSE
        OBVIOUS
      <4>2. PICK k \in Len(log) + 1 .. Len(log') : log'[k].value = m
        BY <3>2, <4>1, LogGains
      <4>3. MadeBy(log'[k], late)
        BY <1>2, <4>2, LogGains, ReplicaAssumption
      <4> QED BY <3>2, <4>2, <4>3 DEF MadeBy
    <3> QED BY <2>1, <2>2, <3>2, <3>5, <3>6
  <2> QED BY <2>3, <2>4
<1> QED BY <1>1, <1>2

\* Outside of what ends a run, the cursor stays and so do the ids to be renamed.
LEMMA RenamesMove ==
    ASSUME AnswerOK, [Next]_vars, ~HandleSync, ~EndRun
    PROVE  cursor' = cursor /\ (todo'.rename = todo.rename \/ RemapNext)
<1>1. ~(PrimaryKeyBreaks \/ TransportFails \/ StatementFails \/ Crash \/ Finish)
  BY DEF PrimaryKeyBreaks, TransportFails, StatementFails, Crash, Finish, Throw
<1>2. CASE Merge \/ SaveNext \/ BuryNext
  BY <1>2 DEF Merge, SaveNext, BuryNext, durable, AnswerOK
<1>3. CASE \/ \E m \in Mutations, operation \in Operations, id \in Ids : Mutate(m, operation, id)
           \/ \E m \in Mutations : UserRetries(m) \/ UserDiscards(m)
           \/ \E id \in Ids, deleted \in BOOLEAN : ForeignWrite(id, deleted)
           \/ EnsureTable \/ SendRequest \/ HandleLate \/ Restart \/ RemapNext \/ Replace \/ Settle
           \/ UNCHANGED vars
  BY <1>3 DEF Mutate, UserRetries, UserDiscards, ForeignWrite, EnsureTable, SendRequest,
     HandleLate, Restart,
     RemapNext, Replace, Settle, run, durable, vars
<1> QED BY <1>1, <1>2, <1>3 DEF Next, RunStep

\* One id at most is renamed, and it is renamed at once.
LEMMA OneRename ==
    ASSUME Setting, IInv, AnswerFits, RemapNext
    PROVE  /\ stage = "answered" /\ stage' = "renaming"
           /\ \E from \in Ids :
                 /\ ~Final(from) /\ reply.renames = {from} /\ todo.rename = {from}
                 /\ ~RemapBreaks(cells, Table, from, AssignedId[from])
                 /\ queue' = RemapQueue(queue, Table, from, AssignedId[from])
                 /\ cells' = RemapCells(cells, Table, from, AssignedId[from])
                 /\ todo'.rename = {} /\ todo'.save = todo.save /\ todo'.bury = todo.bury
                 /\ adrift' = {IF id = from THEN AssignedId[id] ELSE id : id \in adrift} \cup Ghost(from)
                 /\ mem' = Renamed(mem, reply.renames)
<1>1. PICK from \in todo.rename :
          /\ ~RemapBreaks(cells, Table, from, AssignedId[from])
          /\ queue' = RemapQueue(queue, Table, from, AssignedId[from])
          /\ cells' = RemapCells(cells, Table, from, AssignedId[from])
          /\ todo' = [todo EXCEPT !.rename = @ \ {from}]
          /\ adrift' = {IF id = from THEN AssignedId[id] ELSE id : id \in adrift} \cup Ghost(from)
          /\ mem' = IF todo.rename = {from} THEN Renamed(mem, reply.renames) ELSE mem
  BY DEF RemapNext
<1>2. Answered
  BY DEF RemapNext, Answered
<1>3. stage = "answered" /\ todo.rename = reply.renames
  BY <1>1, <1>2 DEF AnswerFits
<1>4. from \in Ids /\ reply.renames \subseteq Ids /\ \A id \in reply.renames : ~Final(id)
  BY <1>1, <1>2, <1>3 DEF AnswerFits, IInv, AnswerOK
<1>5. reply.renames = {from}
  BY <1>1, <1>3, <1>4 DEF Setting, Final
<1>6. /\ todo'.rename = {} /\ todo'.save = todo.save /\ todo'.bury = todo.bury
  BY <1>1, <1>3, <1>5 DEF IInv, AnswerOK
<1> QED BY <1>1, <1>3, <1>4, <1>5, <1>6 DEF RemapNext

\* AnswerFits is inductive: the answer is made of the log (HandleSync), and what the log
\* gains later is newer than it.
LEMMA AnswerFitsStill ==
    ASSUME Setting, IInv, LogInTime, Named, AnswerFits, [Next]_vars
    PROVE  AnswerFits'
<1> USE DEF IInv
<1> SUFFICES ASSUME Answered' PROVE AnswerFits'
  BY DEF AnswerFits
<1>1. Extends(log', log) /\ Len(log) \in Nat /\ Len(log') \in Nat /\ Len(log) <= Len(log')
  BY LogGrows, LogTyped, LenProperties DEF Extends, ServerOK, LogType
<1>2. Named' /\ LogInTime'
  BY NamedStays, LogStaysInTime
<1>3. CASE HandleSync
  <2>1. PICK drop \in SUBSET Batch, reset \in BOOLEAN, graves \in BOOLEAN :
            Answers(drop, reset, graves)
    BY <1>3 DEF HandleSync
  <2>2. claim' = claim /\ cursor' = cursor /\ stage' = "answered" /\ Batch' = Batch
    BY <1>3 DEF HandleSync, durable, Batch
  <2>3. /\ reply'.from = cursor' /\ reply'.to = Len(log') /\ reply'.at = now'
        /\ reply'.ack = (Batch \cap applied') \ drop
        /\ reply'.renames = {id \in {claim[m].record : m \in Batch \cap applied'} :
                                AssignedId[id] # id}
        /\ todo'.rename = reply'.renames
    BY <2>1, <2>2 DEF Answers, AnswerOK
  <2>4. \A m \in Batch : m \in Mutations /\ (m \in applied' <=> InLog(m, Len(log))')
    BY <1>2 DEF Batch, Named
  <2>5. now' \in Nat /\ cursor \in Nat /\ cursor <= Len(log)
    BY LogGrows, <1>1 DEF AnswerOK
  <2>6. \A k \in 1 .. Len(log') : log'[k].revision <= reply'.at <=> k <= reply'.to
    <3>1. \A k \in 1 .. Len(log') : log'[k].revision <= now'
      BY <1>2 DEF LogInTime, Ahead, Setting
    <3> QED BY <1>1, <2>3, <3>1
  <2>7. InLog(1, reply.to)' = (\E k \in 1 .. Len(log') : log'[k].value = 1)
    BY <2>3 DEF InLog
  <2>8. \A m \in Mutations : InLog(m, reply.to)' <=> InLog(m, Len(log))'
    BY <2>3 DEF InLog
  <2>9. \A m \in reply'.ack : InLog(m, reply.to)'
    BY <2>3, <2>4, <2>8
  <2>10. ASSUME NEW id \in reply'.renames
         PROVE  ~Final(id) /\ \E m \in Batch' : claim'[m].record = id /\ InLog(m, reply.to)'
    <3>1. AssignedId[id] # id /\ \E m \in Batch \cap applied' : id = claim[m].record
      BY <2>3, <2>10
    <3> QED BY <2>2, <2>4, <2>8, <3>1 DEF Final
  <2>11. ASSUME NEW m \in Batch'
         PROVE  \/ Final(claim'[m].record) \/ claim'[m].record \in reply'.renames
                \/ ~InLog(m, reply.to)'
    BY <2>2, <2>3, <2>4, <2>8 DEF Final
  <2>12. /\ reply'.from = cursor' /\ cursor' <= reply'.to /\ reply'.at <= now'
         /\ todo'.rename = (IF stage' = "answered" THEN reply'.renames ELSE {})
    BY <1>1, <2>2, <2>3, <2>5
  <2> QED BY <2>6, <2>9, <2>10, <2>11, <2>12 DEF AnswerFits
<1>4. CASE ~HandleSync
  <2>1. Answered /\ reply' = reply /\ claim' = claim /\ ~EndRun /\ ~SendRequest
    BY <1>4, SameAnswer
  <2>2. cursor' = cursor /\ (todo'.rename = todo.rename \/ RemapNext)
    BY <1>4, <2>1, RenamesMove
  <2>3. Batch' = Batch
    BY <2>1 DEF Batch
  <2>4. /\ reply.from = cursor /\ cursor <= reply.to /\ reply.at <= now
        /\ \A k \in 1 .. Len(log) : log[k].revision <= reply.at <=> k <= reply.to
        /\ \A m \in reply.ack : InLog(m, reply.to)
        /\ todo.rename = (IF stage = "answered" THEN reply.renames ELSE {})
        /\ \A id \in reply.renames :
              ~Final(id) /\ \E m \in Batch : claim[m].record = id /\ InLog(m, reply.to)
        /\ \A m \in Batch :
              Final(claim[m].record) \/ claim[m].record \in reply.renames \/ ~InLog(m, reply.to)
    BY <2>1 DEF AnswerFits
  <2>5. reply.to \in Nat /\ reply.to <= Len(log) /\ reply.at \in Nat /\ now \in Nat /\ now' \in Nat
        /\ now <= now'
    BY <1>1, LogGrows, LogGains DEF AnswerOK, ServerOK
  <2>6. \A m : InLog(m, reply.to)' <=> InLog(m, reply.to)
    <3>1. \A m : (\E k \in 1 .. reply.to : log'[k].value = m) <=> (\E k \in 1 .. reply.to : log[k].value = m)
      BY <1>1, <2>5 DEF Extends
    <3> QED BY <2>1, <3>1 DEF InLog
  <2>7. ASSUME NEW k \in 1 .. Len(log') PROVE log'[k].revision <= reply'.at <=> k <= reply'.to
    <3>1. CASE k \in 1 .. Len(log)
      BY <1>1, <2>1, <2>4, <3>1 DEF Extends
    <3>2. CASE k \notin 1 .. Len(log)
      <4>1. k \in Len(log) + 1 .. Len(log')
        BY <1>1, <3>2
      <4>2. log'[k].revision > now
        BY <4>1, LogGains
      <4>3. log'[k].revision \in Nat
        <5>1. log'[k] \in ChangeOf(Ids, Values)
          BY <1>1, ElementOfSeq DEF Extends, LogType
        <5> QED BY <5>1 DEF ChangeOf
      <4> QED BY <1>1, <2>1, <2>4, <2>5, <4>1, <4>2, <4>3
    <3> QED BY <3>1, <3>2
  <2>8. todo'.rename = (IF stage' = "answered" THEN reply'.renames ELSE {})
    <3>1. CASE RemapNext
      BY <3>1, OneRename
    <3>2. CASE Merge \/ Replace
      BY <3>2 DEF Merge, Replace, Merging, AnswerOK
    <3>3. CASE stage' = stage /\ ~RemapNext
      BY <2>1, <2>2, <2>4, <3>3
    <3> QED BY <1>4, <2>1, <3>1, <3>2, <3>3, RunMoves
  <2>9. reply'.at <= now'
    BY <2>1, <2>4, <2>5
  <2>10. ASSUME NEW id \in reply'.renames
         PROVE  ~Final(id) /\ \E m \in Batch' : claim'[m].record = id /\ InLog(m, reply.to)'
    BY <2>1, <2>3, <2>4, <2>6
  <2>11. ASSUME NEW m \in Batch'
         PROVE  \/ Final(claim'[m].record) \/ claim'[m].record \in reply'.renames
                \/ ~InLog(m, reply.to)'
    BY <2>1, <2>3, <2>4, <2>6
  <2> QED BY <2>1, <2>2, <2>4, <2>6, <2>7, <2>8, <2>9, <2>10, <2>11 DEF AnswerFits
<1> QED BY <1>3, <1>4

\* BatchQueued is inductive.
LEMMA BatchStaysQueued ==
    ASSUME Setting, IInv, AnswerFits, BatchQueued, [Next]_vars
    PROVE  BatchQueued'
<1> USE DEF IInv
<1> SUFFICES ASSUME stage' \in {"sent", "answered", "renaming"}, NEW m \in Mutations,
                    claim'[m] # NoRow
             PROVE  /\ queue'[m] # NoRow /\ queue'[m].status = "SYNCING"
                    /\ \/ stage' = "renaming" /\ claim'[m].record \in reply'.renames
                       \/ queue'[m].record = claim'[m].record
  BY DEF BatchQueued, Batch
<1>1. CASE SendRequest
  <2>1. PICK due \in SUBSET Due(queue, RetryDelay(RetryCap), {Table}) :
            /\ claim' = [n \in Mutations |-> IF n \in due THEN queue[n] ELSE NoRow]
            /\ queue' = MarkSyncing(queue, due)
    BY <1>1 DEF SendRequest
  <2>2. due \in SUBSET Queued(queue)
    BY DEF Due, WithStatus
  <2>3. m \in due /\ claim'[m] = queue[m] /\ queue[m] # NoRow
    BY <1>1, <2>1, <2>2 DEF Queued
  <2>4. Kept(queue', queue) /\ queue'[m].status = "SYNCING"
    BY <2>1, <2>2, <2>3, MarkSyncingKeeps DEF RowsOK
  <2> QED BY <2>3, <2>4 DEF Kept
<1>2. CASE ~SendRequest
  <2>1. ~EndRun
    BY DEF EndRun
  <2>2. claim'[m] = claim[m] /\ m \in Batch
    BY <1>2, ClaimMoves DEF Batch
  <2>3. stage \in {"sent", "answered", "renaming"}
    BY <1>2, <2>1, RunMoves DEF HandleSync, RemapNext, Merge, Replace, Merging
  <2>4. /\ queue[m] # NoRow /\ queue[m].status = "SYNCING"
        /\ \/ stage = "renaming" /\ claim[m].record \in reply.renames
           \/ queue[m].record = claim[m].record
    BY <2>2, <2>3 DEF BatchQueued
  <2>5. ~Settle /\ ~UserDiscards(m) /\ ~Restart
    BY <2>3, <2>4 DEF Settle, Settling, UserDiscards, WithStatus, Restart, AnswerInHand
  <2>6. queue'[m] # NoRow
    BY <2>4, <2>5, QueueMoves
  <2>7. queue'[m].status = "SYNCING"
    BY <1>2, <2>1, <2>4, <2>5, <2>6, StatusMoves
  <2>8. \/ queue'[m].record = queue[m].record
        \/ RemapNext /\ queue[m].record \in todo.rename
    BY <2>4, <2>6, QueueMoves
  <2>9. CASE RemapNext
    <3>1. stage = "answered" /\ stage' = "renaming" /\ reply.renames = todo.rename
      BY <2>9, OneRename
    <3>2. reply' = reply
      BY <2>9 DEF RemapNext
    <3> QED BY <2>2, <2>4, <2>6, <2>7, <2>8, <3>1, <3>2
  <2>10. CASE ~RemapNext
    <3>1. \/ stage' = stage /\ reply' = reply
          \/ HandleSync /\ stage # "renaming"
      BY <1>2, <2>1, <2>10, RunMoves DEF HandleSync, Merge, Replace
    <3> QED BY <2>2, <2>4, <2>6, <2>7, <2>8, <2>10, <3>1
  <2> QED BY <2>9, <2>10
<1> QED BY <1>1, <1>2

\* RenamedAway is inductive: nothing is created under an id once the server has replaced it
\* (Fresh).
LEMMA RenamedStaysAway ==
    ASSUME Setting, IInv, AnswerFits, RenamedAway, [Next]_vars
    PROVE  RenamedAway'
<1> USE DEF IInv
<1>0. DOMAIN queue = Mutations /\ DOMAIN queue' = Mutations
  BY RowsTyped DEF RowsOK, QueueType, QueueOf
<1> SUFFICES ASSUME Answered', NEW id \in reply'.renames, id \notin todo'.rename,
                    NEW m \in Mutations, queue'[m] # NoRow, queue'[m].record = id
             PROVE  FALSE
  BY <1>0 DEF RenamedAway, Pending, Queued
<1>1. CASE HandleSync
  <2>1. PICK drop \in SUBSET Batch, reset \in BOOLEAN, graves \in BOOLEAN :
            Answers(drop, reset, graves)
    BY <1>1 DEF HandleSync
  <2> QED BY <2>1 DEF Answers, AnswerOK
<1>2. CASE RemapNext
  <2>1. PICK from \in Ids :
            /\ ~Final(from) /\ reply.renames = {from}
            /\ queue' = RemapQueue(queue, Table, from, AssignedId[from])
    BY <1>2, OneRename
  <2>2. id = from
    BY <1>2, <2>1 DEF RemapNext
  <2>3. CASE queue[m] # NoRow /\ queue[m].record = from
    <3>1. queue[m] \in RowOf({Table}, Ids, Mutations)
      BY <2>3 DEF RowsOK, QueueType, QueueOf
    <3>2. queue[m].table = Table
      BY <3>1 DEF RowOf
    <3>3. queue'[m] = [queue[m] EXCEPT !.record = AssignedId[from]]
      BY <1>0, <2>1, <2>3, <3>2 DEF RemapQueue, Queued
    <3>4. queue'[m].record = AssignedId[from]
      BY <3>1, <3>3 DEF RowOf
    <3> QED BY <2>1, <2>2, <3>4 DEF Final
  <2>4. CASE ~(queue[m] # NoRow /\ queue[m].record = from)
    <3>1. queue'[m] = queue[m]
      BY <1>0, <2>1, <2>4 DEF RemapQueue, Queued
    <3> QED BY <2>2, <2>4, <3>1
  <2> QED BY <2>3, <2>4
<1>3. CASE ~HandleSync /\ ~RemapNext
  <2>1. Answered /\ reply' = reply /\ ~EndRun
    BY <1>3, SameAnswer
  <2>2. todo'.rename = todo.rename
    BY <1>3, <2>1, RenamesMove
  <2>3. ~Pending(id) /\ stage # "answered"
    BY <2>1, <2>2 DEF RenamedAway, AnswerFits
  <2>4. CASE queue[m] = NoRow
    <3>1. PICK operation \in Operations, i \in Ids : Mutate(m, operation, i)
      BY <2>4, QueueMoves
    <3> QED BY <2>1, <2>3, <3>1 DEF Mutate, NewTask, Waiting, Answered
  <2>5. CASE queue[m] # NoRow
    <3>1. queue'[m].record = queue[m].record
      BY <1>3, <2>5, QueueMoves
    <3> QED BY <1>0, <2>3, <2>5, <3>1 DEF Pending, Queued
  <2> QED BY <2>4, <2>5
<1> QED BY <1>1, <1>2, <1>3

----------------------------------------------------------------------------
(***************************************************************************)
(* What is made of an answer                                               *)
(***************************************************************************)
\* The stored row.
Row(id) == cells[Table][id]

\* A record has the time of one of the server's first n changes, or was created
\* here and has none.
Known(record, id, n) ==
    record # NoRecord =>
        \/ record.updatedAt = 0
        \/ \E k \in 1 .. n : log[k].id = id /\ log[k].revision = record.updatedAt

\* How far the device can know the log.
Bound == IF Answered THEN reply.to ELSE Len(log)

\* This is so of every record in memory and in the database.
AllKnown == \A id \in Ids : Known(mem[id], id, Bound) /\ Known(StoredRecord(id), id, Bound)

\* What the order of the log gives for two of its changes.
LEMMA LogFacts ==
    ASSUME ServerOK, LogInTime
    PROVE  /\ Len(log) \in Nat
           /\ \A k \in 1 .. Len(log) : log[k] \in ChangeOf(Ids, Values) /\ log[k].revision \in Nat
           /\ \A j, k \in 1 .. Len(log) : j <= k => log[j].revision <= log[k].revision
           /\ \A j, k \in 1 .. Len(log) : j < k => log[j].revision < log[k].revision
           /\ \A k \in 1 .. Len(log) : log[k].revision > 0
<1>1. Len(log) \in Nat /\ \A k \in 1 .. Len(log) : log[k] \in ChangeOf(Ids, Values)
  BY LogTyped DEF ServerOK
<1>2. \A k \in 1 .. Len(log) : log[k].revision \in Nat
  BY <1>1 DEF ChangeOf
<1>3. /\ \A j, k \in 1 .. Len(log) : j < k => log[j].revision < log[k].revision
      /\ \A k \in 1 .. Len(log) : log[k].revision > 0
  BY DEF LogInTime, InTime
<1>4. ASSUME NEW j \in 1 .. Len(log), NEW k \in 1 .. Len(log), j <= k
      PROVE  log[j].revision <= log[k].revision
  <2>1. CASE j = k
    BY <1>2, <2>1
  <2>2. CASE j < k
    BY <1>2, <1>3, <2>2
  <2> QED BY <1>1, <1>4, <2>1, <2>2
<1> QED BY <1>1, <1>2, <1>3, <1>4

\* The tombstones of an incremental answer are the stored ones and the server's.
LEMMA TombstonesAre ==
    ASSUME IInv, LogInTime, NEW id \in Ids
    PROVE  /\ id \in DOMAIN Tombstones =>
                /\ Tombstones[id] \in Nat
                /\ \/ IsTombstone(Row(id)) /\ Tombstones[id] = Row(id).updatedAt
                   \/ \E d \in DeletionPositions(id) : Tombstones[id] = log[d].revision
           /\ IsTombstone(Row(id)) =>
                id \in DOMAIN Tombstones /\ Row(id).updatedAt <= Tombstones[id]
           /\ \A d \in DeletionPositions(id) :
                id \in DOMAIN Tombstones /\ log[d].revision <= Tombstones[id]
<1> USE DEF IInv
<1>1. log \in LogType /\ reply.to \in 0 .. Len(log) /\ reply.from \in Nat /\ claim \in QueueType
  BY DEF ServerOK, AnswerOK, RowsOK
<1>2. DeletionPositions(id) \in SUBSET (1 .. Len(log))
  BY <1>1, PositionsType DEF DeletionPositions
<1> DEFINE last == Latest(DeletionPositions(id))
<1>3. DeletionPositions(id) # {} =>
         /\ last \in DeletionPositions(id)
         /\ \A d \in DeletionPositions(id) : log[d].revision <= log[last].revision
  <2>1. DeletionPositions(id) \subseteq Nat /\ IsFiniteSet(DeletionPositions(id))
    BY <1>1, <1>2, LogTyped, CountingSet
  <2>2. DeletionPositions(id) # {} =>
           last \in DeletionPositions(id) /\ \A d \in DeletionPositions(id) : d <= last
    BY <2>1, LatestIsGreatest
  <2> HIDE DEF last
  <2> QED BY <1>2, <2>2, LogFacts
<1>4. /\ id \in DOMAIN ServerTombstones <=> DeletionPositions(id) # {}
      /\ DeletionPositions(id) # {} => ServerTombstones[id] = log[last].revision
  BY DEF ServerTombstones
<1>5. \A i \in DOMAIN ServerTombstones : ServerTombstones[i] \in Nat
  BY <1>1, ServerTombstonesType
<1> DEFINE own == LoadTombstones(cells, Table)
<1>6. /\ id \in DOMAIN own <=> IsTombstone(Row(id))
      /\ IsTombstone(Row(id)) => own[id] = Row(id).updatedAt /\ own[id] \in Nat
  BY DEF LoadTombstones, Row, IsTombstone, CopiesOK, CellsOK, CellsType, Cell
<1>7. /\ DOMAIN Tombstones = DOMAIN own \cup DOMAIN ServerTombstones
      /\ id \in DOMAIN Tombstones =>
            Tombstones[id] = IF id \notin DOMAIN ServerTombstones
                                \/ (id \in DOMAIN own /\ own[id] >= ServerTombstones[id])
                             THEN own[id] ELSE ServerTombstones[id]
  BY DEF Tombstones, Later
<1> HIDE DEF own, last
<1>8. ASSUME id \in DOMAIN Tombstones
      PROVE  /\ Tombstones[id] \in Nat
             /\ \/ IsTombstone(Row(id)) /\ Tombstones[id] = Row(id).updatedAt
                \/ \E d \in DeletionPositions(id) : Tombstones[id] = log[d].revision
  BY <1>3, <1>4, <1>5, <1>6, <1>7, <1>8
<1>9. ASSUME IsTombstone(Row(id))
      PROVE  id \in DOMAIN Tombstones /\ Row(id).updatedAt <= Tombstones[id]
  BY <1>5, <1>6, <1>7, <1>9
<1>10. ASSUME NEW d \in DeletionPositions(id)
       PROVE  id \in DOMAIN Tombstones /\ log[d].revision <= Tombstones[id]
  <2>1. id \in DOMAIN ServerTombstones /\ log[d].revision <= ServerTombstones[id]
    BY <1>3, <1>4
  <2>2. log[d].revision \in Nat
    BY <1>2, LogFacts
  <2> QED BY <1>5, <1>6, <1>7, <2>1, <2>2
<1> QED BY <1>8, <1>9, <1>10

\* Outside of what is protected, the merge is of what it keeps and of the usable
\* changes of the answer.
LEMMA VisibleIs ==
    ASSUME NEW id \in Ids, id \notin Protected
    PROVE  \E kept : \E candidates :
              /\ kept = (IF LocalRecords[id] # NoRecord
                            /\ Suppressed(id, LocalRecords[id], AnswerTombstones)
                         THEN NoRecord ELSE LocalRecords[id])
              /\ candidates = {k \in Positions : /\ log[k].id = id /\ ~log[k].deleted
                                                 /\ ~Suppressed(id, RecordOf(log[k]), AnswerTombstones)}
              /\ Visible[id] = Result(kept, log, candidates, Strategy)
<1> DEFINE local == LocalRecords
           tombstones == AnswerTombstones
           kept == KeptLocal(local, Protected, tombstones)
           candidates == Candidates(id, log, Positions, Protected, tombstones)
           merged == Merged(local, log, Positions, Protected, Strategy, tombstones)
<1>1. DOMAIN local = Ids
  BY DEF LocalRecords
<1>2. id \notin DeletedIds
  BY DEF DeletedIds, UnacknowledgedDeletes, Protected
<1>3. Visible[id] = merged[id]
  <2>1. Visible = [i \in Ids |-> IF i \in DeletedIds THEN NoRecord ELSE merged[i]]
    BY DEF Visible
  <2> HIDE DEF merged
  <2> QED BY <1>2, <2>1
<1> HIDE DEF local, tombstones
<1>4. merged[id] = Result(kept[id], log, candidates, Strategy)
  BY <1>1 DEF Merged, Result
<1>5. kept[id] = IF local[id] # NoRecord /\ Suppressed(id, local[id], tombstones)
                 THEN NoRecord ELSE local[id]
  BY <1>1 DEF KeptLocal
<1>6. candidates = {k \in Positions : /\ log[k].id = id /\ ~log[k].deleted
                                      /\ ~Suppressed(id, RecordOf(log[k]), tombstones)}
  BY DEF Candidates
<1> HIDE DEF merged, kept, candidates
<1> QED BY <1>3, <1>4, <1>5, <1>6 DEF local, tombstones

\* An answer without news of a record leaves it as it is, or hides it behind the
\* stored tombstone.
LEMMA NoNews ==
    ASSUME IInv, LogInTime, AnswerFits, Answered, ~reply.reset, NEW id \in Ids, id \notin Protected,
           \A k \in cursor + 1 .. reply.to : log[k].id # id
    PROVE  Visible[id] = mem[id] \/ (Visible[id] = NoRecord /\ IsTombstone(Row(id)))
<1>1. Positions = cursor + 1 .. reply.to
  BY DEF Positions, Pulled, AnswerFits
<1>2. PICK kept, candidates :
          /\ kept = (IF LocalRecords[id] # NoRecord
                        /\ Suppressed(id, LocalRecords[id], AnswerTombstones)
                     THEN NoRecord ELSE LocalRecords[id])
          /\ candidates = {k \in Positions : /\ log[k].id = id /\ ~log[k].deleted
                                             /\ ~Suppressed(id, RecordOf(log[k]), AnswerTombstones)}
          /\ Visible[id] = Result(kept, log, candidates, Strategy)
  BY VisibleIs
<1>3. candidates = {} /\ LocalRecords[id] = mem[id] /\ AnswerTombstones = Tombstones
  BY <1>1, <1>2 DEF LocalRecords, AnswerTombstones
<1>4. Visible[id] = kept
  BY <1>2, <1>3 DEF Result
<1>5. DeletionPositions(id) = {}
  BY <1>1 DEF DeletionPositions
<1>6. Suppressed(id, mem[id], Tombstones) => IsTombstone(Row(id))
  BY <1>5, TombstonesAre DEF Suppressed
<1> QED BY <1>2, <1>3, <1>4, <1>6

\* Of a record with news, an incremental answer shows the last change, unless a stored
\* tombstone is as new as that.
LEMMA News ==
    ASSUME Setting, IInv, LogInTime, AnswerFits, AllKnown, Answered, ~reply.reset,
           NEW id \in Ids, id \notin Protected,
           NEW k, k = LastChange(log, id, reply.to), k > cursor
    PROVE  /\ k \in (IF log[k].deleted THEN DeletionPositions(id) ELSE RecordPositions(id))
           /\ \/ log[k].deleted /\ Visible[id] = NoRecord
              \/ /\ ~log[k].deleted /\ Visible[id] # NoRecord
                 /\ Visible[id].value = log[k].value
                 /\ Visible[id].updatedAt = log[k].revision
                 /\ ~Suppressed(id, Visible[id], Tombstones)
              \/ /\ ~log[k].deleted /\ Visible[id] = NoRecord
                 /\ IsTombstone(Row(id)) /\ log[k].revision <= Row(id).updatedAt
<1> USE DEF IInv
<1>1. cursor \in Nat /\ reply.to \in Nat /\ reply.to <= Len(log) /\ Len(log) \in Nat
  BY LogTyped DEF AnswerOK, ServerOK
<1>2. k \in 1 .. reply.to /\ log[k].id = id /\ \A j \in 1 .. reply.to : log[j].id = id => j <= k
  BY <1>1, LastChangeIs
<1>3. Positions = cursor + 1 .. reply.to
  BY DEF Positions, Pulled, AnswerFits
<1>4. k \in Positions
  BY <1>1, <1>2, <1>3
<1>5. PICK kept, candidates :
          /\ kept = (IF LocalRecords[id] # NoRecord
                        /\ Suppressed(id, LocalRecords[id], AnswerTombstones)
                     THEN NoRecord ELSE LocalRecords[id])
          /\ candidates = {j \in Positions : /\ log[j].id = id /\ ~log[j].deleted
                                             /\ ~Suppressed(id, RecordOf(log[j]), AnswerTombstones)}
          /\ Visible[id] = Result(kept, log, candidates, Strategy)
  BY VisibleIs
<1>6. LocalRecords[id] = mem[id] /\ AnswerTombstones = Tombstones
  BY DEF LocalRecords, AnswerTombstones
<1>7. /\ \A j \in 1 .. reply.to : log[j].id = id => log[j].revision <= log[k].revision
      /\ \A j \in 1 .. reply.to : log[j].id = id /\ j # k => log[j].revision < log[k].revision
      /\ log[k].revision \in Nat /\ log[k].revision > 0
      /\ \A j \in 1 .. reply.to : log[j].revision \in Nat /\ log[j] \in ChangeOf(Ids, Values)
  BY <1>1, <1>2, LogFacts
<1>8. mem[id] # NoRecord => mem[id].updatedAt \in Nat /\ mem[id].updatedAt <= log[k].revision
  <2>1. mem[id] # NoRecord => mem[id] \in Record
    BY DEF CopiesOK, RecordsType
  <2>2. mem[id] # NoRecord =>
           \/ mem[id].updatedAt = 0
           \/ \E j \in 1 .. reply.to : log[j].id = id /\ log[j].revision = mem[id].updatedAt
    BY DEF AllKnown, Known, Bound
  <2> QED BY <1>7, <2>1, <2>2 DEF Record
<1>9. ASSUME id \in DOMAIN Tombstones, log[k].revision <= Tombstones[id]
      PROVE  Visible[id] = NoRecord
  <2>1. Tombstones[id] \in Nat
    BY <1>9, TombstonesAre
  <2>2. ASSUME NEW j \in candidates PROVE FALSE
    <3>1. j \in 1 .. reply.to /\ log[j].id = id /\ ~Suppressed(id, RecordOf(log[j]), Tombstones)
      BY <1>1, <1>3, <1>5, <1>6, <2>2
    <3>2. RecordOf(log[j]).updatedAt = log[j].revision
      BY DEF RecordOf, NewRecord
    <3> QED BY <1>7, <1>9, <2>1, <3>1, <3>2 DEF Suppressed
  <2>3. kept = NoRecord
    BY <1>5, <1>6, <1>7, <1>8, <1>9, <2>1 DEF Suppressed
  <2> QED BY <1>5, <2>2, <2>3 DEF Result
<1>10. CASE log[k].deleted
  <2>1. k \in DeletionPositions(id)
    BY <1>2, <1>4, <1>10 DEF DeletionPositions
  <2> QED BY <1>9, <1>10, <2>1, TombstonesAre
<1>11. CASE ~log[k].deleted
  <2>1. k \in RecordPositions(id)
    BY <1>2, <1>4, <1>11 DEF RecordPositions
  <2>2. RecordOf(log[k]) = NewRecord(log[k].value, log[k].revision)
        /\ RecordOf(log[k]).updatedAt = log[k].revision /\ RecordOf(log[k]).value = log[k].value
    BY DEF RecordOf, NewRecord
  <2>3. CASE Suppressed(id, RecordOf(log[k]), Tombstones)
    <3>1. id \in DOMAIN Tombstones /\ log[k].revision <= Tombstones[id]
      BY <2>2, <2>3 DEF Suppressed
    <3>2. ASSUME NEW d \in DeletionPositions(id), Tombstones[id] = log[d].revision PROVE FALSE
      <4>1. d \in 1 .. reply.to /\ log[d].id = id /\ d # k
        BY <1>1, <1>3, <1>11 DEF DeletionPositions
      <4> QED BY <1>7, <3>1, <3>2, <4>1
    <3> QED BY <1>9, <1>11, <2>1, <3>1, <3>2, TombstonesAre
  <2>4. CASE ~Suppressed(id, RecordOf(log[k]), Tombstones)
    <3>1. k \in candidates /\ candidates \subseteq Nat /\ \A j \in candidates : j <= k
      BY <1>1, <1>2, <1>3, <1>4, <1>5, <1>6, <1>11, <2>4
    <3>2. Latest(candidates) = k /\ candidates # {}
      BY <3>1, LatestIs
    <3>3. kept = NoRecord \/ kept = mem[id]
      BY <1>5, <1>6
    <3>4. Visible[id] = IF kept # NoRecord THEN ResolveConflict(kept, RecordOf(log[k]), Strategy)
                        ELSE RecordOf(log[k])
      BY <1>5, <3>2 DEF Result, Setting
    <3>5. RecordOf(log[k]) \in Record
      BY <1>2, <1>7, RecordOfType
    <3>6. ASSUME NEW local \in Record, local.updatedAt <= log[k].revision
          PROVE  ResolveConflict(local, RecordOf(log[k]), Strategy) = RecordOf(log[k])
      <4>1. MergeFields(local, RecordOf(log[k])) = RecordOf(log[k])
        BY <1>7, <2>2 DEF MergeFields, NewRecord
      <4>2. Strategy \in {"last-write-wins", "server-wins", "merge-fields"}
        BY ReplicaAssumption DEF Strategies, Setting
      <4>3. RecordOf(log[k]).updatedAt >= local.updatedAt
        BY <1>7, <2>2, <3>6 DEF Record
      <4> QED BY <4>1, <4>2, <4>3 DEF ResolveConflict
    <3>7. Visible[id] = RecordOf(log[k])
      <4>1. kept # NoRecord => kept \in Record /\ kept.updatedAt <= log[k].revision
        BY <1>8, <3>3 DEF CopiesOK, RecordsType
      <4> QED BY <3>4, <3>6, <4>1
    <3>8. Visible[id] # NoRecord
      BY <3>5, <3>7, NothingAssumption
    <3> QED BY <1>11, <2>1, <2>2, <2>4, <3>7, <3>8
  <2> QED BY <2>3, <2>4
<1> QED BY <1>10, <1>11

\* A replacement shows what the server has of every record that is not protected.
LEMMA Replaced ==
    ASSUME Setting, IInv, LogInTime, reply.reset, NEW id \in Ids, id \notin Protected,
           NEW k, k = LastChange(log, id, reply.to)
    PROVE  IF k # 0 /\ ~log[k].deleted
           THEN Visible[id] = RecordOf(log[k]) /\ Visible[id] # NoRecord
           ELSE Visible[id] = NoRecord
<1> USE DEF IInv
<1>1. reply.to \in Nat /\ reply.to <= Len(log) /\ Len(log) \in Nat
  BY LogTyped DEF AnswerOK, ServerOK
<1>2. k \in 0 .. reply.to /\ (k # 0 => log[k].id = id)
  BY <1>1, LastChangeIs
<1>3. Positions = Snapshot(log, reply.to, reply.graves)
  BY DEF Positions
<1>4. \A j \in Positions : log[j].id = id => j = k /\ j \in 1 .. reply.to
  BY <1>3 DEF Snapshot
<1>5. PICK kept, candidates :
          /\ kept = (IF LocalRecords[id] # NoRecord
                        /\ Suppressed(id, LocalRecords[id], AnswerTombstones)
                     THEN NoRecord ELSE LocalRecords[id])
          /\ candidates = {j \in Positions : /\ log[j].id = id /\ ~log[j].deleted
                                             /\ ~Suppressed(id, RecordOf(log[j]), AnswerTombstones)}
          /\ Visible[id] = Result(kept, log, candidates, Strategy)
  BY VisibleIs
<1>6. LocalRecords[id] = NoRecord /\ AnswerTombstones = ResetTombstones
  BY DEF LocalRecords, AnswerTombstones
<1>7. kept = NoRecord
  BY <1>5, <1>6
<1>8. CASE k # 0 /\ ~log[k].deleted
  <2>1. DeletionPositions(id) = {}
    BY <1>4, <1>8 DEF DeletionPositions
  <2>2. id \notin DOMAIN ServerTombstones
    BY <2>1 DEF ServerTombstones
  <2>3. id \notin DOMAIN OwnTombstones
    BY DEF OwnTombstones, DeletedIds, UnacknowledgedDeletes, Protected
  <2>4. id \notin DOMAIN ResetTombstones
    BY <2>2, <2>3 DEF ResetTombstones, Later
  <2>5. k \in Positions
    <3>1. k \in 1 .. reply.to
      BY <1>1, <1>2, <1>8
    <3> QED BY <1>2, <1>3, <1>8, <3>1 DEF Snapshot
  <2>6. candidates = {k}
    BY <1>2, <1>4, <1>5, <1>6, <1>8, <2>4, <2>5 DEF Suppressed
  <2>7. Latest(candidates) = k
    <3>1. {k} \subseteq Nat /\ k \in {k} /\ \A j \in {k} : j <= k
      BY <1>1, <1>2
    <3> QED BY <2>6, <3>1, LatestIs
  <2>8. Visible[id] = RecordOf(log[k])
    BY <1>5, <1>7, <2>6, <2>7 DEF Result, Setting
  <2>9. RecordOf(log[k]) \in Record
    BY <1>1, <1>2, <1>8, LogTyped, RecordOfType DEF ServerOK
  <2> QED BY <1>8, <2>8, <2>9, NothingAssumption
<1>9. CASE ~(k # 0 /\ ~log[k].deleted)
  <2>1. candidates = {}
    BY <1>4, <1>5, <1>9
  <2> QED BY <1>5, <1>7, <1>9, <2>1 DEF Result
<1> QED BY <1>8, <1>9
----------------------------------------------------------------------------
(***************************************************************************)
(* Rows and records are of the server's changes or of the device's writes  *)
(***************************************************************************)
\* Nothing in an answer is newer than the answer.
LEMMA AnswerIsNewest ==
    ASSUME IInv, LogInTime, AnswerFits, Answered
    PROVE  /\ cursor \in Nat /\ reply.to \in Nat /\ reply.at \in Nat /\ Len(log) \in Nat
           /\ cursor <= reply.to /\ reply.to <= Len(log)
           /\ \A k \in Positions : k \in 1 .. reply.to
           /\ \A k \in 1 .. reply.to : log[k].revision \in Nat /\ log[k].revision <= reply.at
<1> USE DEF IInv
<1>1. /\ cursor \in Nat /\ reply.to \in Nat /\ reply.at \in Nat /\ Len(log) \in Nat
      /\ cursor <= reply.to /\ reply.to <= Len(log)
  BY LogTyped DEF AnswerOK, ServerOK, AnswerFits
<1>2. \A k \in Positions : k \in 1 .. reply.to
  BY <1>1 DEF Positions, Pulled, Snapshot, AnswerFits
<1>3. \A k \in 1 .. reply.to : log[k].revision \in Nat /\ log[k].revision <= reply.at
  BY <1>1, LogFacts DEF AnswerFits
<1> QED BY <1>1, <1>2, <1>3

\* What the merge shows is what was shown or a change of the answer, and an
\* incremental answer shows nothing that a tombstone hides.
LEMMA VisibleIsKnown ==
    ASSUME Setting, IInv, LogInTime, AnswerFits, AllKnown, Answered, NEW id \in Ids
    PROVE  /\ Known(Visible[id], id, reply.to)
           /\ id \notin Protected /\ ~reply.reset /\ Visible[id] # NoRecord =>
                ~Suppressed(id, Visible[id], Tombstones)
<1> USE DEF IInv
<1>1. mem \in RecordsType /\ Known(mem[id], id, reply.to)
  BY DEF CopiesOK, AllKnown, Bound
<1>2. CASE id \in DeletedIds
  <2>1. Visible[id] = NoRecord
    BY <1>2 DEF Visible
  <2> QED BY <2>1 DEF Known
<1>3. CASE id \in Protected /\ id \notin DeletedIds
  BY <1>1, <1>3, ProtectedIsVisible
<1>4. CASE id \notin Protected
  <2>1. PICK kept, candidates :
            /\ kept = (IF LocalRecords[id] # NoRecord
                          /\ Suppressed(id, LocalRecords[id], AnswerTombstones)
                       THEN NoRecord ELSE LocalRecords[id])
            /\ candidates = {k \in Positions : /\ log[k].id = id /\ ~log[k].deleted
                                               /\ ~Suppressed(id, RecordOf(log[k]), AnswerTombstones)}
            /\ Visible[id] = Result(kept, log, candidates, Strategy)
    BY <1>4, VisibleIs
  <2>2. LocalRecords[id] \in {mem[id], NoRecord}
    BY DEF LocalRecords
  <2>3. kept # NoRecord =>
           kept = mem[id] /\ kept \in Record /\ ~Suppressed(id, kept, AnswerTombstones)
    BY <1>1, <2>1, <2>2 DEF RecordsType
  <2>4. CASE candidates = {}
    <3>1. Visible[id] = kept
      BY <2>1, <2>4 DEF Result
    <3> QED BY <1>1, <2>3, <3>1 DEF Known, AnswerTombstones
  <2>5. CASE candidates # {}
    <3> DEFINE k == Latest(candidates)
    <3>1. candidates \in SUBSET (1 .. Len(log))
      BY <2>1, AnswerIsNewest
    <3>2. k \in candidates /\ log[k] \in ChangeOf(Ids, Values)
      BY <2>5, <3>1, LatestInLog DEF ServerOK
    <3>3. k \in 1 .. reply.to /\ log[k].id = id /\ ~Suppressed(id, RecordOf(log[k]), AnswerTombstones)
      BY <2>1, <3>2, AnswerIsNewest
    <3>4. log[k].revision \in Nat /\ log[k].revision > 0
      BY <3>1, <3>2, LogFacts
    <3>5. RecordOf(log[k]) \in Record /\ RecordOf(log[k]).updatedAt = log[k].revision
      BY <3>2, RecordOfType DEF RecordOf, NewRecord
    <3>6. Visible[id] = IF kept # NoRecord THEN ResolveConflict(kept, RecordOf(log[k]), Strategy)
                        ELSE RecordOf(log[k])
      BY <2>1, <2>5 DEF Result, Setting
    <3> HIDE DEF k
    <3>7. ASSUME NEW local \in Record
          PROVE  ResolveConflict(local, RecordOf(log[k]), Strategy) \in {local, RecordOf(log[k])}
      <4>1. MergeFields(local, RecordOf(log[k])) = RecordOf(log[k])
        BY <3>4, <3>5 DEF MergeFields, RecordOf, NewRecord
      <4>2. Strategy \in {"last-write-wins", "server-wins", "merge-fields"}
        BY ReplicaAssumption DEF Strategies, Setting
      <4> QED BY <4>1, <4>2 DEF ResolveConflict
    <3>8. Visible[id] \in {kept, RecordOf(log[k])} /\ (Visible[id] = kept => kept # NoRecord \/ kept = RecordOf(log[k]))
      BY <2>3, <3>6, <3>7
    <3>9. Known(RecordOf(log[k]), id, reply.to)
      BY <3>3, <3>5 DEF Known
    <3>10. CASE kept # NoRecord /\ Visible[id] = kept
      BY <1>1, <2>3, <3>10 DEF AnswerTombstones
    <3>11. CASE Visible[id] = RecordOf(log[k])
      BY <3>3, <3>9, <3>11 DEF AnswerTombstones
    <3> QED BY <3>8, <3>10, <3>11
  <2> QED BY <2>4, <2>5
<1> QED BY <1>2, <1>3, <1>4

\* A record that is still to be stored is newer than every tombstone.
SavesNews == stage = "storing" => \A id \in todo.save : ~Suppressed(id, mem[id], Tombstones)

\* A pulled record is stored under the time of the answer: no tombstone lies above it.
LEMMA SaveStampIs ==
    ASSUME IInv, LogInTime, AnswerFits, AllKnown, SavesNews, stage = "storing", NEW id \in todo.save
    PROVE  SaveStamp(id) = reply.at
<1> USE DEF IInv
<1>1. id \in Ids /\ mem[id] # NoRecord /\ RecordPositions(id) # {} /\ Answered
  BY DEF AnswerOK, AnswerInHand, Answered
<1>2. mem[id] \in Record
  BY <1>1 DEF CopiesOK, RecordsType
<1>3. reply.at \in Nat /\ mem[id].updatedAt \in Nat /\ mem[id].updatedAt <= reply.at
  <2>1. \/ mem[id].updatedAt = 0
        \/ \E k \in 1 .. reply.to : log[k].revision = mem[id].updatedAt
    BY <1>1 DEF AllKnown, Known, Bound
  <2> QED BY <1>1, <1>2, <2>1, AnswerIsNewest DEF Record
<1>4. CASE id \in DOMAIN Tombstones
  <2> DEFINE last == log[Latest(RecordPositions(id))].revision
             times == {reply.at, Tombstones[id] + 1, last}
  <2>1. Tombstones[id] \in Nat /\ Tombstones[id] + 1 <= reply.at
    <3>1. Tombstones[id] \in Nat
      BY <1>1, <1>4, TombstonesAre
    <3>2. ~(mem[id].updatedAt <= Tombstones[id])
      BY <1>4 DEF SavesNews, Suppressed
    <3> QED BY <1>3, <3>1, <3>2
  <2>2. last \in Nat /\ last <= reply.at
    <3>1. RecordPositions(id) \in SUBSET (1 .. Len(log))
      BY <1>1, AnswerIsNewest DEF RecordPositions
    <3>2. Latest(RecordPositions(id)) \in RecordPositions(id)
      BY <1>1, <3>1, LatestInLog DEF ServerOK
    <3> QED BY <1>1, <3>2, AnswerIsNewest DEF RecordPositions
  <2> HIDE DEF last
  <2>3. reply.at \in times /\ times \subseteq Nat /\ \A j \in times : j <= reply.at
    BY <1>3, <2>1, <2>2
  <2>4. Latest(times) = reply.at
    BY <2>3, LatestIs
  <2> QED BY <1>4, <2>4 DEF SaveStamp, last
<1>5. CASE id \notin DOMAIN Tombstones
  BY <1>5 DEF SaveStamp
<1> QED BY <1>4, <1>5

\* The tombstones that an answer brings are as old as its deletions, and those of the
\* batch are older than the answer.
LEMMA TombstonesAreOlder ==
    ASSUME IInv, LogInTime, AnswerFits, QueueTimes, Answered
    PROVE  /\ \A id \in DOMAIN ServerTombstones :
                 \E d \in DeletionPositions(id) :
                    /\ d \in 1 .. reply.to /\ log[d].id = id /\ log[d].deleted
                    /\ ServerTombstones[id] = log[d].revision
                    /\ \A e \in DeletionPositions(id) : e <= d
           /\ \A id \in DOMAIN ServerTombstones : ServerTombstones[id] <= reply.at
           /\ \A id \in DOMAIN OwnTombstones : OwnTombstones[id] <= reply.at
           /\ \A id \in DOMAIN ResetTombstones : ResetTombstones[id] <= reply.at
<1> USE DEF IInv
<1>1. ASSUME NEW id \in DOMAIN ServerTombstones
      PROVE  \E d \in DeletionPositions(id) :
                    /\ d \in 1 .. reply.to /\ log[d].id = id /\ log[d].deleted
                    /\ ServerTombstones[id] = log[d].revision
                    /\ \A e \in DeletionPositions(id) : e <= d
  <2> DEFINE d == Latest(DeletionPositions(id))
  <2>1. DeletionPositions(id) # {} /\ ServerTombstones[id] = log[d].revision
    BY DEF ServerTombstones
  <2>2. DeletionPositions(id) \in SUBSET (1 .. Len(log))
    BY AnswerIsNewest DEF DeletionPositions
  <2>3. DeletionPositions(id) \subseteq Nat /\ IsFiniteSet(DeletionPositions(id))
    BY <2>2, AnswerIsNewest, CountingSet
  <2>4. d \in DeletionPositions(id) /\ \A e \in DeletionPositions(id) : e <= d
    BY <2>1, <2>3, LatestIsGreatest
  <2> HIDE DEF d
  <2> QED BY <2>1, <2>4, AnswerIsNewest DEF DeletionPositions
<1>2. \A id \in DOMAIN ServerTombstones : ServerTombstones[id] <= reply.at
  BY <1>1, AnswerIsNewest
<1>3. ASSUME NEW id \in DOMAIN OwnTombstones PROVE OwnTombstones[id] <= reply.at
  <2>1. \A m \in UnacknowledgedDeletes : claim[m].timestamp <= reply.at
    BY DEF QueueTimes, UnacknowledgedDeletes, Unacknowledged, Batch
  <2> DEFINE IsLast(m) ==
                 /\ claim[m].record = id
                 /\ \A other \in UnacknowledgedDeletes :
                       claim[other].record = id => claim[other].timestamp <= claim[m].timestamp
  <2>2. OwnTombstones[id] = claim[CHOOSE m \in UnacknowledgedDeletes : IsLast(m)].timestamp
    BY DEF OwnTombstones
  <2>3. \E m \in UnacknowledgedDeletes : IsLast(m)
    <3> DEFINE ofId == {m \in UnacknowledgedDeletes : claim[m].record = id}
               times == {claim[m].timestamp : m \in ofId}
    <3>1. ofId # {} /\ ofId \subseteq Mutations
      BY DEF OwnTombstones, DeletedIds, UnacknowledgedDeletes, Unacknowledged, Batch
    <3>2. \A m \in ofId : claim[m].timestamp \in Nat
      BY DEF RowsOK, QueueType, QueueOf, RowOf, UnacknowledgedDeletes, Unacknowledged, Batch
    <3>3. IsFiniteSet(ofId)
      BY <3>1, FS_Subset, ReplicaAssumption
    <3>4. IsFiniteSet(times) /\ times # {} /\ times \subseteq Nat
      <4>1. [m \in ofId |-> claim[m].timestamp] \in Surjection(ofId, times)
        BY DEF Surjection
      <4>2. IsFiniteSet(times)
        <5> HIDE DEF ofId, times
        <5> QED BY <3>3, <4>1, FS_Surjection
      <4> QED BY <3>1, <3>2, <4>2
    <3>5. Latest(times) \in times /\ \A j \in times : j <= Latest(times)
      BY <3>4, LatestIsGreatest
    <3>6. PICK m \in ofId : claim[m].timestamp = Latest(times)
      BY <3>5
    <3> QED BY <3>5, <3>6
  <2> HIDE DEF IsLast
  <2>4. (CHOOSE m \in UnacknowledgedDeletes : IsLast(m)) \in UnacknowledgedDeletes
    BY <2>3
  <2> QED BY <2>1, <2>2, <2>4
<1>4. ASSUME NEW id \in DOMAIN ResetTombstones PROVE ResetTombstones[id] <= reply.at
  <2>1. \/ id \in DOMAIN ServerTombstones /\ ResetTombstones[id] = ServerTombstones[id]
        \/ id \in DOMAIN OwnTombstones /\ ResetTombstones[id] = OwnTombstones[id]
    BY <1>4 DEF ResetTombstones, Later
  <2> QED BY <1>2, <1>3, <2>1
<1> QED BY <1>1, <1>2, <1>3, <1>4

\* The tombstones that hide a record stay while its row and the answer do.
LEMMA TombstonesStay ==
    ASSUME IInv, [Next]_vars, reply' = reply, NEW id \in Ids, Row(id)' = Row(id)
    PROVE  /\ id \in DOMAIN Tombstones' <=> id \in DOMAIN Tombstones
           /\ id \in DOMAIN Tombstones => Tombstones'[id] = Tombstones[id]
<1> USE DEF IInv
<1> DEFINE own == LoadTombstones(cells, Table)
<1>1. DeletionPositions(id)' = DeletionPositions(id)
  BY LogGrows, PositionsStay
<1>2. /\ id \in DOMAIN own' <=> id \in DOMAIN own
      /\ id \in DOMAIN own => own'[id] = own[id]
  <2>1. /\ DOMAIN cells[Table] = Ids /\ DOMAIN cells'[Table] = Ids
    BY CopiesTyped DEF CopiesOK, CellsOK, CellsType
  <2> QED BY <2>1 DEF LoadTombstones, Row
<1>3. /\ id \in DOMAIN ServerTombstones' <=> id \in DOMAIN ServerTombstones
      /\ id \in DOMAIN ServerTombstones => ServerTombstones'[id] = ServerTombstones[id]
  <2>1. ASSUME DeletionPositions(id) # {}
        PROVE  log'[Latest(DeletionPositions(id))] = log[Latest(DeletionPositions(id))]
    <3>1. DeletionPositions(id) \in SUBSET (1 .. Len(log))
      BY PositionsType DEF DeletionPositions, ServerOK, AnswerOK
    <3>2. Latest(DeletionPositions(id)) \in 1 .. Len(log)
      BY <2>1, <3>1, LatestInLog DEF ServerOK
    <3> QED BY <3>2, LogGrows DEF Extends
  <2> QED BY <1>1, <2>1 DEF ServerTombstones
<1> HIDE DEF own
<1>4. Tombstones = Later(own, ServerTombstones) /\ Tombstones' = Later(own', ServerTombstones')
  BY DEF own, Tombstones
<1> QED BY <1>2, <1>3, <1>4 DEF Later

\* SavesNews is inductive: Merge leaves nothing that is hidden, and nothing hides it later.
LEMMA SavesNewsStay ==
    ASSUME Setting, IInv, LogInTime, AnswerFits, AllKnown, SavesNews, [Next]_vars
    PROVE  SavesNews'
<1> USE DEF IInv
<1> SUFFICES ASSUME stage' = "storing", NEW id \in todo'.save
             PROVE  ~Suppressed(id, mem[id], Tombstones)'
  BY DEF SavesNews
<1>1. id \in Ids /\ mem' \in RecordsType
  BY AnswerTyped, CopiesTyped DEF AnswerOK, CopiesOK
<1>2. CASE Merge
  <2>1. /\ ~reply.reset /\ todo'.save = ToSave /\ mem' = Visible /\ cells' = cells /\ Answered
        /\ reply' = reply
    BY <1>2 DEF Merge, Merging, Answered, durable, AnswerOK
  <2>2. id \notin Protected /\ Visible[id] # NoRecord
    BY <2>1 DEF ToSave
  <2>3. ~Suppressed(id, Visible[id], Tombstones)
    BY <1>1, <2>1, <2>2, VisibleIsKnown
  <2>4. Row(id)' = Row(id)
    BY <2>1 DEF Row
  <2> QED BY <1>1, <2>1, <2>3, <2>4, TombstonesStay DEF Suppressed
<1>3. CASE Replace
  BY <1>3 DEF Replace, Merging, AnswerInHand
<1>4. CASE ~Merge /\ ~Replace
  <2>1. stage = "storing" /\ reply' = reply /\ ~HandleSync /\ ~EndRun /\ ~RemapNext
    BY <1>4, RunMoves DEF HandleSync, EndRun, SendRequest, RemapNext
  <2>2. id \in todo.save /\ mem'[id] = mem[id] /\ Row(id)' = Row(id)
    <3>1. CASE SaveNext
      <4>1. PICK other \in todo.save : /\ cells' = SaveRecord(cells, Table, other, mem[other], SaveStamp(other))
                                       /\ todo' = [todo EXCEPT !.save = @ \ {other}]
        BY <3>1 DEF SaveNext
      <4>2. id # other /\ id \in todo.save
        BY <4>1 DEF AnswerOK
      <4>3. Row(id)' = Row(id)
        BY <1>1, <4>1, <4>2 DEF Row, SaveRecord, Put, CopiesOK, CellsOK, CellsType
      <4> QED BY <3>1, <4>2, <4>3 DEF SaveNext
    <3>2. CASE BuryNext
      BY <3>2 DEF BuryNext, AnswerOK
    <3>3. CASE Settle
      BY <3>3 DEF Settle, Settling
    <3>4. CASE \E m \in Mutations, operation \in Operations, i \in Ids : Mutate(m, operation, i)
      BY <2>1, <3>4 DEF Mutate, NewTask, Waiting
    <3>5. CASE \/ \E m \in Mutations : UserRetries(m) \/ UserDiscards(m)
               \/ \E i \in Ids, deleted \in BOOLEAN : ForeignWrite(i, deleted)
               \/ EnsureTable \/ SendRequest \/ HandleSync \/ HandleLate \/ UNCHANGED vars
      BY <2>1, <3>5 DEF UserRetries, UserDiscards, ForeignWrite, EnsureTable, SendRequest,
         HandleSync,
         HandleLate, NewTask, Waiting, durable, run, vars, Row
    <3>6. CASE PrimaryKeyBreaks \/ TransportFails \/ StatementFails \/ Crash \/ Restart \/ Finish
      BY <2>1, <3>6 DEF PrimaryKeyBreaks, TransportFails, StatementFails, Crash, Restart, Finish,
         Throw,
         EndRun, durable, Row, AnswerInHand
    <3> QED BY <1>4, <2>1, <3>1, <3>2, <3>3, <3>4, <3>5, <3>6 DEF Next, RunStep
  <2>3. ~Suppressed(id, mem[id], Tombstones)
    BY <2>1, <2>2 DEF SavesNews
  <2> QED BY <1>1, <2>1, <2>2, <2>3, TombstonesStay DEF Suppressed
<1> QED BY <1>2, <1>3, <1>4

\* What a new id does to rows, records and mutations.
LEMMA RenameMoves ==
    ASSUME Setting, IInv, AnswerFits, RemapNext
    PROVE  \E from \in Ids : \E to \in Ids :
              /\ to = AssignedId[from] /\ ~Final(from) /\ Final(to) /\ from # to
              /\ reply.renames = {from} /\ todo.rename = {from} /\ todo'.rename = {}
              /\ Row(from) # NoCell => Row(to) = NoCell /\ Row(to)' = Row(from)
              /\ Row(from) = NoCell => Row(to)' = Row(to)
              /\ Row(from)' = NoCell
              /\ mem'[from] = NoRecord
              /\ mem'[to] = IF mem[from] # NoRecord THEN mem[from] ELSE mem[to]
              /\ \A id \in Ids \ {from, to} : Row(id)' = Row(id) /\ mem'[id] = mem[id]
              /\ \A m \in Mutations : queue[m] # NoRow =>
                    /\ queue'[m] # NoRow /\ queue'[m].timestamp = queue[m].timestamp
                    /\ queue'[m].record = IF queue[m].record = from THEN to ELSE queue[m].record
              /\ \A m \in Mutations : queue[m] = NoRow => queue'[m] = NoRow
              /\ adrift' = {IF id = from THEN to ELSE id : id \in adrift} \cup Ghost(from)
<1> USE DEF IInv
<1>1. PICK from \in Ids :
          /\ ~Final(from) /\ reply.renames = {from} /\ todo.rename = {from}
          /\ ~RemapBreaks(cells, Table, from, AssignedId[from])
          /\ queue' = RemapQueue(queue, Table, from, AssignedId[from])
          /\ cells' = RemapCells(cells, Table, from, AssignedId[from])
          /\ todo'.rename = {} /\ todo'.save = todo.save /\ todo'.bury = todo.bury
          /\ adrift' = {IF id = from THEN AssignedId[id] ELSE id : id \in adrift} \cup Ghost(from)
          /\ mem' = Renamed(mem, reply.renames)
  BY OneRename
<1> DEFINE to == AssignedId[from]
<1>2. to \in Ids /\ Final(to) /\ from # to
  BY <1>1, AssignedIsFinal DEF Final
<1>3. cells \in CellsType
  BY DEF CopiesOK, CellsOK
<1>4. /\ Row(from) # NoCell => Row(to) = NoCell
      /\ Row(from) # NoCell => Row(to)' = Row(from)
      /\ Row(from) = NoCell => Row(to)' = Row(to)
      /\ Row(from)' = NoCell
      /\ \A id \in Ids \ {from, to} : Row(id)' = Row(id)
  <2>1. Row(from) # NoCell => Row(to) = NoCell
    BY <1>1 DEF RemapBreaks, Row
  <2>2. CASE Row(from) = NoCell
    BY <1>1, <2>2 DEF RemapCells, Row
  <2>3. CASE Row(from) # NoCell
    <3>1. cells' = [cells EXCEPT ![Table] = [@ EXCEPT ![from] = NoCell, ![to] = cells[Table][from]]]
      BY <1>1, <2>3 DEF RemapCells, Row
    <3>2. cells'[Table] = [cells[Table] EXCEPT ![from] = NoCell, ![to] = cells[Table][from]]
      BY <1>3, <3>1 DEF CellsType
    <3>3. DOMAIN cells[Table] = Ids
      BY <1>3 DEF CellsType
    <3> HIDE DEF to
    <3>4. \A id \in Ids : cells'[Table][id] = IF id = to THEN cells[Table][from]
                                              ELSE IF id = from THEN NoCell ELSE cells[Table][id]
      BY <1>2, <3>2, <3>3
    <3> QED BY <1>2, <2>1, <2>3, <3>4 DEF Row
  <2> QED BY <2>1, <2>2, <2>3
<1>5. /\ mem'[from] = NoRecord
      /\ mem'[to] = IF mem[from] # NoRecord THEN mem[from] ELSE mem[to]
      /\ \A id \in Ids \ {from, to} : mem'[id] = mem[id]
  <2>1. \A id \in Ids : mem'[id] = IF id = to /\ mem[from] # NoRecord THEN mem[from]
                                   ELSE IF id = from THEN NoRecord ELSE mem[id]
    BY <1>1 DEF Renamed
  <2> QED BY <1>2, <2>1
<1>6. /\ \A m \in Mutations : queue[m] # NoRow =>
            /\ queue'[m] # NoRow /\ queue'[m].timestamp = queue[m].timestamp
            /\ queue'[m].record = IF queue[m].record = from THEN to ELSE queue[m].record
      /\ \A m \in Mutations : queue[m] = NoRow => queue'[m] = NoRow
  <2>2. \A m \in Mutations : queue[m] # NoRow => queue[m] \in RowOf({Table}, Ids, Mutations)
    BY DEF RowsOK, QueueType, QueueOf
  <2>3. \A m \in Mutations :
           queue'[m] = IF queue[m] # NoRow /\ queue[m].table = Table /\ queue[m].record = from
                       THEN [queue[m] EXCEPT !.record = to] ELSE queue[m]
    BY <1>1 DEF RemapQueue, Queued, RowsOK, QueueType, QueueOf
  <2> HIDE DEF to
  <2>4. ASSUME NEW row \in RowOf({Table}, Ids, Mutations)
        PROVE  /\ row.table = Table /\ row.record \in Ids
               /\ [row EXCEPT !.record = to].timestamp = row.timestamp
               /\ [row EXCEPT !.record = to].record = to
               /\ [row EXCEPT !.record = to] \in RowOf({Table}, Ids, Mutations)
    BY <1>2 DEF RowOf
  <2>5. ASSUME NEW m \in Mutations, queue[m] # NoRow
        PROVE  /\ queue'[m] # NoRow /\ queue'[m].timestamp = queue[m].timestamp
               /\ queue'[m].record = IF queue[m].record = from THEN to ELSE queue[m].record
    <3> DEFINE row == queue[m]
    <3>1. row \in RowOf({Table}, Ids, Mutations)
      BY <2>2, <2>5
    <3>2. queue'[m] = IF row.record = from THEN [row EXCEPT !.record = to] ELSE row
      BY <2>3, <2>4, <2>5, <3>1
    <3> HIDE DEF row
    <3>3. CASE row.record = from
      BY <2>4, <3>1, <3>2, <3>3, NothingAssumption DEF row
    <3>4. CASE row.record # from
      BY <2>5, <3>2, <3>4 DEF row
    <3> QED BY <3>3, <3>4
  <2> QED BY <2>3, <2>5
<1>7. adrift' = {IF id = from THEN to ELSE id : id \in adrift} \cup Ghost(from)
  <2>1. \A id \in adrift : (IF id = from THEN AssignedId[id] ELSE id) = (IF id = from THEN to ELSE id)
    OBVIOUS
  <2>2. {IF id = from THEN AssignedId[id] ELSE id : id \in adrift}
          = {IF id = from THEN to ELSE id : id \in adrift}
    BY <2>1
  <2> QED BY <1>1, <2>2
<1> HIDE DEF to
<1>8. to = AssignedId[from]
  BY DEF to
<1> QED BY <1>1, <1>2, <1>4, <1>5, <1>6, <1>7, <1>8

\* How a row changes: what is written is what memory shows, of now or of the answer.
LEMMA CellMoves ==
    ASSUME Setting, IInv, LogInTime, AnswerFits, QueueTimes, AllKnown, SavesNews, [Next]_vars,
           NEW id \in Ids
    PROVE  \/ Row(id)' = Row(id)
           \/ Row(id)' = NoCell
           \/ /\ IsLive(Row(id)') => Row(id)'.value = mem'[id]
              /\ \/ /\ Row(id)'.updatedAt <= now'
                    /\ \E m \in Mutations, operation \in Operations :
                          Mutate(m, operation, id) /\ queue'[m].timestamp = Row(id)'.updatedAt
                 \/ Answered /\ Row(id)'.updatedAt <= reply.at
           \/ /\ RemapNext
              /\ \E from \in Ids : AssignedId[from] = id /\ ~Final(from) /\ Row(id)' = Row(from)
<1> USE DEF IInv
<1>1. cells \in CellsType
  BY DEF CopiesOK, CellsOK
<1>2. ASSUME NEW i \in Ids, NEW cell, cells' = Put(cells, Table, i, cell)
      PROVE  Row(id)' = IF id = i THEN cell ELSE Row(id)
  BY <1>1, <1>2 DEF Put, CellsType, Row
<1>3. ASSUME NEW m \in Mutations, NEW operation \in Operations, NEW i \in Ids, Mutate(m, operation, i),
             Row(id)' # Row(id)
      PROVE  /\ id = i /\ Row(id)'.updatedAt <= now' /\ queue'[m].timestamp = Row(id)'.updatedAt
             /\ IsLive(Row(id)') => Row(id)'.value = mem'[id]
  <2>1. PICK time \in Nat :
            /\ time <= now'
            /\ queue' = [queue EXCEPT ![m] = FreshRow(Draft(operation, i), time)]
            /\ cells' = IF operation = "DELETE" THEN RemoveRecord(cells, Table, i, time)
                        ELSE SaveRecord(cells, Table, i, Written(m, operation, i), time)
    BY <1>3, MutateStamps
  <2>2. queue'[m].timestamp = time
    BY <2>1 DEF FreshRow, RowsOK, QueueType, QueueOf
  <2>3. CASE operation = "DELETE"
    <3> DEFINE cell == TombstoneCell(IF cells[Table][i] = NoCell THEN Blank ELSE cells[Table][i].value, time)
    <3>1. cells' = Put(cells, Table, i, cell)
      BY <1>3, <2>1, <2>3 DEF RemoveRecord, Row
    <3>2. cell.updatedAt = time /\ ~IsLive(cell)
      BY DEF TombstoneCell, IsLive
    <3> HIDE DEF cell
    <3> QED BY <1>2, <1>3, <2>1, <2>2, <3>1, <3>2
  <2>4. CASE operation # "DELETE"
    <3> DEFINE record == Written(m, operation, i)
               cell == LiveCell(record, time)
    <3>1. cells' = SaveRecord(cells, Table, i, record, time) /\ mem' = [mem EXCEPT ![i] = record]
      BY <1>3, <2>1, <2>4 DEF Mutate
    <3>2. cells' = Put(cells, Table, i, cell)
      BY <1>3, <3>1 DEF SaveRecord, Row
    <3>3. cell.updatedAt = time /\ cell.value = record
      BY DEF LiveCell
    <3>4. mem'[i] = record
      BY <3>1 DEF CopiesOK, RecordsType
    <3> HIDE DEF cell, record
    <3> QED BY <1>2, <1>3, <2>1, <2>2, <3>2, <3>3, <3>4
  <2> QED BY <2>3, <2>4
<1>4. CASE RemapNext
  <2>1. PICK from \in Ids, to \in Ids :
            /\ to = AssignedId[from] /\ ~Final(from)
            /\ Row(from) # NoCell => Row(to) = NoCell /\ Row(to)' = Row(from)
            /\ Row(from) = NoCell => Row(to)' = Row(to)
            /\ Row(from)' = NoCell
            /\ \A i \in Ids \ {from, to} : Row(i)' = Row(i)
    BY <1>4, RenameMoves
  <2> QED BY <1>4, <2>1
<1>5. CASE Replace
  <2>1. /\ cells' = ReplaceTable(cells, Table, Snapshotted, ResetTombstones, reply.at)
        /\ mem' = Visible /\ Answered
    BY <1>5 DEF Replace, Merging, Answered
  <2>2. Row(id)' = IF id \in DOMAIN Snapshotted THEN LiveCell(Snapshotted[id], reply.at)
                   ELSE IF id \in DOMAIN ResetTombstones
                        THEN TombstoneCell(Blank, ResetTombstones[id])
                   ELSE NoCell
    BY <1>1, <2>1 DEF ReplaceTable, ReplacedTable, Row, CellsType
  <2>3. id \in DOMAIN Snapshotted => Snapshotted[id] = mem'[id]
    BY <2>1 DEF Snapshotted
  <2>4. id \in DOMAIN ResetTombstones => ResetTombstones[id] <= reply.at
    BY <2>1, TombstonesAreOlder
  <2>5. reply.at <= reply.at
    BY DEF AnswerOK
  <2> QED BY <2>1, <2>2, <2>3, <2>4, <2>5 DEF LiveCell, TombstoneCell, IsLive
<1>6. CASE SaveNext
  <2>1. PICK i \in todo.save : cells' = SaveRecord(cells, Table, i, mem[i], SaveStamp(i))
    BY <1>6 DEF SaveNext
  <2>2. i \in Ids /\ mem' = mem /\ stage = "storing" /\ Answered
    BY <1>6 DEF SaveNext, AnswerOK, Answered
  <2>3. SaveStamp(i) = reply.at /\ reply.at <= reply.at
    BY <2>1, <2>2, SaveStampIs DEF AnswerOK
  <2> DEFINE cell == LiveCell(mem[i], reply.at)
  <2>4. cells' = cells \/ cells' = Put(cells, Table, i, cell)
    BY <2>1, <2>3 DEF SaveRecord
  <2>5. cell.updatedAt = reply.at /\ cell.value = mem[i]
    BY DEF LiveCell
  <2>6. cells' = cells => Row(id)' = Row(id)
    BY DEF Row
  <2> HIDE DEF cell
  <2> QED BY <1>2, <2>2, <2>3, <2>4, <2>5, <2>6
<1>7. CASE BuryNext
  <2>1. PICK i \in todo.bury : cells' = RemoveRecord(cells, Table, i, ServerTombstones[i])
    BY <1>7 DEF BuryNext
  <2>2. i \in Ids /\ i \in DOMAIN ServerTombstones /\ Answered
    BY <1>7 DEF BuryNext, AnswerOK, Answered, AnswerInHand, ServerTombstones
  <2>3. ServerTombstones[i] <= reply.at
    BY <2>2, TombstonesAreOlder
  <2> DEFINE cell == TombstoneCell(IF cells[Table][i] = NoCell THEN Blank ELSE cells[Table][i].value,
                                   ServerTombstones[i])
  <2>4. cells' = cells \/ cells' = Put(cells, Table, i, cell)
    BY <2>1 DEF RemoveRecord
  <2>5. cell.updatedAt = ServerTombstones[i] /\ ~IsLive(cell)
    BY DEF TombstoneCell, IsLive
  <2>6. cells' = cells => Row(id)' = Row(id)
    BY DEF Row
  <2> HIDE DEF cell
  <2> QED BY <1>2, <2>2, <2>3, <2>4, <2>5, <2>6
<1>8. CASE Settle
  <2>1. PICK m \in unacked : Acknowledge(m) \/ UNCHANGED cells
    BY <1>8 DEF Settle
  <2>2. claim[m].record \in Ids
    BY DEF RowsOK, QueueType, QueueOf, RowOf
  <2>3. cells' = cells \/ cells' = Put(cells, Table, claim[m].record, NoCell)
    BY <2>1 DEF Acknowledge, ClearTombstone
  <2>4. cells' = cells => Row(id)' = Row(id)
    BY DEF Row
  <2> QED BY <1>2, <2>2, <2>3, <2>4
<1>9. CASE \/ \E m \in Mutations : UserRetries(m) \/ UserDiscards(m)
           \/ \E i \in Ids, deleted \in BOOLEAN : ForeignWrite(i, deleted)
           \/ EnsureTable \/ SendRequest \/ HandleSync \/ HandleLate \/ PrimaryKeyBreaks \/ TransportFails
           \/ StatementFails \/ Crash \/ Restart \/ Merge \/ Finish \/ UNCHANGED vars
  BY <1>9 DEF UserRetries, UserDiscards, ForeignWrite, EnsureTable, SendRequest, HandleSync,
     HandleLate,
     PrimaryKeyBreaks, TransportFails, StatementFails, Crash, Restart, Merge, Finish, durable,
     vars, Row
<1> QED BY <1>3, <1>4, <1>5, <1>6, <1>7, <1>8, <1>9 DEF Next, RunStep

\* How a record in memory changes.
LEMMA MemMoves ==
    ASSUME Setting, IInv, AnswerFits, [Next]_vars, NEW id \in Ids
    PROVE  \/ mem'[id] = mem[id]
           \/ mem'[id] = NoRecord
           \/ mem'[id].updatedAt = 0 \/ (mem[id] # NoRecord /\ mem'[id].updatedAt = mem[id].updatedAt)
           \/ RemapNext /\ \E from \in Ids : ~Final(from) /\ mem'[id] = mem[from]
           \/ Answered /\ mem'[id] = Visible[id]
           \/ mem'[id] = StoredRecord(id)
<1> USE DEF IInv
<1>1. mem \in RecordsType
  BY DEF CopiesOK
<1>2. ASSUME NEW m \in Mutations, NEW operation \in Operations, NEW i \in Ids, Mutate(m, operation, i)
      PROVE  \/ mem'[id] = mem[id]
             \/ mem'[id] = NoRecord
             \/ mem'[id].updatedAt = 0 \/ (mem[id] # NoRecord /\ mem'[id].updatedAt = mem[id].updatedAt)
  <2>1. CASE operation = "DELETE"
    BY <1>1, <1>2, <2>1 DEF Mutate, RecordsType
  <2>2. CASE operation # "DELETE"
    <3>1. mem' = [mem EXCEPT ![i] = Written(m, operation, i)]
      BY <1>2, <2>2 DEF Mutate
    <3>2. operation # "CREATE" => mem[i] # NoRecord
      BY <1>2 DEF Mutate
    <3>3. Written(m, operation, i).updatedAt = IF operation = "UPDATE" THEN mem[i].updatedAt ELSE 0
      BY DEF Written, NewRecord
    <3>4. operation \in {"CREATE", "UPDATE"}
      BY <2>2 DEF Operations
    <3> QED BY <1>1, <3>1, <3>2, <3>3, <3>4 DEF RecordsType
  <2> QED BY <2>1, <2>2
<1>3. CASE RemapNext
  <2>1. PICK from \in Ids, to \in Ids :
            /\ ~Final(from) /\ mem'[from] = NoRecord
            /\ mem'[to] = IF mem[from] # NoRecord THEN mem[from] ELSE mem[to]
            /\ \A i \in Ids \ {from, to} : mem'[i] = mem[i]
    BY <1>3, RenameMoves
  <2> QED BY <1>3, <2>1
<1>4. CASE Merge \/ Replace
  BY <1>4 DEF Merge, Replace, Merging, Answered
<1>5. CASE Crash \/ EnsureTable \/ SendRequest
  <2>1. Load => mem'[id] \in {mem[id], StoredRecord(id)}
    BY DEF Load
  <2> QED BY <1>5, <2>1 DEF Crash, EnsureTable, SendRequest
<1>6. CASE \/ \E m \in Mutations : UserRetries(m) \/ UserDiscards(m)
           \/ \E i \in Ids, deleted \in BOOLEAN : ForeignWrite(i, deleted)
           \/ HandleSync \/ HandleLate \/ PrimaryKeyBreaks \/ TransportFails \/ StatementFails
           \/ Restart \/ SaveNext \/ BuryNext \/ Settle \/ Finish \/ UNCHANGED vars
  BY <1>6 DEF UserRetries, UserDiscards, ForeignWrite, HandleSync, HandleLate, PrimaryKeyBreaks,
     TransportFails, StatementFails, Restart, SaveNext, BuryNext, Settle, Finish, vars
<1> QED BY <1>2, <1>3, <1>4, <1>5, <1>6 DEF Next, RunStep

\* The device never knows less of the log, and what it knows does not change.
LEMMA BoundGrows ==
    ASSUME IInv, [Next]_vars
    PROVE  /\ Bound \in Nat /\ Bound <= Len(log) /\ Bound' \in Nat /\ Bound <= Bound'
           /\ Bound' <= Len(log') /\ Len(log) \in Nat /\ Len(log) <= Len(log')
           /\ \A k \in 1 .. Len(log) : log'[k] = log[k]
<1> USE DEF IInv
<1>1. /\ Len(log) \in Nat /\ Len(log') \in Nat /\ Len(log) <= Len(log')
      /\ \A k \in 1 .. Len(log) : log'[k] = log[k]
  <2>1. ServerOK /\ ServerOK'
    BY ServerTyped
  <2>2. Len(log) \in Nat /\ Len(log') \in Nat
    BY <2>1, LenProperties DEF ServerOK, LogType
  <2> QED BY <2>2, LogGrows DEF Extends
<1>2. reply.to \in Nat /\ reply.to <= Len(log) /\ reply'.to \in Nat /\ reply'.to <= Len(log')
  <2>1. AnswerOK /\ AnswerOK'
    BY AnswerTyped
  <2> QED BY <1>1, <2>1 DEF AnswerOK
<1>3. Answered' => (reply' = reply /\ Answered) \/ reply'.to = Len(log')
  <2>1. HandleSync => reply'.to = Len(log')
    BY DEF HandleSync, Answers
  <2> QED BY <2>1, SameAnswer
<1> QED BY <1>1, <1>2, <1>3 DEF Bound

\* AllKnown is inductive: whatever is shown was written here or is a change of the log.
LEMMA AllStaysKnown ==
    ASSUME Setting, IInv, LogInTime, SameMutation, AnswerFits, QueueTimes, AllKnown, SavesNews, [Next]_vars
    PROVE  AllKnown'
<1> USE DEF IInv
<1> DEFINE Old(time, id) == time = 0 \/ \E k \in 1 .. Bound : log[k].id = id /\ log[k].revision = time
           New(time, id) == time = 0 \/ \E k \in 1 .. Bound' : log'[k].id = id /\ log'[k].revision = time
<1>1. ASSUME NEW id, NEW time, Old(time, id) PROVE New(time, id)
  BY <1>1, BoundGrows
<1>2. ASSUME NEW id \in Ids
      PROVE  /\ mem[id] # NoRecord => Old(mem[id].updatedAt, id)
             /\ StoredRecord(id) # NoRecord => Old(StoredRecord(id).updatedAt, id)
             /\ Answered /\ Visible[id] # NoRecord => Old(Visible[id].updatedAt, id)
  <2>1. Answered => Known(Visible[id], id, Bound)
    BY VisibleIsKnown DEF Bound
  <2> QED BY <2>1 DEF AllKnown, Known
<1>3. ASSUME NEW from \in Ids, ~Final(from), NEW time, Old(time, from) PROVE time = 0
  BY <1>3, BoundGrows DEF SameMutation
<1> HIDE DEF Old, New
<1>4. ASSUME NEW id \in Ids, mem'[id] # NoRecord PROVE New(mem'[id].updatedAt, id)
  <2>1. Old(0, id)
    BY DEF Old
  <2>2. CASE mem'[id] = mem[id]
    BY <1>1, <1>2, <1>4, <2>2
  <2>3. CASE mem'[id].updatedAt = 0 \/ (mem[id] # NoRecord /\ mem'[id].updatedAt = mem[id].updatedAt)
    BY <1>1, <1>2, <2>1, <2>3
  <2>4. CASE \E from \in Ids : ~Final(from) /\ mem'[id] = mem[from]
    BY <1>1, <1>2, <1>3, <1>4, <2>1, <2>4
  <2>5. CASE Answered /\ mem'[id] = Visible[id]
    BY <1>1, <1>2, <1>4, <2>5
  <2>6. CASE mem'[id] = StoredRecord(id)
    BY <1>1, <1>2, <1>4, <2>6
  <2> QED BY <1>4, <2>2, <2>3, <2>4, <2>5, <2>6, MemMoves
<1>5. ASSUME NEW id \in Ids, StoredRecord(id)' # NoRecord PROVE New(StoredRecord(id)'.updatedAt, id)
  <2>1. \A i \in Ids : StoredRecord(i) = IF IsLive(Row(i)) THEN Row(i).value ELSE NoRecord
    BY DEF StoredRecord, Row
  <2>2. StoredRecord(id)' = IF IsLive(Row(id)') THEN Row(id)'.value ELSE NoRecord
    BY DEF StoredRecord, Row
  <2>3. IsLive(Row(id)')
    BY <1>5, <2>2
  <2>4. CASE Row(id)' = Row(id)
    BY <1>1, <1>2, <1>5, <2>1, <2>2, <2>4
  <2>5. CASE Row(id)' = NoCell
    BY <2>3, <2>5 DEF IsLive
  <2>6. CASE Row(id)'.value = mem'[id]
    BY <1>4, <1>5, <2>2, <2>3, <2>6
  <2>7. CASE \E from \in Ids : ~Final(from) /\ Row(id)' = Row(from)
    <3>1. PICK from \in Ids : ~Final(from) /\ Row(id)' = Row(from)
      BY <2>7
    <3>2. StoredRecord(id)' = StoredRecord(from)
      BY <2>1, <2>2, <3>1
    <3>3. StoredRecord(id)'.updatedAt = 0
      BY <1>2, <1>3, <1>5, <3>1, <3>2
    <3>4. Old(0, id)
      BY DEF Old
    <3> QED BY <1>1, <3>3, <3>4
  <2> QED BY <2>3, <2>4, <2>5, <2>6, <2>7, CellMoves
<1> QED BY <1>4, <1>5 DEF AllKnown, Known, New

\* No row is of later than now, and one that is newer than the answer has its mutation
\* in the queue.
RowTimes == \A id \in Ids : Row(id) # NoCell => Row(id).updatedAt <= now

\* A row that is newer than the answer was written by a mutation that the answer does not
\* know.
NewRows ==
    Answered => \A id \in Ids : Row(id) # NoCell /\ Row(id).updatedAt > reply.at =>
        \E m \in Mutations : Newcomer(m) /\ queue[m].record = id

\* RowTimes is inductive.
LEMMA RowTimesStay ==
    ASSUME Setting, IInv, LogInTime, AnswerFits, QueueTimes, AllKnown, SavesNews, RowTimes, [Next]_vars
    PROVE  RowTimes'
<1> USE DEF IInv
<1> SUFFICES ASSUME NEW id \in Ids, Row(id)' # NoCell PROVE Row(id)'.updatedAt <= now'
  BY DEF RowTimes
<1>1. now \in Nat /\ now' \in Nat /\ now <= now'
  BY LogGains, ServerTyped DEF ServerOK
<1>2. Answered => reply.at \in Nat /\ reply.at <= now
  BY DEF AnswerFits, AnswerOK
<1>3. \A i \in Ids : Row(i) # NoCell => Row(i).updatedAt \in Nat /\ Row(i).updatedAt <= now
  BY DEF RowTimes, Row, CopiesOK, CellsOK, CellsType, Cell
<1>4. Row(id)'.updatedAt \in Nat
  BY CopiesTyped DEF Row, CopiesOK, CellsOK, CellsType, Cell
<1> QED BY <1>1, <1>2, <1>3, <1>4, CellMoves

\* What is written after the answer was made stays until the answer is stored.
LEMMA NewcomerStays ==
    ASSUME Setting, IInv, LogInTime, Named, Newcomers, Answered, Answered', ~HandleSync, [Next]_vars,
           NEW m \in Mutations, Newcomer(m)
    PROVE  /\ Newcomer(m)' /\ reply' = reply
           /\ \/ queue'[m].record = queue[m].record
              \/ /\ RemapNext /\ queue[m].record \in todo.rename
                 /\ queue'[m].record = AssignedId[queue[m].record]
<1> USE DEF IInv
<1>1. queue[m] # NoRow /\ queue[m].status = "PENDING" /\ claim[m] = NoRow
  BY DEF Newcomers, Newcomer
<1>2. ~UserDiscards(m)
  BY <1>1 DEF UserDiscards, WithStatus
<1>3. m \notin unacked
  BY <1>1 DEF RowsOK
<1>4. queue'[m] # NoRow
  BY <1>1, <1>2, <1>3, QueueMoves
<1>5. reply' = reply
  BY SameAnswer
<1> QED BY <1>1, <1>4, <1>5, QueueMoves DEF Newcomer

\* NewRows is inductive.
LEMMA NewRowsStay ==
    ASSUME Setting, IInv, LogInTime, Named, AnswerFits, QueueTimes, Newcomers, AllKnown, SavesNews, RowTimes,
           NewRows, [Next]_vars
    PROVE  NewRows'
<1> USE DEF IInv
<1> SUFFICES ASSUME Answered', NEW id \in Ids, Row(id)' # NoCell, Row(id)'.updatedAt > reply'.at
             PROVE  \E m \in Mutations : Newcomer(m)' /\ queue'[m].record = id
  BY DEF NewRows
<1>1. now \in Nat /\ now' \in Nat /\ now <= now'
  BY LogGains, ServerTyped DEF ServerOK
<1>2. CASE HandleSync
  <2>1. reply'.at = now' /\ Row(id)' = Row(id)
    BY <1>2 DEF HandleSync, Answers, durable, Row
  <2>2. Row(id).updatedAt \in Nat /\ Row(id).updatedAt <= now
    BY <2>1 DEF RowTimes, Row, CopiesOK, CellsOK, CellsType, Cell
  <2> QED BY <1>1, <2>1, <2>2
<1>3. CASE ~HandleSync
  <2>1. Answered /\ reply' = reply /\ reply.at \in Nat
    BY <1>3, SameAnswer DEF AnswerOK
  <2>2. CASE RemapNext
    <3>1. PICK from \in Ids, to \in Ids :
              /\ to = AssignedId[from] /\ from # to /\ todo.rename = {from}
              /\ Row(from) # NoCell => Row(to) = NoCell /\ Row(to)' = Row(from)
              /\ Row(from) = NoCell => Row(to)' = Row(to)
              /\ Row(from)' = NoCell
              /\ \A i \in Ids \ {from, to} : Row(i)' = Row(i) /\ mem'[i] = mem[i]
              /\ \A m \in Mutations : queue[m] # NoRow =>
                    /\ queue'[m] # NoRow /\ queue'[m].timestamp = queue[m].timestamp
                    /\ queue'[m].record = IF queue[m].record = from THEN to ELSE queue[m].record
      BY <2>2, RenameMoves
    <3>2. PICK old \in Ids : Row(id)' = Row(old) /\ id = (IF old = from THEN to ELSE old)
      BY <3>1
    <3>3. PICK m \in Mutations : Newcomer(m) /\ queue[m].record = old
      <4>1. Row(old) # NoCell /\ Row(old).updatedAt > reply.at
        BY <2>1, <3>2
      <4> QED BY <2>1, <4>1 DEF NewRows
    <3>4. Newcomer(m)'
      BY <1>3, <2>1, <3>3, NewcomerStays
    <3>5. queue'[m].record = id
      <4>1. queue[m] # NoRow
        BY <3>3 DEF Newcomer
      <4>2. queue'[m].record = IF old = from THEN to ELSE old
        BY <3>1, <3>3, <4>1
      <4> QED BY <3>2, <4>2
    <3> QED BY <3>4, <3>5
  <2>3. CASE ~RemapNext /\ Row(id)' = Row(id)
    <3>1. PICK m \in Mutations : Newcomer(m) /\ queue[m].record = id
      BY <2>1, <2>3 DEF NewRows
    <3> QED BY <1>3, <2>1, <2>3, <3>1, NewcomerStays
  <2>4. CASE \E m \in Mutations, operation \in Operations :
                Mutate(m, operation, id) /\ queue'[m].timestamp = Row(id)'.updatedAt
    <3>1. PICK m \in Mutations, operation \in Operations :
              Mutate(m, operation, id) /\ queue'[m].timestamp = Row(id)'.updatedAt
      BY <2>4
    <3>2. PICK time : /\ queue' = [queue EXCEPT ![m] = FreshRow(Draft(operation, id), time)]
                      /\ FreshRow(Draft(operation, id), time) # NoRow
      BY <3>1, MutateStamps
    <3>3. queue'[m] = FreshRow(Draft(operation, id), time)
      BY <3>2 DEF RowsOK, QueueType, QueueOf
    <3>4. queue'[m] # NoRow /\ queue'[m].record = id
      BY <3>2, <3>3 DEF FreshRow, Draft
    <3> QED BY <3>1, <3>4 DEF Newcomer
  <2>5. CASE Row(id)'.updatedAt <= reply.at
    <3>1. Row(id)'.updatedAt \in Nat
      BY CopiesTyped DEF Row, CopiesOK, CellsOK, CellsType, Cell
    <3> QED BY <2>1, <2>5, <3>1
  <2> QED BY <2>1, <2>2, <2>3, <2>4, <2>5, CellMoves
<1> QED BY <1>2, <1>3
----------------------------------------------------------------------------
(***************************************************************************)
(* The copies: what is invariant of them                                   *)
(***************************************************************************)
\* What the copies rest on.
Ground ==
    /\ IInv /\ LogInTime /\ Named /\ SameMutation /\ AnswerFits /\ BatchQueued /\ RenamedAway
    /\ QueueTimes /\ Newcomers /\ AllKnown /\ SavesNews /\ RowTimes /\ NewRows

\* All this is invariant.
LEMMA GroundHolds ==
    ASSUME Setting
    PROVE  Spec => []Ground
<1>1. Init => Ground
  <2> SUFFICES ASSUME Init PROVE Ground
    OBVIOUS
  <2> USE DEF Init
  <2>1. RowsOK
    BY DEF RowsOK, QueueType, QueueOf, NoRows
  <2>2. CopiesOK
    BY DEF CopiesOK, CellsOK, CellsType, HoldsRecords, RecordsType, IsLive
  <2>3. ServerOK /\ LogInTime
    BY ReplicaAssumption DEF ServerOK, LogType, LogInTime, InTime, Ahead
  <2>4. AnswerOK
    BY DEF AnswerOK, Nothing, NoReply
  <2>5. SpentOK /\ AnswerInHand /\ MemoryOK
    BY ReplicaAssumption DEF SpentOK, AnswerInHand, MemoryOK, Nothing
  <2>6. Named /\ SameMutation
    BY DEF Named, SameMutation, NoRows, NoReply, InLog
  <2>7. ~Answered
    BY DEF Answered
  <2>8. AnswerFits /\ BatchQueued /\ RenamedAway /\ Newcomers /\ SavesNews /\ NewRows
    BY <2>7 DEF AnswerFits, BatchQueued, RenamedAway, Newcomers, SavesNews, NewRows
  <2>9. QueueTimes
    BY DEF QueueTimes, NoRows
  <2>10. \A id \in Ids : Row(id) = NoCell /\ StoredRecord(id) = NoRecord /\ mem[id] = NoRecord
    BY DEF Row, StoredRecord, IsLive
  <2>11. AllKnown /\ RowTimes
    BY <2>10 DEF AllKnown, Known, RowTimes
  <2> QED BY <2>1, <2>2, <2>3, <2>4, <2>5, <2>6, <2>8, <2>9, <2>11 DEF Ground, IInv
<1>2. Ground /\ [Next]_vars => Ground'
  <2> SUFFICES ASSUME Ground, [Next]_vars PROVE Ground'
    OBVIOUS
  <2> USE DEF Ground
  <2>1. IInv'
    BY RowsTyped, CopiesTyped, ServerTyped, AnswerTyped, SpentTyped, AnswerStaysInHand,
       MemoryTyped DEF IInv
  <2>2. LogInTime' /\ Named' /\ SameMutation'
    BY LogStaysInTime, NamedStays, SameMutationStays DEF IInv
  <2>3. AnswerFits' /\ BatchQueued' /\ RenamedAway'
    BY AnswerFitsStill, BatchStaysQueued, RenamedStaysAway
  <2>4. QueueTimes' /\ Newcomers'
    BY QueueTimesStay, NewcomersStay
  <2>5. AllKnown' /\ SavesNews' /\ RowTimes' /\ NewRows'
    BY AllStaysKnown, SavesNewsStay, RowTimesStay, NewRowsStay
  <2> QED BY <2>1, <2>2, <2>3, <2>4, <2>5
<1> QED BY <1>1, <1>2, PTL DEF Spec

\* A mutation of the record that the first n changes do not have.
Unsettled(id, n) == \E m \in Mutations : queue[m] # NoRow /\ queue[m].record = id /\ ~InLog(m, n)

\* What waits for the server need not follow it.
Waits(id, n) == IF Final(id) THEN Unsettled(id, n) ELSE Pending(id)

\* The copy is what the server had of id after n changes or more, or it waits.
Follows(copy, id, n) ==
    (\E k \in n .. Len(log) : Shows(copy) = ServerShows(id, k)) \/ Waits(id, n)

\* How many changes memory has: all of the answer, once it is merged.
MemHorizon == IF stage = "storing" THEN reply.to ELSE cursor

\* How many changes the stored row has: all of the answer, once it is written.
RowHorizon(id) ==
    IF stage = "storing" /\ id \notin todo.save \cup todo.bury THEN reply.to ELSE cursor

\* Memory follows the server as far as its horizon.
MemFollows == up /\ loaded = "whole" => \A id \in Ids \ adrift : Follows(mem[id], id, MemHorizon)

\* The stored rows follow the server as far as their horizons.
RowFollows == \A id \in Ids \ adrift : Follows(StoredRecord(id), id, RowHorizon(id))

\* A row that is as new as a change beyond the cursor, which the row will outlast, is of
\* that change already, or has a mutation that the server has not applied by then.
LastKnown(id) == LastChange(log, AssignedId[id], Bound)

\* The row outlasts a change that the device has not stored.
Late(id) ==
    /\ LastKnown(id) > cursor
    /\ Row(id) # NoCell /\ log[LastKnown(id)].revision <= Row(id).updatedAt
    /\ Final(id) \/ Pending(id)

\* It is level with that change, or it waits for a mutation beyond it.
IsLevel(id) ==
    \/ Shows(StoredRecord(id)) = ServerShows(AssignedId[id], LastKnown(id))
    \/ Unsettled(id, LastKnown(id))

\* A row that outlasts a change is level with it.
LateRows == \A id \in Ids \ adrift : Late(id) => IsLevel(id)

\* What is still to be stored of an answer.
ChangesLeft ==
    stage = "storing" => \A id \in todo.save \cup todo.bury :
        LET k == LastChange(log, id, reply.to) IN
        /\ ~reply.reset /\ k > cursor
        /\ \/ id \notin adrift
           \/ Row(id) = NoCell
           \/ Row(id).updatedAt < log[k].revision
           => Shows(mem[id]) = ServerShows(id, reply.to) \/ Unsettled(id, reply.to)
        /\ id \notin todo.save /\ ~log[k].deleted =>
              Row(id) # NoCell /\ Row(id).updatedAt >= log[k].revision

\* The numbers that the arguments compare.
LEMMA Numbers ==
    ASSUME Ground
    PROVE  /\ Len(log) \in Nat /\ cursor \in Nat /\ cursor <= Len(log) /\ now \in Nat
           /\ reply.to \in Nat /\ reply.to <= Len(log) /\ reply.at \in Nat
           /\ Answered => cursor <= reply.to
           /\ \A k \in 1 .. Len(log) : log[k].revision \in Nat /\ log[k].id \in Ids
           /\ \A j, k \in 1 .. Len(log) : j <= k => log[j].revision <= log[k].revision
           /\ \A id \in Ids : Row(id) # NoCell => Row(id).updatedAt \in Nat
<1> USE DEF Ground, IInv
<1>1. Len(log) \in Nat /\ \A k \in 1 .. Len(log) : log[k] \in ChangeOf(Ids, Values)
  BY LogTyped DEF ServerOK
<1>2. \A k \in 1 .. Len(log) : log[k].revision \in Nat /\ log[k].id \in Ids
  BY <1>1 DEF ChangeOf
<1>3. \A j, k \in 1 .. Len(log) : j <= k => log[j].revision <= log[k].revision
  BY LogFacts
<1>4. \A id \in Ids : Row(id) # NoCell => Row(id).updatedAt \in Nat
  BY DEF Row, CopiesOK, CellsOK, CellsType, Cell
<1> QED BY <1>1, <1>2, <1>3, <1>4 DEF AnswerOK, ServerOK, AnswerFits

\* What waits beyond a change waits beyond every earlier one.
LEMMA UnsettledDown ==
    ASSUME NEW id, NEW a \in Nat, NEW b \in 0 .. a, Unsettled(id, a)
    PROVE  Unsettled(id, b)
BY DEF Unsettled, InLog

\* What waits beyond a change waits beyond the changes of other records that follow it.
LEMMA UnsettledUp ==
    ASSUME Ground, NEW id \in Ids, NEW a \in Nat, NEW b \in Nat, b <= Len(log),
           \A k \in a + 1 .. b : log[k].id # AssignedId[id], Unsettled(id, a)
    PROVE  Unsettled(id, b)
<1>1. PICK m \in Mutations : queue[m] # NoRow /\ queue[m].record = id /\ ~InLog(m, a)
  BY DEF Unsettled
<1>2. ASSUME NEW k \in 1 .. b, log[k].value = m PROVE FALSE
  <2>1. k \in 1 .. Len(log)
    BY Numbers
  <2>2. log[k].id = AssignedId[id]
    BY <1>1, <1>2, <2>1 DEF Ground, SameMutation
  <2>3. k \in 1 .. a
    BY <2>2
  <2> QED BY <1>1, <1>2, <2>3 DEF InLog
<1> QED BY <1>1, <1>2 DEF Unsettled, InLog

\* What waits beyond a change goes on waiting: a mutation leaves the queue when the server
\* has it, and then there is a later change, or when the user discards it.
LEMMA UnsettledOn ==
    ASSUME Setting, Ground, [Next]_vars, ~RemapNext, NEW id \in Ids, id \notin adrift',
           NEW n \in Nat, n <= Len(log), Unsettled(id, n),
           Settle => \A k \in n + 1 .. reply.to : log[k].id # AssignedId[id]
    PROVE  Unsettled(id, n)'
<1> USE DEF Ground
<1>1. PICK m \in Mutations : queue[m] # NoRow /\ queue[m].record = id /\ ~InLog(m, n)
  BY DEF Unsettled
<1>2. ~UserDiscards(m)
  BY <1>1 DEF UserDiscards
<1>3. ASSUME Settle, m \in reply.ack PROVE FALSE
  <2>1. InLog(m, reply.to)
    BY <1>3 DEF AnswerFits, Answered, Settle, Settling
  <2>2. PICK k \in 1 .. reply.to : log[k].value = m
    BY <2>1 DEF InLog
  <2>3. k \in 1 .. Len(log)
    BY Numbers
  <2>4. log[k].id = AssignedId[id]
    BY <1>1, <2>2, <2>3 DEF SameMutation
  <2>5. k \in 1 .. n
    BY <1>3, <2>4
  <2> QED BY <1>1, <2>2, <2>5 DEF InLog
<1>4. queue'[m] # NoRow /\ queue'[m].record = id
  BY <1>1, <1>2, <1>3, QueueMoves
<1>5. ~InLog(m, n)'
  BY <1>1, InLogStays, LogGrows DEF IInv
<1> QED BY <1>4, <1>5 DEF Unsettled

\* What is queued under an id that the server replaces stays queued until it is renamed.
LEMMA PendingOn ==
    ASSUME Setting, Ground, [Next]_vars, ~RemapNext, NEW id \in Ids, id \notin adrift',
           ~Final(id), Pending(id)
    PROVE  Pending(id)'
<1> USE DEF Ground
<1>1. PICK m \in Mutations : queue[m] # NoRow /\ queue[m].record = id
  BY DEF Pending, Queued, IInv, RowsOK, QueueType, QueueOf
<1>2. ~UserDiscards(m)
  BY <1>1 DEF UserDiscards
<1>3. ASSUME Settle, m \in unacked, m \in reply.ack PROVE FALSE
  <2>1. claim[m] # NoRow /\ stage = "storing" /\ todo.rename = {}
    BY <1>3 DEF IInv, RowsOK, Settle, Settling, AnswerFits, Answered
  <2>2. claim[m].record = id
    BY <1>1, <2>1 DEF SameMutation
  <2>3. InLog(m, reply.to) /\ m \in Batch
    BY <1>3, <2>1 DEF AnswerFits, Answered, Batch
  <2>4. id \in reply.renames
    BY <2>1, <2>2, <2>3 DEF AnswerFits, Answered
  <2> QED BY <2>1, <2>4 DEF RenamedAway, Answered
<1>4. queue'[m] # NoRow /\ queue'[m].record = id
  BY <1>1, <1>2, <1>3, QueueMoves
<1>5. queue' \in QueueType
  BY RowsTyped DEF IInv, RowsOK
<1> QED BY <1>4, <1>5 DEF Pending, Queued, QueueType, QueueOf

\* What follows the server, or waits, goes on doing so.
LEMMA FollowsOn ==
    ASSUME Setting, Ground, [Next]_vars, ~RemapNext, NEW id \in Ids, id \notin adrift',
           NEW copy, NEW n \in Nat, n <= Len(log), Follows(copy, id, n), NEW g \in 0 .. n,
           Settle => n >= reply.to
    PROVE  Follows(copy, id, g)'
<1>1. Len(log) \in Nat /\ Len(log') \in Nat /\ Len(log) <= Len(log')
  BY BoundGrows DEF Ground
<1>2. CASE \E k \in n .. Len(log) : Shows(copy) = ServerShows(id, k)
  <2>1. PICK k \in n .. Len(log) : Shows(copy) = ServerShows(id, k)
    BY <1>2
  <2>2. k \in Nat /\ k <= Len(log) /\ k \in g .. Len(log')
    BY <1>1
  <2>3. ServerShows(id, k)' = ServerShows(id, k)
    BY <2>2, ServerShowsStays, LogGrows DEF Ground, IInv
  <2> QED BY <2>1, <2>2, <2>3 DEF Follows, Shows
<1>3. CASE Waits(id, n)
  <2>1. CASE Final(id)
    <3>1. Unsettled(id, g)
      BY <1>3, <2>1, UnsettledDown DEF Waits
    <3>2. Settle => reply.to \in Nat /\ n >= reply.to
      BY Numbers
    <3>3. Unsettled(id, n)'
      BY <1>3, <2>1, <3>2, UnsettledOn DEF Waits
    <3>4. \A m : InLog(m, g)' => InLog(m, n)'
      BY DEF InLog
    <3>5. Unsettled(id, g)'
      BY <3>3, <3>4 DEF Unsettled
    <3> QED BY <2>1, <3>5 DEF Follows, Waits, Final
  <2>2. CASE ~Final(id)
    BY <1>3, <2>2, PendingOn DEF Follows, Waits, Final
  <2> QED BY <2>1, <2>2
<1> QED BY <1>2, <1>3 DEF Follows

\* What was just written waits.
LEMMA MutateWaits ==
    ASSUME Setting, Ground, [Next]_vars, NEW m \in Mutations, NEW operation \in Operations,
           NEW id \in Ids, Mutate(m, operation, id)
    PROVE  \A n \in 0 .. Len(log) : Unsettled(id, n)' /\ Waits(id, n)'
<1> USE DEF Ground, IInv
<1>1. queue' \in QueueType /\ log' = log
  BY RowsTyped DEF RowsOK, Mutate, server
<1>2. PICK time : /\ queue'[m] = FreshRow(Draft(operation, id), time)
                  /\ FreshRow(Draft(operation, id), time) # NoRow
  BY MutateStamps DEF RowsOK, QueueType, QueueOf
<1>3. queue'[m].record = id /\ queue'[m] # NoRow
  BY <1>2 DEF FreshRow, Draft
<1>4. ~InLog(m, Len(log))
  BY DEF Mutate, Named
<1>5. ASSUME NEW n \in 0 .. Len(log) PROVE ~InLog(m, n)'
  BY <1>1, <1>4, <1>5, Numbers DEF InLog
<1>6. \A n \in 0 .. Len(log) : Unsettled(id, n)'
  BY <1>3, <1>5 DEF Unsettled
<1>7. Pending(id)'
  BY <1>1, <1>3 DEF Pending, Queued, QueueType, QueueOf
<1> QED BY <1>6, <1>7 DEF Waits

\* A row that is newer than the answer waits.
LEMMA NewRowWaits ==
    ASSUME Ground, Answered, NEW id \in Ids, Row(id) # NoCell, Row(id).updatedAt > reply.at
    PROVE  \A n \in 0 .. Len(log) : Unsettled(id, n) /\ Waits(id, n)
<1> USE DEF Ground
<1>1. PICK m \in Mutations : Newcomer(m) /\ queue[m].record = id
  BY DEF NewRows
<1>2. queue[m] # NoRow /\ ~InLog(m, Len(log))
  BY <1>1 DEF Newcomers, Newcomer, Named
<1>3. \A n \in 0 .. Len(log) : ~InLog(m, n)
  BY <1>2, Numbers DEF InLog
<1>4. \A n \in 0 .. Len(log) : Unsettled(id, n)
  BY <1>1, <1>2, <1>3 DEF Unsettled
<1>5. Pending(id)
  BY <1>1, <1>2 DEF Pending, Queued, IInv, RowsOK, QueueType, QueueOf
<1> QED BY <1>4, <1>5 DEF Waits

\* A row that nothing writes stays level.
LEMMA LateOn ==
    ASSUME Setting, Ground, Ground', LateRows, [Next]_vars, ~RemapNext, cursor' >= cursor,
           NEW id \in Ids, id \notin adrift, id \notin adrift', Row(id)' = Row(id),
           \A m \in Mutations : queue'[m] # NoRow /\ queue'[m].record = id =>
               queue[m] # NoRow /\ queue[m].record = id,
           Late(id)'
    PROVE  IsLevel(id)'
<1> USE DEF Ground
<1> SUFFICES ASSUME NEW k, k = LastKnown(id), NEW j, j = LastChange(log', AssignedId[id], Bound')
             PROVE  IsLevel(id)'
  OBVIOUS
<1>1. j = LastKnown(id)'
  BY DEF LastKnown
<1>2. /\ Len(log) \in Nat /\ Len(log') \in Nat /\ Len(log) <= Len(log') /\ Bound \in Nat
      /\ Bound <= Len(log) /\ Bound' \in Nat /\ Bound <= Bound' /\ Bound' <= Len(log')
      /\ \A i \in 1 .. Len(log) : log'[i] = log[i]
      /\ cursor \in Nat /\ cursor' \in Nat
  BY BoundGrows DEF IInv, AnswerOK
<1>3. /\ k \in 0 .. Bound
      /\ k # 0 => log[k].id = AssignedId[id]
      /\ \A i \in 1 .. Bound : log[i].id = AssignedId[id] => i <= k
  BY <1>2, LastChangeIs DEF LastKnown
<1>4. /\ j \in 0 .. Bound'
      /\ j # 0 => log'[j].id = AssignedId[id]
      /\ \A i \in 1 .. Bound' : log'[i].id = AssignedId[id] => i <= j
  BY <1>2, LastChangeIs
<1>5. j > cursor' /\ Row(id) # NoCell /\ log'[j].revision <= Row(id).updatedAt /\ (Final(id) \/ Pending(id)')
  BY <1>1 DEF Late, Final
<1>6. Final(id) \/ Pending(id)
  BY <1>5 DEF Pending, Queued, IInv, RowsOK, QueueType, QueueOf
<1>7. StoredRecord(id)' = StoredRecord(id)
  BY DEF StoredRecord, Row
<1>8. CASE j <= Bound
  <2>1. j = k
    BY <1>2, <1>3, <1>4, <1>5, <1>8
  <2>2. k \in 1 .. Len(log) /\ log'[k] = log[k] /\ k = LastKnown(id) /\ k <= Bound
    BY <1>2, <1>3, <1>5, <2>1
  <2>3. Late(id)
    BY <1>2, <1>5, <1>6, <2>1, <2>2 DEF Late
  <2>4. IsLevel(id)
    BY <2>3 DEF LateRows
  <2>5. CASE Shows(StoredRecord(id)) = ServerShows(AssignedId[id], k)
    <3>1. ServerShows(AssignedId[id], k)' = ServerShows(AssignedId[id], k)
      BY <2>2, ServerShowsStays, LogGrows DEF IInv
    <3>2. ServerShows(AssignedId[id], LastKnown(id))' = ServerShows(AssignedId[id], k)'
      BY <1>1, <2>1
    <3> QED BY <1>7, <2>5, <3>1, <3>2 DEF IsLevel, Shows
  <2>6. CASE Unsettled(id, k)
    <3>1. ASSUME Settle PROVE \A i \in k + 1 .. reply.to : log[i].id # AssignedId[id]
      <4>1. Bound = reply.to
        BY <3>1 DEF Settle, Settling, Bound, Answered
      <4> QED BY <1>2, <1>3, <2>2, <4>1
    <3>2. Unsettled(id, k)'
      BY <2>2, <2>6, <3>1, UnsettledOn
    <3>3. Unsettled(id, LastKnown(id))'
      BY <1>1, <2>1, <3>2
    <3> QED BY <3>3 DEF IsLevel
  <2> QED BY <2>2, <2>4, <2>5, <2>6 DEF IsLevel
<1>9. CASE j > Bound
  <2>1. /\ now \in Nat /\ Row(id).updatedAt \in Nat /\ Row(id).updatedAt <= now
        /\ log'[j].revision \in Nat
    <3>1. log'[j].revision \in Nat
      <4>1. log' \in Seq(ChangeOf(Ids, Values)) /\ j \in 1 .. Len(log')
        BY <1>2, <1>4, <1>5, ServerTyped DEF IInv, ServerOK, LogType
      <4>2. log'[j] \in ChangeOf(Ids, Values)
        BY <4>1, ElementOfSeq
      <4> QED BY <4>2 DEF ChangeOf
    <3> QED BY <1>5, <3>1, Numbers DEF RowTimes
  <2>2. j <= Len(log)
    <3>1. j > Len(log) => log'[j].revision > now
      BY <1>2, <1>4, LogGains
    <3> QED BY <1>2, <1>4, <1>5, <2>1, <3>1
  <2>3. Answered /\ Bound = reply.to /\ ~Answered'
    <3>1. Answered /\ Bound = reply.to
      BY <1>2, <1>4, <1>9, <2>2 DEF Bound
    <3>2. Answered' => Bound' = Bound
      BY <3>1, SameAnswer DEF Bound, HandleSync, Answered
    <3> QED BY <1>2, <1>4, <1>9, <3>1, <3>2
  <2>4. log[j].revision > reply.at /\ log'[j] = log[j]
    <3>1. j \in 1 .. Len(log) /\ ~(j <= reply.to)
      BY <1>2, <1>4, <1>9, <2>2, <2>3
    <3>2. log[j].revision \in Nat /\ reply.at \in Nat
      BY <3>1, Numbers
    <3> QED BY <1>2, <2>3, <3>1, <3>2 DEF AnswerFits
  <2>5. Row(id).updatedAt > reply.at
    BY <1>5, <2>1, <2>4, Numbers
  <2>6. Unsettled(id, j)
    BY <1>2, <1>4, <1>5, <2>2, <2>3, <2>5, NewRowWaits
  <2>7. ~Settle
    BY <2>3 DEF Settle, Settling, Answered
  <2>8. Unsettled(id, j)'
    BY <1>4, <2>2, <2>6, <2>7, UnsettledOn
  <2> QED BY <1>1, <2>8 DEF IsLevel
<1> QED BY <1>2, <1>4, <1>8, <1>9

\* What was sent under an id that is not the server's, and is still queued under it when
\* the answer is used, was not applied.
LEMMA ProtectedWaits ==
    ASSUME Ground, Merging, NEW id \in Protected, ~Final(id), Pending(id), NEW n \in 0 .. reply.to
    PROVE  Unsettled(id, n)
<1> USE DEF Ground
<1>1. PICK m \in Batch : claim[m].record = id /\ m \in Mutations
  BY DEF Protected, Unacknowledged, Batch
<1>2. Answered /\ stage \in {"answered", "renaming"} /\ todo.rename = {}
  BY DEF Merging, Answered
<1>3. id \notin reply.renames
  BY <1>2 DEF RenamedAway
<1>4. ~InLog(m, reply.to)
  BY <1>1, <1>2, <1>3 DEF AnswerFits
<1>5. queue[m] # NoRow /\ queue[m].record = id
  BY <1>1, <1>2, <1>3 DEF BatchQueued
<1>6. ~InLog(m, n)
  BY <1>4, Numbers DEF InLog
<1> QED BY <1>1, <1>5, <1>6 DEF Unsettled

----------------------------------------------------------------------------
(***************************************************************************)
(* The copies: one action after the other                                  *)
(***************************************************************************)
\* What shows the state of the server after n changes follows it.
LEMMA LevelFollows ==
    ASSUME Ground, NEW id \in Ids, NEW n \in 0 .. Len(log), NEW g \in 0 .. n, NEW copy,
           Shows(copy) = ServerShows(id, n) \/ Waits(id, n)
    PROVE  Follows(copy, id, g)
<1>1. Len(log) \in Nat
  BY Numbers
<1>2. Unsettled(id, n) => Unsettled(id, g)
  BY UnsettledDown
<1> QED BY <1>1, <1>2 DEF Follows, Waits

\* The last change of a record leaves what the server shows.
LEMMA ShowsOfLast ==
    ASSUME NEW id, NEW n \in Nat, NEW k, k = LastChange(log, id, n)
    PROVE  /\ k \in 0 .. n /\ ServerShows(id, k) = ServerShows(id, n)
           /\ k # 0 => log[k].id = id
           /\ \A j \in 1 .. n : log[j].id = id => j <= k
           /\ ServerShows(id, n) = IF k # 0 /\ ~log[k].deleted THEN log[k].value ELSE NoValue
<1>1. k \in 0 .. n /\ (k # 0 => log[k].id = id) /\ \A j \in 1 .. n : log[j].id = id => j <= k
  BY LastChangeIs
<1>2. LastChange(log, id, k) = k
  <2>1. k \in Nat /\ k \in 0 .. k /\ \A j \in 1 .. k : log[j].id = id => j <= k
    BY <1>1
  <2> QED BY <1>1, <2>1, IsLastChange
<1>3. ServerShows(id, k) = ServerShows(id, n)
  BY <1>2, ServerShowsLast
<1>4. ServerShows(id, n) = IF k # 0 /\ ~log[k].deleted THEN log[k].value ELSE NoValue
  BY ServerShowsLast
<1> QED BY <1>1, <1>3, <1>4

\* The server has nothing under the ids that it replaces.
LEMMA NothingUnder ==
    ASSUME Ground, NEW id \in Ids, ~Final(id), NEW n \in 0 .. Len(log)
    PROVE  LastChange(log, id, n) = 0 /\ ServerShows(id, n) = NoValue
<1>1. n \in Nat /\ Len(log) \in Nat
  BY Numbers
<1>2. \A k \in 1 .. n : log[k].id # id
  BY <1>1 DEF Ground, SameMutation
<1>3. LastChange(log, id, n) = 0
  BY <1>1, <1>2, LastChangeIs
<1> QED BY <1>1, <1>3, ShowsOfLast

\* The rename moves row and memory under an id of which there was no row.
LEMMA RenameFollows ==
    ASSUME Setting, Ground, Ground', MemFollows, RowFollows, LateRows, [Next]_vars, RemapNext
    PROVE  MemFollows' /\ RowFollows' /\ LateRows' /\ ChangesLeft'
<1> USE DEF Ground
<1>1. PICK from \in Ids, to \in Ids :
          /\ to = AssignedId[from] /\ ~Final(from) /\ Final(to) /\ from # to
          /\ reply.renames = {from} /\ todo.rename = {from} /\ todo'.rename = {}
          /\ Row(from) # NoCell => Row(to) = NoCell /\ Row(to)' = Row(from)
          /\ Row(from) = NoCell => Row(to)' = Row(to)
          /\ Row(from)' = NoCell
          /\ mem'[from] = NoRecord
          /\ mem'[to] = IF mem[from] # NoRecord THEN mem[from] ELSE mem[to]
          /\ \A id \in Ids \ {from, to} : Row(id)' = Row(id) /\ mem'[id] = mem[id]
          /\ \A m \in Mutations : queue[m] # NoRow =>
                /\ queue'[m] # NoRow /\ queue'[m].timestamp = queue[m].timestamp
                /\ queue'[m].record = IF queue[m].record = from THEN to ELSE queue[m].record
          /\ \A m \in Mutations : queue[m] = NoRow => queue'[m] = NoRow
          /\ adrift' = {IF id = from THEN to ELSE id : id \in adrift} \cup Ghost(from)
  BY RenameMoves DEF IInv
<1>2. /\ stage = "answered" /\ stage' = "renaming" /\ up
      /\ cursor' = cursor /\ log' = log /\ reply' = reply /\ claim' = claim
  BY OneRename DEF RemapNext, server
<1>3. Answered /\ Answered' /\ reply.from = cursor /\ Bound = reply.to /\ Bound' = reply.to
  BY <1>2 DEF Answered, AnswerFits, Bound
<1>4. /\ Len(log) \in Nat /\ cursor \in Nat /\ reply.to \in Nat /\ cursor <= reply.to /\ reply.to <= Len(log)
  BY <1>3, Numbers
<1>5. \A id \in Ids, n \in Nat : ServerShows(id, n)' = ServerShows(id, n) /\ \A m : InLog(m, n)' <=> InLog(m, n)
  BY <1>2 DEF ServerShows, Exists, InLog
<1>6. \A id \in Ids \ {from, to} : id \notin adrift' => id \notin adrift
  BY <1>1
<1>7. to \notin adrift' => from \notin adrift /\ to \notin adrift /\ to \notin Ghost(from)
  BY <1>1
\* The creation is queued under the new id, and the cursor is before it.
<1>8. PICK m \in Mutations : /\ queue[m] # NoRow /\ queue[m].record = from
                             /\ queue'[m] # NoRow /\ queue'[m].record = to
  <2>1. PICK m \in Batch : claim[m].record = from
    BY <1>1, <1>3 DEF AnswerFits
  <2>2. m \in Mutations /\ queue[m] # NoRow /\ queue[m].record = from
    BY <1>2, <2>1 DEF BatchQueued, Batch
  <2> QED BY <1>1, <2>2
<1>9. to \notin adrift' => Unsettled(to, cursor)'
  <2>1. ASSUME to \notin adrift', NEW k \in 1 .. cursor, log[k].value = m PROVE FALSE
    <3>1. log[k].id = AssignedId[queue[m].record]
      BY <1>4, <1>8, <2>1 DEF SameMutation
    <3>2. LastChange(log, to, cursor) = 0
      BY <1>1, <1>3, <1>7, <2>1 DEF Ghost
    <3> QED BY <1>1, <1>4, <1>8, <3>1, <3>2, LastChangeIs
  <2>2. to \notin adrift' => ~InLog(m, cursor)'
    BY <1>2, <1>4, <1>5, <2>1 DEF InLog
  <2> QED BY <1>2, <1>8, <2>2 DEF Unsettled
<1>10. ASSUME NEW id \in Ids \ {from, to}, NEW n \in Nat
       PROVE  /\ Unsettled(id, n) => Unsettled(id, n)'
              /\ Pending(id) <=> Pending(id)'
              /\ Waits(id, n) => Waits(id, n)'
  <2>1. \A i \in Mutations : /\ queue[i] # NoRow /\ queue[i].record = id <=>
                                   queue'[i] # NoRow /\ queue'[i].record = id
    BY <1>1
  <2>2. Unsettled(id, n) => Unsettled(id, n)'
    BY <1>5, <2>1 DEF Unsettled
  <2>3. queue \in QueueType /\ queue' \in QueueType
    BY DEF IInv, RowsOK
  <2>4. Pending(id) <=> Pending(id)'
    BY <2>1, <2>3 DEF Pending, Queued, QueueType, QueueOf
  <2> QED BY <2>2, <2>4 DEF Waits, Final
<1>11. ASSUME NEW id \in Ids \ {from, to}, NEW copy, Follows(copy, id, cursor)
       PROVE  Follows(copy, id, cursor)'
  <2>1. \A k \in cursor .. Len(log) : ServerShows(id, k)' = ServerShows(id, k)
    BY <1>4, <1>5
  <2> QED BY <1>2, <1>4, <1>10, <1>11, <2>1 DEF Follows, Shows
<1>12. \A copy : to \notin adrift' => Follows(copy, to, cursor)'
  BY <1>1, <1>2, <1>9 DEF Follows, Waits, Final
<1>13. Follows(NoRecord, from, cursor)'
  <2>1. ServerShows(from, cursor) = NoValue
    BY <1>1, <1>4, NothingUnder
  <2>2. ServerShows(from, cursor)' = NoValue /\ cursor \in cursor .. Len(log)
    BY <1>2, <1>4, <1>5, <2>1
  <2> QED BY <1>2, <2>2 DEF Follows, Shows
<1>14. MemFollows'
  <2> SUFFICES ASSUME loaded = "whole", NEW id \in Ids, id \notin adrift'
               PROVE  Follows(mem[id], id, cursor)'
    BY <1>2 DEF MemFollows, MemHorizon, RemapNext
  <2>1. CASE id = from
    BY <1>1, <1>13, <2>1
  <2>2. CASE id = to
    BY <1>12, <2>2
  <2>3. CASE id \notin {from, to}
    <3>1. Follows(mem[id], id, cursor)
      BY <1>2, <1>6, <2>3 DEF MemFollows, MemHorizon
    <3>2. mem'[id] = mem[id]
      BY <1>1, <2>3
    <3> QED BY <1>2, <1>11, <2>3, <3>1, <3>2
  <2> QED BY <2>1, <2>2, <2>3
<1>15. RowFollows'
  <2> SUFFICES ASSUME NEW id \in Ids, id \notin adrift' PROVE Follows(StoredRecord(id), id, cursor)'
    BY <1>2 DEF RowFollows, RowHorizon
  <2>1. CASE id = from
    <3>1. StoredRecord(id)' = NoRecord
      BY <1>1, <2>1 DEF StoredRecord, Row, IsLive
    <3> QED BY <1>13, <2>1, <3>1
  <2>2. CASE id = to
    BY <1>12, <2>2
  <2>3. CASE id \notin {from, to}
    <3>1. Follows(StoredRecord(id), id, cursor)
      BY <1>2, <1>6, <2>3 DEF RowFollows, RowHorizon
    <3>2. StoredRecord(id)' = StoredRecord(id)
      BY <1>1, <2>3 DEF StoredRecord, Row
    <3> QED BY <1>2, <1>11, <2>3, <3>1, <3>2
  <2> QED BY <2>1, <2>2, <2>3
<1>16. LateRows'
  <2> SUFFICES ASSUME NEW id \in Ids, id \notin adrift', Late(id)' PROVE IsLevel(id)'
    BY DEF LateRows
  <2> SUFFICES ASSUME NEW k, k = LastChange(log, AssignedId[id], reply.to) PROVE IsLevel(id)'
    OBVIOUS
  <2>1. k = LastKnown(id) /\ k = LastKnown(id)' /\ k \in Nat /\ AssignedId[id] \in Ids
    BY <1>2, <1>3, <1>4, LastChangeIs, ReplicaAssumption DEF LastKnown
  <2>2. \A old \in Ids : StoredRecord(old) = IF IsLive(Row(old)) THEN Row(old).value ELSE NoRecord
    BY DEF StoredRecord, Row
  <2>3. StoredRecord(id)' = IF IsLive(Row(id)') THEN Row(id)'.value ELSE NoRecord
    BY DEF StoredRecord, Row
  <2>4. k > cursor /\ Row(id)' # NoCell /\ log[k].revision <= Row(id)'.updatedAt
    BY <1>2, <2>1 DEF Late
  <2>5. ASSUME NEW old \in Ids, old \notin adrift, Row(id)' = Row(old), AssignedId[old] = AssignedId[id],
               Final(old) \/ Pending(old), Unsettled(old, k) => Unsettled(id, k)'
        PROVE  IsLevel(id)'
    <3>1. LastKnown(old) = k
      BY <1>3, <2>5 DEF LastKnown
    <3>2. Late(old)
      BY <2>4, <2>5, <3>1 DEF Late
    <3>3. Shows(StoredRecord(old)) = ServerShows(AssignedId[id], k) \/ Unsettled(old, k)
      BY <2>5, <3>1, <3>2 DEF LateRows, IsLevel
    <3>4. StoredRecord(id)' = StoredRecord(old)
      BY <2>2, <2>3, <2>5
    <3>5. ServerShows(AssignedId[id], k)' = ServerShows(AssignedId[id], k)
      BY <1>5, <2>1
    <3>6. CASE Unsettled(old, k)
      BY <2>1, <2>5, <3>6 DEF IsLevel
    <3>7. CASE Shows(StoredRecord(old)) = ServerShows(AssignedId[id], k)
      <4>1. ServerShows(AssignedId[id], LastKnown(id))' = ServerShows(AssignedId[id], k)'
        BY <2>1
      <4> QED BY <3>4, <3>5, <3>7, <4>1 DEF IsLevel, Shows
    <3> QED BY <3>3, <3>6, <3>7
  <2>6. CASE id = from
    BY <1>1, <2>4, <2>6
  <2>7. CASE id = to /\ Row(from) # NoCell
    <3>1. from \notin adrift /\ Row(id)' = Row(from) /\ AssignedId[from] = AssignedId[id]
      BY <1>1, <1>7, <2>7 DEF Final
    <3>2. Pending(from)
      BY <1>8 DEF Pending, Queued, IInv, RowsOK, QueueType, QueueOf
    <3>3. Unsettled(from, k) => Unsettled(id, k)'
      BY <1>1, <1>5, <2>1, <2>7 DEF Unsettled
    <3> QED BY <2>5, <3>1, <3>2, <3>3
  <2>8. CASE id = to /\ Row(from) = NoCell
    <3>1. to \notin adrift /\ Row(id)' = Row(to)
      BY <1>1, <1>7, <2>8
    <3>2. Unsettled(to, k) => Unsettled(id, k)'
      BY <1>1, <1>5, <2>1, <2>8 DEF Unsettled
    <3> QED BY <1>1, <2>5, <2>8, <3>1, <3>2
  <2>9. CASE id \notin {from, to}
    <3>1. id \notin adrift /\ Row(id)' = Row(id)
      BY <1>1, <1>6, <2>9
    <3>2. Final(id) \/ Pending(id)
      BY <1>10, <2>9, <2>1 DEF Late, Final
    <3>3. Unsettled(id, k) => Unsettled(id, k)'
      BY <1>10, <2>1, <2>9
    <3> QED BY <2>5, <3>1, <3>2, <3>3
  <2> QED BY <2>6, <2>7, <2>8, <2>9
<1>17. ChangesLeft'
  BY <1>2 DEF ChangesLeft
<1> QED BY <1>14, <1>15, <1>16, <1>17

\* The records of an answer, where no mutation of the batch protects them.
LEMMA MergedShows ==
    ASSUME Setting, Ground, RowFollows, LateRows, Merging, ~reply.reset,
           NEW id \in Ids, id \notin Protected,
           NEW k, k = LastChange(log, id, reply.to), k > cursor
    PROVE  /\ k \in (IF log[k].deleted THEN DeletionPositions(id) ELSE RecordPositions(id))
           /\ \/ Shows(Visible[id]) = ServerShows(id, reply.to)
              \/ /\ ~log[k].deleted /\ Visible[id] = NoRecord
                 /\ IsTombstone(Row(id)) /\ log[k].revision <= Row(id).updatedAt
                 /\ id \notin adrift =>
                       \/ Shows(Visible[id]) = ServerShows(id, reply.to)
                       \/ Unsettled(id, reply.to)
<1> USE DEF Ground
<1>1. Answered /\ Bound = reply.to /\ up /\ reply.to \in Nat /\ cursor \in Nat /\ reply.to <= Len(log)
      /\ Len(log) \in Nat
  BY Numbers DEF Merging, Answered, Bound
<1>2. /\ k \in 0 .. reply.to /\ ServerShows(id, k) = ServerShows(id, reply.to)
      /\ k # 0 => log[k].id = id
      /\ \A j \in 1 .. reply.to : log[j].id = id => j <= k
      /\ ServerShows(id, reply.to) = IF k # 0 /\ ~log[k].deleted THEN log[k].value ELSE NoValue
  BY <1>1, ShowsOfLast
<1>3. /\ k \in (IF log[k].deleted THEN DeletionPositions(id) ELSE RecordPositions(id))
      /\ \/ log[k].deleted /\ Visible[id] = NoRecord
         \/ /\ ~log[k].deleted /\ Visible[id] # NoRecord
            /\ Visible[id].value = log[k].value
            /\ Visible[id].updatedAt = log[k].revision
            /\ ~Suppressed(id, Visible[id], Tombstones)
         \/ /\ ~log[k].deleted /\ Visible[id] = NoRecord
            /\ IsTombstone(Row(id)) /\ log[k].revision <= Row(id).updatedAt
  BY <1>1, News
<1>4. k # 0 /\ k \in 1 .. Len(log) /\ log[k].id = id
  BY <1>1, <1>2
<1>5. Final(id)
  BY <1>4 DEF SameMutation
<1>6. CASE log[k].deleted /\ Visible[id] = NoRecord
  BY <1>2, <1>3, <1>6 DEF Shows
<1>7. CASE ~log[k].deleted /\ Visible[id] # NoRecord /\ Visible[id].value = log[k].value
  BY <1>2, <1>3, <1>4, <1>7 DEF Shows
<1>8. CASE /\ ~log[k].deleted /\ Visible[id] = NoRecord
           /\ IsTombstone(Row(id)) /\ log[k].revision <= Row(id).updatedAt
  <2>1. ASSUME id \notin adrift
        PROVE  Shows(Visible[id]) = ServerShows(id, reply.to) \/ Unsettled(id, reply.to)
    <3>1. k = LastKnown(id)
      BY <1>1, <1>5 DEF LastKnown, Final
    <3>2. Late(id)
      BY <1>5, <1>8, <3>1 DEF Late, IsTombstone
    <3>3. Shows(StoredRecord(id)) = ServerShows(id, k) \/ Unsettled(id, k)
      BY <1>5, <2>1, <3>1, <3>2 DEF LateRows, IsLevel, Final
    <3>4. StoredRecord(id) = NoRecord
      BY <1>8 DEF StoredRecord, Row, IsLive, IsTombstone
    <3>5. CASE Unsettled(id, k)
      <4>1. \A j \in k + 1 .. reply.to : log[j].id # AssignedId[id]
        BY <1>1, <1>2, <1>5 DEF Final
      <4>2. k \in Nat
        BY <1>2
      <4> QED BY <1>1, <3>5, <4>1, <4>2, UnsettledUp
    <3> QED BY <1>2, <1>8, <3>3, <3>4, <3>5
  <2> QED BY <1>3, <1>8, <2>1
<1> QED BY <1>3, <1>6, <1>7, <1>8

\* An answer without changes of a record: what follows up to the cursor follows up to the
\* answer.
LEMMA FollowsUp ==
    ASSUME Ground, Answered, NEW id \in Ids, \A k \in cursor + 1 .. reply.to : log[k].id # id,
           NEW copy, Follows(copy, id, cursor)
    PROVE  Follows(copy, id, reply.to)
<1>1. /\ Len(log) \in Nat /\ cursor \in Nat /\ reply.to \in Nat
      /\ cursor <= reply.to /\ reply.to <= Len(log)
  BY Numbers
<1>2. CASE \E n \in cursor .. Len(log) : Shows(copy) = ServerShows(id, n)
  <2>1. PICK n \in cursor .. Len(log) : Shows(copy) = ServerShows(id, n)
    BY <1>2
  <2>2. CASE n >= reply.to
    BY <1>1, <2>1, <2>2 DEF Follows
  <2>3. CASE n < reply.to
    <3>1. n \in Nat /\ n <= reply.to /\ \A k \in n + 1 .. reply.to : log[k].id # id
      BY <1>1, <2>1, <2>3
    <3>2. LastChange(log, id, reply.to) = LastChange(log, id, n)
      BY <1>1, <3>1, NoChangeBetween
    <3>3. ServerShows(id, reply.to) = ServerShows(id, n)
      BY <3>2 DEF ServerShows, Exists
    <3>4. reply.to \in reply.to .. Len(log)
      BY <1>1
    <3> QED BY <2>1, <3>3, <3>4 DEF Follows
  <2> QED BY <1>1, <2>1, <2>2, <2>3
<1>3. CASE Waits(id, cursor)
  <2>1. ASSUME Final(id) PROVE Unsettled(id, reply.to)
    <3>1. Unsettled(id, cursor) /\ \A k \in cursor + 1 .. reply.to : log[k].id # AssignedId[id]
      BY <1>3, <2>1 DEF Waits, Final
    <3> QED BY <1>1, <3>1, UnsettledUp
  <2> QED BY <1>3, <2>1 DEF Follows, Waits
<1> QED BY <1>2, <1>3 DEF Follows

\* A protected record is passed over, or is as on the server.
LEMMA ProtectedIsLevel ==
    ASSUME Ground, Merging, NEW id \in Protected, NEW copy,
           Shows(copy) = ServerShows(id, reply.to), Pending(id) \/ Final(id),
           NEW k, k = LastKnown(id)
    PROVE  Shows(copy) = ServerShows(AssignedId[id], k) \/ Unsettled(id, k)
<1>1. id \in Ids
  BY DEF Protected, Unacknowledged, Batch, Ground, IInv, RowsOK, QueueType, QueueOf, RowOf
<1>2. Bound = reply.to /\ reply.to \in Nat
  BY Numbers DEF Merging, Bound, Answered
<1>3. k = LastChange(log, AssignedId[id], reply.to) /\ k \in 0 .. reply.to
  BY <1>2, LastChangeIs DEF LastKnown
<1>4. CASE Final(id)
  BY <1>2, <1>3, <1>4, ShowsOfLast DEF Final
<1>5. CASE ~Final(id)
  BY <1>3, <1>5, ProtectedWaits
<1> QED BY <1>4, <1>5

\* The merge brings memory to the end of the answer, and leaves the rows to be stored.
LEMMA MergeFollows ==
    ASSUME Setting, Ground, Ground', MemFollows, RowFollows, LateRows, [Next]_vars, Merge
    PROVE  MemFollows' /\ RowFollows' /\ LateRows' /\ ChangesLeft'
<1> USE DEF Ground
<1>1. /\ Merging /\ ~reply.reset /\ up /\ stage \in {"answered", "renaming"} /\ Answered
      /\ stage' = "storing" /\ mem' = Visible /\ loaded' = loaded
      /\ todo'.save = ToSave /\ todo'.bury = ToBury
      /\ adrift' = (adrift \ Protected) \cup PassedOver([id \in Ids |-> StoredRecord(id)], Visible)
      /\ queue' = queue /\ cells' = cells /\ cursor' = cursor /\ reply' = reply /\ claim' = claim
      /\ log' = log /\ applied' = applied
  BY DEF Merge, Merging, Answered, durable, server, IInv, AnswerOK
<1>2. /\ Len(log) \in Nat /\ cursor \in Nat /\ reply.to \in Nat /\ cursor <= reply.to /\ reply.to <= Len(log)
      /\ Bound = reply.to /\ Bound' = reply.to
  BY <1>1, Numbers DEF Bound, Answered
<1>3. ~RemapNext /\ ~Settle
  BY <1>1 DEF RemapNext, Settle, Settling
<1>4. \A id \in Ids \ Protected : id \notin adrift' => id \notin adrift
  BY <1>1
<1>5. ASSUME NEW id \in Protected, id \notin adrift'
      PROVE  /\ id \in Ids
             /\ Shows(StoredRecord(id)) = ServerShows(id, reply.to)
             /\ Shows(Visible[id]) = ServerShows(id, reply.to)
  <2>1. id \in Ids
    BY DEF Protected, Unacknowledged, Batch, IInv, RowsOK, QueueType, QueueOf, RowOf
  <2> QED BY <1>1, <1>5, <2>1 DEF PassedOver
\* What the merge leaves in memory, and what it leaves of the rows that it does not change.
<1>6. ASSUME NEW id \in Ids, id \notin adrift'
      PROVE  /\ loaded = "whole" => Follows(Visible[id], id, reply.to)
             /\ Follows(StoredRecord(id), id, cursor)
             /\ id \notin ToSave \cup ToBury => Follows(StoredRecord(id), id, reply.to)
  <2>1. CASE id \in Protected
    BY <1>2, <1>5, <1>6, <2>1, LevelFollows
  <2>2. CASE id \notin Protected
    <3>1. /\ loaded = "whole" => Follows(mem[id], id, cursor)
          /\ Follows(StoredRecord(id), id, cursor)
      BY <1>1, <1>4, <1>6, <2>2 DEF MemFollows, RowFollows, MemHorizon, RowHorizon
    <3> SUFFICES ASSUME NEW k, k = LastChange(log, id, reply.to)
                 PROVE  /\ loaded = "whole" => Follows(Visible[id], id, reply.to)
                        /\ id \notin ToSave \cup ToBury => Follows(StoredRecord(id), id, reply.to)
      BY <3>1
    <3>2. /\ k \in 0 .. reply.to /\ \A j \in 1 .. reply.to : log[j].id = id => j <= k
          /\ k # 0 => log[k].id = id
      BY <1>2, ShowsOfLast
    <3>3. CASE k <= cursor
      <4>1. \A j \in cursor + 1 .. reply.to : log[j].id # id
        BY <1>2, <3>2, <3>3
      <4>2. /\ loaded = "whole" => Follows(mem[id], id, reply.to)
            /\ Follows(StoredRecord(id), id, reply.to)
        BY <1>1, <3>1, <4>1, FollowsUp
      <4>3. Visible[id] = mem[id] \/ (Visible[id] = NoRecord /\ IsTombstone(Row(id)))
        BY <1>1, <2>2, <4>1, NoNews
      <4>4. IsTombstone(Row(id)) => StoredRecord(id) = NoRecord
        BY DEF StoredRecord, Row, IsTombstone, IsLive
      <4> QED BY <4>2, <4>3, <4>4
    <3>4. CASE k > cursor
      <4>1. /\ k \in (IF log[k].deleted THEN DeletionPositions(id) ELSE RecordPositions(id))
            /\ \/ Shows(Visible[id]) = ServerShows(id, reply.to)
               \/ /\ ~log[k].deleted /\ Visible[id] = NoRecord
                  /\ IsTombstone(Row(id)) /\ log[k].revision <= Row(id).updatedAt
                  /\ id \notin adrift =>
                        \/ Shows(Visible[id]) = ServerShows(id, reply.to)
                        \/ Unsettled(id, reply.to)
        BY <1>1, <2>2, <3>4, MergedShows
      <4>2. id \notin adrift
        BY <1>4, <1>6, <2>2
      <4>3. Final(id)
        <5>1. k \in 1 .. Len(log) /\ log[k].id = id
          BY <1>2, <3>2, <3>4
        <5> QED BY <5>1 DEF SameMutation
      <4>4. Shows(Visible[id]) = ServerShows(id, reply.to) \/ Waits(id, reply.to)
        BY <4>1, <4>2, <4>3 DEF Waits
      <4>5. Follows(Visible[id], id, reply.to)
        BY <1>2, <4>4, LevelFollows
      <4>6. ASSUME id \notin ToSave \cup ToBury PROVE Follows(StoredRecord(id), id, reply.to)
        <5>1. ~log[k].deleted /\ RecordPositions(id) # {}
          BY <2>2, <4>1, <4>6 DEF ToBury
        <5>2. Visible[id] = NoRecord
          BY <2>2, <4>6, <5>1 DEF ToSave
        <5>3. k \in 1 .. Len(log) /\ k \in 1 .. reply.to
          BY <1>2, <3>2, <3>4
        <5>4. ServerShows(id, reply.to) = log[k].value /\ log[k].value # NoValue
          <6>1. log[k].value \in Values
            BY <5>3, LogFacts DEF IInv, ChangeOf
          <6> QED BY <1>2, <5>1, <5>3, <6>1, ShowsOfLast, ReplicaAssumption DEF Values
        <5>5. IsTombstone(Row(id))
          BY <4>1, <5>2, <5>4 DEF Shows
        <5>6. StoredRecord(id) = Visible[id]
          BY <5>2, <5>5 DEF StoredRecord, Row, IsTombstone, IsLive
        <5> QED BY <4>5, <5>6
      <4> QED BY <4>5, <4>6
    <3> QED BY <1>2, <3>2, <3>3, <3>4
  <2> QED BY <2>1, <2>2
<1>7. ASSUME NEW id \in Ids, id \notin adrift', NEW copy, NEW n \in Nat, n <= Len(log), Follows(copy, id, n)
      PROVE  Follows(copy, id, n)'
  BY <1>3, <1>7, FollowsOn
<1>8. MemFollows'
  BY <1>1, <1>2, <1>6, <1>7 DEF MemFollows, MemHorizon
<1>9. RowFollows'
  <2> SUFFICES ASSUME NEW id \in Ids, id \notin adrift' PROVE Follows(StoredRecord(id), id, RowHorizon(id))'
    BY DEF RowFollows
  <2>1. StoredRecord(id)' = StoredRecord(id)
    BY <1>1 DEF StoredRecord
  <2>2. Follows(StoredRecord(id), id, cursor)'
    BY <1>1, <1>2, <1>6, <1>7, <2>1
  <2>3. id \notin ToSave \cup ToBury => Follows(StoredRecord(id), id, reply.to)'
    BY <1>1, <1>2, <1>6, <1>7, <2>1
  <2> QED BY <1>1, <2>2, <2>3 DEF RowHorizon
<1>10. LateRows'
  <2> SUFFICES ASSUME NEW id \in Ids, id \notin adrift', Late(id)' PROVE IsLevel(id)'
    BY DEF LateRows
  <2>1. LastKnown(id)' = LastKnown(id)
    BY <1>1, <1>2 DEF LastKnown
  <2>2. Late(id) /\ (IsLevel(id) => IsLevel(id)')
    <3>1. Pending(id)' <=> Pending(id)
      BY <1>1 DEF Pending
    <3>2. Late(id)
      BY <1>1, <2>1, <3>1 DEF Late, Row, Final
    <3>3. \A n : /\ ServerShows(AssignedId[id], n)' = ServerShows(AssignedId[id], n)
                 /\ Unsettled(id, n)' <=> Unsettled(id, n)
      BY <1>1 DEF ServerShows, Exists, Unsettled, InLog
    <3>4. StoredRecord(id)' = StoredRecord(id)
      BY <1>1 DEF StoredRecord
    <3>5. IsLevel(id)' <=> \/ Shows(StoredRecord(id)) = ServerShows(AssignedId[id], LastKnown(id))
                           \/ Unsettled(id, LastKnown(id))
      BY <2>1, <3>3, <3>4 DEF IsLevel, Shows
    <3> QED BY <3>2, <3>5 DEF IsLevel
  <2>3. CASE id \in Protected
    BY <1>1, <1>5, <2>2, <2>3, ProtectedIsLevel DEF IsLevel, Late
  <2>4. CASE id \notin Protected
    BY <1>4, <2>2, <2>4 DEF LateRows
  <2> QED BY <2>3, <2>4
<1>11. ChangesLeft'
  <2> SUFFICES ASSUME NEW id \in ToSave \cup ToBury, NEW k, k = LastChange(log, id, reply.to)
               PROVE  /\ ~reply.reset /\ k > cursor
                      /\ id \notin adrift' \/ Row(id) = NoCell \/ Row(id).updatedAt < log[k].revision =>
                            Shows(Visible[id]) = ServerShows(id, reply.to) \/ Unsettled(id, reply.to)
                      /\ id \notin ToSave /\ ~log[k].deleted =>
                            Row(id) # NoCell /\ Row(id).updatedAt >= log[k].revision
    BY <1>1 DEF ChangesLeft, Row, Shows, ServerShows, Exists, Unsettled, InLog
  <2>1. id \in Ids /\ id \notin Protected /\ RecordPositions(id) \cup DeletionPositions(id) # {}
    BY DEF ToSave, ToBury
  <2>2. PICK j \in Positions : log[j].id = id
    BY <2>1 DEF RecordPositions, DeletionPositions
  <2>3. j \in cursor + 1 .. reply.to
    BY <1>1, <2>2 DEF Positions, Pulled, AnswerFits
  <2>4. /\ k \in 0 .. reply.to /\ \A i \in 1 .. reply.to : log[i].id = id => i <= k
    BY <1>2, ShowsOfLast
  <2>5. k > cursor /\ k \in 1 .. Len(log)
    BY <1>2, <2>2, <2>3, <2>4
  <2>6. /\ k \in (IF log[k].deleted THEN DeletionPositions(id) ELSE RecordPositions(id))
        /\ \/ Shows(Visible[id]) = ServerShows(id, reply.to)
           \/ /\ ~log[k].deleted /\ Visible[id] = NoRecord
              /\ IsTombstone(Row(id)) /\ log[k].revision <= Row(id).updatedAt
              /\ id \notin adrift =>
                    \/ Shows(Visible[id]) = ServerShows(id, reply.to)
                    \/ Unsettled(id, reply.to)
    BY <1>1, <2>1, <2>5, MergedShows
  <2>7. log[k].revision \in Nat /\ (Row(id) # NoCell => Row(id).updatedAt \in Nat)
    BY <2>1, <2>5, Numbers
  <2>8. ASSUME id \notin adrift' \/ Row(id) = NoCell \/ Row(id).updatedAt < log[k].revision
        PROVE  Shows(Visible[id]) = ServerShows(id, reply.to) \/ Unsettled(id, reply.to)
    BY <1>4, <2>1, <2>6, <2>7, <2>8 DEF IsTombstone
  <2>9. ASSUME id \notin ToSave, ~log[k].deleted
        PROVE  Row(id) # NoCell /\ Row(id).updatedAt >= log[k].revision
    <3>1. Visible[id] = NoRecord
      BY <2>1, <2>6, <2>9 DEF ToSave
    <3>2. ServerShows(id, reply.to) = log[k].value /\ log[k].value # NoValue
      <4>1. log[k].value \in Values
        BY <2>5, LogFacts DEF IInv, ChangeOf
      <4> QED BY <1>2, <2>5, <2>9, <4>1, ShowsOfLast, ReplicaAssumption DEF Values
    <3>3. IsTombstone(Row(id)) /\ log[k].revision <= Row(id).updatedAt
      BY <2>6, <3>1, <3>2 DEF Shows
    <3> QED BY <2>7, <3>3 DEF IsTombstone
  <2> QED BY <1>1, <2>5, <2>8, <2>9
<1> QED BY <1>8, <1>9, <1>10, <1>11

\* The rows of a replacement are the merged records and the tombstones that it brings.
LEMMA ReplaceRows ==
    ASSUME IInv, Replace, NEW id \in Ids
    PROVE  /\ Row(id)' = IF Visible[id] # NoRecord THEN LiveCell(Visible[id], reply.at)
                         ELSE IF id \in DOMAIN ResetTombstones
                              THEN TombstoneCell(Blank, ResetTombstones[id])
                         ELSE NoCell
           /\ StoredRecord(id)' = Visible[id]
<1>1. cells' = ReplaceTable(cells, Table, Snapshotted, ResetTombstones, reply.at)
  BY DEF Replace
<1>2. Row(id)' = IF id \in DOMAIN Snapshotted THEN LiveCell(Snapshotted[id], reply.at)
                 ELSE IF id \in DOMAIN ResetTombstones
                      THEN TombstoneCell(Blank, ResetTombstones[id])
                 ELSE NoCell
  BY <1>1 DEF ReplaceTable, ReplacedTable, Row, CellsType, IInv, CopiesOK, CellsOK
<1>3. /\ id \in DOMAIN Snapshotted <=> Visible[id] # NoRecord
      /\ id \in DOMAIN Snapshotted => Snapshotted[id] = Visible[id]
  BY DEF Snapshotted
<1>4. StoredRecord(id)' = IF IsLive(Row(id)') THEN Row(id)'.value ELSE NoRecord
  BY DEF StoredRecord, Row
<1>5. Visible[id] # NoRecord => IsLive(Row(id)') /\ Row(id)'.value = Visible[id]
  <2>1. Visible[id] # NoRecord => LiveCell(Visible[id], reply.at) # NoCell
    <3>1. reply.at \in Nat
      BY DEF IInv, AnswerOK
    <3>2. Visible[id] # NoRecord => Visible[id] \in Record
      BY VisibleType DEF IInv, ServerOK, AnswerOK, CopiesOK, RecordsType
    <3>3. Visible[id] # NoRecord => LiveCell(Visible[id], reply.at) \in Cell
      BY <3>1, <3>2 DEF LiveCell, Cell
    <3> QED BY <3>3, NothingAssumption
  <2> QED BY <1>2, <1>3, <2>1 DEF LiveCell, IsLive
<1>6. Visible[id] = NoRecord => ~IsLive(Row(id)')
  BY <1>2, <1>3 DEF TombstoneCell, IsLive
<1> QED BY <1>2, <1>3, <1>4, <1>5, <1>6

\* The replacement brings both copies to the end of the answer at once.
LEMMA ReplaceFollows ==
    ASSUME Setting, Ground, Ground', MemFollows, RowFollows, LateRows, [Next]_vars, Replace
    PROVE  MemFollows' /\ RowFollows' /\ LateRows' /\ ChangesLeft'
<1> USE DEF Ground
<1>1. /\ Merging /\ reply.reset /\ up /\ stage \in {"answered", "renaming"} /\ Answered
      /\ stage' = "storing" /\ mem' = Visible /\ todo' = todo
      /\ cells' = ReplaceTable(cells, Table, Snapshotted, ResetTombstones, reply.at)
      /\ adrift' = PassedOver(Visible, Visible)
      /\ queue' = queue /\ cursor' = cursor /\ reply' = reply /\ claim' = claim
      /\ log' = log /\ applied' = applied
  BY DEF Replace, Merging, Answered, server
<1>2. /\ Len(log) \in Nat /\ cursor \in Nat /\ reply.to \in Nat /\ cursor <= reply.to /\ reply.to <= Len(log)
      /\ Bound = reply.to /\ Bound' = reply.to
  BY <1>1, Numbers DEF Bound, Answered
<1>3. ~RemapNext /\ ~Settle
  BY <1>1 DEF RemapNext, Settle, Settling
<1>4. todo.save = {} /\ todo.bury = {}
  BY <1>1 DEF IInv, AnswerInHand
<1>5. ASSUME NEW id \in Ids
      PROVE  /\ Row(id)' = IF Visible[id] # NoRecord THEN LiveCell(Visible[id], reply.at)
                           ELSE IF id \in DOMAIN ResetTombstones
                                THEN TombstoneCell(Blank, ResetTombstones[id])
                           ELSE NoCell
             /\ StoredRecord(id)' = Visible[id]
  BY ReplaceRows
<1>6. ASSUME NEW id \in Ids, id \notin adrift'
      PROVE  Shows(Visible[id]) = ServerShows(id, reply.to)
  <2>1. CASE id \in Protected
    BY <1>1, <1>6, <2>1 DEF PassedOver
  <2>2. CASE id \notin Protected
    <3> SUFFICES ASSUME NEW k, k = LastChange(log, id, reply.to)
                 PROVE  Shows(Visible[id]) = ServerShows(id, reply.to)
      OBVIOUS
    <3>1. ServerShows(id, reply.to) = IF k # 0 /\ ~log[k].deleted THEN log[k].value ELSE NoValue
      BY <1>2, ShowsOfLast
    <3>2. IF k # 0 /\ ~log[k].deleted
          THEN Visible[id] = RecordOf(log[k]) /\ Visible[id] # NoRecord
          ELSE Visible[id] = NoRecord
      BY <1>1, <2>2, Replaced
    <3>3. RecordOf(log[k]).value = log[k].value
      BY DEF RecordOf, NewRecord
    <3> QED BY <3>1, <3>2, <3>3 DEF Shows
  <2> QED BY <2>1, <2>2
<1>7. ASSUME NEW id \in Ids, id \notin adrift', NEW copy, copy = Visible[id]
      PROVE  Follows(copy, id, reply.to)'
  <2>1. Follows(copy, id, reply.to)
    BY <1>2, <1>6, <1>7, LevelFollows
  <2> QED BY <1>1, <1>2, <1>3, <1>7, <2>1, FollowsOn
<1>8. MemFollows'
  BY <1>1, <1>2, <1>7 DEF MemFollows, MemHorizon
<1>9. RowFollows'
  BY <1>1, <1>2, <1>4, <1>5, <1>7 DEF RowFollows, RowHorizon
<1>10. LateRows'
  <2> SUFFICES ASSUME NEW id \in Ids, id \notin adrift', Late(id)' PROVE IsLevel(id)'
    BY DEF LateRows
  <2> SUFFICES ASSUME NEW k, k = LastKnown(id) PROVE IsLevel(id)'
    OBVIOUS
  <2>1. LastKnown(id)' = k /\ k \in 0 .. reply.to /\ k = LastChange(log, AssignedId[id], reply.to)
    BY <1>1, <1>2, LastChangeIs DEF LastKnown
  <2>2. Final(id) \/ Pending(id)
    BY <1>1 DEF Late, Final, Pending
  <2>3. \A n : /\ ServerShows(AssignedId[id], n)' = ServerShows(AssignedId[id], n)
               /\ Unsettled(id, n)' <=> Unsettled(id, n)
    BY <1>1 DEF ServerShows, Exists, Unsettled, InLog
  <2>4. ASSUME Shows(Visible[id]) = ServerShows(AssignedId[id], k) \/ Unsettled(id, k)
        PROVE  IsLevel(id)'
    <3>1. ServerShows(AssignedId[id], LastKnown(id))' = ServerShows(AssignedId[id], k)
      BY <2>1, <2>3
    <3>2. Unsettled(id, LastKnown(id))' <=> Unsettled(id, k)
      BY <2>1, <2>3
    <3> QED BY <1>5, <2>4, <3>1, <3>2 DEF IsLevel, Shows
  <2>5. CASE Final(id)
    BY <1>2, <1>6, <2>1, <2>4, <2>5, ShowsOfLast DEF Final
  <2>6. CASE ~Final(id) /\ id \in Protected
    BY <1>1, <2>1, <2>2, <2>4, <2>6, ProtectedWaits
  <2>7. CASE ~Final(id) /\ id \notin Protected
    <3>1. LastChange(log, id, reply.to) = 0
      BY <1>2, <2>7, NothingUnder
    <3>2. Visible[id] = NoRecord
      BY <1>1, <2>7, <3>1, Replaced
    <3>3. id \notin DOMAIN ServerTombstones
      <4>1. \A d \in DeletionPositions(id) : d \in 1 .. Len(log) /\ log[d].id = id
        BY <1>1, <1>2, AnswerIsNewest DEF DeletionPositions
      <4>2. DeletionPositions(id) = {}
        BY <2>7, <4>1 DEF SameMutation
      <4> QED BY <4>2 DEF ServerTombstones
    <3>4. id \notin DOMAIN OwnTombstones
      BY <2>7 DEF OwnTombstones, DeletedIds, UnacknowledgedDeletes, Protected
    <3>5. id \notin DOMAIN ResetTombstones
      BY <3>3, <3>4 DEF ResetTombstones, Later
    <3>6. Row(id)' = NoCell
      BY <1>5, <3>2, <3>5
    <3> QED BY <3>6 DEF Late
  <2> QED BY <2>5, <2>6, <2>7
<1>11. ChangesLeft'
  BY <1>1, <1>4 DEF ChangesLeft
<1> QED BY <1>8, <1>9, <1>10, <1>11

\* The step that stores one of the records of an answer, or refuses it for the sake of a
\* row that is as new.
LEMMA StoreFollows ==
    ASSUME Setting, Ground, Ground', MemFollows, RowFollows, LateRows, ChangesLeft, [Next]_vars,
           SaveNext \/ BuryNext,
           NEW id \in todo.save \cup todo.bury, NEW k, k = LastChange(log, id, reply.to),
           \A other \in Ids \ {id} :
              /\ other \in todo'.save <=> other \in todo.save
              /\ other \in todo'.bury <=> other \in todo.bury
              /\ Row(other)' = Row(other),
           adrift' = adrift \ Levelled(id),
           id \notin todo'.save,
           id \in todo'.bury => Row(id)' # NoCell /\ Row(id)'.updatedAt >= log[k].revision,
           \/ /\ Row(id)' = Row(id) /\ Row(id) # NoCell
              /\ Row(id).updatedAt >= log[k].revision
           \/ id \notin adrift' =>
                 Shows(StoredRecord(id)') = ServerShows(id, reply.to) \/ Unsettled(id, reply.to)
    PROVE  MemFollows' /\ RowFollows' /\ LateRows' /\ ChangesLeft'
<1> USE DEF Ground
<1>1. /\ up /\ stage = "storing" /\ stage' = "storing" /\ Answered /\ Answered'
      /\ queue' = queue /\ cursor' = cursor /\ reply' = reply /\ claim' = claim
      /\ log' = log /\ mem' = mem /\ loaded' = loaded /\ ~RemapNext /\ ~Settle
  BY DEF SaveNext, BuryNext, Answered, server, RemapNext, Settle, Settling
<1>2. /\ Len(log) \in Nat /\ cursor \in Nat /\ reply.to \in Nat /\ cursor <= reply.to /\ reply.to <= Len(log)
      /\ Bound = reply.to /\ Bound' = reply.to
  BY <1>1, Numbers DEF Bound
<1>3. /\ id \in Ids /\ ~reply.reset /\ k > cursor
      /\ \/ id \notin adrift
         \/ Row(id) = NoCell
         \/ Row(id).updatedAt < log[k].revision
         => Shows(mem[id]) = ServerShows(id, reply.to) \/ Unsettled(id, reply.to)
  BY <1>1 DEF ChangesLeft, IInv, AnswerOK
<1>4. /\ k \in 1 .. reply.to /\ log[k].id = id /\ ServerShows(id, k) = ServerShows(id, reply.to)
      /\ \A j \in 1 .. reply.to : log[j].id = id => j <= k
  BY <1>2, <1>3, ShowsOfLast
<1>5. Final(id) /\ log[k].revision \in Nat /\ (Row(id) # NoCell => Row(id).updatedAt \in Nat)
  BY <1>2, <1>3, <1>4, Numbers DEF SameMutation
<1>6. \A other \in Ids \ {id} : other \in adrift' <=> other \in adrift
  BY DEF Levelled
<1>7. \/ id \in adrift'
      \/ id \notin adrift
      \/ Row(id) = NoCell
      \/ Row(id).updatedAt < log[k].revision
  BY <1>5 DEF Levelled, Row
<1>8. LastKnown(id) = k /\ LastKnown(id)' = k
  BY <1>1, <1>2, <1>5 DEF LastKnown, Final
<1>9. \A i \in Ids, n \in Nat : /\ ServerShows(i, n)' = ServerShows(i, n)
                                /\ Unsettled(i, n)' <=> Unsettled(i, n)
  BY <1>1 DEF ServerShows, Exists, Unsettled, InLog
<1>10. ASSUME id \notin adrift'
       PROVE  /\ loaded = "whole" => Follows(mem[id], id, reply.to)'
              /\ Follows(StoredRecord(id), id, reply.to)' /\ Follows(StoredRecord(id), id, cursor)'
              /\ IsLevel(id)'
  <2>1. Unsettled(id, reply.to) => Unsettled(id, k) /\ Waits(id, reply.to)
    BY <1>2, <1>4, <1>5, UnsettledDown DEF Waits
  <2>2. Unsettled(id, k) => Unsettled(id, reply.to)
    <3>1. \A j \in k + 1 .. reply.to : log[j].id # AssignedId[id]
      BY <1>2, <1>4, <1>5 DEF Final
    <3> QED BY <1>2, <1>3, <1>4, <3>1, UnsettledUp
  <2>3. Shows(mem[id]) = ServerShows(id, reply.to) \/ Unsettled(id, reply.to) \/ id \notin adrift
    BY <1>3, <1>7, <1>10
  <2>4. ASSUME loaded = "whole" PROVE Follows(mem[id], id, reply.to)
    <3>1. CASE id \notin adrift
      BY <1>1, <1>3, <2>4, <3>1 DEF MemFollows, MemHorizon
    <3>2. CASE Shows(mem[id]) = ServerShows(id, reply.to) \/ Unsettled(id, reply.to)
      BY <1>2, <1>3, <2>1, <3>2, LevelFollows
    <3> QED BY <2>3, <3>1, <3>2
  <2>5. Shows(StoredRecord(id)') = ServerShows(id, reply.to) \/ Unsettled(id, reply.to)
    <3>1. CASE Row(id)' = Row(id) /\ Row(id) # NoCell /\ Row(id).updatedAt >= log[k].revision
      <4>1. id \notin adrift
        BY <1>5, <1>7, <1>10, <3>1
      <4>2. Late(id)
        BY <1>3, <1>5, <1>8, <3>1 DEF Late
      <4>3. Shows(StoredRecord(id)) = ServerShows(id, k) \/ Unsettled(id, k)
        BY <1>3, <1>5, <1>8, <4>1, <4>2 DEF LateRows, IsLevel, Final
      <4>4. StoredRecord(id)' = StoredRecord(id)
        BY <3>1 DEF StoredRecord, Row
      <4> QED BY <1>4, <2>2, <4>3, <4>4
    <3>2. CASE Shows(StoredRecord(id)') = ServerShows(id, reply.to) \/ Unsettled(id, reply.to)
      BY <3>2
    <3> QED BY <1>10, <3>1, <3>2
  <2> SUFFICES ASSUME NEW stored, stored = StoredRecord(id)'
               PROVE  /\ loaded = "whole" => Follows(mem[id], id, reply.to)'
                      /\ Follows(stored, id, reply.to)' /\ Follows(stored, id, cursor)'
                      /\ IsLevel(id)'
    OBVIOUS
  <2>6. Follows(stored, id, reply.to)
    BY <1>2, <1>3, <2>1, <2>5, LevelFollows
  <2>7. /\ loaded = "whole" => Follows(mem[id], id, reply.to)'
        /\ Follows(stored, id, reply.to)' /\ Follows(stored, id, cursor)'
    BY <1>1, <1>2, <1>3, <1>10, <2>4, <2>6, FollowsOn
  <2>8. IsLevel(id)'
    <3>1. ServerShows(AssignedId[id], LastKnown(id))' = ServerShows(id, reply.to)
      BY <1>3, <1>4, <1>5, <1>8, <1>9 DEF Final
    <3>2. Unsettled(id, LastKnown(id))' <=> Unsettled(id, k)
      BY <1>3, <1>4, <1>8, <1>9
    <3> QED BY <2>1, <2>5, <3>1, <3>2 DEF IsLevel, Shows
  <2> QED BY <2>7, <2>8
<1>11. ASSUME NEW other \in Ids \ {id}, other \notin adrift'
       PROVE  /\ loaded = "whole" => Follows(mem[other], other, MemHorizon)'
              /\ Follows(StoredRecord(other), other, RowHorizon(other))'
              /\ Late(other)' => IsLevel(other)'
  <2>1. other \notin adrift /\ Row(other)' = Row(other) /\ StoredRecord(other)' = StoredRecord(other)
    BY <1>6, <1>11 DEF StoredRecord, Row
  <2>2. /\ loaded = "whole" => Follows(mem[other], other, MemHorizon)
        /\ Follows(StoredRecord(other), other, RowHorizon(other))
    BY <1>1, <2>1 DEF MemFollows, RowFollows
  <2>3. MemHorizon' = MemHorizon /\ RowHorizon(other)' = RowHorizon(other)
    BY <1>1 DEF MemHorizon, RowHorizon
  <2>4. MemHorizon \in Nat /\ MemHorizon <= Len(log) /\ RowHorizon(other) \in Nat /\ RowHorizon(other) <= Len(log)
    BY <1>2 DEF MemHorizon, RowHorizon
  <2>5. loaded = "whole" => Follows(mem[other], other, MemHorizon)'
    BY <1>1, <1>11, <2>2, <2>3, <2>4, FollowsOn
  <2>6. Follows(StoredRecord(other), other, RowHorizon(other))'
    BY <1>1, <1>11, <2>1, <2>2, <2>3, <2>4, FollowsOn
  <2>7. Late(other)' => IsLevel(other)'
    BY <1>1, <1>2, <1>11, <2>1, LateOn
  <2> QED BY <2>5, <2>6, <2>7
<1>12. MemFollows'
  BY <1>1, <1>10, <1>11 DEF MemFollows, MemHorizon
<1>13. RowFollows'
  BY <1>1, <1>10, <1>11 DEF RowFollows, RowHorizon
<1>14. LateRows'
  BY <1>10, <1>11 DEF LateRows
<1>15. ChangesLeft'
  <2> SUFFICES ASSUME NEW other \in todo'.save \cup todo'.bury,
                      NEW j, j = LastChange(log, other, reply.to)
               PROVE  /\ ~reply.reset /\ j > cursor
                      /\ other \notin adrift' \/ Row(other)' = NoCell
                            \/ Row(other)'.updatedAt < log[j].revision =>
                            Shows(mem[other]) = ServerShows(other, reply.to) \/ Unsettled(other, reply.to)
                      /\ other \notin todo'.save /\ ~log[j].deleted =>
                            Row(other)' # NoCell /\ Row(other)'.updatedAt >= log[j].revision
    BY <1>1 DEF ChangesLeft, Shows, ServerShows, Exists, Unsettled, InLog
  <2>1. other \in Ids
    BY DEF IInv, AnswerOK
  <2>2. CASE other = id
    <3>1. j = k /\ other \in todo'.bury /\ Row(id)' # NoCell /\ Row(id)'.updatedAt >= log[k].revision
      BY <2>2
    <3>2. Row(id)'.updatedAt \in Nat
      BY <1>3, <3>1, CopiesTyped DEF IInv, Row, CopiesOK, CellsOK, CellsType, Cell
    <3>3. id \notin adrift' => Shows(mem[id]) = ServerShows(id, reply.to) \/ Unsettled(id, reply.to)
      BY <1>3, <1>7
    <3> QED BY <1>3, <1>5, <2>2, <3>1, <3>2, <3>3
  <2>3. CASE other # id
    <3>1. /\ other \in todo.save \cup todo.bury /\ (other \in todo'.save <=> other \in todo.save)
          /\ Row(other)' = Row(other) /\ (other \in adrift' <=> other \in adrift)
      BY <1>6, <2>1, <2>3
    <3> QED BY <1>1, <3>1 DEF ChangesLeft
  <2> QED BY <2>2, <2>3
<1> QED BY <1>12, <1>13, <1>14, <1>15

\* A record of the answer is stored under its time, or there is a newer row.
LEMMA SaveFollows ==
    ASSUME Setting, Ground, Ground', MemFollows, RowFollows, LateRows, ChangesLeft, [Next]_vars, SaveNext
    PROVE  MemFollows' /\ RowFollows' /\ LateRows' /\ ChangesLeft'
<1> USE DEF Ground
<1>1. PICK id \in todo.save :
          /\ cells' = SaveRecord(cells, Table, id, mem[id], SaveStamp(id))
          /\ todo' = [todo EXCEPT !.save = @ \ {id}]
          /\ adrift' = adrift \ Levelled(id)
  BY DEF SaveNext
<1>2. id \in Ids /\ stage = "storing" /\ Answered /\ mem[id] \in Record /\ todo'.save = todo.save \ {id} /\ todo'.bury = todo.bury
  BY <1>1 DEF SaveNext, Answered, IInv, AnswerOK, AnswerInHand, CopiesOK, RecordsType
<1>3. cells' = SaveRecord(cells, Table, id, mem[id], reply.at)
  BY <1>1, <1>2, SaveStampIs
<1> SUFFICES ASSUME NEW k, k = LastChange(log, id, reply.to)
             PROVE  MemFollows' /\ RowFollows' /\ LateRows' /\ ChangesLeft'
  OBVIOUS
<1>4. /\ k > cursor /\ k \in 1 .. reply.to /\ log[k].revision \in Nat /\ log[k].revision <= reply.at
      /\ reply.at \in Nat /\ (Row(id) # NoCell => Row(id).updatedAt \in Nat)
      /\ \/ id \notin adrift
         \/ Row(id) = NoCell
         \/ Row(id).updatedAt < log[k].revision
         => Shows(mem[id]) = ServerShows(id, reply.to) \/ Unsettled(id, reply.to)
  <2>1. cursor \in Nat /\ reply.to \in Nat
    BY Numbers
  <2>2. k \in 0 .. reply.to
    BY <2>1, ShowsOfLast
  <2>3. /\ k > cursor
        /\ \/ id \notin adrift
           \/ Row(id) = NoCell
           \/ Row(id).updatedAt < log[k].revision
           => Shows(mem[id]) = ServerShows(id, reply.to) \/ Unsettled(id, reply.to)
    BY <1>2 DEF ChangesLeft
  <2> QED BY <1>2, <2>1, <2>2, <2>3, AnswerIsNewest, Numbers
<1>5. cells \in CellsType
  BY DEF IInv, CopiesOK, CellsOK
<1>6. CASE Accepts(Row(id), reply.at)
  <2> DEFINE cell == LiveCell(mem[id], reply.at)
  <2>1. cells' = Put(cells, Table, id, cell)
    BY <1>3, <1>6 DEF SaveRecord, Row
  <2>2. cell \in Cell /\ cell # NoCell /\ cell.updatedAt = reply.at /\ cell.value = mem[id] /\ IsLive(cell)
    <3>1. cell \in Cell
      BY <1>2, <1>4 DEF LiveCell, Cell
    <3>2. cell # NoCell
      BY <3>1, NothingAssumption
    <3> QED BY <3>1, <3>2 DEF LiveCell, IsLive
  <2> HIDE DEF cell
  <2>3. Row(id)' = cell /\ \A other \in Ids \ {id} : Row(other)' = Row(other)
    BY <1>2, <1>5, <2>1 DEF Put, CellsType, Row
  <2>4. StoredRecord(id)' = mem[id]
    BY <2>2, <2>3 DEF StoredRecord, Row
  <2>5. id \notin adrift' => \/ id \notin adrift
                            \/ Row(id) = NoCell
                            \/ Row(id).updatedAt < log[k].revision
    BY <1>1, <1>4 DEF Levelled, Row
  <2>6. id \notin adrift' =>
           Shows(StoredRecord(id)') = ServerShows(id, reply.to) \/ Unsettled(id, reply.to)
    BY <1>4, <2>4, <2>5
  <2>7. Row(id)' # NoCell /\ Row(id)'.updatedAt >= log[k].revision
    BY <1>4, <2>2, <2>3
  <2>8. \A other \in Ids \ {id} : /\ other \in todo'.save <=> other \in todo.save
                                  /\ other \in todo'.bury <=> other \in todo.bury
    BY <1>2
  <2> QED BY <1>1, <1>2, <2>3, <2>6, <2>7, <2>8, StoreFollows
<1>7. CASE ~Accepts(Row(id), reply.at)
  <2>1. cells' = cells
    BY <1>3, <1>7 DEF SaveRecord, Row
  <2>2. \A other \in Ids : Row(other)' = Row(other)
    BY <2>1 DEF Row
  <2>3. Row(id) # NoCell /\ Row(id).updatedAt >= log[k].revision
    BY <1>4, <1>7 DEF Accepts
  <2>4. Row(id)' # NoCell /\ Row(id)'.updatedAt >= log[k].revision
    BY <1>2, <2>2, <2>3
  <2>5. \A other \in Ids \ {id} : /\ other \in todo'.save <=> other \in todo.save
                                  /\ other \in todo'.bury <=> other \in todo.bury
    BY <1>2
  <2> QED BY <1>1, <1>2, <2>2, <2>3, <2>4, <2>5, StoreFollows
<1> QED BY <1>6, <1>7

\* A deletion of the answer is stored, or there is a newer row, that of a later change
\* included.
LEMMA BuryFollows ==
    ASSUME Setting, Ground, Ground', MemFollows, RowFollows, LateRows, ChangesLeft, [Next]_vars, BuryNext
    PROVE  MemFollows' /\ RowFollows' /\ LateRows' /\ ChangesLeft'
<1> USE DEF Ground
<1>1. PICK id \in todo.bury :
          /\ cells' = RemoveRecord(cells, Table, id, ServerTombstones[id])
          /\ todo' = [todo EXCEPT !.bury = @ \ {id}]
          /\ adrift' = adrift \ Levelled(id)
  BY DEF BuryNext
<1>2. /\ id \in Ids /\ stage = "storing" /\ Answered /\ todo.save = {} /\ todo'.save = {}
      /\ todo'.bury = todo.bury \ {id} /\ id \in DOMAIN ServerTombstones
  BY <1>1 DEF BuryNext, Answered, IInv, AnswerOK, AnswerInHand, ServerTombstones
<1>3. PICK d \in DeletionPositions(id) :
          /\ d \in 1 .. reply.to /\ log[d].id = id /\ log[d].deleted
          /\ ServerTombstones[id] = log[d].revision
          /\ \A e \in DeletionPositions(id) : e <= d
  BY <1>2, TombstonesAreOlder
<1> SUFFICES ASSUME NEW k, k = LastChange(log, id, reply.to)
             PROVE  MemFollows' /\ RowFollows' /\ LateRows' /\ ChangesLeft'
  OBVIOUS
<1>4. /\ cursor \in Nat /\ reply.to \in Nat /\ reply.to <= Len(log) /\ Len(log) \in Nat
      /\ k > cursor /\ k \in 1 .. reply.to /\ log[k].revision \in Nat /\ log[k].id = id /\ ~reply.reset
      /\ \A j \in 1 .. reply.to : log[j].id = id => j <= k
      /\ Row(id) # NoCell => Row(id).updatedAt \in Nat
      /\ ~log[k].deleted => Row(id) # NoCell /\ Row(id).updatedAt >= log[k].revision
  <2>1. cursor \in Nat /\ reply.to \in Nat /\ reply.to <= Len(log) /\ Len(log) \in Nat
    BY Numbers
  <2>2. k \in 0 .. reply.to /\ (k # 0 => log[k].id = id) /\ \A j \in 1 .. reply.to : log[j].id = id => j <= k
    BY <2>1, ShowsOfLast
  <2>3. k > cursor /\ ~reply.reset /\ (~log[k].deleted => Row(id) # NoCell /\ Row(id).updatedAt >= log[k].revision)
    BY <1>2 DEF ChangesLeft
  <2> QED BY <1>2, <2>1, <2>2, <2>3, AnswerIsNewest, Numbers
<1>5. d <= k /\ log[d].revision \in Nat /\ log[d].revision <= log[k].revision
  <2>1. d <= k
    BY <1>3, <1>4
  <2>2. d \in 1 .. Len(log) /\ k \in 1 .. Len(log)
    BY <1>3, <1>4
  <2> QED BY <2>1, <2>2, Numbers
<1>6. log[k].deleted => k = d
  <2>1. ASSUME log[k].deleted PROVE k \in DeletionPositions(id)
    <3>1. k \in reply.from + 1 .. reply.to
      BY <1>2, <1>4 DEF AnswerFits
    <3> QED BY <1>4, <2>1, <3>1 DEF DeletionPositions, Positions, Pulled
  <2>2. k \in Nat /\ d \in Nat
    BY <1>3, <1>4
  <2> QED BY <1>3, <1>5, <2>1, <2>2
<1>7. cells \in CellsType
  BY DEF IInv, CopiesOK, CellsOK
<1>8. \A other \in Ids \ {id} : /\ other \in todo'.save <=> other \in todo.save
                                /\ other \in todo'.bury <=> other \in todo.bury
  BY <1>2
<1>9. CASE Accepts(Row(id), log[d].revision)
  <2> DEFINE cell == TombstoneCell(IF cells[Table][id] = NoCell THEN Blank ELSE cells[Table][id].value,
                                   log[d].revision)
  <2>1. cells' = Put(cells, Table, id, cell)
    BY <1>1, <1>3, <1>9 DEF RemoveRecord, Row
  <2>2. ~IsLive(cell) /\ cell.updatedAt = log[d].revision
    BY DEF TombstoneCell, IsLive
  <2> HIDE DEF cell
  <2>3. Row(id)' = cell /\ \A other \in Ids \ {id} : Row(other)' = Row(other)
    BY <1>2, <1>7, <2>1 DEF Put, CellsType, Row
  <2>4. StoredRecord(id)' = NoRecord
    BY <2>2, <2>3 DEF StoredRecord, Row
  <2>5. CASE log[k].deleted
    <3>1. ServerShows(id, reply.to) = NoValue
      BY <1>4, <2>5, ShowsOfLast
    <3>2. Shows(StoredRecord(id)') = ServerShows(id, reply.to)
      BY <2>4, <3>1 DEF Shows
    <3> QED BY <1>1, <1>2, <1>8, <2>3, <3>2, StoreFollows
  <2>6. CASE ~log[k].deleted
    <3>1. Row(id) # NoCell /\ Row(id).updatedAt >= log[k].revision /\ Row(id).updatedAt <= log[d].revision
      BY <1>4, <1>9, <2>6 DEF Accepts
    <3>2. d < k
      BY <1>3, <1>4, <1>5, <2>6
    <3>3. ASSUME log[d].revision = log[k].revision PROVE FALSE
      BY <1>3, <1>4, <3>2, <3>3, LogFacts DEF IInv
    <3> QED BY <1>4, <1>5, <3>1, <3>3
  <2> QED BY <2>5, <2>6
<1>10. CASE ~Accepts(Row(id), log[d].revision)
  <2>1. cells' = cells
    BY <1>1, <1>3, <1>10 DEF RemoveRecord, Row
  <2>2. \A other \in Ids : Row(other)' = Row(other)
    BY <2>1 DEF Row
  <2>3. Row(id) # NoCell /\ Row(id).updatedAt >= log[k].revision
    <3>1. Row(id) # NoCell /\ Row(id).updatedAt > log[d].revision
      BY <1>4, <1>5, <1>10 DEF Accepts
    <3> QED BY <1>4, <1>5, <1>6, <3>1
  <2> QED BY <1>1, <1>2, <1>8, <2>2, <2>3, StoreFollows
<1> QED BY <1>9, <1>10

\* A step that neither writes nor merges nor renames.
Quiet ==
    /\ [Next]_vars
    /\ ~RemapNext /\ ~Merge /\ ~Replace /\ ~SaveNext /\ ~BuryNext
    /\ \A m \in Mutations, operation \in Operations, id \in Ids : ~Mutate(m, operation, id)

\* What a quiet step leaves alone: of the copies it removes tombstones, or it reads memory
\* anew from the rows; the cursor moves when everything of the answer is stored.
LEMMA QuietMoves ==
    ASSUME IInv, Quiet
    PROVE  /\ adrift \subseteq adrift'
           /\ \A id \in Ids : /\ StoredRecord(id)' = StoredRecord(id)
                              /\ Row(id)' = Row(id) \/ Row(id)' = NoCell
           /\ stage' = "storing" =>
                 /\ stage = "storing" /\ todo' = todo /\ reply' = reply /\ cursor' = cursor
                 /\ mem' = mem
                 /\ \/ queue' = queue /\ cells' = cells /\ adrift' = adrift
                    \/ todo.save = {} /\ todo.bury = {}
           /\ stage' # "storing" =>
                 \/ cursor' = cursor
                 \/ /\ cursor' = reply.to /\ stage = "storing"
                    /\ todo.save = {} /\ todo.bury = {}
           /\ up' /\ loaded' = "whole" =>
                 \/ up /\ loaded = "whole" /\ mem' = mem
                 \/ /\ stage # "storing" /\ stage' # "storing" /\ cursor' = cursor
                    /\ mem' = [id \in Ids |-> StoredRecord(id)]
<1> USE DEF IInv
<1>1. CASE Settle
  <2>1. PICK m \in unacked : Acknowledge(m) \/ UNCHANGED cells
    BY <1>1 DEF Settle
  <2>2. PICK i \in Ids : i = claim[m].record
    BY DEF RowsOK, QueueType, QueueOf, RowOf
  <2>3. cells \in CellsType
    BY DEF CopiesOK, CellsOK
  <2>4. cells' = cells \/ (IsTombstone(Row(i)) /\ cells' = Put(cells, Table, i, NoCell))
    BY <2>1, <2>2 DEF Acknowledge, ClearTombstone, Row
  <2>5. CASE cells' = cells
    BY <1>1, <2>5 DEF Settle, Settling, StoredRecord, Row
  <2>6. CASE IsTombstone(Row(i)) /\ cells' = Put(cells, Table, i, NoCell)
    <3>1. Row(i)' = NoCell /\ \A id \in Ids \ {i} : Row(id)' = Row(id)
      BY <2>2, <2>3, <2>6 DEF Put, CellsType, Row
    <3>2. \A id \in Ids : StoredRecord(id)' = StoredRecord(id)
      BY <2>6, <3>1 DEF StoredRecord, Row, IsLive, IsTombstone
    <3> QED BY <1>1, <3>1, <3>2 DEF Settle, Settling
  <2> QED BY <2>4, <2>5, <2>6
<1>2. CASE cells' = cells /\ ~Settle
  <2>1. \A id \in Ids : StoredRecord(id)' = StoredRecord(id) /\ Row(id)' = Row(id)
    BY <1>2 DEF StoredRecord, Row
  <2>2. CASE PrimaryKeyBreaks \/ TransportFails \/ StatementFails
    BY <2>1, <2>2 DEF PrimaryKeyBreaks, TransportFails, StatementFails, Throw, EndRun
  <2>3. CASE Crash
    BY <2>1, <2>3 DEF Crash, EndRun, durable
  <2>4. CASE Finish
    BY <2>1, <2>4 DEF Finish, EndRun, Settling
  <2>5. CASE Restart
    <3>1. stage = "idle" /\ loaded = "absent"
      BY <2>5 DEF Restart, AnswerInHand, MemoryOK
    <3> QED BY <2>1, <2>5, <3>1 DEF Restart, run
  <2>6. CASE \/ \E m \in Mutations : UserRetries(m) \/ UserDiscards(m)
             \/ HandleSync
    BY <2>1, <2>6 DEF UserRetries, UserDiscards, HandleSync, NewTask, Waiting, durable, run
  <2>8. CASE EnsureTable \/ SendRequest
    <3>1. /\ up /\ up' /\ stage # "storing" /\ stage' # "storing" /\ cursor' = cursor
          /\ adrift' = adrift /\ Load
      BY <2>8 DEF EnsureTable, SendRequest, NewTask, Waiting, durable, run
    <3> QED BY <2>1, <3>1 DEF Load
  <2>7. CASE \/ \E i \in Ids, deleted \in BOOLEAN : ForeignWrite(i, deleted)
             \/ HandleLate \/ UNCHANGED vars
    BY <2>1, <2>7 DEF ForeignWrite, HandleLate, durable, run, vars
  <2> QED BY <1>2, <2>2, <2>3, <2>4, <2>5, <2>6, <2>7, <2>8 DEF Quiet, Next, RunStep
<1>3. cells' = cells \/ Settle
  BY DEF Quiet, Next, RunStep, PrimaryKeyBreaks, TransportFails, StatementFails, Crash, Finish,
     Restart,
     UserRetries, UserDiscards, EnsureTable, SendRequest, HandleSync, ForeignWrite, HandleLate,
     durable, vars
<1> QED BY <1>1, <1>2, <1>3

\* A quiet step keeps the copies: what they follow stays, and the cursor moves to where
\* they are already.
LEMMA QuietFollows ==
    ASSUME Setting, Ground, Ground', MemFollows, RowFollows, LateRows, ChangesLeft, Quiet
    PROVE  MemFollows' /\ RowFollows' /\ LateRows' /\ ChangesLeft'
<1> USE DEF Ground
<1>1. [Next]_vars /\ ~RemapNext
  BY DEF Quiet
<1>2. /\ adrift \subseteq adrift'
      /\ \A id \in Ids : /\ StoredRecord(id)' = StoredRecord(id)
                         /\ Row(id)' = Row(id) \/ Row(id)' = NoCell
      /\ stage' = "storing" =>
            /\ stage = "storing" /\ todo' = todo /\ reply' = reply /\ cursor' = cursor
            /\ mem' = mem
            /\ \/ queue' = queue /\ cells' = cells /\ adrift' = adrift
               \/ todo.save = {} /\ todo.bury = {}
      /\ stage' # "storing" =>
            \/ cursor' = cursor
            \/ /\ cursor' = reply.to /\ stage = "storing"
               /\ todo.save = {} /\ todo.bury = {}
      /\ up' /\ loaded' = "whole" =>
            \/ up /\ loaded = "whole" /\ mem' = mem
            \/ /\ stage # "storing" /\ stage' # "storing" /\ cursor' = cursor
               /\ mem' = [id \in Ids |-> StoredRecord(id)]
  BY QuietMoves
<1>3. /\ Len(log) \in Nat /\ cursor \in Nat /\ cursor <= Len(log) /\ reply.to \in Nat /\ reply.to <= Len(log)
      /\ stage = "storing" => cursor <= reply.to
  BY Numbers DEF Answered
<1>4. Settle => stage = "storing" /\ todo.save = {} /\ todo.bury = {}
  BY DEF Settle, Settling
<1>5. ASSUME NEW id \in Ids, id \notin adrift', NEW copy, NEW n \in Nat, n <= Len(log),
             Follows(copy, id, n), Settle => n = reply.to, NEW g \in 0 .. n
      PROVE  Follows(copy, id, g)'
  BY <1>1, <1>3, <1>5, FollowsOn
<1>6. ASSUME NEW id \in Ids, id \notin adrift', NEW h, h = RowHorizon(id)'
      PROVE  /\ Follows(StoredRecord(id), id, RowHorizon(id))
             /\ RowHorizon(id) \in Nat /\ RowHorizon(id) <= Len(log) /\ h \in 0 .. RowHorizon(id)
             /\ Settle => RowHorizon(id) = reply.to
  <2>1. Follows(StoredRecord(id), id, RowHorizon(id))
    BY <1>2, <1>6 DEF RowFollows
  <2>2. CASE stage' = "storing"
    BY <1>2, <1>3, <1>4, <1>6, <2>1, <2>2 DEF RowHorizon
  <2>3. CASE stage' # "storing"
    BY <1>2, <1>3, <1>4, <1>6, <2>1, <2>3 DEF RowHorizon
  <2> QED BY <2>2, <2>3
<1>7. RowFollows'
  <2> SUFFICES ASSUME NEW id \in Ids, id \notin adrift', NEW h, h = RowHorizon(id)',
                      NEW copy, copy = StoredRecord(id)
               PROVE  Follows(StoredRecord(id), id, RowHorizon(id))'
    BY DEF RowFollows
  <2>1. Follows(copy, id, RowHorizon(id))
    BY <1>6
  <2>2. Follows(copy, id, h)'
    BY <1>5, <1>6, <2>1
  <2>3. StoredRecord(id)' = copy
    BY <1>2
  <2> QED BY <2>2, <2>3
<1>8. MemFollows'
  <2> SUFFICES ASSUME up', loaded' = "whole", NEW id \in Ids, id \notin adrift',
                      NEW h, h = MemHorizon'
               PROVE  Follows(mem[id], id, MemHorizon)'
    BY DEF MemFollows
  <2>1. CASE up /\ loaded = "whole" /\ mem' = mem
    <3>1. Follows(mem[id], id, MemHorizon)
      BY <1>2, <2>1 DEF MemFollows
    <3>2. /\ MemHorizon \in Nat /\ MemHorizon <= Len(log) /\ h \in 0 .. MemHorizon
          /\ Settle => MemHorizon = reply.to
      <4>1. CASE stage' = "storing"
        BY <1>2, <1>3, <1>4, <4>1 DEF MemHorizon
      <4>2. CASE stage' # "storing"
        BY <1>2, <1>3, <1>4, <4>2 DEF MemHorizon
      <4> QED BY <4>1, <4>2
    <3> SUFFICES ASSUME NEW copy, copy = mem[id] PROVE Follows(mem[id], id, MemHorizon)'
      OBVIOUS
    <3>3. Follows(copy, id, h)'
      BY <1>5, <3>1, <3>2
    <3> QED BY <2>1, <3>3
  <2>2. CASE /\ stage # "storing" /\ stage' # "storing" /\ cursor' = cursor
             /\ mem' = [i \in Ids |-> StoredRecord(i)]
    <3>1. h = cursor /\ RowHorizon(id) = cursor
      BY <2>2 DEF MemHorizon, RowHorizon
    <3> SUFFICES ASSUME NEW copy, copy = StoredRecord(id) PROVE Follows(mem[id], id, MemHorizon)'
      OBVIOUS
    <3>2. Follows(copy, id, cursor)
      BY <1>2, <3>1 DEF RowFollows
    <3>3. Follows(copy, id, h)'
      BY <1>3, <1>4, <1>5, <2>2, <3>1, <3>2
    <3>4. mem'[id] = copy
      BY <2>2
    <3> QED BY <3>3, <3>4
  <2> QED BY <1>2, <2>1, <2>2
<1>9. LateRows'
  <2> SUFFICES ASSUME NEW id \in Ids, id \notin adrift', Late(id)' PROVE IsLevel(id)'
    BY DEF LateRows
  <2>1. Row(id)' = Row(id)
    BY <1>2 DEF Late
  <2>2. cursor' >= cursor
    BY <1>2, <1>3
  <2>3. \A m \in Mutations : queue'[m] # NoRow /\ queue'[m].record = id =>
            queue[m] # NoRow /\ queue[m].record = id
    BY <1>1, QueueMoves DEF Quiet
  <2> QED BY <1>1, <1>2, <2>1, <2>2, <2>3, LateOn
<1>10. ChangesLeft'
  <2> SUFFICES ASSUME stage' = "storing", NEW id \in todo'.save \cup todo'.bury,
                      NEW k, k = LastChange(log, id, reply.to)
               PROVE  /\ LastChange(log', id, reply'.to) = k /\ ~reply'.reset /\ k > cursor'
                      /\ \/ id \notin adrift'
                         \/ Row(id)' = NoCell
                         \/ Row(id)'.updatedAt < log'[k].revision
                         => \/ Shows(mem[id])' = ServerShows(id, reply.to)'
                            \/ Unsettled(id, reply.to)'
                      /\ id \notin todo'.save /\ ~log'[k].deleted =>
                            Row(id)' # NoCell /\ Row(id)'.updatedAt >= log'[k].revision
    BY DEF ChangesLeft
  <2>1. /\ stage = "storing" /\ todo' = todo /\ reply' = reply /\ cursor' = cursor /\ mem' = mem
        /\ queue' = queue /\ cells' = cells /\ adrift' = adrift /\ id \in todo.save \cup todo.bury
    BY <1>2
  <2>2. /\ ~reply.reset /\ k > cursor
        /\ \/ id \notin adrift
           \/ Row(id) = NoCell
           \/ Row(id).updatedAt < log[k].revision
           => Shows(mem[id]) = ServerShows(id, reply.to) \/ Unsettled(id, reply.to)
        /\ id \notin todo.save /\ ~log[k].deleted =>
              Row(id) # NoCell /\ Row(id).updatedAt >= log[k].revision
    BY <2>1 DEF ChangesLeft
  <2>3. \A j \in 1 .. reply.to : log'[j] = log[j]
    BY <1>1, <1>3, BoundGrows
  <2>4. k \in 0 .. reply.to
    BY <1>3, LastChangeIs
  <2>5. LastChange(log', id, reply.to) = k /\ log'[k] = log[k]
    BY <1>3, <2>2, <2>3, <2>4, LastChangeStays
  <2>6. ServerShows(id, reply.to)' = ServerShows(id, reply.to)
    <3>1. ASSUME NEW n, n = reply.to PROVE ServerShows(id, n)' = ServerShows(id, n)
      BY <1>1, <1>3, <3>1, ServerShowsStays, LogGrows DEF IInv
    <3> QED BY <2>1, <3>1
  <2>7. Unsettled(id, reply.to) => Unsettled(id, reply.to)'
    BY <2>1, <2>3 DEF Unsettled, InLog
  <2>8. Row(id)' = Row(id) /\ Shows(mem[id])' = Shows(mem[id])
    BY <2>1 DEF Row, Shows
  <2> QED BY <2>1, <2>2, <2>5, <2>6, <2>7, <2>8
<1> QED BY <1>7, <1>8, <1>9, <1>10

\* What is written here waits for the server; other records are left alone.
LEMMA MutateFollows ==
    ASSUME Setting, Ground, Ground', MemFollows, RowFollows, LateRows, [Next]_vars,
           NEW m \in Mutations, NEW operation \in Operations, NEW id \in Ids, Mutate(m, operation, id)
    PROVE  MemFollows' /\ RowFollows' /\ LateRows' /\ ChangesLeft'
<1> USE DEF Ground
<1>1. /\ up /\ stage # "storing" /\ stage' = stage /\ cursor' = cursor /\ reply' = reply /\ log' = log
      /\ todo' = todo /\ adrift' = adrift /\ ~RemapNext /\ ~Settle
  BY DEF Mutate, NewTask, Waiting, run, server, RemapNext, Settle, Settling
<1>2. /\ Len(log) \in Nat /\ cursor \in Nat /\ cursor <= Len(log) /\ Bound \in Nat /\ Bound <= Len(log)
      /\ Bound' = Bound
  BY <1>1, Numbers DEF Bound, Answered
<1>3. MemHorizon = cursor /\ MemHorizon' = cursor /\ \A i \in Ids : RowHorizon(i) = cursor /\ RowHorizon(i)' = cursor
  BY <1>1 DEF MemHorizon, RowHorizon
<1>4. cells \in CellsType /\ mem \in RecordsType /\ queue \in QueueType
  BY DEF IInv, CopiesOK, CellsOK, RowsOK
<1>5. PICK time : /\ queue' = [queue EXCEPT ![m] = FreshRow(Draft(operation, id), time)]
                  /\ \/ cells' = RemoveRecord(cells, Table, id, time)
                     \/ cells' = SaveRecord(cells, Table, id, Written(m, operation, id), time)
  BY MutateStamps
<1>others. \A other \in Ids \ {id} :
          Row(other)' = Row(other) /\ mem'[other] = mem[other] /\ StoredRecord(other)' = StoredRecord(other)
  <2>1. cells' = cells \/ \E cell : cells' = Put(cells, Table, id, cell)
    BY <1>5 DEF RemoveRecord, SaveRecord
  <2>2. \A other \in Ids \ {id} : Row(other)' = Row(other)
    BY <1>4, <2>1 DEF Put, CellsType, Row
  <2>3. \A other \in Ids \ {id} : mem'[other] = mem[other]
    BY <1>4 DEF Mutate, RecordsType
  <2> QED BY <2>2, <2>3 DEF StoredRecord, Row
\* Memory that a write begins is whole when nothing else is stored.
<1>started. ASSUME loaded' = "whole", NEW other \in Ids \ {id}
       PROVE  loaded = "whole" \/ mem[other] = StoredRecord(other)
  <2>1. CASE loaded = "absent"
    <3>1. Started(id) = "whole"
      BY <1>started, <2>1 DEF Mutate
    <3>2. StoredRecord(other) = NoRecord
      BY <3>1 DEF Started
    <3> QED BY <2>1, <3>2 DEF IInv, MemoryOK
  <2>2. CASE loaded # "absent"
    BY <1>started, <2>2 DEF Mutate
  <2> QED BY <2>1, <2>2
<1>6. \A n \in 0 .. Len(log) : Unsettled(id, n)' /\ Waits(id, n)'
  BY MutateWaits
<1>7. ASSUME NEW copy PROVE Follows(copy, id, cursor)'
  <2> SUFFICES ASSUME NEW n, n = cursor PROVE Follows(copy, id, cursor)'
    OBVIOUS
  <2>1. Follows(copy, id, n)'
    BY <1>2, <1>6 DEF Follows
  <2> QED BY <1>1, <2>1
<1>8. ASSUME NEW other \in Ids \ {id}, other \notin adrift
      PROVE  /\ loaded' = "whole" => Follows(mem[other], other, cursor)'
             /\ Follows(StoredRecord(other), other, cursor)'
             /\ Late(other)' => IsLevel(other)'
  <2> SUFFICES ASSUME NEW shown, shown = mem[other], NEW stored, stored = StoredRecord(other),
                      NEW n, n = cursor
               PROVE  /\ loaded' = "whole" => Follows(shown, other, n)'
                      /\ Follows(stored, other, n)'
                      /\ Late(other)' => IsLevel(other)'
    BY <1>1, <1>others
  <2>1. (loaded' = "whole" => Follows(shown, other, n)) /\ Follows(stored, other, n)
    BY <1>1, <1>3, <1>8, <1>started DEF MemFollows, RowFollows
  <2>2. (loaded' = "whole" => Follows(shown, other, n)') /\ Follows(stored, other, n)'
    BY <1>1, <1>2, <1>8, <2>1, FollowsOn
  <2>3. ASSUME NEW x \in Mutations, queue'[x] # NoRow, queue'[x].record = other
        PROVE  queue[x] # NoRow /\ queue[x].record = other
    <3>1. CASE x = m
      <4>1. queue'[m].record = id
        <5>1. queue'[m] = FreshRow(Draft(operation, id), time)
          BY <1>4, <1>5 DEF QueueType, QueueOf
        <5> QED BY <5>1 DEF FreshRow, Draft
      <4> QED BY <2>3, <3>1, <4>1
    <3>2. CASE x # m
      <4>1. queue'[x] = queue[x]
        BY <1>4, <1>5, <3>2 DEF QueueType, QueueOf
      <4> QED BY <2>3, <4>1
    <3> QED BY <3>1, <3>2
  <2>4. Late(other)' => IsLevel(other)'
    BY <1>1, <1>2, <1>8, <1>others, <2>3, LateOn
  <2> QED BY <2>2, <2>4
<1>9. MemFollows' /\ RowFollows'
  <2>1. ASSUME NEW i \in Ids, i \notin adrift'
        PROVE  /\ loaded' = "whole" => Follows(mem[i], i, MemHorizon)'
               /\ Follows(StoredRecord(i), i, RowHorizon(i))'
    <3> SUFFICES ASSUME NEW shown, shown = mem'[i], NEW stored, stored = StoredRecord(i)',
                        NEW n, n = cursor
                 PROVE  /\ loaded' = "whole" => Follows(mem[i], i, MemHorizon)'
                        /\ Follows(StoredRecord(i), i, RowHorizon(i))'
      OBVIOUS
    <3>1. (loaded' = "whole" => Follows(shown, i, n)') /\ Follows(stored, i, n)'
      <4>1. CASE i = id
        <5>1. Follows(shown, id, cursor)' /\ Follows(stored, id, cursor)'
          BY <1>7
        <5> QED BY <1>1, <4>1, <5>1
      <4>2. CASE i # id
        BY <1>1, <1>8, <2>1, <4>2
      <4> QED BY <4>1, <4>2
    <3> QED BY <1>3, <3>1
  <2> QED BY <2>1 DEF MemFollows, RowFollows
<1>10. LateRows'
  <2> SUFFICES ASSUME NEW i \in Ids, i \notin adrift', Late(i)' PROVE IsLevel(i)'
    BY DEF LateRows
  <2>1. CASE i = id
    <3> SUFFICES ASSUME NEW k, k = LastKnown(id)' PROVE IsLevel(id)'
      BY <2>1
    <3>1. k \in 0 .. Len(log)
      <4>1. k = LastChange(log, AssignedId[id], Bound)
        BY <1>1, <1>2 DEF LastKnown
      <4> QED BY <1>2, <4>1, LastChangeIs
    <3>2. Unsettled(id, k)'
      BY <1>6, <3>1
    <3> QED BY <3>2 DEF IsLevel
  <2>2. CASE i # id
    BY <1>1, <1>8, <2>2
  <2> QED BY <2>1, <2>2
<1>11. ChangesLeft'
  BY <1>1 DEF ChangesLeft
<1> QED BY <1>9, <1>10, <1>11

----------------------------------------------------------------------------
\* The inductive invariant of the copies, given what they rest on.
CopyInv == MemFollows /\ RowFollows /\ LateRows /\ ChangesLeft

\* CopyInv is inductive on Ground.
LEMMA CopiesStay ==
    ASSUME Setting, Ground, Ground', CopyInv, [Next]_vars
    PROVE  CopyInv'
<1> USE DEF CopyInv
<1>1. ASSUME NEW m \in Mutations, NEW operation \in Operations, NEW id \in Ids, Mutate(m, operation, id)
      PROVE  CopyInv'
  BY <1>1, MutateFollows
<1>2. CASE RemapNext
  BY <1>2, RenameFollows
<1>3. CASE Merge
  BY <1>3, MergeFollows
<1>4. CASE Replace
  BY <1>4, ReplaceFollows
<1>5. CASE SaveNext
  BY <1>5, SaveFollows
<1>6. CASE BuryNext
  BY <1>6, BuryFollows
<1>7. CASE Quiet
  BY <1>7, QuietFollows
<1> QED BY <1>1, <1>2, <1>3, <1>4, <1>5, <1>6, <1>7 DEF Quiet

\* CopiesFollowTheServer: nothing that lies before the cursor is missing from memory or
\* from the database, wherever the process dies or a statement fails.
THEOREM CopiesFollow ==
    ASSUME Setting
    PROVE  Spec => []CopiesFollowTheServer
<1>1. Init => CopyInv
  <2> SUFFICES ASSUME Init PROVE CopyInv
    OBVIOUS
  <2> USE DEF Init
  <2>1. Len(log) = 0 /\ stage = "idle" /\ cursor = 0
    OBVIOUS
  <2>2. \A id \in Ids : StoredRecord(id) = NoRecord /\ mem[id] = NoRecord /\ Row(id) = NoCell
    BY DEF StoredRecord, Row, IsLive
  <2>3. ASSUME NEW id \in Ids PROVE ServerShows(id, 0) = NoValue
    <3>1. LastChange(log, id, 0) = 0
      BY IsLastChange
    <3> QED BY <3>1, ServerShowsLast
  <2>4. ASSUME NEW id \in Ids PROVE Follows(NoRecord, id, 0)
    BY <2>1, <2>3, <2>4 DEF Follows, Shows
  <2>5. MemFollows /\ RowFollows
    BY <2>1, <2>2, <2>4 DEF MemFollows, RowFollows, MemHorizon, RowHorizon
  <2>6. LateRows /\ ChangesLeft
    BY <2>1, <2>2 DEF LateRows, Late, ChangesLeft
  <2> QED BY <2>5, <2>6 DEF CopyInv
<1>2. Ground /\ Ground' /\ CopyInv /\ [Next]_vars => CopyInv'
  BY CopiesStay
<1>3. Ground /\ CopyInv => CopiesFollowTheServer
  <2> SUFFICES ASSUME Ground, CopyInv, NEW id \in Ids, ~Pending(id), id \notin adrift
               PROVE  /\ LevelWithServer(StoredRecord(id), id)
                      /\ up /\ loaded = "whole" => LevelWithServer(mem[id], id)
    BY DEF CopiesFollowTheServer
  <2>1. \A n : ~Waits(id, n)
    <3>1. queue \in QueueType
      BY DEF Ground, IInv, RowsOK
    <3> QED BY <3>1 DEF Waits, Unsettled, Pending, Queued, QueueType, QueueOf
  <2>2. /\ Len(log) \in Nat /\ cursor \in Nat /\ reply.to \in Nat
        /\ stage = "storing" => cursor <= reply.to
    BY Numbers DEF Answered
  <2>3. MemHorizon \in Nat /\ MemHorizon >= cursor /\ RowHorizon(id) \in Nat /\ RowHorizon(id) >= cursor
    BY <2>2 DEF MemHorizon, RowHorizon
  <2>4. LevelWithServer(StoredRecord(id), id)
    <3>1. Follows(StoredRecord(id), id, RowHorizon(id))
      BY DEF CopyInv, RowFollows
    <3>2. PICK k \in RowHorizon(id) .. Len(log) : Shows(StoredRecord(id)) = ServerShows(id, k)
      BY <2>1, <3>1 DEF Follows
    <3>3. k \in cursor .. Len(log)
      BY <2>2, <2>3
    <3> QED BY <3>2, <3>3 DEF LevelWithServer
  <2>5. ASSUME up, loaded = "whole" PROVE LevelWithServer(mem[id], id)
    <3>1. Follows(mem[id], id, MemHorizon)
      BY <2>5 DEF CopyInv, MemFollows
    <3>2. PICK k \in MemHorizon .. Len(log) : Shows(mem[id]) = ServerShows(id, k)
      BY <2>1, <3>1 DEF Follows
    <3>3. k \in cursor .. Len(log)
      BY <2>2, <2>3
    <3> QED BY <3>2, <3>3 DEF LevelWithServer
  <2> QED BY <2>4, <2>5
<1>4. Spec => []Ground
  BY GroundHolds
<1> QED BY <1>1, <1>2, <1>3, <1>4, PTL DEF Spec

----------------------------------------------------------------------------
\* What memory shows under an id that the server replaces has a row under it: nothing is
\* pulled under such an id, a local write leaves a row there whether it is accepted or
\* not, and a tombstone is cleared there when memory has the new id already.
TemporaryStored ==
    \A id \in Ids : ~Final(id) /\ mem[id] # NoRecord =>
        /\ Row(id) # NoCell
        /\ stage \in {"renaming", "storing"} => id \notin reply.renames

\* TemporaryStored is inductive on Ground.
LEMMA TemporaryStaysStored ==
    ASSUME Setting, Ground, Ground', TemporaryStored, [Next]_vars
    PROVE  TemporaryStored'
<1> USE DEF Ground
<1> SUFFICES ASSUME NEW id \in Ids, ~Final(id), mem'[id] # NoRecord
             PROVE  /\ Row(id)' # NoCell
                    /\ stage' \in {"renaming", "storing"} => id \notin reply'.renames
  BY DEF TemporaryStored, Final
<1>1. \A k \in 1 .. Len(log) : log[k].id # id
  BY DEF SameMutation
<1>2. Answered => \A k \in cursor + 1 .. reply.to : k \in 1 .. Len(log)
  BY Numbers
<1>3. ASSUME NEW m \in Mutations, NEW operation \in Operations, NEW i \in Ids,
             Mutate(m, operation, i)
      PROVE  Row(id)' # NoCell /\ stage' \notin {"renaming", "storing"}
  <2>1. /\ cells \in CellsType /\ mem \in RecordsType
        /\ stage' \notin {"renaming", "storing"}
    BY <1>3 DEF IInv, CopiesOK, CellsOK, Mutate, NewTask, Waiting, run
  <2>2. PICK time \in Nat :
            cells' = IF operation = "DELETE" THEN RemoveRecord(cells, Table, i, time)
                     ELSE SaveRecord(cells, Table, i, Written(m, operation, i), time)
    BY <1>3, MutateStamps
  <2>3. CASE i # id
    <3>1. mem'[id] = mem[id]
      BY <1>3, <2>1, <2>3 DEF Mutate, RecordsType
    <3>2. Row(id)' = Row(id)
      BY <2>1, <2>2, <2>3 DEF RemoveRecord, SaveRecord, Put, CellsType, Row
    <3> QED BY <2>1, <3>1, <3>2 DEF TemporaryStored
  \* The row is written, or refuses to be.
  <2>4. CASE i = id
    <3>1. operation # "DELETE" /\ mem'[id] = Written(m, operation, id)
      BY <1>3, <2>1, <2>4 DEF Mutate, RecordsType
    <3> SUFFICES ASSUME NEW record, record = Written(m, operation, id) PROVE Row(id)' # NoCell
      BY <2>1
    <3>2. record \in Record
      BY <3>1, CopiesTyped DEF IInv, CopiesOK, RecordsType
    <3>3. LiveCell(record, time) # NoCell
      <4>1. LiveCell(record, time) \in Cell
        BY <3>2 DEF LiveCell, Cell
      <4> QED BY <4>1, NothingAssumption
    <3>4. CASE Accepts(Row(id), time)
      <4>1. Row(id)' = LiveCell(record, time)
        BY <2>1, <2>2, <2>4, <3>1, <3>4 DEF SaveRecord, Put, CellsType, Row
      <4> QED BY <3>3, <4>1
    <3>5. CASE ~Accepts(Row(id), time)
      <4>1. Row(id)' = Row(id)
        BY <2>2, <2>4, <3>1, <3>5 DEF SaveRecord, Row
      <4> QED BY <3>5, <4>1 DEF Accepts
    <3> QED BY <3>4, <3>5
  <2> QED BY <2>1, <2>3, <2>4
<1>4. CASE RemapNext
  <2>1. PICK from \in Ids, to \in Ids : ~Final(from) /\ mem'[from] = NoRecord
    BY <1>4, RenameMoves
  <2>2. from = id
    BY <2>1 DEF Setting, Final
  <2> QED BY <2>1, <2>2
\* A renamed id is gone from memory, and no answer brings it back.
<1>5. ASSUME Merging, mem' = Visible, mem[id] # NoRecord PROVE id \notin reply.renames
  <2>1. CASE stage = "renaming"
    BY <1>5, <2>1 DEF TemporaryStored
  <2>2. CASE stage = "answered"
    <3>1. todo.rename = {} /\ todo.rename = reply.renames
      BY <1>5, <2>2 DEF Merging, AnswerFits, Answered
    <3> QED BY <3>1
  <2> QED BY <1>5, <2>1, <2>2 DEF Merging
<1>6. CASE Merge
  <2>1. /\ Answered /\ ~reply.reset /\ mem' = Visible /\ cells' = cells /\ reply' = reply
        /\ Merging
    BY <1>6 DEF Merge, Merging, Answered, durable
  <2>2. mem[id] # NoRecord
    <3>1. CASE id \in Protected
      <4>1. id \notin DeletedIds
        BY <2>1 DEF Visible
      <4> QED BY <2>1, <3>1, <4>1, ProtectedIsVisible DEF IInv, CopiesOK
    <3>2. CASE id \notin Protected
      BY <1>1, <1>2, <2>1, <3>2, NoNews
    <3> QED BY <3>1, <3>2
  <2> QED BY <1>5, <2>1, <2>2 DEF TemporaryStored, Row
<1>7. CASE Replace
  <2>1. StoredRecord(id)' = Visible[id] /\ mem' = Visible /\ reply' = reply /\ Merging
    BY <1>7, ReplaceRows DEF Replace
  <2>2. Row(id)' # NoCell
    BY <2>1 DEF StoredRecord, Row, IsLive
  <2>3. mem[id] # NoRecord
    <3>1. CASE id \in Protected
      <4>1. id \notin DeletedIds
        BY <2>1 DEF Visible
      <4> QED BY <2>1, <3>1, <4>1, ProtectedIsVisible DEF IInv, CopiesOK
    <3>2. CASE id \notin Protected
      <4>1. LastChange(log, id, reply.to) = 0
        BY <3>2, NothingUnder, Numbers
      <4> QED BY <1>7, <2>1, <3>2, <4>1, Replaced DEF Replace
    <3> QED BY <3>1, <3>2
  <2> QED BY <1>5, <2>1, <2>2, <2>3
<1>8. CASE SaveNext
  <2>1. PICK i \in todo.save : cells' = SaveRecord(cells, Table, i, mem[i], SaveStamp(i))
    BY <1>8 DEF SaveNext
  <2>2. /\ i \in Ids /\ RecordPositions(i) # {} /\ Answered
        /\ mem' = mem /\ stage' = stage /\ reply' = reply
    BY <1>8, <2>1 DEF SaveNext, IInv, AnswerOK, AnswerInHand, Answered
  <2>3. i # id
    BY <1>1, <2>2, AnswerIsNewest DEF RecordPositions
  <2>4. Row(id)' = Row(id)
    BY <2>1, <2>2, <2>3 DEF SaveRecord, Put, CellsType, IInv, CopiesOK, CellsOK, Row
  <2> QED BY <2>2, <2>4 DEF TemporaryStored
<1>9. CASE BuryNext
  <2>1. PICK i \in todo.bury : cells' = RemoveRecord(cells, Table, i, ServerTombstones[i])
    BY <1>9 DEF BuryNext
  <2>2. /\ i \in Ids /\ DeletionPositions(i) # {} /\ Answered
        /\ mem' = mem /\ stage' = stage /\ reply' = reply
    BY <1>9, <2>1 DEF BuryNext, IInv, AnswerOK, AnswerInHand, Answered
  <2>3. i # id
    BY <1>1, <2>2, AnswerIsNewest DEF DeletionPositions
  <2>4. Row(id)' = Row(id)
    BY <2>1, <2>2, <2>3 DEF RemoveRecord, Put, CellsType, IInv, CopiesOK, CellsOK, Row
  <2> QED BY <2>2, <2>4 DEF TemporaryStored
\* The tombstone that an acknowledged deletion clears is under an id that was renamed.
<1>10. CASE Settle
  <2>1. /\ stage = "storing" /\ stage' = stage /\ mem' = mem /\ reply' = reply /\ Answered
    BY <1>10 DEF Settle, Settling, Answered
  <2>2. PICK m \in unacked : (m \in reply.ack /\ Acknowledge(m)) \/ UNCHANGED cells
    BY <1>10 DEF Settle
  <2>3. mem[id] # NoRecord /\ Row(id) # NoCell /\ id \notin reply.renames
    BY <2>1 DEF TemporaryStored
  <2>4. ASSUME m \in reply.ack, Acknowledge(m), claim[m].record = id PROVE FALSE
    <3>1. m \in Batch /\ InLog(m, reply.to)
      BY <2>1, <2>4 DEF AnswerFits, IInv, RowsOK, Batch
    <3> QED BY <2>1, <2>3, <2>4, <3>1 DEF AnswerFits
  <2>5. Row(id)' = Row(id)
    <3>1. cells \in CellsType
      BY DEF IInv, CopiesOK, CellsOK
    <3> QED BY <2>2, <2>4, <3>1 DEF Acknowledge, ClearTombstone, Put, CellsType, Row
  <2> QED BY <2>1, <2>3, <2>5
<1>11. CASE Quiet /\ ~Settle
  <2>1. StoredRecord(id)' = StoredRecord(id) /\ cells' = cells
    BY <1>11, QuietMoves DEF Quiet, Next, RunStep, PrimaryKeyBreaks, TransportFails, StatementFails,
       Crash, Finish, Restart, UserRetries, UserDiscards, EnsureTable, SendRequest, HandleSync,
       ForeignWrite, HandleLate, durable, vars
  <2>2. stage' \in {"renaming", "storing"} => stage' = stage /\ reply' = reply /\ mem' = mem
    BY <1>11, RunMoves DEF Quiet, HandleSync, SendRequest, EndRun, Next, RunStep, Mutate,
       EnsureTable,
       NewTask, Waiting, UserRetries, UserDiscards, ForeignWrite, HandleLate, Restart, Crash,
       PrimaryKeyBreaks, TransportFails, StatementFails, Finish, Throw, Load, IInv, MemoryOK, run,
       vars
  <2>3. mem'[id] \in {mem[id], StoredRecord(id)}
    <3>1. CASE EnsureTable \/ SendRequest
      BY <3>1 DEF EnsureTable, SendRequest, Load
    <3>2. CASE ~EnsureTable /\ ~SendRequest
      BY <1>11, <3>2 DEF Quiet, Next, RunStep, PrimaryKeyBreaks, TransportFails, StatementFails,
         Crash, Finish, Restart, UserRetries, UserDiscards, HandleSync, ForeignWrite, HandleLate,
         vars
    <3> QED BY <3>1, <3>2
  <2>4. Row(id)' = Row(id) /\ Row(id) # NoCell
    BY <2>1, <2>3 DEF TemporaryStored, StoredRecord, Row, IsLive
  <2> QED BY <2>2, <2>4 DEF TemporaryStored
<1> QED BY <1>3, <1>4, <1>6, <1>7, <1>8, <1>9, <1>10, <1>11 DEF Quiet

\* DeletedStaysDeleted where the server has an id of its own: the rename does not bring a
\* deleted record back either, as the record it moves has a row, which would not go where a
\* tombstone is.
THEOREM DeletionsLastUnderNewId ==
    ASSUME Setting
    PROVE  Spec => DeletedStaysDeleted
<1>1. Init => TemporaryStored
  BY DEF Init, TemporaryStored
<1>2. Ground /\ Ground' /\ TemporaryStored /\ [Next]_vars => TemporaryStored'
  BY TemporaryStaysStored
<1>3. ASSUME Ground, TemporaryStored, [Next]_vars PROVE [\A id \in Ids : StaysDeleted(id)]_vars
  <2>1. CASE ~RemapNext
    BY <1>3, <2>1, OnlyRenamesBringBack DEF Ground
  <2>2. CASE RemapNext
    <3> SUFFICES ASSUME NEW id \in Ids, IsTombstone(Row(id)), mem[id] = NoRecord, mem'[id] # NoRecord
                 PROVE  FALSE
      BY DEF StaysDeleted, Row
    <3>1. PICK from \in Ids, to \in Ids :
              /\ ~Final(from)
              /\ Row(from) # NoCell => Row(to) = NoCell
              /\ mem'[from] = NoRecord
              /\ mem'[to] = IF mem[from] # NoRecord THEN mem[from] ELSE mem[to]
              /\ \A i \in Ids \ {from, to} : mem'[i] = mem[i]
      BY <1>3, <2>2, RenameMoves DEF Ground
    <3>2. id = to /\ mem[from] # NoRecord
      BY <3>1
    <3>3. Row(from) # NoCell
      BY <1>3, <3>1, <3>2 DEF TemporaryStored
    <3> QED BY <3>1, <3>2, <3>3 DEF IsTombstone
  <2> QED BY <2>1, <2>2
<1>4. ASSUME [\A id \in Ids : StaysDeleted(id)]_vars
      PROVE  [\A id \in Ids :
                 IsTombstone(cells[Table][id]) /\ mem[id] = NoRecord /\ mem'[id] # NoRecord =>
                    \/ \E m \in Mutations : Mutate(m, "CREATE", id)
                    \/ mem'[id].updatedAt > cells[Table][id].updatedAt
                    \/ Replace /\ id \notin DeletedIds]_vars
  BY <1>4 DEF StaysDeleted
<1>5. Spec => []Ground
  BY GroundHolds
<1> QED BY <1>1, <1>2, <1>3, <1>4, <1>5, PTL DEF Spec, DeletedStaysDeleted
=============================================================================
