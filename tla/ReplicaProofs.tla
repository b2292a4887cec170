--------------------------- MODULE ReplicaProofs ---------------------------
(***************************************************************************)
(* Theorems about the replica of one table, for any sets of mutations and  *)
(* records, any ids the server assigns, any conflict strategy and kind of  *)
(* revision, and any number of failures, replacements and foreign writes.  *)
(***************************************************************************)
EXTENDS Replica, QueueRowsProofs, FiniteSetTheorems, WellFoundedInduction, SequenceTheorems, TLAPS

\* Among the sets of what lies above an element of S there is a smallest one.
LEMMA LatestIsGreatest ==
    ASSUME NEW S, S \subseteq Nat, IsFiniteSet(S), S # {}
    PROVE  Latest(S) \in S /\ \A j \in S : j <= Latest(S)
<1> DEFINE Above(k) == {j \in S : k < j}
           Aboves == {Above(k) : k \in S}
<1>1. Aboves \subseteq FiniteSubsetsOf(S) /\ Aboves # {}
  <2>1. ASSUME NEW k \in S PROVE Above(k) \in SUBSET S /\ IsFiniteSet(Above(k))
    <3>1. Above(k) \in SUBSET S
      OBVIOUS
    <3> QED BY <3>1, FS_Subset
  <2>2. Aboves # {}
    OBVIOUS
  <2>3. ASSUME NEW T \in Aboves PROVE T \in SUBSET S /\ IsFiniteSet(T)
    BY <2>1
  <2> HIDE DEF Aboves
  <2> QED BY <2>2, <2>3 DEF FiniteSubsetsOf
<1>2. PICK least \in Aboves : \A other \in Aboves : <<other, least>> \notin StrictSubsetOrdering(S)
  <2> HIDE DEF Aboves
  <2>1. IsWellFoundedOn(StrictSubsetOrdering(S), FiniteSubsetsOf(S))
    BY FS_StrictSubsetOrderingWellFounded
  <2> QED BY ONLY <1>1, <2>1, WFMin
<1>3. PICK k \in S : least = Above(k)
  BY <1>2
<1>4. ASSUME NEW j \in S, k < j PROVE FALSE
  <2>1. Above(j) \subseteq Above(k)
    <3>1. ASSUME NEW i \in Above(j) PROVE i \in S /\ k < i
      <4>1. i \in Nat /\ j \in Nat /\ k \in Nat /\ j < i
        OBVIOUS
      <4> QED BY <1>4, <4>1
    <3> QED BY <3>1
  <2>2. j \in Above(k) /\ j \notin Above(j)
    BY <1>4
  <2>3. <<Above(j), Above(k)>> \in StrictSubsetOrdering(S)
    <3> HIDE DEF Above
    <3>1. Above(j) \in SUBSET S /\ Above(k) \in SUBSET S
      BY DEF Above
    <3> QED BY <2>1, <2>2, <3>1 DEF StrictSubsetOrdering
  <2>4. Above(j) \in Aboves
    OBVIOUS
  <2> QED BY <1>2, <1>3, <2>3, <2>4
<1>5. \A j \in S : j <= k
  BY <1>4
<1> QED BY <1>5 DEF Latest

LEMMA EarliestIsLeast ==
    ASSUME NEW S, S \subseteq Nat, IsFiniteSet(S), S # {}
    PROVE  Earliest(S) \in S /\ \A j \in S : Earliest(S) <= j
<1> DEFINE Below(k) == {j \in S : j < k}
           Belows == {Below(k) : k \in S}
<1>1. Belows \subseteq FiniteSubsetsOf(S) /\ Belows # {}
  <2>1. ASSUME NEW k \in S PROVE Below(k) \in SUBSET S /\ IsFiniteSet(Below(k))
    <3>1. Below(k) \in SUBSET S
      OBVIOUS
    <3> QED BY <3>1, FS_Subset
  <2>2. Belows # {}
    OBVIOUS
  <2>3. ASSUME NEW T \in Belows PROVE T \in SUBSET S /\ IsFiniteSet(T)
    BY <2>1
  <2> HIDE DEF Belows
  <2> QED BY <2>2, <2>3 DEF FiniteSubsetsOf
<1>2. PICK least \in Belows : \A other \in Belows : <<other, least>> \notin StrictSubsetOrdering(S)
  <2> HIDE DEF Belows
  <2>1. IsWellFoundedOn(StrictSubsetOrdering(S), FiniteSubsetsOf(S))
    BY FS_StrictSubsetOrderingWellFounded
  <2> QED BY ONLY <1>1, <2>1, WFMin
<1>3. PICK k \in S : least = Below(k)
  BY <1>2
<1>4. ASSUME NEW j \in S, j < k PROVE FALSE
  <2>1. Below(j) \subseteq Below(k)
    <3>1. ASSUME NEW i \in Below(j) PROVE i \in S /\ i < k
      <4>1. i \in Nat /\ j \in Nat /\ k \in Nat /\ i < j
        OBVIOUS
      <4> QED BY <1>4, <4>1
    <3> QED BY <3>1
  <2>2. j \in Below(k) /\ j \notin Below(j)
    BY <1>4
  <2>3. <<Below(j), Below(k)>> \in StrictSubsetOrdering(S)
    <3> HIDE DEF Below
    <3>1. Below(j) \in SUBSET S /\ Below(k) \in SUBSET S
      BY DEF Below
    <3> QED BY <2>1, <2>2, <3>1 DEF StrictSubsetOrdering
  <2>4. Below(j) \in Belows
    OBVIOUS
  <2> QED BY <1>2, <1>3, <2>3, <2>4
<1>5. \A j \in S : k <= j
  <2>1. \A j \in S : j \in Nat /\ k \in Nat
    OBVIOUS
  <2> QED BY <1>4, <2>1
<1> QED BY <1>5 DEF Earliest

----------------------------------------------------------------------------
(***************************************************************************)
(* The stored rows                                                         *)
(***************************************************************************)
CellsType == [{Table} -> [Ids -> Cell \cup {NoCell}]]

\* A row that is not a tombstone holds a record.
HoldsRecords(c) == \A id \in Ids : IsLive(c[Table][id]) => c[Table][id].value \in Record

\* A table of rows that has its type.
CellsOK(c) == c \in CellsType /\ HoldsRecords(c)

LEMMA PutOK ==
    ASSUME NEW c, CellsOK(c), NEW id \in Ids, NEW cell \in Cell \cup {NoCell},
           IsLive(cell) => cell.value \in Record
    PROVE  CellsOK(Put(c, Table, id, cell))
BY DEF CellsOK, CellsType, HoldsRecords, Put

LEMMA SaveRecordOK ==
    ASSUME NEW c, CellsOK(c), NEW id \in Ids, NEW record \in Record, NEW time \in Nat
    PROVE  CellsOK(SaveRecord(c, Table, id, record, time))
<1>1. LiveCell(record, time) \in Cell /\ LiveCell(record, time).value \in Record
  BY DEF LiveCell, Cell
<1> QED BY <1>1, PutOK DEF SaveRecord

LEMMA RemoveRecordOK ==
    ASSUME NEW c, CellsOK(c), NEW id \in Ids, NEW time \in Nat
    PROVE  CellsOK(RemoveRecord(c, Table, id, time))
<1> DEFINE value == IF c[Table][id] = NoCell THEN Blank ELSE c[Table][id].value
<1>1. value \in Record \cup {Blank}
  BY DEF CellsOK, CellsType, Cell
<1>2. TombstoneCell(value, time) \in Cell /\ ~IsLive(TombstoneCell(value, time))
  <2> HIDE DEF value
  <2> QED BY <1>1 DEF TombstoneCell, Cell, IsLive
<1> QED BY <1>2, PutOK DEF RemoveRecord

LEMMA ClearTombstoneOK ==
    ASSUME NEW c, CellsOK(c), NEW id \in Ids, NEW through
    PROVE  CellsOK(ClearTombstone(c, Table, id, through))
BY PutOK DEF ClearTombstone, IsLive

LEMMA RemapCellsOK ==
    ASSUME NEW c, CellsOK(c), NEW from \in Ids, NEW to \in Ids
    PROVE  CellsOK(RemapCells(c, Table, from, to))
BY DEF CellsOK, CellsType, HoldsRecords, RemapCells, IsLive

LEMMA ReplaceTableOK ==
    ASSUME NEW c, CellsOK(c), NEW live, NEW dead, NEW time \in Nat,
           \A id \in DOMAIN live : live[id] \in Record,
           \A id \in DOMAIN dead : dead[id] \in Nat
    PROVE  CellsOK(ReplaceTable(c, Table, live, dead, time))
<1> DEFINE row(id) == IF id \in DOMAIN live THEN LiveCell(live[id], time)
                      ELSE IF id \in DOMAIN dead THEN TombstoneCell(Blank, dead[id])
                      ELSE NoCell
<1>1. ASSUME NEW id \in Ids
      PROVE  row(id) \in Cell \cup {NoCell} /\ (IsLive(row(id)) => row(id).value \in Record)
  BY DEF LiveCell, TombstoneCell, Cell, IsLive
<1>2. ReplacedTable(DOMAIN c[Table], live, dead, time) = [id \in Ids |-> row(id)]
  BY DEF ReplacedTable, CellsOK, CellsType
<1>3. ReplaceTable(c, Table, live, dead, time) = [t \in {Table} |-> [id \in Ids |-> row(id)]]
  <2> HIDE DEF row
  <2> QED BY <1>2 DEF ReplaceTable, CellsOK, CellsType
<1> HIDE DEF row
<1> QED BY <1>1, <1>3 DEF CellsOK, CellsType, HoldsRecords

----------------------------------------------------------------------------
(***************************************************************************)
(* The queue and the log                                                   *)
(***************************************************************************)
QueueType == QueueOf({Table}, Ids, Mutations)

LogType == Seq(ChangeOf(Ids, Values))

LEMMA DraftRowType ==
    ASSUME NEW operation \in Operations, NEW id \in Ids, NEW time \in Nat
    PROVE  FreshRow(Draft(operation, id), time) \in RowOf({Table}, Ids, Mutations)
<1>1. /\ Draft(operation, id).table \in {Table} /\ Draft(operation, id).record \in Ids
      /\ Draft(operation, id).operation \in Operations
      /\ Draft(operation, id).dependsOn \in SUBSET Mutations
  BY DEF Draft
<1> QED BY <1>1, FreshRowType

LEMMA FailAllType ==
    ASSUME NEW q \in QueueType, NEW S \in SUBSET Mutations
    PROVE  FailAll(q, S) \in QueueType
<1>1. \A m \in Mutations : MarkFailed(q, m, 0) \in QueueType
  BY MarkFailedType, ReplicaAssumption DEF QueueType
<1> QED BY <1>1 DEF FailAll, QueueType, QueueOf

LEMMA ClaimType ==
    ASSUME NEW q \in QueueType, NEW due \in SUBSET Queued(q)
    PROVE  [m \in Mutations |-> IF m \in due THEN q[m] ELSE NoRow] \in QueueType
BY DEF QueueType, QueueOf, Queued

\* What the server appends are changes, and what is in the log stays.
Extends(longer, shorter) ==
    /\ longer \in LogType
    /\ Len(shorter) <= Len(longer)
    /\ \A k \in 1 .. Len(shorter) : longer[k] = shorter[k]

LEMMA RevisionType ==
    ASSUME log \in LogType, NEW k \in Nat, NEW time \in Nat
    PROVE  Revision(log, k, time) \in Nat
BY LenProperties DEF Revision, LogType

LEMMA AppendedExtends ==
    ASSUME log \in LogType, now \in Nat, NEW rows \in QueueType, NEW n \in Nat,
           NEW order \in [1 .. n -> Mutations],
           \A k \in 1 .. n : rows[order[k]] # NoRow
    PROVE  Extends(Appended(log, order, rows, AssignedId, now), log)
<1> DEFINE change(k) == NewChange(AssignedId[rows[order[k]].record], order[k],
                                  rows[order[k]].operation = "DELETE", Revision(log, k, now))
           tail == [k \in 1 .. n |-> change(k)]
<1>1. Len(order) = n
  <2>1. order \in Seq(Mutations)
    BY IsASeq
  <2>2. 1 .. Len(order) = 1 .. n /\ Len(order) \in Nat
    BY <2>1, LenProperties
  <2> QED BY <2>2
<1>2. ASSUME NEW k \in 1 .. n PROVE change(k) \in ChangeOf(Ids, Values)
  <2>1. rows[order[k]].record \in Ids
    BY DEF QueueType, QueueOf, RowOf
  <2>2. AssignedId[rows[order[k]].record] \in Ids /\ order[k] \in Values
    BY <2>1, ReplicaAssumption DEF Values
  <2>3. Revision(log, k, now) \in Nat
    <3>1. k \in Nat
      OBVIOUS
    <3> QED BY <3>1, RevisionType
  <2> QED BY <2>2, <2>3 DEF NewChange, ChangeOf
<1>3. tail \in LogType
  <2> HIDE DEF change
  <2>1. tail \in [1 .. n -> ChangeOf(Ids, Values)]
    BY <1>2
  <2> QED BY <2>1, IsASeq DEF LogType
<1>4. Appended(log, order, rows, AssignedId, now) = log \o tail
  BY <1>1 DEF Appended
<1> HIDE DEF tail
<1>5. log \o tail \in LogType /\ Len(log) <= Len(log \o tail)
      /\ \A k \in 1 .. Len(log) : (log \o tail)[k] = log[k]
  BY <1>3, ConcatProperties, LenProperties DEF LogType
<1> QED BY <1>4, <1>5 DEF Extends

LEMMA HandlesExtends ==
    ASSUME log \in LogType, now \in Nat, NEW rows \in QueueType,
           NEW taken \in SUBSET Mutations, NEW refuse, Handles(rows, taken, refuse)
    PROVE  Extends(log', log) /\ now' \in Nat
<1>1. IsFiniteSet(taken)
  BY ReplicaAssumption, FS_Subset
<1>2. Cardinality(taken) \in Nat
  BY <1>1, FS_CardinalityType
<1>3. PICK order \in [1 .. Cardinality(taken) -> Mutations] :
          /\ InOrder(order, taken, rows)
          /\ log' = Appended(log, order, rows, AssignedId, now)
  BY DEF Handles
<1>4. \A k \in 1 .. Cardinality(taken) : rows[order[k]] # NoRow
  BY <1>3 DEF InOrder, Handles
<1> QED BY <1>2, <1>3, <1>4, AppendedExtends DEF Handles

----------------------------------------------------------------------------
(***************************************************************************)
(* What is made of an answer                                               *)
(***************************************************************************)
LEMMA IntervalIsFinite == \A n \in Nat : IsFiniteSet(1 .. n)
BY FS_Interval

LEMMA CountingSet ==
    ASSUME NEW n \in Nat, NEW S \in SUBSET (1 .. n)
    PROVE  S \subseteq Nat /\ IsFiniteSet(S)
<1>1. IsFiniteSet(1 .. n)
  BY IntervalIsFinite
<1>2. IsFiniteSet(S)
  BY <1>1, FS_Subset
<1>3. S \subseteq Nat
  OBVIOUS
<1> QED BY <1>2, <1>3

LEMMA LogTyped ==
    ASSUME log \in LogType
    PROVE  /\ Len(log) \in Nat
           /\ \A k \in 1 .. Len(log) : log[k] \in ChangeOf(Ids, Values)
BY LenProperties DEF LogType

LEMMA PositionsType ==
    ASSUME log \in LogType, reply.to \in 0 .. Len(log), reply.from \in Nat
    PROVE  Positions \subseteq 1 .. Len(log)
<1>1. Len(log) \in Nat
  BY LogTyped
<1>2. Snapshot(log, reply.to, reply.graves) \subseteq 1 .. Len(log)
  BY <1>1 DEF Snapshot
<1>3. Pulled(reply.from, reply.to) \subseteq 1 .. Len(log)
  BY <1>1 DEF Pulled
<1> QED BY <1>2, <1>3 DEF Positions

\* The last change at some positions is a change of the log.
LEMMA LatestInLog ==
    ASSUME log \in LogType, NEW S \in SUBSET (1 .. Len(log)), S # {}
    PROVE  /\ Latest(S) \in S /\ Earliest(S) \in S
           /\ log[Latest(S)] \in ChangeOf(Ids, Values)
           /\ log[Earliest(S)] \in ChangeOf(Ids, Values)
<1>1. S \subseteq Nat /\ IsFiniteSet(S)
  BY LogTyped, CountingSet
<1>2. Latest(S) \in S /\ Earliest(S) \in S
  BY <1>1, LatestIsGreatest, EarliestIsLeast
<1> QED BY <1>2, LogTyped

LEMMA ServerTombstonesType ==
    ASSUME log \in LogType, reply.to \in 0 .. Len(log), reply.from \in Nat
    PROVE  /\ DOMAIN ServerTombstones = {i \in Ids : DeletionPositions(i) # {}}
           /\ \A id \in DOMAIN ServerTombstones : ServerTombstones[id] \in Nat
<1>1. ASSUME NEW id \in Ids, DeletionPositions(id) # {}
      PROVE  log[Latest(DeletionPositions(id))].revision \in Nat
  <2>1. DeletionPositions(id) \in SUBSET (1 .. Len(log))
    BY PositionsType DEF DeletionPositions
  <2>2. log[Latest(DeletionPositions(id))] \in ChangeOf(Ids, Values)
    BY <1>1, <2>1, LatestInLog
  <2> QED BY <2>2 DEF ChangeOf
<1> QED BY <1>1 DEF ServerTombstones

LEMMA OwnTombstonesType ==
    ASSUME claim \in QueueType
    PROVE  \A id \in DOMAIN OwnTombstones : OwnTombstones[id] \in Nat
<1> SUFFICES ASSUME NEW id \in DeletedIds PROVE OwnTombstones[id] \in Nat
  BY DEF OwnTombstones
<1> DEFINE deletes == {m \in UnacknowledgedDeletes : claim[m].record = id}
           times == {claim[m].timestamp : m \in deletes}
<1>1. deletes \subseteq Mutations /\ deletes # {} /\ \A m \in deletes : claim[m].timestamp \in Nat
  BY DEF DeletedIds, UnacknowledgedDeletes, Unacknowledged, Batch, QueueType, QueueOf, RowOf
<1>2. IsFiniteSet(deletes)
  BY <1>1, ReplicaAssumption, FS_Subset
<1>3. IsFiniteSet(times) /\ times \subseteq Nat /\ times # {}
  <2>1. [m \in deletes |-> claim[m].timestamp] \in Surjection(deletes, times)
    BY DEF Surjection
  <2>2. IsFiniteSet(times)
    <3> HIDE DEF deletes, times
    <3> QED BY <1>2, <2>1, FS_Surjection
  <2> QED BY <1>1, <2>2
<1>4. PICK last \in deletes : \A other \in deletes : claim[other].timestamp <= claim[last].timestamp
  <2>1. Latest(times) \in times /\ \A j \in times : j <= Latest(times)
    BY <1>3, LatestIsGreatest
  <2> QED BY <2>1
<1> DEFINE Last(m) == /\ claim[m].record = id
                      /\ \A other \in UnacknowledgedDeletes :
                            claim[other].record = id => claim[other].timestamp <= claim[m].timestamp
<1>5. last \in UnacknowledgedDeletes /\ Last(last)
  BY <1>4
<1>6. OwnTombstones[id] = claim[CHOOSE m \in UnacknowledgedDeletes : Last(m)].timestamp
  BY DEF OwnTombstones
<1>7. (CHOOSE m \in UnacknowledgedDeletes : Last(m)) \in deletes
  BY <1>5
<1> QED BY <1>1, <1>6, <1>7

LEMMA LaterType ==
    ASSUME NEW f, NEW g, \A id \in DOMAIN f : f[id] \in Nat, \A id \in DOMAIN g : g[id] \in Nat
    PROVE  \A id \in DOMAIN Later(f, g) : Later(f, g)[id] \in Nat
BY DEF Later

LEMMA TombstonesType ==
    ASSUME log \in LogType, reply.to \in 0 .. Len(log), reply.from \in Nat,
           claim \in QueueType, CellsOK(cells)
    PROVE  /\ \A id \in DOMAIN Tombstones : Tombstones[id] \in Nat
           /\ \A id \in DOMAIN ResetTombstones : ResetTombstones[id] \in Nat
<1>1. \A id \in DOMAIN LoadTombstones(cells, Table) : LoadTombstones(cells, Table)[id] \in Nat
  BY DEF LoadTombstones, IsTombstone, CellsOK, CellsType, Cell
<1> QED BY <1>1, ServerTombstonesType, OwnTombstonesType, LaterType
        DEF Tombstones, ResetTombstones

RecordsType == [Ids -> Record \cup {NoRecord}]

LEMMA RecordOfType ==
    ASSUME NEW change \in ChangeOf(Ids, Values)
    PROVE  RecordOf(change) \in Record
BY DEF ChangeOf, RecordOf, NewRecord, Record

LEMMA ResolveType ==
    ASSUME NEW local \in Record, NEW remote \in Record
    PROVE  ResolveConflict(local, remote, Strategy) \in Record
<1>1. MergeFields(local, remote) \in Record
  BY DEF MergeFields, Record
<1> QED BY <1>1 DEF ResolveConflict

LEMMA VisibleType ==
    ASSUME log \in LogType, reply.to \in 0 .. Len(log), reply.from \in Nat, mem \in RecordsType
    PROVE  Visible \in RecordsType
<1> DEFINE local == LocalRecords
           tombstones == AnswerTombstones
           kept == KeptLocal(local, Protected, tombstones)
           candidates(id) == Candidates(id, log, Positions, Protected, tombstones)
           merged == Merged(local, log, Positions, Protected, Strategy, tombstones)
<1>1. local \in RecordsType
  BY DEF LocalRecords, RecordsType
<1> HIDE DEF local, tombstones
<1>2. kept \in RecordsType
  BY <1>1 DEF KeptLocal, RecordsType
<1>3. ASSUME NEW id \in Ids, candidates(id) # {}
      PROVE  /\ RecordOf(log[Latest(candidates(id))]) \in Record
             /\ RecordOf(log[Earliest(candidates(id))]) \in Record
  <2>1. candidates(id) \in SUBSET (1 .. Len(log))
    BY PositionsType DEF Candidates
  <2> HIDE DEF candidates
  <2> QED BY <1>3, <2>1, LatestInLog, RecordOfType
<1> DEFINE result(id) ==
            IF candidates(id) = {} THEN kept[id]
            ELSE IF kept[id] # NoRecord
                 THEN ResolveConflict(kept[id], RecordOf(log[Latest(candidates(id))]), Strategy)
            ELSE IF Strategy = "client-wins" THEN RecordOf(log[Earliest(candidates(id))])
            ELSE RecordOf(log[Latest(candidates(id))])
<1>4. merged = [id \in Ids |-> result(id)]
  BY <1>1 DEF Merged, RecordsType
<1>5. ASSUME NEW id \in Ids PROVE result(id) \in Record \cup {NoRecord}
  <2>1. kept[id] \in Record \cup {NoRecord}
    BY <1>2 DEF RecordsType
  <2> HIDE DEF kept, candidates
  <2> QED BY <1>3, <2>1, ResolveType
<1>6. merged \in RecordsType
  <2> HIDE DEF result, merged
  <2> QED BY <1>4, <1>5 DEF RecordsType
<1>7. Visible = [id \in Ids |-> IF id \in DeletedIds THEN NoRecord ELSE merged[id]]
  BY DEF Visible, local, tombstones
<1> HIDE DEF merged
<1> QED BY <1>6, <1>7 DEF RecordsType

----------------------------------------------------------------------------
(***************************************************************************)
(* Type correctness, one part of the state after the other                 *)
(***************************************************************************)
\* While rows are stored, each that is left is of a record or a deletion of the
\* answer, and of an id that no unacknowledged mutation protects.
AnswerInHand ==
    /\ ~up => stage = "idle"
    /\ stage # "storing" => todo.save = {} /\ todo.bury = {}
    /\ \A id \in todo.save : mem[id] # NoRecord /\ RecordPositions(id) # {} /\ id \notin Protected
    /\ \A id \in todo.bury : DeletionPositions(id) # {} /\ id \notin Protected

RowsOK ==
    /\ queue \in QueueType /\ claim \in QueueType /\ late \in QueueType
    /\ unacked \in SUBSET Mutations
    /\ \A m \in unacked : claim[m] # NoRow

CopiesOK == CellsOK(cells) /\ mem \in RecordsType

ServerOK ==
    /\ log \in LogType /\ now \in Nat
    /\ applied \in SUBSET Mutations /\ refused \in SUBSET Mutations

AnswerOK ==
    /\ up \in BOOLEAN
    /\ cursor \in 0 .. Len(log)
    /\ stage \in {"idle", "sent", "answered", "renaming", "storing"}
    /\ todo \in [rename: SUBSET Ids, save: SUBSET Ids, bury: SUBSET Ids]
    /\ reply \in [from: Nat, to: 0 .. Len(log), ack: SUBSET Mutations, reject: SUBSET Mutations,
                  renames: SUBSET Ids, reset: BOOLEAN, graves: BOOLEAN, at: Nat]

SpentOK ==
    /\ spent \in [foreign: 0 .. MaxForeign, resets: 0 .. MaxResets, failures: 0 .. MaxFailures]
    /\ adrift \in SUBSET Ids

\* A run has its table in memory; of a table that is not, nothing is shown.
MemoryOK ==
    /\ loaded \in {"absent", "whole", "partial"}
    /\ ~up => loaded = "absent"
    /\ loaded = "absent" => stage = "idle" /\ \A id \in Ids : mem[id] = NoRecord

IInv == RowsOK /\ CopiesOK /\ ServerOK /\ AnswerOK /\ SpentOK /\ AnswerInHand /\ MemoryOK

LEMMA IInvIsTyped == IInv => TypeOK
BY DEF IInv, RowsOK, CopiesOK, ServerOK, AnswerOK, SpentOK, MemoryOK, TypeOK, CellsOK, CellsType, Cell,
       RecordsType, QueueType, LogType

\* What the device's clock shows is a natural number.
LEMMA ReadingsType ==
    ASSUME NEW t \in Nat, NEW time \in Readings(t)
    PROVE  time \in Nat
BY ReplicaAssumption DEF Readings

LEMMA LogGrows ==
    ASSUME RowsOK, ServerOK, [Next]_vars
    PROVE  Extends(log', log) /\ now' \in Nat
<1>1. CASE HandleSync
  BY <1>1, HandlesExtends DEF HandleSync, RowsOK, ServerOK, Batch
<1>2. CASE HandleLate
  BY <1>2, HandlesExtends DEF HandleLate, RowsOK, ServerOK
<1>3. ASSUME NEW id \in Ids, NEW deleted \in BOOLEAN, ForeignWrite(id, deleted)
      PROVE  Extends(log', log) /\ now' \in Nat
  <2>1. Revision(log, 1, now) \in Nat
    BY RevisionType DEF ServerOK
  <2>2. NewChange(id, Foreign, deleted, Revision(log, 1, now)) \in ChangeOf(Ids, Values)
    BY <2>1 DEF NewChange, ChangeOf, Values
  <2>3. log' = Append(log, NewChange(id, Foreign, deleted, Revision(log, 1, now)))
    BY <1>3 DEF ForeignWrite
  <2>4. Extends(log', log)
    <3> HIDE DEF LogType
    <3> QED BY <2>2, <2>3, AppendProperties, LenProperties DEF Extends, LogType, ServerOK
  <2> QED BY <1>3, <2>4 DEF ForeignWrite, ServerOK
<1>4. CASE log' = log /\ now' \in Nat
  BY <1>4, LogTyped DEF Extends, ServerOK
<1>5. ASSUME NEW m \in Mutations, NEW operation, NEW id, Mutate(m, operation, id)
      PROVE  log' = log /\ now' \in Nat
  BY <1>5, ReplicaAssumption DEF Mutate, server, ServerOK
<1>6. CASE \/ \E m \in Mutations : UserRetries(m) \/ UserDiscards(m)
           \/ EnsureTable \/ SendRequest \/ RunStep \/ PrimaryKeyBreaks \/ TransportFails \/ StatementFails
           \/ Crash \/ Restart \/ UNCHANGED vars
  BY <1>4, <1>6 DEF UserRetries, UserDiscards, EnsureTable, SendRequest, RunStep, RemapNext, Merge, Replace,
     SaveNext, BuryNext, Settle, Finish, PrimaryKeyBreaks, TransportFails, StatementFails, Crash,
     Restart, server, vars, ServerOK
<1> QED BY <1>1, <1>2, <1>3, <1>4, <1>5, <1>6 DEF Next

LEMMA ServerTyped ==
    ASSUME RowsOK, ServerOK, [Next]_vars
    PROVE  ServerOK'
<1>1. log' \in LogType /\ now' \in Nat
  BY LogGrows DEF Extends
<1>2. applied' \in SUBSET Mutations /\ refused' \in SUBSET Mutations
  <2>1. CASE HandleSync
    <3>1. PICK taken \in SUBSET Batch : \E refuse \in SUBSET (Batch \ taken) : Handles(claim, taken, refuse)
      BY <2>1 DEF HandleSync
    <3> QED BY <3>1 DEF Handles, Batch, ServerOK
  <2>2. CASE HandleLate
    BY <2>2 DEF HandleLate, Handles, ServerOK
  <2>3. CASE ~HandleSync /\ ~HandleLate
    BY <2>3 DEF Next, Mutate, ForeignWrite, UserRetries, UserDiscards, EnsureTable, SendRequest, RunStep, RemapNext,
       Merge, Replace, SaveNext, BuryNext, Settle, Finish, PrimaryKeyBreaks, TransportFails,
       StatementFails, Crash, Restart, server, vars, ServerOK
  <2> QED BY <2>1, <2>2, <2>3
<1> QED BY <1>1, <1>2 DEF ServerOK

LEMMA RowsTyped ==
    ASSUME RowsOK, ServerOK, AnswerOK, [Next]_vars
    PROVE  RowsOK'
<1> USE ReplicaAssumption
<1>1. NoRows \in QueueType
  BY DEF NoRows, QueueType, QueueOf
<1>2. ASSUME NEW m \in Mutations, NEW operation \in Operations, NEW id \in Ids,
             Mutate(m, operation, id)
      PROVE  RowsOK'
  <2>1. now' \in Nat
    BY LogGrows
  <2>2. PICK time \in Readings(now') :
            queue' = SaveMutation(queue, m, FreshRow(Draft(operation, id), time))
    BY <1>2 DEF Mutate
  <2>3. queue' \in QueueType
    BY <2>1, <2>2, ReadingsType, DraftRowType, SaveMutationType DEF RowsOK, QueueType
  <2> QED BY <1>2, <2>3 DEF Mutate, RowsOK, run
<1>3. ASSUME NEW m \in Mutations, UserRetries(m) \/ UserDiscards(m)
      PROVE  RowsOK'
  <2>1. queue' \in {RetryRejected(queue, m), DiscardRejected(queue, m)}
    BY <1>3 DEF UserRetries, UserDiscards
  <2>2. RetryRejected(queue, m) \in QueueType /\ DiscardRejected(queue, m) \in QueueType
    BY SetStatusType, RemovalType DEF RowsOK, QueueType
  <2> QED BY <1>3, <2>1, <2>2 DEF UserRetries, UserDiscards, RowsOK, run
<1>4. CASE SendRequest
  <2>1. PICK due \in SUBSET Due(queue, RetryDelay(RetryCap), {Table}) :
            /\ claim' = [m \in Mutations |-> IF m \in due THEN queue[m] ELSE NoRow]
            /\ unacked' = due
            /\ queue' = MarkSyncing(queue, due)
    BY <1>4 DEF SendRequest
  <2>2. due \in SUBSET Queued(queue) /\ due \in SUBSET Mutations
    BY DEF Due, WithStatus, Queued, RowsOK, QueueType, QueueOf
  <2>3. claim' \in QueueType /\ queue' \in QueueType
    BY <2>1, <2>2, ClaimType, MarkSyncingType DEF RowsOK, QueueType
  <2>4. \A m \in unacked' : claim'[m] # NoRow
    BY <2>1, <2>2 DEF Queued
  <2> QED BY <1>4, <2>1, <2>2, <2>3, <2>4 DEF SendRequest, RowsOK
<1>5. ASSUME EndRun, queue' \in QueueType, late' \in {late, claim}
      PROVE  RowsOK'
  BY <1>1, <1>5 DEF EndRun, RowsOK
<1>6. CASE PrimaryKeyBreaks \/ TransportFails \/ StatementFails
  <2>1. Throw /\ late' \in {late, claim}
    BY <1>6 DEF PrimaryKeyBreaks, TransportFails, StatementFails
  <2>2. queue' \in QueueType /\ EndRun
    BY <2>1, FailAllType DEF Throw, RowsOK
  <2> QED BY <1>5, <2>1, <2>2
<1>7. CASE Crash \/ Finish
  <2>1. EndRun /\ late' \in {late, claim} /\ queue' = queue
    BY <1>7 DEF Crash, Finish, durable
  <2> QED BY <1>5, <2>1 DEF RowsOK
<1>8. CASE HandleSync \/ HandleLate
  BY <1>1, <1>8 DEF HandleSync, HandleLate, RowsOK, durable, run
<1>9. CASE Restart
  BY <1>9, RecoverStuckType DEF Restart, RowsOK, run, QueueType
<1>10. CASE RemapNext
  <2>1. PICK from \in todo.rename : queue' = RemapQueue(queue, Table, from, AssignedId[from])
    BY <1>10 DEF RemapNext
  <2>2. from \in Ids /\ AssignedId[from] \in Ids
    BY DEF AnswerOK
  <2>3. queue' \in QueueType
    BY <2>1, <2>2, RemapQueueType DEF RowsOK, QueueType
  <2> QED BY <1>10, <2>3 DEF RemapNext, RowsOK
<1>11. CASE Settle
  <2>1. PICK m \in unacked : \/ Acknowledge(m)
                             \/ /\ queue' \in {MarkFailed(queue, m, 0), MarkRejected(queue, m)}
                                /\ unacked' = unacked \ {m}
    BY <1>11 DEF Settle
  <2>2. queue' \in QueueType /\ unacked' \in SUBSET unacked
    <3>1. m \in Mutations /\ queue \in QueueType /\ unacked \in SUBSET Mutations
      BY DEF RowsOK
    <3>2. /\ RemoveMutation(queue, m) \in QueueType /\ MarkRejected(queue, m) \in QueueType
          /\ MarkFailed(queue, m, 0) \in QueueType
      BY <3>1, RemovalType, SetStatusType, MarkFailedType DEF QueueType
    <3>3. CASE Acknowledge(m)
      BY <3>1, <3>2, <3>3 DEF Acknowledge
    <3>4. CASE ~Acknowledge(m)
      BY <2>1, <3>1, <3>2, <3>4
    <3> QED BY <3>3, <3>4
  <2> QED BY <1>11, <2>2 DEF Settle, RowsOK
<1>12. CASE \/ \E id \in Ids, deleted \in BOOLEAN : ForeignWrite(id, deleted)
            \/ EnsureTable \/ Merge \/ Replace \/ SaveNext \/ BuryNext \/ UNCHANGED vars
  BY <1>12 DEF EnsureTable, ForeignWrite, Merge, Replace, SaveNext, BuryNext, vars, durable, run, RowsOK
<1> QED BY <1>2, <1>3, <1>4, <1>6, <1>7, <1>8, <1>9, <1>10, <1>11, <1>12 DEF Next, RunStep
\* After a change of id no record is without its fields, and no id is new.
LEMMA RenamedType ==
    ASSUME NEW collection \in RecordsType, NEW renames \in SUBSET Ids
    PROVE  Renamed(collection, renames) \in RecordsType
<1> SUFFICES ASSUME NEW id \in Ids PROVE Renamed(collection, renames)[id] \in Record \cup {NoRecord}
  BY DEF Renamed, RecordsType
<1> DEFINE Taken(from) == AssignedId[from] = id /\ collection[from] # NoRecord
<1>1. CASE \E from \in renames : Taken(from)
  <2>1. Renamed(collection, renames)[id] = collection[CHOOSE from \in renames : Taken(from)]
    BY <1>1 DEF Renamed
  <2>2. (CHOOSE from \in renames : Taken(from)) \in Ids
    BY <1>1
  <2> QED BY <2>1, <2>2 DEF RecordsType
<1>2. CASE ~\E from \in renames : Taken(from)
  BY <1>2 DEF Renamed, RecordsType
<1> QED BY <1>1, <1>2

LEMMA CopiesTyped ==
    ASSUME IInv, [Next]_vars
    PROVE  CopiesOK'
<1> USE DEF IInv, CopiesOK
<1>1. log \in LogType /\ reply.to \in 0 .. Len(log) /\ reply.from \in Nat /\ claim \in QueueType
  BY DEF ServerOK, AnswerOK, RowsOK
<1>2. Visible \in RecordsType
  BY <1>1, VisibleType
<1>3. ASSUME NEW m \in Mutations, NEW operation \in Operations, NEW id \in Ids,
             Mutate(m, operation, id)
      PROVE  CopiesOK'
  <2>1. now' \in Nat
    BY LogGrows
  <2>2. PICK time \in Readings(now') :
            cells' = IF operation = "DELETE" THEN RemoveRecord(cells, Table, id, time)
                     ELSE SaveRecord(cells, Table, id, Written(m, operation, id), time)
    BY <1>3 DEF Mutate
  <2>3. time \in Nat
    BY <2>1, ReadingsType
  <2>4. CASE operation = "DELETE"
    <3>1. mem' = [mem EXCEPT ![id] = NoRecord]
      BY <1>3, <2>4 DEF Mutate
    <3> QED BY <2>2, <2>3, <2>4, <3>1, RemoveRecordOK DEF RecordsType
  <2>5. CASE operation # "DELETE"
    <3>1. Written(m, operation, id) \in Record
      <4>1. operation = "UPDATE" => mem[id] \in Record
        BY <1>3 DEF Mutate, RecordsType
      <4> QED BY <4>1 DEF Written, NewRecord, Record, Values
    <3>2. mem' = [mem EXCEPT ![id] = Written(m, operation, id)]
      BY <1>3, <2>5 DEF Mutate
    <3> QED BY <2>2, <2>3, <2>5, <3>1, <3>2, SaveRecordOK DEF RecordsType
  <2> QED BY <2>4, <2>5
<1>4. CASE Crash
  BY <1>4 DEF Crash, durable, RecordsType
<1>5. CASE EnsureTable \/ SendRequest
  <2>1. \A id \in Ids : StoredRecord(id) \in Record \cup {NoRecord}
    BY DEF StoredRecord, CellsOK, HoldsRecords
  <2> QED BY <1>5, <2>1 DEF EnsureTable, SendRequest, Load, durable, RecordsType
<1>6. CASE RemapNext
  <2>1. PICK from \in todo.rename : cells' = RemapCells(cells, Table, from, AssignedId[from])
    BY <1>6 DEF RemapNext
  <2>2. from \in Ids /\ AssignedId[from] \in Ids
    BY ReplicaAssumption DEF AnswerOK
  <2>3. mem' \in {mem, Renamed(mem, reply.renames)}
    BY <1>6 DEF RemapNext
  <2>4. Renamed(mem, reply.renames) \in RecordsType
    BY RenamedType DEF AnswerOK
  <2> QED BY <2>1, <2>2, <2>3, <2>4, RemapCellsOK
<1>7. CASE Merge
  BY <1>2, <1>7 DEF Merge, durable
<1>8. CASE Replace
  <2>1. \A id \in DOMAIN Snapshotted : Snapshotted[id] \in Record
    BY <1>2 DEF Snapshotted, RecordsType
  <2>2. \A id \in DOMAIN ResetTombstones : ResetTombstones[id] \in Nat
    BY <1>1, TombstonesType
  <2>3. reply.at \in Nat
    BY DEF AnswerOK
  <2>4. CellsOK(ReplaceTable(cells, Table, Snapshotted, ResetTombstones, reply.at))
    BY <2>1, <2>2, <2>3, ReplaceTableOK
  <2> QED BY <1>2, <1>8, <2>4 DEF Replace
<1>9. CASE SaveNext
  <2>1. PICK id \in todo.save : cells' = SaveRecord(cells, Table, id, mem[id], SaveStamp(id))
    BY <1>9 DEF SaveNext
  <2>2. id \in Ids /\ mem[id] \in Record /\ RecordPositions(id) # {}
    BY DEF AnswerOK, AnswerInHand, RecordsType
  <2>3. SaveStamp(id) \in Nat
    <3>1. reply.at \in Nat
      BY DEF AnswerOK
    <3>2. ASSUME id \in DOMAIN Tombstones PROVE Tombstones[id] \in Nat
      BY <1>1, <3>2, TombstonesType
    <3>3. log[Latest(RecordPositions(id))].revision \in Nat
      <4>1. RecordPositions(id) \in SUBSET (1 .. Len(log))
        BY <1>1, PositionsType DEF RecordPositions
      <4>2. log[Latest(RecordPositions(id))] \in ChangeOf(Ids, Values)
        BY <1>1, <2>2, <4>1, LatestInLog
      <4> QED BY <4>2 DEF ChangeOf
    <3>4. ASSUME NEW i \in Nat, NEW j \in Nat, NEW k \in Nat
          PROVE  Latest({i, j, k}) \in Nat
      <4>1. IsFiniteSet({i, j, k})
        <5>1. IsFiniteSet({} \cup {i})
          BY FS_EmptySet, FS_AddElement
        <5>2. IsFiniteSet(({} \cup {i}) \cup {j})
          BY <5>1, FS_AddElement
        <5>3. IsFiniteSet((({} \cup {i}) \cup {j}) \cup {k})
          BY <5>2, FS_AddElement
        <5>4. (({} \cup {i}) \cup {j}) \cup {k} = {i, j, k}
          OBVIOUS
        <5> QED BY <5>3, <5>4
      <4> QED BY <4>1, LatestIsGreatest
    <3> QED BY <3>1, <3>2, <3>3, <3>4 DEF SaveStamp
  <2> QED BY <1>9, <2>1, <2>2, <2>3, SaveRecordOK DEF SaveNext
<1>10. CASE BuryNext
  <2>1. PICK id \in todo.bury : cells' = RemoveRecord(cells, Table, id, ServerTombstones[id])
    BY <1>10 DEF BuryNext
  <2>2. id \in Ids /\ DeletionPositions(id) # {}
    BY DEF AnswerOK, AnswerInHand
  <2>3. ServerTombstones[id] \in Nat
    BY <1>1, <2>2, ServerTombstonesType
  <2> QED BY <1>10, <2>1, <2>2, <2>3, RemoveRecordOK DEF BuryNext
<1>11. CASE Settle
  <2>1. PICK m \in unacked : Acknowledge(m) \/ UNCHANGED cells
    BY <1>11 DEF Settle
  <2>2. CASE /\ queue[m] = NoRow
             /\ cells' = ClearTombstone(cells, Table, claim[m].record, claim[m].timestamp)
    <3>1. claim[m].record \in Ids
      BY DEF RowsOK, QueueType, QueueOf, RowOf
    <3> QED BY <1>11, <2>2, <3>1, ClearTombstoneOK DEF Settle
  <2>3. CASE UNCHANGED cells
    BY <1>11, <2>3 DEF Settle
  <2> QED BY <2>1, <2>2, <2>3 DEF Acknowledge
<1>12. CASE \/ \E m \in Mutations : UserRetries(m) \/ UserDiscards(m)
            \/ \E id \in Ids, deleted \in BOOLEAN : ForeignWrite(id, deleted)
            \/ Restart \/ HandleSync \/ HandleLate \/ PrimaryKeyBreaks \/ TransportFails
            \/ StatementFails \/ Finish \/ UNCHANGED vars
  BY <1>12 DEF UserRetries, UserDiscards, ForeignWrite, Restart, HandleSync, HandleLate,
     PrimaryKeyBreaks, TransportFails, StatementFails, Finish, durable, vars
<1> QED BY <1>3, <1>4, <1>5, <1>6, <1>7, <1>8, <1>9, <1>10, <1>11, <1>12 DEF Next, RunStep
LEMMA AnswerTyped ==
    ASSUME RowsOK, ServerOK, AnswerOK, AnswerInHand, [Next]_vars
    PROVE  AnswerOK'
<1> USE DEF AnswerOK
<1>1. Extends(log', log) /\ now' \in Nat
  BY LogGrows
<1>2. Len(log) \in Nat /\ Len(log') \in Nat /\ Len(log) <= Len(log')
  BY <1>1, LogTyped, LenProperties DEF Extends, LogType, ServerOK
<1>3. ASSUME EndRun, cursor' \in {cursor, reply.to}, up' \in BOOLEAN
      PROVE  AnswerOK'
  BY <1>2, <1>3 DEF EndRun, Nothing, NoReply
<1>4. ASSUME cursor' = cursor, reply' = reply, todo' = todo, stage' \in {stage, "sent"},
             up' \in BOOLEAN
      PROVE  AnswerOK'
  BY <1>2, <1>4
<1>5. CASE HandleSync
  <2>1. PICK taken \in SUBSET Batch, drop \in SUBSET Batch, reset \in BOOLEAN, graves \in BOOLEAN :
            Answers(drop, reset, graves)
    BY <1>5 DEF HandleSync
  <2>2. applied' \in SUBSET Mutations /\ refused' \in SUBSET Mutations
    BY ServerTyped DEF ServerOK
  <2>3. Batch \in SUBSET Mutations /\ \A m \in Batch : claim[m].record \in Ids
    BY DEF Batch, RowsOK, QueueType, QueueOf, RowOf
  <2>4. reply' \in [from: Nat, to: 0 .. Len(log'), ack: SUBSET Mutations,
                    reject: SUBSET Mutations, renames: SUBSET Ids, reset: BOOLEAN,
                    graves: BOOLEAN, at: Nat]
    BY <1>1, <1>2, <2>1, <2>2, <2>3 DEF Answers
  <2>5. todo' \in [rename: SUBSET Ids, save: SUBSET Ids, bury: SUBSET Ids]
    BY <2>1, <2>4 DEF Answers
  <2> QED BY <1>2, <1>5, <2>4, <2>5 DEF HandleSync, durable
<1>6. CASE RemapNext
  <2>1. todo' \in [rename: SUBSET Ids, save: SUBSET Ids, bury: SUBSET Ids]
    BY <1>6 DEF RemapNext
  <2> QED BY <1>2, <1>6, <2>1 DEF RemapNext
<1>7. CASE Merge
  <2>1. todo' \in [rename: SUBSET Ids, save: SUBSET Ids, bury: SUBSET Ids]
    BY <1>7 DEF Merge, ToSave, ToBury
  <2> QED BY <1>2, <1>7, <2>1 DEF Merge, durable
<1>8. CASE SaveNext \/ BuryNext
  <2>1. todo' \in [rename: SUBSET Ids, save: SUBSET Ids, bury: SUBSET Ids]
    BY <1>8 DEF SaveNext, BuryNext
  <2> QED BY <1>2, <1>8, <2>1 DEF SaveNext, BuryNext
<1>9. CASE Replace
  BY <1>2, <1>9 DEF Replace
<1>10. CASE PrimaryKeyBreaks \/ TransportFails \/ StatementFails \/ Crash \/ Finish
  BY <1>3, <1>10 DEF PrimaryKeyBreaks, TransportFails, StatementFails, Crash, Finish, Throw, durable
<1>11. CASE \/ \E m \in Mutations : UserRetries(m) \/ UserDiscards(m)
            \/ \E m \in Mutations, operation \in Operations, id \in Ids : Mutate(m, operation, id)
            \/ \E id \in Ids, deleted \in BOOLEAN : ForeignWrite(id, deleted)
            \/ EnsureTable \/ SendRequest \/ HandleLate \/ Restart \/ Settle \/ UNCHANGED vars
  <2>1. /\ cursor' = cursor /\ reply' = reply /\ todo' = todo /\ stage' \in {stage, "sent"}
        /\ up' \in BOOLEAN
    BY <1>11 DEF UserRetries, UserDiscards, Mutate, ForeignWrite, EnsureTable, SendRequest, HandleLate, Restart,
       Settle, vars, durable, run
  <2> QED BY <1>4, <2>1
<1> QED BY <1>5, <1>6, <1>7, <1>8, <1>9, <1>10, <1>11 DEF Next, RunStep

LEMMA SpentTyped ==
    ASSUME IInv, [Next]_vars
    PROVE  SpentOK'
<1> USE DEF IInv, SpentOK
<1>1. ASSUME NEW kind, NEW bound,
             <<kind, bound>> \in {<<"foreign", MaxForeign>>, <<"resets", MaxResets>>,
                                  <<"failures", MaxFailures>>},
             Spend(kind, bound)
      PROVE  spent' \in [foreign: 0 .. MaxForeign, resets: 0 .. MaxResets,
                         failures: 0 .. MaxFailures]
  BY <1>1, ReplicaAssumption DEF Spend
<1>2. spent' \in [foreign: 0 .. MaxForeign, resets: 0 .. MaxResets, failures: 0 .. MaxFailures]
  <2>1. CASE TransportFails \/ StatementFails \/ Crash
    BY <1>1, <2>1 DEF TransportFails, StatementFails, Crash, Fails
  <2>2. CASE \E id \in Ids, deleted \in BOOLEAN : ForeignWrite(id, deleted)
    BY <1>1, <2>2 DEF ForeignWrite
  <2>3. CASE HandleSync
    BY <1>1, <2>3 DEF HandleSync
  <2>4. CASE \/ \E m \in Mutations : UserRetries(m) \/ UserDiscards(m)
             \/ \E m \in Mutations, operation \in Operations, id \in Ids : Mutate(m, operation, id)
             \/ EnsureTable \/ SendRequest \/ HandleLate \/ Restart \/ RunStep \/ PrimaryKeyBreaks \/ UNCHANGED vars
    BY <2>4 DEF UserRetries, UserDiscards, Mutate, EnsureTable, SendRequest, HandleLate, Restart, RunStep, RemapNext,
       Merge, Replace, SaveNext, BuryNext, Settle, Finish, PrimaryKeyBreaks, vars
  <2> QED BY <2>1, <2>2, <2>3, <2>4 DEF Next
<1>3. adrift' \in SUBSET Ids
  <2>1. CASE \E m \in Mutations : UserDiscards(m)
    <3>1. PICK m \in Mutations : UserDiscards(m)
      BY <2>1
    <3>2. queue[m].record \in Ids
      BY <3>1 DEF UserDiscards, WithStatus, Queued, RowsOK, QueueType, QueueOf, RowOf
    <3> QED BY <3>1, <3>2 DEF UserDiscards
  <2>2. CASE RemapNext
    <3>1. PICK from \in todo.rename :
              adrift' = {IF id = from THEN AssignedId[id] ELSE id : id \in adrift} \cup Ghost(from)
      BY <2>2 DEF RemapNext
    <3>2. from \in Ids /\ AssignedId \in [Ids -> Ids]
      BY ReplicaAssumption DEF AnswerOK
    <3> QED BY <3>1, <3>2 DEF Ghost
  <2>3. CASE Merge \/ Replace
    <3>1. Protected \in SUBSET Ids
      BY DEF Protected, Unacknowledged, Batch, RowsOK, QueueType, QueueOf, RowOf
    <3>2. \A stored, shown : PassedOver(stored, shown) \in SUBSET Ids
      BY <3>1 DEF PassedOver
    <3>3. adrift' \in {(adrift \ Protected) \cup PassedOver([id \in Ids |-> StoredRecord(id)], Visible),
                      PassedOver(Visible, Visible)}
      BY <2>3 DEF Merge, Replace
    <3> HIDE DEF SpentOK
    <3>4. adrift \in SUBSET Ids
      BY DEF SpentOK
    <3> QED BY <3>2, <3>3, <3>4
  <2>4. CASE SaveNext \/ BuryNext
    BY <2>4 DEF SaveNext, BuryNext
  <2>5. CASE \/ \E m \in Mutations : UserRetries(m)
             \/ \E m \in Mutations, operation \in Operations, id \in Ids : Mutate(m, operation, id)
             \/ \E id \in Ids, deleted \in BOOLEAN : ForeignWrite(id, deleted)
             \/ EnsureTable \/ SendRequest \/ HandleSync \/ HandleLate \/ Restart \/ Settle \/ Finish
             \/ PrimaryKeyBreaks \/ TransportFails \/ StatementFails \/ Crash \/ UNCHANGED vars
    BY <2>5 DEF UserRetries, Mutate, ForeignWrite, EnsureTable, SendRequest, HandleSync, HandleLate, Restart, Settle,
       Finish, PrimaryKeyBreaks, TransportFails, StatementFails, Crash, vars
  <2> QED BY <2>1, <2>2, <2>3, <2>4, <2>5 DEF Next, RunStep
<1> QED BY <1>2, <1>3

\* What an answer covers does not change when the log grows.
LEMMA PositionsStay ==
    ASSUME ServerOK, AnswerOK, Extends(log', log), reply' = reply, NEW id \in Ids
    PROVE  RecordPositions(id)' = RecordPositions(id) /\ DeletionPositions(id)' = DeletionPositions(id)
<1>1. /\ reply.to \in Nat /\ Len(log) \in Nat /\ reply.to <= Len(log) /\ reply.from \in Nat
      /\ \A k \in 1 .. reply.to : log'[k] = log[k]
  BY LogTyped DEF AnswerOK, ServerOK, Extends
<1>2. ASSUME NEW i PROVE LastChange(log', i, reply.to) = LastChange(log, i, reply.to)
  <2> DEFINE last(S) == IF S = {} THEN 0 ELSE CHOOSE k \in S : \A j \in S : j <= k
             before == {k \in 1 .. reply.to : log[k].id = i}
             after == {k \in 1 .. reply.to : log'[k].id = i}
  <2>1. before = after
    BY <1>1
  <2>2. LastChange(log, i, reply.to) = last(before)
    BY DEF LastChange
  <2>3. LastChange(log', i, reply.to) = last(after)
    BY DEF LastChange
  <2> HIDE DEF last, before, after
  <2> QED BY <2>1, <2>2, <2>3
<1>3. Snapshot(log', reply.to, reply.graves) = Snapshot(log, reply.to, reply.graves)
  BY <1>1, <1>2 DEF Snapshot
<1>4. Positions' = Positions
  BY <1>3 DEF Positions
<1>5. Positions \subseteq 1 .. reply.to
  <2>1. Snapshot(log, reply.to, reply.graves) \subseteq 1 .. reply.to
    BY DEF Snapshot
  <2>2. Pulled(reply.from, reply.to) \subseteq 1 .. reply.to
    BY <1>1 DEF Pulled
  <2> QED BY <2>1, <2>2 DEF Positions
<1> QED BY <1>1, <1>4, <1>5 DEF RecordPositions, DeletionPositions

LEMMA AnswerStaysInHand ==
    ASSUME IInv, [Next]_vars
    PROVE  AnswerInHand'
<1> USE DEF IInv, AnswerOK
<1>1. Extends(log', log)
  BY LogGrows
<1>down. ~up' => stage' = "idle"
  <2>1. CASE \/ PrimaryKeyBreaks \/ TransportFails \/ StatementFails \/ Crash \/ Finish
    BY <2>1 DEF PrimaryKeyBreaks, TransportFails, StatementFails, Crash, Finish, Throw, EndRun
  <2>2. CASE Restart \/ SendRequest \/ RemapNext \/ Merge \/ Replace \/ SaveNext \/ BuryNext \/ Settle
    BY <2>2 DEF Restart, SendRequest, NewTask, RemapNext, Merge, Replace, SaveNext, BuryNext, Settle,
       Merging, Settling
  <2>3. CASE HandleSync
    BY <2>3 DEF HandleSync, AnswerInHand
  <2>4. CASE up' = up /\ stage' = stage
    BY <2>4 DEF AnswerInHand
  <2>5. CASE \/ \E m \in Mutations, operation \in Operations, id \in Ids : Mutate(m, operation, id)
             \/ \E m \in Mutations : UserRetries(m) \/ UserDiscards(m)
             \/ \E id \in Ids, deleted \in BOOLEAN : ForeignWrite(id, deleted)
             \/ EnsureTable \/ HandleLate \/ UNCHANGED vars
    <3>1. up' = up /\ stage' = stage
      BY <2>5 DEF EnsureTable, Mutate, UserRetries, UserDiscards, ForeignWrite, HandleLate, run, vars
    <3> QED BY <2>4, <3>1
  <2> QED BY <2>1, <2>2, <2>3, <2>5 DEF Next, RunStep
<1>2. ASSUME EndRun PROVE AnswerInHand'
  BY <1>2, <1>down DEF EndRun, Nothing, AnswerInHand
<1>3. ASSUME reply' = reply, claim' = claim, mem' = mem, stage' = stage,
             todo'.save \subseteq todo.save, todo'.bury \subseteq todo.bury
      PROVE  AnswerInHand'
  <2>1. Protected' = Protected
    BY <1>3 DEF Protected, Unacknowledged, Batch
  <2>2. todo.save \subseteq Ids /\ todo.bury \subseteq Ids
    OBVIOUS
  <2>3. \A id \in Ids : RecordPositions(id)' = RecordPositions(id)
                        /\ DeletionPositions(id)' = DeletionPositions(id)
    BY <1>1, <1>3, PositionsStay
  <2> QED BY <1>3, <1>down, <2>1, <2>2, <2>3 DEF AnswerInHand
<1>4. ASSUME stage # "storing", todo'.save = todo.save, todo'.bury = todo.bury
      PROVE  AnswerInHand'
  BY <1>4, <1>down DEF AnswerInHand
<1>5. CASE Merge
  <2>1. /\ reply' = reply /\ claim' = claim /\ mem' = Visible /\ stage' = "storing"
        /\ todo'.save = ToSave /\ todo'.bury = ToBury /\ log' = log
    BY <1>5 DEF Merge, server
  <2>2. Protected' = Protected
    BY <2>1 DEF Protected, Unacknowledged, Batch
  <2>3. \A id \in Ids : RecordPositions(id)' = RecordPositions(id)
                        /\ DeletionPositions(id)' = DeletionPositions(id)
    BY <1>1, <2>1, PositionsStay
  <2> QED BY <1>down, <2>1, <2>2, <2>3 DEF AnswerInHand, ToSave, ToBury
<1>6. CASE Replace
  <2>1. todo.save = {} /\ todo.bury = {}
    BY <1>6 DEF Replace, Merging, AnswerInHand
  <2> QED BY <1>6, <1>down, <2>1 DEF Replace, AnswerInHand
<1>7. CASE SaveNext \/ BuryNext \/ Settle
  BY <1>3, <1>7 DEF SaveNext, BuryNext, Settle
<1>8. CASE RemapNext
  BY <1>4, <1>8 DEF RemapNext
<1>9. CASE HandleSync
  <2>1. stage # "storing" /\ todo'.save = todo.save /\ todo'.bury = todo.bury
    BY <1>9 DEF HandleSync, Answers
  <2> QED BY <1>4, <2>1
<1>10. CASE PrimaryKeyBreaks \/ TransportFails \/ StatementFails \/ Crash \/ Finish
  BY <1>2, <1>10 DEF PrimaryKeyBreaks, TransportFails, StatementFails, Crash, Finish, Throw
<1>11. CASE \/ \E m \in Mutations, operation \in Operations, id \in Ids : Mutate(m, operation, id)
            \/ SendRequest
  BY <1>4, <1>11 DEF Mutate, SendRequest, NewTask, Waiting, run
<1>12. CASE \/ \E m \in Mutations : UserRetries(m) \/ UserDiscards(m)
            \/ \E id \in Ids, deleted \in BOOLEAN : ForeignWrite(id, deleted)
            \/ HandleLate \/ UNCHANGED vars
  BY <1>3, <1>12 DEF UserRetries, UserDiscards, ForeignWrite, HandleLate, run, vars
<1>13. CASE Restart
  <2>1. reply' = reply /\ claim' = claim /\ stage' = stage /\ todo' = todo
    BY <1>13 DEF Restart, run
  <2>2. todo.save = {} /\ todo.bury = {}
    BY <1>13 DEF Restart, AnswerInHand
  <2> QED BY <1>down, <2>1, <2>2 DEF AnswerInHand
<1>14. CASE EnsureTable
  <2>1. reply' = reply /\ claim' = claim /\ stage' = stage /\ todo' = todo
    BY <1>14 DEF EnsureTable, run
  <2>2. todo.save = {} /\ todo.bury = {}
    BY <1>14 DEF EnsureTable, AnswerInHand, MemoryOK
  <2> QED BY <1>down, <2>1, <2>2 DEF AnswerInHand
<1> QED BY <1>5, <1>6, <1>7, <1>8, <1>9, <1>10, <1>11, <1>12, <1>13, <1>14 DEF Next, RunStep

\* There are no records in memory before the table is loaded.
LEMMA MemoryTyped ==
    ASSUME IInv, [Next]_vars
    PROVE  MemoryOK'
<1> USE DEF IInv, MemoryOK
<1>1. CASE EnsureTable \/ SendRequest
  BY <1>1 DEF EnsureTable, SendRequest, NewTask, Load, run
<1>2. ASSUME NEW m \in Mutations, NEW operation, NEW id, Mutate(m, operation, id)
      PROVE  MemoryOK'
  BY <1>2 DEF Mutate, NewTask, Started
<1>3. CASE Crash \/ Replace
  BY <1>3 DEF Crash, Replace, Merging, EndRun
<1>4. CASE RemapNext \/ Merge
  BY <1>4 DEF RemapNext, Merge, Merging
<1>5. CASE HandleSync
  BY <1>5 DEF HandleSync
<1>6. CASE PrimaryKeyBreaks \/ TransportFails \/ StatementFails \/ Finish
  BY <1>6 DEF PrimaryKeyBreaks, TransportFails, StatementFails, Finish, Throw, EndRun, Settling
<1>7. CASE \/ \E m \in Mutations : UserRetries(m) \/ UserDiscards(m)
           \/ \E id \in Ids, deleted \in BOOLEAN : ForeignWrite(id, deleted)
           \/ HandleLate \/ Restart \/ SaveNext \/ BuryNext \/ Settle \/ UNCHANGED vars
  <2>1. loaded' = loaded /\ mem' = mem /\ stage' = stage /\ up' \in {up, TRUE}
    BY <1>7 DEF UserRetries, UserDiscards, ForeignWrite, HandleLate, Restart, SaveNext, BuryNext,
       Settle, vars, run
  <2> QED BY <2>1
<1> QED BY <1>1, <1>2, <1>3, <1>4, <1>5, <1>6, <1>7 DEF Next, RunStep

\* The seven parts together are inductive.
LEMMA Invariance == Spec => []IInv
<1>1. Init => IInv
  <2>1. NoRows \in QueueType
    BY DEF NoRows, QueueType, QueueOf
  <2>2. <<>> \in LogType /\ Len(<<>>) = 0
    BY EmptySeq DEF LogType
  <2>3. ASSUME Init PROVE CopiesOK
    BY <2>3 DEF Init, CopiesOK, CellsOK, CellsType, HoldsRecords, IsLive, RecordsType
  <2>4. ASSUME Init PROVE RowsOK /\ ServerOK
    BY <2>1, <2>2, <2>4, ReplicaAssumption DEF Init, RowsOK, ServerOK
  <2>5. ASSUME Init PROVE AnswerOK /\ SpentOK
    BY <2>2, <2>5, ReplicaAssumption DEF Init, AnswerOK, SpentOK, NoReply, Nothing
  <2>6. ASSUME Init PROVE AnswerInHand /\ MemoryOK
    BY <2>6 DEF Init, AnswerInHand, Nothing, MemoryOK
  <2> QED BY <2>3, <2>4, <2>5, <2>6 DEF IInv
<1>2. IInv /\ [Next]_vars => IInv'
  BY RowsTyped, ServerTyped, CopiesTyped, AnswerTyped, SpentTyped, AnswerStaysInHand,
     MemoryTyped DEF IInv
<1> QED BY <1>1, <1>2, PTL DEF Spec

\* The content of every part of the state has its type, for any answers, failures
\* and crashes: in particular, what is written to the database and to memory while
\* an answer is used are records with natural timestamps.
THEOREM TypeCorrect == Spec => []TypeOK
BY Invariance, IInvIsTyped, PTL

----------------------------------------------------------------------------
(***************************************************************************)
(* What an answer leaves alone                                             *)
(***************************************************************************)
\* The merge passes over a protected id.
LEMMA ProtectedIsVisible ==
    ASSUME mem \in RecordsType, NEW id \in Ids, id \in Protected, id \notin DeletedIds
    PROVE  Visible[id] = mem[id]
<1> DEFINE local == LocalRecords
           tombstones == AnswerTombstones
           kept == KeptLocal(local, Protected, tombstones)
           merged == Merged(local, log, Positions, Protected, Strategy, tombstones)
<1>1. DOMAIN local = Ids /\ local[id] = mem[id]
  BY DEF LocalRecords
<1>2. Visible = [i \in Ids |-> IF i \in DeletedIds THEN NoRecord ELSE merged[i]]
  BY DEF Visible
<1> HIDE DEF local, tombstones
<1>3. Candidates(id, log, Positions, Protected, tombstones) = {}
  BY DEF Candidates
<1>4. merged[id] = kept[id]
  BY <1>1, <1>3 DEF Merged
<1>5. kept[id] = mem[id]
  BY <1>1 DEF KeptLocal
<1> HIDE DEF merged, kept
<1> QED BY <1>2, <1>4, <1>5

\* Whatever an answer brings, the record written by a mutation that was sent and is
\* not acknowledged stays as it is, in memory and in the database (protectedIds,
\* and the guards of the loops of processTable), unless the batch also deletes the
\* record or the server has renamed it: for any answers and any failures before.
THEOREM UnacknowledgedWritesSurvive == Spec => SentWritesSurvive
<1> DEFINE Step == (Merge \/ Replace \/ SaveNext \/ BuryNext) =>
                     \A id \in Protected \ (DeletedIds \cup reply.renames) :
                        /\ mem'[id] = mem[id]
                        /\ StoredRecord(id)' \in {StoredRecord(id), mem[id]}
<1>1. ASSUME IInv, [Next]_vars PROVE Step
  <2> USE <1>1 DEF IInv, CopiesOK
  <2> SUFFICES ASSUME Merge \/ Replace \/ SaveNext \/ BuryNext,
                      NEW id \in Protected, id \notin DeletedIds
               PROVE  mem'[id] = mem[id] /\ StoredRecord(id)' \in {StoredRecord(id), mem[id]}
    OBVIOUS
  <2>1. id \in Ids
    BY DEF Protected, Unacknowledged, Batch, RowsOK, QueueType, QueueOf, RowOf
  <2>2. Visible[id] = mem[id]
    BY <2>1, ProtectedIsVisible
  <2>3. cells \in CellsType
    BY DEF CellsOK
  <2>4. CASE Merge
    BY <2>2, <2>4 DEF Merge, durable, StoredRecord
  <2>5. CASE Replace
    <3>1. mem' = Visible /\ cells' = ReplaceTable(cells, Table, Snapshotted, ResetTombstones, reply.at)
      BY <2>5 DEF Replace
    <3>2. cells'[Table][id] = ReplacedTable(Ids, Snapshotted, ResetTombstones, reply.at)[id]
      BY <2>3, <3>1 DEF ReplaceTable, CellsType
    <3>3. CASE mem[id] = NoRecord
      <4>1. id \notin DOMAIN Snapshotted
        BY <2>2, <3>3 DEF Snapshotted
      <4>2. ~IsLive(cells'[Table][id])
        BY <2>1, <3>2, <4>1 DEF ReplacedTable, IsLive, TombstoneCell
      <4> QED BY <2>2, <3>1, <3>3, <4>2 DEF StoredRecord
    <3>4. CASE mem[id] # NoRecord
      <4>1. id \in DOMAIN Snapshotted /\ Snapshotted[id] = mem[id]
        BY <2>1, <2>2, <3>4 DEF Snapshotted
      <4>2. cells'[Table][id] = LiveCell(mem[id], reply.at)
        BY <2>1, <3>2, <4>1 DEF ReplacedTable
      <4>3. LiveCell(mem[id], reply.at) \in Cell
        BY <2>1, <3>4 DEF LiveCell, Cell, RecordsType, AnswerOK
      <4>4. LiveCell(mem[id], reply.at) # NoCell
        BY <4>3, NothingAssumption
      <4>5. ~LiveCell(mem[id], reply.at).deleted /\ LiveCell(mem[id], reply.at).value = mem[id]
        BY DEF LiveCell
      <4> QED BY <2>2, <3>1, <4>2, <4>4, <4>5 DEF StoredRecord, IsLive
    <3> QED BY <3>3, <3>4
  <2>6. CASE SaveNext
    <3>1. PICK other \in todo.save : cells' = SaveRecord(cells, Table, other, mem[other], SaveStamp(other))
      BY <2>6 DEF SaveNext
    <3>2. other # id
      BY DEF AnswerInHand
    <3>3. cells'[Table][id] = cells[Table][id]
      BY <2>3, <3>1, <3>2 DEF SaveRecord, Put, CellsType
    <3> QED BY <2>6, <3>3 DEF SaveNext, StoredRecord
  <2>7. CASE BuryNext
    <3>1. PICK other \in todo.bury : cells' = RemoveRecord(cells, Table, other, ServerTombstones[other])
      BY <2>7 DEF BuryNext
    <3>2. other # id
      BY DEF AnswerInHand
    <3>3. cells'[Table][id] = cells[Table][id]
      BY <2>3, <3>1, <3>2 DEF RemoveRecord, Put, CellsType
    <3> QED BY <2>7, <3>3 DEF BuryNext, StoredRecord
  <2> QED BY <2>4, <2>5, <2>6, <2>7
<1>2. ASSUME IInv, [Next]_vars PROVE [Step]_vars
  BY <1>1, <1>2
<1> QED BY <1>2, Invariance, PTL DEF Spec, SentWritesSurvive

\* Nothing is renamed when the server keeps the ids that devices make.
NothingToRename == todo.rename = {} /\ reply.renames = {}

LEMMA NothingIsRenamed ==
    ASSUME \A id \in Ids : AssignedId[id] = id
    PROVE  Spec => []NothingToRename
<1>1. Init => NothingToRename
  BY DEF Init, NothingToRename, NoReply, Nothing
<1>2. ASSUME IInv, NothingToRename, [Next]_vars PROVE NothingToRename'
  <2> USE <1>2 DEF NothingToRename
  <2>1. CASE HandleSync
    <3>1. PICK drop \in SUBSET Batch, reset \in BOOLEAN, graves \in BOOLEAN :
              Answers(drop, reset, graves)
      BY <2>1 DEF HandleSync
    <3>2. \A m \in Batch : claim[m].record \in Ids
      BY DEF IInv, Batch, RowsOK, QueueType, QueueOf, RowOf
    <3>3. {id \in {claim[m].record : m \in Batch \cap applied'} : AssignedId[id] # id} = {}
      BY <3>2
    <3> QED BY <3>1, <3>3 DEF Answers, IInv, AnswerOK
  <2>2. CASE Merge \/ SaveNext \/ BuryNext
    BY <2>2 DEF Merge, SaveNext, BuryNext, IInv, AnswerOK
  <2>3. CASE PrimaryKeyBreaks \/ TransportFails \/ StatementFails \/ Crash \/ Finish
    BY <2>3 DEF PrimaryKeyBreaks, TransportFails, StatementFails, Crash, Finish, Throw, EndRun,
       NoReply, Nothing
  <2>4. CASE \/ \E m \in Mutations : UserRetries(m) \/ UserDiscards(m)
             \/ \E m \in Mutations, operation \in Operations, id \in Ids : Mutate(m, operation, id)
             \/ \E id \in Ids, deleted \in BOOLEAN : ForeignWrite(id, deleted)
             \/ EnsureTable \/ SendRequest \/ HandleLate \/ Restart \/ Settle \/ Replace \/ UNCHANGED vars
    BY <2>4 DEF UserRetries, UserDiscards, Mutate, ForeignWrite, EnsureTable, SendRequest, HandleLate, Restart,
       Settle, Replace, run, vars
  <2>5. ~RemapNext
    BY DEF RemapNext
  <2> QED BY <2>1, <2>2, <2>3, <2>4, <2>5 DEF Next, RunStep
<1> QED BY <1>1, <1>2, Invariance, PTL DEF Spec

\* An incremental answer brings back a deleted record only when it is newer than
\* the stored tombstone.
LEMMA MergeRespectsTombstones ==
    ASSUME IInv, ~reply.reset, NEW id \in Ids, IsTombstone(cells[Table][id]),
           mem[id] = NoRecord, Visible[id] # NoRecord
    PROVE  Visible[id].updatedAt > cells[Table][id].updatedAt
<1> USE DEF IInv
<1>1. log \in LogType /\ reply.to \in 0 .. Len(log) /\ reply.from \in Nat /\ claim \in QueueType
  BY DEF ServerOK, AnswerOK, RowsOK
<1> DEFINE local == LocalRecords
           kept == KeptLocal(local, Protected, Tombstones)
           candidates == Candidates(id, log, Positions, Protected, Tombstones)
           merged == Merged(local, log, Positions, Protected, Strategy, Tombstones)
<1>2. DOMAIN local = Ids /\ local[id] = NoRecord
  BY DEF LocalRecords
<1>3. Visible = [i \in Ids |-> IF i \in DeletedIds THEN NoRecord ELSE merged[i]]
  BY DEF Visible, AnswerTombstones
<1> HIDE DEF local
<1>4. kept[id] = NoRecord
  BY <1>2 DEF KeptLocal
<1>5. merged[id] = IF candidates = {} THEN kept[id]
                   ELSE IF kept[id] # NoRecord
                        THEN ResolveConflict(kept[id], RecordOf(log[Latest(candidates)]), Strategy)
                   ELSE IF Strategy = "client-wins" THEN RecordOf(log[Earliest(candidates)])
                   ELSE RecordOf(log[Latest(candidates)])
  BY <1>2 DEF Merged
<1>6. Visible[id] = merged[id]
  <2> HIDE DEF merged
  <2> QED BY <1>3
<1>7. candidates # {} /\ candidates \in SUBSET (1 .. Len(log))
  <2>1. candidates \in SUBSET (1 .. Len(log))
    BY <1>1, PositionsType DEF Candidates
  <2> HIDE DEF merged, kept, candidates
  <2> QED BY <1>4, <1>5, <1>6, <2>1
<1>8. PICK k \in candidates : Visible[id] = RecordOf(log[k]) /\ log[k] \in ChangeOf(Ids, Values)
  <2> HIDE DEF merged, kept, candidates
  <2> QED BY <1>1, <1>4, <1>5, <1>6, <1>7, LatestInLog
<1>9. ~Suppressed(id, RecordOf(log[k]), Tombstones)
  BY DEF Candidates
<1>10. /\ cells[Table][id].updatedAt \in Nat
       /\ id \in DOMAIN LoadTombstones(cells, Table)
       /\ LoadTombstones(cells, Table)[id] = cells[Table][id].updatedAt
  BY DEF IsTombstone, LoadTombstones, CopiesOK, CellsOK, CellsType, Cell
<1>11. \A i \in DOMAIN ServerTombstones : ServerTombstones[i] \in Nat
  BY <1>1, ServerTombstonesType
<1>12. id \in DOMAIN Tombstones /\ Tombstones[id] >= cells[Table][id].updatedAt
  BY <1>10, <1>11 DEF Tombstones, Later
<1>13. Tombstones[id] \in Nat
  BY <1>1, <1>12, TombstonesType DEF CopiesOK
<1>14. RecordOf(log[k]).updatedAt \in Nat
  BY <1>8, RecordOfType DEF Record
<1> HIDE DEF candidates
<1> QED BY <1>8, <1>9, <1>10, <1>12, <1>13, <1>14 DEF Suppressed

\* A deletion stays as DeletedStaysDeleted says.
StaysDeleted(id) ==
    IsTombstone(cells[Table][id]) /\ mem[id] = NoRecord /\ mem'[id] # NoRecord =>
       \/ \E m \in Mutations : Mutate(m, "CREATE", id)
       \/ mem'[id].updatedAt > cells[Table][id].updatedAt
       \/ Replace /\ id \notin DeletedIds

\* It does in every step but a rename.
LEMMA OnlyRenamesBringBack ==
    ASSUME IInv, [Next]_vars, ~RemapNext, NEW id \in Ids
    PROVE  StaysDeleted(id)
<1> SUFFICES ASSUME IsTombstone(cells[Table][id]), mem[id] = NoRecord, mem'[id] # NoRecord
             PROVE  \/ \E m \in Mutations : Mutate(m, "CREATE", id)
                    \/ mem'[id].updatedAt > cells[Table][id].updatedAt
                    \/ Replace /\ id \notin DeletedIds
  BY DEF StaysDeleted
<1>1. mem \in RecordsType
  BY DEF IInv, CopiesOK
<1>2. ASSUME NEW m \in Mutations, NEW operation \in Operations, NEW i \in Ids,
             Mutate(m, operation, i)
      PROVE  Mutate(m, "CREATE", id)
  <2>1. mem' = [mem EXCEPT ![i] = mem'[i]]
    BY <1>1, <1>2 DEF Mutate, RecordsType
  <2>2. i = id
    BY <1>1, <2>1 DEF RecordsType
  <2>3. operation = "CREATE"
    BY <1>1, <1>2, <2>2 DEF Mutate, RecordsType
  <2> QED BY <1>2, <2>2, <2>3
<1>3. ~Crash
  BY DEF Crash
<1>4. ~EnsureTable /\ ~SendRequest
  <2>1. StoredRecord(id) = NoRecord
    BY DEF StoredRecord, IsLive, IsTombstone
  <2> QED BY <2>1 DEF EnsureTable, SendRequest, Load
<1>5. CASE Merge
  BY <1>5, MergeRespectsTombstones DEF Merge
<1>6. CASE Replace
  BY <1>6 DEF Replace, Visible
<1>7. CASE \/ \E m \in Mutations : UserRetries(m) \/ UserDiscards(m)
           \/ \E i \in Ids, deleted \in BOOLEAN : ForeignWrite(i, deleted)
           \/ Restart \/ HandleSync \/ HandleLate \/ PrimaryKeyBreaks \/ TransportFails
           \/ StatementFails \/ SaveNext \/ BuryNext \/ Settle \/ Finish \/ UNCHANGED vars
  <2>1. mem' = mem
    BY <1>7 DEF UserRetries, UserDiscards, ForeignWrite, Restart, HandleSync, HandleLate,
       PrimaryKeyBreaks, TransportFails, StatementFails, SaveNext, BuryNext, Settle, Finish, vars
  <2> QED BY <2>1
<1> QED BY <1>2, <1>3, <1>4, <1>5, <1>6, <1>7 DEF Next, RunStep

\* A record that was deleted here comes back only by being created anew, by a
\* server record strictly newer than the tombstone, or by a replacement made while
\* the deletion was not part of the batch (loadStoredTombstones and
\* mergePulledRecords): for every server that keeps the ids devices make.
THEOREM DeletionsLast ==
    ASSUME \A id \in Ids : AssignedId[id] = id
    PROVE  Spec => DeletedStaysDeleted
<1>1. ASSUME IInv, NothingToRename, [Next]_vars PROVE [\A id \in Ids : StaysDeleted(id)]_vars
  <2>1. ~RemapNext
    BY <1>1 DEF RemapNext, NothingToRename
  <2> QED BY <1>1, <2>1, OnlyRenamesBringBack
<1>2. ASSUME [\A id \in Ids : StaysDeleted(id)]_vars
      PROVE  [\A id \in Ids :
                 IsTombstone(cells[Table][id]) /\ mem[id] = NoRecord /\ mem'[id] # NoRecord =>
                    \/ \E m \in Mutations : Mutate(m, "CREATE", id)
                    \/ mem'[id].updatedAt > cells[Table][id].updatedAt
                    \/ Replace /\ id \notin DeletedIds]_vars
  BY <1>2 DEF StaysDeleted
<1> QED BY <1>1, <1>2, Invariance, NothingIsRenamed, PTL DEF Spec, DeletedStaysDeleted
=============================================================================
