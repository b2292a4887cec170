---------------------------- MODULE RecordCells ----------------------------
(***************************************************************************)
(* The statements that createSyncStorage (src/storage.ts) issues against   *)
(* the sync_records table, each as a function from one content of the      *)
(* table to the next; MutationQueue.cpp issues the same ones.              *)
(*                                                                         *)
(* c[t][id] is the row with primary key (t, id), or NoCell.  A row holds   *)
(* the record (value), the time updatedAt it was last written at and the   *)
(* flag deleted, which makes it a tombstone.                               *)
(***************************************************************************)
EXTENDS Naturals

CONSTANTS
    NoCell,   \* "there is no row with this key"
    Blank     \* the payload {"id": ...} of a tombstone inserted anew

LiveCell(value, timestamp) == [value |-> value, updatedAt |-> timestamp, deleted |-> FALSE]

TombstoneCell(value, timestamp) == [value |-> value, updatedAt |-> timestamp, deleted |-> TRUE]

IsLive(cell) == cell # NoCell /\ ~cell.deleted

IsTombstone(cell) == cell # NoCell /\ cell.deleted

\* WHERE excluded.updated_at >= sync_records.updated_at (AcceptsAlways: the
\* mistake of leaving it out).
AcceptsAlways(cell, timestamp) == TRUE

Accepts(cell, timestamp) == cell = NoCell \/ timestamp >= cell.updatedAt

Put(c, t, id, cell) == [c EXCEPT ![t] = [@ EXCEPT ![id] = cell]]

\* INSERT ... ON CONFLICT DO UPDATE, guarded by the timestamps.
SaveRecord(c, t, id, value, timestamp) ==
    IF Accepts(c[t][id], timestamp) THEN Put(c, t, id, LiveCell(value, timestamp)) ELSE c

\* An existing row keeps its payload and becomes a tombstone.
RemoveRecord(c, t, id, timestamp) ==
    IF Accepts(c[t][id], timestamp)
    THEN Put(c, t, id,
             TombstoneCell(IF c[t][id] = NoCell THEN Blank ELSE c[t][id].value, timestamp))
    ELSE c

\* DELETE ... WHERE deleted = 1 AND updated_at <= throughTimestamp
ClearTombstone(c, t, id, through) ==
    IF IsTombstone(c[t][id]) /\ c[t][id].updatedAt <= through
    THEN Put(c, t, id, NoCell) ELSE c

\* UPDATE of the primary key: it fails when the new key is taken.
RemapBreaks(c, t, from, to) == c[t][from] # NoCell /\ c[t][to] # NoCell

RemapCells(c, t, from, to) ==
    IF c[t][from] = NoCell THEN c
    ELSE [c EXCEPT ![t] = [@ EXCEPT ![from] = NoCell, ![to] = c[t][from]]]

\* DELETE of the table's rows, then plain INSERTs: an id that comes both as a
\* record and as a tombstone breaks the primary key.  live maps ids to values,
\* dead maps ids to timestamps.
ReplaceBreaks(live, dead) == DOMAIN live \cap DOMAIN dead # {}

ReplacedTable(ids, live, dead, timestamp) ==
    [id \in ids |->
        IF id \in DOMAIN live THEN LiveCell(live[id], timestamp)
        ELSE IF id \in DOMAIN dead THEN TombstoneCell(Blank, dead[id])
        ELSE NoCell]

ReplaceTable(c, t, live, dead, timestamp) ==
    [c EXCEPT ![t] = ReplacedTable(DOMAIN c[t], live, dead, timestamp)]

\* What the reads return: the live rows, and the tombstones with their times.
LoadRecords(c, t) == {id \in DOMAIN c[t] : IsLive(c[t][id])}

LoadTombstones(c, t) ==
    [id \in {i \in DOMAIN c[t] : IsTombstone(c[t][i])} |-> c[t][id].updatedAt]
=============================================================================
