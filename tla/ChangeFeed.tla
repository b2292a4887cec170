----------------------------- MODULE ChangeFeed -----------------------------
(***************************************************************************)
(* The server's side of one table, as tools/sync-test-server.cjs keeps it: *)
(* a log of changes, whose length is the version of the table and whose    *)
(* positions are the cursors.  Its records are the last changes of their   *)
(* ids.                                                                    *)
(*                                                                         *)
(* The revision of a change is the version, as in the fixture and in       *)
(* README.md (Revisions = "counter"), or the time it was made at (Revisions*)
(* = "clock": the server that stamps its rows with its clock).             *)
(***************************************************************************)
EXTENDS Naturals, Sequences, FiniteSets

CONSTANT Revisions

ChangeOf(ids, values) == [id: ids, value: values, revision: Nat, deleted: BOOLEAN]

\* The position of the last change of id among the first n, 0 if there is none.
LastChange(log, id, n) ==
    LET touching == {k \in 1 .. n : log[k].id = id}
    IN  IF touching = {} THEN 0 ELSE CHOOSE k \in touching : \A j \in touching : j <= k

\* The record exists after the first n changes.
Exists(log, id, n) ==
    LastChange(log, id, n) # 0 /\ ~log[LastChange(log, id, n)].deleted

\* table.version += 1; the k-th change after the log, made now or k ticks later.
Revision(log, k, now) == IF Revisions = "counter" THEN Len(log) + k ELSE now + k

NewChange(id, value, deleted, revision) ==
    [id |-> id, value |-> value, deleted |-> deleted, revision |-> revision]

\* The loop over the mutations of a request: order lists those that are applied,
\* rows are the mutations as they were sent, assigned the ids the server gives.
Appended(log, order, rows, assigned, now) ==
    log \o [k \in 1 .. Len(order) |->
               NewChange(assigned[rows[order[k]].record], order[k],
                         rows[order[k]].operation = "DELETE", Revision(log, k, now))]

\* changes.filter((change) => change.version > cursor), as positions in the log.
Pulled(from, to) == from + 1 .. to

\* A replacement: the table's records as they are, with the tombstones of what
\* is deleted if the server keeps them.
Snapshot(log, to, withTombstones) ==
    {k \in 1 .. to :
        /\ k = LastChange(log, log[k].id, to)
        /\ log[k].deleted => withTombstones}
=============================================================================
