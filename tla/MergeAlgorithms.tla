-------------------------- MODULE MergeAlgorithms --------------------------
(***************************************************************************)
(* src/merge.ts: which of two copies of a record is kept, and what a pull  *)
(* leaves of the records in memory.                                        *)
(*                                                                         *)
(* A record is its fields (value, one unit) and its revision updatedAt; 0  *)
(* stands for a record without one.  A collection maps every id to its     *)
(* record or to NoRecord, tombstones map the ids that have one to its      *)
(* timestamp.  A change is what the server reports of one id: a record, or *)
(* a deletion.                                                             *)
(***************************************************************************)
EXTENDS Naturals, Sequences

CONSTANT NoRecord   \* "there is no record with this id"

Strategies == {"last-write-wins", "server-wins", "client-wins", "merge-fields"}

NewRecord(value, updatedAt) == [value |-> value, updatedAt |-> updatedAt]

RecordOf(change) == NewRecord(change.value, change.revision)

\* The remote fields replace the local ones that they name.
MergeFields(local, remote) ==
    [remote EXCEPT !.updatedAt = IF @ = 0 THEN local.updatedAt ELSE @]

\* With no timestamp on either side, both are 0.  (NewestLoses: the comparison
\* the wrong way round.)
NewestLoses(local, remote, strategy) ==
    IF remote.updatedAt <= local.updatedAt THEN remote ELSE local

ResolveConflict(local, remote, strategy) ==
    CASE strategy = "server-wins"  -> remote
      [] strategy = "client-wins"  -> local
      [] strategy = "merge-fields" -> MergeFields(local, remote)
      [] OTHER -> IF remote.updatedAt >= local.updatedAt THEN remote ELSE local

\* Hidden by a tombstone: not strictly newer than it.
Suppressed(id, record, tombstones) ==
    id \in DOMAIN tombstones /\ record.updatedAt <= tombstones[id]

KeptLocal(local, protected, tombstones) ==
    [id \in DOMAIN local |->
        IF local[id] # NoRecord /\ id \notin protected /\ Suppressed(id, local[id], tombstones)
        THEN NoRecord ELSE local[id]]

\* The loops of mergePulledRecords, over the records among the changes of a log
\* at the given positions.  protected are the ids of the mutations that were sent
\* and not acknowledged.
MergePulledRecords(local, log, positions, protected, strategy, tombstones) ==
    LET Skips(k) ==
            \/ k \notin positions \/ log[k].deleted \/ log[k].id \in protected
            \/ Suppressed(log[k].id, RecordOf(log[k]), tombstones)
        merged[k \in 0 .. Len(log)] ==
            IF k = 0 THEN KeptLocal(local, protected, tombstones)
            ELSE IF Skips(k) THEN merged[k - 1]
            ELSE [merged[k - 1] EXCEPT ![log[k].id] =
                     IF @ = NoRecord THEN RecordOf(log[k])
                     ELSE ResolveConflict(@, RecordOf(log[k]), strategy)]
    IN  merged[Len(log)]

----------------------------------------------------------------------------
(***************************************************************************)
(* What the loops amount to when revisions grow along the log: one         *)
(* candidate per id, the last of its records that are not suppressed (the  *)
(* first, under client-wins).                                              *)
(***************************************************************************)
Candidates(id, log, positions, protected, tombstones) ==
    {k \in positions :
        /\ log[k].id = id /\ ~log[k].deleted
        /\ id \notin protected
        /\ ~Suppressed(id, RecordOf(log[k]), tombstones)}

Earliest(positions) == CHOOSE k \in positions : \A j \in positions : k <= j

Latest(positions) == CHOOSE k \in positions : \A j \in positions : j <= k

Merged(local, log, positions, protected, strategy, tombstones) ==
    [id \in DOMAIN local |->
        LET kept == KeptLocal(local, protected, tombstones)[id]
            candidates == Candidates(id, log, positions, protected, tombstones)
        IN  IF candidates = {} THEN kept
            ELSE IF kept # NoRecord
                 THEN ResolveConflict(kept, RecordOf(log[Latest(candidates)]), strategy)
            ELSE IF strategy = "client-wins" THEN RecordOf(log[Earliest(candidates)])
            ELSE RecordOf(log[Latest(candidates)])]
=============================================================================
