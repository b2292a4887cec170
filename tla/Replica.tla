------------------------------ MODULE Replica ------------------------------
(***************************************************************************)
(* One table on one device and on the server: the pull half of             *)
(* processTable in src/provider.tsx, which merges the server's changes     *)
(* into memory (recordsRef) and into the database, settles the batch and   *)
(* stores the cursor; mutate, which writes locally; and the server as      *)
(* tools/sync-test-server.cjs has it, with the edits of other devices, and *)
(* with the replacements and the assigned ids of README.md.                *)
(*                                                                         *)
(* One run is at work at a time, as the promise chain sees to (module      *)
(* SyncEngine has several, and every failure of a handler).  From the      *)
(* answer on, a run is one JavaScript task; its actions are its database   *)
(* statements, because the process can die between two of them.            *)
(*                                                                         *)
(* ServerTombstonesOnly, LocalRecordsCleared, ToBuryNothing and            *)
(* FinishAhead are the code with a mistake in it, to see that the          *)
(* properties notice it.                                                   *)
(***************************************************************************)
EXTENDS QueueRows, RecordCells, MergeAlgorithms, ChangeFeed

CONSTANTS
    Ids, Mutations,
    Table,
    NoValue,         \* what a missing record shows
    Foreign,         \* what another device writes
    AssignedId,      \* the id the server gives to a record created under an id
    Strategy,        \* config.conflictStrategy
    Epoch,           \* the server's clock at the start
    Ticks,           \* how far it may move before a local write
    ClockBehind,     \* how far the device's clock may be behind the server's,
    ClockAhead,      \* and how far ahead of it, at a local write
    MaxForeign,      \* bound on the writes of other devices
    MaxResets,       \* bound on the replacements
    MaxFailures,     \* bound on crashes and failures of requests and statements
    MaxTogether      \* bound on these three taken together

ASSUME ReplicaAssumption ==
    /\ IsFiniteSet(Ids) /\ IsFiniteSet(Mutations)
    /\ AssignedId \in [Ids -> Ids]
    /\ Strategy \in Strategies /\ Revisions \in {"counter", "clock"}
    /\ Foreign \notin Mutations /\ NoValue \notin Mutations \cup {Foreign}
    /\ Epoch \in Nat /\ Ticks \subseteq {0, 1} /\ RetryCap \in Nat
    /\ ClockBehind \subseteq Nat /\ ClockAhead \subseteq Nat
    /\ MaxForeign \in Nat /\ MaxResets \in Nat /\ MaxFailures \in Nat
    /\ MaxTogether \in Nat

Values == Mutations \cup {Foreign}

VARIABLES
    \* on the device, durable
    queue,       \* the sync_queue table
    cells,       \* the sync_records table
    cursor,      \* the stored server cursor (the server version goes with it)
    \* on the device, in memory
    up,          \* the app runs
    mem,         \* recordsRef.current[tableName]
    loaded,      \* "absent": there is none yet; "partial": it lacks stored records
    stage,       \* how far the run is
    claim,       \* tableMutations: the rows as they were claimed
    unacked,     \* unackedIds
    todo,        \* what the loops of processTable have still to do
    \* the network and the server
    reply,       \* the answer, from when the server made it
    late,        \* rows of a request nobody waits for, which may still arrive
    log,         \* the server's change log
    applied,     \* processedMutations that were applied
    refused,     \* processedMutations that were rejected
    now,         \* the server's clock
    \* bounds and history
    spent,       \* how much of each bound is used up
    adrift       \* ids that may differ from the server (see CopiesFollowTheServer)

durable == <<queue, cells, cursor>>
run == <<stage, claim, unacked, todo, reply>>
server == <<log, applied, refused>>
vars == <<durable, up, mem, loaded, run, late, server, now, spent, adrift>>

NoRows == [m \in Mutations |-> NoRow]

NoReply == [from |-> 0, to |-> 0, ack |-> {}, reject |-> {}, renames |-> {},
            reset |-> FALSE, graves |-> FALSE, at |-> 0]

Nothing == [rename |-> {}, save |-> {}, bury |-> {}]

Record == [value: Values, updatedAt: Nat]

Cell == [value: Record \cup {Blank}, updatedAt: Nat, deleted: BOOLEAN]

ASSUME NothingAssumption ==
    /\ NoRecord \notin Record /\ NoCell \notin Cell
    /\ NoRow \notin RowOf({Table}, Ids, Mutations)

TypeOK ==
    /\ queue \in QueueOf({Table}, Ids, Mutations)
    /\ cells \in [{Table} -> [Ids -> Cell \cup {NoCell}]]
    /\ cursor \in 0 .. Len(log)
    /\ up \in BOOLEAN
    /\ mem \in [Ids -> Record \cup {NoRecord}]
    /\ loaded \in {"absent", "whole", "partial"}
    /\ stage \in {"idle", "sent", "answered", "renaming", "storing"}
    /\ claim \in QueueOf({Table}, Ids, Mutations)
    /\ unacked \subseteq Mutations
    /\ todo \in [rename: SUBSET Ids, save: SUBSET Ids, bury: SUBSET Ids]
    /\ reply \in [from: Nat, to: 0 .. Len(log), ack: SUBSET Mutations, reject: SUBSET Mutations,
                  renames: SUBSET Ids, reset: BOOLEAN, graves: BOOLEAN, at: Nat]
    /\ late \in QueueOf({Table}, Ids, Mutations)
    /\ log \in Seq(ChangeOf(Ids, Values))
    /\ applied \subseteq Mutations /\ refused \subseteq Mutations
    /\ now \in Nat
    /\ spent \in [foreign: 0 .. MaxForeign, resets: 0 .. MaxResets, failures: 0 .. MaxFailures]
    /\ adrift \subseteq Ids

Init ==
    /\ queue = NoRows
    /\ cells = [t \in {Table} |-> [id \in Ids |-> NoCell]]
    /\ cursor = 0
    /\ up = TRUE
    /\ mem = [id \in Ids |-> NoRecord] /\ loaded = "absent"
    /\ stage = "idle"
    /\ claim = NoRows
    /\ unacked = {}
    /\ todo = Nothing
    /\ reply = NoReply
    /\ late = NoRows
    /\ log = <<>>
    /\ applied = {} /\ refused = {}
    /\ now = Epoch
    /\ spent = [foreign |-> 0, resets |-> 0, failures |-> 0]
    /\ adrift = {}

----------------------------------------------------------------------------
(***************************************************************************)
(* The application                                                         *)
(***************************************************************************)
Waiting == {"sent", "answered"}

Spend(kind, bound) ==
    /\ spent[kind] < bound
    /\ spent.foreign + spent.resets + spent.failures < MaxTogether
    /\ spent' = [spent EXCEPT ![kind] = @ + 1]

\* An id that the server assigns is nobody's until it has, and the id it replaces
\* is not given to another record.
Assigned(id) == \E from \in Ids \ {id} : AssignedId[from] = id

Fresh(id) ==
    /\ ~Assigned(id)
    /\ AssignedId[id] # id => LastChange(log, AssignedId[id], Len(log)) = 0

\* A new task of the JavaScript thread: not in the middle of an answer.
NewTask == up /\ stage \in Waiting \cup {"idle"}

Draft(operation, id) ==
    [table |-> Table, record |-> id, operation |-> operation, dependsOn |-> {}]

\* { ...previousRecord, ...payload } for an update, the payload for a creation.
Written(m, operation, id) ==
    NewRecord(m, IF operation = "UPDATE" THEN mem[id].updatedAt ELSE 0)

\* What Date.now() may say on the device when the server's clock says t.
Readings(t) == {t + d : d \in ClockAhead} \cup {t - d : d \in {e \in ClockBehind : e <= t}}

StoredRecord(id) == IF IsLive(cells[Table][id]) THEN cells[Table][id].value ELSE NoRecord

\* ensureTable, and the start of processTable: memory is read from the database,
\* unless there is some.
Load ==
    /\ mem' = IF loaded = "absent" THEN [id \in Ids |-> StoredRecord(id)] ELSE mem
    /\ loaded' = IF loaded = "absent" THEN "whole" ELSE loaded

\* A hook mounts (its effect and the state it sets are taken together).
EnsureTable ==
    /\ NewTask
    /\ loaded = "absent"
    /\ Load
    /\ UNCHANGED <<durable, up, run, late, server, now, spent, adrift>>

\* Written before the table is loaded, a record is all there is in memory, and
\* nothing loads the others any more.
Started(id) ==
    IF \E other \in Ids \ {id} : StoredRecord(other) # NoRecord THEN "partial" ELSE "whole"

\* The application creates what it does not show, and changes what it shows.
\* applyMutation is one transaction: the mutation, and the record or its tombstone,
\* under the time the device's clock shows.
Mutate(m, operation, id) ==
    /\ NewTask
    /\ queue[m] = NoRow /\ m \notin applied \cup refused
    /\ IF operation = "CREATE" THEN mem[id] = NoRecord /\ Fresh(id) ELSE mem[id] # NoRecord
    /\ \E tick \in Ticks : now' = now + tick
    /\ \E time \in Readings(now') :
          /\ queue' = SaveMutation(queue, m, FreshRow(Draft(operation, id), time))
          /\ cells' = IF operation = "DELETE" THEN RemoveRecord(cells, Table, id, time)
                      ELSE SaveRecord(cells, Table, id, Written(m, operation, id), time)
    /\ mem' = [mem EXCEPT ![id] = IF operation = "DELETE" THEN NoRecord
                                  ELSE Written(m, operation, id)]
    /\ loaded' = IF loaded = "absent" THEN Started(id) ELSE loaded
    /\ UNCHANGED <<cursor, up, run, late, server, spent, adrift>>

\* The user's answers to a rejection.  Discarding leaves the record as it is.
UserRetries(m) ==
    /\ NewTask
    /\ m \in WithStatus(queue, {"REJECTED"})
    /\ queue' = RetryRejected(queue, m)
    /\ UNCHANGED <<cells, cursor, up, mem, loaded, run, late, server, now, spent, adrift>>

UserDiscards(m) ==
    /\ NewTask
    /\ m \in WithStatus(queue, {"REJECTED"})
    /\ queue' = DiscardRejected(queue, m)
    /\ adrift' = adrift \cup {queue[m].record}
    /\ UNCHANGED <<cells, cursor, up, mem, loaded, run, late, server, now, spent>>

----------------------------------------------------------------------------
(***************************************************************************)
(* The run, up to its answer                                               *)
(***************************************************************************)
Batch == {m \in Mutations : claim[m] # NoRow}

\* Everything that is due is claimed (the limit of 100 is not reached).  Which
\* retry delays are over is left open.  A table that is not in memory is loaded.
SendRequest ==
    /\ NewTask /\ stage = "idle"
    /\ \E due \in SUBSET Due(queue, RetryDelay(RetryCap), {Table}) :
          /\ Due(queue, 0, {Table}) \subseteq due
          /\ claim' = [m \in Mutations |-> IF m \in due THEN queue[m] ELSE NoRow]
          /\ unacked' = due
          /\ queue' = MarkSyncing(queue, due)
    /\ stage' = "sent"
    /\ Load
    /\ UNCHANGED <<cells, cursor, up, todo, reply, late, server, now, spent, adrift>>

\* The server handles what it was sent, in that order (mutations of one
\* millisecond come in either order): of the mutations it does not know it
\* applies taken, rejects refuse for good, and asks to retry the others.
InOrder(order, taken, rows) ==
    /\ {order[k] : k \in DOMAIN order} = taken
    /\ \A j, k \in DOMAIN order :
          j < k => rows[order[j]].timestamp <= rows[order[k]].timestamp

Handles(rows, taken, refuse) ==
    /\ \A m \in taken \cup refuse : rows[m] # NoRow /\ m \notin applied \cup refused
    /\ \E order \in [1 .. Cardinality(taken) -> Mutations] :
          /\ InOrder(order, taken, rows)
          /\ log' = Appended(log, order, rows, AssignedId, now)
    /\ now' = now + Cardinality(taken)
    /\ applied' = applied \cup taken
    /\ refused' = refused \cup refuse

\* The answer: of what was applied, now or earlier, drop is not acknowledged.
Answers(drop, reset, graves) ==
    /\ reply' =
         [from |-> cursor,
              to |-> Len(log'),
              ack |-> (Batch \cap applied') \ drop,
              reject |-> Batch \cap refused',
              renames |-> {id \in {claim[m].record : m \in Batch \cap applied'} :
                              AssignedId[id] # id},
              reset |-> reset,
              graves |-> graves,
              at |-> now']
    /\ todo' = [todo EXCEPT !.rename = reply'.renames]

HandleSync ==
    /\ stage = "sent"
    /\ \E taken \in SUBSET Batch : \E refuse \in SUBSET (Batch \ taken) :
          /\ Handles(claim, taken, refuse)
          /\ \E drop \in SUBSET taken, reset \in BOOLEAN, graves \in BOOLEAN :
                /\ graves => reset
                /\ Answers(drop, reset, graves)
                /\ IF reset THEN Spend("resets", MaxResets) ELSE spent' = spent
    /\ stage' = "answered"
    /\ UNCHANGED <<durable, up, mem, loaded, claim, unacked, late, adrift>>

\* A request that was given up on is handled after all.
HandleLate ==
    /\ late # NoRows
    /\ \E taken \in SUBSET Mutations : \E refuse \in SUBSET (Mutations \ taken) :
          Handles(late, taken, refuse)
    /\ late' = NoRows
    /\ UNCHANGED <<durable, up, mem, loaded, run, spent, adrift>>

\* The edits of other devices, of records under the server's ids.
ForeignWrite(id, deleted) ==
    /\ Spend("foreign", MaxForeign)
    /\ AssignedId[id] = id
    /\ Assigned(id) => LastChange(log, id, Len(log)) # 0
    /\ deleted => Exists(log, id, Len(log))
    /\ log' = Append(log, NewChange(id, Foreign, deleted, Revision(log, 1, now)))
    /\ now' = now + 1
    /\ UNCHANGED <<durable, up, mem, loaded, run, late, applied, refused, adrift>>

----------------------------------------------------------------------------
(***************************************************************************)
(* Failure: whatever is unsettled is marked FAILED, and the run ends       *)
(***************************************************************************)
FailAll(q, S) == [m \in DOMAIN q |-> IF m \in S THEN MarkFailed(q, m, 0)[m] ELSE q[m]]

EndRun ==
    /\ stage' = "idle"
    /\ claim' = NoRows
    /\ unacked' = {}
    /\ todo' = Nothing
    /\ reply' = NoReply

Fails == Spend("failures", MaxFailures)

\* processTable's catch.
Throw ==
    /\ queue' = FailAll(queue, unacked)
    /\ EndRun

\* No answer: the request is lost, or still on its way, or the answer is lost.
TransportFails ==
    /\ up /\ stage \in Waiting
    /\ Fails
    /\ Throw
    /\ late' = IF stage = "sent" THEN claim ELSE late
    /\ UNCHANGED <<cells, cursor, up, mem, loaded, server, now, adrift>>

\* A statement fails (of the first one of a run: TransportFails has the effect).
StatementFails ==
    /\ up /\ stage \in {"renaming", "storing"}
    /\ Fails
    /\ Throw
    /\ UNCHANGED <<cells, cursor, up, mem, loaded, late, server, now, adrift>>

Crash ==
    /\ up
    /\ Fails
    /\ up' = FALSE
    /\ mem' = [id \in Ids |-> NoRecord] /\ loaded' = "absent"
    /\ EndRun
    /\ late' = IF stage = "sent" THEN claim ELSE late
    /\ UNCHANGED <<durable, server, now, adrift>>

\* The provider mounts: recoverStuckMutations.  No table is in memory yet.
Restart ==
    /\ ~up
    /\ up' = TRUE
    /\ queue' = RecoverStuck(queue)
    /\ UNCHANGED <<cells, cursor, mem, loaded, run, late, server, now, spent, adrift>>

----------------------------------------------------------------------------
(***************************************************************************)
(* The answer is used: new ids, the merge, the database, the settlement    *)
(***************************************************************************)
\* The loop over idMap: rows and queued mutations take the new id, one
\* transaction per id; memory follows after the last.
Renamed(collection, renames) ==
    [id \in Ids |->
        IF \E from \in renames : AssignedId[from] = id /\ collection[from] # NoRecord
        THEN collection[CHOOSE from \in renames :
                            AssignedId[from] = id /\ collection[from] # NoRecord]
        ELSE IF id \in renames THEN NoRecord ELSE collection[id]]

\* History: the answer to the creation was lost, and the record has been pulled
\* under its new id since.
Ghost(from) == {id \in {AssignedId[from]} : LastChange(log, id, reply.from) # 0}

RemapNext ==
    /\ up /\ stage \in {"answered", "renaming"}
    /\ \E from \in todo.rename :
          /\ ~RemapBreaks(cells, Table, from, AssignedId[from])
          /\ queue' = RemapQueue(queue, Table, from, AssignedId[from])
          /\ cells' = RemapCells(cells, Table, from, AssignedId[from])
          /\ todo' = [todo EXCEPT !.rename = @ \ {from}]
          /\ adrift' = {IF id = from THEN AssignedId[id] ELSE id : id \in adrift} \cup Ghost(from)
          /\ mem' = IF todo.rename = {from} THEN Renamed(mem, reply.renames) ELSE mem
    /\ stage' = "renaming"
    /\ UNCHANGED <<cursor, up, loaded, claim, unacked, reply, late, server, now, spent>>

Merging == up /\ stage \in {"answered", "renaming"} /\ todo.rename = {}

\* What was sent and is not acknowledged, rejections included.
Unacknowledged == Batch \ reply.ack

Protected == {claim[m].record : m \in Unacknowledged}

UnacknowledgedDeletes == {m \in Unacknowledged : claim[m].operation = "DELETE"}

DeletedIds == {claim[m].record : m \in UnacknowledgedDeletes}

Positions ==
    IF reply.reset THEN Snapshot(log, reply.to, reply.graves)
    ELSE Pulled(reply.from, reply.to)

RecordPositions(id) == {k \in Positions : log[k].id = id /\ ~log[k].deleted}

DeletionPositions(id) == {k \in Positions : log[k].id = id /\ log[k].deleted}

\* Tombstones map ids to timestamps; of two, the later counts.
Later(f, g) ==
    [id \in DOMAIN f \cup DOMAIN g |->
        IF id \notin DOMAIN g \/ (id \in DOMAIN f /\ f[id] >= g[id]) THEN f[id] ELSE g[id]]

ServerTombstones ==
    [id \in {i \in Ids : DeletionPositions(i) # {}} |->
        log[Latest(DeletionPositions(id))].revision]

OwnTombstones ==
    [id \in DeletedIds |->
        LET last == CHOOSE m \in UnacknowledgedDeletes :
                        /\ claim[m].record = id
                        /\ \A other \in UnacknowledgedDeletes :
                              claim[other].record = id => claim[other].timestamp <= claim[m].timestamp
        IN  claim[last].timestamp]

ServerTombstonesOnly == ServerTombstones

Tombstones == Later(LoadTombstones(cells, Table), ServerTombstones)

ResetTombstones == Later(ServerTombstones, OwnTombstones)

AnswerTombstones == IF reply.reset THEN ResetTombstones ELSE Tombstones

\* localRecords, merged and visibleMerged.
LocalRecordsCleared == [id \in Ids |-> IF reply.reset THEN NoRecord ELSE mem[id]]

LocalRecords ==
    [id \in Ids |-> IF reply.reset /\ id \notin Protected THEN NoRecord ELSE mem[id]]

Visible ==
    LET merged == Merged(LocalRecords, log, Positions, Protected, Strategy, AnswerTombstones)
    IN  [id \in Ids |-> IF id \in DeletedIds THEN NoRecord ELSE merged[id]]

\* The records a replacement stores.
Snapshotted == [id \in {i \in Ids : Visible[i] # NoRecord} |-> Visible[id]]

Shows(record) == IF record = NoRecord THEN NoValue ELSE record.value

\* What the server's record shows after n changes.
ServerShows(id, n) ==
    IF Exists(log, id, n) THEN log[LastChange(log, id, n)].value ELSE NoValue

\* History: a protected id that differs from what the server had is passed over
\* by this answer.
PassedOver(stored, shown) ==
    {id \in Protected :
        ServerShows(id, reply.to) \notin {Shows(stored[id])} \cap {Shows(shown[id])}}

\* What is stored of an id that the answer brings levels it, unless a discarded
\* mutation has left a row there that outlasts the change.
Levelled(id) ==
    IF cells[Table][id] # NoCell
       /\ cells[Table][id].updatedAt >= log[LastChange(log, id, reply.to)].revision
    THEN {} ELSE {id}

\* The rows an incremental answer changes: records that are still there after the
\* merge, and deletions.
ToSave ==
    {id \in Ids \ Protected : RecordPositions(id) # {} /\ Visible[id] # NoRecord}

ToBuryNothing == {}

ToBury == {id \in Ids \ Protected : DeletionPositions(id) # {}}

\* A new id is taken already, or the replacement holds an id twice.
PrimaryKeyBreaks ==
    /\ up
    /\ \/ /\ stage \in {"answered", "renaming"}
          /\ \E from \in todo.rename : RemapBreaks(cells, Table, from, AssignedId[from])
       \/ Merging /\ reply.reset /\ ReplaceBreaks(Snapshotted, ResetTombstones)
    /\ Throw
    /\ UNCHANGED <<cells, cursor, up, mem, loaded, late, server, now, spent, adrift>>

\* An incremental answer: memory first, the rows one by one after it.
Merge ==
    /\ Merging /\ ~reply.reset
    /\ stage' = "storing"
    /\ mem' = Visible
    /\ todo' = [todo EXCEPT !.save = ToSave, !.bury = ToBury]
    /\ adrift' = (adrift \ Protected) \cup PassedOver([id \in Ids |-> StoredRecord(id)], Visible)
    /\ UNCHANGED <<durable, up, loaded, claim, unacked, reply, late, server, now, spent>>

\* A replacement: the table's rows in one transaction, then memory.
Replace ==
    /\ Merging /\ reply.reset
    /\ ~ReplaceBreaks(Snapshotted, ResetTombstones)
    /\ cells' = ReplaceTable(cells, Table, Snapshotted, ResetTombstones, reply.at)
    /\ stage' = "storing"
    /\ mem' = Visible /\ loaded' = "whole"
    /\ adrift' = PassedOver(Visible, Visible)
    /\ UNCHANGED <<queue, cursor, up, claim, unacked, todo, reply, late, server, now, spent>>

\* The rows of the pulled records are stored in the order of the log; the
\* timestamp rises above a tombstone.  A record that the answer brings twice is
\* stored once, where it comes last: what is stored is always what memory shows.
SaveStamp(id) ==
    IF id \in DOMAIN Tombstones
    THEN Latest({reply.at, Tombstones[id] + 1, log[Latest(RecordPositions(id))].revision})
    ELSE reply.at

SaveNext ==
    /\ up /\ stage = "storing"
    /\ \E id \in todo.save :
          /\ \A other \in todo.save :
                Latest(RecordPositions(id)) <= Latest(RecordPositions(other))
          /\ cells' = SaveRecord(cells, Table, id, mem[id], SaveStamp(id))
          /\ todo' = [todo EXCEPT !.save = @ \ {id}]
          /\ adrift' = adrift \ Levelled(id)
    /\ UNCHANGED <<queue, cursor, up, mem, loaded, stage, claim, unacked, reply, late, server,
                   now, spent>>

BuryNext ==
    /\ up /\ stage = "storing" /\ todo.save = {}
    /\ \E id \in todo.bury :
          /\ \A other \in todo.bury :
                Latest(DeletionPositions(id)) <= Latest(DeletionPositions(other))
          /\ cells' = RemoveRecord(cells, Table, id, ServerTombstones[id])
          /\ todo' = [todo EXCEPT !.bury = @ \ {id}]
          /\ adrift' = adrift \ Levelled(id)
    /\ UNCHANGED <<queue, cursor, up, mem, loaded, stage, claim, unacked, reply, late, server,
                   now, spent>>

Settling == up /\ stage = "storing" /\ todo.save = {} /\ todo.bury = {}

\* Acknowledged, unacknowledged and rejected mutations, each in the order of the
\* batch; of an acknowledged deletion, the tombstone is cleared after the row is
\* removed.
Acknowledge(m) ==
    \/ /\ queue[m] # NoRow
       /\ queue' = RemoveMutation(queue, m)
       /\ unacked' = IF claim[m].operation = "DELETE" THEN unacked ELSE unacked \ {m}
       /\ UNCHANGED cells
    \/ /\ queue[m] = NoRow
       /\ cells' = ClearTombstone(cells, Table, claim[m].record, claim[m].timestamp)
       /\ unacked' = unacked \ {m}
       /\ UNCHANGED queue

Settle ==
    /\ Settling
    /\ LET Earlier(m, S) ==
               m \in S /\ \A other \in S : claim[m].timestamp <= claim[other].timestamp
           retried == (unacked \ reply.ack) \ reply.reject
       IN  \E m \in unacked :
              \/ Earlier(m, unacked \cap reply.ack) /\ Acknowledge(m)
              \/ /\ unacked \cap reply.ack = {}
                 /\ Earlier(m, retried)
                 /\ queue' = MarkFailed(queue, m, 0)
                 /\ unacked' = unacked \ {m}
                 /\ UNCHANGED cells
              \/ /\ unacked \cap reply.ack = {} /\ retried = {}
                 /\ Earlier(m, unacked)
                 /\ queue' = MarkRejected(queue, m)
                 /\ unacked' = unacked \ {m}
                 /\ UNCHANGED cells
    /\ UNCHANGED <<cursor, up, mem, loaded, stage, claim, todo, reply, late, server, now, spent, adrift>>

\* setServerCursor comes last.
FinishAhead ==
    /\ Settling /\ unacked = {}
    /\ cursor' = reply.to + 1
    /\ EndRun
    /\ UNCHANGED <<queue, cells, up, mem, loaded, late, server, now, spent, adrift>>

Finish ==
    /\ Settling /\ unacked = {}
    /\ cursor' = reply.to
    /\ EndRun
    /\ UNCHANGED <<queue, cells, up, mem, loaded, late, server, now, spent, adrift>>

----------------------------------------------------------------------------
RunStep ==
    \/ RemapNext \/ Merge \/ Replace \/ SaveNext \/ BuryNext \/ Settle \/ Finish

Next ==
    \/ \E m \in Mutations :
          \/ \E operation \in Operations, id \in Ids : Mutate(m, operation, id)
          \/ UserRetries(m) \/ UserDiscards(m)
    \/ EnsureTable \/ SendRequest \/ HandleSync \/ HandleLate
    \/ \E id \in Ids, deleted \in BOOLEAN : ForeignWrite(id, deleted)
    \/ RunStep \/ PrimaryKeyBreaks \/ TransportFails \/ StatementFails \/ Crash \/ Restart

Spec == Init /\ [][Next]_vars

----------------------------------------------------------------------------
(***************************************************************************)
(* Properties                                                              *)
(***************************************************************************)
Pending(id) == \E m \in Queued(queue) : queue[m].record = id

\* The copy is what the server had of id after some number of changes, the stored
\* cursor's at least.
LevelWithServer(copy, id) == \E n \in cursor .. Len(log) : Shows(copy) = ServerShows(id, n)

\* The cursor never runs ahead: what lies before it has reached both memory and
\* the database and stays there, wherever the process dies or a statement
\* fails, and whether it came as changes or as a replacement.  Excepted are ids
\* with a queued mutation and ids adrift: a change was passed over for the sake
\* of a mutation that was then settled without one, or a rejected mutation was
\* discarded; and memory that lacks stored records since a mutate came before the
\* table was loaded.  It takes a device whose clock is not ahead of the server's.
CopiesFollowTheServer ==
    \A id \in Ids : ~Pending(id) /\ id \notin adrift =>
        /\ LevelWithServer(StoredRecord(id), id)
        /\ up /\ loaded = "whole" => LevelWithServer(mem[id], id)

\* The loops of mergePulledRecords leave what the conflict strategy makes of the
\* last usable record of each id, whatever else of the id the answer brings.
MergeIsTheLoop ==
    Merging =>
        Merged(LocalRecords, log, Positions, Protected, Strategy, AnswerTombstones)
            = MergePulledRecords(LocalRecords, log, Positions, Protected, Strategy,
                                 AnswerTombstones)

\* Whatever an answer brings, the record written by a mutation that was sent and
\* is not acknowledged stays as it is, in memory and in the database
\* (protectedIds), unless the batch also deletes the record or the server has
\* renamed it.  (What memory lacks, since it was written before the table was
\* loaded, may leave the database.)
SentWritesSurvive ==
    [][(Merge \/ Replace \/ SaveNext \/ BuryNext) =>
          \A id \in Protected \ (DeletedIds \cup reply.renames) :
             /\ mem'[id] = mem[id]
             /\ StoredRecord(id)' \in {StoredRecord(id), mem[id]}]_vars

\* A record that was deleted here comes back only by being created anew, by a
\* server record strictly newer than the tombstone, or by a replacement made
\* while the deletion was not part of the batch (loadStoredTombstones,
\* mergePulledRecords, resetTombstones).
DeletedStaysDeleted ==
    [][\A id \in Ids :
          IsTombstone(cells[Table][id]) /\ mem[id] = NoRecord /\ mem'[id] # NoRecord =>
             \/ \E m \in Mutations : Mutate(m, "CREATE", id)
             \/ mem'[id].updatedAt > cells[Table][id].updatedAt
             \/ Replace /\ id \notin DeletedIds]_vars

\* README.md:267: "persist merged data, remove ACKs, save cursor".  When a run has
\* stored the cursor, what its answer brought is in the database as in memory.
MergedDataIsPersisted ==
    [][Finish =>
          \A k \in Positions :
             LET id == log[k].id
             IN  id \notin Protected \cup adrift /\ ~Pending(id)
                    => Shows(StoredRecord(id)) = Shows(mem[id])]_vars

\* architecture.md:66: "The provider removes stale local rows, preserves
\* unacknowledged optimistic mutations and their delete tombstones."
ResetKeepsUnacknowledged ==
    [][Replace =>
          \A m \in Queued(queue) \ reply.ack :
             Shows(mem[queue[m].record]) = m => Shows(mem'[queue[m].record]) = m]_vars

\* README.md:227: "The provider remaps the persisted record, tombstone, root
\* mutation payload ID, and in-memory snapshot atomically per table before
\* continuing response processing."
RenamesGoThrough ==
    up /\ stage \in {"answered", "renaming"} =>
        \A from \in todo.rename : ~RemapBreaks(cells, Table, from, AssignedId[from])

\* architecture.md:56: "tombstones prevent deleted records from being
\* reintroduced."  A record that the server reported as deleted is not stored.
PulledDeletionsLast ==
    \A id \in Ids :
        /\ ~Pending(id) /\ id \notin adrift
        /\ \A n \in cursor .. Len(log) : ServerShows(id, n) = NoValue
        => ~IsLive(cells[Table][id])
=============================================================================
