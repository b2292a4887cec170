# Verification of react-native-nitro-sync

This directory holds TLA+ specifications of the sync library in this repository, the
configurations that check them with TLC, and theorems about them that the TLA+ proof system
checks.  Paths below are those of the repository (`src/` is the TypeScript library, `cpp/` the
native queue); `PROJECT.json` maps each definition to the lines it models.

- [The system](#the-system)
- [The modules](#the-modules)
- [What is checked](#what-is-checked)
- [What is proved](#what-is-proved)
- [Where code and documentation disagree](#where-code-and-documentation-disagree)
- [What is not modelled](#what-is-not-modelled)
- [Plan](#plan)

## The system

An app changes records through a hook.  Every change is written to a durable queue in SQLite
together with the changed record, and shown at once.  Sooner or later a *sync run* claims what
is due from the queue, sends it, table by table, through a transport the app supplies, drops what
the server acknowledged, keeps what it rejected for the user to decide, schedules the rest anew,
and merges the records the server returned.  The queue exists twice: in C++ behind a Nitro bridge
(the default) and in TypeScript on any SQLite driver.  Both issue the same statements.

### Inventory

**Durable queue** (`cpp/MutationQueue.cpp`).
State: tables `sync_queue` (status PENDING, SYNCING, FAILED or REJECTED, retry count, time of the
next retry, prerequisites) and `sync_records` (records and tombstones with the time of their last
write); whether the database is open.
Operations: `initialize`, `enqueue`, `applyMutation`, `claimPending`, `updateStatus`,
`retryRejected`, `discardRejected`, `remove`, `upsertRecord`, `deleteRecord`, `clearTombstone`,
`remapRecordId`, `replaceTable`.
Each holds a mutex and is one statement or one transaction.
Hard: any of several providers, hooks and late answers may call at any time; the clock may be set
back; ids are reused.
Correct if: a queued mutation never changes what it says; late writes never take back later ones;
collections do not reach into each other; a delay on a row has a reason.

**SQLite adapter** (`src/storage.ts`).
The same state and operations over a driver, plus device id, cursors and versions in a metadata
store.  Same correctness.

**Schema upgrade** (`initialize` in both implementations).
State: `PRAGMA user_version`, the columns of `sync_queue`, its rows, and a copy of it while
migration 3 replaces the table.
Hard: a crash between any two of its statements; databases of six earlier versions, and of later
ones.
Correct if: no queued work is lost, a database that opens is up to date, and none is left that
cannot be upgraded.

**Mutation state machine** (`src/stateMachine.ts`).
A pure function from a status and an event to a status.
Correct if: the queue and the run really move mutations this way.

**Sync run** (`sync` in `src/provider.tsx`).
State: the promise chain `syncChainRef`; per run the claimed batch, `unackedIds` (what no handler
has dealt with yet) and `tableErrors`; per table how far `processTable` is.
Operations: claim, set dependents aside, start workers, send, settle, two failure handlers.
Hard: every statement and every request may fail, in every table separately; the process may die
between two statements; a worker whose handler fails leaves its siblings running; a remounted
provider has a new chain while old requests are in flight.
Correct if: no mutation is left SYNCING without somebody responsible for it; nothing is dropped
that the server did not apply; runs end, the chain moves on, everything is eventually settled.

**Settlement** (`src/mutationSettlement.ts`).
Partitions a batch by the answer and issues the statements in a fixed order, stopping at the first
that fails.
Hard: answers that name ids of other batches, or one id twice.

**Table workers** (`src/tableWorkers.ts`).
A pool of `maxConcurrentTables` workers over the tables of a run.
Hard: a worker that rejects while the others go on.

**Merge** (`src/merge.ts`) and the pull half of `processTable`.
State: records in memory, cursors, versions, tombstones.
Operations: `resolveConflict`, `mergePulledRecords`; per answer: rename, check, merge, store or
replace, settle, store the cursor.
Hard: what is protected from being overwritten is computed from the claimed batch while the user
goes on working; records, tombstones, memory and cursor are written one after the other; ids
change under way; the times that one guard compares come from two clocks; memory is loaded table by
table, when a table is first used.
Correct if: optimistic changes survive until the server has them, and memory and database agree
after a restart.

**Wire protocol** (`src/protocol.ts`).
Validates and normalizes answers; an answer that does not pass is a failed request.

**Nitro bridge** (`cpp/NitroSync.cpp`, `src/native.ts`).
Converts between JSON and the queue's types, and owns one queue object.

**Hook** (`src/hooks/useSyncCollection.ts`).  Stateless access to the provider.

**Benchmark** (`src/benchmark.ts`).
Uses the app's own queue; whatever it claims beyond its own rows must be put back as it was.

**Background execution** (`android/…/NitroSyncWorker.kt`, `NitroSyncWorkScheduler.kt`,
`ios/NitroSyncBackgroundTask.swift`).
State: unique work, the headless task, its completion.

**Test server** (`tools/sync-test-server.cjs`).
State per table: a change log, whose length is the version, and the results of the mutations it has
processed.  It documents what a server may do with a mutation: apply it once, reject it, ask for a
retry, and lose its acknowledgement.

**Config plugin, build files, example app**, **generated bindings**, **type declarations**: not part
of the library's behaviour.

### How they interact

The hook calls the provider.  `mutate` calls `applyMutation` of the queue and then changes the
records in memory.  `sync` appends a run to the promise chain; polling, background events and the
user call it.  A run calls the queue (claim, status, remove, records), the transport, the merge and
the memory.  `initialize` runs on the first render and whenever the dependencies of its `useMemo`
change, and *recovers*: SYNCING rows become PENDING.  JavaScript runs one task at a time, so two
tasks only interleave at an `await`; the process may die anywhere.

## The modules

| module | models | extends |
|---|---|---|
| `QueueRows` | the statements on `sync_queue`, as functions from table to table | |
| `RecordCells` | the statements on `sync_records` | |
| `MergeAlgorithms` | `merge.ts`: conflict strategies, the merge of a pull | |
| `ChangeFeed` | the server's change log and what it answers from it | |
| `MutationQueue` | the queue under arbitrary callers | `QueueRows`, `RecordCells` |
| `MutationLifecycle` | abstract: what a mutation may go through | |
| `SyncEngine` | sync runs, provider, crashes; implements `MutationLifecycle` | `QueueRows` |
| `Replica` | one table on the device and on the server, composed of queue, records, merge and feed | `QueueRows`, `RecordCells`, `MergeAlgorithms`, `ChangeFeed` |
| `SchemaMigration` | `initialize` on databases of any version | |
| `QueueRowsProofs` | lemmas about the statements | `QueueRows`, TLAPS |
| `MutationQueueProofs`, `SyncEngineProofs`, `ReplicaProofs`, `SchemaMigrationProofs` | theorems about the module they are named for | the module and TLAPS |
| `LifecycleProofs` | that `SyncEngine` implements `MutationLifecycle` | `SyncEngineProofs` |
| `MergeProofs` | that `Merged` is what the loops of `merge.ts` leave | `ReplicaProofs` |
| `CopiesProofs` | that memory and database follow the server | `MergeProofs` |
| `MCMutationQueue`, `MCSyncEngine`, `MCReplica`, `MCSchemaMigration` | small instances for TLC | the module |

The control of a run is modelled twice, at two grains.  `SyncEngine` has every run, table, worker and
failure handler, and no data: a pull succeeds or fails.  `Replica` has one table and one run, and
everything the run reads and writes: records, tombstones, cursor, log.

### QueueRows and RecordCells

`queue[m]` is the row with id `m`, or `NoRow`.  One operator stands for one SQL statement:
`UpdateWhere` is an `UPDATE … WHERE id = ?`, which changes nothing when the row is gone, `Due` and
`IsClaim` are the `SELECT` of `listPendingMutations` (equal timestamps come in any order), and so
on.  `records[t][id]` is a row of `sync_records`; `Accepts` is the guard
`excluded.updated_at >= sync_records.updated_at`.  Payloads are model values; times are numbers;
retry delays are the real ones in seconds.  `RetryCap` bounds the retry counter only: the delay
does not grow after nine failures.

### MutationQueue

One action per public method, because every method holds the mutex and is one transaction.  The
caller is left open: every method may be called at any time with any argument, so what holds here
does not rely on the discipline of `provider.tsx`.  The clock may move either way
(`SetClock`).  A method that throws rolls back and is a stuttering step; `RemapBreaks` and
`ReplaceBreaks` are the two cases in which a primary key makes a statement throw.
`MarkOneSyncing` is `updateStatus(id, Syncing, false)`: the bridge offers it, though nothing in
`src/` calls it.

### SyncEngine

The state that survives a crash is `queue` and what the server has `applied`.  `outcome` is a
history variable: a mutation is NEW until `mutate`, QUEUED, and at last ACKED or DISCARDED.
For every run `r`:

| variable | in `sync` |
|---|---|
| `phase[r]` | where the body of `run()` is: setting dependents aside (`blocking`), awaiting the workers (`working`), in the outer `catch` (`catching`), returned while some of its workers still run (`detached`) |
| `claimed[r]`, `unacked[r]` | `claimed`, `unackedIds` |
| `workers[r]`, `failures[r]` | the pool of `runSyncTableWorkers`; `tableErrors` is not empty |
| `stage[r][t]` | `processTable(t)`: `todo`, `sent` (awaiting `pushAndPull`), `settling`, `failing` (its `catch`), `done` |
| `reply[r][t]` | the ids the answer acknowledges and rejects |
| `marking` | mutations the handler at work has yet to mark failed |

A task of the JavaScript thread is a sequence of actions, one per statement, because the process
can die and a statement can fail between any two.  `JSBusy` keeps other tasks out until the task
has ended at an `await`.  `StartRun` is the claim (one transaction), `Block` sets one dependent
aside, `SendTable` reaches the await of the transport, `DeliverAnswer` or `TransportFails` is what
comes of it, `Settle` is one statement of `settleSyncMutations`, `FailTable` one of the table's
`catch`, `OuterCatch` one of the run's.  `BlockFails`, `SettleFails`, `ClearTombstoneFails`,
`FailTableFails` and `OuterCatchFails` are the failing statements; the last two, a handler that
fails itself, happen only with `HandlersFail`.

The server and the network: an answer acknowledges any part of what was sent, rejects any part
of the rest, leaves the others out, and may name ids that were never sent to it (`Strays`).  What
is acknowledged has been applied.  A request that fails may have been applied in part, and so may
one in flight when the process dies.

`Crash` drops everything but `queue` and `applied`; `Restart` recovers.  `Reinitialize` is
`initialize` running again because the configuration changed, in the middle of runs.
`Remount` is a new provider with a new chain, while runs of the old one wait for their transport or
for their turn: `waiting[p]` and `onChain[p]` are the chain of the `p`-th provider, and the old
chains go on (`TakesTurn`), as promises do that nobody cancels.

Abstractions: mutations are issued in the order of `Stamp` (a constant), so records and drafts
carry no data here; a retry delay is either running or over (`BackoffElapses`); the merge of
pulled records and the writes it does are part of "the answer can be used" or "it fails".
A failing `setLastSyncedAt` at the end of a run changes nothing that is modelled: `unackedIds` is
empty then.  `mutate` returns the id of the record, so an app learns the ids of mutations,
which `dependsOn` names, through its transport or `rejectedMutations`; the model lets a mutation
depend on any that exists.

### MutationLifecycle

The transition function of `stateMachine.ts` and, around it, NEW, ACKED and DISCARDED and the
user's two answers to a rejection.  `SyncEngine` implements it (`Lifecycle == INSTANCE
MutationLifecycle WITH life <- StateOf`): the state of a mutation is the status of its row, or its
outcome when it has none.

### MergeAlgorithms and ChangeFeed

A record is its fields (one value) and its revision.  `ResolveConflict` has the four named
strategies; `MergePulledRecords` is `mergePulledRecords`, its loops as a recursive function over
the answer, and `Merged` is what they amount to for each id: the last usable record of the answer
against the local one.  `Replica` uses `Merged`, which says what an answer means for one record;
`MergeIsTheLoop` says that the two agree in every merge that `Replica` comes to.

`ChangeFeed` is the server's log.  A pull is the changes after a cursor; a replacement is the table
as it stands, with or without the tombstones of what was deleted.  `Revisions` says what the number
on a change is: the version of the table (`"counter"`, as in the test server and in the
example of `README.md`) or the time (`"clock"`).

### Replica

Durable are `queue`, `cells` (the rows of `sync_records`) and `cursor`; a crash loses the rest.

| variable | in the code |
|---|---|
| `mem` | `recordsRef.current[tableName]` |
| `loaded` | whether there is one: `absent`, `whole`, or `partial` when a `mutate` made it before the table was loaded |
| `stage` | where `processTable` is: `sent` (awaiting `pushAndPull`), `answered` (the answer is there and can still be lost), `renaming` (loop over `idMap`), `storing` (after the merge) |
| `claim`, `unacked` | `tableMutations` as they were claimed, `unackedIds` |
| `todo` | what the loops have left: ids to rename, records to save, tombstones to bury |
| `reply` | the answer, as positions in the log, acknowledgements, rejections and new ids |
| `late` | the rows of a request that was given up on and may still reach the server |
| `log`, `applied`, `refused` | the server: its log and `processedMutations` |
| `now` | the server's clock; what the device's clock may show is `Readings(now)`, anew at every local write |
| `spent`, `adrift` | use of the bounds; history, see `CopiesFollowTheServer` |

On the device: `EnsureTable` is `ensureTable`, which loads the stored records unless there is something
in memory already; `Mutate` is `mutate` (one transaction, then memory), and what it writes to a table
that is not loaded is all there is in memory of it (`Started`); `SendRequest` is the claim and the load
of a table that is not in memory, up to the await; `RemapNext` is one turn of the loop over `idMap`,
with memory after the last; `Merge` or `Replace` computes `merged` and `visibleMerged` and writes
memory, `Replace` after it has replaced the rows in one transaction; `SaveNext` and `BuryNext` are one
statement each of the loops that store records and tombstones (a record that the answer brings twice is
stored once, where it comes last: both turns of the loop store what memory shows); `Settle` is one
statement of the settlement, with `clearTombstone` behind the removal of an acknowledged deletion;
`Finish` is `setServerCursor`. `PrimaryKeyBreaks` is a rename onto an id that is taken, or a replacement
with an id among both its records and its tombstones: the statement throws and the batch is marked
failed. From the answer on the run is one JavaScript task, in which nothing of the app comes between,
and of which every statement may fail (`StatementFails`) or be the last before a `Crash`.

Two clocks meet in the guard of the upsert.  `mutate` reads `Date.now()` (`provider.tsx:617`); pulled
records are stored under the `serverTimestamp` of the answer (`provider.tsx:427-430`).  `ClockBehind`
and `ClockAhead` are the sets of what the device's clock may be behind and ahead; each local write
chooses anew, so that a clock that is corrected, or set back, is among the behaviours.

At the server: `HandleSync` applies some of what was sent, rejects some for good, asks for a retry
of the rest, and leaves any of the acknowledgements out; `HandleLate` does the same with an
abandoned request, possibly after its retry; `ForeignWrite` is another device.  The test server
does not replace tables and assigns no ids; those two follow what `README.md` says a server may do
(`resetRequired`, `idMap`), restricted to what is useful: an assigned id is nobody else's,
an answer repeats the new ids of everything in the batch that has been applied.

Abstractions: one run at a time (`SyncEngine` has several); everything that is due is claimed, and which
delays are over is open; an effect of React and the state it sets are one step; the server handles the
requests one at a time; the check of the schema version is part of the failures; mutations of one
millisecond may be ordered either way, as in SQL; and an application creates only records it does not
show, and changes and deletes only records it shows.

### SchemaMigration

One action per statement of `initialize` that changes `sync_queue`; `db` is what the connection
sees, `disk` what is committed.  `native` chooses between the two implementations, which differ
in the nesting of migration 6.  `Init` is no database, or one of versions 0 to 7 (7 is one of a
later release, which is refused) with any rows.  `Abort` is a crash, a failing statement or
a closed app, before any statement.

### Operators that no specification uses

`AcknowledgedAnyId`, `CatchLogsOnly`, `ReleaseChainOnSuccess`, `SaveMutationReplaces`,
`DueNeverFailed`, `RequeuedKeepingDelay`, `DiscardRejectedUnguarded`, `DiscardRejectedSoftly`,
`RecoverStuckNothing`, `RemapQueueAnyTable`, `AcceptsAlways`, `PendingNested`, `DropQueueAtOnce`,
`RenameCopyKeepingColumns`, `RecoveredByEvent`, `NewestLoses`, `LocalRecordsCleared`,
`ServerTombstonesOnly`, `ToBuryNothing` and `FinishAhead` are variants of the definitions next to
them, each with one plausible mistake.  `PROJECT.json` pairs every checked property with the variant that
violates it: a property that no mistake in the code can violate says nothing about the code.

## What is checked

| run | instance | states | shows |
|---|---|---|---|
| `queue` | 1 mutation, 2 tables, 2 record ids, clock 0..1 | 182 thousand | `TypeOK`, `DelayHasACause`, `QueuedContentIsFixed`, `LastWriterWins`, `OneTablePerStep` |
| `engine` | 3 mutations in 2 tables, one depends on another; no crash | 1.05 million | `TypeOK`, `SyncingIsOwned`, `AcknowledgedIsApplied`, `ImplementsLifecycle` |
| `handlers` | 1 mutation, 2 tables, failing handlers, 2 overlapping runs, 1 remount, also with a run waiting, 1 crash | 1.11 million | `SyncingIsOwned` |
| `live` | 2 mutations in 2 tables, one depends on the other, 1 crash, fairness | 58 thousand | `ImplementsLifecycle`, `SyncingEnds`, `ChainMovesOn`, `EventuallySettled` |
| `replica` | 2 mutations, 2 record ids of which the server assigns one, last-write-wins, revisions from the clock, a device clock one behind; 1 foreign write, 1 replacement, 1 failure, any two of them together | 774 thousand | `TypeOK`, `CopiesFollowTheServer`, `MergeIsTheLoop`, `SentWritesSurvive`, `DeletedStaysDeleted` |
| `schema` | 2 mutations, all versions, both implementations | 6 thousand | `TypeOK`, `OpensUpToDateButFrom5`, `NeverStuck`, `WorkIsPreserved` |
| `clock_ahead`, `dependents`, `reset`, `rename`, `tombstone`, `schema_v5` | see [below](#where-code-and-documentation-disagree) | | a statement of the documentation that the code does not keep |

What the properties say:

- `DelayHasACause`: a row that was not failed since it was queued, or since the user put it back,
  has no delay left: it goes out with the next sync.
- `QueuedContentIsFixed`: a resend after a lost acknowledgement, a second enqueue under the same id,
  a retry or a recovery carries the mutation the server may already have applied; only a new id
  issued by the server changes the record it names, and moves the record with it.
- `LastWriterWins`: outside a replacement of the table and a change of id, only a later or
  simultaneous write overwrites a record, and only a tombstone disappears.
- `OneTablePerStep`: no call changes records of two tables, or queued mutations of another one.
- `SyncingIsOwned`: every SYNCING mutation is in the hands of a run that will still settle it, put
  it back or mark it failed.  The exception, and the only one, is what an outer `catch` gave up on
  because its own statement failed (`stranded`); the next `initialize` recovers it.
- `AcknowledgedIsApplied`: a mutation is dropped as acknowledged only if the server has applied it.
- `ImplementsLifecycle`: every step moves every mutation along `stateMachine.ts`; only the user
  moves one out of REJECTED, and none is dropped without an acknowledgement or a
  discarded rejection.
- `SyncingEnds`, `ChainMovesOn`: no mutation stays SYNCING for ever, no run holds the chain for ever.
- `EventuallySettled`: every mutation is acknowledged, discarded or rejected in the end, if the
  world does its part.
- `CopiesFollowTheServer`: a record that no queued mutation touches shows, in memory and in the
  database, what the server had at some point at or after the stored cursor.  So a pull that is
  interrupted, by whatever, is repeated and never skipped, and what was pulled once stays.  It takes a
  device clock that is never ahead of the server's: `clock_ahead` is the counterexample for one that
  is.  Of memory it speaks only where the table was loaded whole: after a `mutate` that came before
  the load, other stored records are out of memory until a restart or a replacement.  Ids in
  `adrift` are excepted, and there are three ways to get there, all in the code and
  in the list of hazards: a change was passed over because a mutation protected the record, and the
  mutation was then settled without a change to pull (`PassedOver`); a rejected mutation was
  discarded, and its row or tombstone has a later time than the changes that arrive (`Levelled` ends
  it); the answer to a creation was lost and its record pulled under its new id before the rename
  (`Ghost`).
- `MergeIsTheLoop`: the loops of `mergePulledRecords` leave what the strategy makes of the last
  usable record of each id, whatever else of the id the answer brings.
- `SentWritesSurvive`: an answer does not touch the record of a mutation that was sent and is not
  acknowledged.
- `DeletedStaysDeleted`: a record deleted here comes back only by being created, by a strictly newer
  record of the server, or by a replacement while its deletion is not in the batch.
- `OpensUpToDateButFrom5`, `NeverStuck`, `WorkIsPreserved`: see the schema upgrade in the inventory.

### The bounds, and why they are enough

- *Mutations, tables.*  No statement looks at two rows of the queue at once except the claim (a
  set, an order and a limit) and the dependents of a batch.  Three mutations with one
  dependency, two of them in one table and one in another, make every pair of roles meet: two in
  one batch, two in two batches of one run, prerequisite inside and outside the claim.  In `queue`,
  one mutation and two record ids are enough for every property: each of them compares one row
  with itself.
- *Clock.*  `queue` compares two times with each other; two values order them both ways, with ties, and
  the clock goes back and forth between them.  The first delay is one second: what fails at 0 is
  due again at 1, and what fails at 1 never is.  The theorems cover any clock.
- *`Replica`.*  In `replica`, `ClockBehind = {1}`, `ClockAhead = {}` and `Ticks = {0}`: the device is one
  behind the server, whose clock moves with every change it makes.  Two local writes then differ by
  as much as the server did between them, and a local write is earlier than the row of the last pull,
  or as late, or later, by what other devices have done since.  With `ClockAhead = {0}` besides, each
  local write may also show the server's time; TLC finished this instance, of 2.49 million states,
  without a violation, but in more time than a run should take.  `Epoch` is
  where the server starts; in `tombstone` it is ahead of the server's counter, as a clock in
  milliseconds is.  In `clock_ahead` the device is three ahead.
  `MaxForeign`, `MaxResets` and `MaxFailures` bound the writes of other devices, the replacements
  and the faults, and `MaxTogether` all of them taken together.  Two mutations make the pairs that
  matter: create and change, create and delete, delete and create anew, in one batch and in
  two.  The record ids are a temporary one and the one it is replaced with.
- *`Limit` is 100 in all runs of the engine*, as in the code.  It does not cut a claim with two or
  three mutations.  `EventuallySettled` thus shows that backoff, prerequisites and faults do not
  starve a mutation; it says nothing about a queue of more than a hundred.
- *Runs, remounts.*  Runs overlap in two ways: through a failing handler and through a remount.
  `handlers` has both with two runs; the theorem about `SyncingIsOwned` covers any number.
- *Crashes.*  One crash is enough for `handlers` to crash overlapping runs, for the liveness
  properties to see a recovered queue, and for `replica` to lose memory between any two statements.
- *`MaxWaiting` = 1*: runs wait on the chain with nothing but their turn.
- *`RetryCap`* is 0 where retry counts do not matter (the delay is then a flag), 1 in `queue`,
  where a row that failed has to be told from one that did not.

`RunSymmetry` (`handlers`) and `MutationSymmetry` (`replica`) permute model values that no definition
tells apart; neither run checks liveness.  Deadlock is checked in
every run.

### Fairness

`RunFairness` assumes what the platform provides: the JavaScript engine runs a task it has begun to
its end and comes back to tasks that wait (`WF` of the steps of a run), a request is answered or
fails at last (`WF` of `TransportFails \/ DeliverAnswer`: either will do), and an app that died is
started again (`WF` of `Restart`).  The second is an assumption about the *transport*: the
library adds no timeout of its own, and a request that never ends holds the chain and every later
sync.  `SyncingEnds` and `ChainMovesOn` need no more than this.

`EventuallySettled` has a premise, `DeliveryFairness`: the app keeps polling, time passes, the
claim and the setting aside of dependents succeed again and again when tried again and again, a
network that is tried again and again delivers *some* batch and its acknowledgements again and again,
and so are acknowledgements settled.  It does not name the mutation: that every single one gets
through is the conclusion, and TLC finds a counterexample when any of these parts is left out.
Nothing is assumed of the faults in between, of the user or of what other answers say.  Without the
strong fairness of `SetsAside`, for instance, the batch of a dependent can fail to be set aside for
ever and mark the prerequisite failed every time.

## What is proved

Theorems hold for every value of the constants that satisfies the named assumptions
(`StoreAssumption`, `EngineAssumption`, `ReplicaAssumption`, `NothingAssumption`, `SchemaAssumption`,
which TLC evaluates in every run of their module): any number of mutations, tables, records,
dependencies, runs, foreign writes, replacements, failures, crashes and remounts, any strategy, and
either kind of revision.  Two theorems, `CopiesFollow` and `DeletionsLastUnderNewId`, assume `Setting`
besides: revisions are times, the clock of the device is never ahead of the server's (it may be behind by
anything, differently at each write), the strategy is not `client-wins`, and the server has an id of
its own for one record at most.  The instance of the `replica` run is one of those.

| theorem | in | property |
|---|---|---|
| `TypeCorrect` | `MutationQueueProofs` | `TypeOK` |
| `DelaysHaveCauses` | `MutationQueueProofs` | `DelayHasACause` |
| `StoreIsLastWriterWins` | `MutationQueueProofs` | `LastWriterWins` |
| `ContentIsFixed` | `MutationQueueProofs` | `QueuedContentIsFixed` |
| `TablesAreApart` | `MutationQueueProofs` | `OneTablePerStep`, if there is a table |
| `TypeCorrect` | `SyncEngineProofs` | `TypeOK` |
| `NothingLeftSyncing` | `SyncEngineProofs` | `SyncingIsOwned` |
| `OnlyAppliedIsAcknowledged` | `SyncEngineProofs` | `AcknowledgedIsApplied` |
| `RunImplementsLifecycle` | `LifecycleProofs` | `ImplementsLifecycle`, under `OneProvider` |
| `TypeCorrect` | `ReplicaProofs` | `TypeOK` |
| `UnacknowledgedWritesSurvive` | `ReplicaProofs` | `SentWritesSurvive` |
| `DeletionsLast` | `ReplicaProofs` | `DeletedStaysDeleted`, if the server keeps the ids devices make |
| `LoopsMerge` | `MergeProofs` | `MergeIsTheLoop` |
| `CopiesFollow` | `CopiesProofs` | `CopiesFollowTheServer`, under `Setting` |
| `DeletionsLastUnderNewId` | `CopiesProofs` | `DeletedStaysDeleted`, under `Setting` |
| `TypeCorrect` | `SchemaMigrationProofs` | `TypeOK` |
| `OpensUpToDateOtherwise` | `SchemaMigrationProofs` | `OpensUpToDateButFrom5` |
| `AlwaysUpgradable` | `SchemaMigrationProofs` | `NeverStuck` |
| `NothingIsLost` | `SchemaMigrationProofs` | `WorkIsPreserved` |

`QueueRowsProofs` has the lemmas about the statements: what each preserves of the type, and that
no statement but the claim makes a row SYNCING.

*The store.*  `DelayHasACause` is inductive with `TypeOK`; it needs `RetryCap > 0`, without which
a failed row would look unfailed.  The action properties follow from `TypeOK` step by step:
every upsert and every deletion is a `Put` behind `Accepts`, and every statement on the queue
either removes a row, adds one, or keeps its content (`CallsKeepMutations`), and every statement on the
records writes one table (`RecordsOfOneTable`).

*Nothing is left SYNCING.*  `SyncingIsOwned` is not inductive: that a run ends without owing
anything depends on the bookkeeping of its tables.  The strengthening `Bookkeeping` says

- `UnackedIsClaimed`: `unackedIds` comes from the claim and only shrinks;
- `OneTask`: at most one run, or one table of one run, is inside a task, so what a handler marks is
  its own and no answer is settled in the middle of a `catch`;
- `ClaimedIsPlanned`: before the workers start, every claimed mutation's table waits for one;
- `UnackedIsWorkedOn`: while they work, what is unsettled belongs to a table that is still worked
  on, or a table has failed and the run will end in the outer `catch`.

With it, a run that returns without an error owes nothing (`EndRun`); one with an error hands
everything it owes to `marking`; and a handler that fails puts what it owes into `stranded`.

*Acknowledged is applied.*  The strengthening `AnswersAreTrue` says that while an answer is
settled, what it acknowledges *of its own batch* is applied; it rests on the intersection with
the batch in `partitionSyncMutations`, and on the batch of a run being fixed while it runs.

*The lifecycle.*  With one provider and no failing handler (`OneProvider`), the run implements
`MutationLifecycle`.  On top of `Bookkeeping` the strengthening `Orderly` says

- `Tracked`: a mutation has a row exactly while its outcome is open, without which `StateOf` could jump
  when a row goes;
- `OneRun`: one run at a time, which owes nothing once it is over;
- `MarkingHasHandler`: only a handler at work has something to mark;
- `InHandIsDelivering`: what a run or a handler has yet to settle is not REJECTED, so that marking it
  failed or putting it back is a step of `stateMachine.ts`.

The assumption is needed.  After a remount a second provider may get a mutation rejected that the
first still has in flight; when the request of the first then fails, its handler moves the mutation
from REJECTED to FAILED.

*The copies.*  The invariant of `Replica` is the type of each part of its state, `MemoryOK` and
`AnswerInHand`.  `MemoryOK` says that a table that is not in memory shows nothing and that no run is at
work on it; `AnswerInHand`, that while rows are stored, what is left to save or to bury belongs to the
answer and to no protected id.  The latter is what makes `SentWritesSurvive` true of `SaveNext` and
`BuryNext`, which do not look at `protectedIds` any more, and what makes their timestamps numbers.
`DeletedStaysDeleted` rests on `MergeRespectsTombstones`: a merge shows a record anew only if it is
usable, and then it is strictly newer than the stored tombstone, for each of the strategies.  A rename,
too, can show a record under an id that has a tombstone (`OnlyRenamesBringBack`).  Where the server
assigns no ids there is no rename.  Under `Setting`, `TemporaryStored` excludes it: what memory shows
under an id that the server replaces has a row under it, so a rename onto a tombstone breaks the primary
key and does not happen.

*The loops of the merge.*  `MergePulledRecords` is a recursive function over the prefixes of an
answer, and `LoopIsUnique` shows that its equation has one solution.  Neither this nor the claim
itself needs induction over data: the set of prefixes for which it holds contains 0 and, with each
number, the next, and a set that does not contain them all would lack a least one (`Counting`).
`Merged` over a prefix solves the equation because one more usable record is one more turn of the
loop (`OneMore`): the last usable record wins, but under `client-wins`, where the first one does.
For last-write-wins this needs that no record comes after one with a later revision, which is an
invariant of the server's log (`LogIsInTime`), for times and for counters.

*The copies follow the server.*  `Ground` collects what is true of the mutations, the answer and the
rows:

- `Named`, `SameMutation`: what was sent is still queued or the server has dealt with it, what it has
  applied is in its log, and a mutation is of the same record wherever it is met, in the queue, the
  claimed batch, a late request and the log, up to the id the server gave that record;
- `AnswerFits`, `BatchQueued`, `RenamedAway`: the answer at work begins at the cursor, covers the changes up
  to its time, and among them all it acknowledges or renames; until it is merged the batch
  is queued as it was claimed, and nothing is queued under an id that it has renamed;
- `QueueTimes`, `RowTimes`, `Newcomers`, `NewRows`: nothing carries a time of the server's future; a
  mutation made after the answer is not on its way, and a row newer than the answer is of such a
  mutation;
- `AllKnown`, `SavesNews`: the revision of a record in memory or in a row is of a change the device
  can know, or there is none, and what is left to save is not suppressed by a tombstone.

On top of it `CopyInv` gives each copy a *horizon*, the number of changes it has: that of memory is the end
of the answer from the merge on (`MemFollows`), that of a row from the statement that writes it
(`RowFollows`), and both are the cursor otherwise, so that an interrupted run falls back to what was
stored.  `LateRows` is what makes this inductive: a row whose time is at or after a change
that the cursor has not passed is the one the guard of the upsert will keep, so it must
show that change already or wait for a mutation beyond it.  `ChangesLeft` says the same of what
is still to be stored.  What is in `adrift` is excepted throughout.

Each part of `Setting` is needed.

- With counters the guard compares a time with a number: `tombstone` is a counterexample.
- `client-wins` keeps the local record against every change, also one that the server applied after
  it; the copy then shows what the server no longer has, by intention.
- When an answer renames two records, memory is behind the rows between the two, and stays so
  if the second statement fails; see the observations [below](#where-code-and-documentation-disagree).
  `Setting` is narrower than that: it has one such record in all, not one in each answer.
- When the device is ahead, the row of an acknowledged local write has a time of the future, and the guard
  refuses what the server changes after it: `clock_ahead`.  Being behind does no such harm: the
  guard then refuses the local row, and what the server makes of the mutation is pulled after it.

*The upgrade.*  `Progress` relates what is committed (`disk`), what the connection sees (`db`) and how
far `initialize` is: `Shape` gives the columns that belong to a committed version, `Between` says that
during a migration the rows are in the table or in its copy.  The three
properties follow from it; the case of version 5 is carried along as its own disjunct.

TLC agrees with `Bookkeeping`, `AnswersAreTrue`, `Orderly`, `MemoryOK`, `AnswerInHand`, `Ground` and
`CopyInv` on small instances of their modules.

*Only model-checked:* liveness (`SyncingEnds`, `ChainMovesOn`, `EventuallySettled`: fairness and `ENABLED`
are out of reach of the prover).  Not claimed, neither by a run nor by a theorem: `CopiesFollowTheServer`
outside `Setting`; `DeletedStaysDeleted` outside `Setting` where the server has ids of its own
(where it has none, `DeletionsLast` covers every strategy and either kind of revision);
`ImplementsLifecycle` with a remount or failing handlers.

## Where code and documentation disagree

Six runs show a statement of the repository that the code does not keep; each run checks only it.

1. `schema_v5` (`OpensUpToDate`): in `src/storage.ts:242` the block of migration 6 is inside the
   block of migration 5.  A database that is at version 5, from a release or from a
   crash between the two commits, opens without the column `depends_on`, and every enqueue and
   claim fails from then on.  `cpp/MutationQueue.cpp` has the blocks side by side.
2. `dependents` (`DependentsWait`): `README.md:191` says that "dependent mutations remain queued
   until their prerequisites are no longer pending".  Prerequisites are looked for in the claimed
   batch only; one that waits for its delay, is in another table of a table-scoped sync or
   is set aside itself does not hold anything back.
3. `clock_ahead` (`MergedDataIsPersisted`): `README.md:267` has a run "persist merged data, remove ACKs,
   save cursor".  A local write is stored under the clock of the device (`provider.tsx:617`), a pulled
   record under `serverTimestamp` (`provider.tsx:427-430`).  If the device is ahead, the row of
   a write that was acknowledged long ago refuses the next change that another device makes
   (`storage.ts:448`, and the same statement in `cpp/MutationQueue.cpp`): it is shown, it is not
   stored, the cursor moves past it, and a restart brings the old record back, until a change
   comes that is later than that row.
4. `reset` (`ResetKeepsUnacknowledged`): `architecture.md:66` says that a replacement "preserves
   unacknowledged optimistic mutations".  `protectedIds` (`provider.tsx:393`) come from the claimed
   batch: a mutation enqueued while the request was in flight is not in it, and its record is dropped
   from memory and from the database, while the mutation stays queued.
5. `rename` (`RenamesGoThrough`): `README.md:227` says that the provider remaps a record before it goes
   on with the answer.  If the answer to the creation was lost and a pull has brought the record
   under its server id since, the new id is taken, the primary key breaks, and the sync of this table
   fails, now and on every retry.
6. `tombstone` (`PulledDeletionsLast`): `architecture.md:56` says that tombstones prevent deleted records
   from being reintroduced.  Pulled records are stored under the server's clock, pulled tombstones
   under their own revision.  Where revisions are counters, as in the example of `README.md`, the
   guard of the upsert refuses the tombstone: the record is gone from memory, stays in the
   database, and is back after a restart, behind the cursor.

Five more observations have no run.  Where the clock of the device is *behind* (or was set back), the
guard refuses the row of a local write over a record that was pulled under a later `serverTimestamp`.
`architecture.md:46` says that `applyMutation` "persists the current record or deletion tombstone"; here
it enqueues the mutation only, and a restart shows the record without the write until the write is
acknowledged and pulled.  A `mutate` that runs before its table is ensured works on an empty snapshot
(`provider.tsx:621`) and leaves it as the table, which `ensureTable` then finds and does not load: the
other stored records are not shown until a restart, where `architecture.md:81` has rendered data "loaded
from persistence when a table is ensured".  A failed table is marked failed by its own `catch` and again
by that of the run, since `failSyncMutations` leaves `unackedIds` as it is, so the first delay is two
seconds where `architecture.md` gives one.  The late failure of a request of an unmounted provider can
move a mutation from REJECTED to FAILED, as said above.  And when an answer renames two records, row and
memory are not remapped "atomically per table" (`README.md:227`): `remapRecordId` commits each rename on
its own, while `recordsRef` is assigned after the loop (`provider.tsx:344`).  If the statement for the
second record fails, memory keeps the first under the id that its row and its mutations no longer have,
until a later answer repeats the `idMap`; what the app changes in between is written and sent under the
old id. `Replica` has this behaviour (`RemapNext`, `StatementFails`); with two ids of the server's own
TLC comes to it, and to a violation of `CopiesFollowTheServer`, in six steps.

## What is not modelled

- An answer without `serverTimestamp`, which the protocol allows and the device fills in from its
  own clock (`protocol.ts:201`, `provider.tsx:359`); `Replica` has the server supply it, as the test
  server does.
- The conversions: JSON, parsing and validation of requests and answers (`protocol.ts`), SQL text.  An
  answer that does not validate is `TransportFails`; a request that does not is a request that never
  gets through.
- A custom conflict resolver: any function of the app.
- Several tables of one run together with their data: `SyncEngine` has the tables, `Replica` the data.
  A queue of more than a hundred mutations, whose claim the limit cuts.
- The replacement of the queue object by the bridge's `initialize`, and threads that call an object
  that was replaced.
- Background execution (the schedulers of Android and iOS decide), the benchmark (its calls are actions
  of `MutationQueue`; that it gives back what it borrowed is not stated), hook, plugin,
  example app, generated code.
- What the provider shows of itself: `status`, `error`, `lastSyncedAt`.
- The device id: a single value that nothing else depends on.

## Plan

The modules above were written in this order: what loses queued work, what leaves it stuck, what
loses records.  What would come next:

1. A device clock that is ahead, in `CopiesFollow`: which records it leaves behind, and until when.
2. `CopiesFollow` for servers with ids of their own for any number of records, one in each
   answer; today `Setting` has one in all.
3. An abstract specification of `Replica`, a copy of the server's records overlaid with the queued
   mutations, once the code protects what is queued and not only what was claimed: today `reset`
   is a counterexample to it.
4. Two tables in `Replica`, with a prerequisite across them.
5. A claim that the limit cuts, in `SyncEngine`, for the starvation of mutations beyond it.
6. `Benchmark` as a caller of `MutationQueue`, against "what was borrowed is given back".
7. `BackgroundWork`: unique work with KEEP, the headless task and its completion.
