----------------------------- MODULE SyncEngine -----------------------------
(***************************************************************************)
(* The sync run of NitroSyncProvider (src/provider.tsx, sync): it claims a *)
(* batch from the durable queue, sets mutations aside whose prerequisites  *)
(* are in the same batch, sends every table's share through the transport, *)
(* settles what the answers say and marks the rest failed.                 *)
(*                                                                         *)
(* JavaScript runs one task at a time.  A task here is a sequence of       *)
(* steps, one per statement sent to the queue, because the process can die *)
(* between two statements and any statement can fail; JSBusy keeps other   *)
(* tasks out until the task ends at an await.  The server, the network and *)
(* the passing of time interleave with everything.                         *)
(*                                                                         *)
(* Two kinds of failure are parameters: HandlersFail lets a statement of a *)
(* failure handler fail as well (a full disk), MaxRemounts lets the        *)
(* provider be unmounted and mounted anew, with a new promise chain, while *)
(* a run of the old one waits for its transport and others are queued      *)
(* behind it, which go on.                                                 *)
(*                                                                         *)
(* AcknowledgedAnyId, CatchLogsOnly and ReleaseChainOnSuccess are the code *)
(* with a mistake in it, to see that the properties notice it.             *)
(***************************************************************************)
EXTENDS QueueRows

CONSTANTS
    Mutations, Tables,
    TableOf,               \* the table of each mutation
    DependsOn,             \* the prerequisites of each mutation
    Stamp,                 \* the timestamp of each mutation
    Limit,                 \* claim limit (100 in the code)
    MaxConcurrentTables,   \* config.maxConcurrentTables
    Requests,              \* what sync() is called for: all the tables, or one
    Runs,                  \* runs that may overlap
    NoRun,                 \* "the chain is not running anything"
    HandlersFail,
    MaxRemounts,           \* bound on remounts
    Strays,                \* mutations an answer may name without having been sent them
    MaxCrashes,            \* bound on crashes
    MaxWaiting             \* bound on the runs queued on a chain

ASSUME EngineAssumption ==
    /\ IsFiniteSet(Tables)
    /\ TableOf \in [Mutations -> Tables]
    /\ DependsOn \in [Mutations -> SUBSET Mutations]
    /\ Stamp \in [Mutations -> Nat]
    /\ Limit \in Nat \ {0}
    /\ MaxConcurrentTables \in Nat \ {0}
    /\ NoRun \notin Runs
    /\ Requests \subseteq {Tables} \cup {{t} : t \in Tables}
    /\ Strays \subseteq Mutations
    /\ HandlersFail \in BOOLEAN
    /\ MaxRemounts \in Nat /\ MaxCrashes \in Nat /\ MaxWaiting \in Nat
    /\ RetryCap \in Nat
    /\ NoRow \notin RowOf(Tables, Mutations, Mutations)

VARIABLES
    \* what survives a crash
    queue,       \* the sync_queue table
    applied,     \* the mutations the server has applied
    outcome,     \* history: how far each mutation got
    \* the provider
    mounted,     \* the provider is initialized
    waiting,     \* runs queued on syncChainRef, for every provider there was
    onChain,     \* the run its chain waits for, for every provider
    remounts,    \* remounts so far: the provider that is mounted
    crashes,     \* crashes so far
    \* the runs
    phase,       \* what the body of run() is doing
    claimed,     \* claimed
    unacked,     \* unackedIds
    workers,     \* workers of runSyncTableWorkers still alive
    failures,    \* tableErrors is not empty
    stage,       \* how far processTable is with each table
    reply,       \* the answer to each table's request
    marking,     \* mutations the failure handler at work has yet to mark
    stranded     \* history: mutations a failing handler gave up on

runVars == <<phase, claimed, unacked, workers, failures, stage, reply, marking>>
providerVars == <<mounted, waiting, onChain, remounts, crashes>>
vars == <<queue, applied, outcome, providerVars, runVars, stranded>>

\* One provider after the other, each with a chain of its own.
Providers == 0 .. MaxRemounts

Phases == {"free", "blocking", "working", "catching", "detached"}

Stages == {"none", "todo", "sent", "settling", "failing", "done"}

NoReply == [ack |-> {}, reject |-> {}]

TypeOK ==
    /\ queue \in QueueOf(Tables, Mutations, Mutations)
    /\ applied \subseteq Mutations
    /\ outcome \in [Mutations -> {"NEW", "QUEUED", "ACKED", "DISCARDED"}]
    /\ mounted \in BOOLEAN
    /\ waiting \in [Providers -> 0 .. MaxWaiting]
    /\ onChain \in [Providers -> Runs \cup {NoRun}]
    /\ remounts \in 0 .. MaxRemounts
    /\ crashes \in 0 .. MaxCrashes
    /\ phase \in [Runs -> Phases]
    /\ claimed \in [Runs -> SUBSET Mutations]
    /\ unacked \in [Runs -> SUBSET Mutations]
    /\ workers \in [Runs -> Nat]
    /\ failures \in [Runs -> BOOLEAN]
    /\ stage \in [Runs -> [Tables -> Stages]]
    /\ reply \in [Runs -> [Tables -> [ack: SUBSET Mutations, reject: SUBSET Mutations]]]
    /\ marking \subseteq Mutations
    /\ stranded \subseteq Mutations

----------------------------------------------------------------------------
\* The mutation of a set a loop over the claimed mutations comes to next: they
\* are in the order of their timestamps.
IsNext(m, S) == m \in S /\ \A other \in S : Stamp[m] <= Stamp[other]

\* blockedIds: their prerequisites are in the same batch.
Blocked(r) == {m \in claimed[r] : DependsOn[m] \cap claimed[r] # {}}

\* grouped, without the blocked mutations: what is sent for table t.
Batch(r, t) == {m \in claimed[r] \ Blocked(r) : TableOf[m] = t}

InStage(r, stages) == {t \in Tables : stage[r][t] \in stages}

\* A worker is free to call processTable for its next table.
CanSend(r) ==
    /\ phase[r] \in {"working", "detached"}
    /\ InStage(r, {"todo"}) # {}
    /\ workers[r] > Cardinality(InStage(r, {"sent"}))

\* Run r is between two statements of one task.
InTask(r) ==
    phase[r] \in {"blocking", "catching"} \/ InStage(r, {"settling", "failing"}) # {}

Uninterrupted == \A r \in Runs : ~InTask(r)

JSBusy == ~Uninterrupted \/ \E r \in Runs : CanSend(r)

\* A new task of the JavaScript thread starts.
NewTask == mounted /\ ~JSBusy

\* partitionSyncMutations: only ids of the batch count, and an acknowledgement
\* outweighs a rejection.
AcknowledgedAnyId(r, t) == unacked[r] \cap reply[r][t].ack

Acknowledged(r, t) == Batch(r, t) \cap reply[r][t].ack

Rejected(r, t) == (Batch(r, t) \cap reply[r][t].reject) \ Acknowledged(r, t)

Unacknowledged(r, t) == Batch(r, t) \ (Acknowledged(r, t) \cup Rejected(r, t))

----------------------------------------------------------------------------
Init ==
    /\ queue = [m \in Mutations |-> NoRow]
    /\ applied = {}
    /\ outcome = [m \in Mutations |-> "NEW"]
    /\ mounted = TRUE
    /\ waiting = [p \in Providers |-> 0]
    /\ onChain = [p \in Providers |-> NoRun]
    /\ remounts = 0
    /\ crashes = 0
    /\ phase = [r \in Runs |-> "free"]
    /\ claimed = [r \in Runs |-> {}]
    /\ unacked = [r \in Runs |-> {}]
    /\ workers = [r \in Runs |-> 0]
    /\ failures = [r \in Runs |-> FALSE]
    /\ stage = [r \in Runs |-> [t \in Tables |-> "none"]]
    /\ reply = [r \in Runs |-> [t \in Tables |-> NoReply]]
    /\ marking = {}
    /\ stranded = {}

----------------------------------------------------------------------------
(***************************************************************************)
(* The application                                                         *)
(***************************************************************************)
Draft(m) ==
    [table |-> TableOf[m], record |-> m, operation |-> "UPDATE", dependsOn |-> DependsOn[m]]

\* mutate: the prerequisites named are mutations that exist.
Mutate(m) ==
    /\ outcome[m] = "NEW"
    /\ NewTask
    /\ \A d \in DependsOn[m] : outcome[d] # "NEW"
    /\ queue' = SaveMutation(queue, m, FreshRow(Draft(m), Stamp[m]))
    /\ outcome' = [outcome EXCEPT ![m] = "QUEUED"]
    /\ UNCHANGED <<applied, providerVars, runVars, stranded>>

\* sync(): polling, a refresh, a background event.
RequestSync ==
    /\ waiting[remounts] < MaxWaiting
    /\ NewTask
    /\ waiting' = [waiting EXCEPT ![remounts] = @ + 1]
    /\ UNCHANGED <<queue, applied, outcome, mounted, onChain, remounts, crashes,
                   runVars, stranded>>

\* retryRejected(id) and discardRejected(id) from a list of rejections that may
\* be older than the queue.
UserRetries(m) ==
    /\ outcome[m] # "NEW"
    /\ NewTask
    /\ queue' = RetryRejected(queue, m)
    /\ UNCHANGED <<applied, outcome, providerVars, runVars, stranded>>

UserDiscards(m) ==
    /\ outcome[m] # "NEW"
    /\ NewTask
    /\ queue' = DiscardRejected(queue, m)
    /\ outcome' = [outcome EXCEPT ![m] =
                      IF queue[m] # NoRow /\ queue'[m] = NoRow THEN "DISCARDED" ELSE @]
    /\ UNCHANGED <<applied, providerVars, runVars, stranded>>

----------------------------------------------------------------------------
(***************************************************************************)
(* The run                                                                 *)
(***************************************************************************)
\* The next run of a chain, which may be that of a provider that was unmounted.
TakesTurn(p) ==
    /\ waiting[p] > 0
    /\ onChain[p] = NoRun
    /\ waiting' = [waiting EXCEPT ![p] = @ - 1]

\* Every loop of the run starts here: claim, fill unackedIds, and choose the
\* tables.  Without a requested table these are the tables with claimed
\* mutations and any other table in memory.
StartRun(r, requested) ==
    /\ NewTask
    /\ phase[r] = "free"
    /\ \E p \in Providers : TakesTurn(p) /\ onChain' = [onChain EXCEPT ![p] = r]
    /\ \E S \in SUBSET Due(queue, 0, requested), loaded \in SUBSET requested :
          /\ IsClaim(S, queue, 0, requested, Limit)
          /\ {TableOf[m] : m \in S} \subseteq loaded
          /\ requested # Tables => loaded = requested
          /\ queue' = MarkSyncing(queue, S)
          /\ claimed' = [claimed EXCEPT ![r] = S]
          /\ unacked' = [unacked EXCEPT ![r] = S]
          /\ stage' = [stage EXCEPT ![r] =
                          [t \in Tables |-> IF t \in loaded THEN "todo" ELSE "none"]]
          /\ workers' = [workers EXCEPT ![r] =
                            IF MaxConcurrentTables < Cardinality(loaded)
                            THEN MaxConcurrentTables ELSE Cardinality(loaded)]
    /\ phase' = [phase EXCEPT ![r] = "blocking"]
    /\ UNCHANGED <<applied, outcome, mounted, remounts, crashes, failures, reply,
                   marking, stranded>>

\* The claim itself fails: it rolls back, and the run ends with an error.
ClaimFails ==
    /\ NewTask
    /\ \E p \in Providers : TakesTurn(p)
    /\ UNCHANGED <<queue, applied, outcome, mounted, onChain, remounts, crashes,
                   runVars, stranded>>

\* The outer catch takes over: claimed mutations still in unackedIds.
CatchLogsOnly(r) ==
    /\ phase' = [phase EXCEPT ![r] = "catching"]
    /\ marking' = {}

Catch(r) ==
    /\ phase' = [phase EXCEPT ![r] = "catching"]
    /\ marking' = claimed[r] \cap unacked[r]

Block(r) ==
    /\ phase[r] = "blocking"
    /\ \E m \in Mutations :
          /\ IsNext(m, Blocked(r) \cap unacked[r])
          /\ queue' = MarkPending(queue, m)
          /\ unacked' = [unacked EXCEPT ![r] = @ \ {m}]
    /\ UNCHANGED <<applied, outcome, providerVars, phase, claimed, workers, failures,
                   stage, reply, marking, stranded>>

BlockFails(r) ==
    /\ phase[r] = "blocking"
    /\ Blocked(r) \cap unacked[r] # {}
    /\ Catch(r)
    /\ stage' = [stage EXCEPT ![r] = [t \in Tables |-> "none"]]
    /\ UNCHANGED <<queue, applied, outcome, providerVars, claimed, unacked, workers,
                   failures, reply, stranded>>

StartWorkers(r) ==
    /\ phase[r] = "blocking"
    /\ Blocked(r) \cap unacked[r] = {}
    /\ phase' = [phase EXCEPT ![r] = "working"]
    /\ UNCHANGED <<queue, applied, outcome, providerVars, claimed, unacked, workers,
                   failures, stage, reply, marking, stranded>>

SetStage(r, t, s) == stage' = [stage EXCEPT ![r] = [@ EXCEPT ![t] = s]]

\* A worker calls processTable, up to the await of transport.pushAndPull.
SendTable(r, t) ==
    /\ CanSend(r)
    /\ Uninterrupted
    /\ stage[r][t] = "todo"
    /\ SetStage(r, t, "sent")
    /\ UNCHANGED <<queue, applied, outcome, providerVars, phase, claimed, unacked,
                   workers, failures, reply, marking, stranded>>

\* processTable throws: its catch marks what is left of the table's batch.
ThrowInTable(r, t) ==
    /\ SetStage(r, t, "failing")
    /\ marking' = Batch(r, t) \cap unacked[r]

\* An answer that can be used arrives; pulled records are merged and stored.
\* The server has applied what it acknowledges, then or at an earlier attempt.
\* It rejects some of the rest for good and leaves the rest of the batch out;
\* it may name ids that were not submitted to it (foreign).
Deliver(r, t, ack, reject, foreign) ==
    /\ stage[r][t] = "sent"
    /\ NewTask
    /\ applied' = applied \cup ack
    /\ reply' = [reply EXCEPT ![r] = [@ EXCEPT ![t] =
                    [ack |-> ack \cup foreign, reject |-> reject \cup foreign]]]
    /\ SetStage(r, t, "settling")
    /\ UNCHANGED <<queue, outcome, providerVars, phase, claimed, unacked, workers,
                   failures, marking, stranded>>

DeliverAnswer(r, t) ==
    /\ stage[r][t] = "sent"
    /\ \E ack \in SUBSET Batch(r, t), foreign \in {{}, Strays \ Batch(r, t)} :
          \E reject \in SUBSET (Batch(r, t) \ ack) : Deliver(r, t, ack, reject, foreign)

\* The transport rejects, or the answer is malformed, asks for a newer schema,
\* or cannot be merged and stored.  The server may have applied some of it.
TransportFails(r, t) ==
    /\ stage[r][t] = "sent"
    /\ NewTask
    /\ \E done \in SUBSET Batch(r, t) : applied' = applied \cup done
    /\ ThrowInTable(r, t)
    /\ UNCHANGED <<queue, outcome, providerVars, phase, claimed, unacked, workers,
                   failures, reply, stranded>>

RecordAcknowledged(m) == [outcome EXCEPT ![m] = IF queue[m] = NoRow THEN @ ELSE "ACKED"]

\* settleSyncMutations: acknowledged mutations first, then the ones to retry,
\* then the rejected ones.
SettleAcknowledged(r, t) ==
    \E m \in Mutations :
        /\ IsNext(m, Acknowledged(r, t) \cap unacked[r])
        /\ queue' = RemoveMutation(queue, m)
        /\ outcome' = RecordAcknowledged(m)
        /\ unacked' = [unacked EXCEPT ![r] = @ \ {m}]

SettleUnacknowledged(r, t) ==
    /\ Acknowledged(r, t) \cap unacked[r] = {}
    /\ \E m \in Mutations :
          /\ IsNext(m, Unacknowledged(r, t) \cap unacked[r])
          /\ queue' = MarkFailed(queue, m, 0)
          /\ unacked' = [unacked EXCEPT ![r] = @ \ {m}]
    /\ UNCHANGED outcome

SettleRejected(r, t) ==
    /\ (Acknowledged(r, t) \cup Unacknowledged(r, t)) \cap unacked[r] = {}
    /\ \E m \in Mutations :
          /\ IsNext(m, Rejected(r, t) \cap unacked[r])
          /\ queue' = MarkRejected(queue, m)
          /\ unacked' = [unacked EXCEPT ![r] = @ \ {m}]
    /\ UNCHANGED outcome

Settle(r, t) ==
    /\ stage[r][t] = "settling"
    /\ SettleAcknowledged(r, t) \/ SettleUnacknowledged(r, t) \/ SettleRejected(r, t)
    /\ UNCHANGED <<applied, providerVars, phase, claimed, workers, failures, stage,
                   reply, marking, stranded>>

\* A statement of the settlement fails, or the cursor cannot be stored after it.
SettleFails(r, t) ==
    /\ stage[r][t] = "settling"
    /\ ThrowInTable(r, t)
    /\ UNCHANGED <<queue, applied, outcome, providerVars, phase, claimed, unacked,
                   workers, failures, reply, stranded>>

\* removeMutation succeeded and clearTombstone failed after it: the mutation is
\* gone from the queue and still in unackedIds.
ClearTombstoneFails(r, t) ==
    /\ stage[r][t] = "settling"
    /\ \E m \in Mutations :
          /\ IsNext(m, Acknowledged(r, t) \cap unacked[r])
          /\ queue' = RemoveMutation(queue, m)
          /\ outcome' = RecordAcknowledged(m)
    /\ ThrowInTable(r, t)
    /\ UNCHANGED <<applied, providerVars, phase, claimed, unacked, workers, failures,
                   reply, stranded>>

EndTable(r, t) ==
    /\ SetStage(r, t, "done")
    /\ reply' = [reply EXCEPT ![r] = [@ EXCEPT ![t] = NoReply]]

\* Everything is settled, cursor and version are stored.
FinishTable(r, t) ==
    /\ stage[r][t] = "settling"
    /\ Batch(r, t) \cap unacked[r] = {}
    /\ EndTable(r, t)
    /\ UNCHANGED <<queue, applied, outcome, providerVars, phase, claimed, unacked,
                   workers, failures, marking, stranded>>

\* failSyncMutations leaves unackedIds as it is.
MarkNextFailed ==
    \E m \in Mutations :
        /\ IsNext(m, marking)
        /\ queue' = MarkFailed(queue, m, 0)
        /\ marking' = marking \ {m}

FailTable(r, t) ==
    /\ stage[r][t] = "failing"
    /\ IF marking # {}
       THEN MarkNextFailed /\ UNCHANGED <<failures, stage, reply>>
       ELSE /\ EndTable(r, t)
            /\ failures' = [failures EXCEPT ![r] = TRUE]
            /\ UNCHANGED <<queue, marking>>
    /\ UNCHANGED <<applied, outcome, providerVars, phase, claimed, unacked, workers,
                   stranded>>

\* The handler fails too: processTable rejects, its worker dies, and Promise.all
\* rejects while the other workers go on.
FailTableFails(r, t) ==
    /\ HandlersFail
    /\ stage[r][t] = "failing"
    /\ marking # {}
    /\ EndTable(r, t)
    /\ workers' = [workers EXCEPT ![r] = IF @ > 0 THEN @ - 1 ELSE 0]
    /\ IF phase[r] = "working"
       THEN Catch(r)
       ELSE marking' = {} /\ UNCHANGED phase
    /\ UNCHANGED <<queue, applied, outcome, providerVars, claimed, unacked, failures,
                   stranded>>

\* syncChainRef: a run that failed lets the next one start, too.
ReleaseChainOnSuccess(r) ==
    onChain' = [p \in Providers |->
                   IF onChain[p] = r /\ phase[r] = "working" THEN NoRun ELSE onChain[p]]

ReleaseChain(r) ==
    onChain' = [p \in Providers |-> IF onChain[p] = r THEN NoRun ELSE onChain[p]]

\* run() returns: the chain moves on.  Workers that a rejected Promise.all left
\* behind keep working on the tables of the run.
Return(r) ==
    LET left == InStage(r, {"todo", "sent"}) # {} /\ workers[r] > 0
        Reset(f, blank) == [f EXCEPT ![r] = IF left THEN @ ELSE blank]
    IN  /\ ReleaseChain(r)
        /\ phase' = [phase EXCEPT ![r] = IF left THEN "detached" ELSE "free"]
        /\ claimed' = Reset(claimed, {})
        /\ unacked' = Reset(unacked, {})
        /\ workers' = Reset(workers, 0)
        /\ stage' = Reset(stage, [t \in Tables |-> "none"])
        /\ reply' = Reset(reply, [t \in Tables |-> NoReply])
        /\ failures' = Reset(failures, FALSE)
        /\ UNCHANGED <<mounted, waiting, remounts, crashes>>

\* All workers are done.
EndRun(r) ==
    /\ phase[r] = "working"
    /\ InStage(r, Stages \ {"none", "done"}) = {}
    /\ Uninterrupted
    /\ ~failures[r]
    /\ Return(r)
    /\ UNCHANGED <<queue, applied, outcome, marking, stranded>>

\* Some table returned an error: throw into the outer catch.
EndRunWithErrors(r) ==
    /\ phase[r] = "working"
    /\ InStage(r, Stages \ {"none", "done"}) = {}
    /\ Uninterrupted
    /\ failures[r]
    /\ Catch(r)
    /\ UNCHANGED <<queue, applied, outcome, providerVars, claimed, unacked, workers,
                   failures, stage, reply, stranded>>

OuterCatch(r) ==
    /\ phase[r] = "catching"
    /\ IF marking # {}
       THEN /\ MarkNextFailed
            /\ UNCHANGED <<providerVars, phase, claimed, unacked, workers, failures, stage, reply>>
       ELSE Return(r) /\ UNCHANGED <<queue, marking>>
    /\ UNCHANGED <<applied, outcome, stranded>>

OuterCatchFails(r) ==
    /\ HandlersFail
    /\ phase[r] = "catching"
    /\ marking # {}
    /\ stranded' = stranded \cup marking
    /\ marking' = {}
    /\ Return(r)
    /\ UNCHANGED <<queue, applied, outcome>>

\* The last table of a run left behind is done.
Disperse(r) ==
    /\ phase[r] = "detached"
    /\ InStage(r, {"todo", "sent", "settling", "failing"}) = {} \/ workers[r] = 0
    /\ Uninterrupted
    /\ Return(r)
    /\ UNCHANGED <<queue, applied, outcome, marking, stranded>>

----------------------------------------------------------------------------
(***************************************************************************)
(* The rest of the world                                                   *)
(***************************************************************************)
BackoffElapses(m) ==
    /\ m \in Queued(queue)
    /\ queue[m].nextRetryAt > 0
    /\ queue' = [queue EXCEPT ![m].nextRetryAt = 0]
    /\ UNCHANGED <<applied, outcome, providerVars, runVars, stranded>>

InFlight == UNION {UNION {Batch(r, t) : t \in InStage(r, {"sent"})} : r \in Runs}

ForgetRuns ==
    /\ waiting' = [p \in Providers |-> 0]
    /\ onChain' = [p \in Providers |-> NoRun]
    /\ phase' = [r \in Runs |-> "free"]
    /\ claimed' = [r \in Runs |-> {}]
    /\ unacked' = [r \in Runs |-> {}]
    /\ workers' = [r \in Runs |-> 0]
    /\ failures' = [r \in Runs |-> FALSE]
    /\ stage' = [r \in Runs |-> [t \in Tables |-> "none"]]
    /\ reply' = [r \in Runs |-> [t \in Tables |-> NoReply]]
    /\ marking' = {}

\* The process dies, between any two statements; the server may still apply
\* what it was sent.
Crash ==
    /\ mounted
    /\ crashes < MaxCrashes
    /\ crashes' = crashes + 1
    /\ mounted' = FALSE
    /\ ForgetRuns
    /\ stranded' = {}
    /\ \E done \in SUBSET InFlight : applied' = applied \cup done
    /\ UNCHANGED <<queue, outcome, remounts>>

\* The provider renders for the first time: initialize recovers the queue.
Restart ==
    /\ ~mounted
    /\ mounted' = TRUE
    /\ queue' = RecoverStuck(queue)
    /\ UNCHANGED <<applied, outcome, waiting, onChain, remounts, crashes, runVars, stranded>>

\* The dependencies of the useMemo changed: initialize runs again, whatever is
\* in flight.
Reinitialize ==
    /\ NewTask
    /\ queue' = RecoverStuck(queue)
    /\ stranded' = {}
    /\ UNCHANGED <<applied, outcome, providerVars, runVars>>

\* The provider is unmounted and a new one mounted: initialize, and a new chain.
\* The run of the old one goes on, and so do those queued behind it.
Remount ==
    /\ NewTask
    /\ remounts < MaxRemounts
    /\ remounts' = remounts + 1
    /\ queue' = RecoverStuck(queue)
    /\ stranded' = {}
    /\ UNCHANGED <<applied, outcome, mounted, waiting, onChain, crashes, runVars>>

----------------------------------------------------------------------------
TableStep(r, t) ==
    \/ SendTable(r, t) \/ Settle(r, t) \/ FinishTable(r, t) \/ FailTable(r, t)

RunStep(r) ==
    \/ Block(r) \/ StartWorkers(r) \/ EndRun(r) \/ EndRunWithErrors(r)
    \/ OuterCatch(r) \/ Disperse(r)
    \/ \E t \in Tables : TableStep(r, t)

Faults(r) ==
    \/ BlockFails(r) \/ OuterCatchFails(r)
    \/ \E t \in Tables :
          \/ TransportFails(r, t) \/ SettleFails(r, t)
          \/ ClearTombstoneFails(r, t) \/ FailTableFails(r, t)

Next ==
    \/ \E m \in Mutations :
          Mutate(m) \/ UserRetries(m) \/ UserDiscards(m) \/ BackoffElapses(m)
    \/ RequestSync \/ ClaimFails
    \/ \E r \in Runs :
          \/ \E requested \in Requests : StartRun(r, requested)
          \/ RunStep(r)
          \/ \E t \in Tables : DeliverAnswer(r, t)
          \/ Faults(r)
    \/ Crash \/ Restart \/ Reinitialize \/ Remount

Spec == Init /\ [][Next]_vars

----------------------------------------------------------------------------
(***************************************************************************)
(* Fairness.  The JavaScript engine runs a task it has started to its end  *)
(* and comes back to tasks that wait; a request is answered or fails; an   *)
(* app that died is started again.  Nothing is assumed of the faults, of   *)
(* the user, or of what an answer says.                                    *)
(***************************************************************************)
RunFairness ==
    /\ \A r \in Runs :
          /\ WF_vars(RunStep(r))
          /\ \A t \in Tables :
                WF_vars(TransportFails(r, t) \/ DeliverAnswer(r, t))
    /\ WF_vars(Restart)

FairSpec == Spec /\ RunFairness

(***************************************************************************)
(* For delivery, more is needed of the world: the app polls, time passes,  *)
(* a database that is tried for ever sets the dependents of a batch aside, *)
(* a network that is tried for ever delivers some batch to a server that   *)
(* applies it, and the answer back, again and again, and of the answers    *)
(* that are settled for ever, some acknowledgement is settled.             *)
(***************************************************************************)
SetsAside(r) == Block(r) /\ (Blocked(r) \cap unacked[r])' = {}

Acknowledges(r, t) == Batch(r, t) # {} /\ Deliver(r, t, Batch(r, t), {}, {})

Settles(r, t) == Acknowledged(r, t) # {} /\ Settle(r, t)

DeliveryFairness ==
    /\ WF_vars(RequestSync)
    /\ \A m \in Mutations : WF_vars(BackoffElapses(m))
    /\ \A r \in Runs :
          /\ SF_vars(StartRun(r, Tables)) /\ SF_vars(SetsAside(r))
          /\ SF_vars(\E t \in Tables : Acknowledges(r, t))
          /\ SF_vars(\E t \in Tables : Settles(r, t))

----------------------------------------------------------------------------
(***************************************************************************)
(* Properties                                                              *)
(***************************************************************************)
\* The run that will still settle or fail mutation m.
Owns(r, m) ==
    \/ phase[r] \in {"blocking", "working"} /\ m \in unacked[r]
    \/ phase[r] = "catching" /\ m \in marking

\* Whatever fails, and wherever the process dies, a mutation is SYNCING only as
\* long as some run is bound to settle it, put it back or mark it failed: none
\* is left behind in a state no claim looks at (unackedIds, the two catches,
\* recoverSyncing).  The exception is a failure handler that itself failed.
SyncingIsOwned ==
    mounted =>
        \A m \in WithStatus(queue, {"SYNCING"}) \ stranded : \E r \in Runs : Owns(r, m)

(***************************************************************************)
(* Why SyncingIsOwned holds: with Bookkeeping it is inductive              *)
(***************************************************************************)
Between == {"blocking", "catching"}   \* phases, and stages, inside a task

Midway == {"settling", "failing"}

\* unackedIds is filled from the claim and only shrinks.
UnackedIsClaimed == \A r \in Runs : unacked[r] \subseteq claimed[r]

\* One task at a time: what a failure handler marks is its own.
OneTask ==
    \A r, q \in Runs :
        /\ phase[r] \in Between /\ phase[q] \in Between => r = q
        /\ phase[r] \in Between => \A u \in Tables : stage[q][u] \notin Midway
        /\ \A t, u \in Tables :
              stage[r][t] \in Midway /\ stage[q][u] \in Midway => r = q /\ t = u

\* Every table of the claim gets its worker.
ClaimedIsPlanned ==
    \A r \in Runs : phase[r] = "blocking" =>
        \A m \in claimed[r] : stage[r][TableOf[m]] = "todo"

\* While the workers are at it, what is unsettled is in the batch of a table
\* that is still worked on, or a table has failed and the run will.
UnackedIsWorkedOn ==
    \A r \in Runs : phase[r] = "working" =>
        \A m \in unacked[r] :
            /\ m \notin Blocked(r)
            /\ failures[r] \/ stage[r][TableOf[m]] \in {"todo", "sent", "settling", "failing"}

Bookkeeping == UnackedIsClaimed /\ OneTask /\ ClaimedIsPlanned /\ UnackedIsWorkedOn

\* A mutation leaves the queue as acknowledged only if the server applied it,
\* even if an answer names mutations of other tables or answers arrive in
\* another order than the requests (partitionSyncMutations).
AcknowledgedIsApplied == \A m \in Mutations : outcome[m] = "ACKED" => m \in applied

\* Why it holds: what is settled as acknowledged was sent and answered for.
AnswersAreTrue ==
    \A r \in Runs, t \in Tables :
        stage[r][t] = "settling" => Acknowledged(r, t) \subseteq applied

\* The queue as the state machine of stateMachine.ts sees it.
StateOf ==
    [m \in Mutations |->
        IF queue[m] # NoRow THEN queue[m].status
        ELSE outcome[m]]

Lifecycle == INSTANCE MutationLifecycle WITH life <- StateOf

\* Through claims, answers, faults, crashes, recoveries and answers of the user
\* to old lists, every mutation goes through the state machine of
\* stateMachine.ts: only the user moves it out of REJECTED, and it is never
\* dropped without an acknowledgement or a discarded rejection.
ImplementsLifecycle == Lifecycle!Spec

\* A mutation taken for sending is not SYNCING for ever: its run ends, or the
\* next start recovers it.
SyncingEnds ==
    \A m \in Mutations :
        (m \in WithStatus(queue, {"SYNCING"})) ~> (m \notin WithStatus(queue, {"SYNCING"}))

\* No chain of runs ever blocks: a requested sync gets its turn, also after
\* failed ones.
ChainMovesOn ==
    \A p \in Providers, r \in Runs : (onChain[p] = r) ~> (onChain[p] # r)

\* If the world does its part (DeliveryFairness), every mutation is eventually
\* acknowledged, or rejected and left to the user: neither prerequisites
\* nor backoff starve it, whatever else fails in between.
EventuallySettled ==
    DeliveryFairness =>
        \A m \in Mutations :
            (outcome[m] = "QUEUED")
                ~> (outcome[m] # "QUEUED" \/ m \in WithStatus(queue, {"REJECTED"}))

\* README.md:191: "dependent mutations remain queued until their prerequisites
\* are no longer pending."
DependentsWait ==
    [][\A r \in Runs, t \in Tables :
          SendTable(r, t) =>
             \A m \in Batch(r, t) : DependsOn[m] \cap WithStatus(queue, {"PENDING"}) = {}]_vars
=============================================================================
