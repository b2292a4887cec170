-------------------------- MODULE SyncEngineProofs --------------------------
(***************************************************************************)
(* Theorems about the sync run, for any mutations, dependencies, tables,   *)
(* claim limits and numbers of overlapping runs, with failing handlers,    *)
(* crashes, remounts and answers that name anything.                       *)
(***************************************************************************)
EXTENDS SyncEngine, QueueRowsProofs, FiniteSetTheorems

QueueType == QueueOf(Tables, Mutations, Mutations)

USE DEF QueueType

----------------------------------------------------------------------------
(***************************************************************************)
(* Type correctness                                                        *)
(***************************************************************************)
LEMMA DraftRowType ==
    ASSUME NEW m \in Mutations
    PROVE  FreshRow(Draft(m), Stamp[m]) \in RowOf(Tables, Mutations, Mutations)
<1>1. /\ Draft(m).table \in Tables /\ Draft(m).record \in Mutations
      /\ Draft(m).operation \in Operations /\ Draft(m).dependsOn \in SUBSET Mutations
  BY EngineAssumption DEF Draft, Operations
<1>2. Stamp[m] \in Nat
  BY EngineAssumption
<1> QED BY <1>1, <1>2, FreshRowType

LEMMA StatementTypes ==
    ASSUME NEW q \in QueueType, NEW m \in Mutations
    PROVE  /\ SaveMutation(q, m, FreshRow(Draft(m), Stamp[m])) \in QueueType
           /\ MarkPending(q, m) \in QueueType
           /\ MarkFailed(q, m, 0) \in QueueType
           /\ MarkRejected(q, m) \in QueueType
           /\ RetryRejected(q, m) \in QueueType
           /\ RemoveMutation(q, m) \in QueueType
           /\ DiscardRejected(q, m) \in QueueType
<1>1. RetryCap \in Nat
  BY EngineAssumption
<1>2. SaveMutation(q, m, FreshRow(Draft(m), Stamp[m])) \in QueueType
  BY DraftRowType, SaveMutationType
<1>3. MarkFailed(q, m, 0) \in QueueType
  BY <1>1, MarkFailedType
<1>4. MarkPending(q, m) \in QueueType /\ MarkRejected(q, m) \in QueueType
      /\ RetryRejected(q, m) \in QueueType
  BY SetStatusType
<1>5. RemoveMutation(q, m) \in QueueType /\ DiscardRejected(q, m) \in QueueType
  BY RemovalType
<1> QED BY <1>2, <1>3, <1>4, <1>5

LEMMA DueIsQueued == \A requested : Due(queue, 0, requested) \subseteq Queued(queue)
BY DEF Due, WithStatus

LEMMA QueueDomain == queue \in QueueType => Queued(queue) \subseteq Mutations
BY DEF Queued, QueueOf

\* Everything but the queue.
RestOK ==
    /\ applied \subseteq Mutations
    /\ outcome \in [Mutations -> {"NEW", "QUEUED", "ACKED", "DISCARDED"}]
    /\ mounted \in BOOLEAN
    /\ waiting \in [Providers -> 0 .. MaxWaiting]
    /\ onChain \in [Providers -> Runs \cup {NoRun}]
    /\ remounts \in 0 .. MaxRemounts
    /\ crashes \in 0 .. MaxCrashes
    /\ phase \in [Runs -> Phases]
    /\ claimed \in [Runs -> SUBSET Mutations]
    /\ unacked \in [Runs -> SUBSET Mutations]
    /\ workers \in [Runs -> Nat]
    /\ failures \in [Runs -> BOOLEAN]
    /\ stage \in [Runs -> [Tables -> Stages]]
    /\ reply \in [Runs -> [Tables -> [ack: SUBSET Mutations, reject: SUBSET Mutations]]]
    /\ marking \subseteq Mutations
    /\ stranded \subseteq Mutations

LEMMA TypeOKParts == TypeOK <=> queue \in QueueType /\ RestOK
BY DEF TypeOK, RestOK

\* Returning from a run resets what belongs to it, or leaves it to its workers.
LEMMA ReturnType ==
    ASSUME RestOK, NEW r \in Runs, Return(r), marking' \subseteq Mutations,
           stranded' \subseteq Mutations, UNCHANGED <<applied, outcome>>
    PROVE  RestOK'
BY DEF Return, ReleaseChain, RestOK, Phases, Stages, NoReply

\* The queue holds rows after every step.
LEMMA QueueTyped == queue \in QueueType /\ [Next]_vars => queue' \in QueueType
<1> SUFFICES ASSUME queue \in QueueType, [Next]_vars PROVE queue' \in QueueType
  OBVIOUS
<1>1. ASSUME NEW m \in Mutations,
             Mutate(m) \/ UserRetries(m) \/ UserDiscards(m)
      PROVE  queue' \in QueueType
  BY <1>1, StatementTypes
     DEF Mutate, UserRetries, UserDiscards
<1>2. ASSUME NEW m \in Mutations, BackoffElapses(m)
      PROVE  queue' \in QueueType
  BY <1>2 DEF BackoffElapses, Queued, QueueOf, RowOf
<1>3. ASSUME NEW r \in Runs, NEW requested \in Requests, StartRun(r, requested)
      PROVE  queue' \in QueueType
  <2>1. PICK S \in SUBSET Due(queue, 0, requested) : queue' = MarkSyncing(queue, S)
    BY <1>3 DEF StartRun
  <2> QED BY <2>1, DueIsQueued, MarkSyncingType
<1>4. ASSUME NEW r \in Runs, RunStep(r) \/ Faults(r)
      PROVE  queue' \in QueueType
  <2>1. ASSUME MarkNextFailed PROVE queue' \in QueueType
    BY <2>1, StatementTypes DEF MarkNextFailed
  <2>2. CASE Block(r)
    BY <2>2, StatementTypes DEF Block
  <2>3. CASE OuterCatch(r)
    BY <2>1, <2>3 DEF OuterCatch
  <2>4. ASSUME NEW t \in Tables, Settle(r, t)
        PROVE  queue' \in QueueType
    BY <2>4, StatementTypes
       DEF Settle, SettleAcknowledged, SettleUnacknowledged, SettleRejected
  <2>5. ASSUME NEW t \in Tables, FailTable(r, t) \/ ClearTombstoneFails(r, t)
        PROVE  queue' \in QueueType
    BY <2>1, <2>5, StatementTypes DEF FailTable, ClearTombstoneFails
  <2> QED BY <1>4, <2>2, <2>3, <2>4, <2>5
          DEF RunStep, Faults, TableStep, StartWorkers, EndRun, EndRunWithErrors, Disperse,
              BlockFails, OuterCatchFails, SendTable, FinishTable, TransportFails,
              SettleFails, FailTableFails
<1>5. ASSUME Restart \/ Reinitialize \/ Remount PROVE queue' \in QueueType
  BY <1>5, RecoverStuckType DEF Restart, Reinitialize, Remount
<1> QED BY <1>1, <1>2, <1>3, <1>4, <1>5
        DEF Next, vars, RequestSync, ClaimFails, DeliverAnswer, Deliver, Crash

LEMMA EndTableType ==
    ASSUME RestOK, NEW r \in Runs, NEW t \in Tables, EndTable(r, t)
    PROVE  /\ stage' \in [Runs -> [Tables -> Stages]]
           /\ reply' \in [Runs -> [Tables -> [ack: SUBSET Mutations, reject: SUBSET Mutations]]]
BY DEF EndTable, SetStage, NoReply, RestOK, Stages

LEMMA RunStepTyped ==
    ASSUME RestOK, NEW r \in Runs, RunStep(r)
    PROVE  RestOK'
<1> USE DEF providerVars, runVars
<1>1. ASSUME MarkNextFailed PROVE marking' \subseteq Mutations
  BY <1>1 DEF MarkNextFailed, RestOK
<1>2. CASE Block(r)
  BY <1>2 DEF Block, RestOK
<1>3. CASE StartWorkers(r)
  BY <1>3 DEF StartWorkers, RestOK, Phases
<1>4. CASE EndRun(r)
  BY <1>4, ReturnType DEF EndRun, RestOK
<1>5. CASE EndRunWithErrors(r)
  BY <1>5 DEF EndRunWithErrors, Catch, RestOK, Phases
<1>6. CASE OuterCatch(r)
  <2>1. CASE marking # {}
    BY <1>1, <1>6, <2>1 DEF OuterCatch, RestOK
  <2>2. CASE marking = {}
    BY <1>6, <2>2, ReturnType DEF OuterCatch, RestOK
  <2> QED BY <2>1, <2>2
<1>7. CASE Disperse(r)
  BY <1>7, ReturnType DEF Disperse, RestOK
<1>8. ASSUME NEW t \in Tables, SendTable(r, t)
      PROVE  RestOK'
  BY <1>8 DEF SendTable, SetStage, RestOK, Stages
<1>9. ASSUME NEW t \in Tables, Settle(r, t)
      PROVE  RestOK'
  <2>1. unacked' \in [Runs -> SUBSET Mutations]
    <3>1. PICK m \in Mutations : unacked' = [unacked EXCEPT ![r] = @ \ {m}]
      BY <1>9 DEF Settle, SettleAcknowledged, SettleUnacknowledged, SettleRejected
    <3> QED BY <3>1 DEF RestOK
  <2>2. outcome' \in [Mutations -> {"NEW", "QUEUED", "ACKED", "DISCARDED"}]
    BY <1>9 DEF Settle, SettleAcknowledged, SettleUnacknowledged, SettleRejected,
                RecordAcknowledged, RestOK
  <2> QED BY <1>9, <2>1, <2>2 DEF Settle, RestOK
<1>10. ASSUME NEW t \in Tables, FinishTable(r, t)
       PROVE  RestOK'
  BY <1>10, EndTableType DEF FinishTable, RestOK
<1>11. ASSUME NEW t \in Tables, FailTable(r, t)
       PROVE  RestOK'
  <2>1. CASE marking # {}
    BY <1>1, <1>11, <2>1 DEF FailTable, RestOK
  <2>2. CASE marking = {}
    BY <1>11, <2>2, EndTableType DEF FailTable, RestOK
  <2> QED BY <2>1, <2>2
<1> QED BY <1>2, <1>3, <1>4, <1>5, <1>6, <1>7, <1>8, <1>9, <1>10, <1>11
        DEF RunStep, TableStep

LEMMA BatchIsSet == RestOK => \A r \in Runs, t \in Tables : Batch(r, t) \subseteq Mutations
BY DEF RestOK, Batch

LEMMA FaultsTyped ==
    ASSUME RestOK, NEW r \in Runs, Faults(r)
    PROVE  RestOK'
<1> USE DEF providerVars, runVars
<1>1. CASE BlockFails(r)
  BY <1>1 DEF BlockFails, Catch, RestOK, Phases, Stages
<1>2. CASE OuterCatchFails(r)
  BY <1>2, ReturnType DEF OuterCatchFails, RestOK
<1>3. ASSUME NEW t \in Tables, TransportFails(r, t)
      PROVE  RestOK'
  BY <1>3, BatchIsSet DEF TransportFails, ThrowInTable, SetStage, RestOK, Stages
<1>4. ASSUME NEW t \in Tables, SettleFails(r, t)
      PROVE  RestOK'
  BY <1>4, BatchIsSet DEF SettleFails, ThrowInTable, SetStage, RestOK, Stages
<1>5. ASSUME NEW t \in Tables, ClearTombstoneFails(r, t)
      PROVE  RestOK'
  BY <1>5, BatchIsSet DEF ClearTombstoneFails, RecordAcknowledged, ThrowInTable, SetStage,
                          RestOK, Stages
<1>6. ASSUME NEW t \in Tables, FailTableFails(r, t)
      PROVE  RestOK'
  <2>1. phase' \in [Runs -> Phases] /\ marking' \subseteq Mutations
    BY <1>6 DEF FailTableFails, Catch, RestOK, Phases
  <2>2. workers' \in [Runs -> Nat]
    BY <1>6 DEF FailTableFails, RestOK
  <2> QED BY <1>6, <2>1, <2>2, EndTableType DEF FailTableFails, RestOK
<1> QED BY <1>1, <1>2, <1>3, <1>4, <1>5, <1>6 DEF Faults

\* The run whose turn it is was waiting.
LEMMA TurnTyped ==
    ASSUME RestOK, NEW p \in Providers, TakesTurn(p)
    PROVE  waiting' \in [Providers -> 0 .. MaxWaiting]
<1>1. waiting[p] - 1 \in 0 .. MaxWaiting
  BY EngineAssumption DEF TakesTurn, RestOK
<1> QED BY <1>1 DEF TakesTurn, RestOK

LEMMA StartRunTyped ==
    ASSUME queue \in QueueType, RestOK,
           NEW r \in Runs, NEW requested \in Requests, StartRun(r, requested)
    PROVE  RestOK'
<1>1. PICK S \in SUBSET Due(queue, 0, requested), loaded \in SUBSET requested :
         /\ claimed' = [claimed EXCEPT ![r] = S]
         /\ unacked' = [unacked EXCEPT ![r] = S]
         /\ stage' = [stage EXCEPT ![r] =
                         [t \in Tables |-> IF t \in loaded THEN "todo" ELSE "none"]]
         /\ workers' = [workers EXCEPT ![r] =
                           IF MaxConcurrentTables < Cardinality(loaded)
                           THEN MaxConcurrentTables ELSE Cardinality(loaded)]
  BY DEF StartRun
<1>2. Cardinality(loaded) \in Nat
  <2>1. requested \subseteq Tables
    BY EngineAssumption
  <2> QED BY <2>1, EngineAssumption, FS_Subset, FS_CardinalityType
<1>3. workers' \in [Runs -> Nat]
  BY <1>1, <1>2, EngineAssumption DEF RestOK
<1>4. S \subseteq Mutations
  BY DueIsQueued, QueueDomain
<1>5. /\ claimed' \in [Runs -> SUBSET Mutations] /\ unacked' \in [Runs -> SUBSET Mutations]
      /\ stage' \in [Runs -> [Tables -> Stages]]
  BY <1>1, <1>4 DEF RestOK, Stages
<1>6. /\ waiting' \in [Providers -> 0 .. MaxWaiting] /\ onChain' \in [Providers -> Runs \cup {NoRun}]
      /\ phase' \in [Runs -> Phases]
  <2>1. PICK p \in Providers : TakesTurn(p) /\ onChain' = [onChain EXCEPT ![p] = r]
    BY DEF StartRun
  <2>2. waiting' \in [Providers -> 0 .. MaxWaiting]
    BY <2>1, TurnTyped
  <2>3. phase' \in [Runs -> Phases]
    BY DEF StartRun, RestOK, Phases
  <2> QED BY <2>1, <2>2, <2>3 DEF RestOK
<1>7. UNCHANGED <<applied, outcome, mounted, remounts, crashes, failures, reply, marking,
                  stranded>>
  BY DEF StartRun
<1> QED BY <1>3, <1>5, <1>6, <1>7 DEF RestOK

LEMMA RestTyped == queue \in QueueType /\ RestOK /\ [Next]_vars => RestOK'
<1> SUFFICES ASSUME queue \in QueueType, RestOK, [Next]_vars PROVE RestOK'
  OBVIOUS
<1> USE DEF providerVars, runVars
<1>1. ASSUME NEW m \in Mutations,
             Mutate(m) \/ UserRetries(m) \/ UserDiscards(m) \/ BackoffElapses(m)
      PROVE  RestOK'
  BY <1>1 DEF Mutate, UserRetries, UserDiscards, BackoffElapses, RestOK
<1>2. CASE RequestSync
  <2>1. remounts \in Providers
    BY DEF RestOK, Providers
  <2>2. waiting[remounts] + 1 \in 0 .. MaxWaiting
    BY <1>2, <2>1, EngineAssumption DEF RequestSync, RestOK
  <2>3. waiting' \in [Providers -> 0 .. MaxWaiting]
    BY <1>2, <2>1, <2>2 DEF RequestSync, RestOK
  <2> QED BY <1>2, <2>3 DEF RequestSync, RestOK
<1>8. CASE ClaimFails
  BY <1>8, TurnTyped DEF ClaimFails, RestOK
<1>3. ASSUME NEW r \in Runs, NEW t \in Tables, DeliverAnswer(r, t)
      PROVE  RestOK'
  BY <1>3, BatchIsSet, EngineAssumption
     DEF DeliverAnswer, Deliver, SetStage, RestOK, Stages
<1>4. CASE Crash
  <2>1. InFlight \subseteq Mutations
    BY BatchIsSet DEF InFlight, InStage
  <2>2. applied' \subseteq Mutations
    BY <1>4, <2>1 DEF Crash, RestOK
  <2>3. crashes' \in 0 .. MaxCrashes
    BY <1>4, EngineAssumption DEF Crash, RestOK
  <2>4. mounted' \in BOOLEAN /\ stranded' = {} /\ UNCHANGED <<outcome, remounts>>
    BY <1>4 DEF Crash
  <2>6. waiting' \in [Providers -> 0 .. MaxWaiting]
    BY <1>4, EngineAssumption DEF Crash, ForgetRuns
  <2>5. /\ onChain' \in [Providers -> Runs \cup {NoRun}] /\ phase' \in [Runs -> Phases]
        /\ claimed' \in [Runs -> SUBSET Mutations] /\ unacked' \in [Runs -> SUBSET Mutations]
        /\ workers' \in [Runs -> Nat] /\ failures' \in [Runs -> BOOLEAN]
        /\ stage' \in [Runs -> [Tables -> Stages]] /\ marking' = {}
        /\ reply' \in [Runs -> [Tables -> [ack: SUBSET Mutations, reject: SUBSET Mutations]]]
    BY <1>4 DEF Crash, ForgetRuns, Phases, Stages, NoReply
  <2> QED BY <2>2, <2>3, <2>4, <2>5, <2>6 DEF RestOK
<1>5. CASE Restart \/ Reinitialize
  BY <1>5 DEF Restart, Reinitialize, RestOK
<1>7. CASE Remount
  <2>1. remounts' \in 0 .. MaxRemounts
    BY <1>7, EngineAssumption DEF Remount, RestOK
  <2> QED BY <1>7, <2>1 DEF Remount, RestOK
<1>6. CASE UNCHANGED vars
  BY <1>6 DEF vars, RestOK
<1> QED BY <1>1, <1>2, <1>3, <1>4, <1>5, <1>6, <1>7, <1>8, RunStepTyped, FaultsTyped,
           StartRunTyped
        DEF Next

\* The rows of the queue, the answers and the bookkeeping of every run keep their
\* types, whatever fails and whenever the process dies (sync in provider.tsx).
THEOREM TypeCorrect == Spec => []TypeOK
<1>1. Init => TypeOK
  BY EngineAssumption DEF Init, TypeOK, QueueOf, Phases, Stages, NoReply
<1>2. TypeOK /\ [Next]_vars => TypeOK'
  BY QueueTyped, RestTyped DEF TypeOK, RestOK
<1> QED BY <1>1, <1>2, PTL DEF Spec

----------------------------------------------------------------------------
(***************************************************************************)
(* The bookkeeping of the runs                                             *)
(***************************************************************************)
USE DEF Between, Midway

\* A task that starts finds no other one begun.
LEMMA NewTaskIsAlone ==
    NewTask => \A r \in Runs : /\ phase[r] \notin Between
                               /\ \A t \in Tables : stage[r][t] \notin Midway
BY DEF NewTask, JSBusy, Uninterrupted, InTask, InStage

LEMMA UninterruptedIsAlone ==
    Uninterrupted => \A r \in Runs : /\ phase[r] \notin Between
                                     /\ \A t \in Tables : stage[r][t] \notin Midway
BY DEF Uninterrupted, InTask, InStage

LEMMA ClaimedHasTable ==
    ASSUME RestOK, Bookkeeping
    PROVE  \A r \in Runs : /\ unacked[r] \subseteq claimed[r]
                           /\ \A m \in claimed[r] : TableOf[m] \in Tables
BY EngineAssumption DEF RestOK, Bookkeeping, UnackedIsClaimed

LEMMA ReturnBookkeeping ==
    ASSUME RestOK, Bookkeeping, NEW r \in Runs, Return(r)
    PROVE  Bookkeeping'
<1>1. UnackedIsClaimed'
  BY DEF Return, RestOK, Bookkeeping, UnackedIsClaimed
<1>2. OneTask'
  BY DEF Return, RestOK, Bookkeeping, OneTask
<1>3. ClaimedIsPlanned'
  BY DEF Return, RestOK, Bookkeeping, ClaimedIsPlanned
<1>4. UnackedIsWorkedOn'
  BY DEF Return, RestOK, Bookkeeping, UnackedIsWorkedOn, Blocked
<1> QED BY <1>1, <1>2, <1>3, <1>4 DEF Bookkeeping

\* A table of run r goes to stage s, and nothing else of the bookkeeping changes.
LEMMA SetStageBookkeeping ==
    ASSUME RestOK, Bookkeeping, NEW r \in Runs, NEW t \in Tables,
           NEW s \in {"sent", "settling", "failing", "done"},
           SetStage(r, t, s), UNCHANGED <<phase, claimed, unacked>>,
           failures' = failures \/ failures' = [failures EXCEPT ![r] = TRUE],
           s \in Midway => stage[r][t] \in Midway \/ NewTask,
           phase[r] # "blocking",
           \/ s # "done"
           \/ failures'[r]
           \/ phase[r] # "working"
           \/ Batch(r, t) \cap unacked[r] = {}
    PROVE  Bookkeeping'
<1>1. UnackedIsClaimed'
  BY DEF RestOK, Bookkeeping, UnackedIsClaimed
<1>2. OneTask'
  BY NewTaskIsAlone DEF SetStage, RestOK, Bookkeeping, OneTask
<1>3. ClaimedIsPlanned'
  BY DEF SetStage, RestOK, Bookkeeping, ClaimedIsPlanned
<1>4. UnackedIsWorkedOn'
  <2> SUFFICES ASSUME NEW q \in Runs, phase[q] = "working", NEW m \in unacked[q]
               PROVE  /\ m \notin Blocked(q)
                      /\ \/ failures'[q]
                         \/ stage'[q][TableOf[m]] \in {"todo", "sent", "settling", "failing"}
    BY DEF UnackedIsWorkedOn, Blocked
  <2>1. /\ m \in claimed[q] /\ TableOf[m] \in Tables /\ m \notin Blocked(q)
        /\ \/ failures[q]
           \/ stage[q][TableOf[m]] \in {"todo", "sent", "settling", "failing"}
    BY EngineAssumption DEF RestOK, Bookkeeping, UnackedIsWorkedOn, UnackedIsClaimed
  <2>2. failures[q] => failures'[q]
    BY DEF RestOK
  <2>3. CASE q = r /\ TableOf[m] = t
    <3>1. m \in Batch(r, t)
      BY <2>1, <2>3 DEF Batch
    <3>2. stage'[r][t] = s
      BY DEF SetStage, RestOK
    <3> QED BY <2>1, <2>2, <2>3, <3>1, <3>2
  <2>4. CASE ~(q = r /\ TableOf[m] = t)
    <3>1. stage'[q][TableOf[m]] = stage[q][TableOf[m]]
      BY <2>1, <2>4 DEF SetStage, RestOK
    <3> QED BY <2>1, <2>2, <3>1
  <2> QED BY <2>3, <2>4
<1> QED BY <1>1, <1>2, <1>3, <1>4 DEF Bookkeeping

LEMMA StepBookkeeping ==
    ASSUME RestOK, Bookkeeping, NEW r \in Runs, RunStep(r)
    PROVE  Bookkeeping'
<1> USE DEF providerVars
<1>1. CASE Block(r)
  <2>1. PICK m \in Mutations : unacked' = [unacked EXCEPT ![r] = @ \ {m}]
    BY <1>1 DEF Block
  <2>2. \A q \in Runs : unacked'[q] \subseteq unacked[q]
    BY <2>1 DEF RestOK
  <2> QED BY <1>1, <2>2 DEF Block, Bookkeeping, UnackedIsClaimed, OneTask, ClaimedIsPlanned,
                            UnackedIsWorkedOn, Blocked
<1>2. CASE StartWorkers(r)
  <2>1. \A q \in Runs : phase'[q] = IF q = r THEN "working" ELSE phase[q]
    BY <1>2 DEF StartWorkers, RestOK
  <2>2. phase[r] = "blocking" /\ Blocked(r) \cap unacked[r] = {}
        /\ UNCHANGED <<claimed, unacked, failures, stage>>
    BY <1>2 DEF StartWorkers
  <2> QED BY <2>1, <2>2 DEF Bookkeeping, UnackedIsClaimed, OneTask, ClaimedIsPlanned,
                            UnackedIsWorkedOn, Blocked
<1>3. CASE EndRun(r) \/ Disperse(r)
  BY <1>3, ReturnBookkeeping DEF EndRun, Disperse
<1>4. CASE EndRunWithErrors(r)
  <2>1. \A q \in Runs : phase'[q] = IF q = r THEN "catching" ELSE phase[q]
    BY <1>4 DEF EndRunWithErrors, Catch, RestOK
  <2>2. Uninterrupted /\ UNCHANGED <<claimed, unacked, failures, stage>>
    BY <1>4 DEF EndRunWithErrors
  <2> QED BY <2>1, <2>2, UninterruptedIsAlone
          DEF Bookkeeping, UnackedIsClaimed, OneTask, ClaimedIsPlanned, UnackedIsWorkedOn,
              Blocked
<1>5. CASE OuterCatch(r)
  <2>1. CASE marking # {}
    BY <1>5, <2>1 DEF OuterCatch, Bookkeeping, UnackedIsClaimed, OneTask, ClaimedIsPlanned,
                      UnackedIsWorkedOn, Blocked
  <2>2. CASE marking = {}
    BY <1>5, <2>2, ReturnBookkeeping DEF OuterCatch
  <2> QED BY <2>1, <2>2
<1>6. ASSUME NEW t \in Tables, SendTable(r, t)
      PROVE  Bookkeeping'
  BY <1>6, SetStageBookkeeping, UninterruptedIsAlone DEF SendTable
<1>7. ASSUME NEW t \in Tables, Settle(r, t)
      PROVE  Bookkeeping'
  <2>1. PICK m \in Mutations : unacked' = [unacked EXCEPT ![r] = @ \ {m}]
    BY <1>7 DEF Settle, SettleAcknowledged, SettleUnacknowledged, SettleRejected
  <2>2. \A q \in Runs : unacked'[q] \subseteq unacked[q]
    BY <2>1 DEF RestOK
  <2> QED BY <1>7, <2>2 DEF Settle, Bookkeeping, UnackedIsClaimed, OneTask,
                            ClaimedIsPlanned, UnackedIsWorkedOn, Blocked
<1>8. ASSUME NEW t \in Tables, stage[r][t] \in Midway
      PROVE  phase[r] # "blocking"
  BY <1>8 DEF Bookkeeping, OneTask
<1>9. ASSUME NEW t \in Tables, FinishTable(r, t)
      PROVE  Bookkeeping'
  BY <1>8, <1>9, SetStageBookkeeping DEF FinishTable, EndTable
<1>10. ASSUME NEW t \in Tables, FailTable(r, t)
       PROVE  Bookkeeping'
  <2>1. CASE marking # {}
    BY <1>10, <2>1 DEF FailTable, Bookkeeping, UnackedIsClaimed, OneTask, ClaimedIsPlanned,
                       UnackedIsWorkedOn, Blocked
  <2>2. CASE marking = {}
    <3>1. failures' = [failures EXCEPT ![r] = TRUE] /\ failures'[r]
      BY <1>10, <2>2 DEF FailTable, RestOK
    <3> QED BY <1>8, <1>10, <2>2, <3>1, SetStageBookkeeping DEF FailTable, EndTable
  <2> QED BY <2>1, <2>2
<1> QED BY <1>1, <1>2, <1>3, <1>4, <1>5, <1>6, <1>7, <1>9, <1>10 DEF RunStep, TableStep

LEMMA FaultBookkeeping ==
    ASSUME RestOK, Bookkeeping, NEW r \in Runs, Faults(r)
    PROVE  Bookkeeping'
<1> USE DEF providerVars
<1>1. CASE BlockFails(r)
  <2>1. /\ \A q \in Runs : phase'[q] = IF q = r THEN "catching" ELSE phase[q]
        /\ \A q \in Runs, t \in Tables : stage'[q][t] = IF q = r THEN "none" ELSE stage[q][t]
        /\ UNCHANGED <<claimed, unacked, failures>>
        /\ phase[r] = "blocking"
    BY <1>1 DEF BlockFails, Catch, RestOK
  <2>2. UnackedIsClaimed' /\ OneTask'
    BY <2>1 DEF Bookkeeping, UnackedIsClaimed, OneTask
  <2>3. ClaimedIsPlanned'
    BY <2>1, ClaimedHasTable DEF Bookkeeping, ClaimedIsPlanned
  <2>4. UnackedIsWorkedOn'
    BY <2>1, ClaimedHasTable DEF Bookkeeping, UnackedIsWorkedOn, Blocked
  <2> QED BY <2>2, <2>3, <2>4 DEF Bookkeeping
<1>2. CASE OuterCatchFails(r)
  BY <1>2, ReturnBookkeeping DEF OuterCatchFails
<1>3. ASSUME NEW t \in Tables, TransportFails(r, t)
      PROVE  Bookkeeping'
  BY <1>3, SetStageBookkeeping, NewTaskIsAlone DEF TransportFails, ThrowInTable
<1>4. ASSUME NEW t \in Tables, stage[r][t] \in Midway
      PROVE  phase[r] # "blocking"
  BY <1>4 DEF Bookkeeping, OneTask
<1>5. ASSUME NEW t \in Tables, SettleFails(r, t) \/ ClearTombstoneFails(r, t)
      PROVE  Bookkeeping'
  BY <1>4, <1>5, SetStageBookkeeping DEF SettleFails, ClearTombstoneFails, ThrowInTable
<1>6. ASSUME NEW t \in Tables, FailTableFails(r, t)
      PROVE  Bookkeeping'
  <2>1. /\ phase' = IF phase[r] = "working" THEN [phase EXCEPT ![r] = "catching"] ELSE phase
        /\ \A q \in Runs, u \in Tables :
              stage'[q][u] = IF q = r /\ u = t THEN "done" ELSE stage[q][u]
        /\ stage[r][t] = "failing"
        /\ UNCHANGED <<claimed, unacked, failures>>
    BY <1>6 DEF FailTableFails, Catch, EndTable, SetStage, RestOK
  <2>2. \A q \in Runs : \/ phase'[q] = phase[q] /\ (q = r => phase[q] # "working")
                        \/ q = r /\ phase'[q] = "catching" /\ phase[q] = "working"
    BY <2>1 DEF RestOK
  <2>3. UnackedIsClaimed'
    BY <2>1 DEF Bookkeeping, UnackedIsClaimed
  <2>4. OneTask'
    BY <2>1, <2>2 DEF Bookkeeping, OneTask
  <2>5. ClaimedIsPlanned'
    BY <1>4, <2>1, <2>2, ClaimedHasTable DEF Bookkeeping, ClaimedIsPlanned
  <2>6. UnackedIsWorkedOn'
    BY <2>1, <2>2, ClaimedHasTable DEF Bookkeeping, UnackedIsWorkedOn, Blocked
  <2> QED BY <2>3, <2>4, <2>5, <2>6 DEF Bookkeeping
<1> QED BY <1>1, <1>2, <1>3, <1>5, <1>6 DEF Faults

LEMMA StartRunBookkeeping ==
    ASSUME queue \in QueueType, RestOK, Bookkeeping,
           NEW r \in Runs, NEW requested \in Requests, StartRun(r, requested)
    PROVE  Bookkeeping'
<1>1. PICK S \in SUBSET Due(queue, 0, requested), loaded \in SUBSET requested :
         /\ {TableOf[m] : m \in S} \subseteq loaded
         /\ claimed' = [claimed EXCEPT ![r] = S]
         /\ unacked' = [unacked EXCEPT ![r] = S]
         /\ stage' = [stage EXCEPT ![r] =
                         [t \in Tables |-> IF t \in loaded THEN "todo" ELSE "none"]]
  BY DEF StartRun
<1>2. S \subseteq Mutations
  BY DueIsQueued, QueueDomain
<1>3. /\ \A q \in Runs : phase'[q] = IF q = r THEN "blocking" ELSE phase[q]
      /\ NewTask /\ UNCHANGED failures
  BY DEF StartRun, RestOK
<1>4. UnackedIsClaimed'
  BY <1>1 DEF RestOK, Bookkeeping, UnackedIsClaimed
<1>5. \A q \in Runs, t \in Tables : stage'[q][t] \notin Midway
  BY <1>1, <1>3, NewTaskIsAlone DEF RestOK
<1>6. OneTask'
  BY <1>3, <1>5, NewTaskIsAlone DEF OneTask
<1>7. ClaimedIsPlanned'
  <2> SUFFICES ASSUME NEW q \in Runs, phase'[q] = "blocking", NEW m \in claimed'[q]
               PROVE  stage'[q][TableOf[m]] = "todo"
    BY DEF ClaimedIsPlanned
  <2>1. q = r
    BY <1>3, NewTaskIsAlone
  <2>2. m \in S
    BY <1>1, <2>1 DEF RestOK
  <2>3. TableOf[m] \in loaded /\ TableOf[m] \in Tables
    BY <1>1, <1>2, <2>2, EngineAssumption
  <2> QED BY <1>1, <2>1, <2>3 DEF RestOK
<1>8. UnackedIsWorkedOn'
  <2> SUFFICES ASSUME NEW q \in Runs, phase'[q] = "working"
               PROVE  \A m \in unacked'[q] :
                         /\ m \notin Blocked(q)'
                         /\ \/ failures'[q]
                            \/ stage'[q][TableOf[m]] \in {"todo", "sent", "settling", "failing"}
    BY DEF UnackedIsWorkedOn
  <2>1. q # r /\ phase[q] = "working"
    BY <1>3
  <2>2. /\ claimed'[q] = claimed[q] /\ unacked'[q] = unacked[q] /\ stage'[q] = stage[q]
        /\ failures'[q] = failures[q]
    BY <1>1, <1>3, <2>1 DEF RestOK
  <2>3. Blocked(q)' = Blocked(q)
    BY <2>2 DEF Blocked
  <2> QED BY <2>1, <2>2, <2>3 DEF Bookkeeping, UnackedIsWorkedOn
<1> QED BY <1>4, <1>6, <1>7, <1>8 DEF Bookkeeping

LEMMA SameRunsBookkeeping ==
    ASSUME Bookkeeping, UNCHANGED runVars
    PROVE  Bookkeeping'
BY DEF runVars, Bookkeeping, UnackedIsClaimed, OneTask, ClaimedIsPlanned, UnackedIsWorkedOn,
       Blocked

LEMMA BookkeepingIsInductive ==
    TypeOK /\ Bookkeeping /\ [Next]_vars => Bookkeeping'
<1> SUFFICES ASSUME TypeOK, Bookkeeping, [Next]_vars PROVE Bookkeeping'
  OBVIOUS
<1>1. queue \in QueueType /\ RestOK
  BY TypeOKParts
<1>2. ASSUME NEW m \in Mutations,
             Mutate(m) \/ UserRetries(m) \/ UserDiscards(m) \/ BackoffElapses(m)
      PROVE  Bookkeeping'
  BY <1>2, SameRunsBookkeeping DEF Mutate, UserRetries, UserDiscards, BackoffElapses
<1>3. CASE RequestSync \/ ClaimFails \/ Restart \/ Reinitialize \/ Remount
  BY <1>3, SameRunsBookkeeping DEF RequestSync, ClaimFails, Restart, Reinitialize, Remount
<1>4. ASSUME NEW r \in Runs, NEW t \in Tables, DeliverAnswer(r, t)
      PROVE  Bookkeeping'
  <2>1. /\ SetStage(r, t, "settling") /\ NewTask
        /\ UNCHANGED <<phase, claimed, unacked, failures>>
    BY <1>4 DEF DeliverAnswer, Deliver
  <2> QED BY <1>1, <2>1, SetStageBookkeeping, NewTaskIsAlone
<1>5. CASE Crash
  BY <1>5 DEF Crash, ForgetRuns, Bookkeeping, UnackedIsClaimed, OneTask, ClaimedIsPlanned,
              UnackedIsWorkedOn
<1>6. CASE UNCHANGED vars
  BY <1>6, SameRunsBookkeeping DEF vars
<1> QED BY <1>1, <1>2, <1>3, <1>4, <1>5, <1>6, StepBookkeeping, FaultBookkeeping,
           StartRunBookkeeping
        DEF Next

----------------------------------------------------------------------------
(***************************************************************************)
(* Ownership of what is being sent                                         *)
(***************************************************************************)
Syncing(q) == WithStatus(q, {"SYNCING"})

USE DEF Syncing

\* It is enough to see where the owner of a mutation that stays SYNCING goes.
LEMMA OwnerKept ==
    ASSUME SyncingIsOwned, mounted' => mounted,
           Syncing(queue') \ stranded' \subseteq Syncing(queue) \ stranded,
           \A r \in Runs : \A m \in Syncing(queue') \ stranded' :
               Owns(r, m) => Owns(r, m)'
    PROVE  SyncingIsOwned'
BY DEF SyncingIsOwned

LEMMA StatementsSettle ==
    ASSUME queue \in QueueType, NEW m \in Mutations
    PROVE  /\ Syncing(MarkPending(queue, m)) \subseteq Syncing(queue) \ {m}
           /\ Syncing(MarkFailed(queue, m, 0)) \subseteq Syncing(queue) \ {m}
           /\ Syncing(MarkRejected(queue, m)) \subseteq Syncing(queue) \ {m}
           /\ Syncing(RemoveMutation(queue, m)) \subseteq Syncing(queue) \ {m}
<1>1. Syncing(MarkFailed(queue, m, 0)) \subseteq Syncing(queue) \ {m}
  BY FailedIsNotSyncing
<1>2. /\ Syncing(MarkPending(queue, m)) \subseteq Syncing(queue) \ {m}
      /\ Syncing(MarkRejected(queue, m)) \subseteq Syncing(queue) \ {m}
      /\ Syncing(RemoveMutation(queue, m)) \subseteq Syncing(queue) \ {m}
  BY NothingNewSyncing
<1> QED BY <1>1, <1>2

LEMMA MarkingFails ==
    ASSUME queue \in QueueType, MarkNextFailed
    PROVE  \E n \in Mutations : /\ marking' = marking \ {n}
                                /\ Syncing(queue') \subseteq Syncing(queue) \ {n}
BY StatementsSettle DEF MarkNextFailed

\* A run that returns was not the owner of anything any more.
LEMMA ReturnOwned ==
    ASSUME RestOK, SyncingIsOwned, NEW r \in Runs, Return(r),
           UNCHANGED <<queue, marking, stranded>>,
           \A m \in Syncing(queue) \ stranded : ~Owns(r, m)
    PROVE  SyncingIsOwned'
<1>1. ASSUME NEW q \in Runs, NEW m \in Syncing(queue) \ stranded, Owns(q, m)
      PROVE  Owns(q, m)'
  <2>1. q # r
    BY <1>1
  <2>2. phase'[q] = phase[q] /\ unacked'[q] = unacked[q]
    BY <2>1 DEF Return, RestOK
  <2> QED BY <1>1, <2>2 DEF Owns
<1> QED BY <1>1, OwnerKept DEF Return

LEMMA StepOwned ==
    ASSUME TypeOK, Bookkeeping, SyncingIsOwned, NEW r \in Runs, RunStep(r)
    PROVE  SyncingIsOwned'
<1> USE DEF providerVars
<1>1. queue \in QueueType /\ RestOK
  BY TypeOKParts
<1>2. ASSUME UNCHANGED <<mounted, phase, claimed, stranded, marking>>,
             NEW n \in Mutations, Syncing(queue') \subseteq Syncing(queue) \ {n},
             unacked' = [unacked EXCEPT ![r] = @ \ {n}]
      PROVE  SyncingIsOwned'
  <2>1. \A q \in Runs : unacked[q] \ {n} \subseteq unacked'[q]
    BY <1>1, <1>2 DEF RestOK
  <2> QED BY <1>2, <2>1, OwnerKept DEF Owns
<1>3. CASE Block(r)
  <2>1. PICK n \in Mutations : /\ queue' = MarkPending(queue, n)
                               /\ unacked' = [unacked EXCEPT ![r] = @ \ {n}]
    BY <1>3 DEF Block
  <2>2. Syncing(queue') \subseteq Syncing(queue) \ {n}
    BY <1>1, <2>1, StatementsSettle
  <2> QED BY <1>2, <1>3, <2>1, <2>2 DEF Block
<1>4. CASE StartWorkers(r)
  <2>1. \A q \in Runs : phase[q] \in {"blocking", "working"}
                           => phase'[q] \in {"blocking", "working"}
    BY <1>1, <1>4 DEF StartWorkers, RestOK
  <2>2. \A q \in Runs : phase[q] = "catching" => phase'[q] = "catching"
    BY <1>1, <1>4 DEF StartWorkers, RestOK
  <2>3. UNCHANGED <<queue, mounted, stranded, unacked, marking>>
    BY <1>4 DEF StartWorkers
  <2> QED BY <2>1, <2>2, <2>3, OwnerKept DEF Owns
<1>5. CASE EndRun(r)
  <2>1. \A m \in unacked[r] : FALSE
    <3> SUFFICES ASSUME NEW m \in unacked[r] PROVE FALSE
      OBVIOUS
    <3>1. TableOf[m] \in Tables
      BY <1>1, ClaimedHasTable
    <3>2. stage[r][TableOf[m]] \in {"todo", "sent", "settling", "failing"}
      BY <1>5 DEF EndRun, Bookkeeping, UnackedIsWorkedOn
    <3> QED BY <1>5, <3>1, <3>2 DEF EndRun, InStage, Stages
  <2>2. \A m \in Mutations : ~Owns(r, m)
    BY <1>5, <2>1 DEF EndRun, Owns
  <2>3. Syncing(queue) \subseteq Mutations
    BY <1>1, QueueDomain DEF WithStatus
  <2> QED BY <1>1, <1>5, <2>2, <2>3, ReturnOwned DEF EndRun
<1>6. CASE EndRunWithErrors(r)
  <2>1. \A q \in Runs : phase'[q] = IF q = r THEN "catching" ELSE phase[q]
    BY <1>1, <1>6 DEF EndRunWithErrors, Catch, RestOK
  <2>2. /\ marking' = unacked[r] /\ \A q \in Runs : phase[q] # "catching"
        /\ UNCHANGED <<queue, mounted, unacked, stranded>>
    BY <1>1, <1>6, ClaimedHasTable, UninterruptedIsAlone DEF EndRunWithErrors, Catch
  <2> QED BY <2>1, <2>2, OwnerKept DEF Owns
<1>7. CASE OuterCatch(r)
  <2>1. CASE marking # {}
    <3>1. UNCHANGED <<mounted, phase, unacked, stranded>> /\ MarkNextFailed
      BY <1>7, <2>1 DEF OuterCatch
    <3>2. PICK n \in Mutations : /\ marking' = marking \ {n}
                                 /\ Syncing(queue') \subseteq Syncing(queue) \ {n}
      BY <1>1, <3>1, MarkingFails
    <3> QED BY <3>1, <3>2, OwnerKept DEF Owns
  <2>2. CASE marking = {}
    <3>1. \A m \in Mutations : ~Owns(r, m)
      BY <1>7, <2>2 DEF OuterCatch, Owns
    <3>2. Syncing(queue) \subseteq Mutations
      BY <1>1, QueueDomain DEF WithStatus
    <3> QED BY <1>1, <1>7, <2>2, <3>1, <3>2, ReturnOwned DEF OuterCatch
  <2> QED BY <2>1, <2>2
<1>8. CASE Disperse(r)
  <2>1. \A m \in Syncing(queue) : ~Owns(r, m)
    BY <1>8 DEF Disperse, Owns
  <2> QED BY <1>1, <1>8, <2>1, ReturnOwned DEF Disperse
<1>9. ASSUME NEW t \in Tables, SendTable(r, t) \/ FinishTable(r, t)
      PROVE  SyncingIsOwned'
  BY <1>9, OwnerKept DEF SendTable, FinishTable, Owns
<1>10. ASSUME NEW t \in Tables, Settle(r, t)
       PROVE  SyncingIsOwned'
  <2>1. PICK n \in Mutations :
           /\ queue' \in {RemoveMutation(queue, n), MarkFailed(queue, n, 0),
                          MarkRejected(queue, n)}
           /\ unacked' = [unacked EXCEPT ![r] = @ \ {n}]
    BY <1>10 DEF Settle, SettleAcknowledged, SettleUnacknowledged, SettleRejected
  <2>2. Syncing(queue') \subseteq Syncing(queue) \ {n}
    BY <1>1, <2>1, StatementsSettle
  <2> QED BY <1>2, <1>10, <2>1, <2>2 DEF Settle
<1>11. ASSUME NEW t \in Tables, FailTable(r, t)
       PROVE  SyncingIsOwned'
  <2>1. /\ \A q \in Runs : phase[q] # "catching"
        /\ UNCHANGED <<mounted, phase, unacked, stranded>>
    BY <1>11 DEF FailTable, Bookkeeping, OneTask
  <2>2. Syncing(queue') \subseteq Syncing(queue)
    BY <1>1, <1>11, MarkingFails DEF FailTable
  <2> QED BY <2>1, <2>2, OwnerKept DEF Owns
<1> QED BY <1>3, <1>4, <1>5, <1>6, <1>7, <1>8, <1>9, <1>10, <1>11 DEF RunStep, TableStep

LEMMA FaultOwned ==
    ASSUME TypeOK, Bookkeeping, SyncingIsOwned, NEW r \in Runs, Faults(r)
    PROVE  SyncingIsOwned'
<1> USE DEF providerVars
<1>1. queue \in QueueType /\ RestOK
  BY TypeOKParts
<1>2. CASE BlockFails(r)
  <2>1. /\ \A q \in Runs : phase'[q] = IF q = r THEN "catching" ELSE phase[q]
        /\ phase[r] = "blocking"
        /\ UNCHANGED <<queue, mounted, unacked, stranded>>
    BY <1>1, <1>2 DEF BlockFails, Catch, RestOK
  <2>2. marking' = unacked[r] /\ \A q \in Runs : phase[q] # "catching"
    BY <1>2, <2>1, ClaimedHasTable, <1>1 DEF BlockFails, Catch, Bookkeeping, OneTask
  <2> QED BY <2>1, <2>2, OwnerKept DEF Owns
<1>3. CASE OuterCatchFails(r)
  <2>1. /\ phase[r] = "catching" /\ stranded' = stranded \cup marking
        /\ Return(r) /\ UNCHANGED queue
    BY <1>3 DEF OuterCatchFails
  <2>2. ASSUME NEW q \in Runs, NEW m \in Syncing(queue) \ stranded', Owns(q, m)
        PROVE  Owns(q, m)'
    <3>1. q # r
      BY <2>1, <2>2 DEF Owns
    <3>2. phase[q] # "catching"
      BY <2>1, <3>1 DEF Bookkeeping, OneTask
    <3>3. phase'[q] = phase[q] /\ unacked'[q] = unacked[q]
      BY <1>1, <2>1, <3>1 DEF Return, RestOK
    <3> QED BY <2>2, <3>2, <3>3 DEF Owns
  <2> QED BY <2>1, <2>2, OwnerKept DEF Return
<1>4. ASSUME NEW t \in Tables, stage[r][t] \in Midway
      PROVE  \A q \in Runs : phase[q] \notin Between
  BY <1>4 DEF Bookkeeping, OneTask
<1>5. ASSUME \A q \in Runs : phase[q] \notin Between,
             UNCHANGED <<mounted, phase, unacked, stranded>>,
             Syncing(queue') \subseteq Syncing(queue)
      PROVE  SyncingIsOwned'
  BY <1>5, OwnerKept DEF Owns
<1>6. ASSUME NEW t \in Tables, TransportFails(r, t)
      PROVE  SyncingIsOwned'
  BY <1>5, <1>6, NewTaskIsAlone DEF TransportFails
<1>7. ASSUME NEW t \in Tables, SettleFails(r, t)
      PROVE  SyncingIsOwned'
  BY <1>4, <1>5, <1>7 DEF SettleFails
<1>8. ASSUME NEW t \in Tables, ClearTombstoneFails(r, t)
      PROVE  SyncingIsOwned'
  <2>1. Syncing(queue') \subseteq Syncing(queue)
    BY <1>1, <1>8, StatementsSettle DEF ClearTombstoneFails
  <2> QED BY <1>4, <1>5, <1>8, <2>1 DEF ClearTombstoneFails
<1>9. ASSUME NEW t \in Tables, FailTableFails(r, t)
      PROVE  SyncingIsOwned'
  <2>1. /\ \A q \in Runs : phase[q] \notin Between
        /\ UNCHANGED <<queue, mounted, unacked, stranded>>
    BY <1>4, <1>9 DEF FailTableFails
  <2>2. CASE phase[r] = "working"
    <3>1. /\ \A q \in Runs : phase'[q] = IF q = r THEN "catching" ELSE phase[q]
          /\ marking' = unacked[r]
      BY <1>1, <1>9, <2>2, ClaimedHasTable DEF FailTableFails, Catch, RestOK
    <3> QED BY <2>1, <3>1, OwnerKept DEF Owns
  <2>3. CASE phase[r] # "working"
    BY <1>5, <1>9, <2>1, <2>3 DEF FailTableFails
  <2> QED BY <2>2, <2>3
<1> QED BY <1>2, <1>3, <1>6, <1>7, <1>8, <1>9 DEF Faults

LEMMA StartRunOwned ==
    ASSUME TypeOK, Bookkeeping, SyncingIsOwned,
           NEW r \in Runs, NEW requested \in Requests, StartRun(r, requested)
    PROVE  SyncingIsOwned'
<1>1. queue \in QueueType /\ RestOK
  BY TypeOKParts
<1>2. PICK S \in SUBSET Due(queue, 0, requested) :
         queue' = MarkSyncing(queue, S) /\ unacked' = [unacked EXCEPT ![r] = S]
  BY DEF StartRun
<1>3. Syncing(queue') \subseteq Syncing(queue) \cup S
  BY <1>1, <1>2, DueIsQueued, ClaimIsSyncing
<1>4. /\ \A q \in Runs : phase'[q] = IF q = r THEN "blocking" ELSE phase[q]
      /\ phase[r] = "free" /\ UNCHANGED <<mounted, marking, stranded>>
  BY <1>1 DEF StartRun, RestOK
<1>5. \A q \in Runs : unacked'[q] = IF q = r THEN S ELSE unacked[q]
  BY <1>1, <1>2 DEF RestOK
<1>6. \A m \in S : Owns(r, m)'
  BY <1>4, <1>5 DEF Owns
<1>7. \A q \in Runs : \A m : Owns(q, m) => Owns(q, m)'
  BY <1>4, <1>5 DEF Owns
<1> QED BY <1>3, <1>4, <1>6, <1>7 DEF SyncingIsOwned

LEMMA OwnershipIsInductive ==
    TypeOK /\ Bookkeeping /\ SyncingIsOwned /\ [Next]_vars => SyncingIsOwned'
<1> SUFFICES ASSUME TypeOK, Bookkeeping, SyncingIsOwned, [Next]_vars PROVE SyncingIsOwned'
  OBVIOUS
<1>1. queue \in QueueType
  BY TypeOKParts
<1>2. ASSUME UNCHANGED <<mounted, phase, unacked, marking, stranded>>,
             Syncing(queue') \subseteq Syncing(queue)
      PROVE  SyncingIsOwned'
  BY <1>2, OwnerKept DEF Owns
<1>3. ASSUME NEW m \in Mutations, Mutate(m)
      PROVE  SyncingIsOwned'
  <2>1. Syncing(queue') \subseteq Syncing(queue)
    BY <1>1, <1>3, SavedIsNotSyncing DEF Mutate
  <2> QED BY <1>2, <1>3, <2>1 DEF Mutate, providerVars, runVars
<1>4. ASSUME NEW m \in Mutations, UserRetries(m) \/ UserDiscards(m)
      PROVE  SyncingIsOwned'
  <2>1. Syncing(queue') \subseteq Syncing(queue)
    BY <1>1, <1>4, NothingNewSyncing DEF UserRetries, UserDiscards
  <2> QED BY <1>2, <1>4, <2>1 DEF UserRetries, UserDiscards, providerVars, runVars
<1>5. ASSUME NEW m \in Mutations, BackoffElapses(m)
      PROVE  SyncingIsOwned'
  <2>1. Syncing(queue') \subseteq Syncing(queue)
    BY <1>1, <1>5 DEF BackoffElapses, WithStatus, Queued, QueueOf, RowOf
  <2> QED BY <1>2, <1>5, <2>1 DEF BackoffElapses, providerVars, runVars
<1>6. CASE RequestSync \/ ClaimFails \/ UNCHANGED vars
  BY <1>2, <1>6 DEF RequestSync, ClaimFails, vars, providerVars, runVars
<1>7. ASSUME NEW r \in Runs, NEW t \in Tables, DeliverAnswer(r, t)
      PROVE  SyncingIsOwned'
  BY <1>2, <1>7 DEF DeliverAnswer, Deliver, providerVars
<1>8. CASE Crash
  BY <1>8 DEF Crash, SyncingIsOwned
<1>9. CASE Restart \/ Reinitialize \/ Remount
  <2>1. Syncing(queue') = {}
    BY <1>1, <1>9, NothingSyncingRecovered DEF Restart, Reinitialize, Remount
  <2> QED BY <2>1 DEF SyncingIsOwned
<1> QED BY <1>3, <1>4, <1>5, <1>6, <1>7, <1>8, <1>9, StepOwned, FaultOwned, StartRunOwned
        DEF Next

\* No mutation is left SYNCING without a run that will settle it, put it back or
\* mark it failed, whatever fails and whenever the process dies, except when a
\* failure handler failed itself (unackedIds and the two catches of sync in
\* provider.tsx, recoverSyncing in storage.ts).
THEOREM NothingLeftSyncing == Spec => []SyncingIsOwned
<1>1. Init => Bookkeeping /\ SyncingIsOwned
  <2>1. Init => Bookkeeping
    BY DEF Init, Bookkeeping, UnackedIsClaimed, OneTask, ClaimedIsPlanned, UnackedIsWorkedOn
  <2>2. Init => SyncingIsOwned
    BY DEF Init, SyncingIsOwned, WithStatus, Queued
  <2> QED BY <2>1, <2>2
<1>2. TypeOK /\ (Bookkeeping /\ SyncingIsOwned) /\ [Next]_vars
         => (Bookkeeping /\ SyncingIsOwned)'
  BY BookkeepingIsInductive, OwnershipIsInductive
<1> QED BY <1>1, <1>2, TypeCorrect, PTL DEF Spec

----------------------------------------------------------------------------
(***************************************************************************)
(* Acknowledgements                                                        *)
(***************************************************************************)
\* A step after which no other answer is settled, and none is settled anew.
LEMMA AnswersKept ==
    ASSUME AnswersAreTrue, applied \subseteq applied',
           \A r \in Runs, t \in Tables :
              stage'[r][t] = "settling" =>
                 /\ stage[r][t] = "settling"
                 /\ claimed'[r] = claimed[r] /\ reply'[r][t] = reply[r][t]
    PROVE  AnswersAreTrue'
<1> SUFFICES ASSUME NEW r \in Runs, NEW t \in Tables, stage'[r][t] = "settling"
             PROVE  Acknowledged(r, t)' \subseteq applied'
  BY DEF AnswersAreTrue
<1>1. claimed'[r] = claimed[r] /\ reply'[r][t] = reply[r][t] /\ stage[r][t] = "settling"
  OBVIOUS
<1>2. Acknowledged(r, t)' = Acknowledged(r, t)
  BY <1>1 DEF Acknowledged, Batch, Blocked
<1> QED BY <1>1, <1>2 DEF AnswersAreTrue

LEMMA ReturnAnswers ==
    ASSUME RestOK, AnswersAreTrue, NEW r \in Runs, Return(r), UNCHANGED applied
    PROVE  AnswersAreTrue'
<1>1. \A q \in Runs, t \in Tables :
         stage'[q][t] = "settling" =>
            /\ stage[q][t] = "settling"
            /\ claimed'[q] = claimed[q] /\ reply'[q][t] = reply[q][t]
  BY DEF Return, RestOK
<1> QED BY <1>1, AnswersKept

\* Tables only leave the stage in which answers are settled.
LEMMA SetStageAnswers ==
    ASSUME RestOK, AnswersAreTrue, NEW r \in Runs, NEW t \in Tables,
           NEW s \in Stages \ {"settling"}, SetStage(r, t, s), UNCHANGED claimed,
           applied \subseteq applied',
           reply' = reply \/ reply' = [reply EXCEPT ![r] = [@ EXCEPT ![t] = NoReply]]
    PROVE  AnswersAreTrue'
<1>1. \A q \in Runs, u \in Tables :
         stage'[q][u] = IF q = r /\ u = t THEN s ELSE stage[q][u]
  BY DEF SetStage, RestOK
<1>2. \A q \in Runs, u \in Tables : q # r \/ u # t => reply'[q][u] = reply[q][u]
  BY DEF RestOK
<1> QED BY <1>1, <1>2, AnswersKept

LEMMA StepAnswers ==
    ASSUME RestOK, AnswersAreTrue, NEW r \in Runs, RunStep(r) \/ Faults(r)
    PROVE  AnswersAreTrue'
<1> USE DEF Stages
<1>1. ASSUME applied \subseteq applied', UNCHANGED <<claimed, stage, reply>>
      PROVE  AnswersAreTrue'
  BY <1>1, AnswersKept
<1>2. CASE Block(r) \/ StartWorkers(r) \/ EndRunWithErrors(r)
  BY <1>1, <1>2 DEF Block, StartWorkers, EndRunWithErrors
<1>3. CASE EndRun(r) \/ Disperse(r) \/ OuterCatchFails(r)
  BY <1>3, ReturnAnswers DEF EndRun, Disperse, OuterCatchFails
<1>4. CASE OuterCatch(r)
  BY <1>1, <1>4, ReturnAnswers DEF OuterCatch
<1>5. CASE BlockFails(r)
  <2>1. \A q \in Runs, t \in Tables : stage'[q][t] = "settling" => stage[q][t] = "settling"
    BY <1>5 DEF BlockFails, RestOK
  <2> QED BY <1>5, <2>1, AnswersKept DEF BlockFails
<1>6. ASSUME NEW t \in Tables, Settle(r, t)
      PROVE  AnswersAreTrue'
  BY <1>1, <1>6 DEF Settle
<1>7. ASSUME NEW t \in Tables, SendTable(r, t) \/ FinishTable(r, t) \/ FailTableFails(r, t)
      PROVE  AnswersAreTrue'
  BY <1>7, SetStageAnswers DEF SendTable, FinishTable, FailTableFails, EndTable
<1>8. ASSUME NEW t \in Tables, FailTable(r, t)
      PROVE  AnswersAreTrue'
  BY <1>1, <1>8, SetStageAnswers DEF FailTable, EndTable
<1>9. ASSUME NEW t \in Tables,
             TransportFails(r, t) \/ SettleFails(r, t) \/ ClearTombstoneFails(r, t)
      PROVE  AnswersAreTrue'
  BY <1>9, SetStageAnswers
     DEF TransportFails, SettleFails, ClearTombstoneFails, ThrowInTable
<1> QED BY <1>2, <1>3, <1>4, <1>5, <1>6, <1>7, <1>8, <1>9 DEF RunStep, TableStep, Faults

\* An answer that names ids of other batches acknowledges nothing by them.
LEMMA DeliveredAnswers ==
    ASSUME RestOK, AnswersAreTrue, NEW r \in Runs, NEW t \in Tables, DeliverAnswer(r, t)
    PROVE  AnswersAreTrue'
<1>1. PICK ack \in SUBSET Batch(r, t), foreign \in {{}, Strays \ Batch(r, t)} :
         \E reject \in SUBSET (Batch(r, t) \ ack) : Deliver(r, t, ack, reject, foreign)
  BY DEF DeliverAnswer
<1>2. /\ applied' = applied \cup ack /\ UNCHANGED claimed
      /\ reply'[r][t].ack = ack \cup foreign
      /\ \A q \in Runs, u \in Tables : q # r \/ u # t =>
            stage'[q][u] = stage[q][u] /\ reply'[q][u] = reply[q][u]
  BY <1>1 DEF Deliver, SetStage, RestOK
<1> SUFFICES ASSUME NEW q \in Runs, NEW u \in Tables, stage'[q][u] = "settling"
             PROVE  Acknowledged(q, u)' \subseteq applied'
  BY DEF AnswersAreTrue
<1>3. Batch(q, u)' = Batch(q, u)
  BY <1>2 DEF Batch, Blocked
<1>4. CASE q = r /\ u = t
  BY <1>2, <1>3, <1>4 DEF Acknowledged
<1>5. CASE q # r \/ u # t
  <2>1. Acknowledged(q, u)' = Acknowledged(q, u)
    BY <1>2, <1>3, <1>5 DEF Acknowledged
  <2> QED BY <1>2, <1>5, <2>1 DEF AnswersAreTrue
<1> QED BY <1>4, <1>5

LEMMA AnswersAreInductive ==
    TypeOK /\ AnswersAreTrue /\ [Next]_vars => AnswersAreTrue'
<1> SUFFICES ASSUME TypeOK, AnswersAreTrue, [Next]_vars PROVE AnswersAreTrue'
  OBVIOUS
<1>1. RestOK
  BY TypeOKParts
<1>2. ASSUME UNCHANGED <<applied, claimed, stage, reply>>
      PROVE  AnswersAreTrue'
  BY <1>2, AnswersKept
<1>3. ASSUME NEW m \in Mutations,
             Mutate(m) \/ UserRetries(m) \/ UserDiscards(m) \/ BackoffElapses(m)
      PROVE  AnswersAreTrue'
  BY <1>2, <1>3 DEF Mutate, UserRetries, UserDiscards, BackoffElapses, runVars
<1>4. CASE RequestSync \/ ClaimFails \/ Restart \/ Reinitialize \/ Remount \/ UNCHANGED vars
  BY <1>2, <1>4
     DEF RequestSync, ClaimFails, Restart, Reinitialize, Remount, vars, runVars
<1>5. ASSUME NEW r \in Runs, NEW requested \in Requests, StartRun(r, requested)
      PROVE  AnswersAreTrue'
  <2>1. PICK loaded \in SUBSET requested :
           stage' = [stage EXCEPT ![r] =
                        [t \in Tables |-> IF t \in loaded THEN "todo" ELSE "none"]]
    BY <1>5 DEF StartRun
  <2>2. \A q \in Runs, t \in Tables : stage'[q][t] # "settling"
    BY <1>1, <1>5, <2>1, NewTaskIsAlone DEF StartRun, RestOK
  <2> QED BY <2>2 DEF AnswersAreTrue
<1>6. CASE Crash
  BY <1>6 DEF Crash, ForgetRuns, AnswersAreTrue
<1> QED BY <1>1, <1>3, <1>4, <1>5, <1>6, StepAnswers, DeliveredAnswers DEF Next

\* outcome becomes ACKED only while an answer is settled, and what is applied
\* stays applied.
StaysTrue ==
    /\ applied \subseteq applied'
    /\ \A m \in Mutations : outcome'[m] = "ACKED" => outcome[m] = "ACKED" \/ m \in applied

LEMMA SettledIsApplied ==
    ASSUME RestOK, AnswersAreTrue, NEW r \in Runs, NEW t \in Tables,
           Settle(r, t) \/ ClearTombstoneFails(r, t)
    PROVE  StaysTrue
<1>1. stage[r][t] = "settling" /\ UNCHANGED applied
  BY DEF Settle, ClearTombstoneFails
<1>2. CASE UNCHANGED outcome
  BY <1>1, <1>2 DEF StaysTrue
<1>3. CASE outcome' # outcome
  <2>1. PICK n \in Acknowledged(r, t) : outcome' = RecordAcknowledged(n)
    BY <1>3 DEF Settle, ClearTombstoneFails, SettleAcknowledged, SettleUnacknowledged,
                SettleRejected, IsNext
  <2>2. n \in applied
    BY <1>1 DEF AnswersAreTrue
  <2> QED BY <1>1, <2>1, <2>2 DEF RecordAcknowledged, RestOK, StaysTrue
<1> QED BY <1>2, <1>3

LEMMA StaysTrueStep ==
    TypeOK /\ AnswersAreTrue /\ [Next]_vars => StaysTrue
<1> SUFFICES ASSUME TypeOK, AnswersAreTrue, [Next]_vars PROVE StaysTrue
  OBVIOUS
<1>1. RestOK
  BY TypeOKParts
<1>2. ASSUME applied \subseteq applied', UNCHANGED outcome PROVE StaysTrue
  BY <1>2 DEF StaysTrue
<1>3. ASSUME NEW m \in Mutations,
             Mutate(m) \/ UserRetries(m) \/ UserDiscards(m) \/ BackoffElapses(m)
      PROVE  StaysTrue
  BY <1>1, <1>2, <1>3
     DEF Mutate, UserRetries, UserDiscards, BackoffElapses, RestOK, StaysTrue
<1>4. CASE \/ RequestSync \/ ClaimFails \/ Crash \/ Restart \/ Reinitialize \/ Remount
           \/ UNCHANGED vars
  BY <1>2, <1>4
     DEF RequestSync, ClaimFails, Crash, Restart, Reinitialize, Remount, vars
<1>5. ASSUME NEW r \in Runs, NEW requested \in Requests, StartRun(r, requested)
      PROVE  StaysTrue
  BY <1>2, <1>5 DEF StartRun
<1>6. ASSUME NEW r \in Runs, NEW t \in Tables, DeliverAnswer(r, t)
      PROVE  StaysTrue
  BY <1>2, <1>6 DEF DeliverAnswer, Deliver
<1>7. ASSUME NEW r \in Runs, RunStep(r)
      PROVE  StaysTrue
  <2>1. CASE \/ Block(r) \/ StartWorkers(r) \/ EndRun(r) \/ EndRunWithErrors(r)
             \/ OuterCatch(r) \/ Disperse(r)
    BY <1>2, <2>1
       DEF Block, StartWorkers, EndRun, EndRunWithErrors, OuterCatch, Disperse
  <2>2. ASSUME NEW t \in Tables, SendTable(r, t) \/ FinishTable(r, t) \/ FailTable(r, t)
        PROVE  StaysTrue
    BY <1>2, <2>2 DEF SendTable, FinishTable, FailTable
  <2> QED BY <1>1, <1>7, <2>1, <2>2, SettledIsApplied DEF RunStep, TableStep
<1>8. ASSUME NEW r \in Runs, Faults(r)
      PROVE  StaysTrue
  <2>1. CASE BlockFails(r) \/ OuterCatchFails(r)
    BY <1>2, <2>1 DEF BlockFails, OuterCatchFails
  <2>2. ASSUME NEW t \in Tables,
               TransportFails(r, t) \/ SettleFails(r, t) \/ FailTableFails(r, t)
        PROVE  StaysTrue
    BY <1>2, <2>2 DEF TransportFails, SettleFails, FailTableFails
  <2> QED BY <1>1, <1>8, <2>1, <2>2, SettledIsApplied DEF Faults
<1> QED BY <1>3, <1>4, <1>5, <1>6, <1>7, <1>8 DEF Next

\* A mutation leaves the queue as acknowledged only if the server applied it,
\* whatever ids the answers name and in whatever order they come
\* (partitionSyncMutations and settleSyncMutations in mutationSettlement.ts).
THEOREM OnlyAppliedIsAcknowledged == Spec => []AcknowledgedIsApplied
<1>1. Init => AnswersAreTrue /\ AcknowledgedIsApplied
  BY DEF Init, AnswersAreTrue, AcknowledgedIsApplied
<1>2. TypeOK /\ (AnswersAreTrue /\ AcknowledgedIsApplied) /\ [Next]_vars
         => (AnswersAreTrue /\ AcknowledgedIsApplied)'
  BY AnswersAreInductive, StaysTrueStep DEF StaysTrue, AcknowledgedIsApplied
<1> QED BY <1>1, <1>2, TypeCorrect, PTL DEF Spec
=============================================================================
