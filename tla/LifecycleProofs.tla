-------------------------- MODULE LifecycleProofs --------------------------
(***************************************************************************)
(* SyncEngine implements MutationLifecycle, for any mutations,             *)
(* dependencies, tables and claim limits, with crashes and restarts: as    *)
(* long as one provider runs and failure handlers do not fail.             *)
(***************************************************************************)
EXTENDS SyncEngineProofs

USE DEF QueueType, Between, Midway

\* The failure handlers work, and no second provider has a chain of its own.
OneProvider == ~HandlersFail /\ MaxRemounts = 0

----------------------------------------------------------------------------
(***************************************************************************)
(* What the statements do to the status of a mutation                      *)
(***************************************************************************)
StatusOf(q, m) == IF q[m] = NoRow THEN "NONE" ELSE q[m].status

\* The status of m becomes status if it is queued; nothing else changes.
Moves(q, r, m, status) ==
    \A i \in Mutations : StatusOf(r, i) = IF i = m /\ q[i] # NoRow THEN status ELSE StatusOf(q, i)

LEMMA StatusSet ==
    ASSUME NEW q \in QueueType, NEW m \in Mutations, NEW status
    PROVE  m \in WithStatus(q, {status}) <=> q[m] # NoRow /\ StatusOf(q, m) = status
BY DEF WithStatus, Queued, QueueOf, StatusOf

\* A statement keyed by id that writes one status.
LEMMA UpdateMoves ==
    ASSUME NEW q \in QueueType, NEW m \in Mutations, NEW row, NEW status \in MutationStatus,
           q[m] # NoRow => row \in RowOf(Tables, Mutations, Mutations) /\ row.status = status
    PROVE  Moves(q, UpdateWhere(q, m, TRUE, row), m, status)
BY EngineAssumption DEF UpdateWhere, QueueOf, StatusOf, Moves

LEMMA StatementMoves ==
    ASSUME NEW q \in QueueType, NEW m \in Mutations
    PROVE  /\ Moves(q, MarkPending(q, m), m, "PENDING")
           /\ Moves(q, MarkFailed(q, m, 0), m, "FAILED")
           /\ Moves(q, MarkRejected(q, m), m, "REJECTED")
<1> USE DEF MutationStatus
<1>1. q[m] # NoRow => q[m] \in RowOf(Tables, Mutations, Mutations)
  BY DEF QueueOf
<1>2. Moves(q, MarkPending(q, m), m, "PENDING")
  <2> DEFINE row == [q[m] EXCEPT !.status = "PENDING", !.nextRetryAt = 0]
  <2>1. q[m] # NoRow => row \in RowOf(Tables, Mutations, Mutations) /\ row.status = "PENDING"
    BY <1>1 DEF RowOf
  <2> HIDE DEF row
  <2>2. Moves(q, UpdateWhere(q, m, TRUE, row), m, "PENDING")
    BY <2>1, UpdateMoves
  <2> QED BY <2>2 DEF MarkPending, row
<1>3. Moves(q, MarkRejected(q, m), m, "REJECTED")
  <2> DEFINE row == [q[m] EXCEPT !.status = "REJECTED"]
  <2>1. q[m] # NoRow => row \in RowOf(Tables, Mutations, Mutations) /\ row.status = "REJECTED"
    BY <1>1 DEF RowOf
  <2> HIDE DEF row
  <2>2. Moves(q, UpdateWhere(q, m, TRUE, row), m, "REJECTED")
    BY <2>1, UpdateMoves
  <2> QED BY <2>2 DEF MarkRejected, row
<1>4. Moves(q, MarkFailed(q, m, 0), m, "FAILED")
  <2> DEFINE due == 0 + RetryDelay(q[m].retryCount)
             count == NextRetryCount(q[m].retryCount)
             row == [q[m] EXCEPT !.status = "FAILED", !.nextRetryAt = due, !.retryCount = count]
  <2>1. q[m] # NoRow => row \in RowOf(Tables, Mutations, Mutations) /\ row.status = "FAILED"
    <3>1. q[m] # NoRow => q[m].retryCount \in Nat
      BY <1>1 DEF RowOf
    <3>2. q[m] # NoRow => due \in Nat /\ count \in Nat
      BY <3>1, RetryDelayIsNat, EngineAssumption DEF NextRetryCount
    <3> HIDE DEF due, count
    <3> QED BY <1>1, <3>2, FailedRowType DEF RowOf
  <2> HIDE DEF row
  <2>2. Moves(q, UpdateWhere(q, m, TRUE, row), m, "FAILED")
    BY <2>1, UpdateMoves
  <2> QED BY <2>2 DEF MarkFailed, row
<1> QED BY <1>2, <1>3, <1>4

LEMMA RecoveryMoves ==
    ASSUME NEW q \in QueueType
    PROVE  \A i \in Mutations :
              StatusOf(RecoverStuck(q), i) =
                 IF StatusOf(q, i) = "SYNCING" THEN "PENDING" ELSE StatusOf(q, i)
<1> SUFFICES ASSUME NEW i \in Mutations
             PROVE  StatusOf(RecoverStuck(q), i) =
                       IF StatusOf(q, i) = "SYNCING" THEN "PENDING" ELSE StatusOf(q, i)
  OBVIOUS
<1>1. RecoverStuck(q)[i] = IF i \in WithStatus(q, {"SYNCING"})
                           THEN [q[i] EXCEPT !.status = "PENDING"] ELSE q[i]
  BY DEF RecoverStuck, QueueOf
<1>2. RecoverStuck(q) \in QueueType
  BY RecoverStuckType
<1>3. CASE i \in WithStatus(q, {"SYNCING"})
  <2>1. q[i] \in RowOf(Tables, Mutations, Mutations) /\ q[i].status = "SYNCING"
    BY <1>3 DEF WithStatus, Queued, QueueOf
  <2>2. [q[i] EXCEPT !.status = "PENDING"] \in RowOf(Tables, Mutations, Mutations)
        /\ [q[i] EXCEPT !.status = "PENDING"].status = "PENDING"
    BY <2>1 DEF RowOf, MutationStatus
  <2> QED BY <1>1, <1>3, <2>1, <2>2, EngineAssumption DEF StatusOf
<1>4. CASE i \notin WithStatus(q, {"SYNCING"})
  BY <1>1, <1>4, StatusSet DEF StatusOf
<1> QED BY <1>3, <1>4

LEMMA ClaimMoves ==
    ASSUME NEW q \in QueueType, NEW S \in SUBSET Queued(q)
    PROVE  \A i \in Mutations :
              StatusOf(MarkSyncing(q, S), i) = IF i \in S THEN "SYNCING" ELSE StatusOf(q, i)
<1> SUFFICES ASSUME NEW i \in Mutations
             PROVE  StatusOf(MarkSyncing(q, S), i) = IF i \in S THEN "SYNCING" ELSE StatusOf(q, i)
  OBVIOUS
<1>1. MarkSyncing(q, S)[i] = IF i \in S THEN [q[i] EXCEPT !.status = "SYNCING"] ELSE q[i]
  BY DEF MarkSyncing, QueueOf
<1>2. CASE i \in S
  <2>1. q[i] \in RowOf(Tables, Mutations, Mutations)
    BY <1>2 DEF Queued, QueueOf
  <2>2. [q[i] EXCEPT !.status = "SYNCING"] \in RowOf(Tables, Mutations, Mutations)
        /\ [q[i] EXCEPT !.status = "SYNCING"].status = "SYNCING"
    BY <2>1 DEF RowOf, MutationStatus
  <2> QED BY <1>1, <1>2, <2>2, EngineAssumption DEF StatusOf
<1>3. CASE i \notin S
  BY <1>1, <1>3 DEF StatusOf
<1> QED BY <1>2, <1>3

\* The statements that add and remove rows, and the user's.
LEMMA OtherMoves ==
    ASSUME NEW q \in QueueType, NEW m \in Mutations, NEW i \in Mutations
    PROVE  /\ StatusOf(RemoveMutation(q, m), i) = IF i = m THEN "NONE" ELSE StatusOf(q, i)
           /\ StatusOf(DiscardRejected(q, m), i) =
                 IF i = m /\ StatusOf(q, m) = "REJECTED" THEN "NONE" ELSE StatusOf(q, i)
           /\ StatusOf(RetryRejected(q, m), i) =
                 IF i = m /\ StatusOf(q, m) = "REJECTED" THEN "PENDING" ELSE StatusOf(q, i)
           /\ StatusOf(SaveMutation(q, m, FreshRow(Draft(m), Stamp[m])), i) =
                 IF i = m /\ q[m] = NoRow THEN "PENDING" ELSE StatusOf(q, i)
<1>1. StatusOf(RemoveMutation(q, m), i) = IF i = m THEN "NONE" ELSE StatusOf(q, i)
  BY DEF RemoveMutation, UpdateWhere, StatusOf, QueueOf
<1>2. StatusOf(DiscardRejected(q, m), i) =
         IF i = m /\ StatusOf(q, m) = "REJECTED" THEN "NONE" ELSE StatusOf(q, i)
  BY DEF DiscardRejected, UpdateWhere, StatusOf, QueueOf
<1>3. StatusOf(RetryRejected(q, m), i) =
         IF i = m /\ StatusOf(q, m) = "REJECTED" THEN "PENDING" ELSE StatusOf(q, i)
  <2>1. q[m] # NoRow => Requeued(q[m]) \in RowOf(Tables, Mutations, Mutations)
                        /\ Requeued(q[m]).status = "PENDING"
    BY DEF Requeued, QueueOf, RowOf, MutationStatus
  <2> QED BY <2>1, EngineAssumption DEF RetryRejected, UpdateWhere, StatusOf, QueueOf
<1>4. StatusOf(SaveMutation(q, m, FreshRow(Draft(m), Stamp[m])), i) =
         IF i = m /\ q[m] = NoRow THEN "PENDING" ELSE StatusOf(q, i)
  <2>1. FreshRow(Draft(m), Stamp[m]) \in RowOf(Tables, Mutations, Mutations)
    BY DraftRowType
  <2>2. FreshRow(Draft(m), Stamp[m]).status = "PENDING"
    BY DEF FreshRow
  <2> HIDE DEF FreshRow
  <2> QED BY <2>1, <2>2, EngineAssumption DEF SaveMutation, StatusOf, QueueOf
<1> QED BY <1>1, <1>2, <1>3, <1>4

----------------------------------------------------------------------------
(***************************************************************************)
(* The inductive invariant                                                 *)
(***************************************************************************)
\* The provider that is never remounted.
LEMMA OnlyProvider == OneProvider => Providers = {0}
BY DEF OneProvider, Providers

\* A mutation has a row exactly as long as its delivery is not over.
Tracked == \A m \in Mutations : queue[m] # NoRow <=> outcome[m] = "QUEUED"

\* The chain runs one run at a time, which leaves no worker behind.
OneRun ==
    \A r \in Runs :
        /\ phase[r] # "detached"
        /\ phase[r] # "free" => onChain[0] = r
        /\ phase[r] = "free" => unacked[r] = {}
        /\ phase[r] = "catching" => InStage(r, {"todo", "sent"}) = {}

\* Only a failure handler has mutations to mark.
MarkingHasHandler ==
    marking # {} => \E r \in Runs : phase[r] = "catching" \/ InStage(r, {"failing"}) # {}

\* What a run or a handler has yet to settle was not rejected since.
InHandIsDelivering ==
    /\ \A m \in marking : StatusOf(queue, m) # "REJECTED"
    /\ \A r \in Runs : \A m \in unacked[r] : StatusOf(queue, m) # "REJECTED"

Orderly == Tracked /\ OneRun /\ MarkingHasHandler /\ InHandIsDelivering

LEMMA OrderlyAtFirst == Init => Orderly
BY EngineAssumption
   DEF Init, Orderly, Tracked, OneRun, MarkingHasHandler, InHandIsDelivering, StatusOf, InStage

----------------------------------------------------------------------------
(***************************************************************************)
(* Runs and handlers                                                       *)
(***************************************************************************)
\* A run that returns has no table left to send.
LEMMA ReturnIsComplete ==
    ASSUME RestOK, OneRun, OneProvider, NEW r \in Runs, InStage(r, {"todo", "sent"}) = {}, Return(r)
    PROVE  OneRun' /\ (\A q \in Runs : unacked'[q] \subseteq unacked[q])
<1>1. /\ phase' = [phase EXCEPT ![r] = "free"] /\ unacked' = [unacked EXCEPT ![r] = {}]
      /\ stage' = [stage EXCEPT ![r] = [t \in Tables |-> "none"]]
      /\ onChain'[0] = IF onChain[0] = r THEN NoRun ELSE onChain[0]
  BY OnlyProvider DEF Return, ReleaseChain
<1> QED BY <1>1 DEF RestOK, OneRun, InStage

LEMMA RunStepOneRun ==
    ASSUME RestOK, OneRun, OneProvider, NEW r \in Runs, RunStep(r) \/ Faults(r)
    PROVE  OneRun' /\ (\A q \in Runs : unacked'[q] \subseteq unacked[q])
<1> USE DEF providerVars
<1>1. CASE Block(r)
  BY <1>1 DEF Block, RestOK, OneRun, InStage
<1>2. CASE StartWorkers(r)
  BY <1>2 DEF StartWorkers, RestOK, OneRun, InStage
<1>3. CASE EndRun(r)
  <2>1. InStage(r, {"todo", "sent"}) = {}
    BY <1>3 DEF EndRun, InStage, Stages
  <2> QED BY <1>3, <2>1, ReturnIsComplete DEF EndRun
<1>4. CASE EndRunWithErrors(r)
  <2>1. InStage(r, {"todo", "sent"}) = {}
    BY <1>4 DEF EndRunWithErrors, InStage, Stages
  <2>2. phase[r] = "working" /\ phase' = [phase EXCEPT ![r] = "catching"]
        /\ UNCHANGED <<onChain, unacked, stage>>
    BY <1>4 DEF EndRunWithErrors, Catch
  <2> QED BY <2>1, <2>2 DEF RestOK, OneRun, InStage
<1>5. CASE OuterCatch(r)
  <2>1. CASE marking # {}
    BY <1>5, <2>1 DEF OuterCatch, OneRun, InStage
  <2>2. CASE marking = {}
    <3>1. Return(r) /\ InStage(r, {"todo", "sent"}) = {}
      BY <1>5, <2>2 DEF OuterCatch, OneRun
    <3> QED BY <3>1, ReturnIsComplete
  <2> QED BY <2>1, <2>2
<1>6. CASE Disperse(r)
  BY <1>6 DEF Disperse, OneRun
<1>7. CASE BlockFails(r)
  BY <1>7 DEF BlockFails, Catch, RestOK, OneRun, InStage
<1>8. CASE OuterCatchFails(r)
  BY <1>8 DEF OuterCatchFails, OneProvider
<1>9. ASSUME NEW t \in Tables, NEW s \in {"settling", "failing", "done"}, SetStage(r, t, s),
             UNCHANGED <<phase, onChain>>,
             \A q \in Runs : unacked'[q] \subseteq unacked[q]
      PROVE  OneRun' /\ (\A q \in Runs : unacked'[q] \subseteq unacked[q])
  BY <1>9 DEF SetStage, RestOK, OneRun, InStage
<1>10. ASSUME NEW t \in Tables, Settle(r, t)
       PROVE  OneRun' /\ (\A q \in Runs : unacked'[q] \subseteq unacked[q])
  <2>1. UNCHANGED <<phase, onChain, stage>> /\ (\A q \in Runs : unacked'[q] \subseteq unacked[q])
    BY <1>10 DEF Settle, SettleAcknowledged, SettleUnacknowledged, SettleRejected, RestOK
  <2> QED BY <2>1 DEF OneRun, InStage
<1>11. ASSUME NEW t \in Tables, SendTable(r, t)
       PROVE  OneRun' /\ (\A q \in Runs : unacked'[q] \subseteq unacked[q])
  <2>1. phase[r] = "working" /\ SetStage(r, t, "sent") /\ UNCHANGED <<phase, onChain, unacked>>
    BY <1>11 DEF SendTable, CanSend, OneRun
  <2> QED BY <2>1 DEF SetStage, RestOK, OneRun, InStage
<1>12. ASSUME NEW t \in Tables, FinishTable(r, t) \/ FailTable(r, t)
       PROVE  OneRun' /\ (\A q \in Runs : unacked'[q] \subseteq unacked[q])
  <2>1. UNCHANGED <<phase, onChain, unacked>> /\ (SetStage(r, t, "done") \/ UNCHANGED stage)
    BY <1>12 DEF FinishTable, FailTable, EndTable
  <2> QED BY <1>9, <2>1 DEF OneRun, InStage
<1>13. ASSUME NEW t \in Tables,
              TransportFails(r, t) \/ SettleFails(r, t) \/ ClearTombstoneFails(r, t)
       PROVE  OneRun' /\ (\A q \in Runs : unacked'[q] \subseteq unacked[q])
  BY <1>9, <1>13 DEF TransportFails, SettleFails, ClearTombstoneFails, ThrowInTable
<1>14. ASSUME NEW t \in Tables, FailTableFails(r, t) PROVE FALSE
  BY <1>14 DEF FailTableFails, OneProvider
<1> QED BY <1>1, <1>2, <1>3, <1>4, <1>5, <1>6, <1>7, <1>8, <1>10, <1>11, <1>12, <1>13, <1>14
        DEF RunStep, Faults, TableStep

\* Only a claim adds to what a run has to settle.
LEMMA OneRunKept ==
    ASSUME RestOK, OneRun, OneProvider, [Next]_vars
    PROVE  OneRun'
<1> USE DEF providerVars, runVars
<1>1. ASSUME UNCHANGED <<phase, onChain, unacked, stage>> PROVE OneRun'
  BY <1>1 DEF OneRun, InStage
<1>2. ASSUME NEW m \in Mutations,
             Mutate(m) \/ UserRetries(m) \/ UserDiscards(m) \/ BackoffElapses(m)
      PROVE  OneRun'
  BY <1>1, <1>2 DEF Mutate, UserRetries, UserDiscards, BackoffElapses
<1>3. CASE RequestSync \/ ClaimFails \/ Restart \/ Reinitialize
  BY <1>1, <1>3 DEF RequestSync, ClaimFails, Restart, Reinitialize
<1>4. CASE Remount
  BY <1>4 DEF Remount, OneProvider, RestOK
<1>5. CASE Crash
  BY <1>5 DEF Crash, ForgetRuns, OneRun, InStage
<1>6. ASSUME NEW r \in Runs, NEW requested \in Requests, StartRun(r, requested)
      PROVE  OneRun'
  <2>1. /\ onChain[0] = NoRun /\ onChain'[0] = r
        /\ phase' = [phase EXCEPT ![r] = "blocking"]
        /\ \A q \in Runs \ {r} : unacked'[q] = unacked[q] /\ stage'[q] = stage[q]
    BY <1>6, OnlyProvider DEF StartRun, TakesTurn, RestOK
  <2>2. \A q \in Runs : phase[q] = "free"
    BY <2>1, EngineAssumption DEF OneRun
  <2> QED BY <2>1, <2>2 DEF OneRun, InStage, RestOK
<1>7. ASSUME NEW r \in Runs, NEW t \in Tables, DeliverAnswer(r, t)
      PROVE  OneRun'
  <2>1. SetStage(r, t, "settling") /\ UNCHANGED <<phase, onChain, unacked>>
    BY <1>7 DEF DeliverAnswer, Deliver
  <2> QED BY <2>1 DEF SetStage, RestOK, OneRun, InStage
<1>8. CASE UNCHANGED vars
  BY <1>1, <1>8 DEF vars
<1> QED BY <1>2, <1>3, <1>4, <1>5, <1>6, <1>7, <1>8, RunStepOneRun DEF Next
----------------------------------------------------------------------------
LEMMA NewTaskMarksNothing ==
    ASSUME MarkingHasHandler, NewTask \/ Uninterrupted
    PROVE  marking = {}
BY NewTaskIsAlone, UninterruptedIsAlone DEF MarkingHasHandler, InStage

LEMMA SettlingMarksNothing ==
    ASSUME OneTask, MarkingHasHandler, NEW r \in Runs, NEW t \in Tables, stage[r][t] = "settling"
    PROVE  marking = {}
BY DEF OneTask, MarkingHasHandler, InStage

LEMMA BlockingMarksNothing ==
    ASSUME OneTask, MarkingHasHandler, NEW r \in Runs, phase[r] = "blocking"
    PROVE  marking = {}
BY DEF OneTask, MarkingHasHandler, InStage

LEMMA HandlerAtWork ==
    ASSUME NEW r \in Runs, NEW t \in Tables,
           phase'[r] = "catching" \/ stage'[r][t] = "failing"
    PROVE  MarkingHasHandler'
BY DEF MarkingHasHandler, InStage

LEMMA RunStepMarks ==
    ASSUME RestOK, OneTask, MarkingHasHandler, OneProvider,
           NEW r \in Runs, RunStep(r) \/ Faults(r)
    PROVE  MarkingHasHandler'
<1> USE DEF providerVars
<1>1. ASSUME UNCHANGED marking, marking = {} PROVE MarkingHasHandler'
  BY <1>1 DEF MarkingHasHandler
<1>2. ASSUME marking' = {} PROVE MarkingHasHandler'
  BY <1>2 DEF MarkingHasHandler
<1>3. CASE Block(r) \/ StartWorkers(r)
  BY <1>1, <1>3, BlockingMarksNothing DEF Block, StartWorkers
<1>4. CASE EndRun(r) \/ Disperse(r)
  BY <1>1, <1>4, NewTaskMarksNothing DEF EndRun, Disperse
<1>5. ASSUME Catch(r) PROVE MarkingHasHandler'
  BY <1>5 DEF Catch, RestOK, MarkingHasHandler
<1>6. CASE OuterCatch(r)
  <2>1. CASE marking # {}
    BY <1>6, <2>1 DEF OuterCatch, MarkingHasHandler
  <2>2. CASE marking = {}
    BY <1>1, <1>6, <2>2 DEF OuterCatch
  <2> QED BY <2>1, <2>2
<1>7. ASSUME NEW t \in Tables, ThrowInTable(r, t) PROVE MarkingHasHandler'
  <2>1. stage'[r][t] = "failing"
    BY <1>7 DEF ThrowInTable, SetStage, RestOK
  <2> QED BY <2>1, HandlerAtWork
<1>8. ASSUME NEW t \in Tables, SendTable(r, t) PROVE MarkingHasHandler'
  BY <1>1, <1>8, NewTaskMarksNothing DEF SendTable
<1>9. ASSUME NEW t \in Tables, Settle(r, t) \/ FinishTable(r, t) PROVE MarkingHasHandler'
  BY <1>1, <1>9, SettlingMarksNothing DEF Settle, FinishTable
<1>10. ASSUME NEW t \in Tables, FailTable(r, t) PROVE MarkingHasHandler'
  <2>1. CASE marking # {}
    BY <1>10, <2>1, HandlerAtWork DEF FailTable
  <2>2. CASE marking = {}
    BY <1>1, <1>10, <2>2 DEF FailTable
  <2> QED BY <2>1, <2>2
<1>11. ASSUME NEW t \in Tables,
              TransportFails(r, t) \/ SettleFails(r, t) \/ ClearTombstoneFails(r, t)
       PROVE  MarkingHasHandler'
  BY <1>7, <1>11 DEF TransportFails, SettleFails, ClearTombstoneFails
<1>12. ~OuterCatchFails(r) /\ (\A t \in Tables : ~FailTableFails(r, t))
  BY DEF OuterCatchFails, FailTableFails, OneProvider
<1> QED BY <1>3, <1>4, <1>5, <1>6, <1>8, <1>9, <1>10, <1>11, <1>12
        DEF RunStep, Faults, TableStep, EndRunWithErrors, BlockFails

LEMMA MarkingKept ==
    ASSUME RestOK, OneTask, MarkingHasHandler, OneProvider, [Next]_vars
    PROVE  MarkingHasHandler'
<1> USE DEF providerVars, runVars
<1>1. ASSUME UNCHANGED <<phase, stage, marking>> PROVE MarkingHasHandler'
  BY <1>1 DEF MarkingHasHandler, InStage
<1>2. ASSUME NEW m \in Mutations,
             Mutate(m) \/ UserRetries(m) \/ UserDiscards(m) \/ BackoffElapses(m)
      PROVE  MarkingHasHandler'
  BY <1>1, <1>2 DEF Mutate, UserRetries, UserDiscards, BackoffElapses
<1>3. CASE RequestSync \/ ClaimFails \/ Restart \/ Reinitialize \/ Remount
  BY <1>1, <1>3 DEF RequestSync, ClaimFails, Restart, Reinitialize, Remount
<1>4. CASE Crash
  BY <1>4 DEF Crash, ForgetRuns, MarkingHasHandler
<1>5. ASSUME NEW r \in Runs, NEW requested \in Requests, StartRun(r, requested)
      PROVE  MarkingHasHandler'
  <2>1. NewTask /\ UNCHANGED marking
    BY <1>5 DEF StartRun
  <2> QED BY <2>1, NewTaskMarksNothing DEF MarkingHasHandler
<1>6. ASSUME NEW r \in Runs, NEW t \in Tables, DeliverAnswer(r, t)
      PROVE  MarkingHasHandler'
  <2>1. NewTask /\ UNCHANGED marking
    BY <1>6 DEF DeliverAnswer, Deliver
  <2> QED BY <2>1, NewTaskMarksNothing DEF MarkingHasHandler
<1>7. CASE UNCHANGED vars
  BY <1>1, <1>7 DEF vars
<1> QED BY <1>2, <1>3, <1>4, <1>5, <1>6, <1>7, RunStepMarks DEF Next

----------------------------------------------------------------------------
(***************************************************************************)
(* The kinds of steps, as the state machine sees them                      *)
(***************************************************************************)
\* Some mutations that are being delivered go where event takes them.
Delivers(event) ==
    /\ UNCHANGED outcome
    /\ \A i \in Mutations :
          \/ StatusOf(queue', i) = StatusOf(queue, i)
          \/ /\ StatusOf(queue, i) \in Lifecycle!Delivering
             /\ StatusOf(queue', i) = Lifecycle!Target[event]

\* Mutation m leaves the queue, and that is how its delivery ends.
Leaves(m, result) ==
    /\ \A i \in Mutations : StatusOf(queue', i) = IF i = m THEN "NONE" ELSE StatusOf(queue, i)
    /\ outcome' = [outcome EXCEPT ![m] = result]

DeliveryEvents == {"CLAIMED", "FAILED", "REJECTED", "RETRY", "RECOVERED"}

LEMMA NoneIsNoRow ==
    ASSUME NEW q \in QueueType, NEW m \in Mutations
    PROVE  /\ StatusOf(q, m) \in MutationStatus \cup {"NONE"}
           /\ StatusOf(q, m) = "NONE" <=> q[m] = NoRow
BY DEF StatusOf, QueueOf, RowOf, MutationStatus

\* The state of a mutation is its status, or how its delivery ended.
LEMMA StateIsStatus ==
    ASSUME queue \in QueueType, queue' \in QueueType
    PROVE  /\ StateOf = [i \in Mutations |-> IF StatusOf(queue, i) = "NONE"
                                             THEN outcome[i] ELSE StatusOf(queue, i)]
           /\ StateOf' = [i \in Mutations |-> IF StatusOf(queue', i) = "NONE"
                                              THEN outcome'[i] ELSE StatusOf(queue', i)]
<1>1. \A i \in Mutations : /\ (StatusOf(queue, i) = "NONE") <=> queue[i] = NoRow
                           /\ (StatusOf(queue', i) = "NONE") <=> queue'[i] = NoRow
  BY NoneIsNoRow
<1>2. \A i \in Mutations : /\ queue[i] # NoRow => queue[i].status = StatusOf(queue, i)
                           /\ queue'[i] # NoRow => queue'[i].status = StatusOf(queue', i)
  BY DEF StatusOf
<1> QED BY <1>1, <1>2 DEF StateOf

LEMMA DeliveryImplements ==
    ASSUME queue \in QueueType, queue' \in QueueType, RestOK, RestOK', Tracked,
           NEW event \in DeliveryEvents, Delivers(event)
    PROVE  Tracked' /\ [Lifecycle!Next]_StateOf
<1>1. Lifecycle!Target[event] \in MutationStatus
  BY DEF DeliveryEvents, Lifecycle!Target, MutationStatus
<1>2. \A i \in Mutations : /\ (StatusOf(queue, i) = "NONE") <=> queue[i] = NoRow
                           /\ (StatusOf(queue', i) = "NONE") <=> queue'[i] = NoRow
                           /\ StatusOf(queue', i) \in MutationStatus \cup {"NONE"}
  BY NoneIsNoRow
<1>3. \A i \in Mutations : StatusOf(queue', i) = "NONE" <=> StatusOf(queue, i) = "NONE"
  BY <1>1 DEF Delivers, MutationStatus, Lifecycle!Delivering
<1>4. Tracked'
  BY <1>2, <1>3 DEF Tracked, Delivers
<1>5. StateOf' \in [Mutations -> Lifecycle!States]
  <2>1. \A i \in Mutations : StatusOf(queue', i) = "NONE" =>
           outcome'[i] \in {"NEW", "ACKED", "DISCARDED"}
    BY <1>2, <1>4 DEF RestOK, Tracked
  <2> QED BY <1>2, <2>1, StateIsStatus DEF MutationStatus, Lifecycle!States, Lifecycle!Delivering
<1>6. ASSUME NEW i \in Mutations, StateOf'[i] # StateOf[i]
      PROVE  /\ StateOf[i] \in Lifecycle!Delivering
             /\ StateOf'[i] = Lifecycle!Target[event]
  BY <1>3, <1>6, StateIsStatus DEF Delivers, Lifecycle!Delivering
<1>7. Lifecycle!Handle(event)
  <2>1. event # "ENQUEUED"
    BY DEF DeliveryEvents
  <2> QED BY <1>5, <1>6, <2>1 DEF Lifecycle!Handle, Lifecycle!TransitionMutationState
<1>8. event \in Lifecycle!Events
  BY DEF DeliveryEvents, Lifecycle!Events
<1> QED BY <1>4, <1>7, <1>8 DEF Lifecycle!Next

LEMMA LeavingTracked ==
    ASSUME queue \in QueueType, queue' \in QueueType, RestOK, Tracked,
           NEW m \in Mutations, NEW result \in {"ACKED", "DISCARDED"}, Leaves(m, result)
    PROVE  /\ Tracked'
           /\ StateOf' = [StateOf EXCEPT ![m] = result]
<1>1. \A i \in Mutations : /\ (StatusOf(queue, i) = "NONE") <=> queue[i] = NoRow
                           /\ (StatusOf(queue', i) = "NONE") <=> queue'[i] = NoRow
  BY NoneIsNoRow
<1>2. Tracked'
  BY <1>1 DEF Tracked, Leaves, RestOK
<1>3. StateOf' = [StateOf EXCEPT ![m] = result]
  <2>1. \A i \in Mutations : StateOf'[i] = IF i = m THEN result ELSE StateOf[i]
    <3>1. \A i \in Mutations : outcome'[i] = IF i = m THEN result ELSE outcome[i]
      BY DEF Leaves, RestOK
    <3>2. \A i \in Mutations :
             StatusOf(queue', i) = IF i = m THEN "NONE" ELSE StatusOf(queue, i)
      BY DEF Leaves
    <3> QED BY <3>1, <3>2, StateIsStatus
  <2>2. DOMAIN StateOf = Mutations /\ DOMAIN StateOf' = Mutations
    BY DEF StateOf
  <2> QED BY <2>1, <2>2, StateIsStatus
<1> QED BY <1>2, <1>3

LEMMA AcknowledgementImplements ==
    ASSUME queue \in QueueType, queue' \in QueueType, RestOK, RestOK', Tracked,
           NEW m \in Mutations, queue[m] # NoRow, Leaves(m, "ACKED")
    PROVE  Tracked' /\ [Lifecycle!Next]_StateOf
<1>1. Tracked' /\ StateOf' = [StateOf EXCEPT ![m] = "ACKED"]
  BY LeavingTracked
<1>2. StateOf[m] \in Lifecycle!Delivering \cup {"REJECTED"}
  BY NoneIsNoRow, StateIsStatus DEF MutationStatus, Lifecycle!Delivering
<1>3. StateOf \in [Mutations -> Lifecycle!States]
  <2>1. \A i \in Mutations : StatusOf(queue, i) \in MutationStatus \cup {"NONE"}
    BY NoneIsNoRow
  <2>2. \A i \in Mutations : StatusOf(queue, i) = "NONE" =>
           outcome[i] \in {"NEW", "ACKED", "DISCARDED"}
    BY NoneIsNoRow DEF RestOK, Tracked
  <2> QED BY <2>1, <2>2, StateIsStatus
          DEF MutationStatus, Lifecycle!States, Lifecycle!Delivering
<1>4. Lifecycle!TransitionMutationState(StateOf[m], "ACKED") = "ACKED"
  BY <1>2 DEF Lifecycle!TransitionMutationState, Lifecycle!Target, Lifecycle!Delivering
<1>5. Lifecycle!Handle("ACKED")
  BY <1>1, <1>2, <1>3, <1>4 DEF Lifecycle!Handle, Lifecycle!States
<1> QED BY <1>1, <1>5 DEF Lifecycle!Next, Lifecycle!Events

\* The user's answers to a rejection, and a new mutation.
LEMMA UserImplements ==
    ASSUME queue \in QueueType, queue' \in QueueType, RestOK, RestOK', Tracked,
           NEW m \in Mutations, Mutate(m) \/ UserRetries(m) \/ UserDiscards(m)
    PROVE  Tracked' /\ [Lifecycle!Next]_StateOf
<1>1. \A i \in Mutations : /\ (StatusOf(queue, i) = "NONE") <=> queue[i] = NoRow
                           /\ (StatusOf(queue', i) = "NONE") <=> queue'[i] = NoRow
  BY NoneIsNoRow
<1>2. DOMAIN StateOf = Mutations /\ DOMAIN StateOf' = Mutations
  BY DEF StateOf
<1>3. CASE Mutate(m)
  <2>1. outcome[m] = "NEW" /\ outcome' = [outcome EXCEPT ![m] = "QUEUED"]
        /\ queue' = SaveMutation(queue, m, FreshRow(Draft(m), Stamp[m]))
    BY <1>3 DEF Mutate
  <2>2. queue[m] = NoRow
    BY <2>1 DEF Tracked
  <2>3. \A i \in Mutations :
           StatusOf(queue', i) = IF i = m THEN "PENDING" ELSE StatusOf(queue, i)
    BY <2>1, <2>2, OtherMoves
  <2>4. \A i \in Mutations : outcome'[i] = IF i = m THEN "QUEUED" ELSE outcome[i]
    BY <2>1 DEF RestOK
  <2>5. Tracked'
    BY <1>1, <2>3, <2>4 DEF Tracked
  <2>6. StateOf[m] = "NEW" /\ StateOf' = [StateOf EXCEPT ![m] = "PENDING"]
    <3>1. \A i \in Mutations : StateOf'[i] = IF i = m THEN "PENDING" ELSE StateOf[i]
      BY <2>3, <2>4, StateIsStatus
    <3>2. StateOf[m] = "NEW"
      BY <1>1, <2>1, <2>2, StateIsStatus
    <3> QED BY <1>2, <3>1, <3>2, StateIsStatus
  <2> QED BY <2>5, <2>6 DEF Lifecycle!Next, Lifecycle!Enqueue, Lifecycle!In
<1>4. CASE UserRetries(m)
  <2>1. UNCHANGED outcome /\ queue' = RetryRejected(queue, m)
    BY <1>4 DEF UserRetries
  <2>2. \A i \in Mutations :
           StatusOf(queue', i) = IF i = m /\ StatusOf(queue, m) = "REJECTED"
                                 THEN "PENDING" ELSE StatusOf(queue, i)
    BY <2>1, OtherMoves
  <2>3. Tracked'
    BY <1>1, <2>1, <2>2 DEF Tracked
  <2>4. CASE StatusOf(queue, m) = "REJECTED"
    <3>1. \A i \in Mutations : StateOf'[i] = IF i = m THEN "PENDING" ELSE StateOf[i]
      BY <2>1, <2>2, <2>4, StateIsStatus
    <3>2. StateOf[m] = "REJECTED"
      BY <2>4, StateIsStatus
    <3>3. StateOf' = [StateOf EXCEPT ![m] = "PENDING"]
      BY <1>2, <3>1, StateIsStatus
    <3> QED BY <2>3, <3>2, <3>3 DEF Lifecycle!Next, Lifecycle!RetryRejected, Lifecycle!In
  <2>5. CASE StatusOf(queue, m) # "REJECTED"
    BY <2>1, <2>2, <2>3, <2>5, StateIsStatus
  <2> QED BY <2>4, <2>5
<1>5. CASE UserDiscards(m)
  <2>1. /\ queue' = DiscardRejected(queue, m)
        /\ outcome' = [outcome EXCEPT ![m] =
                          IF queue[m] # NoRow /\ queue'[m] = NoRow THEN "DISCARDED" ELSE @]
    BY <1>5 DEF UserDiscards
  <2>2. \A i \in Mutations :
           StatusOf(queue', i) = IF i = m /\ StatusOf(queue, m) = "REJECTED"
                                 THEN "NONE" ELSE StatusOf(queue, i)
    BY <2>1, OtherMoves
  <2>3. CASE StatusOf(queue, m) = "REJECTED"
    <3>1. Leaves(m, "DISCARDED")
      BY <1>1, <2>1, <2>2, <2>3 DEF Leaves
    <3>2. Tracked' /\ StateOf' = [StateOf EXCEPT ![m] = "DISCARDED"]
      BY <3>1, LeavingTracked
    <3>3. StateOf[m] = "REJECTED"
      BY <2>3, StateIsStatus
    <3> QED BY <3>2, <3>3 DEF Lifecycle!Next, Lifecycle!DiscardRejected, Lifecycle!In
  <2>4. CASE StatusOf(queue, m) # "REJECTED"
    <3>1. \A i \in Mutations : StatusOf(queue', i) = StatusOf(queue, i)
      BY <2>2, <2>4
    <3>2. outcome' = outcome
      BY <1>1, <2>1, <3>1 DEF RestOK
    <3> QED BY <1>1, <3>1, <3>2, StateIsStatus DEF Tracked
  <2> QED BY <2>3, <2>4
<1> QED BY <1>3, <1>4, <1>5

----------------------------------------------------------------------------
(***************************************************************************)
(* Which kind each step is of                                              *)
(***************************************************************************)
\* A statement keyed by id that delivers, on a mutation that is not rejected.
LEMMA StatementDelivers ==
    ASSUME queue \in QueueType, UNCHANGED outcome, NEW m \in Mutations,
           StatusOf(queue, m) # "REJECTED"
    PROVE  /\ queue' = MarkPending(queue, m) => Delivers("RETRY")
           /\ queue' = MarkFailed(queue, m, 0) => Delivers("FAILED")
           /\ queue' = MarkRejected(queue, m) => Delivers("REJECTED")
<1>1. \A i \in Mutations : /\ StatusOf(queue, i) \in MutationStatus \cup {"NONE"}
                           /\ StatusOf(queue, i) = "NONE" <=> queue[i] = NoRow
  BY NoneIsNoRow
<1>2. ASSUME NEW event \in {"RETRY", "FAILED", "REJECTED"},
             Moves(queue, queue', m, Lifecycle!Target[event])
      PROVE  Delivers(event)
  BY <1>1, <1>2 DEF Moves, Delivers, MutationStatus, Lifecycle!Delivering
<1> QED BY <1>2, StatementMoves DEF Lifecycle!Target

\* Settling a mutation as acknowledged ends its delivery, or finds it ended.
LEMMA AcknowledgedLeaves ==
    ASSUME queue \in QueueType, queue' \in QueueType, RestOK, RestOK', Tracked,
           NEW m \in Mutations, queue' = RemoveMutation(queue, m),
           outcome' = RecordAcknowledged(m)
    PROVE  /\ Tracked' /\ [Lifecycle!Next]_StateOf
           /\ \A i \in Mutations : StatusOf(queue', i) = "REJECTED" => StatusOf(queue, i) = "REJECTED"
<1>1. \A i \in Mutations : StatusOf(queue', i) = IF i = m THEN "NONE" ELSE StatusOf(queue, i)
  BY OtherMoves
<1>2. CASE queue[m] # NoRow
  <2>1. Leaves(m, "ACKED")
    BY <1>1, <1>2 DEF Leaves, RecordAcknowledged
  <2> QED BY <1>1, <1>2, <2>1, AcknowledgementImplements
<1>3. CASE queue[m] = NoRow
  <2>1. UNCHANGED <<queue, outcome>>
    BY <1>3 DEF RemoveMutation, UpdateWhere, RecordAcknowledged, RestOK
  <2> QED BY <1>1, <2>1 DEF Tracked, StateOf
<1> QED BY <1>2, <1>3

\* What the runs and handlers have in hand after a step they had before it, or
\* it was just claimed; and the step rejects nothing.
LEMMA InHandKept ==
    ASSUME InHandIsDelivering,
           \A i \in Mutations : StatusOf(queue', i) = "REJECTED" => StatusOf(queue, i) = "REJECTED",
           marking' \subseteq Mutations,
           \A m \in marking' : m \in marking \/ \E r \in Runs : m \in unacked[r],
           \A r \in Runs : unacked'[r] \subseteq Mutations,
           \A r \in Runs : \A m \in unacked'[r] : m \in unacked[r] \/ StatusOf(queue', m) = "SYNCING"
    PROVE  InHandIsDelivering'
BY DEF InHandIsDelivering

LEMMA DeliveryRejectsNothing ==
    ASSUME NEW event \in DeliveryEvents \ {"REJECTED"}, Delivers(event)
    PROVE  \A i \in Mutations : StatusOf(queue', i) = "REJECTED" => StatusOf(queue, i) = "REJECTED"
BY DEF Delivers, DeliveryEvents, Lifecycle!Target

\* A failure handler takes what its run has not settled.
LEMMA RunStepTakes ==
    ASSUME RestOK, NEW r \in Runs, RunStep(r) \/ Faults(r)
    PROVE  \A m \in marking' : m \in marking \/ m \in unacked[r]
<1> USE DEF providerVars
<1>1. CASE RunStep(r)
  BY <1>1 DEF RunStep, TableStep, Block, StartWorkers, EndRun, EndRunWithErrors, Catch, OuterCatch,
              Disperse, SendTable, Settle, FinishTable, FailTable, MarkNextFailed
<1>2. CASE Faults(r)
  BY <1>2 DEF Faults, BlockFails, Catch, OuterCatchFails, TransportFails, SettleFails,
              ClearTombstoneFails, FailTableFails, ThrowInTable
<1> QED BY <1>1, <1>2

LEMMA RunStepHandled ==
    ASSUME queue \in QueueType, queue' \in QueueType, RestOK, RestOK', OneTask, Orderly,
           OneProvider, NEW r \in Runs, RunStep(r) \/ Faults(r)
    PROVE  Tracked' /\ InHandIsDelivering' /\ [Lifecycle!Next]_StateOf
<1> USE DEF providerVars
<1>1. Tracked /\ OneRun /\ MarkingHasHandler /\ InHandIsDelivering
  BY DEF Orderly
<1>2. \A q \in Runs : unacked'[q] \subseteq unacked[q]
  BY <1>1, RunStepOneRun
<1>3. ASSUME \A i \in Mutations :
                StatusOf(queue', i) = "REJECTED" => StatusOf(queue, i) = "REJECTED"
      PROVE  InHandIsDelivering'
  BY <1>1, <1>2, <1>3, RunStepTakes, InHandKept DEF RestOK
<1>4. ASSUME NEW event \in {"RETRY", "FAILED"}, Delivers(event)
      PROVE  Tracked' /\ InHandIsDelivering' /\ [Lifecycle!Next]_StateOf
  <2>1. event \in DeliveryEvents \ {"REJECTED"}
    BY DEF DeliveryEvents
  <2> QED BY <1>1, <1>3, <1>4, <2>1, DeliveryImplements, DeliveryRejectsNothing
<1>5. ASSUME UNCHANGED <<queue, outcome>>
      PROVE  Tracked' /\ InHandIsDelivering' /\ [Lifecycle!Next]_StateOf
  <2>1. Delivers("RETRY")
    BY <1>5 DEF Delivers
  <2> QED BY <1>4, <2>1
<1>6. CASE Block(r)
  <2>1. PICK m \in unacked[r] : queue' = MarkPending(queue, m) /\ UNCHANGED outcome
    BY <1>6 DEF Block, IsNext
  <2>2. m \in Mutations /\ StatusOf(queue, m) # "REJECTED"
    BY <1>1 DEF RestOK, InHandIsDelivering
  <2> QED BY <1>4, <2>1, <2>2, StatementDelivers
<1>7. ASSUME MarkNextFailed, UNCHANGED outcome
      PROVE  Tracked' /\ InHandIsDelivering' /\ [Lifecycle!Next]_StateOf
  <2>1. PICK m \in marking : queue' = MarkFailed(queue, m, 0)
    BY <1>7 DEF MarkNextFailed, IsNext
  <2>2. m \in Mutations /\ StatusOf(queue, m) # "REJECTED"
    BY <1>1 DEF RestOK, InHandIsDelivering
  <2> QED BY <1>4, <1>7, <2>1, <2>2, StatementDelivers
<1>8. CASE OuterCatch(r)
  BY <1>5, <1>7, <1>8 DEF OuterCatch
<1>9. ASSUME NEW t \in Tables, FailTable(r, t)
      PROVE  Tracked' /\ InHandIsDelivering' /\ [Lifecycle!Next]_StateOf
  BY <1>5, <1>7, <1>9 DEF FailTable
<1>10. ASSUME NEW t \in Tables, SettleAcknowledged(r, t) \/ ClearTombstoneFails(r, t)
       PROVE  Tracked' /\ InHandIsDelivering' /\ [Lifecycle!Next]_StateOf
  <2>1. PICK m \in Mutations : /\ queue' = RemoveMutation(queue, m)
                               /\ outcome' = RecordAcknowledged(m)
    BY <1>10 DEF SettleAcknowledged, ClearTombstoneFails
  <2> QED BY <1>1, <1>3, <2>1, AcknowledgedLeaves
<1>11. ASSUME NEW t \in Tables, SettleUnacknowledged(r, t)
       PROVE  Tracked' /\ InHandIsDelivering' /\ [Lifecycle!Next]_StateOf
  <2>1. PICK m \in unacked[r] : queue' = MarkFailed(queue, m, 0) /\ UNCHANGED outcome
    BY <1>11 DEF SettleUnacknowledged, IsNext
  <2>2. m \in Mutations /\ StatusOf(queue, m) # "REJECTED"
    BY <1>1 DEF RestOK, InHandIsDelivering
  <2> QED BY <1>4, <2>1, <2>2, StatementDelivers
<1>12. ASSUME NEW t \in Tables, Settle(r, t), SettleRejected(r, t)
       PROVE  Tracked' /\ InHandIsDelivering' /\ [Lifecycle!Next]_StateOf
  <2>1. PICK m \in unacked[r] : /\ queue' = MarkRejected(queue, m) /\ UNCHANGED outcome
                                /\ unacked' = [unacked EXCEPT ![r] = @ \ {m}]
    BY <1>12 DEF SettleRejected, IsNext
  <2>2. m \in Mutations /\ StatusOf(queue, m) # "REJECTED"
    BY <1>1 DEF RestOK, InHandIsDelivering
  <2>3. Tracked' /\ [Lifecycle!Next]_StateOf
    BY <1>1, <2>1, <2>2, StatementDelivers, DeliveryImplements DEF DeliveryEvents
  <2>4. \A i \in Mutations \ {m} : StatusOf(queue', i) = StatusOf(queue, i)
    BY <2>1, <2>2, StatementMoves DEF Moves
  <2>5. marking' = {}
    <3>1. stage[r][t] = "settling" /\ UNCHANGED marking
      BY <1>12 DEF Settle
    <3> QED BY <1>1, <3>1, SettlingMarksNothing
  <2>6. \A q \in Runs \ {r} : unacked'[q] = {}
    BY <1>1, <1>2, <2>1 DEF OneRun
  <2>7. unacked'[r] = unacked[r] \ {m}
    BY <2>1 DEF RestOK
  <2>8. InHandIsDelivering'
    <3>1. \A i \in unacked'[r] : StatusOf(queue', i) # "REJECTED"
      BY <1>1, <2>4, <2>7 DEF InHandIsDelivering, RestOK
    <3> QED BY <2>5, <2>6, <3>1 DEF InHandIsDelivering
  <2> QED BY <2>3, <2>8
<1>13. ASSUME NEW t \in Tables, Settle(r, t)
       PROVE  Tracked' /\ InHandIsDelivering' /\ [Lifecycle!Next]_StateOf
  BY <1>10, <1>11, <1>12, <1>13 DEF Settle
<1>14. CASE StartWorkers(r) \/ EndRun(r) \/ EndRunWithErrors(r) \/ Disperse(r)
            \/ BlockFails(r) \/ OuterCatchFails(r)
  BY <1>5, <1>14 DEF StartWorkers, EndRun, EndRunWithErrors, Disperse, BlockFails, OuterCatchFails
<1>15. ASSUME NEW t \in Tables, SendTable(r, t) \/ FinishTable(r, t) \/ TransportFails(r, t)
                                \/ SettleFails(r, t) \/ FailTableFails(r, t)
       PROVE  Tracked' /\ InHandIsDelivering' /\ [Lifecycle!Next]_StateOf
  BY <1>5, <1>15 DEF SendTable, FinishTable, TransportFails, SettleFails, FailTableFails
<1> QED BY <1>6, <1>8, <1>9, <1>10, <1>13, <1>14, <1>15 DEF RunStep, Faults, TableStep

LEMMA StepHandled ==
    ASSUME queue \in QueueType, queue' \in QueueType, RestOK, RestOK', OneTask, Orderly,
           OneProvider, [Next]_vars
    PROVE  Tracked' /\ InHandIsDelivering' /\ [Lifecycle!Next]_StateOf
<1> USE DEF providerVars, runVars
<1>1. Tracked /\ OneRun /\ MarkingHasHandler /\ InHandIsDelivering
  BY DEF Orderly
<1>2. ASSUME NEW event \in DeliveryEvents \ {"REJECTED"}, Delivers(event),
             UNCHANGED <<marking, unacked>> \/ (marking' = {} /\ \A r \in Runs : unacked'[r] = {})
      PROVE  Tracked' /\ InHandIsDelivering' /\ [Lifecycle!Next]_StateOf
  <2>1. InHandIsDelivering'
    BY <1>1, <1>2, DeliveryRejectsNothing, InHandKept DEF RestOK
  <2> QED BY <1>1, <1>2, <2>1, DeliveryImplements
<1>3. ASSUME NEW m \in Mutations, Mutate(m) \/ UserRetries(m) \/ UserDiscards(m)
      PROVE  Tracked' /\ InHandIsDelivering' /\ [Lifecycle!Next]_StateOf
  <2>1. \A i \in Mutations : StatusOf(queue', i) = "REJECTED" => StatusOf(queue, i) = "REJECTED"
    BY <1>3, OtherMoves DEF Mutate, UserRetries, UserDiscards
  <2>2. UNCHANGED <<marking, unacked>>
    BY <1>3 DEF Mutate, UserRetries, UserDiscards
  <2>3. InHandIsDelivering'
    BY <1>1, <2>1, <2>2, InHandKept DEF RestOK
  <2> QED BY <1>1, <1>3, <2>3, UserImplements
<1>4. ASSUME NEW m \in Mutations, BackoffElapses(m)
      PROVE  Tracked' /\ InHandIsDelivering' /\ [Lifecycle!Next]_StateOf
  <2>1. queue' = [queue EXCEPT ![m].nextRetryAt = 0] /\ queue[m] # NoRow
        /\ UNCHANGED <<outcome, marking, unacked>>
    BY <1>4 DEF BackoffElapses, Queued
  <2>2. \A i \in Mutations : StatusOf(queue', i) = StatusOf(queue, i)
    <3>1. queue[m] \in RowOf(Tables, Mutations, Mutations)
      BY <2>1 DEF QueueOf
    <3>2. queue'[m] = [queue[m] EXCEPT !.nextRetryAt = 0]
      BY <2>1 DEF QueueOf
    <3>3. queue'[m] # NoRow /\ queue'[m].status = queue[m].status
      <4>1. queue'[m] \in RowOf(Tables, Mutations, Mutations) /\ queue'[m].status = queue[m].status
        BY <3>1, <3>2 DEF RowOf
      <4> QED BY <4>1, EngineAssumption
    <3>4. \A i \in Mutations \ {m} : queue'[i] = queue[i]
      BY <2>1 DEF QueueOf
    <3> QED BY <2>1, <3>3, <3>4 DEF StatusOf
  <2>3. Delivers("RETRY") /\ "RETRY" \in DeliveryEvents \ {"REJECTED"}
    BY <2>1, <2>2 DEF Delivers, DeliveryEvents
  <2> QED BY <1>2, <2>1, <2>3
<1>5. CASE Restart \/ Reinitialize \/ Remount
  <2>1. queue' = RecoverStuck(queue) /\ UNCHANGED <<outcome, marking, unacked>>
    BY <1>5 DEF Restart, Reinitialize, Remount
  <2>2. Delivers("RECOVERED") /\ "RECOVERED" \in DeliveryEvents \ {"REJECTED"}
    BY <2>1, RecoveryMoves
       DEF Delivers, DeliveryEvents, Lifecycle!Delivering, Lifecycle!Target
  <2> QED BY <1>2, <2>1, <2>2
<1>6. CASE RequestSync \/ ClaimFails \/ Crash \/ UNCHANGED vars
  <2>1. UNCHANGED <<queue, outcome>>
        /\ (UNCHANGED <<marking, unacked>> \/ (marking' = {} /\ \A r \in Runs : unacked'[r] = {}))
    BY <1>6 DEF RequestSync, ClaimFails, Crash, ForgetRuns, vars
  <2>2. Delivers("RETRY") /\ "RETRY" \in DeliveryEvents \ {"REJECTED"}
    BY <2>1 DEF Delivers, DeliveryEvents
  <2> QED BY <1>2, <2>1, <2>2
<1>7. ASSUME NEW r \in Runs, NEW t \in Tables, DeliverAnswer(r, t)
      PROVE  Tracked' /\ InHandIsDelivering' /\ [Lifecycle!Next]_StateOf
  <2>1. UNCHANGED <<queue, outcome, marking, unacked>>
    BY <1>7 DEF DeliverAnswer, Deliver
  <2>2. Delivers("RETRY") /\ "RETRY" \in DeliveryEvents \ {"REJECTED"}
    BY <2>1 DEF Delivers, DeliveryEvents
  <2> QED BY <1>2, <2>1, <2>2
<1>8. ASSUME NEW r \in Runs, NEW requested \in Requests, StartRun(r, requested)
      PROVE  Tracked' /\ InHandIsDelivering' /\ [Lifecycle!Next]_StateOf
  <2>1. PICK S \in SUBSET Due(queue, 0, requested) :
           /\ queue' = MarkSyncing(queue, S) /\ unacked' = [unacked EXCEPT ![r] = S]
           /\ UNCHANGED <<outcome, marking>>
    BY <1>8 DEF StartRun
  <2>2. S \in SUBSET Queued(queue) /\ S \subseteq Mutations
    BY DueIsQueued, QueueDomain
  <2>3. \A i \in Mutations : StatusOf(queue', i) = IF i \in S THEN "SYNCING" ELSE StatusOf(queue, i)
    BY <2>1, <2>2, ClaimMoves
  <2>4. \A i \in S : StatusOf(queue, i) \in {"PENDING", "FAILED"}
    BY <2>2 DEF Due, WithStatus, Queued, StatusOf
  <2>5. Delivers("CLAIMED") /\ "CLAIMED" \in DeliveryEvents \ {"REJECTED"}
    BY <2>1, <2>3, <2>4 DEF Delivers, DeliveryEvents, Lifecycle!Delivering, Lifecycle!Target
  <2>6. \A q \in Runs : \A m \in unacked'[q] : m \in unacked[q] \/ StatusOf(queue', m) = "SYNCING"
    BY <2>1, <2>2, <2>3 DEF RestOK
  <2>7. InHandIsDelivering'
    BY <1>1, <2>1, <2>5, <2>6, DeliveryRejectsNothing, InHandKept DEF RestOK
  <2> QED BY <1>1, <2>5, <2>7, DeliveryImplements
<1> QED BY <1>3, <1>4, <1>5, <1>6, <1>7, <1>8, RunStepHandled DEF Next

----------------------------------------------------------------------------
\* As long as one provider runs and no failure handler fails itself, every
\* mutation goes through the state machine of stateMachine.ts, whatever else
\* fails, wherever the process dies, whatever the answers name: claims,
\* settlements, catches and recoveries are its events, only the user moves a
\* mutation out of REJECTED, and none is dropped (src/stateMachine.ts,
\* src/provider.tsx sync).
THEOREM RunImplementsLifecycle ==
    ASSUME OneProvider
    PROVE  Spec => ImplementsLifecycle
<1> DEFINE Inv == TypeOK /\ Bookkeeping /\ Orderly
<1>1. Init => Inv /\ Lifecycle!Init
  <2>1. Init => TypeOK
    BY EngineAssumption DEF Init, TypeOK, QueueOf, Phases, Stages, NoReply
  <2>2. Init => Bookkeeping
    BY DEF Init, Bookkeeping, UnackedIsClaimed, OneTask, ClaimedIsPlanned, UnackedIsWorkedOn
  <2>3. Init => Lifecycle!Init
    BY DEF Init, Lifecycle!Init, StateOf
  <2> QED BY <2>1, <2>2, <2>3, OrderlyAtFirst
<1>2. Inv /\ [Next]_vars => Inv' /\ [Lifecycle!Next]_StateOf
  <2> SUFFICES ASSUME Inv, [Next]_vars PROVE Inv' /\ [Lifecycle!Next]_StateOf
    OBVIOUS
  <2>1. /\ queue \in QueueType /\ queue' \in QueueType /\ RestOK /\ RestOK'
        /\ TypeOK' /\ Bookkeeping'
    <3>1. queue \in QueueType /\ RestOK
      BY TypeOKParts
    <3>2. queue' \in QueueType /\ RestOK'
      BY <3>1, QueueTyped, RestTyped
    <3>3. TypeOK'
      BY <3>2 DEF TypeOK, RestOK
    <3> QED BY <3>1, <3>2, <3>3, BookkeepingIsInductive
  <2>2. OneTask
    BY DEF Bookkeeping
  <2>3. Orderly' /\ [Lifecycle!Next]_StateOf
    BY <2>1, <2>2, OneRunKept, MarkingKept, StepHandled DEF Orderly
  <2> QED BY <2>1, <2>3
<1> QED BY <1>1, <1>2, PTL DEF Spec, ImplementsLifecycle, Lifecycle!Spec
=============================================================================
