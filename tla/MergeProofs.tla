---------------------------- MODULE MergeProofs ----------------------------
(***************************************************************************)
(* The loops of mergePulledRecords (src/merge.ts) leave what Merged says.  *)
(* The loop is a recursive function over the prefixes of the log, and      *)
(* Merged over the prefixes satisfies its equation; that the equation has  *)
(* one solution is an induction over the prefixes, stated of a set.        *)
(***************************************************************************)
EXTENDS ReplicaProofs

----------------------------------------------------------------------------
(***************************************************************************)
(* Latest, Earliest, and induction                                         *)
(***************************************************************************)
\* The greatest element of a set of numbers is its Latest.
LEMMA LatestIs ==
    ASSUME NEW S, S \subseteq Nat, NEW k \in S, \A j \in S : j <= k
    PROVE  Latest(S) = k
<1> DEFINE Last(m) == \A j \in S : j <= m
<1>1. Latest(S) = CHOOSE m \in S : Last(m)
  BY DEF Latest
<1>2. Latest(S) \in S /\ Last(Latest(S))
  <2> HIDE DEF Last
  <2>1. \E m \in S : Last(m)
    BY DEF Last
  <2> QED BY <1>1, <2>1
<1>3. Latest(S) \in Nat /\ k \in Nat /\ k <= Latest(S) /\ Latest(S) <= k
  BY <1>2
<1> QED BY <1>3

\* The least element of a set of numbers is its Earliest.
LEMMA EarliestIs ==
    ASSUME NEW S, S \subseteq Nat, NEW k \in S, \A j \in S : k <= j
    PROVE  Earliest(S) = k
<1> DEFINE First(m) == \A j \in S : m <= j
<1>1. Earliest(S) = CHOOSE m \in S : First(m)
  BY DEF Earliest
<1>2. Earliest(S) \in S /\ First(Earliest(S))
  <2> HIDE DEF First
  <2>1. \E m \in S : First(m)
    BY DEF First
  <2> QED BY <1>1, <2>1
<1>3. Earliest(S) \in Nat /\ k \in Nat /\ k <= Earliest(S) /\ Earliest(S) <= k
  BY <1>2
<1> QED BY <1>3

\* Induction, of a set of natural numbers: its least missing number is not 0 and
\* has no predecessor.
LEMMA Counting ==
    ASSUME NEW n \in Nat, NEW S, 0 \in S, \A k \in 1 .. n : k - 1 \in S => k \in S
    PROVE  0 .. n \subseteq S
<1> DEFINE missing == {k \in 1 .. n : k \notin S}
<1>1. SUFFICES ASSUME missing # {} PROVE FALSE
  <2>1. \A k \in 0 .. n : k = 0 \/ k \in 1 .. n
    OBVIOUS
  <2> QED BY <2>1
<1>2. missing \subseteq Nat /\ IsFiniteSet(missing)
  <2>1. missing \in SUBSET (1 .. n)
    OBVIOUS
  <2> HIDE DEF missing
  <2> QED BY <2>1, CountingSet
<1>3. PICK least \in missing : \A j \in missing : least <= j
  <2> HIDE DEF missing
  <2> QED BY <1>1, <1>2, EarliestIsLeast
<1>4. least \in 1 .. n /\ least \notin S
  OBVIOUS
<1>5. least - 1 \notin S
  BY <1>4
<1>6. least - 1 \in 1 .. n \/ least - 1 = 0
  BY <1>4
<1>7. least - 1 \in missing
  BY <1>5, <1>6
<1> QED BY <1>3, <1>4, <1>7

----------------------------------------------------------------------------
(***************************************************************************)
(* The log is in the order of its revisions                                *)
(***************************************************************************)
\* The revisions of a log rise.
InTime(l) ==
    /\ \A k \in 1 .. Len(l) : l[k].revision > 0
    /\ \A j, k \in 1 .. Len(l) : j < k => l[j].revision < l[k].revision

\* For either kind of revision, those to come are later than those that are there.
Ahead(l, time) ==
    \A k \in 1 .. Len(l) : l[k].revision <= (IF Revisions = "counter" THEN Len(l) ELSE time)

\* The log rises, and what comes next rises above it.
LogInTime == InTime(log) /\ Ahead(log, now)

\* The revisions that the next changes get rise above the log, one by one.
LEMMA RevisionIsAhead ==
    ASSUME ServerOK, LogInTime, NEW k \in Nat \ {0}
    PROVE  /\ Revision(log, k, now) \in Nat /\ Revision(log, k, now) > 0
           /\ \A j \in 1 .. Len(log) : log[j].revision < Revision(log, k, now)
           /\ \A j \in Nat : j < k => Revision(log, j, now) < Revision(log, k, now)
           /\ Revision(log, k, now) =
                 (IF Revisions = "counter" THEN Len(log) ELSE now) + k
<1>1. Len(log) \in Nat /\ now \in Nat /\ \A j \in 1 .. Len(log) : log[j].revision \in Nat
  BY LogTyped DEF ServerOK, ChangeOf
<1> QED BY <1>1 DEF LogInTime, Ahead, Revision

\* A log that is continued with the next revisions rises.
LEMMA AppendedInTime ==
    ASSUME ServerOK, LogInTime, NEW n \in Nat, NEW tail \in LogType, Len(tail) = n,
           \A k \in 1 .. n : tail[k].revision = Revision(log, k, now)
    PROVE  InTime(log \o tail) /\ Ahead(log \o tail, now + n)
<1>1. Len(log) \in Nat /\ now \in Nat /\ \A j \in 1 .. Len(log) : log[j].revision \in Nat
  BY LogTyped DEF ServerOK, ChangeOf
<1>2. /\ Len(log \o tail) = Len(log) + n
      /\ \A k \in 1 .. Len(log) : (log \o tail)[k] = log[k]
      /\ \A k \in Len(log) + 1 .. Len(log) + n : (log \o tail)[k] = tail[k - Len(log)]
  <2>1. /\ Len(log \o tail) = Len(log) + Len(tail)
        /\ \A i \in 1 .. Len(log) + Len(tail) :
              (log \o tail)[i] = IF i <= Len(log) THEN log[i] ELSE tail[i - Len(log)]
    BY ConcatProperties, LenProperties DEF LogType, ServerOK
  <2> QED BY <1>1, <2>1
<1> DEFINE base == IF Revisions = "counter" THEN Len(log) ELSE now
<1>3. base \in Nat /\ \A k \in 1 .. Len(log) : 0 < log[k].revision /\ log[k].revision <= base
  BY <1>1 DEF LogInTime, InTime, Ahead
<1>4. \A k \in 1 .. n : tail[k].revision = base + k
  <2>1. \A k \in 1 .. n : k \in Nat \ {0}
    OBVIOUS
  <2> QED BY <2>1, RevisionIsAhead
<1> HIDE DEF base
<1>5. ASSUME NEW k \in 1 .. Len(log) + n
      PROVE  \/ k \in 1 .. Len(log) /\ (log \o tail)[k] = log[k]
             \/ /\ k \in Len(log) + 1 .. Len(log) + n
                /\ (log \o tail)[k].revision = base + (k - Len(log))
  <2>1. CASE k <= Len(log)
    BY <1>1, <1>2, <2>1
  <2>2. CASE k > Len(log)
    <3>1. k \in Len(log) + 1 .. Len(log) + n /\ k - Len(log) \in 1 .. n
      BY <1>1, <2>2
    <3> QED BY <1>2, <1>4, <3>1
  <2> QED BY <1>1, <2>1, <2>2
<1>6. \A k \in 1 .. Len(log) + n :
         0 < (log \o tail)[k].revision /\ (log \o tail)[k].revision <= base + n
  BY <1>1, <1>3, <1>5
<1>7. ASSUME NEW j \in 1 .. Len(log) + n, NEW k \in 1 .. Len(log) + n, j < k
      PROVE  (log \o tail)[j].revision < (log \o tail)[k].revision
  <2>1. CASE k \in 1 .. Len(log)
    <3>1. j \in 1 .. Len(log)
      BY <1>1, <1>7, <2>1
    <3> QED BY <1>2, <1>7, <2>1, <3>1 DEF LogInTime, InTime
  <2>2. CASE k \notin 1 .. Len(log)
    <3>1. (log \o tail)[k].revision = base + (k - Len(log)) /\ k > Len(log)
      BY <1>1, <1>5, <2>2
    <3>2. CASE j \in 1 .. Len(log)
      BY <1>1, <1>2, <1>3, <3>1, <3>2
    <3>3. CASE j \notin 1 .. Len(log)
      <4>1. (log \o tail)[j].revision = base + (j - Len(log))
        BY <1>5, <3>3
      <4> QED BY <1>1, <1>3, <1>7, <3>1, <4>1
    <3> QED BY <3>2, <3>3
  <2> QED BY <2>1, <2>2
<1>8. InTime(log \o tail)
  BY <1>2, <1>6, <1>7 DEF InTime
<1>9. (IF Revisions = "counter" THEN Len(log \o tail) ELSE now + n) = base + n
  BY <1>2 DEF base
<1> QED BY <1>2, <1>6, <1>8, <1>9 DEF Ahead

\* A log that a batch is applied to rises.
LEMMA HandlesInTime ==
    ASSUME ServerOK, LogInTime, NEW rows \in QueueType, NEW taken \in SUBSET Mutations,
           NEW refuse, Handles(rows, taken, refuse)
    PROVE  LogInTime'
<1>1. Cardinality(taken) \in Nat
  BY ReplicaAssumption, FS_Subset, FS_CardinalityType
<1> DEFINE n == Cardinality(taken)
<1>2. PICK order \in [1 .. n -> Mutations] :
          /\ InOrder(order, taken, rows)
          /\ log' = Appended(log, order, rows, AssignedId, now)
  BY DEF Handles
<1> HIDE DEF n
<1>3. n \in Nat
  BY <1>1 DEF n
<1> DEFINE change(k) == NewChange(AssignedId[rows[order[k]].record], order[k],
                                  rows[order[k]].operation = "DELETE", Revision(log, k, now))
           tail == [k \in 1 .. n |-> change(k)]
<1>4. Len(order) = n
  <2>1. order \in Seq(Mutations)
    BY <1>3, IsASeq
  <2>2. 1 .. Len(order) = 1 .. n /\ Len(order) \in Nat
    BY <2>1, LenProperties
  <2> QED BY <1>3, <2>2
<1>5. \A k \in 1 .. n : rows[order[k]] # NoRow
  BY <1>2 DEF InOrder, Handles
<1>6. ASSUME NEW k \in 1 .. n PROVE change(k) \in ChangeOf(Ids, Values)
  <2>1. rows[order[k]].record \in Ids
    BY <1>5 DEF QueueType, QueueOf, RowOf
  <2>2. AssignedId[rows[order[k]].record] \in Ids /\ order[k] \in Values
    BY <2>1, ReplicaAssumption DEF Values
  <2>3. Revision(log, k, now) \in Nat
    BY RevisionIsAhead
  <2> QED BY <2>2, <2>3 DEF NewChange, ChangeOf
<1>7. tail \in LogType /\ Len(tail) = n
  <2> HIDE DEF change
  <2>1. tail \in [1 .. n -> ChangeOf(Ids, Values)]
    BY <1>6
  <2>2. tail \in Seq(ChangeOf(Ids, Values))
    BY <1>3, <2>1, IsASeq
  <2>3. 1 .. Len(tail) = 1 .. n /\ Len(tail) \in Nat
    BY <2>2, LenProperties
  <2> QED BY <1>3, <2>2, <2>3 DEF LogType
<1>8. \A k \in 1 .. n : tail[k].revision = Revision(log, k, now)
  BY DEF NewChange
<1>9. log' = log \o tail
  BY <1>2, <1>4 DEF Appended
<1>10. now' = now + n
  BY DEF Handles, n
<1> HIDE DEF tail
<1>11. InTime(log \o tail) /\ Ahead(log \o tail, now + n)
  BY <1>3, <1>7, <1>8, AppendedInTime
<1> QED BY <1>9, <1>10, <1>11 DEF LogInTime

\* The log stays behind a clock that goes on.
LEMMA TimeGoesOn ==
    ASSUME ServerOK, LogInTime, log' = log, now' \in Nat, now' >= now
    PROVE  LogInTime'
<1>1. Len(log) \in Nat /\ now \in Nat /\ \A j \in 1 .. Len(log) : log[j].revision \in Nat
  BY LogTyped DEF ServerOK, ChangeOf
<1>2. Ahead(log, now')
  BY <1>1 DEF LogInTime, Ahead
<1> QED BY <1>2 DEF LogInTime

\* Every step keeps the log rising: the server's (HandleSync, HandleLate), those of other
\* devices, and the others, which leave it alone.
LEMMA LogStaysInTime ==
    ASSUME RowsOK, ServerOK, LogInTime, [Next]_vars
    PROVE  LogInTime'
<1>1. CASE HandleSync
  BY <1>1, HandlesInTime DEF HandleSync, RowsOK, Batch
<1>2. CASE HandleLate
  BY <1>2, HandlesInTime DEF HandleLate, RowsOK
<1>3. ASSUME NEW id \in Ids, NEW deleted \in BOOLEAN, ForeignWrite(id, deleted)
      PROVE  LogInTime'
  <2> DEFINE change == NewChange(id, Foreign, deleted, Revision(log, 1, now))
             tail == <<change>>
  <2>1. change \in ChangeOf(Ids, Values)
    BY RevisionIsAhead DEF NewChange, ChangeOf, Values
  <2>2. log' = Append(log, change) /\ now' = now + 1
    BY <1>3 DEF ForeignWrite
  <2>3. change.revision = Revision(log, 1, now)
    BY DEF NewChange
  <2> HIDE DEF change
  <2>4. tail \in LogType /\ Len(tail) = 1 /\ tail[1] = change
    BY <2>1 DEF LogType
  <2>5. log' = log \o tail
    BY <2>1, <2>2, AppendIsConcat DEF ServerOK, LogType
  <2> HIDE DEF tail
  <2>6. \A k \in 1 .. 1 : tail[k].revision = Revision(log, k, now)
    BY <2>3, <2>4
  <2>7. InTime(log \o tail) /\ Ahead(log \o tail, now + 1)
    BY <2>4, <2>6, AppendedInTime
  <2> QED BY <2>2, <2>5, <2>7 DEF LogInTime
<1>4. ASSUME NEW m \in Mutations, NEW operation, NEW id, Mutate(m, operation, id)
      PROVE  LogInTime'
  <2>1. PICK tick \in Ticks : now' = now + tick
    BY <1>4 DEF Mutate
  <2>2. tick \in Nat /\ now \in Nat
    BY ReplicaAssumption DEF ServerOK
  <2> QED BY <1>4, <2>1, <2>2, TimeGoesOn DEF Mutate, server
<1>5. CASE \/ \E m \in Mutations : UserRetries(m) \/ UserDiscards(m)
           \/ EnsureTable \/ SendRequest \/ RunStep \/ PrimaryKeyBreaks \/ TransportFails \/ StatementFails
           \/ Crash \/ Restart \/ UNCHANGED vars
  <2>1. log' = log /\ now' = now
    BY <1>5 DEF UserRetries, UserDiscards, EnsureTable, SendRequest, RunStep, RemapNext, Merge, Replace,
       SaveNext, BuryNext, Settle, Finish, PrimaryKeyBreaks, TransportFails, StatementFails, Crash,
       Restart, server, vars
  <2> QED BY <2>1, TimeGoesOn DEF ServerOK
<1> QED BY <1>1, <1>2, <1>3, <1>4, <1>5 DEF Next

\* The revisions in the server's log rise, whichever kind the server uses.
LEMMA LogIsInTime == Spec => []LogInTime
<1>1. Init => LogInTime
  BY EmptySeq DEF Init, LogInTime, InTime, Ahead
<1>2. IInv /\ LogInTime /\ [Next]_vars => LogInTime'
  BY LogStaysInTime DEF IInv
<1> QED BY <1>1, <1>2, Invariance, PTL DEF Spec

----------------------------------------------------------------------------
(***************************************************************************)
(* One more position                                                       *)
(***************************************************************************)
\* The candidates of an id among the first k positions: those among one fewer,
\* and k unless the loop skips it.
Skips(l, k, positions, protected, tombstones) ==
    \/ k \notin positions \/ l[k].deleted \/ l[k].id \in protected
    \/ Suppressed(l[k].id, RecordOf(l[k]), tombstones)

\* The usable records of id among the first k changes of the log.
CandidatesUpTo(k, id, positions, protected, tombstones) ==
    Candidates(id, log, positions \cap (1 .. k), protected, tombstones)

\* One more change is one more candidate, if it is a usable record of the id.
LEMMA CandidatesGrow ==
    ASSUME NEW k \in Nat \ {0}, NEW positions, NEW protected, NEW tombstones, NEW id,
           NEW before, before = CandidatesUpTo(k - 1, id, positions, protected, tombstones),
           NEW after, after = CandidatesUpTo(k, id, positions, protected, tombstones)
    PROVE  /\ before \in SUBSET (1 .. k - 1)
           /\ log[k].id = id /\ ~Skips(log, k, positions, protected, tombstones)
                 => after = before \cup {k}
           /\ ~(log[k].id = id /\ ~Skips(log, k, positions, protected, tombstones))
                 => after = before
<1>1. 1 .. k = (1 .. k - 1) \cup {k}
  OBVIOUS
<1> QED BY <1>1 DEF Candidates, CandidatesUpTo, Skips

\* What the strategy makes of what was kept and of the records at some positions.
Result(kept, l, S, strategy) ==
    IF S = {} THEN kept
    ELSE IF kept # NoRecord THEN ResolveConflict(kept, RecordOf(l[Latest(S)]), strategy)
    ELSE IF strategy = "client-wins" THEN RecordOf(l[Earliest(S)])
    ELSE RecordOf(l[Latest(S)])

\* One turn of the loop of mergePulledRecords.
Step(record, l, k, strategy) ==
    IF record = NoRecord THEN RecordOf(l[k]) ELSE ResolveConflict(record, RecordOf(l[k]), strategy)

\* Result over one more candidate is one turn of the loop.
LEMMA OneMore ==
    ASSUME log \in LogType, InTime(log), NEW kept \in Record \cup {NoRecord},
           NEW k \in 1 .. Len(log), NEW S \in SUBSET (1 .. k - 1)
    PROVE  Result(kept, log, S \cup {k}, Strategy) = Step(Result(kept, log, S, Strategy), log, k, Strategy)
<1>1. Len(log) \in Nat /\ \A j \in 1 .. Len(log) : log[j] \in ChangeOf(Ids, Values)
  BY LogTyped
<1>2. k \in Nat /\ S \subseteq 1 .. Len(log) /\ S \cup {k} \subseteq Nat /\ \A j \in S : j < k
  BY <1>1
<1>3. Latest(S \cup {k}) = k
  <2>1. k \in S \cup {k} /\ \A j \in S \cup {k} : j <= k
    BY <1>2
  <2> QED BY <1>2, <2>1, LatestIs
<1> DEFINE new == RecordOf(log[k])
<1>4. new \in Record /\ new.updatedAt > 0 /\ new # NoRecord
  BY <1>1, RecordOfType, NothingAssumption DEF InTime, RecordOf, NewRecord
<1>5. CASE S = {}
  <2>1. Earliest(S \cup {k}) = k
    BY <1>2, <1>5, EarliestIs
  <2> QED BY <1>3, <1>5, <2>1 DEF Result, Step
<1>6. CASE S # {}
  <2>1. Latest(S) \in S /\ Earliest(S) \in S /\ Earliest(S \cup {k}) = Earliest(S)
    <3>1. IsFiniteSet(S) /\ S \subseteq Nat
      <4>1. S \in SUBSET (1 .. Len(log))
        BY <1>2
      <4> QED BY <1>1, <4>1, CountingSet
    <3>2. Earliest(S) \in S /\ \A j \in S : Earliest(S) <= j
      BY <1>6, <3>1, EarliestIsLeast
    <3>3. Earliest(S) \in S \cup {k} /\ \A j \in S \cup {k} : Earliest(S) <= j
      <4>1. Earliest(S) \in Nat /\ Earliest(S) < k
        BY <1>2, <3>2
      <4> HIDE DEF Earliest
      <4> QED BY <1>2, <3>2, <4>1
    <3> QED BY <1>2, <1>6, <3>1, <3>2, <3>3, EarliestIs, LatestIsGreatest
  <2> DEFINE last == RecordOf(log[Latest(S)])
             first == RecordOf(log[Earliest(S)])
  <2>2. /\ last \in Record /\ last.updatedAt > 0 /\ last # NoRecord
        /\ first \in Record /\ first # NoRecord
        /\ last.updatedAt <= new.updatedAt
    <3>1. Latest(S) \in 1 .. Len(log) /\ Earliest(S) \in 1 .. Len(log) /\ Latest(S) < k
      BY <1>2, <2>1
    <3>2. log[Latest(S)].revision < log[k].revision /\ log[Latest(S)].revision > 0
      BY <3>1 DEF InTime
    <3>3. log[Latest(S)].revision \in Nat /\ log[k].revision \in Nat
      BY <1>1, <3>1 DEF ChangeOf
    <3> QED BY <1>1, <3>1, <3>2, <3>3, RecordOfType, NothingAssumption DEF RecordOf, NewRecord
  <2> HIDE DEF new, last, first
  <2>3. Result(kept, log, S, Strategy) =
           IF kept # NoRecord THEN ResolveConflict(kept, last, Strategy)
           ELSE IF Strategy = "client-wins" THEN first ELSE last
    BY <1>6 DEF Result, last, first
  <2>4. Result(kept, log, S \cup {k}, Strategy) =
           IF kept # NoRecord THEN ResolveConflict(kept, new, Strategy)
           ELSE IF Strategy = "client-wins" THEN first ELSE new
    BY <1>3, <2>1 DEF Result, new, first
  <2>5. \A record : Step(record, log, k, Strategy) =
           IF record = NoRecord THEN new ELSE ResolveConflict(record, new, Strategy)
    BY DEF Step, new
  <2>6. CASE kept = NoRecord
    <3>1. last \in Record /\ new \in Record /\ last.updatedAt \in Nat /\ new.updatedAt \in Nat
      BY <1>4, <2>2 DEF Record
    <3>2. Strategy # "client-wins" => ResolveConflict(last, new, Strategy) = new
      BY <1>4, <2>2, <3>1, ReplicaAssumption DEF ResolveConflict, MergeFields, Record
    <3>3. Strategy = "client-wins" => ResolveConflict(first, new, Strategy) = first
      BY DEF ResolveConflict
    <3> QED BY <2>2, <2>3, <2>4, <2>5, <2>6, <3>2, <3>3
  <2>7. CASE kept # NoRecord
    <3> DEFINE resolved == ResolveConflict(kept, last, Strategy)
    <3>1. kept \in Record /\ kept.updatedAt \in Nat /\ last.updatedAt \in Nat /\ new.updatedAt \in Nat
      BY <1>4, <2>2, <2>7 DEF Record
    <3>2. resolved \in Record
      BY <2>2, <3>1, ResolveType
    <3>3. resolved # NoRecord
      BY <3>2, NothingAssumption
    <3>4. ResolveConflict(resolved, new, Strategy) = ResolveConflict(kept, new, Strategy)
      <4>1. CASE Strategy = "merge-fields"
        <5>1. \A local \in Record : MergeFields(local, new) = new
          BY <1>4 DEF MergeFields, Record
        <5> QED BY <3>1, <3>2, <4>1, <5>1 DEF ResolveConflict
      <4>2. CASE Strategy = "last-write-wins"
        BY <2>2, <3>1, <4>2 DEF ResolveConflict
      <4>3. CASE Strategy \in {"server-wins", "client-wins"}
        BY <4>3 DEF ResolveConflict
      <4> QED BY <4>1, <4>2, <4>3, ReplicaAssumption DEF Strategies
    <3> QED BY <2>3, <2>4, <2>5, <2>7, <3>3, <3>4
  <2> QED BY <2>6, <2>7
<1> QED BY <1>5, <1>6

----------------------------------------------------------------------------
(***************************************************************************)
(* The loop                                                                *)
(***************************************************************************)
\* What the loop makes of one more position, given what it made of one fewer.
LoopStep(before, l, k, positions, protected, strategy, tombstones) ==
    IF Skips(l, k, positions, protected, tombstones) THEN before
    ELSE [before EXCEPT ![l[k].id] =
             IF @ = NoRecord THEN RecordOf(l[k])
             ELSE ResolveConflict(@, RecordOf(l[k]), strategy)]

\* The equation of the recursive function in MergePulledRecords.
IsLoop(f, local, l, positions, protected, strategy, tombstones) ==
    f = [k \in 0 .. Len(l) |->
            IF k = 0 THEN KeptLocal(local, protected, tombstones)
            ELSE LoopStep(f[k - 1], l, k, positions, protected, strategy, tombstones)]

\* The loop over the answer leaves of each id what Result says.
LEMMA LoopIsChosen ==
    ASSUME NEW local, NEW l, NEW positions, NEW protected, NEW strategy, NEW tombstones
    PROVE  MergePulledRecords(local, l, positions, protected, strategy, tombstones) =
             (CHOOSE f : IsLoop(f, local, l, positions, protected, strategy, tombstones))[Len(l)]
BY DEF MergePulledRecords, IsLoop, LoopStep, Skips

\* The equation has one solution.
LEMMA LoopIsUnique ==
    ASSUME NEW local, NEW l, Len(l) \in Nat, NEW positions, NEW protected, NEW strategy,
           NEW tombstones,
           NEW f, IsLoop(f, local, l, positions, protected, strategy, tombstones),
           NEW g, IsLoop(g, local, l, positions, protected, strategy, tombstones)
    PROVE  f[Len(l)] = g[Len(l)]
<1> DEFINE same == {k \in 0 .. Len(l) : f[k] = g[k]}
           step(before, k) == LoopStep(before, l, k, positions, protected, strategy, tombstones)
<1>1. \A k \in 1 .. Len(l) : f[k] = step(f[k - 1], k) /\ g[k] = step(g[k - 1], k)
  <2>1. f = [k \in 0 .. Len(l) |-> IF k = 0 THEN KeptLocal(local, protected, tombstones)
                                   ELSE step(f[k - 1], k)]
    BY DEF IsLoop
  <2>2. g = [k \in 0 .. Len(l) |-> IF k = 0 THEN KeptLocal(local, protected, tombstones)
                                   ELSE step(g[k - 1], k)]
    BY DEF IsLoop
  <2>3. \A k \in 1 .. Len(l) : k \in 0 .. Len(l) /\ k # 0
    OBVIOUS
  <2> HIDE DEF step
  <2>4. \A k \in 0 .. Len(l) : f[k] = IF k = 0 THEN KeptLocal(local, protected, tombstones)
                                      ELSE step(f[k - 1], k)
    BY <2>1
  <2>5. \A k \in 0 .. Len(l) : g[k] = IF k = 0 THEN KeptLocal(local, protected, tombstones)
                                      ELSE step(g[k - 1], k)
    BY <2>2
  <2> QED BY <2>3, <2>4, <2>5
<1>2. 0 \in same
  <2>1. 0 \in 0 .. Len(l)
    OBVIOUS
  <2>2. f[0] = KeptLocal(local, protected, tombstones) /\ g[0] = KeptLocal(local, protected, tombstones)
    BY <2>1 DEF IsLoop
  <2> QED BY <2>1, <2>2
<1> HIDE DEF step
<1>3. \A k \in 1 .. Len(l) : k - 1 \in same => k \in same
  BY <1>1
<1>4. 0 .. Len(l) \subseteq same
  <2> HIDE DEF same
  <2> QED BY <1>2, <1>3, Counting
<1> QED BY <1>4

\* Merged over the first k positions solves it.
LEMMA MergedIsLoop ==
    ASSUME log \in LogType, InTime(log), NEW local \in RecordsType, NEW positions, NEW protected,
           NEW tombstones
    PROVE  IsLoop([k \in 0 .. Len(log) |->
                      Merged(local, log, positions \cap (1 .. k), protected, Strategy, tombstones)],
                  local, log, positions, protected, Strategy, tombstones)
<1> DEFINE kept == KeptLocal(local, protected, tombstones)
           candidates(id, k) == Candidates(id, log, positions \cap (1 .. k), protected, tombstones)
           merged(k) == Merged(local, log, positions \cap (1 .. k), protected, Strategy, tombstones)
           result(id, k) == Result(kept[id], log, candidates(id, k), Strategy)
           skips(k) == Skips(log, k, positions, protected, tombstones)
<1>1. Len(log) \in Nat /\ \A k \in 1 .. Len(log) : log[k] \in ChangeOf(Ids, Values)
  BY LogTyped
<1>2. DOMAIN local = Ids /\ kept \in RecordsType
  BY DEF RecordsType, KeptLocal
<1>3. ASSUME NEW k \in 0 .. Len(log)
      PROVE  merged(k) = [id \in Ids |-> result(id, k)]
  BY <1>2 DEF Merged, Result
<1> HIDE DEF merged, kept, skips
<1>4. merged(0) = kept
  <2>1. 0 \in 0 .. Len(log)
    BY <1>1
  <2>2. \A id \in Ids : candidates(id, 0) = {}
    BY DEF Candidates
  <2>3. \A id \in Ids : result(id, 0) = kept[id]
    BY <2>2 DEF Result
  <2> HIDE DEF result
  <2> QED BY <1>2, <1>3, <2>1, <2>3 DEF RecordsType
<1>5. ASSUME NEW k \in 1 .. Len(log)
      PROVE  merged(k) = LoopStep(merged(k - 1), log, k, positions, protected, Strategy, tombstones)
  <2>1. k \in 0 .. Len(log) /\ k - 1 \in 0 .. Len(log) /\ log[k].id \in Ids
    BY <1>1 DEF ChangeOf
  <2>2. ASSUME NEW id \in Ids
        PROVE  result(id, k) = IF log[k].id = id /\ ~skips(k)
                               THEN Step(result(id, k - 1), log, k, Strategy)
                               ELSE result(id, k - 1)
    <3>1. /\ candidates(id, k - 1) \in SUBSET (1 .. k - 1)
          /\ log[k].id = id /\ ~skips(k) => candidates(id, k) = candidates(id, k - 1) \cup {k}
          /\ ~(log[k].id = id /\ ~skips(k)) => candidates(id, k) = candidates(id, k - 1)
      <4>1. k \in Nat \ {0}
        BY <1>1
      <4>2. /\ candidates(id, k) = CandidatesUpTo(k, id, positions, protected, tombstones)
            /\ candidates(id, k - 1) = CandidatesUpTo(k - 1, id, positions, protected, tombstones)
        BY DEF CandidatesUpTo
      <4> HIDE DEF candidates
      <4>3. ASSUME NEW before, before = CandidatesUpTo(k - 1, id, positions, protected, tombstones),
                   NEW after, after = CandidatesUpTo(k, id, positions, protected, tombstones)
            PROVE  /\ before \in SUBSET (1 .. k - 1)
                   /\ log[k].id = id /\ ~skips(k) => after = before \cup {k}
                   /\ ~(log[k].id = id /\ ~skips(k)) => after = before
        BY <4>1, <4>3, CandidatesGrow DEF skips
      <4> HIDE DEF skips
      <4> QED BY <4>2, <4>3
    <3>2. kept[id] \in Record \cup {NoRecord}
      BY <1>2 DEF RecordsType
    <3> HIDE DEF candidates
    <3>3. CASE log[k].id = id /\ ~skips(k)
      <4>1. candidates(id, k) = candidates(id, k - 1) \cup {k}
        BY <3>1, <3>3
      <4>2. Result(kept[id], log, candidates(id, k - 1) \cup {k}, Strategy) =
               Step(Result(kept[id], log, candidates(id, k - 1), Strategy), log, k, Strategy)
        BY <3>1, <3>2, OneMore
      <4> QED BY <3>3, <4>1, <4>2
    <3>4. CASE ~(log[k].id = id /\ ~skips(k))
      BY <3>1, <3>4
    <3> QED BY <3>3, <3>4
  <2>3. merged(k) = [id \in Ids |-> result(id, k)] /\ merged(k - 1) = [id \in Ids |-> result(id, k - 1)]
    BY <1>3, <2>1
  <2> HIDE DEF result
  <2>4. CASE skips(k)
    <3>1. \A id \in Ids : result(id, k) = result(id, k - 1)
      BY <2>2, <2>4
    <3>2. merged(k) = merged(k - 1)
      BY <2>3, <3>1
    <3> QED BY <2>4, <3>2 DEF LoopStep, skips
  <2>5. CASE ~skips(k)
    <3>1. \A id \in Ids : result(id, k) = IF log[k].id = id
                                          THEN Step(result(id, k - 1), log, k, Strategy)
                                          ELSE result(id, k - 1)
      BY <2>2, <2>5
    <3>2. merged(k) = [merged(k - 1) EXCEPT ![log[k].id] = Step(@, log, k, Strategy)]
      BY <2>1, <2>3, <3>1
    <3> QED BY <2>5, <3>2 DEF LoopStep, skips, Step
  <2> QED BY <2>4, <2>5
<1> DEFINE f == [k \in 0 .. Len(log) |-> merged(k)]
<1>6. f = [k \in 0 .. Len(log) |->
              IF k = 0 THEN kept
              ELSE LoopStep(f[k - 1], log, k, positions, protected, Strategy, tombstones)]
  <2>1. ASSUME NEW k \in 0 .. Len(log)
        PROVE  merged(k) = IF k = 0 THEN kept
                           ELSE LoopStep(f[k - 1], log, k, positions, protected, Strategy, tombstones)
    <3>1. CASE k = 0
      BY <1>4, <3>1
    <3>2. CASE k # 0
      <4>1. k \in 1 .. Len(log) /\ k - 1 \in 0 .. Len(log)
        BY <1>1, <3>2
      <4>2. f[k - 1] = merged(k - 1)
        BY <4>1
      <4> QED BY <1>5, <3>2, <4>1, <4>2
    <3> QED BY <3>1, <3>2
  <2> QED BY <2>1
<1> QED BY <1>6 DEF IsLoop, merged, kept

\* The loops of mergePulledRecords, over any answer: the pass over the log in its
\* order leaves what the strategy makes of the last usable record of each id.
LEMMA LoopComputesMerged ==
    ASSUME log \in LogType, InTime(log), NEW local \in RecordsType,
           NEW positions \in SUBSET (1 .. Len(log)), NEW protected, NEW tombstones
    PROVE  Merged(local, log, positions, protected, Strategy, tombstones) =
             MergePulledRecords(local, log, positions, protected, Strategy, tombstones)
<1> DEFINE merged(k) == Merged(local, log, positions \cap (1 .. k), protected, Strategy, tombstones)
           f == [k \in 0 .. Len(log) |-> merged(k)]
           loops(g) == IsLoop(g, local, log, positions, protected, Strategy, tombstones)
<1>1. Len(log) \in Nat
  BY LogTyped
<1>2. loops(f)
  BY MergedIsLoop
<1>3. loops(CHOOSE g : loops(g))
  <2> HIDE DEF loops, f
  <2> QED BY <1>2
<1>4. (CHOOSE g : loops(g))[Len(log)] = f[Len(log)]
  <2> HIDE DEF f
  <2> QED BY <1>1, <1>2, <1>3, LoopIsUnique
<1>5. f[Len(log)] = merged(Len(log))
  BY <1>1
<1>6. positions \cap (1 .. Len(log)) = positions
  OBVIOUS
<1>7. MergePulledRecords(local, log, positions, protected, Strategy, tombstones) =
        (CHOOSE g : loops(g))[Len(log)]
  BY LoopIsChosen
<1> HIDE DEF f, loops
<1> QED BY <1>4, <1>5, <1>6, <1>7

\* For every answer a run may get, whatever else of an id it brings, the loops
\* of mergePulledRecords leave what the conflict strategy makes of the last usable
\* record of each id: with any strategy, and either kind of revision.
THEOREM LoopsMerge == Spec => []MergeIsTheLoop
<1>1. ASSUME IInv, LogInTime PROVE MergeIsTheLoop
  <2>1. log \in LogType /\ reply.to \in 0 .. Len(log) /\ reply.from \in Nat
    BY <1>1 DEF IInv, ServerOK, AnswerOK
  <2>2. Positions \in SUBSET (1 .. Len(log))
    BY <2>1, PositionsType
  <2>3. LocalRecords \in RecordsType
    BY <1>1 DEF LocalRecords, IInv, CopiesOK, RecordsType
  <2> QED BY <1>1, <2>1, <2>2, <2>3, LoopComputesMerged DEF MergeIsTheLoop, LogInTime
<1> QED BY <1>1, Invariance, LogIsInTime, PTL
=============================================================================
