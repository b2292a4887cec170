---------------------------- MODULE MCSyncEngine ----------------------------
(***************************************************************************)
(* Small instances of SyncEngine.                                          *)
(***************************************************************************)
EXTENDS SyncEngine, TLC

CONSTANTS m1, m2, m3, t1, t2, r1, r2

\* m3 changes the table of m1 and depends on it; m2 is in another table.
MCTableOf == [m \in Mutations |-> IF m = m2 THEN t2 ELSE t1]

MCDependsOn == [m \in Mutations |-> IF m = m3 THEN {m1} ELSE {}]

MCStamp == [m \in Mutations |-> IF m = m1 THEN 1 ELSE IF m = m2 THEN 2 ELSE 3]

\* The prerequisite m1 is in another table than m2.
AcrossTables == [m \in Mutations |-> IF m = m2 THEN {m1} ELSE {}]

SyncAll == {Tables}

SyncAny == {Tables} \cup {{t} : t \in Tables}

\* Runs are interchangeable.
RunSymmetry == Permutations(Runs)
=============================================================================
