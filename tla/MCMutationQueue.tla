-------------------------- MODULE MCMutationQueue --------------------------
(***************************************************************************)
(* Small instances of MutationQueue.                                       *)
(***************************************************************************)
EXTENDS MutationQueue

CONSTANTS m1, t1, t2, a, b, v

NewDraft(table, record, operation, dependsOn, value) ==
    [table |-> table, record |-> record, operation |-> operation,
     dependsOn |-> dependsOn, value |-> value]

\* One record of one table is written; the others are there to be left alone.
OneDraft == {NewDraft(t1, a, "UPDATE", {}, v)}
=============================================================================
