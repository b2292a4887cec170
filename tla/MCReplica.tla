----------------------------- MODULE MCReplica -----------------------------
(***************************************************************************)
(* Small instances of Replica.                                             *)
(***************************************************************************)
EXTENDS Replica, TLC

CONSTANTS m1, m2, a, b

\* The server keeps the ids that devices make.
SameIds == [id \in Ids |-> id]

\* The server has ids of its own: what is created as a becomes b.
NewIds == [id \in Ids |-> b]

\* Mutations are interchangeable.
MutationSymmetry == Permutations(Mutations)
=============================================================================
