------------------------- MODULE MutationLifecycle -------------------------
(***************************************************************************)
(* What the queue promises for each mutation: the state machine of         *)
(* src/stateMachine.ts, with what lies before and after it.  A mutation is *)
(* NEW until it is enqueued; while it is queued only the events of         *)
(* transitionMutationState move it; ACKED and DISCARDED are final, and     *)
(* only the user moves a mutation out of REJECTED.                         *)
(*                                                                         *)
(* This is the abstract specification that module SyncEngine implements.   *)
(***************************************************************************)

CONSTANT Mutations

VARIABLE life   \* the state of each mutation

Delivering == {"PENDING", "SYNCING", "FAILED"}

Events == {"ENQUEUED", "CLAIMED", "ACKED", "FAILED", "REJECTED", "RETRY", "RECOVERED"}

States == Delivering \cup {"NEW", "ACKED", "REJECTED", "DISCARDED"}

\* Where an event takes a mutation that is being delivered.
Target ==
    [CLAIMED |-> "SYNCING", ACKED |-> "ACKED", FAILED |-> "FAILED",
     REJECTED |-> "REJECTED", RETRY |-> "PENDING", RECOVERED |-> "PENDING"]

TransitionMutationState(current, event) ==
    IF current \in Delivering
    THEN IF event = "ENQUEUED" THEN current ELSE Target[event]
    ELSE IF current = "REJECTED" /\ event = "ACKED" THEN "ACKED"
    ELSE current

Init == life = [m \in Mutations |-> "NEW"]

In(states) == {m \in Mutations : life[m] \in states}

Enqueue == \E m \in In({"NEW"}) : life' = [life EXCEPT ![m] = "PENDING"]

\* One statement may move several mutations: a claim, a recovery.
Handle(event) ==
    /\ life' \in [Mutations -> States]
    /\ \A m \in Mutations :
          \/ life'[m] = life[m]
          \/ /\ life[m] \in Delivering \cup {"REJECTED"}
             /\ life'[m] = TransitionMutationState(life[m], event)

\* The user's answers to a rejection.
RetryRejected == \E m \in In({"REJECTED"}) : life' = [life EXCEPT ![m] = "PENDING"]

DiscardRejected == \E m \in In({"REJECTED"}) : life' = [life EXCEPT ![m] = "DISCARDED"]

Next ==
    \/ Enqueue
    \/ \E event \in Events : Handle(event)
    \/ RetryRejected
    \/ DiscardRejected

Spec == Init /\ [][Next]_life
=============================================================================
