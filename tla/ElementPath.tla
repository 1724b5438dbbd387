---------------------------- MODULE ElementPath ----------------------------
(***************************************************************************)
(* What the pipeline promises for every packet batch, whoever computes it: *)
(* a received batch gets the results of the elements 1, 2, .. NElems, each *)
(* exactly once and in this order, and only then is its object free again. *)
(* The batches of one offload task advance together.                       *)
(***************************************************************************)
EXTENDS Integers

CONSTANTS Batches, NElems

VARIABLE stage      \* elements whose results the batch has; Idle when free

Idle == -1

Init == stage = [b \in Batches |-> Idle]

Receive(b) ==
    /\ stage[b] = Idle
    /\ stage' = [stage EXCEPT ![b] = 0]

\* Element k + 1 computes the batches of S.
Compute(S, k) ==
    /\ \A b \in S : stage[b] = k
    /\ stage' = [b \in Batches |-> IF b \in S THEN k + 1 ELSE stage[b]]

\* The batch is transmitted once it has all results (the last element's CPU
\* handler and the transmission are one step of the job queue).
Transmit(b) ==
    /\ stage[b] \in {NElems - 1, NElems}
    /\ stage' = [stage EXCEPT ![b] = Idle]

Next ==
    \/ \E b \in Batches : Receive(b) \/ Transmit(b)
    \/ \E S \in SUBSET Batches, k \in 0..NElems - 1 : Compute(S, k)

Spec == Init /\ [][Next]_stage

=============================================================================
