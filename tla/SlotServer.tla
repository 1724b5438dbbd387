------------------------------ MODULE SlotServer ------------------------------
(***************************************************************************)
(* What the host may expect of a coprocessor that it gives tasks by slot:  *)
(* the completions come in the order of the slots, each for a slot that    *)
(* was given a task that did not complete, and a task goes unanswered only *)
(* when it shares its slot with another one.                               *)
(***************************************************************************)
EXTENDS Integers

CONSTANT Len0

Slots == 0..(Len0 - 1)

VARIABLES
    owed,        \* completions that are owed, by slot
    turn         \* the slot that completes next

Init == owed = [s \in Slots |-> 0] /\ turn = 0

Give(s) == owed' = [owed EXCEPT ![s] = @ + 1] /\ UNCHANGED turn

Complete ==
    /\ owed[turn] > 0
    /\ owed' = [owed EXCEPT ![turn] = @ - 1]
    /\ turn' = (turn + 1) % Len0

Merge(s) ==
    /\ owed[s] > 1
    /\ owed' = [owed EXCEPT ![s] = @ - 1]
    /\ UNCHANGED turn

Next == Complete \/ \E s \in Slots : Give(s) \/ Merge(s)

Spec == Init /\ [][Next]_<<owed, turn>>

=============================================================================
