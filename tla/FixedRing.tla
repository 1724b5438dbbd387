------------------------------ MODULE FixedRing ------------------------------
(***************************************************************************)
(* nba::FixedRing, the circular array under ElementGraph::queue.  Batches  *)
(* are pushed at the back and offload tasks that must go first at the      *)
(* front, so both indices move in both directions around the array.        *)
(* Indices count from 0 as in the code.                                    *)
(***************************************************************************)
EXTENDS Integers, Sequences

CONSTANTS
    Values,    \* what is stored
    MaxSize,   \* max_size
    Garbage    \* a slot that rte_malloc_socket() left uninitialized

\* The constructor's assertion.
ASSUME RingAssumption == MaxSize \in Nat \ {0} /\ Garbage \notin Values

Slots == 0..(MaxSize - 1)

VARIABLES v, push_idx, pop_idx, count

vars == <<v, push_idx, pop_idx, count>>

Init ==
    /\ v = [i \in Slots |-> Garbage]
    /\ push_idx = 0 /\ pop_idx = 0 /\ count = 0

\* Faulty: the index is not wrapped.
BackUnwrapped(i) == i + 1

\* Where push_back() and pop_front() move an index.
Forward(i) == (i + 1) % MaxSize

\* Faulty: an index at the start of the array stays there.
BackwardClamped(i) == IF i = 0 THEN 0 ELSE i - 1

\* Where push_front() moves an index.
Backward(i) == (MaxSize + i - 1) % MaxSize

\* The assert() of both pushes is a guard: a caller that breaks it is aborted.
PushBack(x) ==
    /\ count < MaxSize
    /\ v' = [v EXCEPT ![push_idx] = x]
    /\ push_idx' = Forward(push_idx)
    /\ count' = count + 1
    /\ UNCHANGED pop_idx

PushFront(x) ==
    /\ count < MaxSize
    /\ v' = [v EXCEPT ![Backward(pop_idx)] = x]
    /\ pop_idx' = Backward(pop_idx)
    /\ count' = count + 1
    /\ UNCHANGED push_idx

empty == push_idx = pop_idx /\ count = 0
full  == count = MaxSize

\* Faulty: the wrong end is dropped.
PopBack ==
    /\ ~empty
    /\ push_idx' = Backward(push_idx)
    /\ count' = count - 1
    /\ UNCHANGED <<v, pop_idx>>

\* Without effect on an empty ring.
PopFront ==
    /\ ~empty
    /\ pop_idx' = Forward(pop_idx)
    /\ count' = count - 1
    /\ UNCHANGED <<v, push_idx>>

Next == (\E x \in Values : PushBack(x) \/ PushFront(x)) \/ PopFront

Spec == Init /\ [][Next]_vars

\* at(i), which is what an iterator at position i yields; front() is at(0).
at(i) == v[(pop_idx + i) % MaxSize]

\* What iterating from begin() to end() yields.
Contents == [i \in 1..count |-> at(i - 1)]

-----------------------------------------------------------------------------

\* The indices stay inside the array, the size inside its bound.
TypeOK ==
    /\ v \in [Slots -> Values \cup {Garbage}]
    /\ push_idx \in Slots /\ pop_idx \in Slots
    /\ count \in 0..MaxSize

\* The three redundant fields agree, however pushes at both ends and pops are
\* mixed: the next slot to fill is size() slots after the next one to take, and
\* hence empty() and full() tell a ring of size 0 from a ring of size max_size
\* although the indices are equal in both.
IndicesAgree ==
    /\ push_idx = (pop_idx + count) % MaxSize
    /\ empty <=> count = 0
    /\ push_idx = pop_idx <=> empty \/ full

Queue == INSTANCE Deque WITH items <- Contents

\* The ring implements Deque: it never loses, duplicates, overwrites or
\* reorders what is in it, wherever in the array it lies.
DequeSpec == Queue!Spec

=============================================================================
