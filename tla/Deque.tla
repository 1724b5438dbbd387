-------------------------------- MODULE Deque --------------------------------
(***************************************************************************)
(* What nba::FixedRing promises its users, among them the job queue of     *)
(* ElementGraph: a bounded double-ended queue.  The back takes new jobs,   *)
(* the front takes jobs that must go first, and the front is consumed.     *)
(***************************************************************************)
EXTENDS Naturals, Sequences

CONSTANTS Values, MaxSize

VARIABLE items

Init == items = <<>>

PushBack(x)  == Len(items) < MaxSize /\ items' = Append(items, x)
PushFront(x) == Len(items) < MaxSize /\ items' = <<x>> \o items
PopFront     == items # <<>> /\ items' = Tail(items)

Next == (\E x \in Values : PushBack(x) \/ PushFront(x)) \/ PopFront

Spec == Init /\ [][Next]_items

=============================================================================
