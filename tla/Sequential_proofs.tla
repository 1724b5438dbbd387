-------------------------- MODULE Sequential_proofs --------------------------
(***************************************************************************)
(* Theorems about the parts of MCSequential, for every value of their      *)
(* constants.                                                              *)
(***************************************************************************)
EXTENDS MCSequential, SequencesExt, Counting_proofs

-----------------------------------------------------------------------------
(* The queue, FixedRing: its invariants, and that it implements Deque        *)

\* Forward and Backward stay in the array and are inverse to each other.
LEMMA IndexSteps ==
  \A i \in Slots : /\ Forward(i) \in Slots /\ Backward(i) \in Slots
                   /\ Forward(i) = IF i = MaxSize - 1 THEN 0 ELSE i + 1
                   /\ Backward(i) = IF i = 0 THEN MaxSize - 1 ELSE i - 1
  <1> SUFFICES ASSUME NEW i \in Slots
               PROVE /\ Forward(i) \in Slots /\ Backward(i) \in Slots
                     /\ Forward(i) = IF i = MaxSize - 1 THEN 0 ELSE i + 1
                     /\ Backward(i) = IF i = 0 THEN MaxSize - 1 ELSE i - 1
    OBVIOUS
  <1>1. MaxSize \in Nat \ {0} /\ i \in Nat /\ i < MaxSize
    BY RingAssumption DEF Slots
  <1>2. Forward(i) = IF i = MaxSize - 1 THEN 0 ELSE i + 1
    BY <1>1 DEF Forward
  <1>3. Backward(i) = IF i = 0 THEN MaxSize - 1 ELSE i - 1
    BY <1>1 DEF Backward
  <1> QED BY <1>1, <1>2, <1>3 DEF Slots

LEMMA ModCases ==
  \A M \in Nat \ {0} : \A a \in Nat :
     a < M + M => a % M = IF a < M THEN a ELSE a - M
  <1> SUFFICES ASSUME NEW M \in Nat \ {0}, NEW a \in Nat, a < M + M
               PROVE a % M = IF a < M THEN a ELSE a - M
    OBVIOUS
  <1>1. CASE a < M
    BY <1>1
  <1>2. CASE M <= a
    BY <1>2
  <1> QED BY <1>1, <1>2

\* Where the k-th item from an index lies.
LEMMA Offset ==
  \A p \in Slots : \A k \in 0..MaxSize :
     (p + k) % MaxSize = IF p + k < MaxSize THEN p + k ELSE p + k - MaxSize
  <1> SUFFICES ASSUME NEW p \in Slots, NEW k \in 0..MaxSize
               PROVE (p + k) % MaxSize = IF p + k < MaxSize THEN p + k ELSE p + k - MaxSize
    OBVIOUS
  <1>1. MaxSize \in Nat \ {0} /\ p + k \in Nat /\ p + k < MaxSize + MaxSize
    BY RingAssumption DEF Slots
  <1>2. p \in Nat /\ k \in Nat
    BY RingAssumption DEF Slots
  <1>3. PICK a \in Nat : a = p + k
    BY <1>1
  <1>4. a % MaxSize = IF a < MaxSize THEN a ELSE a - MaxSize
    BY <1>1, <1>3, ModCases
  <1> QED BY <1>1, <1>2, <1>3, <1>4

-----------------------------------------------------------------------------
(* The inductive invariant: the type, and the index equation.               *)

IndexInv == push_idx = (pop_idx + count) % MaxSize

\* What IndexInv says without the remainder.
LEMMA IndexCases ==
  ASSUME TypeOK, IndexInv
  PROVE  push_idx = IF pop_idx + count < MaxSize THEN pop_idx + count
                                                  ELSE pop_idx + count - MaxSize
  BY Offset DEF TypeOK, IndexInv

Inv == TypeOK /\ IndexInv

LEMMA InitInv == Init => Inv
  <1> SUFFICES ASSUME Init PROVE Inv
    OBVIOUS
  <1>1. TypeOK
    BY RingAssumption DEF Init, TypeOK, Slots
  <1>2. IndexInv
    BY RingAssumption DEF Init, IndexInv
  <1> QED BY <1>1, <1>2 DEF Inv

LEMMA PushBackInv ==
  ASSUME Inv, NEW x \in Values, PushBack(x) PROVE Inv'
  <1> USE DEF Inv
  <1>1. TypeOK'
    <2>1. v' \in [Slots -> Values \cup {Garbage}]
      BY DEF TypeOK, PushBack
    <2>2. push_idx' \in Slots /\ pop_idx' \in Slots
      BY IndexSteps DEF TypeOK, PushBack
    <2>3. count' \in 0..MaxSize
      BY RingAssumption DEF TypeOK, PushBack
    <2> QED BY <2>1, <2>2, <2>3 DEF TypeOK
  <1>2. push_idx' = IF pop_idx' + count' < MaxSize THEN pop_idx' + count'
                                                    ELSE pop_idx' + count' - MaxSize
    <2>1. /\ MaxSize \in Nat \ {0} /\ count < MaxSize
          /\ push_idx \in Int /\ 0 <= push_idx /\ push_idx < MaxSize
          /\ pop_idx \in Int /\ 0 <= pop_idx /\ pop_idx < MaxSize
          /\ count \in Int /\ 0 <= count /\ count <= MaxSize
      BY RingAssumption DEF TypeOK, PushBack, Slots
    <2>2. push_idx = IF pop_idx + count < MaxSize THEN pop_idx + count
                                                   ELSE pop_idx + count - MaxSize
      BY IndexCases
    <2>3. /\ count' = count + 1 /\ pop_idx' = pop_idx
           /\ push_idx' = IF push_idx = MaxSize - 1 THEN 0 ELSE push_idx + 1
      BY IndexSteps DEF TypeOK, PushBack
    <2> QED BY <2>1, <2>2, <2>3
  <1>3. IndexInv'
    <2>1. pop_idx' \in Slots /\ count' \in 0..MaxSize
      BY <1>1 DEF TypeOK
    <2> QED BY <1>2, <2>1, Offset DEF IndexInv
  <1> QED BY <1>1, <1>3

LEMMA PushFrontInv ==
  ASSUME Inv, NEW x \in Values, PushFront(x) PROVE Inv'
  <1> USE DEF Inv
  <1>1. TypeOK'
    <2>1. v' \in [Slots -> Values \cup {Garbage}]
      BY DEF TypeOK, PushFront
    <2>2. push_idx' \in Slots /\ pop_idx' \in Slots
      BY IndexSteps DEF TypeOK, PushFront
    <2>3. count' \in 0..MaxSize
      BY RingAssumption DEF TypeOK, PushFront
    <2> QED BY <2>1, <2>2, <2>3 DEF TypeOK
  <1>2. push_idx' = IF pop_idx' + count' < MaxSize THEN pop_idx' + count'
                                                    ELSE pop_idx' + count' - MaxSize
    <2>1. /\ MaxSize \in Nat \ {0} /\ count < MaxSize
          /\ push_idx \in Int /\ 0 <= push_idx /\ push_idx < MaxSize
          /\ pop_idx \in Int /\ 0 <= pop_idx /\ pop_idx < MaxSize
          /\ count \in Int /\ 0 <= count /\ count <= MaxSize
      BY RingAssumption DEF TypeOK, PushFront, Slots
    <2>2. push_idx = IF pop_idx + count < MaxSize THEN pop_idx + count
                                                   ELSE pop_idx + count - MaxSize
      BY IndexCases
    <2>3. /\ count' = count + 1 /\ push_idx' = push_idx
           /\ pop_idx' = IF pop_idx = 0 THEN MaxSize - 1 ELSE pop_idx - 1
      BY IndexSteps DEF TypeOK, PushFront
    <2> QED BY <2>1, <2>2, <2>3
  <1>3. IndexInv'
    <2>1. pop_idx' \in Slots /\ count' \in 0..MaxSize
      BY <1>1 DEF TypeOK
    <2> QED BY <1>2, <2>1, Offset DEF IndexInv
  <1> QED BY <1>1, <1>3

\* empty() holds of a ring without items only; the size is redundant there.
LEMMA EmptyIff == ASSUME Inv PROVE empty <=> count = 0
  BY RingAssumption, IndexCases DEF Inv, TypeOK, Slots, empty

LEMMA PopFrontInv ==
  ASSUME Inv, PopFront PROVE Inv'
  <1> USE DEF Inv
  <1>0. count # 0
    BY EmptyIff DEF PopFront
  <1>1. TypeOK'
    <2>1. v' \in [Slots -> Values \cup {Garbage}]
      BY DEF TypeOK, PopFront
    <2>2. push_idx' \in Slots /\ pop_idx' \in Slots
      BY IndexSteps DEF TypeOK, PopFront
    <2>3. count' \in 0..MaxSize
      BY <1>0, RingAssumption DEF TypeOK, PopFront
    <2> QED BY <2>1, <2>2, <2>3 DEF TypeOK
  <1>2. push_idx' = IF pop_idx' + count' < MaxSize THEN pop_idx' + count'
                                                    ELSE pop_idx' + count' - MaxSize
    <2>1. /\ MaxSize \in Nat \ {0} /\ count # 0
          /\ push_idx \in Int /\ 0 <= push_idx /\ push_idx < MaxSize
          /\ pop_idx \in Int /\ 0 <= pop_idx /\ pop_idx < MaxSize
          /\ count \in Int /\ 0 <= count /\ count <= MaxSize
      BY <1>0, RingAssumption DEF TypeOK, PopFront, Slots
    <2>2. push_idx = IF pop_idx + count < MaxSize THEN pop_idx + count
                                                   ELSE pop_idx + count - MaxSize
      BY IndexCases
    <2>3. /\ count' = count - 1 /\ push_idx' = push_idx
           /\ pop_idx' = IF pop_idx = MaxSize - 1 THEN 0 ELSE pop_idx + 1
      BY IndexSteps DEF TypeOK, PopFront
    <2> QED BY <2>1, <2>2, <2>3
  <1>3. IndexInv'
    <2>1. pop_idx' \in Slots /\ count' \in 0..MaxSize
      BY <1>1 DEF TypeOK
    <2> QED BY <1>2, <2>1, Offset DEF IndexInv
  <1> QED BY <1>1, <1>3

LEMMA StepInv == Inv /\ [Next]_vars => Inv'
  <1> SUFFICES ASSUME Inv, [Next]_vars PROVE Inv'
    OBVIOUS
  <1>1. ASSUME NEW x \in Values, PushBack(x) PROVE Inv'
    BY <1>1, PushBackInv
  <1>2. ASSUME NEW x \in Values, PushFront(x) PROVE Inv'
    BY <1>2, PushFrontInv
  <1>3. CASE PopFront
    BY <1>3, PopFrontInv
  <1>4. CASE UNCHANGED vars
    BY <1>4 DEF Inv, TypeOK, IndexInv, vars
  <1> QED BY <1>1, <1>2, <1>3, <1>4 DEF Next

LEMMA InvHolds == Spec => []Inv
  BY InitInv, StepInv, PTL DEF Spec

\* The indices and the size of a ring always have their types.
THEOREM TypeCorrect == Spec => []TypeOK
  <1>1. Inv => TypeOK
    BY DEF Inv
  <1> QED BY <1>1, InvHolds, PTL

\* In every reachable state the three redundant fields agree: a ring is empty
\* or full exactly when its size says so, wherever its items lie.
THEOREM IndicesCorrect == Spec => []IndicesAgree
  <1>1. Inv => IndicesAgree
    <2> SUFFICES ASSUME Inv PROVE IndicesAgree
      OBVIOUS
    <2>1. push_idx = (pop_idx + count) % MaxSize
      BY DEF Inv, IndexInv
    <2>2. empty <=> count = 0
      BY EmptyIff
    <2>3. push_idx = pop_idx <=> empty \/ full
      BY <2>2, RingAssumption, IndexCases DEF Inv, TypeOK, Slots, full
    <2> QED BY <2>1, <2>2, <2>3 DEF IndicesAgree
  <1> QED BY <1>1, InvHolds, PTL

-----------------------------------------------------------------------------
(* Where items lie, and what the ring refines.                              *)

\* The slot of the k-th item when p is the index of the first.
Pos(p, k) == (p + k) % MaxSize

LEMMA PosRange == \A p \in Slots : \A k \in 0..MaxSize : Pos(p, k) \in Slots
  <1> SUFFICES ASSUME NEW p \in Slots, NEW k \in 0..MaxSize PROVE Pos(p, k) \in Slots
    OBVIOUS
  <1>1. Pos(p, k) = IF p + k < MaxSize THEN p + k ELSE p + k - MaxSize
    BY Offset DEF Pos
  <1> QED BY <1>1, RingAssumption DEF Slots

\* Two items never share a slot.
LEMMA PosInjective ==
  \A p \in Slots : \A i, j \in 0..(MaxSize - 1) : Pos(p, i) = Pos(p, j) => i = j
  <1> SUFFICES ASSUME NEW p \in Slots, NEW i \in 0..(MaxSize - 1), NEW j \in 0..(MaxSize - 1),
                      Pos(p, i) = Pos(p, j)
               PROVE i = j
    OBVIOUS
  <1>1. i \in 0..MaxSize /\ j \in 0..MaxSize
    BY RingAssumption
  <1>2. /\ Pos(p, i) = IF p + i < MaxSize THEN p + i ELSE p + i - MaxSize
        /\ Pos(p, j) = IF p + j < MaxSize THEN p + j ELSE p + j - MaxSize
    BY <1>1, Offset DEF Pos
  <1>3. /\ MaxSize \in Nat \ {0}
        /\ p \in Int /\ 0 <= p /\ p < MaxSize
        /\ i \in Int /\ 0 <= i /\ i < MaxSize
        /\ j \in Int /\ 0 <= j /\ j < MaxSize
    BY RingAssumption DEF Slots
  <1>4. (IF p + i < MaxSize THEN p + i ELSE p + i - MaxSize)
          = (IF p + j < MaxSize THEN p + j ELSE p + j - MaxSize)
    BY <1>2
  <1> QED BY <1>3, <1>4

\* Moving the first index moves every position by one.
LEMMA PosMoves ==
  \A p \in Slots : \A k \in 0..(MaxSize - 1) :
     /\ Pos(Forward(p), k) = Pos(p, k + 1)
     /\ Pos(Backward(p), k + 1) = Pos(p, k)
     /\ Pos(Backward(p), 0) = Backward(p)
  <1> SUFFICES ASSUME NEW p \in Slots, NEW k \in 0..(MaxSize - 1)
               PROVE /\ Pos(Forward(p), k) = Pos(p, k + 1)
                     /\ Pos(Backward(p), k + 1) = Pos(p, k)
                     /\ Pos(Backward(p), 0) = Backward(p)
    OBVIOUS
  <1>0. MaxSize \in Nat \ {0} /\ p \in 0..(MaxSize - 1)
    BY RingAssumption DEF Slots
  <1>1. k \in 0..MaxSize /\ k + 1 \in 0..MaxSize /\ 0 \in 0..MaxSize
    BY <1>0
  <1>2. PICK f \in Slots : f = Forward(p)
    BY IndexSteps
  <1>3. PICK b \in Slots : b = Backward(p)
    BY IndexSteps
  <1>4. /\ f = IF p = MaxSize - 1 THEN 0 ELSE p + 1
        /\ b = IF p = 0 THEN MaxSize - 1 ELSE p - 1
    BY <1>2, <1>3, IndexSteps
  <1>5. /\ Pos(f, k) = IF f + k < MaxSize THEN f + k ELSE f + k - MaxSize
        /\ Pos(p, k) = IF p + k < MaxSize THEN p + k ELSE p + k - MaxSize
        /\ Pos(b, 0) = IF b + 0 < MaxSize THEN b + 0 ELSE b + 0 - MaxSize
    BY <1>1, Offset DEF Pos
  <1>6. PICK m \in 0..MaxSize : m = k + 1
    BY <1>1
  <1>7. /\ Pos(p, m) = IF p + m < MaxSize THEN p + m ELSE p + m - MaxSize
        /\ Pos(b, m) = IF b + m < MaxSize THEN b + m ELSE b + m - MaxSize
    BY Offset DEF Pos
  <1>8. f \in 0..(MaxSize - 1) /\ b \in 0..(MaxSize - 1)
    BY DEF Slots
  <1>9. Pos(f, k) = Pos(p, m)
    BY <1>0, <1>4, <1>5, <1>6, <1>7, <1>8
  <1>10. Pos(b, m) = Pos(p, k)
    BY <1>0, <1>4, <1>5, <1>6, <1>7, <1>8
  <1>11. Pos(b, 0) = b
    BY <1>0, <1>5, <1>8
  <1> QED BY <1>2, <1>3, <1>6, <1>9, <1>10, <1>11

Item == Values \cup {Garbage}

\* The items that lie in an array w, c of them from index p on.
ItemsIn(w, p, c) == [i \in 1..c |-> w[Pos(p, i - 1)]]

LEMMA ItemsType ==
  ASSUME NEW w \in [Slots -> Item], NEW p \in Slots, NEW c \in 0..MaxSize
  PROVE  /\ ItemsIn(w, p, c) \in Seq(Item) /\ Len(ItemsIn(w, p, c)) = c
         /\ \A i \in 1..c : ItemsIn(w, p, c)[i] = w[Pos(p, i - 1)]
  <1>1. \A i \in 1..c : w[Pos(p, i - 1)] \in Item
    <2> SUFFICES ASSUME NEW i \in 1..c PROVE w[Pos(p, i - 1)] \in Item
      OBVIOUS
    <2>1. i - 1 \in 0..MaxSize
      BY RingAssumption
    <2>2. Pos(p, i - 1) \in Slots
      BY <2>1, PosRange
    <2> QED BY <2>2
  <1>2. c \in Nat
    BY RingAssumption
  <1> QED BY <1>1, <1>2 DEF ItemsIn

LEMMA PushBackRefines ==
  ASSUME Inv, Inv', NEW x \in Values, PushBack(x) PROVE Queue!PushBack(x)
  <1> USE DEF Inv
  <1>1. /\ Contents \in Seq(Item) /\ Len(Contents) = count
        /\ \A i \in 1..count : Contents[i] = v[Pos(pop_idx, i - 1)]
    <2>1. Contents = ItemsIn(v, pop_idx, count)
      BY DEF Contents, at, ItemsIn, Pos
    <2> QED BY <2>1, ItemsType DEF TypeOK, Item
  <1>2. /\ Contents' \in Seq(Item) /\ Len(Contents') = count'
        /\ \A i \in 1..count' : Contents'[i] = v'[Pos(pop_idx', i - 1)]
    <2>1. Contents' = ItemsIn(v', pop_idx', count')
      BY DEF Contents, at, ItemsIn, Pos
    <2> QED BY <2>1, ItemsType DEF TypeOK, Item
  <1>3. /\ Append(Contents, x) \in Seq(Item) /\ Len(Append(Contents, x)) = count + 1
        /\ \A i \in 1..count : Append(Contents, x)[i] = Contents[i]
        /\ Append(Contents, x)[count + 1] = x
    <2>1. x \in Item
      BY DEF Item
    <2> QED BY <1>1, <2>1, AppendProperties
  <1>4. count \in Nat /\ count < MaxSize /\ count' = count + 1
    BY RingAssumption DEF TypeOK, PushBack
  <1>5. ASSUME NEW i \in 1..(count + 1) PROVE Contents'[i] = Append(Contents, x)[i]
    <2>1. /\ count \in 0..(MaxSize - 1) /\ i - 1 \in 0..(MaxSize - 1)
      BY <1>4, RingAssumption
    <2>2. push_idx = Pos(pop_idx, count) /\ pop_idx' = pop_idx /\ pop_idx \in Slots
      BY DEF IndexInv, Pos, PushBack, TypeOK
    <2>3. Contents'[i] = v'[Pos(pop_idx, i - 1)]
      BY <1>2, <1>4, <2>2
    <2>4. v' = [v EXCEPT ![push_idx] = x] /\ v \in [Slots -> Item] /\ push_idx \in Slots
      BY DEF PushBack, TypeOK, Item
    <2>5. CASE i = count + 1
      <3>1. i - 1 = count
        BY <2>5, <1>4
      <3> QED BY <3>1, <2>5, <2>2, <2>3, <2>4, <1>3
    <2>6. CASE i # count + 1
      <3>1. i \in 1..count /\ i - 1 # count
        BY <2>6, <1>4
      <3>2. Pos(pop_idx, i - 1) # push_idx /\ Pos(pop_idx, i - 1) \in Slots
        <4>1. i - 1 \in 0..MaxSize
          BY <2>1, RingAssumption
        <4> QED BY <4>1, <3>1, <2>1, <2>2, PosInjective, PosRange
      <3> QED BY <3>1, <3>2, <2>3, <2>4, <1>1, <1>3
    <2> QED BY <2>5, <2>6
  <1>6. Contents' = Append(Contents, x)
    <2>1. Len(Contents') = Len(Append(Contents, x)) /\ Len(Contents') = count + 1
      BY <1>2, <1>3, <1>4
    <2> QED BY <2>1, <1>2, <1>3, <1>5, SeqEqual
  <1> QED BY <1>1, <1>4, <1>6 DEF Queue!PushBack

LEMMA PushFrontRefines ==
  ASSUME Inv, Inv', NEW x \in Values, PushFront(x) PROVE Queue!PushFront(x)
  <1> USE DEF Inv
  <1>1. /\ Contents \in Seq(Item) /\ Len(Contents) = count
        /\ \A i \in 1..count : Contents[i] = v[Pos(pop_idx, i - 1)]
    <2>1. Contents = ItemsIn(v, pop_idx, count)
      BY DEF Contents, at, ItemsIn, Pos
    <2> QED BY <2>1, ItemsType DEF TypeOK, Item
  <1>2. /\ Contents' \in Seq(Item) /\ Len(Contents') = count'
        /\ \A i \in 1..count' : Contents'[i] = v'[Pos(pop_idx', i - 1)]
    <2>1. Contents' = ItemsIn(v', pop_idx', count')
      BY DEF Contents, at, ItemsIn, Pos
    <2> QED BY <2>1, ItemsType DEF TypeOK, Item
  <1>3. /\ <<x>> \o Contents \in Seq(Item) /\ Len(<<x>> \o Contents) = count + 1
        /\ \A i \in 1..(count + 1) :
              (<<x>> \o Contents)[i] = IF i <= 1 THEN x ELSE Contents[i - 1]
    <2>1. <<x>> \in Seq(Item) /\ Len(<<x>>) = 1 /\ <<x>>[1] = x
      BY DEF Item
    <2>2. /\ <<x>> \o Contents \in Seq(Item) /\ Len(<<x>> \o Contents) = 1 + count
          /\ \A i \in 1..(1 + count) :
              (<<x>> \o Contents)[i] = IF i <= 1 THEN <<x>>[i] ELSE Contents[i - 1]
      BY <1>1, <2>1, ConcatProperties
    <2>3. count \in Nat
      BY RingAssumption DEF TypeOK
    <2> QED BY <2>1, <2>2, <2>3
  <1>4. count \in Nat /\ count < MaxSize /\ count' = count + 1
    BY RingAssumption DEF TypeOK, PushFront
  <1>5. ASSUME NEW i \in 1..(count + 1) PROVE Contents'[i] = (<<x>> \o Contents)[i]
    <2>1. MaxSize \in Nat \ {0} /\ pop_idx \in Slots /\ Backward(pop_idx) \in Slots
      BY RingAssumption, IndexSteps DEF TypeOK
    <2>2. v' = [v EXCEPT ![Backward(pop_idx)] = x] /\ v \in [Slots -> Item]
      BY DEF PushFront, TypeOK, Item
    <2>3. Contents'[i] = v'[Pos(Backward(pop_idx), i - 1)]
      BY <1>2, <1>4 DEF PushFront
    <2>4. CASE i = 1
      <3>1. Pos(Backward(pop_idx), i - 1) = Backward(pop_idx)
        <4>1. 0 \in 0..(MaxSize - 1) /\ i - 1 = 0
          BY <2>1, <2>4
        <4> QED BY <4>1, <2>1, PosMoves
      <3> QED BY <3>1, <2>1, <2>2, <2>3, <2>4, <1>3
    <2>5. CASE i # 1
      <3>1. PICK k \in 0..(MaxSize - 1) : k = i - 2
        BY <2>5, <2>1, <1>4
      <3>2. i - 1 = k + 1 /\ k + 1 \in 0..(MaxSize - 1) /\ 0 \in 0..(MaxSize - 1)
        BY <3>1, <2>1, <2>5, <1>4
      <3>3. Pos(Backward(pop_idx), k + 1) = Pos(pop_idx, k) /\ Pos(Backward(pop_idx), 0) = Backward(pop_idx)
        BY <2>1, PosMoves
      <3>4. k + 1 # 0 /\ k \in 0..MaxSize
        BY <2>1
      <3>5. Pos(pop_idx, k) # Backward(pop_idx) /\ Pos(pop_idx, k) \in Slots
        BY <2>1, <3>2, <3>3, <3>4, PosInjective, PosRange
      <3>6. Contents'[i] = v[Pos(pop_idx, k)]
        BY <2>2, <2>3, <3>2, <3>3, <3>5
      <3>7. i - 1 \in 1..count /\ (i - 1) - 1 = k
        BY <2>5, <1>4, <3>1
      <3>8. Contents[i - 1] = v[Pos(pop_idx, k)]
        BY <3>7, <1>1
      <3>9. ~(i <= 1)
        BY <2>5, <1>4
      <3> QED BY <3>6, <3>8, <3>9, <1>3
    <2> QED BY <2>4, <2>5
  <1>6. Contents' = <<x>> \o Contents
    <2>1. Len(Contents') = Len(<<x>> \o Contents) /\ Len(Contents') = count + 1
      BY <1>2, <1>3, <1>4
    <2> QED BY <2>1, <1>2, <1>3, <1>5, SeqEqual
  <1> QED BY <1>1, <1>4, <1>6 DEF Queue!PushFront

LEMMA PopFrontRefines ==
  ASSUME Inv, Inv', PopFront PROVE Queue!PopFront
  <1> USE DEF Inv
  <1>1. /\ Contents \in Seq(Item) /\ Len(Contents) = count
        /\ \A i \in 1..count : Contents[i] = v[Pos(pop_idx, i - 1)]
    <2>1. Contents = ItemsIn(v, pop_idx, count)
      BY DEF Contents, at, ItemsIn, Pos
    <2> QED BY <2>1, ItemsType DEF TypeOK, Item
  <1>2. /\ Contents' \in Seq(Item) /\ Len(Contents') = count'
        /\ \A i \in 1..count' : Contents'[i] = v'[Pos(pop_idx', i - 1)]
    <2>1. Contents' = ItemsIn(v', pop_idx', count')
      BY DEF Contents, at, ItemsIn, Pos
    <2> QED BY <2>1, ItemsType DEF TypeOK, Item
  <1>3. count \in Nat \ {0} /\ count <= MaxSize /\ count' = count - 1
    BY EmptyIff, RingAssumption DEF TypeOK, PopFront
  <1>4. Contents # <<>>
    BY <1>1, <1>3
  <1>5. /\ Tail(Contents) \in Seq(Item) /\ Len(Tail(Contents)) = count - 1
        /\ \A i \in 1..(count - 1) : Tail(Contents)[i] = Contents[i + 1]
    BY <1>1, <1>4, HeadTailProperties
  <1>6. ASSUME NEW i \in 1..(count - 1) PROVE Contents'[i] = Tail(Contents)[i]
    <2>1. i - 1 \in 0..(MaxSize - 1) /\ i + 1 \in 1..count /\ (i - 1) + 1 = i /\ (i + 1) - 1 = i
      BY <1>3, RingAssumption
    <2>2. Pos(Forward(pop_idx), i - 1) = Pos(pop_idx, (i - 1) + 1)
      BY <2>1, PosMoves DEF TypeOK
    <2>3. Contents'[i] = v[Pos(Forward(pop_idx), i - 1)]
      BY <1>2, <1>3 DEF PopFront
    <2>4. Contents[i + 1] = v[Pos(pop_idx, (i + 1) - 1)]
      BY <1>1, <2>1
    <2> QED BY <2>1, <2>2, <2>3, <2>4, <1>5
  <1>7. Contents' = Tail(Contents)
    <2>1. Len(Contents') = Len(Tail(Contents)) /\ Len(Contents') = count - 1
      BY <1>2, <1>3, <1>5
    <2> QED BY <2>1, <1>2, <1>5, <1>6, SeqEqual
  <1> QED BY <1>4, <1>7 DEF Queue!PopFront

\* Every FixedRing of every max_size behaves as a bounded double-ended queue:
\* whatever the mix of push_back, push_front and pop_front, and wherever the
\* items wrap around, nothing is lost, overwritten, duplicated or reordered.
THEOREM RefinesDeque == Spec => DequeSpec
  <1>1. Init => Queue!Init
    <2> SUFFICES ASSUME Init PROVE Contents = <<>>
      BY DEF Queue!Init
    <2> QED BY DEF Init, Contents
  <1>2. Inv /\ Inv' /\ [Next]_vars => [Queue!Next]_Contents
    <2> SUFFICES ASSUME Inv, Inv', [Next]_vars PROVE [Queue!Next]_Contents
      OBVIOUS
    <2>1. ASSUME NEW x \in Values, PushBack(x) PROVE Queue!Next
      BY <2>1, PushBackRefines DEF Queue!Next
    <2>2. ASSUME NEW x \in Values, PushFront(x) PROVE Queue!Next
      BY <2>2, PushFrontRefines DEF Queue!Next
    <2>3. CASE PopFront
      BY <2>3, PopFrontRefines DEF Queue!Next
    <2>4. CASE UNCHANGED vars
      BY <2>4 DEF vars, Contents, at
    <2> QED BY <2>1, <2>2, <2>3, <2>4 DEF Next
  <1> QED BY <1>1, <1>2, InvHolds, PTL DEF Spec, DequeSpec, Queue!Spec

-----------------------------------------------------------------------------
(* Powers of two and division                                              *)

LEMMA PowersExist ==
    ASSUME NEW N \in Nat
    PROVE  \E f : f = [n \in 0..N |-> IF n = 0 THEN 1 ELSE 2 * f[n - 1]]
  <1> DEFINE Step(f, n) == IF n = 0 THEN 1 ELSE 2 * f[n - 1]
             T == {m \in Nat : \E f : f = [n \in 0..m |-> Step(f, n)]}
  <1>1. 0 \in T
    <2> DEFINE f == [n \in 0..0 |-> 1]
    <2>1. f = [n \in 0..0 |-> Step(f, n)]
      OBVIOUS
    <2> QED BY <2>1
  <1>2. ASSUME NEW m \in T PROVE m + 1 \in T
    <2>1. PICK f : f = [n \in 0..m |-> Step(f, n)]
      OBVIOUS
    <2>2. PICK g : g = [n \in 0..(m + 1) |-> Step(f, n)]
      OBVIOUS
    <2>3. \A n \in 0..m : g[n] = f[n]
      <3>1. \A n \in 0..m : f[n] = Step(f, n)
        BY <2>1
      <3> QED BY <2>2, <3>1
    <2>4. \A n \in 0..(m + 1) : Step(f, n) = Step(g, n)
      BY <2>3
    <2>5. g = [n \in 0..(m + 1) |-> Step(g, n)]
      BY <2>2, <2>4
    <2>6. \E h : h = [n \in 0..(m + 1) |-> Step(h, n)]
      BY <2>5, Zenon
    <2>7. m + 1 \in Nat
      OBVIOUS
    <2> QED BY <2>6, <2>7, Zenon
  <1>3. T = Nat
    <2> HIDE DEF T
    <2>1. T \in SUBSET Nat
      BY DEF T
    <2> QED BY <2>1, <1>1, <1>2, Induction
  <1> QED BY <1>3

\* What a function of powers is known by.
IsPowers(f, N) ==
    /\ f[0] = 1
    /\ \A n \in 0..N : f[n] \in Nat /\ f[n] > 0
    /\ \A n \in 0..N : n < N => f[n + 1] = 2 * f[n]

LEMMA PowersKnown ==
    ASSUME NEW N \in Nat, NEW f, f = [n \in 0..N |-> IF n = 0 THEN 1 ELSE 2 * f[n - 1]]
    PROVE  IsPowers(f, N)
  <1>1. \A n \in 0..N : f[n] = IF n = 0 THEN 1 ELSE 2 * f[n - 1]
    BY Zenon
  <1> DEFINE T == {m \in Nat : m <= N => f[m] \in Nat /\ f[m] > 0}
  <1>2. 0 \in T
    BY <1>1
  <1>3. ASSUME NEW m \in T PROVE m + 1 \in T
    <2> SUFFICES ASSUME m + 1 <= N PROVE f[m + 1] \in Nat /\ f[m + 1] > 0
      OBVIOUS
    <2>1. m + 1 \in 0..N /\ m + 1 # 0 /\ (m + 1) - 1 = m /\ m <= N
      OBVIOUS
    <2>2. f[m + 1] = 2 * f[m]
      BY <1>1, <2>1
    <2>3. f[m] \in Nat /\ f[m] > 0
      BY <2>1
    <2>4. \A x \in Nat : x > 0 => 2 * x \in Nat /\ 2 * x > 0
      OBVIOUS
    <2> QED BY <2>2, <2>3, <2>4
  <1>4. T = Nat
    <2> HIDE DEF T
    <2>1. T \in SUBSET Nat
      BY DEF T
    <2> QED BY <2>1, <1>2, <1>3, Induction
  <1>5. ASSUME NEW n \in 0..N PROVE f[n] \in Nat /\ f[n] > 0
    <2>1. n \in Nat /\ n <= N
      OBVIOUS
    <2>2. n \in T
      BY <1>4, <2>1
    <2> QED BY <2>1, <2>2
  <1>6. ASSUME NEW n \in 0..N, n < N PROVE f[n + 1] = 2 * f[n]
    <2>1. n + 1 \in 0..N /\ n + 1 # 0 /\ (n + 1) - 1 = n
      BY <1>6
    <2> QED BY <1>1, <2>1
  <1>7. f[0] = 1
    BY <1>1
  <1> QED BY <1>5, <1>6, <1>7 DEF IsPowers

LEMMA PowerOfSum ==
    ASSUME NEW N \in Nat, NEW f, IsPowers(f, N), NEW m \in Nat, NEW n \in Nat, m + n <= N
    PROVE  f[m + n] = f[m] * f[n]
  <1> DEFINE T == {k \in Nat : m + k <= N => f[m + k] = f[m] * f[k]}
  <1>1. 0 \in T
    <2>1. m \in 0..N /\ m + 0 = m
      OBVIOUS
    <2> QED BY <2>1 DEF IsPowers
  <1>2. ASSUME NEW k \in T PROVE k + 1 \in T
    <2> SUFFICES ASSUME m + (k + 1) <= N PROVE f[m + (k + 1)] = f[m] * f[k + 1]
      OBVIOUS
    <2>1. /\ m + k \in 0..N /\ m + k < N /\ k \in 0..N /\ k < N /\ m + (k + 1) = (m + k) + 1
          /\ m \in 0..N
      OBVIOUS
    <2>2. f[(m + k) + 1] = 2 * f[m + k] /\ f[k + 1] = 2 * f[k] /\ f[m + k] = f[m] * f[k]
      BY <2>1 DEF IsPowers
    <2>3. f[m] \in Nat /\ f[k] \in Nat
      BY <2>1 DEF IsPowers
    <2>4. \A x, y \in Nat : 2 * (x * y) = x * (2 * y)
      OBVIOUS
    <2> QED BY <2>1, <2>2, <2>3, <2>4
  <1>3. T = Nat
    <2> HIDE DEF T
    <2>1. T \in SUBSET Nat
      BY DEF T
    <2> QED BY <2>1, <1>1, <1>2, Induction
  <1> QED BY <1>3

LEMMA DivMod ==
    \A c \in Nat \ {0}, x \in Nat :
        /\ x \div c \in Nat /\ x % c \in Nat /\ x % c < c
        /\ x = (x \div c) * c + (x % c)
  OBVIOUS

LEMMA Divided ==
    ASSUME NEW c \in Nat \ {0}, NEW x \in Nat
    PROVE  \E q \in Nat, r \in Nat : q = x \div c /\ r = x % c /\ r < c /\ x = q * c + r
  <1>1. x \div c \in Nat /\ x % c \in Nat /\ x % c < c /\ x = (x \div c) * c + (x % c)
    BY DivMod
  <1> QED BY <1>1, Zenon

LEMMA DivModOf ==
    \A c \in Nat \ {0}, q \in Nat, r \in Nat : r < c => (q * c + r) \div c = q /\ (q * c + r) % c = r
  OBVIOUS

LEMMA TimesNat == \A a \in Nat, b \in Nat : a * b \in Nat
  OBVIOUS

LEMMA TimesLess == \A c \in Nat \ {0}, a \in Nat, b \in Nat : a < b => a * c + c <= b * c
  <1> SUFFICES ASSUME NEW c \in Nat \ {0}, NEW a \in Nat, NEW b \in Nat, a < b PROVE a * c + c <= b * c
    OBVIOUS
  <1>1. PICK d \in Nat : b = (a + 1) + d
    <2>1. b - (a + 1) \in Nat /\ b = (a + 1) + (b - (a + 1))
      OBVIOUS
    <2> QED BY <2>1
  <1>2. b * c = a * c + c + d * c /\ d * c \in Nat /\ a * c \in Nat
    BY <1>1
  <1> QED BY <1>2

\* Whether a number is behind a multiple is a matter of its quotient.
LEMMA TimesBound ==
    \A c \in Nat \ {0}, a \in Nat, q \in Nat, r \in Nat :
        r < c => (a * c <= q * c + r <=> a <= q) /\ (q * c + r < a * c <=> q < a)
  <1> SUFFICES ASSUME NEW c \in Nat \ {0}, NEW a \in Nat, NEW q \in Nat, NEW r \in Nat, r < c
               PROVE  (a * c <= q * c + r <=> a <= q) /\ (q * c + r < a * c <=> q < a)
    OBVIOUS
  <1>0. a * c \in Nat /\ q * c \in Nat
    OBVIOUS
  <1>1. CASE a = q
    BY <1>0, <1>1
  <1>2. CASE a < q
    <2>1. a * c + c <= q * c
      BY <1>2, TimesLess
    <2> QED BY <1>0, <1>2, <2>1
  <1>3. CASE q < a
    <2>1. q * c + c <= a * c
      BY <1>3, TimesLess
    <2> QED BY <1>0, <1>3, <2>1
  <1> QED BY <1>1, <1>2, <1>3

-----------------------------------------------------------------------------
(* The forwarding table of IPlookup                                        *)

Wide == Fib!AddressBits
Chunk == Fib!ChunkSize

LEMMA FibConstants ==
    /\ High \in Nat /\ Low \in Nat /\ Wide \in Nat /\ Wide = High + Low
    /\ MaxRoutes \in Nat /\ Flag \in Nat /\ MaxRoutes < Flag /\ NextHops \subseteq 1..(2 * Flag - 1)
    /\ IsPowers(Fib!PowerOf2, Wide)
    /\ Chunk = Fib!PowerOf2[Low] /\ Chunk \in Nat \ {0}
    /\ Fib!PowerOf2[High] \in Nat \ {0}
    /\ Fib!PowerOf2[Wide] = Fib!PowerOf2[High] * Chunk
  <1>1. /\ High \in Nat /\ Low \in Nat /\ MaxRoutes \in Nat /\ Flag \in Nat /\ MaxRoutes < Flag
        /\ NextHops \subseteq 1..(2 * Flag - 1)
    BY PartsAssumption DEF Fib!FibAssumption
  <1>2. Wide = High + Low /\ Wide \in Nat
    BY <1>1 DEF Wide, Fib!AddressBits
  <1>3. \E f : f = [n \in 0..Wide |-> IF n = 0 THEN 1 ELSE 2 * f[n - 1]]
    BY <1>2, PowersExist
  <1>4. Fib!PowerOf2 = [n \in 0..Wide |-> IF n = 0 THEN 1 ELSE 2 * Fib!PowerOf2[n - 1]]
    BY <1>3 DEF Fib!PowerOf2, Wide
  <1>5. IsPowers(Fib!PowerOf2, Wide)
    BY <1>2, <1>4, PowersKnown
  <1>6. Low \in 0..Wide /\ High \in 0..Wide
    BY <1>1, <1>2
  <1>7. Fib!PowerOf2[Low] \in Nat \ {0} /\ Fib!PowerOf2[High] \in Nat \ {0}
    BY <1>5, <1>6 DEF IsPowers
  <1>8. Fib!PowerOf2[High + Low] = Fib!PowerOf2[High] * Fib!PowerOf2[Low]
    BY <1>1, <1>2, <1>5, PowerOfSum
  <1> QED BY <1>1, <1>2, <1>5, <1>7, <1>8 DEF Chunk, Fib!ChunkSize

LEMMA PrefixFacts ==
    ASSUME NEW p \in Fib!Prefixes
    PROVE  /\ p = [len |-> p.len, addr |-> p.addr]
           /\ p.len \in 0..Wide /\ p.addr \in Nat /\ Fib!Span(p) \in Nat \ {0}
           /\ Fib!Span(p) = Fib!PowerOf2[Wide - p.len]
           /\ p.addr < Fib!PowerOf2[Wide]
           /\ \E k \in Nat : p.addr = k * Fib!Span(p)
  <1>0. PICK l \in 0..Wide :
             p \in {[len |-> l, addr |-> k * Fib!PowerOf2[Wide - l]] : k \in 0..(Fib!PowerOf2[l] - 1)}
    BY DEF Fib!Prefixes, Wide
  <1>1. PICK k \in 0..(Fib!PowerOf2[l] - 1) : p = [len |-> l, addr |-> k * Fib!PowerOf2[Wide - l]]
    BY <1>0
  <1>2. Wide \in Nat /\ IsPowers(Fib!PowerOf2, Wide)
    BY FibConstants
  <1>3. l \in Nat /\ Wide - l \in Nat /\ Wide - l \in 0..Wide /\ l + (Wide - l) = Wide
    BY <1>2
  <1>4. PICK s \in Nat \ {0} : s = Fib!PowerOf2[Wide - l]
    BY <1>2, <1>3 DEF IsPowers
  <1>5. PICK n \in Nat \ {0} : n = Fib!PowerOf2[l]
    BY <1>2, <1>3 DEF IsPowers
  <1>6. Fib!PowerOf2[Wide] = n * s
    <2>1. Fib!PowerOf2[l + (Wide - l)] = Fib!PowerOf2[l] * Fib!PowerOf2[Wide - l]
      BY <1>2, <1>3, PowerOfSum
    <2> QED BY <2>1, <1>3, <1>4, <1>5
  <1>7. p.len = l /\ p.addr = k * s /\ Fib!Span(p) = s
    BY <1>1, <1>4 DEF Fib!Span, Wide
  <1>8. k \in Nat /\ k < n
    BY <1>5
  <1>9. k * s + s <= n * s /\ k * s \in Nat
    BY <1>4, <1>5, <1>8, TimesLess
  <1>10. p.addr < Fib!PowerOf2[Wide]
    BY <1>4, <1>6, <1>7, <1>9
  <1> QED BY <1>1, <1>3, <1>4, <1>7, <1>8, <1>9, <1>10

\* A short route covers whole chunks.
LEMMA ShortSpans ==
    ASSUME NEW p \in Fib!Prefixes, p.len <= High
    PROVE  \E a, b \in Nat : p.addr = a * Chunk /\ Fib!Span(p) = b * Chunk
  <1>1. p.len \in 0..Wide /\ High \in Nat /\ Low \in Nat /\ Wide = High + Low
    BY PrefixFacts, FibConstants
  <1>2. High - p.len \in Nat /\ High - p.len \in 0..Wide /\ (High - p.len) + Low = Wide - p.len
        /\ (High - p.len) + Low <= Wide
    BY <1>1
  <1>3. PICK b \in Nat : b = Fib!PowerOf2[High - p.len]
    BY <1>2, FibConstants DEF IsPowers
  <1>4. Fib!Span(p) = b * Chunk
    <2>1. Fib!PowerOf2[(High - p.len) + Low] = Fib!PowerOf2[High - p.len] * Fib!PowerOf2[Low]
      BY <1>1, <1>2, FibConstants, PowerOfSum
    <2> QED BY <1>2, <1>3, <2>1, PrefixFacts, FibConstants
  <1>5. PICK k \in Nat : p.addr = k * Fib!Span(p)
    BY PrefixFacts
  <1>6. PICK c \in Nat : c = Chunk
    BY FibConstants
  <1>7. p.addr = (k * b) * c /\ k * b \in Nat
    BY <1>4, <1>5, <1>6
  <1> QED BY <1>4, <1>6, <1>7

\* A long one lies in one chunk.
LEMMA LongSpans ==
    ASSUME NEW p \in Fib!Prefixes, p.len > High
    PROVE  (p.addr % Chunk) + Fib!Span(p) <= Chunk
  <1>1. p.len \in 0..Wide /\ High \in Nat /\ Low \in Nat /\ Wide = High + Low
    BY PrefixFacts, FibConstants
  <1>2. p.len - High \in Nat /\ p.len - High \in 0..Wide /\ Wide - p.len \in Nat
        /\ (p.len - High) + (Wide - p.len) = Low /\ (p.len - High) + (Wide - p.len) <= Wide
    BY <1>1
  <1>3. PICK d \in Nat \ {0} : d = Fib!PowerOf2[p.len - High]
    BY <1>2, FibConstants DEF IsPowers
  <1>4. PICK s \in Nat \ {0} : s = Fib!Span(p)
    BY PrefixFacts
  <1>5. Chunk = d * s
    <2>1. Fib!PowerOf2[(p.len - High) + (Wide - p.len)] = Fib!PowerOf2[p.len - High] * Fib!PowerOf2[Wide - p.len]
      BY <1>1, <1>2, FibConstants, PowerOfSum
    <2> QED BY <1>2, <1>3, <1>4, <2>1, PrefixFacts, FibConstants
  <1>6. PICK k \in Nat : p.addr = k * s
    BY <1>4, PrefixFacts
  <1>7. PICK q \in Nat, r \in Nat : r < d /\ k = q * d + r
    BY Divided
  <1>a. d \in Nat /\ s \in Nat \ {0}
    OBVIOUS
  <1>8. r * s + s <= d * s /\ r * s \in Nat
    BY <1>a, <1>7, TimesLess, TimesNat
  <1>9. k * s = q * (d * s) + r * s /\ d * s \in Nat \ {0} /\ r * s < d * s
    <2>1. d * s \in Nat /\ d * s # 0
      BY <1>3, <1>4, <1>8
    <2>2. k * s = (q * d) * s + r * s
      BY <1>3, <1>4, <1>6, <1>7
    <2>3. (q * d) * s = q * (d * s)
      BY <1>3, <1>4, <1>7
    <2> QED BY <1>4, <1>8, <2>1, <2>2, <2>3
  <1>10. (k * s) % (d * s) = r * s
    <2>1. PICK e \in Nat \ {0}, u \in Nat : e = d * s /\ u = r * s /\ u < e
      BY <1>8, <1>9
    <2>2. (q * e + u) % e = u
      BY <2>1, DivModOf
    <2> QED BY <1>9, <2>1, <2>2
  <1> QED BY <1>4, <1>5, <1>6, <1>8, <1>10

LEMMA CoversShort ==
    ASSUME NEW p \in Fib!Prefixes, p.len <= High, NEW ip \in Nat
    PROVE  Fib!Covers(p, (ip \div Chunk) * Chunk) <=> Fib!Covers(p, ip)
  <1>1. PICK c \in Nat \ {0} : c = Chunk
    BY FibConstants
  <1>2. PICK a \in Nat, b \in Nat : p.addr = a * c /\ Fib!Span(p) = b * c
    BY <1>1, ShortSpans
  <1>3. PICK q \in Nat, r \in Nat : q = ip \div c /\ r < c /\ ip = q * c + r
    BY Divided
  <1>4. a * c + b * c = (a + b) * c /\ a + b \in Nat /\ q * c + 0 = q * c
    BY <1>1, <1>2, <1>3
  <1>5. (a * c <= q * c + r <=> a <= q) /\ (q * c + r < (a + b) * c <=> q < a + b)
    BY <1>1, <1>2, <1>3, <1>4, TimesBound
  <1>6. (a * c <= q * c + 0 <=> a <= q) /\ (q * c + 0 < (a + b) * c <=> q < a + b)
    <2>1. 0 \in Nat /\ 0 < c
      BY <1>1
    <2> QED BY <1>1, <1>2, <1>3, <1>4, <2>1, TimesBound
  <1>7. (a * c <= q * c <=> a <= q) /\ (q * c < (a + b) * c <=> q < a + b)
    BY <1>4, <1>6
  <1>8. Fib!Covers(p, ip) <=> a <= q /\ q < a + b
    BY <1>2, <1>3, <1>4, <1>5 DEF Fib!Covers
  <1>9. Fib!Covers(p, q * c) <=> a <= q /\ q < a + b
    BY <1>2, <1>4, <1>7 DEF Fib!Covers
  <1> QED BY <1>1, <1>3, <1>8, <1>9

LEMMA CoversLong ==
    ASSUME NEW p \in Fib!Prefixes, p.len > High, NEW ip \in Nat
    PROVE  Fib!Covers(p, ip) <=> /\ ip \div Chunk = p.addr \div Chunk
                                 /\ p.addr % Chunk <= ip % Chunk
                                 /\ ip % Chunk < (p.addr % Chunk) + Fib!Span(p)
  <1>1. PICK c \in Nat \ {0} : c = Chunk
    BY FibConstants
  <1>2. PICK s \in Nat \ {0} : s = Fib!Span(p)
    BY PrefixFacts
  <1>3. PICK q \in Nat, r \in Nat : q = ip \div c /\ r = ip % c /\ r < c /\ ip = q * c + r
    BY Divided
  <1>4. PICK k \in Nat, t \in Nat : k = p.addr \div c /\ t = p.addr % c /\ t < c /\ p.addr = k * c + t
    BY PrefixFacts, Divided
  <1>5. t + s <= c
    BY <1>1, <1>2, <1>4, LongSpans
  <1>6. Fib!Covers(p, ip) <=> k * c + t <= q * c + r /\ q * c + r < k * c + t + s
    BY <1>2, <1>3, <1>4 DEF Fib!Covers
  <1>7. q * c \in Nat /\ k * c \in Nat
    BY TimesNat
  <1>8. CASE q = k
    <2>1. PICK z \in Nat : z = q * c /\ z = k * c
      BY <1>7, <1>8
    <2>2. z + t <= z + r /\ z + r < z + t + s <=> t <= r /\ r < t + s
      OBVIOUS
    <2>3. Fib!Covers(p, ip) <=> t <= r /\ r < t + s
      BY <1>6, <2>1, <2>2
    <2> QED BY <1>1, <1>2, <1>3, <1>4, <1>8, <2>3
  <1>9. CASE q < k
    <2>1. q * c + c <= k * c
      BY <1>1, <1>3, <1>4, <1>9, TimesLess
    <2>2. ~Fib!Covers(p, ip)
      BY <1>1, <1>2, <1>3, <1>4, <1>6, <1>7, <2>1
    <2> QED BY <1>1, <1>3, <1>4, <1>9, <2>2
  <1>10. CASE k < q
    <2>1. k * c + c <= q * c
      BY <1>1, <1>3, <1>4, <1>10, TimesLess
    <2>2. ~Fib!Covers(p, ip)
      BY <1>1, <1>2, <1>3, <1>4, <1>5, <1>6, <1>7, <2>1
    <2> QED BY <1>1, <1>3, <1>4, <1>10, <2>2
  <1> QED BY <1>3, <1>4, <1>8, <1>9, <1>10

\* Routes of one length are apart.
LEMMA SameLength ==
    ASSUME NEW p \in Fib!Prefixes, NEW q \in Fib!Prefixes, p.len = q.len, NEW ip \in Nat,
           Fib!Covers(p, ip), Fib!Covers(q, ip)
    PROVE  p = q
  <1>1. PICK s \in Nat \ {0} : s = Fib!Span(p) /\ s = Fib!Span(q)
    BY PrefixFacts
  <1>2. PICK k \in Nat, l \in Nat : p.addr = k * s /\ q.addr = l * s
    BY <1>1, PrefixFacts
  <1>3. k * s <= ip /\ ip < k * s + s /\ l * s <= ip /\ ip < l * s + s /\ k * s \in Nat /\ l * s \in Nat
    BY <1>1, <1>2 DEF Fib!Covers
  <1>4. ~(k < l)
    BY <1>1, <1>2, <1>3, TimesLess
  <1>5. ~(l < k)
    BY <1>1, <1>2, <1>3, TimesLess
  <1>6. p.addr = q.addr
    BY <1>2, <1>4, <1>5
  <1> QED BY <1>6, PrefixFacts

FibTyped ==
    /\ DOMAIN rib \subseteq Fib!Prefixes
    /\ IsFiniteSet(DOMAIN rib) /\ Cardinality(DOMAIN rib) <= MaxRoutes
    /\ \A p \in DOMAIN rib : rib[p] \in NextHops
    /\ written \subseteq DOMAIN rib
    /\ TBL24 \in [0..Fib!PowerOf2[High] -> 0..(2 * Flag - 1)]
    /\ DOMAIN TBLlong = 0..(Flag * Chunk)

\* The routes that are written are the shortest.
FibOrdered == \A p \in written, q \in DOMAIN rib \ written : p.len <= q.len

Entry(ip) == TBL24[ip \div Chunk]

\* The address has its own chunk, one of the first n, since there are long routes.
Owns(ip, n) ==
    /\ Fib!Flagged(Entry(ip)) /\ ~Fib!Flagged(Fib!ShortHop(ip))
    /\ Entry(ip) - Flag < n /\ \E q \in written : q.len > High

\* The first n chunks of TBLlong are in use.  An entry of TBL24 that is not the next hop
\* of the short route has a chunk of its own.
FibChunks(n) ==
    /\ current = n * Chunk /\ n <= Cardinality(written)
    /\ \A ip \in Fib!Addresses : Entry(ip) = Fib!ShortHop(ip) \/ Owns(ip, n)
    /\ \A ip, jp \in Fib!Addresses :
          Owns(ip, n) /\ Owns(jp, n) /\ Entry(ip) = Entry(jp) => ip \div Chunk = jp \div Chunk

FibInv ==
    /\ FibTyped /\ FibOrdered /\ (\E n \in Nat : FibChunks(n))
    /\ Fib!LookupIsLongestMatch

LEMMA AddressFacts ==
    ASSUME NEW ip \in Fib!Addresses
    PROVE  ip \in Nat /\ ip \div Chunk \in 0..Fib!PowerOf2[High]
  <1>1. PICK c \in Nat \ {0}, h \in Nat \ {0} : c = Chunk /\ h = Fib!PowerOf2[High]
    BY FibConstants
  <1>2. h * c \in Nat /\ Fib!PowerOf2[Wide] = h * c
    <2>1. h * c \in Nat
      BY TimesNat
    <2> QED BY <1>1, <2>1, FibConstants
  <1>3. ip \in Nat /\ ip < h * c
    BY <1>2 DEF Fib!Addresses, Wide
  <1>4. PICK q \in Nat, r \in Nat : q = ip \div c /\ r < c /\ ip = q * c + r
    BY <1>3, Divided
  <1>5. q < h
    BY <1>1, <1>3, <1>4, TimesBound
  <1> QED BY <1>1, <1>3, <1>4, <1>5

LEMMA RouteAddress == ASSUME NEW p \in Fib!Prefixes PROVE p.addr \in Fib!Addresses
  <1>1. p.addr \in Nat /\ p.addr < Fib!PowerOf2[Wide] /\ Fib!PowerOf2[Wide] \in Nat
    BY PrefixFacts, FibConstants DEF IsPowers
  <1> QED BY <1>1 DEF Fib!Addresses, Wide

LEMMA HopFacts ==
    ASSUME FibTyped, NEW p \in DOMAIN rib
    PROVE  p \in Fib!Prefixes /\ rib[p] \in 0..(2 * Flag - 1)
  <1>1. rib[p] \in 1..(2 * Flag - 1) /\ Flag \in Nat
    BY FibConstants DEF FibTyped
  <1> QED BY <1>1 DEF FibTyped

LEMMA EntryFacts ==
    ASSUME FibTyped, NEW ip \in Fib!Addresses
    PROVE  Entry(ip) \in Nat /\ Entry(ip) - Flag < Flag
  <1>1. Entry(ip) \in 0..(2 * Flag - 1) /\ Flag \in Nat
    BY AddressFacts, FibConstants DEF FibTyped, Entry
  <1> QED BY <1>1

\* What a route that is written does to a lookup.
Overrides(p) ==
    \A ip \in Fib!Addresses : Fib!Sound(ip)' =>
        /\ Fib!Covers(p, ip) => Fib!Lookup(ip)' = rib[p]
        /\ ~Fib!Covers(p, ip) => Fib!Sound(ip) /\ Fib!Lookup(ip)' = Fib!Lookup(ip)

\* The longest of some routes, when a longer one joins them.
LEMMA LongestOf ==
    ASSUME FibTyped, FibOrdered, NEW p \in DOMAIN rib, Fib!Turn(p), NEW ip \in Fib!Addresses,
           Fib!Covers(p, ip), NEW S, p \in S, S \subseteq {q \in written \cup {p} : Fib!Covers(q, ip)}
    PROVE  Fib!Longest(S) = rib[p]
  <1>1. /\ p \in DOMAIN rib \ written /\ ip \in Nat
        /\ \A q \in written \cup {p} : q \in Fib!Prefixes /\ q.len \in Nat /\ q.len <= p.len
    <2>1. p \in DOMAIN rib \ written
      BY DEF Fib!Turn
    <2>2. \A q \in written \cup {p} : q \in Fib!Prefixes /\ q.len \in Nat
      BY PrefixFacts, FibConstants DEF FibTyped
    <2>3. \A q \in written : q.len <= p.len
      BY <2>1 DEF FibOrdered
    <2> QED BY <2>1, <2>2, <2>3, AddressFacts
  <1>2. \A q \in S : q.len <= p.len
    BY <1>1
  <1>3. ASSUME NEW r \in S, \A q \in S : q.len <= r.len PROVE r = p
    <2>1. r \in written \cup {p} /\ Fib!Covers(r, ip)
      OBVIOUS
    <2>2. p.len <= r.len /\ r.len <= p.len /\ r.len \in Nat /\ p.len \in Nat
      BY <1>1, <1>2, <1>3, <2>1
    <2>3. r \in Fib!Prefixes /\ r.len = p.len /\ p \in Fib!Prefixes
      BY <1>1, <2>1, <2>2
    <2> QED BY <1>1, <2>1, <2>3, SameLength
  <1>4. (CHOOSE r \in S : \A q \in S : q.len <= r.len) = p
    BY <1>2, <1>3
  <1> QED BY <1>4 DEF Fib!Longest

\* The longest of the routes that were written, when a longer one is.
LEMMA LongestOverridden ==
    ASSUME FibTyped, FibOrdered, NEW p \in DOMAIN rib, Fib!Turn(p), written' = written \cup {p}, rib' = rib,
           NEW ip \in Fib!Addresses
    PROVE  /\ Fib!LongestMatch(ip)' = IF Fib!Covers(p, ip) THEN rib[p] ELSE Fib!LongestMatch(ip)
           /\ Fib!ShortHop(ip)' = IF Fib!Covers(p, ip) /\ p.len <= High THEN rib[p] ELSE Fib!ShortHop(ip)
  <1> DEFINE old == {q \in written : Fib!Covers(q, ip)}
             new == {q \in written' : Fib!Covers(q, ip)}
             short == {q \in written : Fib!Covers(q, ip) /\ q.len <= High}
             newShort == {q \in written' : Fib!Covers(q, ip) /\ q.len <= High}
  <1>1. /\ Fib!LongestMatch(ip) = Fib!Longest(old) /\ Fib!LongestMatch(ip)' = Fib!Longest(new)
        /\ Fib!ShortHop(ip) = Fib!Longest(short) /\ Fib!ShortHop(ip)' = Fib!Longest(newShort)
    BY DEF Fib!LongestMatch, Fib!ShortHop, Fib!Longest
  <1>2. ASSUME Fib!Covers(p, ip) PROVE Fib!Longest(new) = rib[p]
    <2>1. p \in new /\ new \subseteq {q \in written \cup {p} : Fib!Covers(q, ip)}
      BY <1>2
    <2> HIDE DEF new
    <2> QED BY <1>2, <2>1, LongestOf
  <1>3. ASSUME Fib!Covers(p, ip), p.len <= High PROVE Fib!Longest(newShort) = rib[p]
    <2>1. p \in newShort /\ newShort \subseteq {q \in written \cup {p} : Fib!Covers(q, ip)}
      BY <1>3
    <2> HIDE DEF newShort
    <2> QED BY <1>3, <2>1, LongestOf
  <1>4. ~Fib!Covers(p, ip) => new = old
    OBVIOUS
  <1>5. ~(Fib!Covers(p, ip) /\ p.len <= High) => newShort = short
    OBVIOUS
  <1> HIDE DEF old, new, short, newShort
  <1> QED BY <1>1, <1>2, <1>3, <1>4, <1>5

LEMMA ShortHopKept ==
    ASSUME FibTyped, FibOrdered, NEW p \in DOMAIN rib, Fib!Turn(p), written' = written \cup {p}, rib' = rib,
           p.len > High, NEW ip \in Fib!Addresses
    PROVE  Fib!ShortHop(ip)' = Fib!ShortHop(ip)
  <1>1. ~(p.len <= High)
    BY HopFacts, PrefixFacts, FibConstants
  <1> QED BY <1>1, LongestOverridden

\* A long route leaves an address sound only if it was.
LEMMA SoundBefore ==
    ASSUME FibTyped, FibOrdered, NEW p \in DOMAIN rib, Fib!Turn(p), written' = written \cup {p}, rib' = rib,
           p.len > High, NEW ip \in Fib!Addresses, Fib!Sound(ip)',
           Entry(ip)' = Entry(ip) \/ ~Fib!Flagged(Entry(ip))
    PROVE  Fib!Sound(ip)
  <1>1. ~Fib!Flagged(Fib!ShortHop(ip))
    <2>1. ~Fib!Flagged(Fib!ShortHop(ip)')
      BY DEF Fib!Sound, Fib!Flagged
    <2> QED BY <2>1, ShortHopKept
  <1>2. ASSUME NEW q \in written, q.len > High, Fib!Flagged(Fib!ShortHop(q.addr)), Entry(ip) = Fib!ShortHop(q.addr)
        PROVE  FALSE
    <2>1. Fib!ShortHop(q.addr)' = Fib!ShortHop(q.addr)
      BY ShortHopKept, HopFacts, RouteAddress DEF FibTyped
    <2>2. Entry(ip)' = Entry(ip) /\ Entry(ip)' = TBL24'[ip \div Chunk]
      BY <1>2 DEF Entry
    <2>3. Fib!Flagged(Fib!ShortHop(q.addr)')
      BY <1>2, <2>1
    <2>4. TBL24'[ip \div Chunk] # Fib!ShortHop(q.addr)'
      BY <1>2, <2>3 DEF Fib!Sound, Fib!Flagged, Chunk
    <2> QED BY <1>2, <2>1, <2>2, <2>4
  <1> QED BY <1>1, <1>2 DEF Fib!Sound, Entry, Chunk

\* Where a lookup finds its entry.
LEMMA LookupShort ==
    ASSUME NEW ip \in Fib!Addresses, ~Fib!Flagged(TBL24[ip \div Chunk])
    PROVE  Fib!Lookup(ip) = TBL24[ip \div Chunk]
  BY DEF Fib!Lookup, Chunk

LEMMA LookupLong ==
    ASSUME NEW ip \in Fib!Addresses, Fib!Flagged(TBL24[ip \div Chunk])
    PROVE  Fib!Lookup(ip) = TBLlong[(TBL24[ip \div Chunk] % Flag) * Chunk + (ip % Chunk)]
  BY DEF Fib!Lookup, Chunk

LEMMA LookupShortNext ==
    ASSUME NEW ip \in Fib!Addresses, ~Fib!Flagged(TBL24'[ip \div Chunk])
    PROVE  Fib!Lookup(ip)' = TBL24'[ip \div Chunk]
  BY DEF Fib!Lookup, Chunk

LEMMA LookupLongNext ==
    ASSUME NEW ip \in Fib!Addresses, Fib!Flagged(TBL24'[ip \div Chunk])
    PROVE  Fib!Lookup(ip)' = TBLlong'[(TBL24'[ip \div Chunk] % Flag) * Chunk + (ip % Chunk)]
  BY DEF Fib!Lookup, Chunk

LEMMA ShortOverrides ==
    ASSUME FibTyped, FibOrdered, NEW n \in Nat, FibChunks(n), NEW p \in DOMAIN rib, Fib!WriteShort(p)
    PROVE  Overrides(p) /\ \A ip \in Fib!Addresses : Entry(ip)' = Fib!ShortHop(ip)'
  <1>1. /\ p.len <= High /\ p \in DOMAIN rib \ written /\ High \in Nat /\ Flag \in Nat /\ Fib!Turn(p)
        /\ DOMAIN TBL24 = 0..Fib!PowerOf2[High] /\ written' = written \cup {p} /\ rib' = rib
        /\ TBL24' = [k \in DOMAIN TBL24 |-> IF Fib!Covers(p, k * Chunk) THEN rib[p] ELSE TBL24[k]]
    BY FibConstants DEF Fib!WriteShort, Fib!Turn, FibTyped, Chunk
  <1>2. \A q \in written : q \in Fib!Prefixes /\ q.len \in 0..Wide /\ q.len <= p.len /\ p.len \in 0..Wide
    BY <1>1, PrefixFacts DEF FibTyped, FibOrdered
  <1>3. \A q \in written : ~(q.len > High)
    BY <1>1, <1>2, FibConstants
  <1>4. \A ip \in Fib!Addresses : Entry(ip) = Fib!ShortHop(ip)
    BY <1>3 DEF FibChunks, Owns
  <1>5. ASSUME NEW ip \in Fib!Addresses
        PROVE  Entry(ip)' = IF Fib!Covers(p, ip) THEN rib[p] ELSE Entry(ip)
    <2>1. ip \in Nat /\ ip \div Chunk \in 0..Fib!PowerOf2[High]
      BY AddressFacts
    <2>2. TBL24'[ip \div Chunk] = IF Fib!Covers(p, (ip \div Chunk) * Chunk) THEN rib[p] ELSE TBL24[ip \div Chunk]
      BY <1>1, <2>1
    <2>3. Fib!Covers(p, (ip \div Chunk) * Chunk) <=> Fib!Covers(p, ip)
      BY <1>1, <2>1, CoversShort, HopFacts
    <2> QED BY <2>2, <2>3 DEF Entry
  <1>6. \A ip \in Fib!Addresses : Fib!ShortHop(ip)' = IF Fib!Covers(p, ip) THEN rib[p] ELSE Fib!ShortHop(ip)
    BY <1>1, LongestOverridden
  <1>7. \A ip \in Fib!Addresses : Entry(ip)' = Fib!ShortHop(ip)'
    BY <1>4, <1>5, <1>6
  <1>8. ASSUME NEW ip \in Fib!Addresses, Fib!Sound(ip)'
        PROVE  /\ Fib!Covers(p, ip) => Fib!Lookup(ip)' = rib[p]
               /\ ~Fib!Covers(p, ip) => Fib!Sound(ip) /\ Fib!Lookup(ip)' = Fib!Lookup(ip)
    <2>1. ~Fib!Flagged(Fib!ShortHop(ip)')
      BY <1>8 DEF Fib!Sound, Fib!Flagged
    <2>2. Entry(ip)' = TBL24'[ip \div Chunk] /\ Entry(ip) = TBL24[ip \div Chunk]
      BY DEF Entry
    <2>3. ~Fib!Flagged(TBL24'[ip \div Chunk])
      BY <1>7, <2>1, <2>2
    <2>4. Fib!Lookup(ip)' = Entry(ip)'
      BY <2>2, <2>3, LookupShortNext
    <2>5. ASSUME ~Fib!Covers(p, ip) PROVE Fib!Sound(ip) /\ Fib!Lookup(ip)' = Fib!Lookup(ip)
      <3>1. Entry(ip)' = Entry(ip) /\ Fib!ShortHop(ip)' = Fib!ShortHop(ip)
        BY <1>5, <1>6, <2>5
      <3>2. Fib!Sound(ip)
        BY <1>3, <2>1, <3>1 DEF Fib!Sound
      <3>3. Fib!Lookup(ip) = Entry(ip)
        BY <2>2, <2>3, <3>1, LookupShort
      <3> QED BY <2>4, <3>1, <3>2, <3>3
    <2> QED BY <1>5, <2>4, <2>5
  <1> QED BY <1>7, <1>8 DEF Overrides

\* An entry of TBL24 with its flag is the number of a chunk.
LEMMA ChunkFacts ==
    ASSUME NEW n \in Nat, n <= Flag, NEW entry \in Nat, Fib!Flagged(entry), entry - Flag < n
    PROVE  /\ entry % Flag \in Nat /\ entry % Flag < n /\ entry = (entry % Flag) + Flag
           /\ \A x \in Nat : x < Chunk =>
                 /\ (entry % Flag) * Chunk + x \in 0..(Flag * Chunk)
                 /\ (entry % Flag) * Chunk + x < n * Chunk
  <1>1. PICK f \in Nat \ {0} : f = Flag
    BY FibConstants
  <1>2. PICK c \in Nat \ {0} : c = Chunk
    BY FibConstants
  <1>3. PICK m \in Nat : m = entry - f /\ m < n /\ m < f
    BY <1>1 DEF Fib!Flagged
  <1>4. entry % f = m
    <2>1. (1 * f + m) % f = m
      BY <1>1, <1>3, DivModOf
    <2> QED BY <1>3, <2>1
  <1>5. m * c + c <= n * c /\ m * c + c <= f * c /\ m * c \in Nat /\ n * c \in Nat /\ f * c \in Nat
    BY <1>3, TimesLess, TimesNat
  <1>6. \A x \in Nat : x < c => m * c + x \in 0..(f * c) /\ m * c + x < n * c
    BY <1>5
  <1> QED BY <1>1, <1>2, <1>3, <1>4, <1>6

LEMMA RoomForChunk ==
    ASSUME FibTyped, NEW n \in Nat, FibChunks(n), NEW p \in DOMAIN rib \ written
    PROVE  /\ n < Flag
           /\ IsFiniteSet(written) /\ Cardinality(written) \in Nat
           /\ Cardinality(written \cup {p}) = Cardinality(written) + 1
  <1>1. IsFiniteSet(written) /\ IsFiniteSet(DOMAIN rib) /\ written \cup {p} \subseteq DOMAIN rib
    BY FS_Subset DEF FibTyped
  <1>2. Cardinality(written) \in Nat /\ Cardinality(written \cup {p}) = Cardinality(written) + 1
    BY <1>1, FS_AddElement, FS_CardinalityType
  <1>3. Cardinality(written \cup {p}) <= Cardinality(DOMAIN rib)
    BY <1>1, FS_Subset
  <1>4. Cardinality(DOMAIN rib) \in Nat /\ Cardinality(DOMAIN rib) <= MaxRoutes
    BY <1>1, FS_CardinalityType DEF FibTyped
  <1>5. n <= Cardinality(written) /\ MaxRoutes \in Nat /\ Flag \in Nat /\ MaxRoutes < Flag
    BY FibConstants DEF FibChunks
  <1> QED BY <1>1, <1>2, <1>3, <1>4, <1>5

LEMMA Apart ==
    ASSUME NEW c \in Nat \ {0}, NEW m \in Nat, NEW k \in Nat, m # k, NEW x \in Nat, x < c,
           NEW t \in Nat, NEW s \in Nat, t + s <= c
    PROVE  ~(m * c + t <= k * c + x /\ k * c + x < m * c + t + s)
  <1>1. m * c \in Nat /\ k * c \in Nat
    BY TimesNat
  <1>2. CASE m < k
    <2>1. m * c + c <= k * c
      BY <1>2, TimesLess
    <2> QED BY <1>1, <2>1
  <1>3. CASE k < m
    <2>1. k * c + c <= m * c
      BY <1>3, TimesLess
    <2> QED BY <1>1, <2>1
  <1> QED BY <1>2, <1>3

\* What a long route writes: its part of a chunk, of which it knows the rest.
LEMMA PartOfChunk ==
    ASSUME NEW p \in Fib!Prefixes, p.len > High, NEW m \in Nat,
           NEW ip \in Nat, ip \div Chunk = p.addr \div Chunk
    PROVE  LET s == m * Chunk + (p.addr % Chunk)
               j == m * Chunk + (ip % Chunk)
           IN  s <= j /\ j < s + Fib!Span(p) <=> Fib!Covers(p, ip)
  <1>1. PICK c \in Nat \ {0}, z \in Nat : c = Chunk /\ z = m * c
    BY FibConstants, TimesNat
  <1>2. PICK t \in Nat, x \in Nat : t = p.addr % c /\ x = ip % c
    BY <1>1, PrefixFacts, DivMod
  <1>3. PICK s \in Nat : s = Fib!Span(p)
    BY PrefixFacts
  <1>4. Fib!Covers(p, ip) <=> t <= x /\ x < t + s
    BY <1>1, <1>2, <1>3, CoversLong
  <1>5. z + t <= z + x /\ z + x < z + t + s <=> t <= x /\ x < t + s
    OBVIOUS
  <1> QED BY <1>1, <1>2, <1>3, <1>4, <1>5

LEMMA NewChunkOverrides ==
    ASSUME FibTyped, FibOrdered, NEW n \in Nat, FibChunks(n), NEW p \in DOMAIN rib, Fib!WriteNewChunk(p)
    PROVE  Overrides(p) /\ TBL24' = [TBL24 EXCEPT ![p.addr \div Chunk] = n + Flag]
  <1> DEFINE k == p.addr \div Chunk
             s == n * Chunk + (p.addr % Chunk)
  <1>1. /\ p.len > High /\ p \in DOMAIN rib \ written /\ p \in Fib!Prefixes /\ p.addr \in Fib!Addresses
        /\ p.addr \in Nat /\ k \in 0..Fib!PowerOf2[High] /\ TBL24[k] \in Nat
        /\ DOMAIN TBL24 = 0..Fib!PowerOf2[High]
        /\ Fib!Turn(p) /\ written' = written \cup {p} /\ rib' = rib
    <2>1. p.len > High /\ p \in DOMAIN rib \ written /\ Fib!Turn(p) /\ written' = written \cup {p} /\ rib' = rib
      BY DEF Fib!WriteNewChunk, Fib!Turn
    <2>2. p \in Fib!Prefixes /\ p.addr \in Fib!Addresses
      BY HopFacts, RouteAddress
    <2>3. p.addr \in Nat /\ k \in 0..Fib!PowerOf2[High]
      BY <2>2, AddressFacts
    <2>4. TBL24[k] \in Nat
      BY <2>2, EntryFacts DEF Entry
    <2> QED BY <2>1, <2>2, <2>3, <2>4 DEF FibTyped
  <1>2. n < Flag /\ n \in Nat /\ Flag \in Nat
    BY <1>1, RoomForChunk, FibConstants
  <1>3. PICK c \in Nat \ {0}, z \in Nat : c = Chunk /\ z = n * c /\ z = current
    BY FibConstants, TimesNat DEF FibChunks
  <1>4. current \div Chunk = n
    <2>1. (n * c + 0) \div c = n
      BY DivModOf
    <2>2. n * c + 0 = n * c
      BY <1>3
    <2> QED BY <1>3, <2>1, <2>2
  <1>5. /\ ~Fib!Flagged(TBL24[k])
        /\ TBLlong' = [j \in DOMAIN TBLlong |->
                 IF s <= j /\ j < s + Fib!Span(p) THEN rib[p]
                 ELSE IF current <= j /\ j <= current + Chunk THEN TBL24[k]
                 ELSE TBLlong[j]]
        /\ TBL24' = [TBL24 EXCEPT ![k] = n + Flag]
    BY <1>3, <1>4 DEF Fib!WriteNewChunk, Chunk
  <1>6. s \in Nat /\ current <= s /\ p.addr % Chunk \in Nat
    <2>1. p.addr % Chunk \in Nat
      BY <1>1, <1>3, DivMod
    <2> QED BY <1>3, <2>1
  <1>7. ASSUME NEW ip \in Fib!Addresses, Fib!Sound(ip)'
        PROVE  /\ Fib!Covers(p, ip) => Fib!Lookup(ip)' = rib[p]
               /\ ~Fib!Covers(p, ip) => Fib!Sound(ip) /\ Fib!Lookup(ip)' = Fib!Lookup(ip)
    <2>1. ip \in Nat /\ ip \div Chunk \in 0..Fib!PowerOf2[High]
      BY AddressFacts
    <2>2. PICK x \in Nat : x = ip % Chunk /\ x < c
      BY <1>3, <2>1, DivMod
    <2>3. CASE ip \div Chunk = k
      <3>1. TBL24'[k] = n + Flag /\ n + Flag \in Nat /\ Fib!Flagged(n + Flag)
        BY <1>1, <1>2, <1>5 DEF Fib!Flagged
      <3>2. /\ (n + Flag) % Flag = n
            /\ n * Chunk + x \in 0..(Flag * Chunk)
        <4>1. n + 1 \in Nat /\ n + 1 <= Flag /\ (n + Flag) - Flag < n + 1
          BY <1>2
        <4>2. (n + Flag) % Flag \in Nat /\ n + Flag = ((n + Flag) % Flag) + Flag
          BY <3>1, <4>1, ChunkFacts
        <4>3. (n + Flag) % Flag = n
          BY <1>2, <4>2
        <4>4. ((n + Flag) % Flag) * Chunk + x \in 0..(Flag * Chunk)
          BY <1>3, <2>2, <3>1, <4>1, ChunkFacts
        <4> QED BY <4>3, <4>4
      <3>3. Fib!Lookup(ip)' = TBLlong'[n * Chunk + x]
        BY <2>2, <2>3, <3>1, <3>2, LookupLongNext
      <3>4. Fib!Lookup(ip) = TBL24[k]
        BY <1>5, <2>3, LookupShort
      <3>5. s <= n * Chunk + x /\ n * Chunk + x < s + Fib!Span(p) <=> Fib!Covers(p, ip)
        BY <1>1, <2>1, <2>2, <2>3, PartOfChunk
      <3>6. current <= n * Chunk + x /\ n * Chunk + x <= current + Chunk
        BY <1>3, <2>2
      <3>7. n * Chunk + x \in DOMAIN TBLlong
        BY <3>2 DEF FibTyped
      <3>8. Fib!Sound(ip)
        <4>1. ~Fib!Flagged(Entry(ip))
          BY <1>5, <2>3 DEF Entry
        <4> QED BY <1>1, <1>7, <4>1, SoundBefore
      <3> HIDE DEF s, k
      <3> QED BY <1>5, <3>3, <3>4, <3>5, <3>6, <3>7, <3>8
    <2>4. CASE ip \div Chunk # k
      <3>1. ~Fib!Covers(p, ip)
        BY <1>1, <2>1, <2>4, CoversLong
      <3>2. TBL24'[ip \div Chunk] = TBL24[ip \div Chunk]
        BY <1>1, <1>5, <2>1, <2>4
      <3>3. Fib!Sound(ip)
        BY <1>1, <1>7, <3>2, SoundBefore DEF Entry
      <3>4. CASE ~Fib!Flagged(TBL24[ip \div Chunk])
        BY <3>1, <3>2, <3>3, <3>4, LookupShort, LookupShortNext
      <3>5. CASE Fib!Flagged(TBL24[ip \div Chunk])
        <4> DEFINE e == TBL24[ip \div Chunk]
                   j == (e % Flag) * Chunk + x
        <4>1. e \in Nat /\ Fib!Flagged(e) /\ e - Flag < n
          <5>1. Owns(ip, n)
            BY <3>3, <3>5 DEF FibChunks, Fib!Sound, Entry
          <5> QED BY <3>5, <5>1, EntryFacts DEF Owns, Entry
        <4>2. j \in 0..(Flag * Chunk) /\ j < n * Chunk
          <5>1. n <= Flag
            BY <1>2
          <5> HIDE DEF e
          <5> QED BY <1>3, <2>2, <4>1, <5>1, ChunkFacts
        <4>3. j \in DOMAIN TBLlong /\ j \in Int
          BY <4>2 DEF FibTyped
        <4>4. Fib!Lookup(ip) = TBLlong[j] /\ Fib!Lookup(ip)' = TBLlong'[j]
          BY <2>2, <3>2, <3>5, LookupLong, LookupLongNext
        <4> HIDE DEF j
        <4>5. ~(s <= j) /\ ~(current <= j)
          BY <1>3, <1>6, <4>2, <4>3
        <4>6. TBLlong'[j] = TBLlong[j]
          <5> HIDE DEF s, k
          <5> QED BY <1>5, <4>3, <4>5
        <4> QED BY <3>1, <3>3, <4>4, <4>6
      <3> QED BY <3>4, <3>5
    <2> QED BY <2>3, <2>4
  <1> QED BY <1>5, <1>7 DEF Overrides

\* A chunk that is written once more is the enclosing block's own, or the one that the
\* next hop of its short route is taken for.
LEMMA OldChunkOverrides ==
    ASSUME FibTyped, FibOrdered, NEW n \in Nat, FibChunks(n), NEW p \in DOMAIN rib, Fib!WriteOldChunk(p)
    PROVE  Overrides(p)
  <1> DEFINE k == p.addr \div Chunk
             e == TBL24[k]
             m == e % Flag
             s == m * Chunk + (p.addr % Chunk)
  <1>1. /\ p.len > High /\ p \in DOMAIN rib \ written /\ p \in Fib!Prefixes /\ p.addr \in Fib!Addresses
        /\ p.addr \in Nat /\ e \in Nat /\ e - Flag < Flag
        /\ Fib!Turn(p) /\ written' = written \cup {p} /\ rib' = rib
    <2>1. p.len > High /\ p \in DOMAIN rib \ written /\ Fib!Turn(p) /\ written' = written \cup {p} /\ rib' = rib
      BY DEF Fib!WriteOldChunk, Fib!Turn
    <2>2. p \in Fib!Prefixes /\ p.addr \in Fib!Addresses
      BY HopFacts, RouteAddress
    <2>3. p.addr \in Nat
      BY <2>2, AddressFacts
    <2>4. e \in Nat /\ e - Flag < Flag
      BY <2>2, EntryFacts DEF Entry
    <2> QED BY <2>1, <2>2, <2>3, <2>4
  <1>2. n < Flag /\ n \in Nat /\ Flag \in Nat /\ Flag <= Flag
    <2>1. n < Flag /\ Flag \in Nat
      BY <1>1, RoomForChunk, FibConstants
    <2> HIDE DEF e, k, m, s
    <2> QED BY <2>1
  <1>3. PICK c \in Nat \ {0} : c = Chunk
    BY FibConstants
  <1>5. /\ Fib!Flagged(e) /\ TBL24' = TBL24
        /\ TBLlong' = [j \in DOMAIN TBLlong |->
                 IF s <= j /\ j < s + Fib!Span(p) THEN rib[p] ELSE TBLlong[j]]
    BY DEF Fib!WriteOldChunk, Chunk
  <1>7. /\ m \in Nat /\ e = m + Flag
        /\ \A x \in Nat : x < c => m * Chunk + x \in 0..(Flag * Chunk)
    <2> HIDE DEF e
    <2> QED BY <1>1, <1>2, <1>3, <1>5, ChunkFacts
  <1>8. ASSUME NEW ip \in Fib!Addresses, Fib!Sound(ip)'
        PROVE  /\ Fib!Covers(p, ip) => Fib!Lookup(ip)' = rib[p]
               /\ ~Fib!Covers(p, ip) => Fib!Sound(ip) /\ Fib!Lookup(ip)' = Fib!Lookup(ip)
    <2>0. Fib!Sound(ip)
      BY <1>1, <1>5, <1>8, SoundBefore DEF Entry
    <2>1. ip \in Nat /\ ip \div Chunk \in 0..Fib!PowerOf2[High]
      BY AddressFacts
    <2>2. PICK x \in Nat : x = ip % Chunk /\ x < c
      BY <1>3, <2>1, DivMod
    <2>3. CASE ip \div Chunk = k
      <3>1. Fib!Lookup(ip)' = TBLlong'[m * Chunk + x] /\ Fib!Lookup(ip) = TBLlong[m * Chunk + x]
        BY <1>5, <2>2, <2>3, LookupLong, LookupLongNext
      <3>2. s <= m * Chunk + x /\ m * Chunk + x < s + Fib!Span(p) <=> Fib!Covers(p, ip)
        <4> HIDE DEF m
        <4> QED BY <1>1, <1>7, <2>1, <2>2, <2>3, PartOfChunk
      <3>3. m * Chunk + x \in DOMAIN TBLlong
        BY <1>7, <2>2 DEF FibTyped
      <3> HIDE DEF m, s
      <3> QED BY <1>5, <2>0, <3>1, <3>2, <3>3
    <2>4. CASE ip \div Chunk # k
      <3>1. ~Fib!Covers(p, ip)
        BY <1>1, <2>1, <2>4, CoversLong
      <3>3. CASE ~Fib!Flagged(TBL24[ip \div Chunk])
        BY <1>5, <2>0, <3>1, <3>3, LookupShort, LookupShortNext
      <3>4. CASE Fib!Flagged(TBL24[ip \div Chunk])
        <4> DEFINE f == TBL24[ip \div Chunk]
                   l == f % Flag
                   j == l * Chunk + x
        <4>0. Owns(ip, n) /\ Entry(ip) = f
          BY <2>0, <3>4 DEF FibChunks, Fib!Sound, Entry
        <4>1. f \in Nat /\ Fib!Flagged(f) /\ f - Flag < n
          BY <3>4, <4>0, EntryFacts DEF Owns
        <4>2. l \in Nat /\ f = l + Flag /\ j \in 0..(Flag * Chunk)
          <5>1. n <= Flag
            BY <1>2
          <5> HIDE DEF f
          <5> QED BY <1>3, <2>2, <4>1, <5>1, ChunkFacts
        <4>3. j \in DOMAIN TBLlong
          BY <4>2 DEF FibTyped
        <4>4. Fib!Lookup(ip) = TBLlong[j] /\ Fib!Lookup(ip)' = TBLlong'[j]
          BY <1>5, <2>2, <3>4, LookupLong, LookupLongNext
        <4>5. m # l
          <5>1. e # f
            <6>1. Entry(p.addr) = e
              BY DEF Entry
            <6>2. CASE Owns(p.addr, n)
              BY <1>1, <2>4, <4>0, <6>1, <6>2 DEF FibChunks
            <6>3. CASE Entry(p.addr) = Fib!ShortHop(p.addr)
              <7>1. Fib!ShortHop(p.addr)' = Fib!ShortHop(p.addr)
                BY <1>1, ShortHopKept
              <7>2. p \in written' /\ Fib!Flagged(Fib!ShortHop(p.addr)')
                BY <1>1, <1>5, <6>1, <6>3, <7>1
              <7>3. TBL24'[ip \div Chunk] # Fib!ShortHop(p.addr)'
                BY <1>1, <1>8, <7>2 DEF Fib!Sound, Fib!Flagged, Chunk
              <7> QED BY <1>5, <6>1, <6>3, <7>1, <7>3
            <6> QED BY <1>1, <6>2, <6>3 DEF FibChunks
          <5> HIDE DEF e, f
          <5> QED BY <1>7, <4>2, <5>1
        <4>6. ~(s <= j /\ j < s + Fib!Span(p))
          <5>1. PICK t \in Nat, w \in Nat : t = p.addr % Chunk /\ w = Fib!Span(p) /\ t + w <= c
            BY <1>1, <1>3, DivMod, PrefixFacts, LongSpans
          <5>2. l \in Nat /\ m \in Nat
            BY <1>7, <4>2
          <5> HIDE DEF m, l
          <5>3. ~(m * c + t <= l * c + x /\ l * c + x < m * c + t + w)
            BY <2>2, <4>5, <5>1, <5>2, Apart
          <5> QED BY <1>3, <5>1, <5>3
        <4> HIDE DEF j, s
        <4>7. TBLlong'[j] = TBLlong[j]
          BY <1>5, <4>3, <4>6
        <4> QED BY <2>0, <3>1, <4>4, <4>7
      <3> QED BY <3>3, <3>4
    <2> QED BY <2>3, <2>4
  <1> QED BY <1>8 DEF Overrides

LEMMA FibInit == Fib!Init => FibInv
  <1> SUFFICES ASSUME Fib!Init PROVE FibInv
    OBVIOUS
  <1>1. PICK file \in [1..MaxRoutes -> Fib!Prefixes] : rib \in [{file[i] : i \in 1..MaxRoutes} -> NextHops]
    BY DEF Fib!Init
  <1>2. DOMAIN rib = {file[i] : i \in 1..MaxRoutes} /\ \A p \in DOMAIN rib : rib[p] \in NextHops
    BY <1>1
  <1>3. IsFiniteSet(DOMAIN rib) /\ Cardinality(DOMAIN rib) <= MaxRoutes
    <2>1. IsFiniteSet(1..MaxRoutes) /\ Cardinality(1..MaxRoutes) = MaxRoutes
      BY FibConstants, FS_Interval
    <2>2. file \in Surjection(1..MaxRoutes, DOMAIN rib)
      BY <1>2 DEF Surjection
    <2> QED BY <2>1, <2>2, FS_Surjection
  <1>4. /\ written = {} /\ TBL24 = [k \in 0..Fib!PowerOf2[High] |-> 0] /\ DOMAIN TBLlong = 0..(Flag * Chunk)
        /\ current = 0
    BY DEF Fib!Init, Chunk
  <1>7. 0 < Flag /\ Flag \in Nat
    BY FibConstants
  <1>5. FibTyped
    <2>1. 0 \in 0..(2 * Flag - 1)
      BY <1>7
    <2> QED BY <1>2, <1>3, <1>4, <2>1 DEF FibTyped
  <1>6. FibOrdered
    BY <1>4 DEF FibOrdered
  <1>8. \A ip \in Fib!Addresses :
            Entry(ip) = 0 /\ Fib!ShortHop(ip) = 0 /\ Fib!LongestMatch(ip) = 0
    BY <1>4, AddressFacts DEF Entry, Fib!ShortHop, Fib!LongestMatch, Fib!Longest
  <1>9. FibChunks(0)
    <2>1. 0 * Chunk = 0 /\ Cardinality({}) = 0
      BY FibConstants, FS_EmptySet
    <2> QED BY <1>4, <1>8, <2>1 DEF FibChunks, Owns
  <1>10. ASSUME NEW ip \in Fib!Addresses PROVE Fib!Lookup(ip) = Fib!LongestMatch(ip)
    <2>1. TBL24[ip \div Chunk] = 0 /\ ~Fib!Flagged(0)
      BY <1>7, <1>8 DEF Fib!Flagged, Entry
    <2> QED BY <1>8, <2>1, LookupShort
  <1> QED BY <1>5, <1>6, <1>9, <1>10 DEF FibInv, Fib!LookupIsLongestMatch, Fib!Wrong

LEMMA OrderKept ==
    ASSUME FibTyped, FibOrdered, NEW p \in DOMAIN rib, Fib!Turn(p), written' = written \cup {p}, rib' = rib
    PROVE  FibOrdered'
  <1>1. \A q \in DOMAIN rib : q.len \in Nat
    BY PrefixFacts, FibConstants DEF FibTyped
  <1> QED BY <1>1 DEF FibOrdered, Fib!Turn

LEMMA FibStep ==
    ASSUME FibInv, Fib!Next PROVE FibInv'
  <1>0. FibTyped /\ FibOrdered /\ Fib!LookupIsLongestMatch
    BY DEF FibInv
  <1>1. PICK n \in Nat : FibChunks(n)
    BY DEF FibInv
  <1>2. PICK p \in DOMAIN rib : Fib!WriteShort(p) \/ Fib!WriteNewChunk(p) \/ Fib!WriteOldChunk(p)
    BY DEF Fib!Next
  <1>3. Fib!Turn(p) /\ p \in DOMAIN rib \ written /\ written' = written \cup {p} /\ rib' = rib
    BY <1>2 DEF Fib!WriteShort, Fib!WriteNewChunk, Fib!WriteOldChunk, Fib!Turn
  <1>4. FibOrdered'
    BY <1>0, <1>3, OrderKept
  <1>5. /\ n < Flag /\ n \in Nat /\ Flag \in Nat /\ Cardinality(written) \in Nat
        /\ Cardinality(written') = Cardinality(written) + 1 /\ n <= Cardinality(written)
        /\ current = n * Chunk
    BY <1>0, <1>1, <1>3, RoomForChunk, FibConstants DEF FibChunks
  <1>6. Overrides(p)
    BY <1>0, <1>1, <1>2, ShortOverrides, NewChunkOverrides, OldChunkOverrides
  <1>7. Fib!LookupIsLongestMatch'
    <2>1. ASSUME NEW ip \in Fib!Addresses, Fib!Sound(ip)' PROVE Fib!Lookup(ip)' = Fib!LongestMatch(ip)'
      <3>1. /\ Fib!Covers(p, ip) => Fib!Lookup(ip)' = rib[p]
            /\ ~Fib!Covers(p, ip) => Fib!Sound(ip) /\ Fib!Lookup(ip)' = Fib!Lookup(ip)
        BY <1>6, <2>1 DEF Overrides
      <3>2. Fib!LongestMatch(ip)' = IF Fib!Covers(p, ip) THEN rib[p] ELSE Fib!LongestMatch(ip)
        BY <1>0, <1>3, LongestOverridden
      <3>3. Fib!Sound(ip) => Fib!Lookup(ip) = Fib!LongestMatch(ip)
        BY <1>0 DEF Fib!LookupIsLongestMatch, Fib!Wrong
      <3> QED BY <3>1, <3>2, <3>3
    <2>2. (\A ip \in Fib!Addresses : Fib!Sound(ip) => Fib!Lookup(ip) = Fib!LongestMatch(ip))'
      BY <2>1
    <2> QED BY <2>2 DEF Fib!LookupIsLongestMatch, Fib!Wrong
  <1>8. ASSUME TBL24' \in [0..Fib!PowerOf2[High] -> 0..(2 * Flag - 1)], DOMAIN TBLlong' = DOMAIN TBLlong
        PROVE  FibTyped'
    <2>1. written' \subseteq DOMAIN rib
      BY <1>0, <1>3 DEF FibTyped
    <2> QED BY <1>0, <1>3, <1>8, <2>1 DEF FibTyped
  <1>9. CASE Fib!WriteShort(p)
    <2>1. /\ current' = current /\ TBLlong' = TBLlong /\ DOMAIN TBL24 = 0..Fib!PowerOf2[High]
          /\ TBL24' = [k \in DOMAIN TBL24 |-> IF Fib!Covers(p, k * Chunk) THEN rib[p] ELSE TBL24[k]]
      BY <1>0, <1>9 DEF Fib!WriteShort, FibTyped, Chunk
    <2>2. TBL24' \in [0..Fib!PowerOf2[High] -> 0..(2 * Flag - 1)]
      BY <1>0, <2>1, HopFacts DEF FibTyped
    <2>3. FibChunks(n)'
      <3>1. \A ip \in Fib!Addresses : Entry(ip)' = Fib!ShortHop(ip)'
        BY <1>0, <1>1, <1>9, ShortOverrides
      <3>2. current' = n * Chunk /\ n <= Cardinality(written')
        BY <1>5, <2>1
      <3>3. \A ip \in Fib!Addresses : ~Owns(ip, n)'
        BY <3>1 DEF Owns, Fib!Flagged
      <3>4. (\A ip \in Fib!Addresses : Entry(ip) = Fib!ShortHop(ip) \/ Owns(ip, n))'
        BY <3>1
      <3>5. (\A ip, jp \in Fib!Addresses :
               Owns(ip, n) /\ Owns(jp, n) /\ Entry(ip) = Entry(jp) => ip \div Chunk = jp \div Chunk)'
        BY <3>3
      <3> QED BY <3>2, <3>4, <3>5 DEF FibChunks
    <2> QED BY <1>4, <1>7, <1>8, <2>1, <2>2, <2>3 DEF FibInv
  <1>10. CASE Fib!WriteOldChunk(p)
    <2>1. current' = current /\ TBL24' = TBL24 /\ DOMAIN TBLlong' = DOMAIN TBLlong /\ p.len > High
      BY <1>10 DEF Fib!WriteOldChunk
    <2>2. \A ip \in Fib!Addresses : Fib!ShortHop(ip)' = Fib!ShortHop(ip) /\ Entry(ip)' = Entry(ip)
      BY <1>0, <1>3, <2>1, ShortHopKept DEF Entry
    <2>3. \A ip \in Fib!Addresses : Owns(ip, n)' <=> Owns(ip, n)
      <3> TAKE ip \in Fib!Addresses
      <3>1. Fib!Flagged(Entry(ip))' <=> Fib!Flagged(Entry(ip))
        BY <2>2 DEF Fib!Flagged
      <3>2. Fib!Flagged(Fib!ShortHop(ip))' <=> Fib!Flagged(Fib!ShortHop(ip))
        BY <2>2 DEF Fib!Flagged
      <3>3. Owns(ip, n) => \E q \in written' : q.len > High
        BY <1>3 DEF Owns
      <3>4. Owns(ip, n)' => Owns(ip, n)
        <4>1. ASSUME Owns(ip, n)' PROVE Owns(ip, n)
          <5>1. Fib!Flagged(Entry(ip)) /\ ~Fib!Flagged(Fib!ShortHop(ip)) /\ Entry(ip) - Flag < n
            BY <2>2, <3>1, <3>2, <4>1 DEF Owns
          <5>2. Entry(ip) # Fib!ShortHop(ip)
            BY <5>1
          <5> QED BY <1>1, <5>2 DEF FibChunks
        <4> QED BY <4>1
      <3> QED BY <2>2, <3>1, <3>2, <3>3, <3>4 DEF Owns
    <2>4. FibChunks(n)'
      <3>1. current' = n * Chunk /\ n <= Cardinality(written')
        BY <1>5, <2>1
      <3>2. (\A ip \in Fib!Addresses : Entry(ip) = Fib!ShortHop(ip) \/ Owns(ip, n))'
        BY <1>1, <2>2, <2>3 DEF FibChunks
      <3>3. (\A ip, jp \in Fib!Addresses :
               Owns(ip, n) /\ Owns(jp, n) /\ Entry(ip) = Entry(jp) => ip \div Chunk = jp \div Chunk)'
        BY <1>1, <2>2, <2>3 DEF FibChunks
      <3> QED BY <3>1, <3>2, <3>3 DEF FibChunks
    <2> QED BY <1>0, <1>4, <1>7, <1>8, <2>1, <2>4 DEF FibInv, FibTyped
  <1>11. CASE Fib!WriteNewChunk(p)
    <2> DEFINE k == p.addr \div Chunk
    <2>1. current' = current + Chunk /\ DOMAIN TBLlong' = DOMAIN TBLlong /\ p.len > High
          /\ ~Fib!Flagged(TBL24[k])
      BY <1>11 DEF Fib!WriteNewChunk, Chunk
    <2>2. TBL24' = [TBL24 EXCEPT ![k] = n + Flag] /\ TBL24 \in [0..Fib!PowerOf2[High] -> 0..(2 * Flag - 1)]
      BY <1>0, <1>1, <1>11, NewChunkOverrides DEF FibTyped
    <2>3. n + Flag \in 0..(2 * Flag - 1) /\ n + Flag >= Flag /\ n + 1 \in Nat /\ k \in 0..Fib!PowerOf2[High]
      BY <1>0, <1>5, HopFacts, RouteAddress, AddressFacts
    <2> HIDE DEF k
    <2>4. TBL24' \in [0..Fib!PowerOf2[High] -> 0..(2 * Flag - 1)]
      BY <2>2, <2>3
    <2>5. current' = (n + 1) * Chunk /\ n + 1 <= Cardinality(written')
      <3>1. PICK c \in Nat : c = Chunk
        BY FibConstants
      <3>2. n * c + c = (n + 1) * c
        OBVIOUS
      <3> QED BY <1>5, <2>1, <3>1, <3>2
    <2>6. \A ip \in Fib!Addresses :
              /\ Entry(ip) \in Nat /\ Fib!ShortHop(ip)' = Fib!ShortHop(ip)
              /\ Entry(ip)' = IF ip \div Chunk = k THEN n + Flag ELSE Entry(ip)
              /\ ip \div Chunk = k => ~Fib!Flagged(Entry(ip))
      BY <1>0, <1>3, <2>1, <2>2, <2>3, ShortHopKept, EntryFacts, AddressFacts DEF Entry
    <2>7. \A ip \in Fib!Addresses :
              Owns(ip, n + 1)' <=> ip \div Chunk = k \/ Owns(ip, n)
      <3> TAKE ip \in Fib!Addresses
      <3>0. Fib!Flagged(Fib!ShortHop(ip))' <=> Fib!Flagged(Fib!ShortHop(ip))
        BY <2>6 DEF Fib!Flagged
      <3>1. \E q \in written' : q.len > High
        BY <1>3, <2>1
      <3>2. CASE ip \div Chunk = k
        <4>1. Entry(ip) = Fib!ShortHop(ip) /\ ~Fib!Flagged(Entry(ip))
          BY <1>1, <2>6, <3>2 DEF FibChunks, Owns
        <4>2. Entry(ip)' = n + Flag /\ (n + Flag) - Flag < n + 1 /\ Fib!Flagged(Entry(ip))'
          BY <1>5, <2>3, <2>6, <3>2 DEF Fib!Flagged
        <4> QED BY <3>0, <3>1, <3>2, <4>1, <4>2 DEF Owns
      <3>3. CASE ip \div Chunk # k
        <4>1. Entry(ip)' = Entry(ip) /\ (Fib!Flagged(Entry(ip))' <=> Fib!Flagged(Entry(ip)))
          BY <2>6, <3>3 DEF Fib!Flagged
        <4>2. ASSUME Owns(ip, n) PROVE Owns(ip, n + 1)'
          <5>1. Entry(ip) - Flag < n + 1
            BY <1>5, <2>6, <4>2 DEF Owns
          <5> QED BY <3>0, <3>1, <4>1, <4>2, <5>1 DEF Owns
        <4>3. ASSUME Owns(ip, n + 1)' PROVE Owns(ip, n)
          <5>1. Fib!Flagged(Entry(ip)) /\ ~Fib!Flagged(Fib!ShortHop(ip))
            BY <3>0, <4>1, <4>3 DEF Owns
          <5>2. Entry(ip) # Fib!ShortHop(ip)
            BY <5>1
          <5> QED BY <1>1, <5>2 DEF FibChunks
        <4> QED BY <3>3, <4>2, <4>3
      <3> QED BY <3>2, <3>3
    <2>8. \A ip \in Fib!Addresses : Owns(ip, n) => Entry(ip) # n + Flag /\ ip \div Chunk # k
      <3> TAKE ip \in Fib!Addresses
      <3> SUFFICES ASSUME Owns(ip, n) PROVE Entry(ip) # n + Flag /\ ip \div Chunk # k
        OBVIOUS
      <3>1. Entry(ip) - Flag < n /\ Fib!Flagged(Entry(ip))
        BY DEF Owns
      <3> QED BY <1>5, <2>6, <3>1
    <2>9. (\A ip \in Fib!Addresses : Entry(ip) = Fib!ShortHop(ip) \/ Owns(ip, n + 1))'
      BY <1>1, <2>6, <2>7 DEF FibChunks
    <2>10. (\A ip, jp \in Fib!Addresses :
              Owns(ip, n + 1) /\ Owns(jp, n + 1) /\ Entry(ip) = Entry(jp) => ip \div Chunk = jp \div Chunk)'
      <3>1. \A ip, jp \in Fib!Addresses :
              Owns(ip, n) /\ Owns(jp, n) /\ Entry(ip) = Entry(jp) => ip \div Chunk = jp \div Chunk
        BY <1>1 DEF FibChunks
      <3>2. \A ip, jp \in Fib!Addresses :
              Owns(ip, n + 1)' /\ Owns(jp, n + 1)' /\ Entry(ip)' = Entry(jp)' => ip \div Chunk = jp \div Chunk
        BY <2>6, <2>7, <2>8, <3>1
      <3> QED BY <3>2
    <2>11. FibChunks(n + 1)'
      BY <2>5, <2>9, <2>10 DEF FibChunks
    <2> QED BY <1>4, <1>7, <1>8, <2>1, <2>3, <2>4, <2>11 DEF FibInv
  <1> QED BY <1>2, <1>9, <1>10, <1>11

LEMMA FibStutter == FibInv /\ UNCHANGED fibVars => FibInv'
  <1> SUFFICES ASSUME FibInv, UNCHANGED fibVars PROVE FibInv'
    OBVIOUS
  <1>1. rib' = rib /\ written' = written /\ TBL24' = TBL24 /\ TBLlong' = TBLlong /\ current' = current
    BY DEF fibVars
  <1>2. FibTyped' /\ FibOrdered'
    BY <1>1 DEF FibInv, FibTyped, FibOrdered
  <1>3. \A ip : /\ Entry(ip)' = Entry(ip) /\ Fib!ShortHop(ip)' = Fib!ShortHop(ip)
                /\ Fib!Lookup(ip)' = Fib!Lookup(ip) /\ Fib!LongestMatch(ip)' = Fib!LongestMatch(ip)
    BY <1>1 DEF Entry, Fib!ShortHop, Fib!Lookup, Fib!LongestMatch, Fib!Longest, Fib!Flagged
  <1>4. \A ip, n : Owns(ip, n)' <=> Owns(ip, n)
    BY <1>1, <1>3 DEF Owns, Fib!Flagged
  <1>5. ASSUME NEW n \in Nat, FibChunks(n) PROVE FibChunks(n)'
    BY <1>1, <1>3, <1>4, <1>5 DEF FibChunks
  <1>6. \A ip : Fib!Sound(ip)' => Fib!Sound(ip)
    BY <1>1, <1>3 DEF Fib!Sound, Fib!Flagged
  <1>7. Fib!LookupIsLongestMatch'
    BY <1>3, <1>6 DEF FibInv, Fib!LookupIsLongestMatch, Fib!Wrong
  <1> QED BY <1>2, <1>5, <1>7 DEF FibInv

\* IPlookup: however many routes are given, whatever their next hops, and in whatever
\* order a hash table yields those of one length, a sound address gets the next hop of its
\* longest route from the two arrays.
THEOREM FibCorrect == AnySpec => []FibLongestMatch
  <1> DEFINE PartInv == part = "fib" => FibInv
  <1>1. AnyInit => PartInv
    BY FibInit DEF AnyInit
  <1>2. PartInv /\ [AnyNext]_<<part, vars, fibVars, routeVars, graphVars>> => PartInv'
    <2> SUFFICES ASSUME PartInv, [AnyNext]_<<part, vars, fibVars, routeVars, graphVars>>, part' = "fib"
                 PROVE  FibInv'
      OBVIOUS
    <2>1. part = "fib" /\ (Fib!Next \/ UNCHANGED fibVars)
      BY DEF AnyNext
    <2> QED BY <2>1, FibStep, FibStutter
  <1>3. PartInv => FibLongestMatch
    BY DEF FibInv, FibLongestMatch
  <1> QED BY <1>1, <1>2, <1>3, PTL DEF AnySpec

-----------------------------------------------------------------------------
(* The routing table of LookupIP6Route: prefixes                           *)

Lengths == Routes!Tables

LEMMA RouteConstants ==
    /\ Bits \in Nat \ {0} /\ Buckets \in Nat \ {0} /\ MaxAdds \in Nat
    /\ IsPowers(Routes!PowerOf2, Bits)
    /\ Lengths = 0..(Bits - 1)
  <1>1. Bits \in Nat \ {0} /\ Buckets \in Nat \ {0} /\ MaxAdds \in Nat
    BY PartsAssumption DEF Routes!TableAssumption
  <1>2. \E f : f = [n \in 0..Bits |-> IF n = 0 THEN 1 ELSE 2 * f[n - 1]]
    BY <1>1, PowersExist
  <1>3. Routes!PowerOf2 = [n \in 0..Bits |-> IF n = 0 THEN 1 ELSE 2 * Routes!PowerOf2[n - 1]]
    BY <1>2 DEF Routes!PowerOf2
  <1>4. IsPowers(Routes!PowerOf2, Bits)
    BY <1>1, <1>3, PowersKnown
  <1> QED BY <1>1, <1>4 DEF Lengths, Routes!Tables

\* mask() keeps the bits in front, and a shorter mask cares for fewer of them.
LEMMA MaskFacts ==
    ASSUME NEW a \in Routes!Addresses, NEW k \in 0..Bits
    PROVE  /\ Routes!mask(a, k) \in Routes!Addresses
           /\ \A l \in 0..k : Routes!mask(Routes!mask(a, k), l) = Routes!mask(a, l)
  <1>0. Bits \in Nat /\ IsPowers(Routes!PowerOf2, Bits) /\ k \in Nat /\ k <= Bits /\ Bits - k \in Nat
        /\ Bits - k \in 0..Bits /\ Bits \in 0..Bits
    BY RouteConstants
  <1>1. PICK x \in Nat \ {0} : x = Routes!PowerOf2[Bits - k]
    BY <1>0 DEF IsPowers
  <1>2. PICK y \in Nat \ {0} : y = Routes!PowerOf2[Bits]
    BY <1>0 DEF IsPowers
  <1>3. a \in Nat /\ a < y
    BY <1>2 DEF Routes!Addresses
  <1>4. PICK t \in Nat, f \in Nat : f = a % x /\ f < x /\ a = t * x + f
    BY <1>3, Divided
  <1>5. t * x \in Nat /\ Routes!mask(a, k) = t * x
    <2>1. t * x \in Nat
      BY TimesNat
    <2>2. \A z \in Nat : (z + f) - f = z
      OBVIOUS
    <2>3. Routes!mask(a, k) = a - f
      BY <1>1, <1>4 DEF Routes!mask
    <2> QED BY <1>4, <2>1, <2>2, <2>3
  <1>6. Routes!mask(a, k) \in Routes!Addresses
    <2>1. \A z \in Nat : z + f < y => z \in 0..(y - 1)
      OBVIOUS
    <2> QED BY <1>2, <1>3, <1>4, <1>5, <2>1 DEF Routes!Addresses
  <1>7. ASSUME NEW l \in 0..k PROVE Routes!mask(Routes!mask(a, k), l) = Routes!mask(a, l)
    <2>1. k - l \in Nat /\ k - l \in 0..Bits /\ (k - l) + (Bits - k) = Bits - l /\ (k - l) + (Bits - k) <= Bits
      BY <1>0
    <2>2. PICK c \in Nat \ {0} : c = Routes!PowerOf2[k - l]
      BY <1>0, <2>1 DEF IsPowers
    <2>3. Routes!PowerOf2[Bits - l] = c * x
      <3>1. Routes!PowerOf2[(k - l) + (Bits - k)] = Routes!PowerOf2[k - l] * Routes!PowerOf2[Bits - k]
        BY <1>0, <2>1, PowerOfSum
      <3> QED BY <1>1, <2>1, <2>2, <3>1
    <2>4. PICK q \in Nat, u \in Nat : u < c /\ t = q * c + u
      BY Divided
    <2>5. u * x + x <= c * x /\ u * x \in Nat /\ c * x \in Nat
      <3>1. c \in Nat
        OBVIOUS
      <3> QED BY <2>4, <3>1, TimesLess, TimesNat
    <2>6. PICK e \in Nat \ {0} : e = c * x
      BY <2>5
    <2>7. PICK w \in Nat : w = u * x
      BY <2>5
    <2>8. w < e /\ w + f < e /\ w + f \in Nat
      BY <1>4, <2>5, <2>6, <2>7
    <2>9. t * x = q * e + w
      <3>1. (q * c + u) * x = (q * c) * x + u * x
        OBVIOUS
      <3>2. (q * c) * x = q * (c * x)
        OBVIOUS
      <3> QED BY <2>4, <2>6, <2>7, <3>1, <3>2
    <2>10. a = q * e + (w + f) /\ q * e \in Nat
      <3>1. q * e \in Nat
        BY TimesNat
      <3>2. \A z \in Nat : (z + w) + f = z + (w + f)
        OBVIOUS
      <3> QED BY <1>4, <2>9, <3>1, <3>2
    <2>11. a % e = w + f /\ (t * x) % e = w
      <3>1. PICK r \in Nat : r = w + f /\ r < e
        BY <2>8
      <3>2. (q * e + r) % e = r /\ (q * e + w) % e = w
        BY <2>8, <3>1, DivModOf
      <3> QED BY <2>9, <2>10, <3>1, <3>2
    <2>12. \A z \in Nat : (z + (w + f)) - (w + f) = z /\ (z + w) - w = z
      OBVIOUS
    <2>13. a - (a % e) = q * e /\ (t * x) - ((t * x) % e) = q * e
      BY <2>9, <2>10, <2>11, <2>12
    <2> QED BY <1>5, <2>3, <2>6, <2>13 DEF Routes!mask
  <1> QED BY <1>6, <1>7

\* A mask leaves alone what a shorter one has left.
LEMMA MaskLonger ==
    ASSUME NEW a \in Routes!Addresses, NEW k \in 0..Bits, NEW l \in k..Bits
    PROVE  Routes!mask(Routes!mask(a, k), l) = Routes!mask(a, k)
  <1>0. Bits \in Nat /\ IsPowers(Routes!PowerOf2, Bits) /\ k \in Nat /\ l \in Nat /\ k <= l /\ l <= Bits
        /\ Bits - k \in 0..Bits /\ Bits - l \in 0..Bits /\ l - k \in 0..Bits /\ Bits \in 0..Bits
        /\ (l - k) + (Bits - l) = Bits - k /\ (l - k) + (Bits - l) <= Bits
    BY RouteConstants
  <1>1. PICK x \in Nat \ {0} : x = Routes!PowerOf2[Bits - k]
    BY <1>0 DEF IsPowers
  <1>2. PICK y \in Nat \ {0} : y = Routes!PowerOf2[Bits - l]
    BY <1>0 DEF IsPowers
  <1>3. PICK c \in Nat \ {0} : c = Routes!PowerOf2[l - k]
    BY <1>0 DEF IsPowers
  <1>4. x = c * y
    <2>1. Routes!PowerOf2[(l - k) + (Bits - l)] = Routes!PowerOf2[l - k] * Routes!PowerOf2[Bits - l]
      BY <1>0, PowerOfSum
    <2> QED BY <1>0, <1>1, <1>2, <1>3, <2>1
  <1>5. a \in Nat
    <2>1. \A n : \A i \in 0..n : i \in Nat
      OBVIOUS
    <2> QED BY <2>1 DEF Routes!Addresses
  <1>6. PICK t \in Nat, f \in Nat : f = a % x /\ f < x /\ a = t * x + f
    BY <1>5, Divided
  <1>7. t * x \in Nat /\ Routes!mask(a, k) = t * x
    <2>1. t * x \in Nat
      BY TimesNat
    <2>2. \A z \in Nat : (z + f) - f = z
      OBVIOUS
    <2>3. Routes!mask(a, k) = a - f
      BY <1>1, <1>6 DEF Routes!mask
    <2> QED BY <1>6, <2>1, <2>2, <2>3
  <1>8. (t * x) % y = 0
    <2>1. t * x = (t * c) * y
      BY <1>4
    <2>2. t * c \in Nat /\ (t * c) * y \in Nat
      <3>1. c \in Nat /\ y \in Nat
        OBVIOUS
      <3> QED BY <3>1, TimesNat
    <2>3. PICK q \in Nat : q = t * c
      BY <2>2
    <2>4. 0 \in Nat /\ 0 < y /\ \A z \in Nat : z + 0 = z
      OBVIOUS
    <2>5. (q * y + 0) % y = 0
      BY <2>4, DivModOf
    <2>6. q * y + 0 = q * y
      BY <2>2, <2>3, <2>4
    <2> QED BY <2>1, <2>3, <2>5, <2>6
  <1>9. Routes!mask(t * x, l) = t * x
    <2>1. \A z \in Nat : z - 0 = z
      OBVIOUS
    <2> QED BY <1>2, <1>7, <1>8, <2>1 DEF Routes!mask
  <1> QED BY <1>7, <1>9

LEMMA RouteFacts ==
    ASSUME NEW p \in Routes!RoutePrefixes
    PROVE  /\ p = [len |-> p.len, addr |-> p.addr]
           /\ p.len \in 1..Bits /\ p.len \in Nat /\ p.len - 1 \in Lengths
           /\ p.addr \in Routes!Addresses /\ Routes!mask(p.addr, p.len) = p.addr
           /\ p # Routes!NoRoute
  <1>1. PICK l \in 1..Bits : p \in {[len |-> l, addr |-> k * Routes!PowerOf2[Bits - l]] :
                                      k \in 0..(Routes!PowerOf2[l] - 1)}
    BY DEF Routes!RoutePrefixes
  <1>2. PICK k \in 0..(Routes!PowerOf2[l] - 1) : p = [len |-> l, addr |-> k * Routes!PowerOf2[Bits - l]]
    BY <1>1
  <1>3. Bits \in Nat /\ IsPowers(Routes!PowerOf2, Bits) /\ l \in Nat /\ l <= Bits /\ Bits - l \in Nat
        /\ Bits - l \in 0..Bits /\ l \in 0..Bits /\ l + (Bits - l) = Bits /\ l - 1 \in Lengths
    BY RouteConstants
  <1>4. PICK x \in Nat \ {0} : x = Routes!PowerOf2[Bits - l]
    BY <1>3 DEF IsPowers
  <1>5. PICK n \in Nat \ {0} : n = Routes!PowerOf2[l]
    BY <1>3 DEF IsPowers
  <1>6. Routes!PowerOf2[Bits] = n * x
    <2>1. Routes!PowerOf2[l + (Bits - l)] = Routes!PowerOf2[l] * Routes!PowerOf2[Bits - l]
      BY <1>3, PowerOfSum
    <2> QED BY <1>3, <1>4, <1>5, <2>1
  <1>7. k \in Nat /\ k < n
    BY <1>5
  <1>8. k * x + x <= n * x /\ k * x \in Nat /\ n * x \in Nat
    <2>1. n \in Nat
      OBVIOUS
    <2> QED BY <1>7, <2>1, TimesLess, TimesNat
  <1>9. k * x \in 0..((n * x) - 1)
    BY <1>8
  <1>10. (k * x) % x = 0
    <2>1. 0 \in Nat /\ 0 < x /\ \A z \in Nat : z + 0 = z
      OBVIOUS
    <2>2. (k * x + 0) % x = 0
      BY <1>7, <2>1, DivModOf
    <2> QED BY <1>8, <2>1, <2>2
  <1>11. Routes!mask(k * x, l) = k * x
    <2>1. \A z \in Nat : z - 0 = z
      OBVIOUS
    <2> QED BY <1>4, <1>8, <1>10, <2>1 DEF Routes!mask
  <1>12. p.len = l /\ p.addr = k * x
    BY <1>2, <1>4
  <1>13. p.addr \in Routes!Addresses
    BY <1>6, <1>9, <1>12 DEF Routes!Addresses
  <1>14. p # Routes!NoRoute
    BY <1>12 DEF Routes!NoRoute
  <1> QED BY <1>2, <1>3, <1>11, <1>12, <1>13, <1>14

LEMMA RouteCovers ==
    ASSUME NEW p \in Routes!RoutePrefixes, NEW ip \in Routes!Addresses
    PROVE  /\ \A k \in p.len..Bits : Routes!Covers(p, Routes!mask(ip, k)) <=> Routes!Covers(p, ip)
           /\ Routes!Covers(p, ip) =>
                /\ \A k \in 0..p.len : Routes!mask(p.addr, k) = Routes!mask(ip, k)
                /\ \A q \in Routes!RoutePrefixes :
                      /\ q.len <= p.len => (Routes!Covers(q, p.addr) <=> Routes!Covers(q, ip))
                      /\ q.len = p.len /\ Routes!Covers(q, ip) => q = p
  <1>0. Bits \in Nat /\ p.len \in 0..Bits /\ p.len \in Nat
    BY RouteConstants, RouteFacts
  <1>1. ASSUME NEW k \in p.len..Bits
        PROVE  Routes!Covers(p, Routes!mask(ip, k)) <=> Routes!Covers(p, ip)
    <2>1. k \in 0..Bits /\ p.len \in 0..k
      BY <1>0
    <2>2. Routes!mask(Routes!mask(ip, k), p.len) = Routes!mask(ip, p.len)
      BY <2>1, MaskFacts
    <2> QED BY <2>2 DEF Routes!Covers
  <1>2. ASSUME Routes!Covers(p, ip), NEW k \in 0..p.len
        PROVE  Routes!mask(p.addr, k) = Routes!mask(ip, k)
    BY <1>0, <1>2, MaskFacts DEF Routes!Covers
  <1>3. ASSUME Routes!Covers(p, ip), NEW q \in Routes!RoutePrefixes, q.len <= p.len
        PROVE  Routes!Covers(q, p.addr) <=> Routes!Covers(q, ip)
    <2>1. q.len \in 0..p.len
      BY <1>0, <1>3, RouteFacts
    <2> QED BY <1>2, <1>3, <2>1 DEF Routes!Covers
  <1>4. ASSUME Routes!Covers(p, ip), NEW q \in Routes!RoutePrefixes, q.len = p.len, Routes!Covers(q, ip)
        PROVE  q = p
    <2>1. q.addr = p.addr
      BY <1>4 DEF Routes!Covers
    <2>2. q = [len |-> q.len, addr |-> q.addr] /\ p = [len |-> p.len, addr |-> p.addr]
      BY RouteFacts
    <2> QED BY <1>4, <2>1, <2>2
  <1> QED BY <1>1, <1>2, <1>3, <1>4

-----------------------------------------------------------------------------
(* The routing table of LookupIP6Route: hash tables                        *)

ChainItem == [key : Routes!Addresses, val : Nat]
BucketIds == 0..(Buckets - 1)
ChainTyped == chain \in [Lengths -> [BucketIds -> Seq(ChainItem)]]

LEMMA HashFacts ==
    ASSUME NEW key \in Routes!Addresses
    PROVE  Routes!HASH(key) \in BucketIds
  <1>1. key \in Nat /\ Buckets \in Nat \ {0}
    <2>1. \A n : \A k \in 0..n : k \in Nat
      OBVIOUS
    <2> QED BY <2>1, RouteConstants DEF Routes!Addresses
  <1>2. key % Buckets \in Nat /\ key % Buckets < Buckets
    BY <1>1, DivMod
  <1> QED BY <1>1, <1>2 DEF Routes!HASH, BucketIds

\* The first item with a key.
LEMMA KeyFacts ==
    ASSUME NEW c \in Seq(ChainItem), NEW key
    PROVE  LET i == Routes!KeyAt(c, key)
           IN  \/ i = 0 /\ \A k \in 1..Len(c) : c[k].key # key
               \/ i \in 1..Len(c) /\ c[i].key = key /\ \A k \in 1..Len(c) : k < i => c[k].key # key
  <1> DEFINE I == {i \in 1..Len(c) : c[i].key = key}
  <1>1. Routes!KeyAt(c, key) = IF I # {} THEN Routes!Min(I) ELSE 0
    BY DEF Routes!KeyAt, Routes!SelectInSeq
  <1>2. Len(c) \in Nat /\ I \subseteq Nat
    BY LenProperties
  <1>3. I # {} => Routes!Min(I) \in I /\ \A k \in I : Routes!Min(I) <= k
    <2> SUFFICES ASSUME I # {} PROVE Routes!Min(I) \in I /\ \A k \in I : Routes!Min(I) <= k
      OBVIOUS
    <2> HIDE DEF I
    <2>1. PICK n \in I : \A m \in I : <<m, n>> \notin Less
      BY <1>2, LessWellFounded, WFMin
    <2>2. ASSUME NEW k \in I PROVE n <= k
      <3>1. n \in Nat /\ k \in Nat /\ <<k, n>> \notin Less
        BY <1>2, <2>1
      <3>2. ~(k < n)
        BY <3>1 DEF Less
      <3> QED BY <3>1, <3>2
    <2> QED BY <2>2 DEF Routes!Min
  <1>4. ASSUME I # {}, NEW k \in 1..Len(c), k < Routes!Min(I) PROVE c[k].key # key
    <2>1. Routes!Min(I) \in Nat
      BY <1>2, <1>3, <1>4
    <2>2. k \notin I
      BY <1>3, <1>4, <2>1
    <2> QED BY <2>2
  <1> QED BY <1>1, <1>3, <1>4

\* What is known of the first place of a key fixes it.
LEMMA KeyKnown ==
    ASSUME NEW c \in Seq(ChainItem), NEW key, NEW i \in 1..Len(c), c[i].key = key,
           \A k \in 1..Len(c) : k < i => c[k].key # key
    PROVE  Routes!KeyAt(c, key) = i
  <1>1. Len(c) \in Nat
    BY LenProperties
  <1>2. PICK j : j = Routes!KeyAt(c, key)
    OBVIOUS
  <1>3. j \in 1..Len(c) /\ c[j].key = key /\ \A k \in 1..Len(c) : k < j => c[k].key # key
    BY <1>2, KeyFacts
  <1>4. ~(j < i) /\ ~(i < j)
    BY <1>3
  <1> QED BY <1>1, <1>2, <1>3, <1>4

LEMMA NoKey ==
    ASSUME NEW c \in Seq(ChainItem), NEW key, \A k \in 1..Len(c) : c[k].key # key
    PROVE  Routes!KeyAt(c, key) = 0
  BY KeyFacts

ValueIn(c, key) == IF Routes!KeyAt(c, key) = 0 THEN 0 ELSE c[Routes!KeyAt(c, key)].val

LEMMA FindFacts ==
    ASSUME ChainTyped, NEW t \in Lengths, NEW key \in Routes!Addresses
    PROVE  /\ chain[t][Routes!HASH(key)] \in Seq(ChainItem)
           /\ Routes!find(t, key) = ValueIn(chain[t][Routes!HASH(key)], key)
           /\ Routes!find(t, key) \in Nat
  <1>1. PICK c : c = chain[t][Routes!HASH(key)]
    OBVIOUS
  <1>2. c \in Seq(ChainItem)
    <2>1. chain[t] \in [BucketIds -> Seq(ChainItem)]
      BY DEF ChainTyped
    <2> QED BY <1>1, <2>1, HashFacts
  <1>3. Routes!find(t, key) = ValueIn(c, key)
    BY <1>1 DEF Routes!find, ValueIn
  <1>4. ValueIn(c, key) \in Nat
    <2>1. CASE Routes!KeyAt(c, key) = 0
      BY <2>1 DEF ValueIn
    <2>2. CASE Routes!KeyAt(c, key) # 0
      <3>1. Routes!KeyAt(c, key) \in 1..Len(c)
        BY <1>2, <2>2, KeyFacts
      <3>2. c[Routes!KeyAt(c, key)] \in ChainItem
        BY <1>2, <3>1, ElementOfSeq
      <3> QED BY <2>2, <3>2 DEF ValueIn, ChainItem
    <2> QED BY <2>1, <2>2
  <1> QED BY <1>1, <1>2, <1>3, <1>4

Kept(c, i) == IF i = 0 THEN c ELSE SubSeq(c, 1, i - 1)

\* What insert() does to a chain: a key gets a value, and keys that come after it are cut off.
Overwrites(d, c, x, after) ==
    /\ d \in Seq(ChainItem) /\ ValueIn(d, x.key) = x.val
    /\ \A key \in Routes!Addresses : key # x.key =>
          \/ ValueIn(d, key) = ValueIn(c, key)
          \/ ValueIn(d, key) = 0 /\ \E j \in after : c[j].key = key

LEMMA InsertedValues ==
    ASSUME NEW c \in Seq(ChainItem), NEW x \in ChainItem, NEW i, i = Routes!KeyAt(c, x.key),
           NEW after, after = IF i = 0 THEN {} ELSE (i + 1)..Len(c),
           NEW b, b = Kept(c, i), NEW d, d = Append(b, x)
    PROVE  Overwrites(d, c, x, after)
  <1> DEFINE n == IF i = 0 THEN Len(c) ELSE i - 1
  <1>1. Len(c) \in Nat /\ i \in Nat
    <2>1. i = 0 \/ i \in 1..Len(c)
      BY KeyFacts
    <2> QED BY <2>1, LenProperties
  <1>2. \/ i = 0 /\ \A k \in 1..Len(c) : c[k].key # x.key
        \/ i \in 1..Len(c) /\ c[i].key = x.key /\ \A k \in 1..Len(c) : k < i => c[k].key # x.key
    BY KeyFacts
  <1>3. n \in Nat /\ n <= Len(c) /\ n + 1 \in 1..(n + 1)
    BY <1>1, <1>2
  <1>4. \A k \in 1..Len(c) : k \in 1..n \/ (k = n + 1 /\ c[k].key = x.key) \/ k \in after
    BY <1>1, <1>2
  <1>5. \A k \in 1..n : k \in 1..Len(c) /\ c[k].key # x.key
    <2>1. CASE i = 0
      BY <1>2, <2>1
    <2>2. CASE i # 0
      <3>1. i \in 1..Len(c) /\ \A k \in 1..Len(c) : k < i => c[k].key # x.key
        BY <1>2, <2>2
      <3>2. \A k \in 1..n : k \in 1..Len(c) /\ k < i
        BY <1>1, <2>2, <3>1
      <3> QED BY <3>1, <3>2
    <2> QED BY <2>1, <2>2
  <1>6. ASSUME NEW k \in after PROVE k \in 1..Len(c) /\ n < k
    <2>1. i # 0 /\ i \in 1..Len(c) /\ k \in (i + 1)..Len(c)
      BY <1>2
    <2> QED BY <1>1, <2>1
  <1>7. b \in Seq(ChainItem) /\ Len(b) = n /\ \A k \in 1..n : b[k] = c[k]
    <2>1. CASE i = 0
      BY <2>1 DEF Kept
    <2>2. CASE i # 0
      <3>1. 1 \in 1..(Len(c) + 1) /\ i - 1 \in 0..Len(c) /\ 1 \in Nat /\ i - 1 \in Nat
        BY <1>1, <1>2, <2>2
      <3> QED BY <1>1, <2>2, <3>1 DEF Kept
    <2> QED BY <2>1, <2>2
  <1> HIDE DEF n
  <1>8. /\ d \in Seq(ChainItem) /\ Len(d) = n + 1 /\ d[n + 1] = x
        /\ \A k \in 1..n : d[k] = c[k]
    <2>1. \A k \in 1..n : k \in 1..Len(b)
      BY <1>7
    <2>2. d \in Seq(ChainItem) /\ Len(d) = Len(b) + 1 /\ d[Len(b) + 1] = x /\ \A k \in 1..Len(b) : d[k] = b[k]
      BY <1>7
    <2> QED BY <1>7, <2>1, <2>2
  <1>9. \A k \in 1..Len(d) : k \in 1..n \/ k = n + 1
    BY <1>3, <1>8
  <1>10. ValueIn(d, x.key) = x.val
    <2>1. n + 1 \in 1..Len(d) /\ d[n + 1].key = x.key /\ \A k \in 1..Len(d) : k < n + 1 => d[k].key # x.key
      BY <1>3, <1>5, <1>8, <1>9
    <2>2. d \in Seq(ChainItem) /\ n + 1 # 0
      BY <1>3, <1>8
    <2>3. Routes!KeyAt(d, x.key) = n + 1
      BY ONLY <2>1, <2>2, KeyKnown, Zenon
    <2> QED BY <1>8, <2>2, <2>3 DEF ValueIn
  <1>11. ASSUME NEW key \in Routes!Addresses, key # x.key
         PROVE  \/ ValueIn(d, key) = ValueIn(c, key)
                \/ ValueIn(d, key) = 0 /\ \E j \in after : c[j].key = key
    <2>1. PICK j : j = Routes!KeyAt(c, key)
      OBVIOUS
    <2>2. \/ j = 0 /\ \A k \in 1..Len(c) : c[k].key # key
          \/ j \in 1..Len(c) /\ c[j].key = key /\ \A k \in 1..Len(c) : k < j => c[k].key # key
      BY <2>1, KeyFacts
    <2>3. ASSUME \A k \in 1..n : c[k].key # key PROVE ValueIn(d, key) = 0
      <3>1. \A k \in 1..Len(d) : d[k].key # key
        BY <1>8, <1>9, <1>11, <2>3
      <3>2. Routes!KeyAt(d, key) = 0
        BY <1>8, <3>1, NoKey
      <3> QED BY <3>2 DEF ValueIn
    <2>4. CASE j = 0
      <3>1. \A k \in 1..n : c[k].key # key
        BY <1>5, <2>2, <2>4
      <3> QED BY <2>1, <2>3, <2>4, <3>1 DEF ValueIn
    <2>5. CASE j \in 1..n
      <3>1. j \in 1..Len(c) /\ c[j].key = key /\ (\A k \in 1..Len(c) : k < j => c[k].key # key) /\ j # 0 /\ j \in Nat
        BY <1>3, <2>2, <2>5
      <3>2. j \in 1..Len(d) /\ d[j] = c[j] /\ \A k \in 1..Len(d) : k < j => d[k].key # key
        BY <1>3, <1>5, <1>8, <1>9, <2>5, <3>1
      <3>3. d \in Seq(ChainItem) /\ d[j].key = key
        BY <1>8, <3>1, <3>2
      <3>4. Routes!KeyAt(d, key) = j
        BY ONLY <3>2, <3>3, KeyKnown, Zenon
      <3> QED BY <2>1, <3>1, <3>2, <3>4 DEF ValueIn
    <2>6. CASE j \in after
      <3>1. j \in 1..Len(c) /\ n < j /\ j # 0
        BY <1>6, <2>6
      <3>2. c[j].key = key /\ \A k \in 1..n : c[k].key # key
        BY <1>3, <1>5, <2>2, <3>1
      <3> QED BY <2>3, <2>6, <3>2
    <2>7. j = 0 \/ j \in 1..n \/ j \in after
      <3> SUFFICES ASSUME j # 0 PROVE j \in 1..n \/ j \in after
        OBVIOUS
      <3>1. j \in 1..Len(c) /\ c[j].key = key
        BY <2>2
      <3> QED BY <1>4, <1>11, <3>1
    <2> QED BY <2>4, <2>5, <2>6, <2>7
  <1> QED BY <1>8, <1>10, <1>11 DEF Overwrites

LEMMA InsertFacts ==
    ASSUME ChainTyped, NEW t \in Lengths, NEW key \in Routes!Addresses, NEW val \in Nat,
           Routes!insert(t, key, val)
    PROVE  /\ ChainTyped' /\ lost \subseteq lost' /\ Routes!find(t, key)' = val
           /\ \A t1 \in Lengths, k1 \in Routes!Addresses : t1 # t \/ k1 # key =>
                 \/ Routes!find(t1, k1)' = Routes!find(t1, k1)
                 \/ Routes!find(t1, k1)' = 0 /\ <<t1, k1>> \in lost'
  <1>1. PICK h \in BucketIds : h = Routes!HASH(key)
    BY HashFacts
  <1>2. PICK c \in Seq(ChainItem) : c = chain[t][h]
    BY <1>1, FindFacts
  <1>3. PICK i : i = Routes!KeyAt(c, key)
    OBVIOUS
  <1>4. PICK x : x = [key |-> key, val |-> val]
    OBVIOUS
  <1>5. x \in ChainItem /\ x.key = key /\ x.val = val
    BY <1>4 DEF ChainItem
  <1>6. PICK b : b = Kept(c, i)
    OBVIOUS
  <1>7. PICK d : d = Append(b, x)
    OBVIOUS
  <1>8. PICK after : after = IF i = 0 THEN {} ELSE (i + 1)..Len(c)
    OBVIOUS
  <1>9. chain' = [chain EXCEPT ![t][h] = d] /\ lost' = lost \cup {<<t, c[j].key>> : j \in after}
    BY <1>1, <1>2, <1>3, <1>4, <1>6, <1>7, <1>8 DEF Routes!insert, Kept
  <1>10. Overwrites(d, c, x, after)
    <2>1. i = Routes!KeyAt(c, x.key)
      BY <1>3, <1>5
    <2> QED BY <1>5, <1>6, <1>7, <1>8, <2>1, InsertedValues
  <1>11. /\ d \in Seq(ChainItem) /\ ValueIn(d, key) = val
         /\ \A k1 \in Routes!Addresses : k1 # key =>
               \/ ValueIn(d, k1) = ValueIn(c, k1)
               \/ ValueIn(d, k1) = 0 /\ \E j \in after : c[j].key = k1
    BY <1>5, <1>10 DEF Overwrites
  <1>12. /\ ChainTyped'
         /\ \A t1 \in Lengths, h1 \in BucketIds :
               chain'[t1][h1] = IF t1 = t /\ h1 = h THEN d ELSE chain[t1][h1]
    BY <1>9, <1>11 DEF ChainTyped
  <1>13. \A t1 \in Lengths, k1 \in Routes!Addresses :
            /\ Routes!find(t1, k1) = ValueIn(chain[t1][Routes!HASH(k1)], k1)
            /\ Routes!HASH(k1) \in BucketIds
    BY FindFacts, HashFacts
  <1>14. \A t1 \in Lengths, k1 \in Routes!Addresses :
            Routes!find(t1, k1)' = ValueIn(chain'[t1][Routes!HASH(k1)], k1)
    BY DEF Routes!find, ValueIn
  <1>15. Routes!find(t, key)' = val
    BY <1>1, <1>11, <1>12, <1>14
  <1>16. ASSUME NEW t1 \in Lengths, NEW k1 \in Routes!Addresses, t1 # t \/ k1 # key
         PROVE  \/ Routes!find(t1, k1)' = Routes!find(t1, k1)
                \/ Routes!find(t1, k1)' = 0 /\ <<t1, k1>> \in lost'
    <2>1. CASE t1 = t /\ Routes!HASH(k1) = h
      <3>1. Routes!find(t1, k1)' = ValueIn(d, k1) /\ Routes!find(t1, k1) = ValueIn(c, k1) /\ k1 # key
        BY <1>2, <1>12, <1>13, <1>14, <1>16, <2>1
      <3>2. (\E j \in after : c[j].key = k1) => <<t1, k1>> \in lost'
        BY <1>9, <2>1
      <3> QED BY <1>11, <3>1, <3>2
    <2>2. CASE ~(t1 = t /\ Routes!HASH(k1) = h)
      BY <1>12, <1>13, <1>14, <2>2
    <2> QED BY <2>1, <2>2
  <1> QED BY <1>9, <1>12, <1>15, <1>16

-----------------------------------------------------------------------------
(* The routing table of LookupIP6Route: the search over the lengths        *)

\* Functions defined by recursion over numbers.
Follows(f, N, S, s0, F) == f \in [0..N -> S] /\ f[0] = s0 /\ \A n \in 1..N : f[n] = F[n][f[n - 1]]

LEMMA StepsExist ==
    ASSUME NEW N \in Nat, NEW S, NEW s0 \in S, NEW F \in [Nat -> [S -> S]]
    PROVE  \E f : Follows(f, N, S, s0, F)
  <1> DEFINE T == {m \in Nat : \E f : Follows(f, m, S, s0, F)}
  <1>1. 0 \in T
    <2>1. Follows([n \in 0..0 |-> s0], 0, S, s0, F)
      BY DEF Follows
    <2> QED BY <2>1
  <1>2. ASSUME NEW m \in T PROVE m + 1 \in T
    <2>0. m \in Nat /\ m + 1 \in Nat
      OBVIOUS
    <2>1. PICK f : Follows(f, m, S, s0, F)
      OBVIOUS
    <2>2. PICK x \in S : x = F[m + 1][f[m]]
      BY <2>0, <2>1 DEF Follows
    <2>3. PICK g : g = [n \in 0..(m + 1) |-> IF n = m + 1 THEN x ELSE f[n]]
      OBVIOUS
    <2>4. \A n \in 0..(m + 1) : n = m + 1 \/ (n \in 0..m /\ n # m + 1)
      BY <2>0
    <2>5. g \in [0..(m + 1) -> S] /\ g[m + 1] = x /\ \A n \in 0..m : g[n] = f[n]
      BY <2>0, <2>1, <2>3, <2>4 DEF Follows
    <2>6. ASSUME NEW n \in 1..(m + 1) PROVE g[n] = F[n][g[n - 1]]
      <3>1. n - 1 \in 0..m /\ (n = m + 1 \/ n \in 1..m)
        BY <2>0
      <3>2. CASE n = m + 1
        BY <2>0, <2>2, <2>5, <3>1, <3>2
      <3>3. CASE n \in 1..m
        <4>1. n \in 0..m
          BY <3>3
        <4> QED BY <2>1, <2>5, <3>1, <3>3, <4>1 DEF Follows
      <3> QED BY <3>1, <3>2, <3>3
    <2>7. g[0] = s0
      BY <2>0, <2>1, <2>5 DEF Follows
    <2>8. Follows(g, m + 1, S, s0, F)
      BY <2>5, <2>6, <2>7 DEF Follows
    <2> QED BY <2>0, <2>8
  <1>3. T = Nat
    <2> HIDE DEF T
    <2>1. T \in SUBSET Nat
      BY DEF T
    <2> QED BY <2>1, <1>1, <1>2, Induction
  <1> QED BY <1>3

SearchStates == [start : 0..Bits, end : -1..(Bits - 1), result : Nat]
Intervals == [start : 0..Bits, end : -1..(Bits - 1)]

LEMMA MiddleFacts ==
    \A s \in 0..Bits, e \in -1..(Bits - 1) :
        s <= e => (s + e) \div 2 \in s..e /\ (s + e) \div 2 \in Lengths
  BY RouteConstants

LEMMA SearchedTyped ==
    ASSUME ChainTyped, NEW s \in SearchStates, NEW ip \in Routes!Addresses
    PROVE  Routes!Searched(s, ip) \in SearchStates
  <1>1. s.start \in 0..Bits /\ s.end \in -1..(Bits - 1) /\ s.result \in Nat /\ Bits \in Nat \ {0}
    BY RouteConstants DEF SearchStates
  <1>2. CASE s.start > s.end
    BY <1>2 DEF Routes!Searched
  <1>3. CASE ~(s.start > s.end)
    <2>1. PICK m : m = (s.start + s.end) \div 2
      OBVIOUS
    <2>2. m \in Lengths /\ m \in Nat /\ m + 1 \in 0..Bits /\ m - 1 \in -1..(Bits - 1)
      <3>1. s.start <= s.end
        BY <1>1, <1>3
      <3>2. m \in Lengths
        BY <1>1, <2>1, <3>1, MiddleFacts
      <3> QED BY <1>1, <3>2, RouteConstants
    <2>3. PICK temp \in Nat : temp = Routes!find(m, Routes!mask(ip, m + 1))
      BY <2>2, MaskFacts, FindFacts
    <2>4. Routes!Searched(s, ip) = IF temp = 0 THEN [s EXCEPT !.end = m - 1]
                                   ELSE [s EXCEPT !.start = m + 1, !.result = temp]
      BY <1>3, <2>1, <2>3 DEF Routes!Searched
    <2> QED BY <2>2, <2>4 DEF SearchStates
  <1> QED BY <1>2, <1>3

LEMMA SearchFacts ==
    ASSUME ChainTyped, NEW ip \in Routes!Addresses
    PROVE  /\ Routes!Search(ip)[0] = [start |-> 0, end |-> Bits - 1, result |-> 0]
           /\ \A n \in 0..Bits : Routes!Search(ip)[n] \in SearchStates
           /\ \A n \in 1..Bits : Routes!Search(ip)[n] = Routes!Searched(Routes!Search(ip)[n - 1], ip)
  <1>1. PICK s0 : s0 = [start |-> 0, end |-> Bits - 1, result |-> 0]
    OBVIOUS
  <1>2. s0 \in SearchStates /\ Bits \in Nat
    BY <1>1, RouteConstants DEF SearchStates
  <1>3. PICK G : G = [s \in SearchStates |-> Routes!Searched(s, ip)]
    OBVIOUS
  <1>4. G \in [SearchStates -> SearchStates] /\ \A s \in SearchStates : G[s] = Routes!Searched(s, ip)
    BY <1>3, SearchedTyped
  <1>5. PICK F \in [Nat -> [SearchStates -> SearchStates]] : \A n \in Nat : F[n] = G
    <2>1. [n \in Nat |-> G] \in [Nat -> [SearchStates -> SearchStates]]
      BY <1>4
    <2> QED BY <2>1
  <1>6. PICK f : Follows(f, Bits, SearchStates, s0, F)
    BY <1>2, StepsExist
  <1>7. f = [n \in 0..Bits |-> IF n = 0 THEN s0 ELSE Routes!Searched(f[n - 1], ip)]
    <2>1. f \in [0..Bits -> SearchStates] /\ f[0] = s0
      BY <1>6 DEF Follows
    <2>2. ASSUME NEW n \in 0..Bits, n # 0 PROVE f[n] = Routes!Searched(f[n - 1], ip)
      <3>1. n \in 1..Bits /\ n \in Nat /\ n - 1 \in 0..Bits
        BY <1>2, <2>2
      <3>2. f[n] = F[n][f[n - 1]] /\ f[n - 1] \in SearchStates
        BY <1>6, <2>1, <3>1 DEF Follows
      <3> QED BY <1>4, <1>5, <3>1, <3>2
    <2> QED BY <2>1, <2>2
  <1>8. PICK g : g = Routes!Search(ip)
    OBVIOUS
  <1>9. g = [n \in 0..Bits |-> IF n = 0 THEN [start |-> 0, end |-> Bits - 1, result |-> 0]
                               ELSE Routes!Searched(g[n - 1], ip)]
    BY <1>1, <1>7, <1>8 DEF Routes!Search
  <1>10. g[0] = s0 /\ \A n \in 1..Bits : g[n] = Routes!Searched(g[n - 1], ip)
    <2>1. 0 \in 0..Bits /\ \A n \in 1..Bits : n \in 0..Bits /\ n # 0
      BY <1>2
    <2> QED BY <1>1, <1>9, <2>1, Zenon
  <1> DEFINE T == {n \in Nat : n <= Bits => g[n] \in SearchStates}
  <1>11. 0 \in T
    BY <1>2, <1>10
  <1>12. ASSUME NEW n \in T PROVE n + 1 \in T
    <2> SUFFICES ASSUME n + 1 <= Bits PROVE g[n + 1] \in SearchStates
      OBVIOUS
    <2>1. n + 1 \in 1..Bits /\ (n + 1) - 1 = n /\ g[n] \in SearchStates
      BY <1>2
    <2> QED BY <1>10, <2>1, SearchedTyped
  <1>13. T = Nat
    <2> HIDE DEF T
    <2>1. T \in SUBSET Nat
      BY DEF T
    <2> QED BY <2>1, <1>11, <1>12, Induction
  <1>14. \A n \in 0..Bits : g[n] \in SearchStates
    BY <1>2, <1>13
  <1> QED BY <1>1, <1>8, <1>10, <1>14

LEMMA NarrowedTyped ==
    ASSUME NEW r \in Intervals, NEW len \in Lengths
    PROVE  Routes!Narrowed(r, len) \in Intervals
  <1>1. PICK m : m = (r.start + r.end) \div 2
    OBVIOUS
  <1>2. /\ r.start \in 0..Bits /\ r.end \in -1..(Bits - 1) /\ Bits \in Nat /\ len \in 0..(Bits - 1)
    BY RouteConstants DEF Intervals
  <1>3. m \in Int /\ -1 <= m
    BY <1>1, <1>2
  <1>4. Routes!Narrowed(r, len) = IF m < len THEN [r EXCEPT !.start = m + 1]
                                  ELSE IF m > len THEN [r EXCEPT !.end = m - 1] ELSE r
    BY <1>1 DEF Routes!Narrowed, Routes!Middle
  <1>5. m < len => m + 1 \in 0..Bits
    BY <1>2, <1>3
  <1>6. m > len => m - 1 \in -1..(Bits - 1)
    BY <1>1, <1>2
  <1> QED BY <1>4, <1>5, <1>6 DEF Intervals

LEMMA AmongFacts ==
    ASSUME NEW len \in Lengths
    PROVE  /\ Routes!Among(len)[0] = [start |-> 0, end |-> Bits - 1]
           /\ \A n \in 0..Bits : Routes!Among(len)[n] \in Intervals
           /\ \A n \in 1..Bits : Routes!Among(len)[n] = Routes!Narrowed(Routes!Among(len)[n - 1], len)
  <1>1. PICK s0 : s0 = [start |-> 0, end |-> Bits - 1]
    OBVIOUS
  <1>2. s0 \in Intervals /\ Bits \in Nat
    BY <1>1, RouteConstants DEF Intervals
  <1>3. PICK G : G = [s \in Intervals |-> Routes!Narrowed(s, len)]
    OBVIOUS
  <1>4. G \in [Intervals -> Intervals] /\ \A s \in Intervals : G[s] = Routes!Narrowed(s, len)
    BY <1>3, NarrowedTyped
  <1>5. PICK F \in [Nat -> [Intervals -> Intervals]] : \A n \in Nat : F[n] = G
    <2>1. [n \in Nat |-> G] \in [Nat -> [Intervals -> Intervals]]
      BY <1>4
    <2> QED BY <2>1
  <1>6. PICK f : Follows(f, Bits, Intervals, s0, F)
    BY <1>2, StepsExist
  <1>7. f = [n \in 0..Bits |-> IF n = 0 THEN s0 ELSE Routes!Narrowed(f[n - 1], len)]
    <2>1. f \in [0..Bits -> Intervals] /\ f[0] = s0
      BY <1>6 DEF Follows
    <2>2. ASSUME NEW n \in 0..Bits, n # 0 PROVE f[n] = Routes!Narrowed(f[n - 1], len)
      <3>1. n \in 1..Bits /\ n \in Nat /\ n - 1 \in 0..Bits
        BY <1>2, <2>2
      <3>2. f[n] = F[n][f[n - 1]] /\ f[n - 1] \in Intervals
        BY <1>6, <2>1, <3>1 DEF Follows
      <3> QED BY <1>4, <1>5, <3>1, <3>2
    <2> QED BY <2>1, <2>2
  <1>8. PICK g : g = Routes!Among(len)
    OBVIOUS
  <1>9. g = [n \in 0..Bits |-> IF n = 0 THEN [start |-> 0, end |-> Bits - 1]
                               ELSE Routes!Narrowed(g[n - 1], len)]
    BY <1>1, <1>7, <1>8 DEF Routes!Among
  <1>10. g[0] = s0 /\ \A n \in 1..Bits : g[n] = Routes!Narrowed(g[n - 1], len)
    <2>1. 0 \in 0..Bits /\ \A n \in 1..Bits : n \in 0..Bits /\ n # 0
      BY <1>2
    <2> QED BY <1>1, <1>9, <2>1, Zenon
  <1> DEFINE T == {n \in Nat : n <= Bits => g[n] \in Intervals}
  <1>11. 0 \in T
    BY <1>2, <1>10
  <1>12. ASSUME NEW n \in T PROVE n + 1 \in T
    <2> SUFFICES ASSUME n + 1 <= Bits PROVE g[n + 1] \in Intervals
      OBVIOUS
    <2>1. n + 1 \in 1..Bits /\ (n + 1) - 1 = n /\ g[n] \in Intervals
      BY <1>2
    <2> QED BY <1>10, <2>1, NarrowedTyped
  <1>13. T = Nat
    <2> HIDE DEF T
    <2>1. T \in SUBSET Nat
      BY DEF T
    <2> QED BY <2>1, <1>11, <1>12, Induction
  <1>14. \A n \in 0..Bits : g[n] \in Intervals
    BY <1>2, <1>13
  <1> QED BY <1>1, <1>8, <1>10, <1>14

\* Where a search that has not ended may still find any of the lengths from s to e.
InTree(s, e, n) ==
    /\ n \in 0..Bits /\ s \in 0..Bits /\ e \in -1..(Bits - 1) /\ e - s < Bits - n
    /\ \A len \in Lengths : s <= len /\ len <= e => Routes!Among(len)[n] = [start |-> s, end |-> e]

\* The turns of the first n steps.
TurnsUpTo(len, n) == {Routes!Middle(Routes!Among(len)[k]) : k \in 0..(n - 1)} \cap 0..(len - 1)

LEMMA TreeRoot == InTree(0, Bits - 1, 0)
  <1>1. Bits \in Nat \ {0} /\ 0 \in 0..Bits /\ Bits - 1 \in -1..(Bits - 1) /\ (Bits - 1) - 0 < Bits - 0
    BY RouteConstants
  <1> QED BY <1>1, AmongFacts DEF InTree

LEMMA TreeStep ==
    ASSUME NEW s, NEW e, NEW n, InTree(s, e, n), s <= e
    PROVE  LET m == (s + e) \div 2
           IN /\ m \in Lengths /\ s <= m /\ m <= e /\ n + 1 \in 0..Bits
              /\ InTree(s, m - 1, n + 1) /\ InTree(m + 1, e, n + 1)
  <1>1. /\ n \in 0..Bits /\ s \in 0..Bits /\ e \in -1..(Bits - 1) /\ e - s < Bits - n
        /\ Bits \in Nat \ {0} /\ Lengths = 0..(Bits - 1)
    BY RouteConstants DEF InTree
  <1>2. PICK m : m = (s + e) \div 2
    OBVIOUS
  <1>3. m \in s..e /\ m \in Lengths
    BY <1>1, <1>2, MiddleFacts
  <1>4. n + 1 \in 0..Bits /\ (n + 1) - 1 = n /\ n + 1 \in 1..Bits
    BY <1>1
  <1>5. /\ m - 1 \in -1..(Bits - 1) /\ m + 1 \in 0..Bits
        /\ (m - 1) - s < Bits - (n + 1) /\ e - (m + 1) < Bits - (n + 1)
    BY <1>1, <1>3
  <1>6. ASSUME NEW len \in Lengths, s <= len, len <= e
        PROVE  Routes!Among(len)[n + 1] = IF m < len THEN [start |-> m + 1, end |-> e]
                                          ELSE IF m > len THEN [start |-> s, end |-> m - 1]
                                          ELSE [start |-> s, end |-> e]
    <2>1. Routes!Among(len)[n] = [start |-> s, end |-> e]
      BY <1>6 DEF InTree
    <2>2. Routes!Among(len)[n + 1] = Routes!Narrowed([start |-> s, end |-> e], len)
      BY <1>4, <2>1, AmongFacts
    <2> QED BY <1>2, <2>2 DEF Routes!Narrowed, Routes!Middle
  <1>7. InTree(s, m - 1, n + 1)
    <2>1. ASSUME NEW len \in Lengths, s <= len, len <= m - 1
          PROVE  Routes!Among(len)[n + 1] = [start |-> s, end |-> m - 1]
      <3>1. len <= e /\ ~(m < len) /\ m > len
        BY <1>1, <1>3, <2>1
      <3> QED BY <1>6, <2>1, <3>1
    <2> QED BY <1>1, <1>4, <1>5, <2>1 DEF InTree
  <1>8. InTree(m + 1, e, n + 1)
    <2>1. ASSUME NEW len \in Lengths, m + 1 <= len, len <= e
          PROVE  Routes!Among(len)[n + 1] = [start |-> m + 1, end |-> e]
      <3>1. s <= len /\ m < len
        BY <1>1, <1>3, <2>1
      <3> QED BY <1>6, <2>1, <3>1
    <2> QED BY <1>1, <1>4, <1>5, <2>1 DEF InTree
  <1> QED BY <1>1, <1>2, <1>3, <1>4, <1>7, <1>8

\* Once it is at the length, it stays there.
LEMMA TreeLeaf ==
    ASSUME NEW len \in Lengths, NEW n \in 0..Bits, Routes!Middle(Routes!Among(len)[n]) = len
    PROVE  \A k \in 0..Bits : n <= k => Routes!Middle(Routes!Among(len)[k]) = len
  <1> DEFINE g == Routes!Among(len)
             T == {k \in Nat : n <= k /\ k <= Bits => g[k] = g[n]}
  <1>0. Bits \in Nat /\ n \in Nat
    BY RouteConstants
  <1>1. 0 \in T
    BY <1>0
  <1>2. ASSUME NEW k \in T PROVE k + 1 \in T
    <2> SUFFICES ASSUME n <= k + 1, k + 1 <= Bits PROVE g[k + 1] = g[n]
      OBVIOUS
    <2>1. k \in Nat /\ (n <= k /\ k <= Bits => g[k] = g[n])
      OBVIOUS
    <2>2. CASE n = k + 1
      BY <2>2
    <2>3. CASE n # k + 1
      <3>1. g[k] = g[n] /\ k + 1 \in 1..Bits /\ (k + 1) - 1 = k
        BY <1>0, <2>1, <2>3
      <3>2. g[k + 1] = Routes!Narrowed(g[n], len)
        BY <3>1, AmongFacts
      <3>3. len \in Int
        BY RouteConstants
      <3> QED BY <3>2, <3>3 DEF Routes!Narrowed
    <2> QED BY <2>2, <2>3
  <1>3. T = Nat
    <2> HIDE DEF T
    <2>1. T \in SUBSET Nat
      BY DEF T
    <2> QED BY <2>1, <1>1, <1>2, Induction
  <1>4. ASSUME NEW k \in 0..Bits, n <= k PROVE g[k] = g[n]
    <2>1. k \in T /\ k <= Bits
      BY <1>0, <1>3
    <2> QED BY <1>4, <2>1
  <1> QED BY <1>4

LEMMA TurnFacts ==
    ASSUME NEW len \in Lengths
    PROVE  /\ TurnsUpTo(len, 0) = {}
           /\ \A n \in 0..Bits : TurnsUpTo(len, n) \subseteq Routes!Turns(len)
           /\ \A m \in Routes!Turns(len) : m \in Lengths /\ m < len
           /\ \A s, e, n : InTree(s, e, n) /\ s <= len /\ len <= e =>
                LET m == (s + e) \div 2
                IN /\ m < len => /\ m \in Routes!Turns(len)
                                 /\ TurnsUpTo(len, n + 1) = TurnsUpTo(len, n) \cup {m}
                   /\ m > len => TurnsUpTo(len, n + 1) = TurnsUpTo(len, n)
                   /\ m = len => TurnsUpTo(len, n) = Routes!Turns(len)
  <1> DEFINE g == Routes!Among(len)
  <1>0. Bits \in Nat /\ len \in 0..(Bits - 1) /\ Lengths = 0..(Bits - 1)
    BY RouteConstants
  <1>1. TurnsUpTo(len, 0) = {}
    BY DEF TurnsUpTo
  <1>2. ASSUME NEW n \in 0..Bits PROVE TurnsUpTo(len, n) \subseteq Routes!Turns(len)
    <2>1. 0..(n - 1) \subseteq 0..Bits
      BY <1>0
    <2> QED BY <2>1 DEF TurnsUpTo, Routes!Turns
  <1>3. \A m \in Routes!Turns(len) : m \in Lengths /\ m < len
    BY <1>0 DEF Routes!Turns
  <1>4. ASSUME NEW s, NEW e, NEW n, InTree(s, e, n), s <= len, len <= e,
               NEW m, m = (s + e) \div 2
        PROVE  /\ m < len => /\ m \in Routes!Turns(len)
                             /\ TurnsUpTo(len, n + 1) = TurnsUpTo(len, n) \cup {m}
               /\ m > len => TurnsUpTo(len, n + 1) = TurnsUpTo(len, n)
               /\ m = len => TurnsUpTo(len, n) = Routes!Turns(len)
    <2>1. n \in 0..Bits /\ g[n] = [start |-> s, end |-> e] /\ Routes!Middle(g[n]) = m
      BY <1>4 DEF InTree, Routes!Middle
    <2>2. s <= e /\ m \in Lengths
      <3>1. s \in 0..Bits /\ e \in -1..(Bits - 1) /\ s <= e
        BY <1>0, <1>4 DEF InTree
      <3> QED BY <1>4, <3>1, MiddleFacts
    <2>3. (n + 1) - 1 = n /\ \A k : k \in 0..n <=> k \in 0..(n - 1) \/ k = n
      BY <1>0, <2>1
    <2>4. \A x : x \in TurnsUpTo(len, n + 1) <=>
                    x \in TurnsUpTo(len, n) \/ (x = m /\ m \in 0..(len - 1))
      BY <2>1, <2>3 DEF TurnsUpTo
    <2>5. ASSUME m < len
          PROVE  m \in Routes!Turns(len) /\ TurnsUpTo(len, n + 1) = TurnsUpTo(len, n) \cup {m}
      <3>1. m \in 0..(len - 1)
        BY <1>0, <2>2, <2>5
      <3>2. m \in Routes!Turns(len)
        BY <2>1, <3>1 DEF Routes!Turns
      <3> QED BY <2>4, <3>1, <3>2
    <2>6. ASSUME m > len PROVE TurnsUpTo(len, n + 1) = TurnsUpTo(len, n)
      <3>1. m \notin 0..(len - 1)
        BY <1>0, <2>2, <2>6
      <3> QED BY <2>4, <3>1
    <2>7. ASSUME m = len PROVE TurnsUpTo(len, n) = Routes!Turns(len)
      <3>1. \A k \in 0..Bits : n <= k => Routes!Middle(g[k]) = len
        BY <2>1, <2>7, TreeLeaf
      <3>2. len \notin 0..(len - 1) /\ \A k \in 0..Bits : n <= k \/ k \in 0..(n - 1)
        BY <1>0, <2>1
      <3>3. Routes!Turns(len) \subseteq TurnsUpTo(len, n)
        BY <3>1, <3>2 DEF TurnsUpTo, Routes!Turns
      <3> QED BY <1>2, <2>1, <3>3
    <2> QED BY <2>5, <2>6, <2>7
  <1> QED BY <1>1, <1>2, <1>3, <1>4

-----------------------------------------------------------------------------
(* The routing table of LookupIP6Route: routes that markers lead to        *)

RibTyped == DOMAIN dests \subseteq Routes!RoutePrefixes /\ \A p \in DOMAIN dests : dests[p] \in Nat \ {0}

LEMMA LongestFacts ==
    ASSUME RibTyped, NEW S \in SUBSET DOMAIN dests, S # {}
    PROVE  /\ Routes!Longest(S) \in S /\ \A q \in S : q.len <= Routes!Longest(S).len
           /\ Routes!Dest(S) = dests[Routes!Longest(S)] /\ Routes!Dest(S) \in Nat \ {0}
  <1> DEFINE I == {Bits - p.len : p \in S}
  <1>1. \A p \in S : p.len \in Nat /\ Bits - p.len \in Nat
    BY RouteFacts, RouteConstants DEF RibTyped
  <1>2. I \subseteq Nat /\ I # {}
    BY <1>1
  <1>3. PICK n \in I : \A m \in I : <<m, n>> \notin Less
    <2> HIDE DEF I
    <2> QED BY <1>2, LessWellFounded, WFMin
  <1>4. PICK p \in S : n = Bits - p.len
    BY <1>3
  <1>5. ASSUME NEW q \in S PROVE q.len <= p.len
    <2>1. PICK m : m = Bits - q.len
      OBVIOUS
    <2>2. m \in I /\ m \in Nat /\ n \in Nat
      BY <1>2, <2>1
    <2>3. ~(m < n)
      BY <1>3, <2>2 DEF Less
    <2> QED BY <1>1, <1>4, <2>1, <2>3, RouteConstants
  <1>6. Routes!Longest(S) \in S /\ \A q \in S : q.len <= Routes!Longest(S).len
    BY <1>4, <1>5 DEF Routes!Longest
  <1> QED BY <1>6 DEF Routes!Dest, RibTyped

\* The longest route of an address.
LEMMA MatchFacts ==
    ASSUME RibTyped, NEW ip \in Routes!Addresses
    PROVE  /\ \A q \in Routes!Matching(ip) :
                 /\ q \in DOMAIN dests /\ q \in Routes!RoutePrefixes /\ Routes!Covers(q, ip)
                 /\ q.len \in 1..Bits /\ q.len \in Nat /\ q.len - 1 \in Lengths
                 /\ q.len <= Routes!MatchLen(ip)
           /\ Routes!MatchLen(ip) \in 0..Bits /\ Routes!MatchLen(ip) \in Nat
           /\ Routes!Matching(ip) = {} => Routes!MatchLen(ip) = 0 /\ Routes!Dest(Routes!Matching(ip)) = 0
           /\ Routes!Matching(ip) # {} =>
                \E p \in Routes!Matching(ip) :
                   /\ p = Routes!Longest(Routes!Matching(ip)) /\ p.len = Routes!MatchLen(ip)
                   /\ Routes!Dest(Routes!Matching(ip)) = dests[p] /\ dests[p] \in Nat \ {0}
  <1>0. Bits \in Nat
    BY RouteConstants
  <1>1. \A q \in Routes!Matching(ip) :
            /\ q \in DOMAIN dests /\ q \in Routes!RoutePrefixes /\ Routes!Covers(q, ip)
            /\ q.len \in 1..Bits /\ q.len \in Nat /\ q.len - 1 \in Lengths
    BY RouteFacts DEF Routes!Matching, RibTyped
  <1>2. CASE Routes!Matching(ip) = {}
    BY <1>0, <1>2 DEF Routes!MatchLen, Routes!Dest
  <1>3. CASE Routes!Matching(ip) # {}
    <2>1. Routes!Matching(ip) \in SUBSET DOMAIN dests
      BY <1>1
    <2>2. PICK p : p = Routes!Longest(Routes!Matching(ip))
      OBVIOUS
    <2>3. /\ p \in Routes!Matching(ip) /\ \A q \in Routes!Matching(ip) : q.len <= p.len
          /\ Routes!Dest(Routes!Matching(ip)) = dests[p] /\ dests[p] \in Nat \ {0}
      BY <1>3, <2>1, <2>2, LongestFacts
    <2>4. Routes!MatchLen(ip) = p.len
      BY <1>3, <2>2 DEF Routes!MatchLen
    <2> QED BY <1>0, <1>1, <1>3, <2>2, <2>3, <2>4
  <1> QED BY <1>2, <1>3

\* A route is guided if guided routes lead to it, where its markers stand.
LEMMA GuidedFacts ==
    ASSUME RibTyped
    PROVE  /\ Routes!Guided \subseteq DOMAIN dests
           /\ \A p \in DOMAIN dests : p \in Routes!Guided <=> Routes!LedTo(p, Routes!Guided)
  <1>0. Bits \in Nat \ {0} /\ \A p \in DOMAIN dests : p.len \in Nat /\ p.len \in 1..Bits /\ p.len - 1 \in Lengths
    BY RouteConstants, RouteFacts DEF RibTyped
  <1>1. PICK D : D = DOMAIN dests
    OBVIOUS
  <1>2. PICK F : F = [n \in Nat |-> [U \in SUBSET D |->
                         U \cup {p \in D : p.len = n /\ Routes!LedTo(p, U)}]]
    OBVIOUS
  <1>3. F \in [Nat -> [SUBSET D -> SUBSET D]]
    <2>1. \A n \in Nat : \A U \in SUBSET D : U \cup {p \in D : p.len = n /\ Routes!LedTo(p, U)} \in SUBSET D
      OBVIOUS
    <2> QED BY <1>2, <2>1
  <1>4. PICK f : Follows(f, Bits, SUBSET D, {}, F)
    BY <1>0, <1>3, StepsExist
  <1>5. f = [n \in 0..Bits |-> IF n = 0 THEN {}
                 ELSE f[n - 1] \cup {p \in DOMAIN dests : p.len = n /\ Routes!LedTo(p, f[n - 1])}]
    <2>1. f \in [0..Bits -> SUBSET D] /\ f[0] = {}
      BY <1>4 DEF Follows
    <2>2. ASSUME NEW n \in 0..Bits, n # 0
          PROVE  f[n] = f[n - 1] \cup {p \in DOMAIN dests : p.len = n /\ Routes!LedTo(p, f[n - 1])}
      <3>1. n \in 1..Bits /\ n \in Nat /\ n - 1 \in 0..Bits
        BY <1>0, <2>2
      <3>2. f[n] = F[n][f[n - 1]] /\ f[n - 1] \in SUBSET D
        BY <1>4, <2>1, <3>1 DEF Follows
      <3> QED BY <1>1, <1>2, <3>1, <3>2
    <2> QED BY <2>1, <2>2
  <1>6. PICK g : g = Routes!UpTo
    OBVIOUS
  <1>7. g = [n \in 0..Bits |-> IF n = 0 THEN {}
                 ELSE g[n - 1] \cup {p \in DOMAIN dests : p.len = n /\ Routes!LedTo(p, g[n - 1])}]
    BY <1>5, <1>6 DEF Routes!UpTo
  <1>8. g[0] = {} /\ \A n \in 1..Bits : \A p : p \in g[n] <=>
              p \in g[n - 1] \/ (p \in D /\ p.len = n /\ Routes!LedTo(p, g[n - 1]))
    <2>1. 0 \in 0..Bits /\ \A n \in 1..Bits : n \in 0..Bits /\ n # 0
      BY <1>0
    <2>2. g[0] = {} /\ \A n \in 1..Bits :
              g[n] = g[n - 1] \cup {p \in D : p.len = n /\ Routes!LedTo(p, g[n - 1])}
      BY <1>1, <1>7, <2>1, Zenon
    <2> QED BY <2>2, Zenon
  <1> DEFINE T == {n \in Nat : n <= Bits =>
                      /\ \A p \in g[n] : p \in D /\ p.len <= n
                      /\ \A k \in 0..n : \A p : p \in g[k] <=> p \in g[n] /\ p.len <= k}
  <1>9. 0 \in T
    BY <1>0, <1>8
  <1>10. ASSUME NEW n \in T PROVE n + 1 \in T
    <2> SUFFICES ASSUME n + 1 <= Bits
                 PROVE  /\ \A p \in g[n + 1] : p \in D /\ p.len <= n + 1
                        /\ \A k \in 0..(n + 1) : \A p : p \in g[k] <=> p \in g[n + 1] /\ p.len <= k
      OBVIOUS
    <2>1. n \in Nat /\ n + 1 \in 1..Bits /\ (n + 1) - 1 = n /\ n <= Bits
      BY <1>0
    <2>2. /\ \A p \in g[n] : p \in D /\ p.len <= n
          /\ \A k \in 0..n : \A p : p \in g[k] <=> p \in g[n] /\ p.len <= k
      BY <2>1
    <2>3. \A p : p \in g[n + 1] <=>
              p \in g[n] \/ (p \in D /\ p.len = n + 1 /\ Routes!LedTo(p, g[n]))
      BY <1>8, <2>1
    <2> HIDE DEF T
    <2>4. \A p \in g[n + 1] : p \in D /\ p.len <= n + 1
      BY <1>0, <1>1, <2>1, <2>2, <2>3
    <2>5. ASSUME NEW k \in 0..(n + 1), NEW p PROVE p \in g[k] <=> p \in g[n + 1] /\ p.len <= k
      <3>1. CASE k = n + 1
        BY <2>4, <3>1
      <3>2. CASE k # n + 1
        <4>1. k \in 0..n /\ ~(n + 1 <= k)
          BY <2>1, <3>2
        <4> QED BY <2>2, <2>3, <4>1
      <3> QED BY <3>1, <3>2
    <2> QED BY <2>4, <2>5
  <1>11. T = Nat
    <2> HIDE DEF T
    <2>1. T \in SUBSET Nat
      BY DEF T
    <2> QED BY <2>1, <1>9, <1>10, Induction
  <1>12. \A n \in 0..Bits : \A p : p \in g[n] <=> p \in g[Bits] /\ p.len <= n
    <2>1. Bits \in T
      BY <1>0, <1>11
    <2> QED BY <1>0, <2>1
  <1>13. \A p \in g[Bits] : p \in D
    <2>1. Bits \in T
      BY <1>0, <1>11
    <2> QED BY <1>0, <2>1
  <1>14. ASSUME NEW p \in DOMAIN dests PROVE p \in g[Bits] <=> Routes!LedTo(p, g[Bits])
    <2>1. PICK n \in 1..Bits : n = p.len
      BY <1>0
    <2>2. n \in 0..Bits /\ n - 1 \in 0..Bits /\ n \in Nat /\ n - 1 \in Lengths
      BY <1>0, <2>1
    <2>3. p \in g[Bits] <=> p \in g[n]
      BY <1>12, <2>1, <2>2
    <2>4. p \notin g[n - 1]
      BY <1>12, <2>1, <2>2
    <2>5. p \in g[n] <=> Routes!LedTo(p, g[n - 1])
      BY <1>1, <1>8, <2>1, <2>4
    <2>6. ASSUME NEW m \in Routes!Turns(p.len - 1), NEW q
          PROVE  q \in g[n - 1] /\ q.len <= m + 1 <=> q \in g[Bits] /\ q.len <= m + 1
      <3>1. m \in Lengths /\ m < n - 1
        BY <2>1, <2>2, TurnFacts
      <3>2. m \in Nat /\ m + 1 <= n - 1
        BY <2>2, <3>1, RouteConstants
      <3>3. q \in g[Bits] => q.len \in Nat
        BY <1>0, <1>1, <1>13
      <3>4. q \in g[Bits] /\ q.len <= m + 1 => q.len <= n - 1
        BY <2>2, <3>2, <3>3
      <3> QED BY <1>12, <2>2, <3>4
    <2>7. Routes!LedTo(p, g[n - 1]) <=> Routes!LedTo(p, g[Bits])
      BY <2>6 DEF Routes!LedTo
    <2> QED BY <2>3, <2>5, <2>7
  <1> QED BY <1>1, <1>6, <1>13, <1>14 DEF Routes!Guided

-----------------------------------------------------------------------------
(* The routing table of LookupIP6Route: what a lookup finds                *)

At(ip, t) == Routes!find(t, Routes!mask(ip, t + 1))

\* Where a search for the length of a table is, which gives one of some results.
Finding(s, n, len, results) ==
    \/ s.start <= len /\ len <= s.end /\ InTree(s.start, s.end, n)
    \/ len < s.start /\ s.result \in results

\* A search that is led to a table, and further only by the same results, gives one of them.
LEMMA FindingStep ==
    ASSUME ChainTyped, NEW ip \in Routes!Addresses, NEW len \in -1..(Bits - 1), NEW results,
           \A t \in Lengths : t > len => At(ip, t) = 0 \/ At(ip, t) \in results,
           len \in Lengths => /\ At(ip, len) # 0 /\ At(ip, len) \in results
                              /\ \A m \in Routes!Turns(len) : At(ip, m) # 0,
           NEW s \in SearchStates, NEW n \in Nat, Finding(s, n, len, results)
    PROVE  Finding(Routes!Searched(s, ip), n + 1, len, results)
  <1>0. /\ s.start \in 0..Bits /\ s.end \in -1..(Bits - 1) /\ Bits \in Nat \ {0} /\ Lengths = 0..(Bits - 1)
        /\ len \in Int
    BY RouteConstants DEF SearchStates
  <1>1. CASE s.start > s.end
    <2>1. Routes!Searched(s, ip) = s
      BY <1>1 DEF Routes!Searched
    <2>2. len < s.start /\ s.result \in results
      BY <1>0, <1>1 DEF Finding
    <2> QED BY <2>1, <2>2 DEF Finding
  <1>2. CASE s.start <= s.end
    <2>1. PICK m : m = (s.start + s.end) \div 2
      OBVIOUS
    <2>2. m \in Lengths /\ m \in s.start..s.end
      BY <1>0, <1>2, <2>1, MiddleFacts
    <2>3. PICK r : r = Routes!Searched(s, ip)
      OBVIOUS
    <2>4. ~(s.start > s.end)
      BY <1>0, <1>2
    <2>5. r = IF At(ip, m) = 0 THEN [s EXCEPT !.end = m - 1]
              ELSE [s EXCEPT !.start = m + 1, !.result = At(ip, m)]
      BY <2>1, <2>3, <2>4 DEF Routes!Searched, At
    <2>6. At(ip, m) = 0 => r.start = s.start /\ r.end = m - 1 /\ r.result = s.result
      BY <2>5 DEF SearchStates
    <2>7. At(ip, m) # 0 => r.start = m + 1 /\ r.end = s.end /\ r.result = At(ip, m)
      BY <2>5 DEF SearchStates
    <2>8. CASE s.start <= len /\ len <= s.end /\ InTree(s.start, s.end, n)
      <3>1. len \in Lengths
        BY <1>0, <2>8
      <3>2. InTree(s.start, m - 1, n + 1) /\ InTree(m + 1, s.end, n + 1)
        BY <1>2, <2>1, <2>8, TreeStep
      <3>3. CASE m < len
        <4>1. m \in Routes!Turns(len)
          BY <2>1, <2>8, <3>1, <3>3, TurnFacts
        <4>2. r.start = m + 1 /\ r.end = s.end
          BY <2>7, <3>1, <4>1
        <4>3. m + 1 <= len
          BY <1>0, <2>2, <3>3
        <4> QED BY <2>3, <2>8, <3>2, <4>2, <4>3 DEF Finding
      <3>4. CASE m = len
        <4>1. r.start = m + 1 /\ r.result \in results
          BY <2>7, <3>1, <3>4
        <4>2. len < m + 1
          BY <1>0, <3>4
        <4> QED BY <2>3, <4>1, <4>2 DEF Finding
      <3>5. CASE m > len
        <4>1. CASE At(ip, m) = 0
          <5>1. len <= m - 1
            BY <1>0, <2>2, <3>5
          <5> QED BY <2>3, <2>6, <2>8, <3>2, <4>1, <5>1 DEF Finding
        <4>2. CASE At(ip, m) # 0
          <5>1. At(ip, m) \in results /\ len < m + 1
            BY <1>0, <2>2, <3>5, <4>2
          <5> QED BY <2>3, <2>7, <4>2, <5>1 DEF Finding
        <4> QED BY <4>1, <4>2
      <3> QED BY <1>0, <2>2, <3>3, <3>4, <3>5
    <2>9. CASE len < s.start /\ s.result \in results
      <3>1. m > len /\ len < m + 1
        BY <1>0, <2>2, <2>9
      <3>2. At(ip, m) = 0 \/ At(ip, m) \in results
        BY <2>2, <3>1
      <3> QED BY <2>3, <2>6, <2>7, <2>9, <3>1, <3>2 DEF Finding
    <2> QED BY <2>8, <2>9 DEF Finding
  <1> QED BY <1>0, <1>1, <1>2

LEMMA LookupFinds ==
    ASSUME ChainTyped, NEW ip \in Routes!Addresses, NEW len \in -1..(Bits - 1), NEW results,
           \A t \in Lengths : t > len => At(ip, t) = 0 \/ At(ip, t) \in results,
           len \in Lengths => /\ At(ip, len) # 0 /\ At(ip, len) \in results
                              /\ \A m \in Routes!Turns(len) : At(ip, m) # 0,
           len = -1 => 0 \in results
    PROVE  Routes!lookup(ip) \in results
  <1>0. Bits \in Nat \ {0} /\ Bits \in 0..Bits /\ Lengths = 0..(Bits - 1) /\ len \in Int
    BY RouteConstants
  <1>1. PICK g : g = Routes!Search(ip)
    OBVIOUS
  <1>2. /\ g[0] = [start |-> 0, end |-> Bits - 1, result |-> 0]
        /\ \A n \in 0..Bits : g[n] \in SearchStates
        /\ \A n \in 1..Bits : g[n] = Routes!Searched(g[n - 1], ip)
    BY <1>1, SearchFacts
  <1>3. Finding(g[0], 0, len, results)
    <2>1. g[0].start = 0 /\ g[0].end = Bits - 1 /\ g[0].result = 0
      BY <1>2
    <2>2. CASE len = -1
      BY <2>1, <2>2 DEF Finding
    <2>3. CASE len # -1
      <3>1. 0 <= len /\ len <= Bits - 1
        BY <1>0, <2>3
      <3> QED BY <2>1, <3>1, TreeRoot DEF Finding
    <2> QED BY <2>2, <2>3
  <1> DEFINE T == {n \in Nat : n <= Bits => Finding(g[n], n, len, results)}
  <1>4. 0 \in T
    BY <1>3
  <1>5. ASSUME NEW n \in T PROVE n + 1 \in T
    <2> SUFFICES ASSUME n + 1 <= Bits PROVE Finding(g[n + 1], n + 1, len, results)
      OBVIOUS
    <2>1. n \in Nat /\ n \in 0..Bits /\ n + 1 \in 1..Bits /\ (n + 1) - 1 = n /\ Finding(g[n], n, len, results)
      BY <1>0
    <2>2. g[n] \in SearchStates /\ g[n + 1] = Routes!Searched(g[n], ip)
      BY <1>2, <2>1
    <2>3. Finding(Routes!Searched(g[n], ip), n + 1, len, results)
      BY <2>1, <2>2, FindingStep
    <2> QED BY <2>2, <2>3
  <1>6. T = Nat
    <2> HIDE DEF T
    <2>1. T \in SUBSET Nat
      BY DEF T
    <2> QED BY <2>1, <1>4, <1>5, Induction
  <1>7. Finding(g[Bits], Bits, len, results) /\ g[Bits] \in SearchStates
    <2>1. Bits \in T
      BY <1>0, <1>6
    <2> QED BY <1>0, <1>2, <2>1
  <1>8. PICK s \in SearchStates : s = g[Bits]
    BY <1>7
  <1>9. ~(s.start <= len /\ len <= s.end /\ InTree(s.start, s.end, Bits))
    <2>1. s.start \in 0..Bits /\ s.end \in -1..(Bits - 1)
      BY DEF SearchStates
    <2>2. InTree(s.start, s.end, Bits) => s.end - s.start < 0
      BY <1>0 DEF InTree
    <2> QED BY <1>0, <2>1, <2>2
  <1>10. s.result \in results
    BY <1>7, <1>8, <1>9 DEF Finding
  <1> QED BY <1>1, <1>8, <1>10 DEF Routes!lookup

-----------------------------------------------------------------------------
(* The routing table of LookupIP6Route: what the tables hold               *)

Own(t, key) ==
    IF [len |-> t + 1, addr |-> key] \in DOMAIN dests THEN dests[[len |-> t + 1, addr |-> key]] ELSE 0

\* Before there are markers, the tables hold the routes, but for those cut off.
HoldsRoutes ==
    \A t \in Lengths, key \in Routes!Addresses :
        \/ Routes!find(t, key) = Own(t, key)
        \/ Routes!find(t, key) = 0 /\ <<t, key>> \in lost

\* Where there is a marker or a route, and a guided route that is not longer, a lookup turns
\* to longer prefixes, unless something on its way there was cut off.
Led(marks) ==
    \A ip \in Routes!Addresses, t \in Lengths :
        /\ Routes!IntactTo(ip, t + 1)
        /\ \/ <<t, Routes!mask(ip, t + 1)>> \in marks
           \/ \E p \in Routes!Matching(ip) : p.len = t + 1
        /\ \E q \in Routes!Guided : q.len <= t + 1 /\ Routes!Covers(q, ip)
        => At(ip, t) # 0

\* The tables from the longest route of a sound address on have no other destination for it.
Right ==
    \A ip \in Routes!Addresses, t \in Lengths : Routes!Sound(ip) =>
        /\ t + 1 > Routes!MatchLen(ip) => At(ip, t) \in {0, Routes!Dest(Routes!Matching(ip))}
        /\ t + 1 = Routes!MatchLen(ip) => At(ip, t) = Routes!Dest(Routes!Matching(ip))

\* A guided route is found by the addresses that it covers, once all of its markers are there.
LEMMA GuidedLed ==
    ASSUME RibTyped, NEW marks, Led(marks), NEW ip \in Routes!Addresses,
           NEW p \in Routes!Guided, Routes!Covers(p, ip), Routes!IntactTo(ip, p.len),
           \A t \in Routes!Turns(p.len - 1) : <<t, Routes!mask(ip, t + 1)>> \in marks
    PROVE  /\ p.len - 1 \in Lengths /\ At(ip, p.len - 1) # 0
           /\ \A t \in Routes!Turns(p.len - 1) : At(ip, t) # 0
  <1>1. /\ p \in DOMAIN dests /\ p \in Routes!RoutePrefixes /\ p \in Routes!Matching(ip)
        /\ p.len \in 1..Bits /\ p.len \in Nat /\ p.len - 1 \in Lengths
    BY GuidedFacts, RouteFacts DEF Routes!Matching, RibTyped
  <1>2. At(ip, p.len - 1) # 0
    <2>1. PICK t \in Lengths : t = p.len - 1 /\ t + 1 = p.len
      BY <1>1
    <2>2. Routes!IntactTo(ip, t + 1) /\ p.len <= t + 1
      BY <1>1, <2>1
    <2> QED BY <1>1, <2>1, <2>2 DEF Led
  <1>3. ASSUME NEW t \in Routes!Turns(p.len - 1) PROVE At(ip, t) # 0
    <2>1. t \in Lengths /\ t < p.len - 1
      BY <1>1, TurnFacts
    <2>2. t \in Nat /\ t + 1 <= p.len
      BY <1>1, <2>1, RouteConstants
    <2>3. Routes!IntactTo(ip, t + 1)
      <3>1. 0..((t + 1) - 1) \subseteq 0..(p.len - 1)
        BY <1>1, <2>2
      <3> QED BY <3>1 DEF Routes!IntactTo
    <2>4. PICK q \in Routes!Guided : q.len <= t + 1 /\ Routes!Covers(q, p.addr)
      BY <1>1, GuidedFacts DEF Routes!LedTo
    <2>5. Routes!Covers(q, ip)
      <3>1. q \in Routes!RoutePrefixes /\ q.len \in Nat
        BY GuidedFacts, RouteFacts DEF RibTyped
      <3>2. q.len <= p.len
        BY <1>1, <2>2, <2>4, <3>1
      <3> QED BY <1>1, <2>4, <3>1, <3>2, RouteCovers
    <2> QED BY <2>1, <2>3, <2>4, <2>5 DEF Led
  <1> QED BY <1>1, <1>2, <1>3

\* The lookup of a sound address.
LEMMA SoundLookup ==
    ASSUME RibTyped, ChainTyped, NEW marks, Led(marks), Right, NEW ip \in Routes!Addresses, Routes!Sound(ip),
           \A p \in Routes!Matching(ip) : p.len = Routes!MatchLen(ip) =>
              \A t \in Routes!Turns(p.len - 1) : <<t, Routes!mask(ip, t + 1)>> \in marks
    PROVE  Routes!lookup(ip) = Routes!Dest(Routes!Matching(ip))
  <1>0. Bits \in Nat \ {0} /\ Lengths = 0..(Bits - 1)
    BY RouteConstants
  <1>1. PICK d : d = Routes!Dest(Routes!Matching(ip))
    OBVIOUS
  <1>2. PICK ml \in Nat : ml = Routes!MatchLen(ip) /\ ml \in 0..Bits
    BY MatchFacts
  <1>3. \A t \in Lengths : /\ t + 1 > ml => At(ip, t) = 0 \/ At(ip, t) \in {d}
                           /\ t + 1 = ml => At(ip, t) = d
    BY <1>1, <1>2 DEF Right
  <1>4. PICK len \in -1..(Bits - 1) : len = ml - 1 /\ len + 1 = ml
    BY <1>0, <1>2
  <1>5. \A t \in Lengths : t > len => At(ip, t) = 0 \/ At(ip, t) \in {d}
    <2>1. \A t \in Lengths : t > len => t + 1 > ml
      BY <1>0, <1>4
    <2> QED BY <1>3, <2>1
  <1>6. CASE Routes!Matching(ip) = {}
    <2>1. ml = 0 /\ d = 0
      BY <1>1, <1>2, <1>6, MatchFacts
    <2>2. len \notin Lengths
      BY <1>0, <1>4, <2>1
    <2>3. Routes!lookup(ip) \in {d}
      BY <1>5, <2>1, <2>2, LookupFinds
    <2> QED BY <1>1, <2>3
  <1>7. CASE Routes!Matching(ip) # {}
    <2>1. PICK p \in Routes!Matching(ip) :
              /\ p = Routes!Longest(Routes!Matching(ip)) /\ p.len = ml /\ d = dests[p] /\ dests[p] \in Nat \ {0}
      BY <1>1, <1>2, <1>7, MatchFacts
    <2>2. p \in Routes!Guided /\ Routes!Covers(p, ip) /\ Routes!IntactTo(ip, p.len)
      BY <1>2, <1>7, <2>1, MatchFacts DEF Routes!Sound
    <2>3. \A t \in Routes!Turns(p.len - 1) : <<t, Routes!mask(ip, t + 1)>> \in marks
      BY <1>2, <2>1
    <2>4. len = p.len - 1
      BY <1>4, <2>1
    <2>5. len \in Lengths /\ \A t \in Routes!Turns(len) : At(ip, t) # 0
      BY <2>2, <2>3, <2>4, GuidedLed
    <2>6. At(ip, len) = d /\ d # 0
      BY <1>3, <1>4, <2>1, <2>5
    <2>7. len # -1
      BY <1>0, <2>5
    <2>8. Routes!lookup(ip) \in {d}
      BY <1>5, <2>5, <2>6, <2>7, LookupFinds
    <2> QED BY <1>1, <2>8
  <1> QED BY <1>6, <1>7

\* Where a marker is looked up that is not shorter than a sound address's route, the same holds.
LEMMA KeySound ==
    ASSUME RibTyped, NEW ip \in Routes!Addresses, Routes!Sound(ip), NEW m \in Routes!Markers(ip),
           m + 1 >= Routes!MatchLen(ip), NEW key, key = Routes!mask(ip, m + 1)
    PROVE  /\ key \in Routes!Addresses /\ Routes!Sound(key)
           /\ Routes!Matching(key) = Routes!Matching(ip) /\ Routes!MatchLen(key) = Routes!MatchLen(ip)
  <1>0. Bits \in Nat \ {0} /\ Lengths = 0..(Bits - 1)
    BY RouteConstants
  <1>1. m \in Lengths /\ m \in Nat /\ m + 1 \in 0..Bits /\ m + 1 \in Nat
    <2>1. m \in Lengths
      BY DEF Routes!Markers, Lengths
    <2> QED BY <1>0, <2>1
  <1>2. key \in Routes!Addresses /\ \A l \in 0..(m + 1) : Routes!mask(key, l) = Routes!mask(ip, l)
    BY <1>1, MaskFacts
  <1>3. \A l \in (m + 1)..Bits : Routes!mask(key, l) = key
    BY <1>1, MaskLonger
  <1>4. Routes!Clear(m, ip)
    BY DEF Routes!Sound
  <1>5. \A q \in Routes!Matching(key) : q.len <= m + 1
    BY <1>4 DEF Routes!Clear
  <1>6. ASSUME NEW q PROVE q \in Routes!Matching(key) <=> q \in Routes!Matching(ip)
    <2>1. ASSUME q \in DOMAIN dests, q.len <= m + 1 PROVE Routes!Covers(q, key) <=> Routes!Covers(q, ip)
      <3>1. q \in Routes!RoutePrefixes /\ q.len \in Nat
        BY <2>1, RouteFacts DEF RibTyped
      <3>2. m + 1 \in q.len..Bits
        BY <1>0, <1>1, <2>1, <3>1
      <3> QED BY <3>1, <3>2, RouteCovers
    <2>2. q \in Routes!Matching(key) => q \in DOMAIN dests /\ q.len <= m + 1
      BY <1>5 DEF Routes!Matching
    <2>3. q \in Routes!Matching(ip) => q \in DOMAIN dests /\ q.len <= m + 1
      <3> SUFFICES ASSUME q \in Routes!Matching(ip) PROVE q \in DOMAIN dests /\ q.len <= m + 1
        OBVIOUS
      <3>1. q \in DOMAIN dests /\ q.len \in Nat /\ q.len <= Routes!MatchLen(ip) /\ Routes!MatchLen(ip) \in Nat
        BY MatchFacts
      <3> QED BY <1>1, <3>1
    <2> QED BY <2>1, <2>2, <2>3 DEF Routes!Matching
  <1>7. Routes!Matching(key) = Routes!Matching(ip)
    BY <1>6
  <1>8. Routes!MatchLen(key) = Routes!MatchLen(ip)
    BY <1>7 DEF Routes!MatchLen
  <1>9. PICK ml \in Nat : ml = Routes!MatchLen(ip) /\ ml <= m + 1
    BY MatchFacts
  <1>10. Routes!IntactTo(key, ml)
    <2>1. \A t \in 0..(ml - 1) : t + 1 \in 0..(m + 1)
      BY <1>1, <1>9
    <2>2. Routes!IntactTo(ip, ml)
      BY <1>9 DEF Routes!Sound
    <2> QED BY <1>2, <2>1, <2>2 DEF Routes!IntactTo
  <1>11. ASSUME NEW m1 \in Routes!Markers(key), m1 + 1 >= ml PROVE Routes!Clear(m1, key)
    <2>1. m1 \in Lengths /\ m1 \in Nat /\ m1 + 1 \in 0..Bits /\ m1 + 1 \in Nat
      <3>1. m1 \in Lengths
        BY DEF Routes!Markers, Lengths
      <3> QED BY <1>0, <3>1
    <2>2. CASE m1 <= m
      <3>1. Routes!mask(key, m1 + 1) = Routes!mask(ip, m1 + 1)
        BY <1>1, <1>2, <2>1, <2>2
      <3>2. m1 \in Routes!Markers(ip)
        BY <3>1 DEF Routes!Markers
      <3>3. Routes!Clear(m1, ip)
        BY <1>9, <1>11, <3>2 DEF Routes!Sound
      <3> QED BY <3>1, <3>3 DEF Routes!Clear
    <2>3. CASE ~(m1 <= m)
      <3>1. Routes!mask(key, m1 + 1) = key
        <4>1. m1 + 1 \in (m + 1)..Bits
          BY <1>1, <2>1, <2>3
        <4> QED BY <1>3, <4>1
      <3>2. \A q \in Routes!Matching(key) : q.len <= m1 + 1
        <4>1. \A q \in Routes!Matching(key) : q.len \in Nat
          BY <1>2, MatchFacts
        <4> QED BY <1>1, <1>5, <2>1, <2>3, <4>1
      <3> QED BY <3>1, <3>2 DEF Routes!Clear
    <2> QED BY <2>2, <2>3
  <1>12. Routes!Matching(key) # {} => Routes!Longest(Routes!Matching(key)) \in Routes!Guided
    BY <1>7 DEF Routes!Sound
  <1>13. Routes!Sound(key)
    BY <1>8, <1>9, <1>10, <1>11, <1>12 DEF Routes!Sound
  <1> QED BY <1>2, <1>7, <1>8, <1>13

-----------------------------------------------------------------------------
(* The routing table of LookupIP6Route: build()                            *)

\* Routes that build() has come to, in none of whose items it still has to.
Reached == {p \in DOMAIN dests : p = route \/ \A x \in pending : x[1] # p}
Turned(p, n) == IF p = route THEN TurnsUpTo(p.len - 1, n) ELSE Routes!Turns(p.len - 1)
Marks(n) ==
    {y \in Lengths \X Routes!Addresses :
        \E p \in Reached : y[1] \in Turned(p, n) /\ y[2] = Routes!mask(p.addr, y[1] + 1)}

RoutesTyped ==
    /\ RibTyped /\ ChainTyped /\ adds \in 0..(MaxAdds + 1)
    /\ \A x \in items : x[1] \in DOMAIN dests
    /\ \A p \in DOMAIN dests : \E x \in items : x[1] = p
    /\ pending \subseteq items /\ (route = Routes!NoRoute \/ route \in DOMAIN dests)

\* Items that are still to be visited are not of shorter routes than the one build() is at.
RoutesOrdered == route # Routes!NoRoute => \A x \in pending : route.len <= x[1].len

\* While routes are added, the tables hold them.
AddPhase == adds <= MaxAdds => pending = {} /\ route = Routes!NoRoute /\ HoldsRoutes

\* Then the markers of the routes that were visited are there, and those of the present
\* one up to the lengths that its search is at.
BuildPhase ==
    adds = MaxAdds + 1 =>
      \E n \in 0..Bits :
        /\ route # Routes!NoRoute => InTree(start, end, n) /\ start <= route.len - 1 /\ route.len - 1 <= end
        /\ Led(Marks(n)) /\ Right

RoutesInv == RoutesTyped /\ RoutesOrdered /\ AddPhase /\ BuildPhase

LEMMA SameRib ==
    ASSUME dests' = dests
    PROVE  /\ Routes!Guided' = Routes!Guided
           /\ \A ip : /\ Routes!Matching(ip)' = Routes!Matching(ip)
                      /\ Routes!MatchLen(ip)' = Routes!MatchLen(ip)
                      /\ Routes!Markers(ip)' = Routes!Markers(ip)
           /\ \A m, ip : Routes!Clear(m, ip)' <=> Routes!Clear(m, ip)
           /\ \A S : Routes!Dest(S)' = Routes!Dest(S)
           /\ \A t, key : Own(t, key)' = Own(t, key)
           /\ RibTyped' <=> RibTyped
  <1>1. Routes!Guided' = Routes!Guided
    <2>1. Routes!UpTo' = Routes!UpTo
      BY DEF Routes!UpTo
    <2> QED BY <2>1 DEF Routes!Guided
  <1>2. \A S : Routes!Dest(S)' = Routes!Dest(S)
    BY DEF Routes!Dest
  <1>3. \A ip : Routes!Matching(ip)' = Routes!Matching(ip)
    BY DEF Routes!Matching
  <1>4. \A ip : Routes!MatchLen(ip)' = Routes!MatchLen(ip)
    BY <1>3 DEF Routes!MatchLen
  <1>5. \A ip : Routes!Markers(ip)' = Routes!Markers(ip)
    BY DEF Routes!Markers
  <1>6. \A m, ip : Routes!Clear(m, ip)' <=> Routes!Clear(m, ip)
    BY <1>3 DEF Routes!Clear
  <1>7. \A t, key : Own(t, key)' = Own(t, key)
    BY DEF Own
  <1>8. RibTyped' <=> RibTyped
    BY DEF RibTyped
  <1> QED BY <1>1, <1>2, <1>3, <1>4, <1>5, <1>6, <1>7, <1>8

\* What was cut off stays so, and addresses that are sound have been so.
LEMMA RouteSoundBefore ==
    ASSUME dests' = dests, lost \subseteq lost'
    PROVE  /\ \A ip, n : Routes!IntactTo(ip, n)' => Routes!IntactTo(ip, n)
           /\ \A ip : Routes!Sound(ip)' => Routes!Sound(ip)
  <1>1. \A ip, n : Routes!IntactTo(ip, n)' => Routes!IntactTo(ip, n)
    BY DEF Routes!IntactTo
  <1>2. ASSUME NEW ip, Routes!Sound(ip)' PROVE Routes!Sound(ip)
    <2>1. /\ Routes!Guided' = Routes!Guided /\ Routes!Matching(ip)' = Routes!Matching(ip)
          /\ Routes!MatchLen(ip)' = Routes!MatchLen(ip) /\ Routes!Markers(ip)' = Routes!Markers(ip)
          /\ \A m : Routes!Clear(m, ip)' <=> Routes!Clear(m, ip)
      BY SameRib
    <2>2. Routes!Matching(ip) # {} => Routes!Longest(Routes!Matching(ip)) \in Routes!Guided
      <3>1. Routes!Longest(Routes!Matching(ip))' = Routes!Longest(Routes!Matching(ip))
        BY <2>1 DEF Routes!Longest
      <3> QED BY <1>2, <2>1, <3>1 DEF Routes!Sound
    <2>3. Routes!IntactTo(ip, Routes!MatchLen(ip))
      <3>1. Routes!IntactTo(ip, Routes!MatchLen(ip))'
        BY <1>2 DEF Routes!Sound
      <3>2. \A t \in 0..(Routes!MatchLen(ip) - 1) : <<t, Routes!mask(ip, t + 1)>> \notin lost'
        BY <2>1, <3>1 DEF Routes!IntactTo
      <3> QED BY <3>2 DEF Routes!IntactTo
    <2>4. \A m \in Routes!Markers(ip) : m + 1 >= Routes!MatchLen(ip) => Routes!Clear(m, ip)
      BY <1>2, <2>1 DEF Routes!Sound
    <2> QED BY <2>2, <2>3, <2>4 DEF Routes!Sound
  <1> QED BY <1>1, <1>2

LEMMA RoutesAdd ==
    ASSUME RoutesInv, NEW p \in Routes!RoutePrefixes, Routes!add(p)
    PROVE  RoutesInv'
  <1>0. RoutesTyped /\ AddPhase
    BY DEF RoutesInv
  <1>1. /\ pending = {} /\ route = Routes!NoRoute /\ adds < MaxAdds /\ adds' = adds + 1
        /\ Routes!insert(p.len - 1, p.addr, adds + 1)
        /\ dests' = [q \in DOMAIN dests \cup {p} |-> IF q = p THEN adds + 1 ELSE dests[q]]
        /\ items' = IF Routes!find(p.len - 1, p.addr) = 0 THEN items \cup {<<p, adds + 1>>} ELSE items
        /\ pending' = pending /\ route' = route
    BY DEF Routes!add
  <1>2. /\ adds \in Nat /\ MaxAdds \in Nat /\ adds + 1 \in Nat \ {0} /\ adds <= MaxAdds
        /\ adds' \in 0..(MaxAdds + 1) /\ adds' # MaxAdds + 1
    BY <1>0, <1>1, RouteConstants DEF RoutesTyped
  <1>3. /\ p.len - 1 \in Lengths /\ p.addr \in Routes!Addresses /\ p = [len |-> p.len, addr |-> p.addr]
        /\ p.len \in Nat /\ (p.len - 1) + 1 = p.len
    BY RouteFacts
  <1>4. /\ ChainTyped' /\ lost \subseteq lost' /\ Routes!find(p.len - 1, p.addr)' = adds + 1
        /\ \A t1 \in Lengths, k1 \in Routes!Addresses : t1 # p.len - 1 \/ k1 # p.addr =>
              \/ Routes!find(t1, k1)' = Routes!find(t1, k1)
              \/ Routes!find(t1, k1)' = 0 /\ <<t1, k1>> \in lost'
    BY <1>0, <1>1, <1>2, <1>3, InsertFacts DEF RoutesTyped
  <1>5. /\ DOMAIN dests' = DOMAIN dests \cup {p} /\ dests'[p] = adds + 1
        /\ \A q \in DOMAIN dests : q # p => dests'[q] = dests[q]
    BY <1>1
  <1>6. RibTyped'
    <2>1. RibTyped
      BY <1>0 DEF RoutesTyped
    <2> QED BY <1>2, <1>5, <2>1 DEF RibTyped
  <1>7. HoldsRoutes
    BY <1>0, <1>2 DEF AddPhase
  <1>8. HoldsRoutes'
    <2>1. ASSUME NEW t \in Lengths, NEW key \in Routes!Addresses
          PROVE  \/ Routes!find(t, key)' = Own(t, key)'
                 \/ Routes!find(t, key)' = 0 /\ <<t, key>> \in lost'
      <3>1. PICK r : r = [len |-> t + 1, addr |-> key]
        OBVIOUS
      <3>2. Own(t, key)' = IF r \in DOMAIN dests' THEN dests'[r] ELSE 0
        BY <3>1 DEF Own
      <3>3. Own(t, key) = IF r \in DOMAIN dests THEN dests[r] ELSE 0
        BY <3>1 DEF Own
      <3>4. CASE t = p.len - 1 /\ key = p.addr
        <4>1. r = p
          BY <1>3, <3>1, <3>4
        <4> QED BY <1>4, <1>5, <3>2, <3>4, <4>1
      <3>5. CASE ~(t = p.len - 1 /\ key = p.addr)
        <4>1. r # p
          <5>1. r = p => t + 1 = p.len /\ key = p.addr
            BY <3>1
          <5>2. t \in Nat
            BY RouteConstants
          <5> QED BY <1>3, <3>5, <5>1, <5>2
        <4>2. Own(t, key)' = Own(t, key)
          BY <1>5, <3>2, <3>3, <4>1
        <4>3. \/ Routes!find(t, key)' = Routes!find(t, key)
              \/ Routes!find(t, key)' = 0 /\ <<t, key>> \in lost'
          BY <1>4, <3>5
        <4>4. \/ Routes!find(t, key) = Own(t, key)
              \/ Routes!find(t, key) = 0 /\ <<t, key>> \in lost
          BY <1>7 DEF HoldsRoutes
        <4> QED BY <1>4, <4>2, <4>3, <4>4
      <3> QED BY <3>4, <3>5
    <2> QED BY <2>1 DEF HoldsRoutes
  <1>9. (\A x \in items' : x[1] \in DOMAIN dests') /\ items \subseteq items'
    <2>1. \A x \in items : x[1] \in DOMAIN dests
      BY <1>0 DEF RoutesTyped
    <2>2. \A x : x = <<p, adds + 1>> => x[1] = p
      OBVIOUS
    <2> QED BY <1>1, <1>5, <2>1, <2>2
  <1>10. \E x \in items' : x[1] = p
    <2>1. CASE Routes!find(p.len - 1, p.addr) = 0
      <3>1. <<p, adds + 1>> \in items' /\ <<p, adds + 1>>[1] = p
        BY <1>1, <2>1
      <3> QED BY <3>1, Zenon
    <2>2. CASE Routes!find(p.len - 1, p.addr) # 0
      <3>1. Own(p.len - 1, p.addr) # 0
        BY <1>3, <1>7, <2>2 DEF HoldsRoutes
      <3>2. p \in DOMAIN dests
        BY <1>3, <3>1 DEF Own
      <3> QED BY <1>0, <1>9, <3>2 DEF RoutesTyped
    <2> QED BY <2>1, <2>2
  <1>11. \A q \in DOMAIN dests' : \E x \in items' : x[1] = q
    <2>1. \A q \in DOMAIN dests : \E x \in items : x[1] = q
      BY <1>0 DEF RoutesTyped
    <2> QED BY <1>5, <1>9, <1>10, <2>1
  <1>12. RoutesTyped'
    BY <1>1, <1>2, <1>4, <1>6, <1>9, <1>11 DEF RoutesTyped
  <1>13. RoutesOrdered' /\ AddPhase' /\ BuildPhase'
    BY <1>1, <1>2, <1>8 DEF RoutesOrdered, AddPhase, BuildPhase
  <1> QED BY <1>12, <1>13 DEF RoutesInv

\* The tables before the first marker.
LEMMA RoutesHeld ==
    ASSUME RibTyped, HoldsRoutes
    PROVE  Led({}) /\ Right
  <1>1. ASSUME NEW ip \in Routes!Addresses, NEW t \in Lengths, NEW key, key = Routes!mask(ip, t + 1),
               NEW r, r = [len |-> t + 1, addr |-> key]
        PROVE  /\ \A p \in Routes!Matching(ip) : p.len = t + 1 => p = r
               /\ r \in DOMAIN dests => r \in Routes!Matching(ip)
               /\ \/ At(ip, t) = IF r \in DOMAIN dests THEN dests[r] ELSE 0
                  \/ At(ip, t) = 0 /\ <<t, key>> \in lost
    <2>1. key \in Routes!Addresses
      <3>1. t + 1 \in 0..Bits
        BY RouteConstants
      <3> QED BY <1>1, <3>1, MaskFacts
    <2>2. ASSUME NEW p \in Routes!Matching(ip), p.len = t + 1 PROVE p = r
      <3>1. p = [len |-> p.len, addr |-> p.addr] /\ Routes!Covers(p, ip)
        BY MatchFacts, RouteFacts
      <3>2. p.addr = key
        BY <1>1, <2>2, <3>1 DEF Routes!Covers
      <3> QED BY <1>1, <2>2, <3>1, <3>2
    <2>3. r \in DOMAIN dests => r \in Routes!Matching(ip)
      BY <1>1 DEF Routes!Matching, Routes!Covers
    <2>4. Own(t, key) = IF r \in DOMAIN dests THEN dests[r] ELSE 0
      BY <1>1 DEF Own
    <2>5. At(ip, t) = Own(t, key) \/ (At(ip, t) = 0 /\ <<t, key>> \in lost)
      BY <1>1, <2>1 DEF At, HoldsRoutes
    <2> QED BY <2>2, <2>3, <2>4, <2>5
  <1>2. Led({})
    <2>1. ASSUME NEW ip \in Routes!Addresses, NEW t \in Lengths, Routes!IntactTo(ip, t + 1),
                 NEW p \in Routes!Matching(ip), p.len = t + 1
          PROVE  At(ip, t) # 0
      <3>1. PICK key : key = Routes!mask(ip, t + 1)
        OBVIOUS
      <3>2. PICK r : r = [len |-> t + 1, addr |-> key]
        OBVIOUS
      <3>3. p = r /\ (\/ At(ip, t) = IF r \in DOMAIN dests THEN dests[r] ELSE 0
                      \/ At(ip, t) = 0 /\ <<t, key>> \in lost)
        BY <1>1, <2>1, <3>1, <3>2
      <3>4. <<t, key>> \notin lost
        <4>1. t \in 0..((t + 1) - 1)
          BY RouteConstants
        <4> QED BY <2>1, <3>1, <4>1 DEF Routes!IntactTo
      <3>5. r \in DOMAIN dests /\ dests[r] # 0
        BY <3>3, MatchFacts DEF RibTyped
      <3> QED BY <3>3, <3>4, <3>5
    <2> QED BY <2>1 DEF Led
  <1>3. ASSUME NEW ip \in Routes!Addresses, NEW t \in Lengths, Routes!Sound(ip)
        PROVE  /\ t + 1 > Routes!MatchLen(ip) => At(ip, t) \in {0, Routes!Dest(Routes!Matching(ip))}
               /\ t + 1 = Routes!MatchLen(ip) => At(ip, t) = Routes!Dest(Routes!Matching(ip))
    <2>1. PICK key : key = Routes!mask(ip, t + 1)
      OBVIOUS
    <2>2. PICK r : r = [len |-> t + 1, addr |-> key]
      OBVIOUS
    <2>3. /\ \A p \in Routes!Matching(ip) : p.len = t + 1 => p = r
          /\ r \in DOMAIN dests => r \in Routes!Matching(ip)
          /\ \/ At(ip, t) = IF r \in DOMAIN dests THEN dests[r] ELSE 0
             \/ At(ip, t) = 0 /\ <<t, key>> \in lost
      BY <1>1, <2>1, <2>2
    <2>4. PICK ml \in Nat : ml = Routes!MatchLen(ip)
      BY MatchFacts
    <2>5. t \in Nat
      BY RouteConstants
    <2>6. ASSUME t + 1 > ml PROVE At(ip, t) = 0
      <3>1. r \notin DOMAIN dests
        <4> SUFFICES ASSUME r \in DOMAIN dests PROVE FALSE
          OBVIOUS
        <4>1. r.len <= ml /\ r.len = t + 1
          BY <2>2, <2>3, <2>4, MatchFacts
        <4> QED BY <2>5, <2>6, <4>1
      <3> QED BY <2>3, <3>1
    <2>7. ASSUME t + 1 = ml PROVE At(ip, t) = Routes!Dest(Routes!Matching(ip))
      <3>1. Routes!Matching(ip) # {}
        BY <2>4, <2>5, <2>7, MatchFacts
      <3>2. PICK p \in Routes!Matching(ip) : p.len = ml /\ Routes!Dest(Routes!Matching(ip)) = dests[p]
        BY <2>4, <3>1, MatchFacts
      <3>3. p = r /\ r \in DOMAIN dests
        BY <2>3, <2>7, <3>2, MatchFacts
      <3>4. <<t, key>> \notin lost
        <4>1. t \in 0..(ml - 1) /\ Routes!IntactTo(ip, ml)
          BY <1>3, <2>4, <2>5, <2>7 DEF Routes!Sound
        <4> QED BY <2>1, <4>1 DEF Routes!IntactTo
      <3> QED BY <2>3, <3>2, <3>3, <3>4
    <2> QED BY <2>4, <2>6, <2>7
  <1>4. Right
    BY <1>3 DEF Right
  <1> QED BY <1>2, <1>4

LEMMA SameContent ==
    ASSUME dests' = dests, chain' = chain, lost' = lost
    PROVE  /\ \A ip, t : At(ip, t)' = At(ip, t)
           /\ HoldsRoutes => HoldsRoutes'
           /\ Right => Right'
           /\ \A k, n : Led(k) /\ (\A y \in Lengths \X Routes!Addresses : y \in n => y \in k) => Led(n)'
  <1>1. \A t, key : Routes!find(t, key)' = Routes!find(t, key)
    BY DEF Routes!find
  <1>2. \A ip, t : At(ip, t)' = At(ip, t)
    BY <1>1 DEF At
  <1>3. HoldsRoutes => HoldsRoutes'
    BY <1>1, SameRib DEF HoldsRoutes
  <1>4. Right => Right'
    <2> SUFFICES ASSUME Right, NEW ip \in Routes!Addresses, NEW t \in Lengths, Routes!Sound(ip)'
                 PROVE  /\ t + 1 > Routes!MatchLen(ip)' => At(ip, t)' \in {0, Routes!Dest(Routes!Matching(ip))'}
                        /\ t + 1 = Routes!MatchLen(ip)' => At(ip, t)' = Routes!Dest(Routes!Matching(ip))'
      BY DEF Right
    <2>1. Routes!Sound(ip)
      BY RouteSoundBefore
    <2>2. Routes!MatchLen(ip)' = Routes!MatchLen(ip) /\ Routes!Matching(ip)' = Routes!Matching(ip)
      BY SameRib
    <2>3. Routes!Dest(Routes!Matching(ip))' = Routes!Dest(Routes!Matching(ip))
      BY <2>2, SameRib DEF Routes!Dest, Routes!Longest
    <2>4. /\ t + 1 > Routes!MatchLen(ip) => At(ip, t) \in {0, Routes!Dest(Routes!Matching(ip))}
          /\ t + 1 = Routes!MatchLen(ip) => At(ip, t) = Routes!Dest(Routes!Matching(ip))
      BY <2>1 DEF Right
    <2>5. At(ip, t)' = At(ip, t)
      BY <1>2
    <2> QED BY <2>2, <2>3, <2>4, <2>5
  <1>5. ASSUME NEW k, NEW n, Led(k), \A y \in Lengths \X Routes!Addresses : y \in n => y \in k
        PROVE  Led(n)'
    <2> SUFFICES ASSUME NEW ip \in Routes!Addresses, NEW t \in Lengths, Routes!IntactTo(ip, t + 1)',
                        <<t, Routes!mask(ip, t + 1)>> \in n \/ \E p \in Routes!Matching(ip)' : p.len = t + 1,
                        \E q \in Routes!Guided' : q.len <= t + 1 /\ Routes!Covers(q, ip)
                 PROVE  At(ip, t)' # 0
      BY DEF Led, Routes!Covers
    <2>1. /\ Routes!IntactTo(ip, t + 1) /\ Routes!Matching(ip)' = Routes!Matching(ip)
          /\ Routes!Guided' = Routes!Guided /\ At(ip, t)' = At(ip, t)
      BY <1>2, RouteSoundBefore, SameRib
    <2>2. Routes!mask(ip, t + 1) \in Routes!Addresses
      <3>1. t + 1 \in 0..Bits
        BY RouteConstants
      <3> QED BY <3>1, MaskFacts
    <2>3. <<t, Routes!mask(ip, t + 1)>> \in n => <<t, Routes!mask(ip, t + 1)>> \in k
      BY <1>5, <2>2
    <2> QED BY <1>5, <2>1, <2>3 DEF Led
  <1> QED BY <1>2, <1>3, <1>4, <1>5

LEMMA RoutesBuild ==
    ASSUME RoutesInv, Routes!Build
    PROVE  RoutesInv'
  <1>0. RoutesTyped /\ AddPhase
    BY DEF RoutesInv
  <1>1. /\ adds = MaxAdds /\ adds' = MaxAdds + 1 /\ pending' = items
        /\ dests' = dests /\ chain' = chain /\ lost' = lost /\ items' = items /\ route' = route
    BY DEF Routes!Build
  <1>2. MaxAdds \in Nat /\ 0 \in 0..Bits
    BY RouteConstants
  <1>3. pending = {} /\ route = Routes!NoRoute /\ HoldsRoutes
    BY <1>0, <1>1, <1>2 DEF AddPhase
  <1>4. RoutesTyped'
    <2>1. ChainTyped' /\ RibTyped'
      BY <1>0, <1>1, SameRib DEF RoutesTyped, ChainTyped
    <2>2. adds' \in 0..(MaxAdds + 1) /\ pending' \subseteq items'
      BY <1>1, <1>2
    <2> QED BY <1>0, <1>1, <1>3, <2>1, <2>2 DEF RoutesTyped
  <1>5. BuildPhase'
    <2>1. \A y : y \notin Marks(0)'
      <3>1. \A p \in DOMAIN dests : p # Routes!NoRoute /\ \E x \in items : x[1] = p
        BY <1>0, RouteFacts DEF RoutesTyped, RibTyped
      <3>2. \A p : p \notin Reached'
        BY <1>1, <1>3, <3>1 DEF Reached
      <3> QED BY <3>2 DEF Marks
    <2>2. Led({}) /\ Right
      BY <1>0, <1>3, RoutesHeld DEF RoutesTyped
    <2>3. PICK k : k = Marks(0)'
      OBVIOUS
    <2>4. Led(k)' /\ Right'
      BY <1>1, <2>1, <2>2, <2>3, SameContent
    <2>5. Led(Marks(0))'
      BY <2>3, <2>4 DEF Led
    <2> QED BY <1>1, <1>2, <1>3, <2>4, <2>5 DEF BuildPhase
  <1>6. RoutesOrdered' /\ AddPhase'
    BY <1>1, <1>2, <1>3 DEF RoutesOrdered, AddPhase
  <1> QED BY <1>4, <1>5, <1>6 DEF RoutesInv

LEMMA MarksFacts ==
    ASSUME NEW t \in Lengths, NEW key \in Routes!Addresses, NEW n
    PROVE  /\ <<t, key>> \in Marks(n) <=>
                \E p \in Reached : t \in Turned(p, n) /\ key = Routes!mask(p.addr, t + 1)
           /\ (<<t, key>> \in Marks(n))' <=>
                \E p \in Reached' : t \in Turned(p, n)' /\ key = Routes!mask(p.addr, t + 1)
  <1>1. PICK y \in Lengths \X Routes!Addresses : y = <<t, key>> /\ y[1] = t /\ y[2] = key
    <2>1. <<t, key>> \in Lengths \X Routes!Addresses /\ <<t, key>>[1] = t /\ <<t, key>>[2] = key
      OBVIOUS
    <2> QED BY <2>1, Zenon
  <1>2. y \in Marks(n) <=> \E p \in Reached : t \in Turned(p, n) /\ key = Routes!mask(p.addr, t + 1)
    BY <1>1 DEF Marks
  <1>3. (y \in Marks(n))' <=> \E p \in Reached' : t \in Turned(p, n)' /\ key = Routes!mask(p.addr, t + 1)
    BY <1>1 DEF Marks
  <1> QED BY <1>1, <1>2, <1>3

\* What a step of build() changes or not, but for the marker it may leave.
LEMMA BuildSteps ==
    ASSUME RoutesInv, route # Routes!NoRoute \/ pending # {}, NEW k \in 0..Bits,
           dests' = dests, items' = items, adds' = adds, pending' \subseteq pending, ChainTyped',
           route' = Routes!NoRoute \/ route' \in DOMAIN dests, RoutesOrdered',
           route' # Routes!NoRoute =>
              InTree(start', end', k) /\ start' <= route'.len - 1 /\ route'.len - 1 <= end',
           Led(Marks(k))', Right'
    PROVE  RoutesInv'
  <1>0. RoutesTyped /\ AddPhase
    BY DEF RoutesInv
  <1>1. MaxAdds \in Nat /\ adds \in 0..(MaxAdds + 1)
    BY <1>0, RouteConstants DEF RoutesTyped
  <1>2. ~(adds <= MaxAdds)
    BY <1>0 DEF AddPhase
  <1>3. RoutesTyped'
    BY <1>0, SameRib DEF RoutesTyped
  <1>4. AddPhase'
    BY <1>2 DEF AddPhase
  <1>5. BuildPhase'
    BY DEF BuildPhase
  <1> QED BY <1>3, <1>4, <1>5 DEF RoutesInv

\* Steps that leave no marker.
LEMMA SameMarks ==
    ASSUME NEW n, NEW k, dests' = dests, chain' = chain, lost' = lost, Led(Marks(n)), Right,
           \A p \in Reached' : Turned(p, k)' = {} \/ (p \in Reached /\ Turned(p, k)' \subseteq Turned(p, n))
    PROVE  Led(Marks(k))' /\ Right'
  <1>1. PICK u : u = Marks(n)
    OBVIOUS
  <1>2. PICK w : w = Marks(k)'
    OBVIOUS
  <1>3. ASSUME NEW y \in Lengths \X Routes!Addresses, y \in w PROVE y \in u
    <2>1. PICK p \in Reached' : y[1] \in Turned(p, k)' /\ y[2] = Routes!mask(p.addr, y[1] + 1)
      BY <1>2, <1>3 DEF Marks
    <2>2. p \in Reached /\ y[1] \in Turned(p, n)
      BY <2>1
    <2> QED BY <1>1, <2>1, <2>2 DEF Marks
  <1>4. Led(w)' /\ Right'
    <2>1. Led(u)
      BY <1>1
    <2> QED BY <1>3, <2>1, SameContent
  <1> QED BY <1>2, <1>4 DEF Led

\* build() is at a route only when the routes were added.
LEMMA InBuild ==
    ASSUME RoutesInv, route # Routes!NoRoute \/ pending # {}
    PROVE  adds = MaxAdds + 1
  <1>1. MaxAdds \in Nat /\ adds \in 0..(MaxAdds + 1) /\ ~(adds <= MaxAdds)
    BY RouteConstants DEF RoutesInv, RoutesTyped, AddPhase
  <1> QED BY <1>1

LEMMA RoutesVisit ==
    ASSUME RoutesInv, Routes!Visit
    PROVE  RoutesInv'
  <1>0. RoutesTyped /\ BuildPhase
    BY DEF RoutesInv
  <1>1. PICK x \in pending :
            /\ route = Routes!NoRoute /\ \A y \in pending : x[1].len <= y[1].len
            /\ route' = x[1] /\ pending' = pending \ {x} /\ start' = 0 /\ end' = Bits - 1
            /\ dests' = dests /\ chain' = chain /\ lost' = lost /\ items' = items /\ adds' = adds
    BY DEF Routes!Visit, Routes!Turn
  <1>2. PICK p : p = x[1] /\ p \in DOMAIN dests /\ p \in Routes!RoutePrefixes
    BY <1>0 DEF RoutesTyped, RibTyped
  <1>3. p.len - 1 \in Lengths /\ 0 <= p.len - 1 /\ p.len - 1 <= Bits - 1 /\ 0 \in 0..Bits
    BY <1>2, RouteFacts, RouteConstants
  <1>4. PICK n \in 0..Bits : Led(Marks(n)) /\ Right
    BY <1>0, <1>1, InBuild DEF BuildPhase
  <1>5. ASSUME NEW q \in Reached'
        PROVE  Turned(q, 0)' = {} \/ (q \in Reached /\ Turned(q, 0)' \subseteq Turned(q, n))
    <2>1. CASE q = p
      BY <1>1, <1>2, <1>3, <2>1, TurnFacts DEF Turned
    <2>2. CASE q # p
      <3>1. q \in DOMAIN dests /\ \A y \in pending \ {x} : y[1] # q
        BY <1>1, <1>2, <2>2 DEF Reached
      <3>2. q \in Reached
        BY <1>2, <2>2, <3>1 DEF Reached
      <3>3. q # Routes!NoRoute
        BY <1>0, <3>1, RouteFacts DEF RoutesTyped, RibTyped
      <3>4. Turned(q, 0)' = Turned(q, n)
        BY <1>1, <1>2, <2>2, <3>3 DEF Turned
      <3> QED BY <3>2, <3>4
    <2> QED BY <2>1, <2>2
  <1>6. Led(Marks(0))' /\ Right'
    BY <1>1, <1>4, <1>5, SameMarks
  <1>7. ChainTyped' /\ route' \in DOMAIN dests /\ RoutesOrdered' /\ pending' \subseteq pending
    BY <1>0, <1>1, <1>2 DEF RoutesTyped, ChainTyped, RoutesOrdered
  <1>8. InTree(start', end', 0) /\ start' <= route'.len - 1 /\ route'.len - 1 <= end'
    BY <1>1, <1>2, <1>3, TreeRoot
  <1> QED BY <1>1, <1>3, <1>6, <1>7, <1>8, BuildSteps

\* Where build() is in the search for its route.
LEMMA AtRoute ==
    ASSUME RoutesInv, route # Routes!NoRoute
    PROVE  \E n \in 0..Bits :
              LET len == route.len - 1
                  m == Routes!len_marker
              IN /\ route \in DOMAIN dests /\ route \in Reached /\ len \in Lengths /\ m \in Lengths
                 /\ n + 1 \in 0..Bits /\ start <= m /\ m <= end /\ start <= len /\ len <= end
                 /\ InTree(start, m - 1, n + 1) /\ InTree(m + 1, end, n + 1)
                 /\ Led(Marks(n)) /\ Right
                 /\ m < len => m \in Routes!Turns(len) /\ TurnsUpTo(len, n + 1) = TurnsUpTo(len, n) \cup {m}
                 /\ m > len => TurnsUpTo(len, n + 1) = TurnsUpTo(len, n)
                 /\ m = len => TurnsUpTo(len, n) = Routes!Turns(len)
  <1>0. RoutesTyped /\ BuildPhase
    BY DEF RoutesInv
  <1>1. PICK n \in 0..Bits :
            /\ InTree(start, end, n) /\ start <= route.len - 1 /\ route.len - 1 <= end
            /\ Led(Marks(n)) /\ Right
    BY <1>0, InBuild DEF BuildPhase
  <1>2. route \in DOMAIN dests /\ route \in Reached /\ route.len - 1 \in Lengths
    BY <1>0, RouteFacts DEF RoutesTyped, RibTyped, Reached
  <1>3. PICK len \in Lengths : len = route.len - 1
    BY <1>2
  <1>4. PICK m : m = (start + end) \div 2
    OBVIOUS
  <1>5. start <= end
    <2>1. start \in 0..Bits /\ end \in -1..(Bits - 1) /\ len \in Int /\ Bits \in Nat
      BY <1>1, RouteConstants DEF InTree
    <2> QED BY <1>1, <1>3, <2>1
  <1>6. /\ m \in Lengths /\ start <= m /\ m <= end /\ n + 1 \in 0..Bits
        /\ InTree(start, m - 1, n + 1) /\ InTree(m + 1, end, n + 1)
    BY <1>1, <1>4, <1>5, TreeStep
  <1>7. /\ m < len => m \in Routes!Turns(len) /\ TurnsUpTo(len, n + 1) = TurnsUpTo(len, n) \cup {m}
        /\ m > len => TurnsUpTo(len, n + 1) = TurnsUpTo(len, n)
        /\ m = len => TurnsUpTo(len, n) = Routes!Turns(len)
    BY <1>1, <1>3, <1>4, TurnFacts
  <1>8. Routes!len_marker = m
    BY <1>4 DEF Routes!len_marker
  <1> QED BY <1>1, <1>2, <1>3, <1>6, <1>7, <1>8

LEMMA RoutesGoShorter ==
    ASSUME RoutesInv, Routes!GoShorter
    PROVE  RoutesInv'
  <1>0. RoutesTyped /\ RoutesOrdered
    BY DEF RoutesInv
  <1>1. /\ route # Routes!NoRoute /\ Routes!len_marker > route.len - 1 /\ end' = Routes!len_marker - 1
        /\ dests' = dests /\ chain' = chain /\ lost' = lost /\ items' = items /\ adds' = adds
        /\ pending' = pending /\ route' = route /\ start' = start
    BY DEF Routes!GoShorter
  <1>2. PICK m : m = Routes!len_marker
    OBVIOUS
  <1>3. PICK n \in 0..Bits :
            /\ route \in DOMAIN dests /\ route.len - 1 \in Lengths /\ m \in Lengths
            /\ n + 1 \in 0..Bits /\ start <= route.len - 1
            /\ InTree(start, m - 1, n + 1)
            /\ Led(Marks(n)) /\ Right
            /\ TurnsUpTo(route.len - 1, n + 1) = TurnsUpTo(route.len - 1, n)
    BY <1>1, <1>2, AtRoute
  <1>4. Reached' = Reached /\ \A p \in Reached : Turned(p, n + 1)' = Turned(p, n)
    BY <1>1, <1>3 DEF Reached, Turned
  <1>5. Led(Marks(n + 1))' /\ Right'
    BY <1>1, <1>3, <1>4, SameMarks
  <1>6. route'.len - 1 <= end'
    BY <1>1, <1>2, <1>3, RouteConstants
  <1>7. ChainTyped' /\ route' \in DOMAIN dests /\ RoutesOrdered' /\ pending' \subseteq pending
    BY <1>0, <1>1, <1>3 DEF RoutesTyped, ChainTyped, RoutesOrdered
  <1>8. InTree(start', end', n + 1) /\ start' <= route'.len - 1
    BY <1>1, <1>2, <1>3
  <1> QED BY <1>1, <1>3, <1>5, <1>6, <1>7, <1>8, BuildSteps

LEMMA RoutesLeave ==
    ASSUME RoutesInv, Routes!Leave
    PROVE  RoutesInv'
  <1>0. RoutesTyped
    BY DEF RoutesInv
  <1>1. /\ route # Routes!NoRoute /\ Routes!len_marker = route.len - 1
        /\ dests' = dests /\ chain' = chain /\ lost' = lost /\ items' = items /\ adds' = adds
        /\ pending' = pending /\ route' = Routes!NoRoute
    BY DEF Routes!Leave
  <1>2. PICK n \in 0..Bits :
            Led(Marks(n)) /\ Right /\ TurnsUpTo(route.len - 1, n) = Routes!Turns(route.len - 1)
    BY <1>1, AtRoute
  <1>3. ASSUME NEW p \in Reached' PROVE p \in Reached /\ Turned(p, n)' \subseteq Turned(p, n)
    <2>1. p \in DOMAIN dests /\ p # Routes!NoRoute
      BY <1>0, <1>1, RouteFacts DEF Reached, RoutesTyped, RibTyped
    <2>2. p \in Reached
      BY <1>1, <2>1 DEF Reached
    <2>3. Turned(p, n)' = Turned(p, n)
      BY <1>1, <1>2, <2>1 DEF Turned
    <2> QED BY <2>2, <2>3
  <1>4. Led(Marks(n))' /\ Right'
    BY <1>1, <1>2, <1>3, SameMarks
  <1>5. ChainTyped' /\ RoutesOrdered' /\ pending' \subseteq pending
    BY <1>0, <1>1 DEF RoutesTyped, ChainTyped, RoutesOrdered
  <1> QED BY <1>1, <1>2, <1>4, <1>5, BuildSteps

\* The markers of the routes that are shorter than the one build() is at are there.
LEMMA ShorterMarked ==
    ASSUME RoutesInv, NEW n, route \in DOMAIN dests, NEW ip \in Routes!Addresses,
           NEW p \in DOMAIN dests, Routes!Covers(p, ip), p.len < route.len
    PROVE  \A t \in Routes!Turns(p.len - 1) : <<t, Routes!mask(ip, t + 1)>> \in Marks(n)
  <1>0. RoutesTyped /\ RoutesOrdered
    BY DEF RoutesInv
  <1>1. p \in Routes!RoutePrefixes /\ p.len \in Nat /\ p.len \in 1..Bits /\ p.len - 1 \in Lengths
    BY <1>0, RouteFacts DEF RoutesTyped, RibTyped
  <1>2. route.len \in Nat /\ route # Routes!NoRoute
    BY <1>0, RouteFacts DEF RoutesTyped, RibTyped
  <1>3. p \in Reached
    <2>1. \A x \in pending : x[1] # p
      BY <1>0, <1>1, <1>2 DEF RoutesOrdered
    <2> QED BY <2>1 DEF Reached
  <1>4. Turned(p, n) = Routes!Turns(p.len - 1)
    <2>1. p # route
      BY <1>2
    <2> QED BY <2>1 DEF Turned
  <1>5. ASSUME NEW t \in Routes!Turns(p.len - 1) PROVE <<t, Routes!mask(ip, t + 1)>> \in Marks(n)
    <2>1. t \in Lengths /\ t < p.len - 1
      BY <1>1, TurnFacts
    <2>2. t + 1 \in 0..p.len /\ t + 1 \in 0..Bits
      BY <1>1, <2>1, RouteConstants
    <2>3. Routes!mask(p.addr, t + 1) = Routes!mask(ip, t + 1) /\ Routes!mask(ip, t + 1) \in Routes!Addresses
      BY <1>1, <2>2, RouteCovers, MaskFacts
    <2> QED BY <1>3, <1>4, <2>1, <2>3, MarksFacts
  <1> QED BY <1>5

\* A marker gets a destination if a guided route leads to it,
LEMMA MarkerLed ==
    ASSUME RoutesInv, NEW n, route \in DOMAIN dests, Led(Marks(n)), NEW m \in Lengths, m < route.len - 1,
           NEW key \in Routes!Addresses, Routes!IntactTo(key, m + 1),
           NEW q \in Routes!Guided, q.len <= m + 1, Routes!Covers(q, key)
    PROVE  Routes!lookup(key) # 0
  <1>0. RibTyped /\ ChainTyped
    BY DEF RoutesInv, RoutesTyped
  <1>1. q \in DOMAIN dests /\ q.len \in Nat /\ route.len \in Nat /\ m \in Nat
    BY <1>0, GuidedFacts, RouteFacts, RouteConstants DEF RibTyped
  <1>2. Routes!IntactTo(key, q.len)
    <2>1. 0..(q.len - 1) \subseteq 0..((m + 1) - 1)
      BY <1>1
    <2> QED BY <2>1 DEF Routes!IntactTo
  <1>3. \A t \in Routes!Turns(q.len - 1) : <<t, Routes!mask(key, t + 1)>> \in Marks(n)
    <2>1. q.len < route.len
      BY <1>1
    <2> QED BY <1>1, <2>1, ShorterMarked
  <1>4. PICK len \in Lengths : len = q.len - 1
    BY <1>0, <1>2, <1>3, GuidedLed
  <1>5. At(key, len) # 0 /\ \A t \in Routes!Turns(len) : At(key, t) # 0
    BY <1>0, <1>2, <1>3, <1>4, GuidedLed
  <1>6. \A t \in Lengths : At(key, t) \in Nat
    <2>1. \A t \in Lengths : t + 1 \in 0..Bits
      BY RouteConstants
    <2> QED BY <1>0, <2>1, MaskFacts, FindFacts DEF At
  <1>7. Routes!lookup(key) \in Nat \ {0}
    <2>1. len \in -1..(Bits - 1) /\ len # -1
      BY <1>4, RouteConstants
    <2>2. \A t \in Lengths : t > len => At(key, t) = 0 \/ At(key, t) \in Nat \ {0}
      BY <1>6
    <2>3. At(key, len) \in Nat \ {0}
      BY <1>4, <1>5, <1>6
    <2> QED BY <1>0, <1>5, <2>1, <2>2, <2>3, LookupFinds
  <1> QED BY <1>7

\* and that of the longest route of the sound addresses that it is on the way of.
LEMMA MarkerRight ==
    ASSUME RoutesInv, NEW n, route \in DOMAIN dests, Led(Marks(n)), Right,
           NEW m \in Routes!Turns(route.len - 1), NEW key, key = Routes!mask(route.addr, m + 1),
           NEW ip \in Routes!Addresses, Routes!Sound(ip), Routes!mask(ip, m + 1) = key, m + 1 >= Routes!MatchLen(ip)
    PROVE  Routes!lookup(key) = Routes!Dest(Routes!Matching(ip))
  <1>0. RibTyped /\ ChainTyped
    BY DEF RoutesInv, RoutesTyped
  <1>1. route.len - 1 \in Lengths /\ route.len \in Nat /\ m \in Lengths /\ m < route.len - 1 /\ m \in Nat
    <2>1. route.len - 1 \in Lengths /\ route.len \in Nat
      BY <1>0, RouteFacts DEF RibTyped
    <2>2. m \in Lengths /\ m < route.len - 1
      BY <2>1, TurnFacts
    <2> QED BY <2>1, <2>2, RouteConstants
  <1>2. m \in Routes!Markers(ip)
    BY <1>1 DEF Routes!Markers, Lengths
  <1>3. /\ key \in Routes!Addresses /\ Routes!Sound(key)
        /\ Routes!Matching(key) = Routes!Matching(ip) /\ Routes!MatchLen(key) = Routes!MatchLen(ip)
    BY <1>0, <1>2, KeySound
  <1>4. ASSUME NEW p \in Routes!Matching(key), p.len = Routes!MatchLen(key)
        PROVE  \A t \in Routes!Turns(p.len - 1) : <<t, Routes!mask(key, t + 1)>> \in Marks(n)
    <2>1. p \in DOMAIN dests /\ Routes!Covers(p, key) /\ p.len \in Nat
      BY <1>0, <1>3, MatchFacts
    <2>2. p.len < route.len
      BY <1>1, <1>3, <1>4, <2>1
    <2> QED BY <1>3, <2>1, <2>2, ShorterMarked
  <1>5. Routes!lookup(key) = Routes!Dest(Routes!Matching(key))
    BY <1>0, <1>3, <1>4, SoundLookup
  <1> QED BY <1>3, <1>5

LEMMA RoutesMark ==
    ASSUME RoutesInv, Routes!Mark
    PROVE  RoutesInv'
  <1>0. RoutesTyped /\ RoutesOrdered /\ RibTyped /\ ChainTyped
    BY DEF RoutesInv, RoutesTyped
  <1>1. PICK m : m = Routes!len_marker
    OBVIOUS
  <1>2. PICK key : key = Routes!mask(route.addr, m + 1)
    OBVIOUS
  <1>3. PICK val : val = Routes!lookup(key)
    OBVIOUS
  <1>4. /\ route # Routes!NoRoute /\ m < route.len - 1 /\ start' = m + 1
        /\ Routes!insert(m, key, val)
        /\ dests' = dests /\ items' = items /\ adds' = adds /\ pending' = pending /\ route' = route /\ end' = end
    BY <1>1, <1>2, <1>3 DEF Routes!Mark, Routes!marker_dest
  <1>5. PICK n \in 0..Bits :
            /\ route \in DOMAIN dests /\ route.len - 1 \in Lengths /\ m \in Lengths
            /\ n + 1 \in 0..Bits /\ route.len - 1 <= end
            /\ InTree(m + 1, end, n + 1)
            /\ Led(Marks(n)) /\ Right
            /\ m \in Routes!Turns(route.len - 1)
            /\ TurnsUpTo(route.len - 1, n + 1) = TurnsUpTo(route.len - 1, n) \cup {m}
    BY <1>4, <1>1, AtRoute
  <1>6. m \in Nat /\ m + 1 \in 0..Bits /\ \A t \in Lengths : t \in Nat /\ t + 1 \in 0..Bits
    BY <1>5, RouteConstants
  <1>7. key \in Routes!Addresses
    <2>1. route.addr \in Routes!Addresses
      BY <1>0, <1>5, RouteFacts DEF RibTyped
    <2> QED BY <1>2, <1>6, <2>1, MaskFacts
  <1>8. val \in Nat
    <2>1. Bits \in 0..Bits
      BY RouteConstants
    <2>2. Routes!Search(key)[Bits] \in SearchStates
      BY <1>0, <1>7, <2>1, SearchFacts
    <2> QED BY <1>3, <2>2 DEF Routes!lookup, SearchStates
  <1>9. /\ ChainTyped' /\ lost \subseteq lost' /\ Routes!find(m, key)' = val
        /\ \A t1 \in Lengths, k1 \in Routes!Addresses : t1 # m \/ k1 # key =>
              \/ Routes!find(t1, k1)' = Routes!find(t1, k1)
              \/ Routes!find(t1, k1)' = 0 /\ <<t1, k1>> \in lost'
    BY <1>0, <1>4, <1>5, <1>7, <1>8, InsertFacts
  <1>10. ASSUME NEW ip \in Routes!Addresses, NEW t \in Lengths
         PROVE  \/ t = m /\ Routes!mask(ip, t + 1) = key /\ At(ip, t)' = val
                \/ ~(t = m /\ Routes!mask(ip, t + 1) = key) /\ At(ip, t)' = At(ip, t)
                \/ /\ ~(t = m /\ Routes!mask(ip, t + 1) = key)
                   /\ At(ip, t)' = 0 /\ <<t, Routes!mask(ip, t + 1)>> \in lost'
    <2>1. PICK k1 \in Routes!Addresses : k1 = Routes!mask(ip, t + 1)
      BY <1>6, MaskFacts
    <2>2. At(ip, t)' = Routes!find(t, k1)' /\ At(ip, t) = Routes!find(t, k1)
      BY <2>1 DEF At, Routes!find
    <2> QED BY <1>9, <2>1, <2>2
  <1>11. ASSUME NEW ip \in Routes!Addresses, NEW t \in Lengths, (<<t, Routes!mask(ip, t + 1)>> \in Marks(n + 1))'
         PROVE  <<t, Routes!mask(ip, t + 1)>> \in Marks(n) \/ (t = m /\ Routes!mask(ip, t + 1) = key)
    <2>1. PICK k1 \in Routes!Addresses : k1 = Routes!mask(ip, t + 1)
      BY <1>6, MaskFacts
    <2>2. (<<t, k1>> \in Marks(n + 1))'
      BY <1>11, <2>1
    <2>3. PICK p \in Reached' : t \in Turned(p, n + 1)' /\ k1 = Routes!mask(p.addr, t + 1)
      BY <2>2, MarksFacts
    <2>4. p \in Reached
      BY <1>4, <2>3 DEF Reached
    <2>5. CASE t \in Turned(p, n)
      BY <2>1, <2>3, <2>4, <2>5, MarksFacts
    <2>6. CASE t \notin Turned(p, n)
      <3>1. p = route /\ t \in TurnsUpTo(route.len - 1, n + 1) /\ t \notin TurnsUpTo(route.len - 1, n)
        BY <1>4, <2>3, <2>6 DEF Turned
      <3>2. t = m
        BY <1>5, <3>1
      <3> QED BY <1>2, <2>1, <2>3, <3>1, <3>2
    <2> QED BY <2>5, <2>6
  <1>12. /\ Routes!Guided' = Routes!Guided
         /\ \A ip : Routes!Matching(ip)' = Routes!Matching(ip) /\ Routes!MatchLen(ip)' = Routes!MatchLen(ip)
         /\ \A ip, k : Routes!IntactTo(ip, k)' => Routes!IntactTo(ip, k)
         /\ \A ip : Routes!Sound(ip)' => Routes!Sound(ip)
         /\ \A S : Routes!Dest(S)' = Routes!Dest(S)
    BY <1>4, <1>9, SameRib, RouteSoundBefore
  <1>13. Led(Marks(n + 1))'
    <2> SUFFICES ASSUME NEW ip \in Routes!Addresses, NEW t \in Lengths, Routes!IntactTo(ip, t + 1)',
                        \/ (<<t, Routes!mask(ip, t + 1)>> \in Marks(n + 1))'
                        \/ \E p \in Routes!Matching(ip)' : p.len = t + 1,
                        NEW q \in Routes!Guided', q.len <= t + 1, Routes!Covers(q, ip)
                 PROVE  At(ip, t)' # 0
      BY DEF Led, Routes!Covers
    <2>1. Routes!IntactTo(ip, t + 1) /\ q \in Routes!Guided
      BY <1>12
    <2>2. <<t, Routes!mask(ip, t + 1)>> \notin lost'
      <3>1. t \in 0..((t + 1) - 1)
        BY <1>6
      <3> QED BY <3>1 DEF Routes!IntactTo
    <2>3. CASE t = m /\ Routes!mask(ip, t + 1) = key
      <3>1. \A l \in 0..(m + 1) : Routes!mask(key, l) = Routes!mask(ip, l)
        BY <1>6, <2>3, MaskFacts
      <3>2. Routes!IntactTo(key, m + 1)
        <4>1. \A l \in 0..((m + 1) - 1) : l + 1 \in 0..(m + 1)
          BY <1>6
        <4> QED BY <2>1, <2>3, <3>1, <4>1 DEF Routes!IntactTo
      <3>3. Routes!Covers(q, key)
        <4>1. q \in Routes!RoutePrefixes /\ q.len \in Nat
          BY <1>0, <2>1, GuidedFacts, RouteFacts DEF RibTyped
        <4>2. m + 1 \in q.len..Bits
          BY <1>6, <2>3, <4>1
        <4> QED BY <2>3, <4>1, <4>2, RouteCovers
      <3>4. val # 0
        BY <1>3, <1>4, <1>5, <1>7, <2>1, <2>3, <3>2, <3>3, MarkerLed
      <3> QED BY <1>10, <2>3, <3>4
    <2>4. CASE ~(t = m /\ Routes!mask(ip, t + 1) = key)
      <3>1. At(ip, t)' = At(ip, t)
        BY <1>10, <2>2, <2>4
      <3>2. <<t, Routes!mask(ip, t + 1)>> \in Marks(n) \/ \E p \in Routes!Matching(ip) : p.len = t + 1
        BY <1>11, <1>12, <2>4
      <3>3. At(ip, t) # 0
        BY <1>5, <2>1, <3>2 DEF Led
      <3> QED BY <3>1, <3>3
    <2> QED BY <2>3, <2>4
  <1>14. Right'
    <2> SUFFICES ASSUME NEW ip \in Routes!Addresses, NEW t \in Lengths, Routes!Sound(ip)'
                 PROVE  /\ t + 1 > Routes!MatchLen(ip)' => At(ip, t)' \in {0, Routes!Dest(Routes!Matching(ip))'}
                        /\ t + 1 = Routes!MatchLen(ip)' => At(ip, t)' = Routes!Dest(Routes!Matching(ip))'
      BY DEF Right
    <2>1. Routes!Sound(ip) /\ Routes!MatchLen(ip)' = Routes!MatchLen(ip)
      BY <1>12
    <2>2. PICK d : d = Routes!Dest(Routes!Matching(ip)) /\ d = Routes!Dest(Routes!Matching(ip))'
      <3>1. Routes!Dest(Routes!Matching(ip))' = Routes!Dest(Routes!Matching(ip))
        <4>1. Routes!Matching(ip)' = Routes!Matching(ip) /\ dests' = dests
          BY <1>4, <1>12
        <4>2. Routes!Longest(Routes!Matching(ip))' = Routes!Longest(Routes!Matching(ip))
          BY <4>1 DEF Routes!Longest
        <4> QED BY <4>1, <4>2 DEF Routes!Dest
      <3> QED BY <3>1
    <2>3. PICK ml \in Nat : ml = Routes!MatchLen(ip)
      BY <1>0, MatchFacts
    <2>4. ASSUME t + 1 >= ml, t = m /\ Routes!mask(ip, t + 1) = key PROVE At(ip, t)' = d
      <3>1. val = d
        BY <1>2, <1>3, <1>5, <2>1, <2>2, <2>3, <2>4, MarkerRight
      <3> QED BY <1>10, <2>4, <3>1
    <2>5. t + 1 > ml => At(ip, t) \in {0, d}
      BY <1>5, <2>1, <2>2, <2>3 DEF Right
    <2>6. t + 1 = ml => At(ip, t) = d
      BY <1>5, <2>1, <2>2, <2>3 DEF Right
    <2>7. t + 1 = ml => <<t, Routes!mask(ip, t + 1)>> \notin lost'
      <3> SUFFICES ASSUME t + 1 = ml PROVE <<t, Routes!mask(ip, t + 1)>> \notin lost'
        OBVIOUS
      <3>1. Routes!IntactTo(ip, Routes!MatchLen(ip))'
        BY DEF Routes!Sound
      <3>2. t \in 0..(Routes!MatchLen(ip)' - 1)
        BY <1>6, <2>1, <2>3
      <3> QED BY <3>1, <3>2 DEF Routes!IntactTo
    <2>8. t + 1 > ml => At(ip, t)' \in {0, d}
      <3>1. t + 1 > ml => t + 1 >= ml
        BY <1>6
      <3> QED BY <1>10, <2>4, <2>5, <3>1
    <2>9. t + 1 = ml => At(ip, t)' = d
      <3>1. t + 1 = ml => t + 1 >= ml
        BY <1>6
      <3> QED BY <1>10, <2>4, <2>6, <2>7, <3>1
    <2> QED BY <2>1, <2>2, <2>3, <2>8, <2>9
  <1>15. route' \in DOMAIN dests /\ RoutesOrdered' /\ pending' \subseteq pending
    BY <1>0, <1>4, <1>5 DEF RoutesOrdered
  <1>16. InTree(start', end', n + 1) /\ start' <= route'.len - 1 /\ route'.len - 1 <= end'
    <2>1. m + 1 <= route.len - 1
      BY <1>4, <1>5, RouteConstants
    <2> QED BY <1>4, <1>5, <2>1
  <1> QED BY <1>4, <1>5, <1>9, <1>13, <1>14, <1>15, <1>16, BuildSteps

LEMMA RoutesStep == RoutesInv /\ Routes!Next => RoutesInv'
  BY RoutesAdd, RoutesBuild, RoutesVisit, RoutesMark, RoutesGoShorter, RoutesLeave DEF Routes!Next

LEMMA RoutesStutter == RoutesInv /\ UNCHANGED routeVars => RoutesInv'
  <1> SUFFICES ASSUME RoutesInv, UNCHANGED routeVars PROVE RoutesInv'
    OBVIOUS
  <1>0. RoutesTyped /\ RoutesOrdered /\ AddPhase /\ BuildPhase
    BY DEF RoutesInv
  <1>1. /\ dests' = dests /\ chain' = chain /\ lost' = lost /\ items' = items /\ adds' = adds
        /\ pending' = pending /\ route' = route /\ start' = start /\ end' = end
    BY DEF routeVars
  <1>2. RoutesTyped' /\ RoutesOrdered'
    BY <1>0, <1>1, SameRib DEF RoutesTyped, ChainTyped, RoutesOrdered
  <1>3. AddPhase'
    BY <1>0, <1>1, SameContent DEF AddPhase
  <1>4. BuildPhase'
    <2> SUFFICES ASSUME adds = MaxAdds + 1
                 PROVE  \E n \in 0..Bits :
                          /\ route # Routes!NoRoute => InTree(start, end, n) /\ start <= route.len - 1 /\ route.len - 1 <= end
                          /\ Led(Marks(n))' /\ Right'
      BY <1>1 DEF BuildPhase
    <2>1. PICK n \in 0..Bits :
              /\ route # Routes!NoRoute => InTree(start, end, n) /\ start <= route.len - 1 /\ route.len - 1 <= end
              /\ Led(Marks(n)) /\ Right
      BY <1>0 DEF BuildPhase
    <2>2. \A p \in Reached' : p \in Reached /\ Turned(p, n)' \subseteq Turned(p, n)
      BY <1>1 DEF Reached, Turned
    <2>3. Led(Marks(n))' /\ Right'
      BY <1>1, <2>1, <2>2, SameMarks
    <2> QED BY <2>1, <2>3
  <1> QED BY <1>2, <1>3, <1>4 DEF RoutesInv

\* SetToSeq: a sequence of the members.
LEMMA MembersInSeq ==
    ASSUME NEW S, IsFiniteSet(S), NEW s, s = Routes!SetToSeq(S)
    PROVE  s \in Seq(S) /\ \A x \in S : \E i \in 1..Len(s) : s[i] = x
  <1>1. PICK n \in Nat : n = Cardinality(S)
    BY FS_CardinalityType
  <1>2. n = Routes!Cardinality(S)
    <2>1. Routes!Cardinality(S) = Cardinality(S)
      BY DEF Routes!Cardinality, Cardinality
    <2> QED BY <1>1, <2>1
  <1>3. \E f \in [1..n -> S] : Routes!IsInjective(f)
    <2>1. PICK f : f \in Bijection(1..n, S)
      BY <1>1, FS_CardinalityType DEF ExistsBijection
    <2>2. f \in [1..n -> S] /\ IsInjective(f)
      BY <2>1 DEF Bijection, Injection
    <2>3. Routes!IsInjective(f)
      BY <2>2 DEF IsInjective, Routes!IsInjective
    <2> QED BY <2>2, <2>3
  <1>4. s \in [1..n -> S] /\ Routes!IsInjective(s)
    <2>1. s = CHOOSE f \in [1..n -> S] : Routes!IsInjective(f)
      BY <1>2 DEF Routes!SetToSeq
    <2> QED BY <1>3, <2>1
  <1>5. s \in Injection(1..n, S)
    <2>1. IsInjective(s)
      BY <1>4 DEF IsInjective, Routes!IsInjective
    <2> QED BY <1>4, <2>1 DEF Injection
  <1>6. IsFiniteSet(1..n) /\ Cardinality(1..n) = Cardinality(S)
    BY <1>1, FS_Interval
  <1>7. s \in Surjection(1..n, S)
    BY <1>5, <1>6, FS_Injection
  <1>8. s \in Seq(S) /\ Len(s) = n
    BY <1>4
  <1> QED BY <1>7, <1>8 DEF Surjection

LEMMA HalvesFinite == IsFiniteSet(Routes!Halves)
  <1>1. Bits \in Nat \ {0} /\ 1 \in 0..Bits
    BY RouteConstants
  <1>2. PICK n \in Nat : n = Routes!PowerOf2[1]
    BY <1>1, RouteConstants DEF IsPowers
  <1>3. PICK T : T = {[len |-> 1, addr |-> k * Routes!PowerOf2[Bits - 1]] : k \in 0..(n - 1)}
    OBVIOUS
  <1>4. IsFiniteSet(0..(n - 1))
    BY FS_Interval
  <1>5. [k \in 0..(n - 1) |-> [len |-> 1, addr |-> k * Routes!PowerOf2[Bits - 1]]] \in Surjection(0..(n - 1), T)
    BY <1>3 DEF Surjection
  <1>6. IsFiniteSet(T)
    BY ONLY <1>4, <1>5, FS_Surjection
  <1>7. Routes!Halves \subseteq T
    <2>1. ASSUME NEW p \in Routes!Halves PROVE p \in T
      <3>1. p \in Routes!RoutePrefixes /\ p.len = 1
        BY DEF Routes!Halves
      <3>2. PICK l \in 1..Bits : p \in {[len |-> l, addr |-> k * Routes!PowerOf2[Bits - l]] :
                                      k \in 0..(Routes!PowerOf2[l] - 1)}
        BY <3>1 DEF Routes!RoutePrefixes
      <3>3. PICK k \in 0..(Routes!PowerOf2[l] - 1) : p = [len |-> l, addr |-> k * Routes!PowerOf2[Bits - l]]
        BY <3>2
      <3>4. l = 1
        BY <3>1, <3>3
      <3> QED BY <1>2, <1>3, <3>3, <3>4
    <2> QED BY <2>1
  <1> QED BY ONLY <1>6, <1>7, FS_Subset

LEMMA RoutesInit == Routes!Init => RoutesInv
  <1> SUFFICES ASSUME Routes!Init PROVE RoutesInv
    OBVIOUS
  <1> DEFINE Sub(t, b) == {q \in DOMAIN dests : q.len = t + 1 /\ Routes!HASH(q.addr) = b}
             Items(t, b) == {[key |-> p.addr, val |-> dests[p]] : p \in Sub(t, b)}
  <1>1. PICK base \in {{}, Routes!Halves} :
            /\ dests = [p \in base |-> MaxAdds + 1 + p.addr]
            /\ chain = [t \in Lengths |-> [b \in BucketIds |-> Routes!SetToSeq(
                    {[key |-> p.addr, val |-> dests[p]] :
                         p \in {q \in base : q.len = t + 1 /\ Routes!HASH(q.addr) = b}})]]
            /\ items = {<<p, 0>> : p \in base} /\ lost = {} /\ adds = 0 /\ pending = {} /\ route = Routes!NoRoute /\ start = 0 /\ end = 0
    BY DEF Routes!Init, Lengths, BucketIds
  <1>2. base \subseteq Routes!RoutePrefixes /\ IsFiniteSet(base)
    <2>1. IsFiniteSet({}) /\ Routes!Halves \subseteq Routes!RoutePrefixes
      BY FS_EmptySet DEF Routes!Halves
    <2> QED BY <2>1, HalvesFinite
  <1>3. DOMAIN dests = base
    BY <1>1
  <1>4. RibTyped
    <2>1. ASSUME NEW p \in base PROVE dests[p] \in Nat \ {0}
      <3>1. p.addr \in Nat
        <4>1. \A n : \A k \in 0..n : k \in Nat
          OBVIOUS
        <4> QED BY <1>2, <4>1, RouteFacts DEF Routes!Addresses
      <3> QED BY <1>1, <3>1, RouteConstants
    <2> QED BY <1>2, <1>3, <2>1 DEF RibTyped
  <1>5. \A t \in Lengths, b \in BucketIds : chain[t][b] = Routes!SetToSeq(Items(t, b))
    BY <1>1, <1>3
  <1>6. ASSUME NEW t \in Lengths, NEW b \in BucketIds PROVE IsFiniteSet(Items(t, b)) /\ Items(t, b) \subseteq ChainItem
    <2>1. IsFiniteSet(Sub(t, b))
      <3>1. Sub(t, b) \subseteq base
        BY <1>3
      <3> HIDE DEF Sub
      <3> QED BY <1>2, <3>1, FS_Subset
    <2>2. [p \in Sub(t, b) |-> [key |-> p.addr, val |-> dests[p]]] \in Surjection(Sub(t, b), Items(t, b))
      BY DEF Surjection
    <2>3. IsFiniteSet(Items(t, b))
      <3> HIDE DEF Sub, Items
      <3> QED BY ONLY <2>1, <2>2, FS_Surjection
    <2>4. Items(t, b) \subseteq ChainItem
      <3>1. \A p \in Sub(t, b) : p.addr \in Routes!Addresses /\ dests[p] \in Nat
        BY <1>4, RouteFacts DEF RibTyped
      <3> QED BY <3>1 DEF ChainItem
    <2> QED BY <2>3, <2>4
  <1>7. ASSUME NEW t \in Lengths, NEW b \in BucketIds, NEW c, c = chain[t][b]
        PROVE  /\ c \in Seq(ChainItem) /\ \A i \in 1..Len(c) : c[i] \in Items(t, b)
               /\ \A x \in Items(t, b) : \E i \in 1..Len(c) : c[i] = x
    <2> HIDE DEF Items
    <2>1. c \in Seq(Items(t, b)) /\ \A x \in Items(t, b) : \E i \in 1..Len(c) : c[i] = x
      BY <1>5, <1>6, <1>7, MembersInSeq
    <2>2. \A i \in 1..Len(c) : c[i] \in Items(t, b)
      BY <2>1
    <2>3. c \in Seq(ChainItem)
      BY <1>6, <2>1, <2>2
    <2> QED BY <2>1, <2>2, <2>3
  <1>8. ChainTyped
    <2>1. \A t \in Lengths, b \in BucketIds : chain[t][b] \in Seq(ChainItem)
      BY <1>7
    <2>2. chain = [t \in Lengths |-> [b \in BucketIds |-> chain[t][b]]]
      BY <1>1
    <2> QED BY <2>1, <2>2 DEF ChainTyped
  <1>9. HoldsRoutes
    <2>1. ASSUME NEW t \in Lengths, NEW key \in Routes!Addresses PROVE Routes!find(t, key) = Own(t, key)
      <3>1. PICK b \in BucketIds : b = Routes!HASH(key)
        BY HashFacts
      <3>2. PICK c : c = chain[t][b]
        OBVIOUS
      <3>3. /\ c \in Seq(ChainItem) /\ \A i \in 1..Len(c) : c[i] \in Items(t, b)
            /\ \A x \in Items(t, b) : \E i \in 1..Len(c) : c[i] = x
        BY <1>7, <3>2
      <3>4. Routes!find(t, key) = ValueIn(c, key)
        BY <1>8, <3>1, <3>2, FindFacts
      <3>5. PICK r : r = [len |-> t + 1, addr |-> key]
        OBVIOUS
      <3>6. Own(t, key) = IF r \in DOMAIN dests THEN dests[r] ELSE 0
        BY <3>5 DEF Own
      <3>7. ASSUME NEW i \in 1..Len(c), c[i].key = key PROVE r \in DOMAIN dests /\ c[i].val = dests[r]
        <4>1. PICK p \in Sub(t, b) : c[i] = [key |-> p.addr, val |-> dests[p]]
          BY <3>3
        <4>2. p \in DOMAIN dests /\ p.len = t + 1 /\ p.addr = key
          BY <3>7, <4>1
        <4>3. p = [len |-> p.len, addr |-> p.addr]
          BY <1>2, <1>3, <4>2, RouteFacts
        <4>4. p = r
          BY <3>5, <4>2, <4>3
        <4> QED BY <4>1, <4>2, <4>4
      <3>8. PICK j : j = Routes!KeyAt(c, key)
        OBVIOUS
      <3>9. \/ j = 0 /\ \A k \in 1..Len(c) : c[k].key # key
            \/ j \in 1..Len(c) /\ c[j].key = key
        BY <3>3, <3>8, KeyFacts
      <3>10. CASE j = 0
        <4>1. \A k \in 1..Len(c) : c[k].key # key
          BY <3>9, <3>10
        <4>2. r \notin DOMAIN dests
          <5> SUFFICES ASSUME r \in DOMAIN dests PROVE FALSE
            OBVIOUS
          <5>1. r \in Sub(t, b)
            BY <3>1, <3>5
          <5>2. [key |-> r.addr, val |-> dests[r]] \in Items(t, b)
            BY <5>1
          <5>3. PICK i \in 1..Len(c) : c[i] = [key |-> r.addr, val |-> dests[r]]
            BY <3>3, <5>2
          <5>4. c[i].key = key
            BY <3>5, <5>3
          <5> QED BY <4>1, <5>4
        <4> QED BY <3>4, <3>6, <3>8, <3>10, <4>2 DEF ValueIn
      <3>11. CASE j # 0
        <4>1. j \in 1..Len(c) /\ c[j].key = key
          BY <3>9, <3>11
        <4>2. r \in DOMAIN dests /\ c[j].val = dests[r]
          BY <3>7, <4>1
        <4> QED BY <3>4, <3>6, <3>8, <3>11, <4>2 DEF ValueIn
      <3> QED BY <3>10, <3>11
    <2> QED BY <2>1 DEF HoldsRoutes
  <1>10. MaxAdds \in Nat /\ adds # MaxAdds + 1 /\ adds \in 0..(MaxAdds + 1)
    BY <1>1, RouteConstants
  <1>11. (\A x \in items : x[1] \in DOMAIN dests) /\ \A p \in DOMAIN dests : \E x \in items : x[1] = p
    <2>1. \A p, x : x = <<p, 0>> => x[1] = p
      OBVIOUS
    <2>2. \A p \in base : <<p, 0>> \in items
      BY <1>1
    <2>3. \A x \in items : \E p \in base : x = <<p, 0>>
      BY <1>1
    <2> QED BY ONLY <1>3, <2>1, <2>2, <2>3
  <1> HIDE DEF Items, Sub
  <1>12. RoutesTyped
    BY <1>1, <1>4, <1>8, <1>10, <1>11 DEF RoutesTyped
  <1>13. RoutesOrdered /\ AddPhase /\ BuildPhase
    BY <1>1, <1>9, <1>10 DEF RoutesOrdered, AddPhase, BuildPhase
  <1> QED BY <1>12, <1>13 DEF RoutesInv

LEMMA RoutesFound == RoutesInv => Routes!LookupIsLongest
  <1> SUFFICES ASSUME RoutesInv, Routes!Built, NEW ip \in Routes!Addresses, Routes!Sound(ip)
               PROVE  Routes!lookup(ip) = Routes!Dest(Routes!Matching(ip))
    BY DEF Routes!LookupIsLongest, Routes!Wrong
  <1>0. RibTyped /\ ChainTyped /\ BuildPhase
    BY DEF RoutesInv, RoutesTyped
  <1>1. adds = MaxAdds + 1 /\ pending = {} /\ route = Routes!NoRoute
    BY DEF Routes!Built
  <1>2. PICK n \in 0..Bits : Led(Marks(n)) /\ Right
    BY <1>0, <1>1 DEF BuildPhase
  <1>3. ASSUME NEW p \in Routes!Matching(ip), NEW t \in Routes!Turns(p.len - 1)
        PROVE  <<t, Routes!mask(ip, t + 1)>> \in Marks(n)
    <2>1. /\ p \in DOMAIN dests /\ p \in Routes!RoutePrefixes /\ Routes!Covers(p, ip)
          /\ p.len \in Nat /\ p.len \in 1..Bits /\ p.len - 1 \in Lengths /\ p # Routes!NoRoute
      BY <1>0, RouteFacts DEF Routes!Matching, RibTyped
    <2>2. t \in Lengths /\ t < p.len - 1
      BY <2>1, TurnFacts
    <2>3. t + 1 \in 0..p.len /\ t + 1 \in 0..Bits
      BY <2>1, <2>2, RouteConstants
    <2>4. Routes!mask(p.addr, t + 1) = Routes!mask(ip, t + 1) /\ Routes!mask(ip, t + 1) \in Routes!Addresses
      BY <2>1, <2>3, RouteCovers, MaskFacts
    <2>5. p \in Reached /\ t \in Turned(p, n)
      BY <1>1, <2>1 DEF Reached, Turned
    <2> QED BY <2>2, <2>4, <2>5, MarksFacts
  <1> QED BY <1>0, <1>2, <1>3, SoundLookup

\* LookupIP6Route: for addresses of any width, however many routes there are and however
\* they share buckets, a lookup in the finished tables finds the longest route of its
\* address, unless markers do not lead to that route, an insert has cut off something on
\* the way to it, or a marker on that way was made for an address with a longer route.
THEOREM RoutesCorrect == AnySpec => []RoutesLongestMatch
  <1> DEFINE PartInv == part = "routes" => RoutesInv
  <1>1. AnyInit => PartInv
    BY RoutesInit DEF AnyInit
  <1>2. PartInv /\ [AnyNext]_<<part, vars, fibVars, routeVars, graphVars>> => PartInv'
    <2> SUFFICES ASSUME PartInv, [AnyNext]_<<part, vars, fibVars, routeVars, graphVars>>, part' = "routes"
                 PROVE  RoutesInv'
      OBVIOUS
    <2>1. part = "routes" /\ (Routes!Next \/ UNCHANGED routeVars)
      BY DEF AnyNext
    <2> QED BY <2>1, RoutesStep, RoutesStutter
  <1>3. PartInv => RoutesLongestMatch
    BY RoutesFound DEF RoutesLongestMatch
  <1> QED BY <1>1, <1>2, <1>3, PTL DEF AnySpec
-----------------------------------------------------------------------------
(* The linear groups of the element graph                                  *)

Elements == Graph!Modules

Occurs(g, x) == \E i \in 1..Len(g) : g[i] = x

GraphTyped ==
    /\ outEdge \in [Elements -> SUBSET Elements]
    /\ \A m \in Elements : \A c \in outEdge[m] : m < c
    /\ roots \subseteq Elements /\ visited \subseteq Elements
    /\ dfsStack \in Seq(Elements)
    /\ linear_group_set \in Seq(Seq(Elements))
    /\ linear_group \in [Elements -> -1..(Len(linear_group_set) - 1)]

GroupOf(m) == linear_group_set[linear_group[m] + 1]

\* An element is in the group it knows, from its visit on.
MembersInv ==
    /\ \A m \in Elements : \A i \in 1..Len(linear_group_set) :
          Occurs(linear_group_set[i], m) <=> linear_group[m] = i - 1
    /\ \A m \in Elements \ visited : linear_group[m] = -1
    /\ \A m \in visited : Cardinality(outEdge[m]) = 1 => linear_group[m] # -1

\* In a group, what stands before an element for the first time only leads to it.
Linked(g) ==
    \A m \in Elements :
        Occurs(g, m) /\ Graph!FirstAt(g, m) > 1 => Graph!OnlyFollows(g[Graph!FirstAt(g, m) - 1], m)
LinksInv == \A i \in 1..Len(linear_group_set) : Linked(linear_group_set[i])

\* An element that only follows another one is visited right after it, and once.
Chained(p, m) ==
    /\ p \in visited /\ m \in visited =>
          /\ linear_group[m] = linear_group[p]
          /\ Graph!FirstAt(GroupOf(p), m) = Graph!FirstAt(GroupOf(p), p) + 1
    /\ p \in visited /\ m \notin visited =>
          /\ dfsStack # <<>> /\ dfsStack[Len(dfsStack)] = m
          /\ Graph!FirstAt(GroupOf(p), p) = Len(GroupOf(p))
    /\ m \in visited => p \in visited
ChainInv ==
    /\ \A p, m \in Elements : Graph!OnlyFollows(p, m) => Chained(p, m)
    /\ \A i \in 1..Len(dfsStack) : \A p \in Elements : Graph!OnlyFollows(p, dfsStack[i]) =>
          i = Len(dfsStack) /\ p \in visited /\ dfsStack[i] \notin visited

\* Nothing that can be reached is forgotten.
ReachInv ==
    /\ \A m \in roots : Graph!inEdge(m) = {} /\ m \notin visited /\ ~Occurs(dfsStack, m)
    /\ \A m \in Elements : Graph!inEdge(m) = {} => m \in roots \/ m \in visited \/ Occurs(dfsStack, m)
    /\ \A m \in visited : \A c \in outEdge[m] : c \in visited \/ Occurs(dfsStack, c)

\* An element on the stack has a parent that leads to x another way.
Above(m, x) == \E p \in Graph!inEdge(m) : \E c \in outEdge[p] \ {m} : x \in Graph!Below[c]
Shortcut(m) == Above(m, m)
AboveInv ==
    /\ \A i, j \in 1..Len(dfsStack) : i < j => Above(dfsStack[i], dfsStack[j])
    /\ \A i \in 1..Len(dfsStack) : dfsStack[i] \in visited => Shortcut(dfsStack[i])
Single(g) == \A j, k \in 1..Len(g) : j < k /\ g[j] = g[k] => Shortcut(g[j])
SingleInv == \A i \in 1..Len(linear_group_set) : Single(linear_group_set[i])

GraphInv ==
    GraphTyped /\ MembersInv /\ LinksInv /\ ChainInv /\ ReachInv /\ AboveInv /\ SingleInv

LEMMA ElementFacts ==
    /\ NumModules \in Nat /\ Elements = 1..NumModules /\ IsFiniteSet(Elements)
  BY PartsAssumption, FS_Interval DEF Graph!ModulesAssumption, Graph!Modules, Elements

\* The first place of an element.
LEMMA FirstFacts ==
    ASSUME NEW S, NEW g \in Seq(S), NEW x
    PROVE  /\ Occurs(g, x) => /\ Graph!FirstAt(g, x) \in 1..Len(g) /\ g[Graph!FirstAt(g, x)] = x
                          /\ \A i \in 1..Len(g) : g[i] = x => Graph!FirstAt(g, x) <= i
           /\ ~Occurs(g, x) => Graph!FirstAt(g, x) = 0
  <1> DEFINE I == {i \in 1..Len(g) : g[i] = x}
  <1>1. Graph!FirstAt(g, x) = IF I # {} THEN Graph!Min(I) ELSE 0
    BY DEF Graph!FirstAt, Graph!SelectInSeq
  <1>2. Len(g) \in Nat /\ I \subseteq Nat
    BY LenProperties
  <1>3. I # {} => Graph!Min(I) \in I /\ \A y \in I : Graph!Min(I) <= y
    <2> SUFFICES ASSUME I # {} PROVE Graph!Min(I) \in I /\ \A y \in I : Graph!Min(I) <= y
      OBVIOUS
    <2> HIDE DEF I
    <2>1. PICK n \in I : \A m \in I : <<m, n>> \notin Less
      BY <1>2, LessWellFounded, WFMin
    <2>2. ASSUME NEW y \in I PROVE n <= y
      <3>1. n \in Nat /\ y \in Nat /\ <<y, n>> \notin Less
        BY <1>2, <2>1
      <3>2. ~(y < n)
        BY <3>1 DEF Less
      <3> QED BY <3>1, <3>2
    <2> QED BY <2>2 DEF Graph!Min
  <1>4. Occurs(g, x) <=> I # {}
    BY DEF Occurs
  <1> QED BY <1>1, <1>3, <1>4

LEMMA FirstKnown ==
    ASSUME NEW S, NEW g \in Seq(S), NEW x, NEW k \in 1..Len(g), g[k] = x,
           \A i \in 1..Len(g) : i < k => g[i] # x
    PROVE  Occurs(g, x) /\ Graph!FirstAt(g, x) = k
  <1>1. Occurs(g, x) /\ Len(g) \in Nat
    BY LenProperties DEF Occurs
  <1>2. /\ Graph!FirstAt(g, x) \in 1..Len(g) /\ g[Graph!FirstAt(g, x)] = x /\ Graph!FirstAt(g, x) <= k
    BY <1>1, FirstFacts
  <1> QED BY <1>1, <1>2

LEMMA AppendFacts ==
    ASSUME NEW S, NEW g \in Seq(S), NEW m \in S
    PROVE  /\ Append(g, m) \in Seq(S) /\ Len(Append(g, m)) = Len(g) + 1 /\ Len(g) \in Nat
           /\ \A i \in 1..Len(g) : Append(g, m)[i] = g[i] /\ i \in 1..(Len(g) + 1)
           /\ Append(g, m)[Len(g) + 1] = m
           /\ \A i \in 1..(Len(g) + 1) : i \in 1..Len(g) \/ i = Len(g) + 1
  BY AppendProperties, LenProperties

LEMMA InAppend ==
    ASSUME NEW S, NEW g \in Seq(S), NEW m \in S
    PROVE  \A x : Occurs(Append(g, m), x) <=> Occurs(g, x) \/ x = m
  <1>1. ASSUME NEW x, Occurs(g, x) PROVE Occurs(Append(g, m), x)
    <2>1. PICK i \in 1..Len(g) : g[i] = x
      BY <1>1 DEF Occurs
    <2>2. i \in 1..Len(Append(g, m)) /\ Append(g, m)[i] = x
      BY <2>1, AppendFacts
    <2> QED BY <2>2 DEF Occurs
  <1>2. Occurs(Append(g, m), m)
    <2>1. Len(g) + 1 \in 1..Len(Append(g, m)) /\ Append(g, m)[Len(g) + 1] = m
      BY AppendFacts
    <2> QED BY <2>1 DEF Occurs
  <1>3. ASSUME NEW x, Occurs(Append(g, m), x) PROVE Occurs(g, x) \/ x = m
    <2>1. PICK i \in 1..Len(Append(g, m)) : Append(g, m)[i] = x
      BY <1>3 DEF Occurs
    <2>2. i \in 1..Len(g) \/ i = Len(g) + 1
      BY AppendFacts
    <2> QED BY <2>1, <2>2, AppendFacts DEF Occurs
  <1> QED BY <1>1, <1>2, <1>3

LEMMA FirstAppend ==
    ASSUME NEW S, NEW g \in Seq(S), NEW m \in S, NEW x
    PROVE  /\ Occurs(g, x) => Graph!FirstAt(Append(g, m), x) = Graph!FirstAt(g, x)
           /\ ~Occurs(g, x) /\ x = m => Graph!FirstAt(Append(g, m), x) = Len(g) + 1
  <1>1. PICK h \in Seq(S) :
          /\ h = Append(g, m) /\ Len(h) = Len(g) + 1 /\ Len(g) \in Nat
          /\ \A i \in 1..Len(g) : h[i] = g[i] /\ i \in 1..(Len(g) + 1)
          /\ h[Len(g) + 1] = m
    <2>1. /\ Append(g, m) \in Seq(S) /\ Len(Append(g, m)) = Len(g) + 1 /\ Len(g) \in Nat
          /\ \A i \in 1..Len(g) : Append(g, m)[i] = g[i] /\ i \in 1..(Len(g) + 1)
          /\ Append(g, m)[Len(g) + 1] = m
      BY AppendFacts
    <2> DEFINE a == Append(g, m)
    <2>2. /\ a \in Seq(S) /\ a = Append(g, m) /\ Len(a) = Len(g) + 1 /\ Len(g) \in Nat
          /\ \A i \in 1..Len(g) : a[i] = g[i] /\ i \in 1..(Len(g) + 1)
          /\ a[Len(g) + 1] = m
      BY <2>1
    <2> HIDE DEF a
    <2> QED BY <2>2
  <1>2. ASSUME Occurs(g, x) PROVE Graph!FirstAt(h, x) = Graph!FirstAt(g, x)
    <2>1. PICK k \in 1..Len(g) : k = Graph!FirstAt(g, x) /\ g[k] = x
                                 /\ \A i \in 1..Len(g) : g[i] = x => k <= i
      BY <1>2, FirstFacts
    <2>2. k \in 1..Len(h) /\ h[k] = x
      BY <1>1, <2>1
    <2>3. ASSUME NEW i \in 1..Len(h), i < k PROVE h[i] # x
      <3>1. i \in 1..Len(g) /\ ~(k <= i)
        BY <1>1, <2>3
      <3> QED BY <1>1, <2>1, <3>1
    <2>4. Graph!FirstAt(h, x) = k
      BY <2>2, <2>3, FirstKnown
    <2> QED BY <2>1, <2>4
  <1>3. ASSUME ~Occurs(g, x), x = m PROVE Graph!FirstAt(h, x) = Len(g) + 1
    <2>1. PICK k \in 1..Len(h) : k = Len(g) + 1 /\ h[k] = x
      BY <1>1, <1>3
    <2>2. ASSUME NEW i \in 1..Len(h), i < k PROVE h[i] # x
      <3>1. i \in 1..Len(g)
        BY <1>1, <2>1, <2>2
      <3> QED BY <1>1, <1>3, <3>1 DEF Occurs
    <2>3. Graph!FirstAt(h, x) = k
      BY <2>1, <2>2, FirstKnown
    <2> QED BY <2>1, <2>3
  <1> QED BY <1>1, <1>2, <1>3

LEMMA SameCardinality == \A S : Graph!Cardinality(S) = Cardinality(S)
  BY DEF Graph!Cardinality, Cardinality

\* SetToSeqs: every member once.
LEMMA ChildrenFacts ==
    ASSUME NEW S \in SUBSET Elements, NEW s \in Graph!SetToSeqs(S)
    PROVE  /\ s \in Seq(Elements) /\ Len(s) \in Nat
           /\ \A i \in 1..Len(s) : s[i] \in S
           /\ \A c \in S : \E i \in 1..Len(s) : s[i] = c
           /\ \A i, j \in 1..Len(s) : i # j => s[i] # s[j]
  <1> DEFINE n == Cardinality(S)
  <1>1. IsFiniteSet(S) /\ n \in Nat
    <2>1. IsFiniteSet(Elements)
      BY ElementFacts
    <2>2. IsFiniteSet(S)
      BY ONLY S \in SUBSET Elements, <2>1, FS_Subset
    <2> QED BY <2>2, FS_CardinalityType
  <1>2. s \in [1..n -> S] /\ \A i, j \in 1..n : i # j => s[i] # s[j]
    <2> DEFINE k == Graph!Cardinality(S)
    <2>1. s \in [1..k -> S] /\ \A i, j \in 1..k : i # j => s[i] # s[j]
      BY DEF Graph!SetToSeqs
    <2>2. k = n
      BY SameCardinality
    <2> HIDE DEF k, n
    <2> QED BY <2>1, <2>2
  <1>3. IsFiniteSet(1..n) /\ Cardinality(1..n) = n
    BY <1>1, FS_Interval
  <1> HIDE DEF n
  <1>4. s \in Seq(Elements) /\ Len(s) = n
    BY <1>1, <1>2
  <1>5. s \in Injection(1..n, S)
    BY <1>2 DEF Injection, IsInjective
  <1>6. s \in Surjection(1..n, S)
    BY <1>1, <1>3, <1>5, FS_Injection DEF n
  <1> QED BY <1>1, <1>2, <1>4, <1>6 DEF Surjection

LEMMA FrontFacts ==
    ASSUME NEW s \in Seq(Elements), s # <<>>
    PROVE  /\ Len(s) \in Nat \ {0} /\ s[Len(s)] \in Elements
           /\ Graph!Front(s) \in Seq(Elements) /\ Len(Graph!Front(s)) = Len(s) - 1
           /\ \A i \in 1..(Len(s) - 1) : Graph!Front(s)[i] = s[i]
  <1>1. Len(s) \in Nat \ {0}
    BY EmptySeq
  <1>2. Len(s) - 1 \in Nat /\ \A i \in 1..(Len(s) - 1) : s[i] \in Elements
    BY <1>1, ElementOfSeq
  <1> DEFINE n == Len(s) - 1
  <1> HIDE DEF n
  <1>a. n \in Nat /\ n \in Int /\ 1 \in Int /\ \A i \in 1..n : s[i] \in Elements
    BY <1>1, <1>2 DEF n
  <1>b. /\ SubSeq(s, 1, n) \in Seq(Elements)
        /\ Len(SubSeq(s, 1, n)) = IF 1 <= n THEN n - 1 + 1 ELSE 0
        /\ \A i \in 1..(n - 1 + 1) : SubSeq(s, 1, n)[i] = s[1 + i - 1]
    BY ONLY <1>a, SubSeqProperties
  <1>3. SubSeq(s, 1, n) \in Seq(Elements) /\ Len(SubSeq(s, 1, n)) = n
    BY <1>a, <1>b
  <1>4. ASSUME NEW i \in 1..n PROVE SubSeq(s, 1, n)[i] = s[i]
    <2>1. i \in 1..(n - 1 + 1) /\ 1 + i - 1 = i
      BY <1>a
    <2>2. SubSeq(s, 1, n)[i] = s[1 + i - 1]
      BY ONLY <1>b, <2>1
    <2> QED BY <2>1, <2>2
  <1>5. Graph!Front(s) = SubSeq(s, 1, n)
    BY DEF Graph!Front, n
  <1>6. s[Len(s)] \in Elements
    BY <1>1, ElementOfSeq
  <1> QED BY <1>1, <1>3, <1>4, <1>5, <1>6 DEF n

\* The stack t, after the top of s was replaced by kids.
Replaced(s, kids, t) ==
    /\ t \in Seq(Elements) /\ Len(t) = Len(s) - 1 + Len(kids)
    /\ \A i \in 1..(Len(s) - 1) : t[i] = s[i] /\ i \in 1..Len(t)
    /\ \A j \in 1..Len(kids) : t[Len(s) - 1 + j] = kids[j] /\ Len(s) - 1 + j \in 1..Len(t)
    /\ \A i \in 1..Len(t) : i \in 1..(Len(s) - 1) \/ \E j \in 1..Len(kids) : i = Len(s) - 1 + j

LEMMA ReplaceFacts ==
    ASSUME NEW s \in Seq(Elements), s # <<>>, NEW kids \in Seq(Elements)
    PROVE  Replaced(s, kids, Graph!Front(s) \o kids)
  <1>1. PICK f \in Seq(Elements) :
          /\ f = Graph!Front(s) /\ Len(f) = Len(s) - 1 /\ \A i \in 1..(Len(s) - 1) : f[i] = s[i]
    BY FrontFacts
  <1>2. Len(s) \in Nat \ {0} /\ Len(f) \in Nat /\ Len(kids) \in Nat
    BY <1>1, FrontFacts, LenProperties
  <1>3. /\ f \o kids \in Seq(Elements) /\ Len(f \o kids) = Len(f) + Len(kids)
        /\ \A i \in 1..(Len(f) + Len(kids)) :
              (f \o kids)[i] = IF i <= Len(f) THEN f[i] ELSE kids[i - Len(f)]
    BY ConcatProperties
  <1>4. ASSUME NEW i \in 1..(Len(s) - 1) PROVE (f \o kids)[i] = s[i] /\ i \in 1..Len(f \o kids)
    <2>1. i \in 1..(Len(f) + Len(kids)) /\ i <= Len(f)
      BY <1>1, <1>2
    <2> QED BY <1>1, <1>3, <2>1
  <1>5. ASSUME NEW j \in 1..Len(kids)
        PROVE  /\ (f \o kids)[Len(s) - 1 + j] = kids[j]
               /\ Len(s) - 1 + j \in 1..Len(f \o kids)
    <2>1. /\ Len(s) - 1 + j \in 1..(Len(f) + Len(kids)) /\ ~(Len(s) - 1 + j <= Len(f))
          /\ (Len(s) - 1 + j) - Len(f) = j
      BY <1>1, <1>2
    <2> QED BY <1>3, <2>1
  <1>6. ASSUME NEW i \in 1..Len(f \o kids)
        PROVE  i \in 1..(Len(s) - 1) \/ \E j \in 1..Len(kids) : i = Len(s) - 1 + j
    <2>1. CASE i <= Len(s) - 1
      BY <1>2, <2>1
    <2>2. CASE ~(i <= Len(s) - 1)
      <3>1. i - (Len(s) - 1) \in 1..Len(kids) /\ i = Len(s) - 1 + (i - (Len(s) - 1))
        BY <1>1, <1>2, <1>3, <2>2
      <3> QED BY <3>1
    <2> QED BY <2>1, <2>2
  <1>7. Len(f \o kids) = Len(s) - 1 + Len(kids)
    BY <1>1, <1>3
  <1> QED BY <1>1, <1>3, <1>4, <1>5, <1>6, <1>7 DEF Replaced

LEMMA EdgeFacts ==
    ASSUME GraphTyped, NEW m \in Elements
    PROVE  /\ outEdge[m] \in SUBSET Elements /\ IsFiniteSet(outEdge[m])
           /\ Graph!inEdge(m) \in SUBSET Elements /\ IsFiniteSet(Graph!inEdge(m))
           /\ \A p \in Elements : p \in Graph!inEdge(m) <=> m \in outEdge[p]
           /\ \A p \in Graph!inEdge(m) : p < m
  <1>1. outEdge[m] \in SUBSET Elements /\ Graph!inEdge(m) \in SUBSET Elements
    BY DEF GraphTyped, Graph!inEdge, Elements
  <1>2. IsFiniteSet(Elements)
    BY ElementFacts
  <1>3. \A T \in SUBSET Elements : IsFiniteSet(T)
    BY ONLY <1>2, FS_Subset
  <1>4. \A p \in Elements : p \in Graph!inEdge(m) <=> m \in outEdge[p]
    BY DEF Graph!inEdge, Elements
  <1>5. \A p \in Graph!inEdge(m) : p < m
    BY <1>1, <1>4 DEF GraphTyped
  <1> QED BY <1>1, <1>3, <1>4, <1>5

\* A follower is in the group of the element it follows, others in their own.
LEMMA InheritedFacts ==
    ASSUME GraphTyped, NEW m \in Elements
    PROVE  /\ \A p \in Elements : Graph!OnlyFollows(p, m) => Graph!Inherited(m) = linear_group[p]
           /\ (\A p \in Elements : ~Graph!OnlyFollows(p, m)) => Graph!Inherited(m) = linear_group[m]
  <1>1. ASSUME NEW p \in Elements, Graph!OnlyFollows(p, m)
        PROVE  Graph!Inherited(m) = linear_group[p]
    <2>1. Graph!inEdge(m) = {p} /\ outEdge[p] = {m}
      BY <1>1 DEF Graph!OnlyFollows
    <2>2. Graph!Cardinality(Graph!inEdge(m)) = 1 /\ Graph!Cardinality(outEdge[p]) = 1
      BY <2>1, SameCardinality, FS_Singleton
    <2>3. Graph!Only(Graph!inEdge(m)) = p
      BY <2>1 DEF Graph!Only
    <2> QED BY <2>2, <2>3 DEF Graph!Inherited
  <1>2. ASSUME Graph!Inherited(m) # linear_group[m]
        PROVE  \E p \in Elements : Graph!OnlyFollows(p, m)
    <2> DEFINE q == Graph!Only(Graph!inEdge(m))
    <2>1. Graph!Cardinality(Graph!inEdge(m)) = 1 /\ Graph!Cardinality(outEdge[q]) = 1
      BY <1>2 DEF Graph!Inherited
    <2>2. PICK p : Graph!inEdge(m) = {p}
      BY <2>1, EdgeFacts, SameCardinality, FS_Singleton
    <2>3. q = p
      BY <2>2 DEF Graph!Only
    <2> HIDE DEF q
    <2>4. p \in Elements /\ m \in outEdge[p]
      BY <2>2, EdgeFacts
    <2>5. IsFiniteSet(outEdge[p])
      BY <2>4, EdgeFacts
    <2>6. PICK x : outEdge[p] = {x}
      BY <2>1, <2>3, <2>5, SameCardinality, FS_Singleton
    <2> QED BY <2>2, <2>4, <2>6 DEF Graph!OnlyFollows
  <1> QED BY <1>1, <1>2

\* The visit of m puts it behind base, which was group i or is empty.
Grouped(m, i, base) ==
    /\ base \in Seq(Elements) /\ i \in 1..(Len(linear_group_set) + 1)
    /\ IF i \in 1..Len(linear_group_set)
         THEN base = linear_group_set[i] /\ Len(linear_group_set') = Len(linear_group_set)
         ELSE base = <<>> /\ Len(linear_group_set') = i
    /\ linear_group_set' \in Seq(Seq(Elements))
    /\ linear_group_set'[i] = Append(base, m)
    /\ \A j \in 1..Len(linear_group_set) : j # i => linear_group_set'[j] = linear_group_set[j]
    /\ linear_group' = [linear_group EXCEPT ![m] = i - 1]
    /\ Occurs(base, m) <=> m \in visited
    /\ linear_group[m] = IF m \in visited THEN i - 1 ELSE -1
    /\ \/ /\ \A p \in Elements : ~Graph!OnlyFollows(p, m)
          /\ m \notin visited => base = <<>>
       \/ \E p \in Elements :
             /\ Graph!OnlyFollows(p, m) /\ p \in visited /\ m \notin visited
             /\ linear_group[p] = i - 1 /\ i \in 1..Len(linear_group_set)
             /\ Occurs(base, p) /\ Graph!FirstAt(base, p) = Len(base)

\* The visit of m puts it in no group.
Ungrouped(m) ==
    /\ linear_group_set' = linear_group_set /\ linear_group' = linear_group
    /\ linear_group[m] = -1 /\ Cardinality(outEdge[m]) # 1
    /\ \A p \in Elements : ~Graph!OnlyFollows(p, m)

\* The visit of m pushes kids.
Pushed(m, kids) ==
    /\ dfsStack # <<>> /\ m \in Elements /\ m = dfsStack[Len(dfsStack)]
    /\ kids \in Seq(Elements) /\ Len(kids) \in Nat
    /\ \A i \in 1..Len(kids) : kids[i] \in outEdge[m] /\ kids[i] \notin visited
    /\ \A c \in outEdge[m] : c \notin visited => \E i \in 1..Len(kids) : kids[i] = c
    /\ \A i, j \in 1..Len(kids) : i # j => kids[i] # kids[j]
    /\ Replaced(dfsStack, kids, dfsStack')
    /\ visited' = visited \cup {m}
    /\ outEdge' = outEdge /\ roots' = roots

LEMMA VisitPushes ==
    ASSUME GraphTyped, Graph!Visit
    PROVE  \E kids : Pushed(dfsStack[Len(dfsStack)], kids)
  <1> DEFINE m == dfsStack[Len(dfsStack)]
  <1>1. dfsStack # <<>> /\ dfsStack \in Seq(Elements)
    BY DEF Graph!Visit, GraphTyped
  <1>2. m \in Elements /\ m = Graph!Last(dfsStack)
    BY <1>1, FrontFacts DEF Graph!Last
  <1> HIDE DEF m
  <1>3. PICK kids \in Graph!SetToSeqs(Graph!NewChildren(m)) :
          dfsStack' = Graph!Front(dfsStack) \o kids
    BY <1>2 DEF Graph!Visit
  <1>4. visited' = visited \cup {m} /\ outEdge' = outEdge /\ roots' = roots
    BY <1>2 DEF Graph!Visit
  <1>5. PICK S \in SUBSET Elements : S = outEdge[m] \ visited /\ S = Graph!NewChildren(m)
    <2>1. outEdge[m] \ visited \in SUBSET Elements
      BY <1>2, EdgeFacts
    <2>2. Graph!NewChildren(m) = outEdge[m] \ visited
      BY DEF Graph!NewChildren
    <2> QED BY <2>1, <2>2
  <1>6. /\ kids \in Seq(Elements) /\ Len(kids) \in Nat
        /\ \A i \in 1..Len(kids) : kids[i] \in S
        /\ \A c \in S : \E i \in 1..Len(kids) : kids[i] = c
        /\ \A i, j \in 1..Len(kids) : i # j => kids[i] # kids[j]
    BY <1>3, <1>5, ChildrenFacts
  <1>7. Replaced(dfsStack, kids, dfsStack')
    BY <1>1, <1>3, <1>6, ReplaceFacts
  <1>8. m = dfsStack[Len(dfsStack)]
    BY DEF m
  <1>9. Pushed(m, kids)
    BY <1>1, <1>2, <1>4, <1>5, <1>6, <1>7, <1>8 DEF Pushed
  <1> QED BY <1>9, <1>8

LEMMA GroupsTyped ==
    ASSUME GraphTyped
    PROVE  /\ Len(linear_group_set) \in Nat
           /\ \A i \in 1..Len(linear_group_set) : linear_group_set[i] \in Seq(Elements)
           /\ \A m \in Elements : linear_group[m] \in -1..(Len(linear_group_set) - 1)
           /\ \A m \in Elements : linear_group[m] # -1 =>
                 linear_group[m] + 1 \in 1..Len(linear_group_set)
  <1>1. Len(linear_group_set) \in Nat
    BY LenProperties DEF GraphTyped
  <1>2. \A i \in 1..Len(linear_group_set) : linear_group_set[i] \in Seq(Elements)
    BY ElementOfSeq DEF GraphTyped
  <1>3. \A m \in Elements : linear_group[m] \in -1..(Len(linear_group_set) - 1)
    BY DEF GraphTyped
  <1>4. ASSUME NEW m \in Elements, linear_group[m] # -1
        PROVE  linear_group[m] + 1 \in 1..Len(linear_group_set)
    BY <1>1, <1>3, <1>4
  <1> QED BY <1>1, <1>2, <1>3, <1>4

\* An old group i gets the element.
LEMMA GroupExtended ==
    ASSUME GraphTyped, NEW m \in Elements, NEW i \in 1..Len(linear_group_set),
           linear_group_set' = [linear_group_set EXCEPT ![i] = Append(@, m)]
    PROVE  /\ Len(linear_group_set') = Len(linear_group_set)
           /\ linear_group_set' \in Seq(Seq(Elements))
           /\ linear_group_set'[i] = Append(linear_group_set[i], m)
           /\ \A j \in 1..Len(linear_group_set) : j # i => linear_group_set'[j] = linear_group_set[j]
  <1>1. Append(linear_group_set[i], m) \in Seq(Elements)
    BY GroupsTyped, AppendProperties
  <1>2. PICK e \in Seq(Elements) : e = Append(linear_group_set[i], m)
    BY <1>1
  <1>3. linear_group_set' = [linear_group_set EXCEPT ![i] = e]
    BY <1>2
  <1>4. linear_group_set \in Seq(Seq(Elements))
    BY DEF GraphTyped
  <1>5. /\ [linear_group_set EXCEPT ![i] = e] \in Seq(Seq(Elements))
        /\ Len([linear_group_set EXCEPT ![i] = e]) = Len(linear_group_set)
        /\ \A j \in 1..Len(linear_group_set) :
              [linear_group_set EXCEPT ![i] = e][j] = IF j = i THEN e ELSE linear_group_set[j]
    BY <1>4, ExceptSeq
  <1> QED BY <1>2, <1>3, <1>5

\* A new group i begins with the element.
LEMMA GroupOpened ==
    ASSUME GraphTyped, NEW m \in Elements, NEW i, i = Len(linear_group_set) + 1,
           linear_group_set' = [Append(linear_group_set, <<>>) EXCEPT ![i] = Append(@, m)]
    PROVE  /\ Len(linear_group_set') = i
           /\ linear_group_set' \in Seq(Seq(Elements))
           /\ linear_group_set'[i] = Append(<<>>, m)
           /\ \A j \in 1..Len(linear_group_set) : linear_group_set'[j] = linear_group_set[j]
  <1>1. linear_group_set \in Seq(Seq(Elements)) /\ <<>> \in Seq(Elements)
    BY EmptySeq DEF GraphTyped
  <1>2. PICK g \in Seq(Seq(Elements)) :
          /\ g = Append(linear_group_set, <<>>) /\ Len(g) = i /\ g[i] = <<>>
          /\ \A j \in 1..Len(linear_group_set) : g[j] = linear_group_set[j]
    <2> DEFINE a == Append(linear_group_set, <<>>)
    <2>1. /\ a \in Seq(Seq(Elements)) /\ Len(a) = i /\ a[i] = <<>>
          /\ \A j \in 1..Len(linear_group_set) : a[j] = linear_group_set[j]
      BY <1>1, AppendProperties
    <2> HIDE DEF a
    <2>2. a = Append(linear_group_set, <<>>)
      BY DEF a
    <2> QED BY <2>1, <2>2
  <1>3. PICK e \in Seq(Elements) : e = Append(<<>>, m)
    BY <1>1, AppendProperties
  <1>4. linear_group_set' = [g EXCEPT ![i] = e]
    BY <1>2, <1>3
  <1>5. Len(linear_group_set) \in Nat /\ i \in 1..Len(g)
    BY <1>2, GroupsTyped
  <1>6. /\ [g EXCEPT ![i] = e] \in Seq(Seq(Elements)) /\ Len([g EXCEPT ![i] = e]) = Len(g)
        /\ \A j \in 1..Len(g) : [g EXCEPT ![i] = e][j] = IF j = i THEN e ELSE g[j]
    BY <1>5, ExceptSeq
  <1>7. ASSUME NEW j \in 1..Len(linear_group_set) PROVE linear_group_set'[j] = linear_group_set[j]
    <2>1. j \in 1..Len(g) /\ j # i
      BY <1>2, <1>5
    <2> QED BY <1>2, <1>4, <1>6, <2>1
  <1> QED BY <1>2, <1>3, <1>4, <1>5, <1>6, <1>7

LEMMA VisitGroups ==
    ASSUME GraphInv, Graph!Visit, NEW m \in Elements, m = dfsStack[Len(dfsStack)]
    PROVE  Ungrouped(m) \/ \E i, base : Grouped(m, i, base)
  <1> USE DEF GraphInv
  <1> DEFINE inherited == Graph!Inherited(m)
             opens == inherited = -1 /\ Graph!Cardinality(outEdge[m]) = 1
             group == IF opens THEN Len(linear_group_set) ELSE inherited
             groups == IF opens THEN Append(linear_group_set, <<>>) ELSE linear_group_set
  <1>1. m = Graph!Last(dfsStack)
    BY DEF Graph!Last
  <1>2. /\ linear_group' = [linear_group EXCEPT ![m] = group]
        /\ linear_group_set' = IF group = -1 THEN groups
                               ELSE [groups EXCEPT ![group + 1] = Append(@, m)]
    BY <1>1 DEF Graph!Visit
  <1>3. linear_group \in [Elements -> -1..(Len(linear_group_set) - 1)] /\ Len(linear_group_set) \in Nat
    BY GroupsTyped DEF GraphTyped
  <1>4. m \notin visited => linear_group[m] = -1
    BY DEF MembersInv
  <1>5. \A i \in 1..Len(linear_group_set) :
           linear_group_set[i] \in Seq(Elements) /\ (Occurs(linear_group_set[i], m) <=> linear_group[m] = i - 1)
    BY GroupsTyped DEF MembersInv
  <1>6. Graph!Cardinality(outEdge[m]) = Cardinality(outEdge[m])
    BY SameCardinality
  <1>7. CASE \E p \in Elements : Graph!OnlyFollows(p, m)
    <2>1. PICK p \in Elements : Graph!OnlyFollows(p, m)
      BY <1>7
    <2>2. p \in visited /\ m \notin visited
      <3>1. dfsStack # <<>> /\ dfsStack \in Seq(Elements)
        BY DEF Graph!Visit, GraphTyped
      <3>2. Len(dfsStack) \in 1..Len(dfsStack)
        BY <3>1, FrontFacts
      <3> QED BY <2>1, <3>2 DEF ChainInv
    <2>3. linear_group[p] # -1
      <3>1. outEdge[p] = {m}
        BY <2>1 DEF Graph!OnlyFollows
      <3>2. Cardinality(outEdge[p]) = 1
        BY <3>1, FS_Singleton
      <3> QED BY <2>2, <3>2 DEF MembersInv
    <2>4. inherited = linear_group[p]
      BY <2>1, InheritedFacts
    <2>5. PICK i \in 1..Len(linear_group_set) : i = linear_group[p] + 1
      BY <2>3, GroupsTyped
    <2>6. linear_group[p] \in Int /\ linear_group[p] = i - 1
      BY <1>3, <2>5
    <2>7. ~opens /\ group = i - 1 /\ group + 1 = i /\ groups = linear_group_set
      BY <2>3, <2>4, <2>5, <2>6
    <2> HIDE DEF inherited, opens, group, groups
    <2>8. group # -1
      BY <2>7, <2>3, <2>6
    <2>9. linear_group_set' = [linear_group_set EXCEPT ![i] = Append(@, m)]
      BY <1>2, <2>7, <2>8
    <2>10. linear_group' = [linear_group EXCEPT ![m] = i - 1]
      BY <1>2, <2>7
    <2>11. /\ Len(linear_group_set') = Len(linear_group_set)
           /\ linear_group_set' \in Seq(Seq(Elements))
           /\ linear_group_set'[i] = Append(linear_group_set[i], m)
           /\ \A j \in 1..Len(linear_group_set) : j # i => linear_group_set'[j] = linear_group_set[j]
      BY <2>9, GroupExtended
    <2>12. PICK base : base = linear_group_set[i]
      OBVIOUS
    <2>13. base \in Seq(Elements) /\ (Occurs(base, m) <=> m \in visited) /\ linear_group[m] = -1
      <3>1. linear_group[m] = -1 /\ -1 # i - 1
        BY <1>4, <2>2
      <3> QED BY <1>5, <2>2, <2>12, <3>1
    <2>14. Occurs(base, p)
      BY <2>6, <2>12 DEF MembersInv
    <2>15. Graph!FirstAt(base, p) = Len(base)
      <3>1. GroupOf(p) = base
        BY <2>5, <2>12 DEF GroupOf
      <3> QED BY <2>1, <2>2, <3>1 DEF ChainInv, Chained
    <2>16. i \in 1..(Len(linear_group_set) + 1)
      BY <1>3
    <2>17. Grouped(m, i, base)
      BY <2>1, <2>2, <2>6, <2>10, <2>11, <2>12, <2>13, <2>14, <2>15, <2>16 DEF Grouped
    <2> QED BY <2>17
  <1>8. CASE /\ \A p \in Elements : ~Graph!OnlyFollows(p, m)
             /\ linear_group[m] # -1
    <2>1. inherited = linear_group[m]
      BY <1>8, InheritedFacts
    <2>2. m \in visited
      BY <1>4, <1>8
    <2>3. PICK i \in 1..Len(linear_group_set) : i = linear_group[m] + 1
      BY <1>8, GroupsTyped
    <2>4. linear_group[m] \in Int /\ linear_group[m] = i - 1
      BY <1>3, <2>3
    <2>5. ~opens /\ group = i - 1 /\ group + 1 = i /\ groups = linear_group_set
      BY <1>8, <2>1, <2>3, <2>4
    <2> HIDE DEF inherited, opens, group, groups
    <2>6. group # -1
      BY <1>8, <2>4, <2>5
    <2>7. linear_group_set' = [linear_group_set EXCEPT ![i] = Append(@, m)]
      BY <1>2, <2>5, <2>6
    <2>8. linear_group' = [linear_group EXCEPT ![m] = i - 1]
      BY <1>2, <2>5
    <2>9. /\ Len(linear_group_set') = Len(linear_group_set)
          /\ linear_group_set' \in Seq(Seq(Elements))
          /\ linear_group_set'[i] = Append(linear_group_set[i], m)
          /\ \A j \in 1..Len(linear_group_set) : j # i => linear_group_set'[j] = linear_group_set[j]
      BY <2>7, GroupExtended
    <2>10. PICK base : base = linear_group_set[i]
      OBVIOUS
    <2>11. base \in Seq(Elements) /\ Occurs(base, m)
      BY <1>5, <2>4, <2>10
    <2>12. i \in 1..(Len(linear_group_set) + 1)
      BY <1>3
    <2>13. Grouped(m, i, base)
      BY <1>8, <2>2, <2>4, <2>8, <2>9, <2>10, <2>11, <2>12 DEF Grouped
    <2> QED BY <2>13
  <1>9. CASE /\ \A p \in Elements : ~Graph!OnlyFollows(p, m)
             /\ linear_group[m] = -1 /\ Cardinality(outEdge[m]) = 1
    <2>1. inherited = -1
      BY <1>9, InheritedFacts
    <2>2. m \notin visited
      BY <1>9 DEF MembersInv
    <2>3. PICK i \in Nat : i = Len(linear_group_set) + 1
      BY <1>3
    <2>4. opens /\ group = i - 1 /\ group + 1 = i /\ groups = Append(linear_group_set, <<>>)
      BY <1>3, <1>6, <1>9, <2>1, <2>3
    <2> HIDE DEF inherited, opens, group, groups
    <2>5. group # -1
      BY <1>3, <2>3, <2>4
    <2>6. linear_group_set' = [Append(linear_group_set, <<>>) EXCEPT ![i] = Append(@, m)]
      BY <1>2, <2>4, <2>5
    <2>7. linear_group' = [linear_group EXCEPT ![m] = i - 1]
      BY <1>2, <2>4
    <2>8. /\ Len(linear_group_set') = i
          /\ linear_group_set' \in Seq(Seq(Elements))
          /\ linear_group_set'[i] = Append(<<>>, m)
          /\ \A j \in 1..Len(linear_group_set) : linear_group_set'[j] = linear_group_set[j]
      BY <2>3, <2>6, GroupOpened
    <2>9. PICK base \in Seq(Elements) : base = <<>> /\ Len(base) = 0
      BY EmptySeq
    <2>10. ~Occurs(base, m)
      BY <2>9 DEF Occurs
    <2>11. i \in 1..(Len(linear_group_set) + 1) /\ i \notin 1..Len(linear_group_set)
      BY <1>3, <2>3
    <2>12. Grouped(m, i, base)
      BY <1>9, <2>2, <2>7, <2>8, <2>9, <2>10, <2>11 DEF Grouped
    <2> QED BY <2>12
  <1>10. CASE /\ \A p \in Elements : ~Graph!OnlyFollows(p, m)
              /\ linear_group[m] = -1 /\ Cardinality(outEdge[m]) # 1
    <2>1. inherited = -1
      BY <1>10, InheritedFacts
    <2>2. ~opens /\ group = -1 /\ groups = linear_group_set
      BY <1>6, <1>10, <2>1
    <2> HIDE DEF inherited, opens, group, groups
    <2>3. linear_group' = [linear_group EXCEPT ![m] = -1] /\ linear_group_set' = linear_group_set
      BY <1>2, <2>2
    <2>4. linear_group' = linear_group
      BY <1>3, <1>10, <2>3
    <2> QED BY <1>10, <2>3, <2>4 DEF Ungrouped
  <1> QED BY <1>7, <1>8, <1>9, <1>10

LEMMA SameEdges ==
    ASSUME outEdge' = outEdge
    PROVE  /\ \A m : Graph!inEdge(m)' = Graph!inEdge(m)
           /\ \A p, m : Graph!OnlyFollows(p, m)' <=> Graph!OnlyFollows(p, m)
           /\ Graph!Below' = Graph!Below
           /\ \A m, x : Above(m, x)' <=> Above(m, x)
           /\ \A m : Shortcut(m)' <=> Shortcut(m)
  <1>1. \A m : Graph!inEdge(m)' = Graph!inEdge(m)
    BY DEF Graph!inEdge
  <1>2. \A p, m : Graph!OnlyFollows(p, m)' <=> Graph!OnlyFollows(p, m)
    BY <1>1 DEF Graph!OnlyFollows
  <1>3. Graph!Below' = Graph!Below
    BY DEF Graph!Below
  <1>4. \A m, x : Above(m, x)' <=> Above(m, x)
    BY <1>1, <1>3 DEF Above
  <1>5. \A m : Shortcut(m)' <=> Shortcut(m)
    BY <1>4 DEF Shortcut
  <1> QED BY <1>1, <1>2, <1>3, <1>4, <1>5

\* What is below an element's parents is found from them as well.
LEMMA BelowSelf == ASSUME NEW c \in Elements PROVE c \in Graph!Below[c]
  <1>1. {c} \in SUBSET Elements /\ c \in {c} /\ \A e \in {c} \ {c} :
           outEdge[e] \cap {c} # {} /\ e < c
    OBVIOUS
  <1>2. \E path \in SUBSET Elements :
           c \in path /\ c \in path /\ \A e \in path \ {c} : outEdge[e] \cap path # {} /\ e < c
    BY <1>1
  <1> QED BY <1>2 DEF Graph!Below, Elements

LEMMA BelowChild ==
    ASSUME GraphTyped, NEW c \in Elements, NEW m \in Graph!Below[c], NEW x \in outEdge[m]
    PROVE  x \in Graph!Below[c]
  <1>1. m \in Elements /\ \E path \in SUBSET Elements :
           c \in path /\ m \in path /\ \A e \in path \ {m} : outEdge[e] \cap path # {} /\ e < m
    BY DEF Graph!Below, Elements
  <1>2. PICK path \in SUBSET Elements :
           c \in path /\ m \in path /\ \A e \in path \ {m} : outEdge[e] \cap path # {} /\ e < m
    BY <1>1
  <1>3. x \in Elements /\ m < x
    BY <1>1 DEF GraphTyped
  <1> DEFINE longer == path \cup {x}
  <1>4. longer \in SUBSET Elements /\ c \in longer /\ x \in longer
    BY <1>2, <1>3
  <1>5. ASSUME NEW e \in longer \ {x} PROVE outEdge[e] \cap longer # {} /\ e < x
    <2>1. CASE e = m
      BY <1>3, <2>1
    <2>2. CASE e # m
      <3>1. e \in path \ {m}
        BY <1>5, <2>2
      <3>2. outEdge[e] \cap path # {} /\ e < m /\ e \in Elements
        BY <1>2, <3>1
      <3>3. e \in Int /\ m \in Int /\ x \in Int
        BY <1>1, <1>3, <3>2, ElementFacts
      <3> QED BY <1>3, <3>2, <3>3
    <2> QED BY <2>1, <2>2
  <1> HIDE DEF longer
  <1>6. \E p \in SUBSET Elements :
           c \in p /\ x \in p /\ \A e \in p \ {x} : outEdge[e] \cap p # {} /\ e < x
    BY <1>4, <1>5
  <1> QED BY <1>3, <1>6 DEF Graph!Below, Elements

LEMMA VisitTyped ==
    ASSUME GraphTyped, NEW m, NEW kids, Pushed(m, kids),
           Ungrouped(m) \/ \E i, base : Grouped(m, i, base)
    PROVE  GraphTyped'
  <1>1. m \in Elements /\ Len(linear_group_set) \in Nat
    BY GroupsTyped DEF Pushed
  <1>2. /\ linear_group_set' \in Seq(Seq(Elements))
        /\ linear_group' \in [Elements -> -1..(Len(linear_group_set') - 1)]
    <2>1. CASE Ungrouped(m)
      BY <2>1 DEF Ungrouped, GraphTyped
    <2>2. CASE \E i, base : Grouped(m, i, base)
      <3>1. PICK i, base : Grouped(m, i, base)
        BY <2>2
      <3>2. linear_group_set' \in Seq(Seq(Elements)) /\ linear_group' = [linear_group EXCEPT ![m] = i - 1]
        BY <3>1 DEF Grouped
      <3>3. /\ i \in 1..(Len(linear_group_set) + 1)
            /\ IF i \in 1..Len(linear_group_set) THEN Len(linear_group_set') = Len(linear_group_set)
               ELSE Len(linear_group_set') = i
        BY <3>1 DEF Grouped
      <3>4. i - 1 \in -1..(Len(linear_group_set') - 1)
        BY <1>1, <3>3
      <3>5. \A x \in Elements : linear_group[x] \in -1..(Len(linear_group_set') - 1)
        BY <1>1, <3>3, GroupsTyped
      <3>6. linear_group' \in [Elements -> -1..(Len(linear_group_set') - 1)]
        BY <1>1, <3>2, <3>4, <3>5 DEF GraphTyped
      <3> QED BY <3>2, <3>6
    <2> QED BY <2>1, <2>2
  <1>3. dfsStack' \in Seq(Elements)
    BY DEF Pushed, Replaced
  <1>4. visited' \subseteq Elements /\ outEdge' = outEdge /\ roots' = roots
    BY DEF Pushed, GraphTyped
  <1> QED BY <1>2, <1>3, <1>4 DEF GraphTyped

LEMMA VisitMembers ==
    ASSUME GraphTyped, MembersInv, NEW m, NEW kids, Pushed(m, kids),
           Ungrouped(m) \/ \E i, base : Grouped(m, i, base)
    PROVE  MembersInv'
  <1>1. m \in Elements /\ visited' = visited \cup {m} /\ outEdge' = outEdge
    BY DEF Pushed
  <1>2. CASE Ungrouped(m)
    BY <1>1, <1>2 DEF Ungrouped, MembersInv
  <1>3. CASE \E i, base : Grouped(m, i, base)
    <2>1. PICK i, base : Grouped(m, i, base)
      BY <1>3
    <2>2. /\ i \in Nat /\ Len(linear_group_set) \in Nat /\ i - 1 # -1
          /\ linear_group \in [Elements -> -1..(Len(linear_group_set) - 1)]
          /\ linear_group' = [linear_group EXCEPT ![m] = i - 1]
      BY <2>1, GroupsTyped DEF Grouped, GraphTyped
    <2>3. linear_group'[m] = i - 1 /\ \A x \in Elements : x # m => linear_group'[x] = linear_group[x]
      BY <1>1, <2>2
    <2>4. ASSUME NEW x \in Elements PROVE Occurs(linear_group_set'[i], x) <=> linear_group'[x] = i - 1
      <3>1. linear_group_set'[i] = Append(base, m) /\ base \in Seq(Elements)
        BY <2>1 DEF Grouped
      <3>2. Occurs(linear_group_set'[i], x) <=> Occurs(base, x) \/ x = m
        BY <1>1, <3>1, InAppend
      <3>3. CASE x = m
        BY <2>3, <3>2, <3>3
      <3>4. CASE x # m /\ i \in 1..Len(linear_group_set)
        <4>1. base = linear_group_set[i]
          BY <2>1, <3>4 DEF Grouped
        <4> QED BY <2>3, <3>2, <3>4, <4>1 DEF MembersInv
      <3>5. CASE x # m /\ i \notin 1..Len(linear_group_set)
        <4>1. base = <<>> /\ i = Len(linear_group_set) + 1
          BY <2>1, <2>2, <3>5 DEF Grouped
        <4>2. ~Occurs(base, x)
          BY <4>1, EmptySeq DEF Occurs
        <4>3. linear_group[x] # i - 1
          BY <2>2, <4>1
        <4> QED BY <2>3, <3>2, <3>5, <4>2, <4>3
      <3> QED BY <3>3, <3>4, <3>5
    <2>5. ASSUME NEW x \in Elements, NEW j \in 1..Len(linear_group_set'), j # i
          PROVE  Occurs(linear_group_set'[j], x) <=> linear_group'[x] = j - 1
      <3>1. j \in 1..Len(linear_group_set)
        BY <2>1, <2>2, <2>5 DEF Grouped
      <3>2. linear_group_set'[j] = linear_group_set[j]
        BY <2>1, <2>5, <3>1 DEF Grouped
      <3>3. Occurs(linear_group_set[j], x) <=> linear_group[x] = j - 1
        BY <3>1 DEF MembersInv
      <3>4. CASE x # m
        BY <2>3, <3>2, <3>3, <3>4
      <3>5. CASE x = m
        <4>1. linear_group[m] \in {i - 1, -1}
          BY <2>1 DEF Grouped
        <4>2. linear_group[m] # j - 1 /\ i - 1 # j - 1
          BY <2>2, <2>5, <3>1, <4>1
        <4> QED BY <2>3, <3>2, <3>3, <3>5, <4>2
      <3> QED BY <3>4, <3>5
    <2>6. \A x \in Elements \ visited' : linear_group'[x] = -1
      BY <1>1, <2>3 DEF MembersInv
    <2>7. \A x \in visited' : Cardinality(outEdge'[x]) = 1 => linear_group'[x] # -1
      BY <1>1, <2>2, <2>3 DEF MembersInv, GraphTyped
    <2> QED BY <2>4, <2>5, <2>6, <2>7 DEF MembersInv
  <1> QED BY <1>2, <1>3

LEMMA VisitLinks ==
    ASSUME GraphTyped, LinksInv, NEW m, NEW kids, Pushed(m, kids),
           Ungrouped(m) \/ \E i, base : Grouped(m, i, base)
    PROVE  LinksInv'
  <1>1. m \in Elements /\ outEdge' = outEdge
    BY DEF Pushed
  <1>2. ASSUME NEW g PROVE Linked(g)' <=> Linked(g)
    BY <1>1, SameEdges DEF Linked, Graph!FirstAt, Graph!SelectInSeq, Occurs, Graph!Min
  <1>3. CASE Ungrouped(m)
    BY <1>2, <1>3 DEF Ungrouped, LinksInv
  <1>4. CASE \E i, base : Grouped(m, i, base)
    <2>1. PICK i, base : Grouped(m, i, base)
      BY <1>4
    <2>2. /\ base \in Seq(Elements) /\ Len(base) \in Nat
          /\ Linked(base)
      <3>1. base \in Seq(Elements)
        BY <2>1 DEF Grouped
      <3>2. CASE i \in 1..Len(linear_group_set)
        BY <2>1, <3>1, <3>2, LenProperties DEF Grouped, LinksInv
      <3>3. CASE i \notin 1..Len(linear_group_set)
        <4>1. base = <<>>
          BY <2>1, <3>3 DEF Grouped
        <4>2. \A x : ~Occurs(base, x)
          BY <4>1, EmptySeq DEF Occurs
        <4> QED BY <3>1, <4>2, LenProperties DEF Linked
      <3> QED BY <3>2, <3>3
    <2>3. PICK g \in Seq(Elements) : g = Append(base, m) /\ g = linear_group_set'[i]
      BY <1>1, <2>1, <2>2, AppendFacts DEF Grouped
    <2>4. Linked(g)
      <3> SUFFICES ASSUME NEW x \in Elements, Occurs(g, x), Graph!FirstAt(g, x) > 1
                   PROVE  Graph!OnlyFollows(g[Graph!FirstAt(g, x) - 1], x)
        BY DEF Linked
      <3>1. \A k \in 1..Len(base) : g[k] = base[k]
        <4>1. \A k \in 1..Len(base) : Append(base, m)[k] = base[k]
          BY <1>1, <2>2, AppendFacts
        <4> QED BY <2>3, <4>1
      <3>a. /\ Occurs(base, x) => Graph!FirstAt(Append(base, m), x) = Graph!FirstAt(base, x)
            /\ ~Occurs(base, x) /\ x = m => Graph!FirstAt(Append(base, m), x) = Len(base) + 1
        BY <1>1, <2>2, FirstAppend
      <3>2. CASE Occurs(base, x)
        <4>1. PICK k \in 1..Len(base) : k = Graph!FirstAt(base, x)
          BY <2>2, <3>2, FirstFacts
        <4>2. k = Graph!FirstAt(g, x)
          BY <2>3, <3>a, <3>2, <4>1
        <4>3. k - 1 \in 1..Len(base)
          BY <2>2, <4>1, <4>2
        <4>4. Graph!OnlyFollows(base[k - 1], x)
          BY <2>2, <3>2, <4>1, <4>2 DEF Linked
        <4> QED BY <3>1, <4>2, <4>3, <4>4
      <3>3. CASE ~Occurs(base, x)
        <4>1. x = m
          <5>1. Occurs(Append(base, m), x) <=> Occurs(base, x) \/ x = m
            BY <1>1, <2>2, InAppend
          <5> QED BY <2>3, <3>3, <5>1
        <4>2. Graph!FirstAt(g, x) = Len(base) + 1
          BY <2>3, <3>a, <3>3, <4>1
        <4>3. m \notin visited
          BY <2>1, <3>3, <4>1 DEF Grouped
        <4>4. base # <<>>
          BY <2>2, <4>2, EmptySeq
        <4>5. PICK p \in Elements : Graph!OnlyFollows(p, m) /\ Occurs(base, p)
                                    /\ Graph!FirstAt(base, p) = Len(base)
          BY <2>1, <4>3, <4>4 DEF Grouped
        <4>6. Len(base) \in 1..Len(base) /\ base[Len(base)] = p
          BY <2>2, <4>5, FirstFacts
        <4>7. Graph!FirstAt(g, x) - 1 = Len(base)
          BY <2>2, <4>2
        <4> QED BY <3>1, <4>1, <4>5, <4>6, <4>7
      <3> QED BY <3>2, <3>3
    <2>5. ASSUME NEW j \in 1..Len(linear_group_set') PROVE Linked(linear_group_set'[j])
      <3>1. CASE j = i
        BY <2>3, <2>4, <3>1
      <3>2. CASE j # i
        <4>1. Len(linear_group_set) \in Nat
          BY GroupsTyped
        <4>2. j \in 1..Len(linear_group_set) /\ linear_group_set'[j] = linear_group_set[j]
          BY <2>1, <3>2, <4>1 DEF Grouped
        <4> QED BY <4>2 DEF LinksInv
      <3> QED BY <3>1, <3>2
    <2>6. ASSUME NEW j \in 1..Len(linear_group_set') PROVE Linked(linear_group_set[j])'
      <3>1. PICK g2 : g2 = linear_group_set'[j]
        OBVIOUS
      <3>2. Linked(g2)
        BY <2>5, <3>1
      <3>3. Linked(g2)'
        BY <1>2, <3>2
      <3> QED BY <3>1, <3>3 DEF Linked
    <2> QED BY <2>6 DEF LinksInv
  <1> QED BY <1>3, <1>4

\* Chained, of the next state.
LEMMA ChainedNext ==
    ASSUME NEW p, NEW x, NEW g, g = linear_group_set'[linear_group'[p] + 1],
           p \in visited' /\ x \in visited' =>
              linear_group'[x] = linear_group'[p] /\ Graph!FirstAt(g, x) = Graph!FirstAt(g, p) + 1,
           p \in visited' /\ x \notin visited' =>
              /\ dfsStack' # <<>> /\ dfsStack'[Len(dfsStack')] = x
              /\ Graph!FirstAt(g, p) = Len(g),
           x \in visited' => p \in visited'
    PROVE  Chained(p, x)'
  BY DEF Chained, GroupOf

\* The groups of elements that were visited before.
LEMMA GroupKept ==
    ASSUME GraphTyped, MembersInv, NEW m \in Elements, NEW i, NEW base, Grouped(m, i, base),
           NEW p \in Elements, linear_group[p] # -1, NEW g,
           g = linear_group_set'[linear_group[p] + 1]
    PROVE  /\ Len(GroupOf(p)) \in Nat /\ GroupOf(p) \in Seq(Elements) /\ Occurs(GroupOf(p), p)
           /\ \A x \in Elements : Occurs(GroupOf(p), x) =>
                 Graph!FirstAt(g, x) = Graph!FirstAt(GroupOf(p), x)
           /\ linear_group[p] # i - 1 => g = GroupOf(p)
  <1>1. PICK k \in 1..Len(linear_group_set) : k = linear_group[p] + 1
    BY GroupsTyped
  <1>2. linear_group[p] = k - 1
    BY <1>1 DEF GraphTyped
  <1>3. PICK h \in Seq(Elements) : h = linear_group_set[k] /\ h = GroupOf(p)
    BY <1>1, GroupsTyped DEF GroupOf
  <1>4. Occurs(h, p) /\ Len(h) \in Nat
    BY <1>2, <1>3, LenProperties DEF MembersInv
  <1>5. ASSUME NEW x \in Elements, Occurs(h, x) PROVE Graph!FirstAt(g, x) = Graph!FirstAt(h, x)
    <2>1. CASE k = i
      <3>1. base = h /\ g = Append(h, m)
        BY <1>1, <1>3, <2>1 DEF Grouped
      <3> QED BY <1>5, <3>1, FirstAppend
    <2>2. CASE k # i
      BY <1>1, <1>3, <2>2 DEF Grouped
    <2> QED BY <2>1, <2>2
  <1>6. ASSUME linear_group[p] # i - 1 PROVE g = h
    BY <1>1, <1>2, <1>3, <1>6 DEF Grouped
  <1> QED BY <1>3, <1>4, <1>5, <1>6

LEMMA VisitChained ==
    ASSUME GraphTyped, MembersInv, ChainInv, NEW m, NEW kids, Pushed(m, kids),
           NEW i, NEW base, Grouped(m, i, base),
           NEW p \in Elements, NEW x \in Elements, Graph!OnlyFollows(p, x)
    PROVE  Chained(p, x)'
  <1>1. /\ m \in Elements /\ visited' = visited \cup {m} /\ p # x /\ dfsStack # <<>>
        /\ dfsStack[Len(dfsStack)] = m /\ outEdge[p] = {x} /\ x \in outEdge[p]
    <2>1. outEdge[p] = {x}
      BY DEF Graph!OnlyFollows
    <2>2. p < x
      BY <2>1 DEF GraphTyped
    <2>3. p # x
      BY <2>2, ElementFacts
    <2> QED BY <2>1, <2>3 DEF Pushed
  <1>2. Chained(p, x)
    BY DEF ChainInv
  <1>3. /\ base \in Seq(Elements) /\ Len(base) \in Nat /\ i \in Nat
        /\ linear_group \in [Elements -> -1..(Len(linear_group_set) - 1)]
        /\ linear_group' = [linear_group EXCEPT ![m] = i - 1]
        /\ linear_group_set'[i] = Append(base, m)
    BY GroupsTyped, LenProperties DEF Grouped, GraphTyped
  <1>4. linear_group'[m] = i - 1 /\ \A y \in Elements : y # m => linear_group'[y] = linear_group[y]
    BY <1>1, <1>3
  <1>5. PICK g : g = linear_group_set'[linear_group'[p] + 1]
    OBVIOUS
  <1>6. p \in visited => linear_group[p] # -1
    <2>1. Cardinality(outEdge[p]) = 1
      BY <1>1, FS_Singleton
    <2> QED BY <2>1 DEF MembersInv
  <1>7. PICK a \in Seq(Elements) : a = Append(base, m) /\ Len(a) = Len(base) + 1
    <2>1. Append(base, m) \in Seq(Elements) /\ Len(Append(base, m)) = Len(base) + 1
      BY <1>1, <1>3, AppendFacts
    <2> QED BY <2>1
  <1>8. \A y : (Occurs(base, y) => Graph!FirstAt(a, y) = Graph!FirstAt(base, y))
               /\ (~Occurs(base, y) /\ y = m => Graph!FirstAt(a, y) = Len(base) + 1)
    BY <1>1, <1>3, <1>7, FirstAppend
  <1>9. CASE x = m
    <2>1. /\ p \in visited /\ m \notin visited /\ linear_group[p] = i - 1
          /\ Occurs(base, p) /\ Graph!FirstAt(base, p) = Len(base) /\ ~Occurs(base, m)
      <3>1. PICK q \in Elements :
               /\ Graph!OnlyFollows(q, m) /\ q \in visited /\ m \notin visited
               /\ linear_group[q] = i - 1
               /\ Occurs(base, q) /\ Graph!FirstAt(base, q) = Len(base)
        BY <1>9 DEF Grouped
      <3>2. q = p
        BY <1>9, <3>1 DEF Graph!OnlyFollows
      <3> QED BY <3>1, <3>2 DEF Grouped
    <2>2. linear_group'[p] = i - 1 /\ (i - 1) + 1 = i
      BY <1>1, <1>3, <1>4, <1>9, <2>1
    <2>3. g = a
      BY <1>3, <1>5, <1>7, <2>2
    <2>4. Graph!FirstAt(g, m) = Len(base) + 1 /\ Graph!FirstAt(g, p) = Len(base)
      BY <1>8, <2>1, <2>3
    <2>5. x \in visited' /\ p \in visited' /\ linear_group'[x] = linear_group'[p]
      BY <1>1, <1>4, <1>9, <2>1, <2>2
    <2> QED BY <1>5, <1>9, <2>4, <2>5, ChainedNext
  <1>10. CASE x # m /\ p = m
    <2>1. linear_group'[p] + 1 = i /\ g = a
      BY <1>3, <1>4, <1>5, <1>7, <1>10
    <2>2. CASE x \in visited
      <3>1. m \in visited /\ linear_group[x] = linear_group[m]
            /\ Graph!FirstAt(GroupOf(m), x) = Graph!FirstAt(GroupOf(m), m) + 1
        BY <1>2, <1>10, <2>2 DEF Chained
      <3>2. linear_group[m] = i - 1
        BY <3>1 DEF Grouped
      <3>3. i \in 1..Len(linear_group_set) /\ GroupOf(m) = base
        <4>1. linear_group[m] \in -1..(Len(linear_group_set) - 1) /\ linear_group[m] # -1
          BY <1>1, <1>3, <1>6, <1>10, <3>1
        <4>2. i \in 1..Len(linear_group_set) /\ linear_group[m] + 1 = i
          BY <1>3, <3>2, <4>1, GroupsTyped
        <4> QED BY <4>2 DEF Grouped, GroupOf
      <3>4. Occurs(base, m) /\ Occurs(base, x)
        BY <3>1, <3>2, <3>3 DEF Grouped, MembersInv
      <3>5. Graph!FirstAt(g, x) = Graph!FirstAt(g, p) + 1
        BY <1>8, <1>10, <2>1, <3>1, <3>3, <3>4
      <3>6. x \in visited' /\ p \in visited' /\ linear_group'[x] = linear_group'[p]
        BY <1>1, <1>4, <1>10, <2>2, <3>1, <3>2
      <3> QED BY <1>5, <3>5, <3>6, ChainedNext
    <2>3. CASE x \notin visited
      <3>1. m \notin visited
        BY <1>1, <1>2, <1>10, <2>3 DEF Chained
      <3>2. Graph!FirstAt(g, p) = Len(g)
        BY <1>7, <1>8, <1>10, <2>1, <3>1 DEF Grouped
      <3>3. Len(kids) = 1 /\ kids[1] = x
        <4>1. /\ Len(kids) \in Nat /\ \A j \in 1..Len(kids) : kids[j] = x
              /\ \A j, k \in 1..Len(kids) : j # k => kids[j] # kids[k]
              /\ \E j \in 1..Len(kids) : kids[j] = x
          BY <1>1, <1>10, <2>3 DEF Pushed
        <4>2. ~(2 \in 1..Len(kids))
          <5>1. 2 \in 1..Len(kids) => 1 \in 1..Len(kids)
            BY <4>1
          <5> QED BY <4>1, <5>1
        <4>3. Len(kids) = 1 /\ 1 \in 1..Len(kids)
          <5>1. PICK n \in Nat : n = Len(kids)
            BY <4>1
          <5>2. PICK j \in 1..n : kids[j] = x
            BY <4>1, <5>1
          <5>3. 1 <= n /\ ~(2 <= n)
            BY <4>2, <5>1, <5>2
          <5> QED BY <5>1, <5>3
        <4> QED BY <4>1, <4>3
      <3>4. dfsStack' # <<>> /\ dfsStack'[Len(dfsStack')] = x
        <4>1. Replaced(dfsStack, kids, dfsStack') /\ Len(dfsStack) \in Nat \ {0}
          BY FrontFacts DEF Pushed, GraphTyped
        <4>2. Len(dfsStack') = Len(dfsStack) - 1 + 1 /\ 1 \in 1..Len(kids)
          BY <3>3, <4>1 DEF Replaced
        <4>3. dfsStack'[Len(dfsStack')] = x /\ Len(dfsStack') # 0
          BY <3>3, <4>1, <4>2 DEF Replaced
        <4> QED BY <4>3, EmptySeq
      <3>5. x \notin visited' /\ p \in visited'
        BY <1>1, <1>10, <2>3
      <3> QED BY <1>5, <3>2, <3>4, <3>5, ChainedNext
    <2> QED BY <2>2, <2>3
  <1>11. CASE x # m /\ p # m
    <2>1. (p \in visited' <=> p \in visited) /\ (x \in visited' <=> x \in visited)
      BY <1>1, <1>11
    <2>2. ~(p \in visited /\ x \notin visited)
      BY <1>1, <1>2, <1>11 DEF Chained
    <2>3. linear_group'[p] = linear_group[p] /\ linear_group'[x] = linear_group[x]
      BY <1>4, <1>11
    <2>4. ASSUME p \in visited, x \in visited
          PROVE  linear_group[x] = linear_group[p] /\ Graph!FirstAt(g, x) = Graph!FirstAt(g, p) + 1
      <3>1. linear_group[x] = linear_group[p] /\ linear_group[p] # -1
            /\ Graph!FirstAt(GroupOf(p), x) = Graph!FirstAt(GroupOf(p), p) + 1
        BY <1>2, <1>6, <2>4 DEF Chained
      <3>2. g = linear_group_set'[linear_group[p] + 1]
        BY <1>5, <2>3
      <3>3. /\ Occurs(GroupOf(p), p)
            /\ \A y \in Elements : Occurs(GroupOf(p), y) =>
                  Graph!FirstAt(g, y) = Graph!FirstAt(GroupOf(p), y)
        BY <1>1, <3>1, <3>2, GroupKept
      <3>4. Occurs(GroupOf(p), x)
        <4>1. PICK k \in 1..Len(linear_group_set) : k = linear_group[p] + 1
          BY <3>1, GroupsTyped
        <4>2. linear_group[x] = k - 1
          BY <1>3, <3>1, <4>1
        <4> QED BY <4>1, <4>2 DEF MembersInv, GroupOf
      <3> QED BY <3>1, <3>3, <3>4
    <2> QED BY <1>2, <1>5, <2>1, <2>2, <2>3, <2>4, ChainedNext DEF Chained
  <1> QED BY <1>9, <1>10, <1>11

LEMMA VisitChain ==
    ASSUME GraphTyped, MembersInv, ChainInv, NEW m, NEW kids, Pushed(m, kids),
           Ungrouped(m) \/ \E i, base : Grouped(m, i, base)
    PROVE  ChainInv'
  <1>1. /\ m \in Elements /\ visited' = visited \cup {m} /\ outEdge' = outEdge
        /\ dfsStack # <<>> /\ dfsStack[Len(dfsStack)] = m /\ Len(dfsStack) \in Nat \ {0}
        /\ Replaced(dfsStack, kids, dfsStack')
    BY FrontFacts DEF Pushed, GraphTyped
  <1>2. ASSUME NEW p \in Elements, NEW x \in Elements, Graph!OnlyFollows(p, x)
        PROVE  Chained(p, x)'
    <2>1. CASE Ungrouped(m)
      <3>1. outEdge[p] = {x}
        BY <1>2 DEF Graph!OnlyFollows
      <3>2. p # m
        BY <2>1, <3>1, FS_Singleton DEF Ungrouped
      <3>3. x # m
        BY <1>2, <2>1 DEF Ungrouped
      <3>4. (p \in visited' <=> p \in visited) /\ (x \in visited' <=> x \in visited)
        BY <1>1, <3>2, <3>3
      <3>5. Chained(p, x)
        BY <1>2 DEF ChainInv
      <3>6. ~(p \in visited /\ x \notin visited)
        BY <1>1, <3>3, <3>5 DEF Chained
      <3>7. PICK g : g = GroupOf(p)
        OBVIOUS
      <3>8. g = linear_group_set'[linear_group'[p] + 1] /\ linear_group' = linear_group
        BY <2>1, <3>7 DEF Ungrouped, GroupOf
      <3> QED BY <3>4, <3>5, <3>6, <3>7, <3>8, ChainedNext DEF Chained
    <2>2. CASE \E i, base : Grouped(m, i, base)
      BY <1>2, <2>2, VisitChained
    <2> QED BY <2>1, <2>2
  <1>3. ASSUME NEW k \in 1..Len(dfsStack'), NEW p \in Elements,
               Graph!OnlyFollows(p, dfsStack'[k])
        PROVE  k = Len(dfsStack') /\ p \in visited' /\ dfsStack'[k] \notin visited'
    <2>1. PICK x : x = dfsStack'[k]
      OBVIOUS
    <2>2. CASE k \in 1..(Len(dfsStack) - 1)
      <3>1. x = dfsStack[k] /\ k \in 1..Len(dfsStack) /\ k # Len(dfsStack)
        BY <1>1, <2>1, <2>2 DEF Replaced
      <3> QED BY <1>3, <2>1, <3>1 DEF ChainInv
    <2>3. CASE \E j \in 1..Len(kids) : k = Len(dfsStack) - 1 + j
      <3>1. PICK j \in 1..Len(kids) : k = Len(dfsStack) - 1 + j
        BY <2>3
      <3>2. x = kids[j] /\ x \in outEdge[m] /\ x \notin visited
        BY <1>1, <2>1, <3>1 DEF Replaced, Pushed
      <3>3. x \in Elements /\ x # m
        <4>1. x \in Elements /\ m < x
          BY <1>1, <3>2 DEF GraphTyped
        <4> QED BY <1>1, <4>1, ElementFacts
      <3>4. p = m /\ outEdge[m] = {x}
        <4>1. Graph!inEdge(x) = {p} /\ outEdge[p] = {x}
          BY <1>3, <2>1 DEF Graph!OnlyFollows
        <4>2. m \in Graph!inEdge(x)
          BY <1>1, <3>2, <3>3, EdgeFacts
        <4> QED BY <4>1, <4>2
      <3>5. Len(kids) = 1
        <4>1. /\ \A l \in 1..Len(kids) : kids[l] = x
              /\ \A l, n \in 1..Len(kids) : l # n => kids[l] # kids[n]
          BY <3>4 DEF Pushed
        <4>2. PICK n \in Nat : n = Len(kids)
          BY DEF Pushed
        <4>3. 1 \in 1..n
          BY <3>1, <4>2
        <4>4. ~(2 \in 1..n)
          BY <4>1, <4>2, <4>3
        <4> QED BY <4>2, <4>3, <4>4
      <3>6. k = Len(dfsStack')
        BY <1>1, <3>1, <3>5 DEF Replaced
      <3> QED BY <1>1, <2>1, <3>2, <3>3, <3>4, <3>6
    <2> QED BY <1>1, <2>2, <2>3 DEF Replaced
  <1>4. \A p, x : Graph!OnlyFollows(p, x)' <=> Graph!OnlyFollows(p, x)
    BY <1>1, SameEdges
  <1>5. \A p, x \in Elements : Graph!OnlyFollows(p, x)' => Chained(p, x)'
    BY <1>2, <1>4
  <1>6. ASSUME NEW k \in 1..Len(dfsStack'), NEW p \in Elements,
               Graph!OnlyFollows(p, dfsStack[k])'
        PROVE  k = Len(dfsStack') /\ p \in visited' /\ dfsStack'[k] \notin visited'
    <2>1. PICK x : x = dfsStack'[k]
      OBVIOUS
    <2>2. Graph!OnlyFollows(p, x)'
      BY <1>6, <2>1 DEF Graph!OnlyFollows
    <2>3. Graph!OnlyFollows(p, x)
      BY <1>4, <2>2
    <2> QED BY <1>3, <2>1, <2>3
  <1> QED BY <1>5, <1>6 DEF ChainInv

LEMMA VisitReach ==
    ASSUME GraphTyped, ReachInv, NEW m, NEW kids, Pushed(m, kids)
    PROVE  ReachInv'
  <1>1. /\ m \in Elements /\ visited' = visited \cup {m} /\ outEdge' = outEdge /\ roots' = roots
        /\ dfsStack # <<>> /\ dfsStack[Len(dfsStack)] = m /\ Len(dfsStack) \in Nat \ {0}
        /\ Replaced(dfsStack, kids, dfsStack') /\ Len(kids) \in Nat
    BY FrontFacts DEF Pushed, GraphTyped
  <1>2. \A x : Graph!inEdge(x)' = Graph!inEdge(x)
    BY <1>1, SameEdges
  <1>3. ASSUME NEW x, Occurs(dfsStack, x), x # m PROVE Occurs(dfsStack', x)
    <2>1. PICK k \in 1..Len(dfsStack) : dfsStack[k] = x
      BY <1>3 DEF Occurs
    <2>2. k \in 1..(Len(dfsStack) - 1)
      BY <1>1, <1>3, <2>1
    <2>3. k \in 1..Len(dfsStack') /\ dfsStack'[k] = x
      BY <1>1, <2>1, <2>2 DEF Replaced
    <2> QED BY <2>3 DEF Occurs
  <1>4. ASSUME NEW x \in outEdge[m], x \notin visited PROVE Occurs(dfsStack', x)
    <2>1. PICK j \in 1..Len(kids) : kids[j] = x
      BY <1>4 DEF Pushed
    <2>2. Len(dfsStack) - 1 + j \in 1..Len(dfsStack') /\ dfsStack'[Len(dfsStack) - 1 + j] = x
      BY <1>1, <2>1 DEF Replaced
    <2> QED BY <2>2 DEF Occurs
  <1>5. ASSUME NEW x, Occurs(dfsStack', x) PROVE Occurs(dfsStack, x) \/ x \in outEdge[m]
    <2>1. PICK k \in 1..Len(dfsStack') : dfsStack'[k] = x
      BY <1>5 DEF Occurs
    <2>2. CASE k \in 1..(Len(dfsStack) - 1)
      <3>1. k \in 1..Len(dfsStack) /\ dfsStack[k] = x
        BY <1>1, <2>1, <2>2 DEF Replaced
      <3> QED BY <3>1 DEF Occurs
    <2>3. CASE \E j \in 1..Len(kids) : k = Len(dfsStack) - 1 + j
      BY <1>1, <2>1, <2>3 DEF Replaced, Pushed
    <2> QED BY <1>1, <2>2, <2>3 DEF Replaced
  <1>6. Occurs(dfsStack, m)
    <2>1. Len(dfsStack) \in 1..Len(dfsStack)
      BY <1>1
    <2> QED BY <1>1, <2>1 DEF Occurs
  <1>7. ASSUME NEW x \in roots
        PROVE  Graph!inEdge(x) = {} /\ x \notin visited' /\ ~Occurs(dfsStack', x)
    <2>1. x \in Elements /\ Graph!inEdge(x) = {} /\ x \notin visited /\ ~Occurs(dfsStack, x)
      BY DEF ReachInv, GraphTyped
    <2>2. x # m
      BY <1>6, <2>1
    <2>3. x \notin outEdge[m]
      BY <1>1, <2>1, EdgeFacts
    <2> QED BY <1>1, <1>5, <2>1, <2>2, <2>3
  <1>8. ASSUME NEW x \in Elements, Graph!inEdge(x) = {}
        PROVE  x \in roots \/ x \in visited' \/ Occurs(dfsStack', x)
    BY <1>1, <1>3, <1>8 DEF ReachInv
  <1>9. ASSUME NEW x \in visited', NEW c \in outEdge[x]
        PROVE  c \in visited' \/ Occurs(dfsStack', c)
    BY <1>1, <1>3, <1>4 DEF ReachInv
  <1>10. \A x : Occurs(dfsStack, x)' <=> Occurs(dfsStack', x)
    BY DEF Occurs
  <1> QED BY <1>1, <1>2, <1>7, <1>8, <1>9, <1>10 DEF ReachInv

LEMMA VisitAbove ==
    ASSUME GraphTyped, AboveInv, NEW m, NEW kids, Pushed(m, kids)
    PROVE  AboveInv'
  <1>1. /\ m \in Elements /\ visited' = visited \cup {m} /\ outEdge' = outEdge
        /\ dfsStack # <<>> /\ dfsStack[Len(dfsStack)] = m /\ Len(dfsStack) \in Nat \ {0}
        /\ Replaced(dfsStack, kids, dfsStack') /\ Len(kids) \in Nat
    BY FrontFacts DEF Pushed, GraphTyped
  <1>2. ASSUME NEW j \in 1..Len(kids)
        PROVE  /\ kids[j] \in Elements /\ kids[j] \in outEdge[m] /\ m \in Graph!inEdge(kids[j])
               /\ kids[j] \notin visited'
    <2>1. kids[j] \in outEdge[m] /\ kids[j] \notin visited
      BY DEF Pushed
    <2>2. kids[j] \in Elements /\ m < kids[j]
      BY <1>1, <2>1 DEF GraphTyped
    <2>3. kids[j] # m
      BY <1>1, <2>2, ElementFacts
    <2>4. m \in Graph!inEdge(kids[j])
      BY <1>1, <2>1, <2>2, EdgeFacts
    <2> QED BY <1>1, <2>1, <2>2, <2>3, <2>4
  <1>3. ASSUME NEW x, Above(x, m), NEW c \in outEdge[m], x \in Elements PROVE Above(x, c)
    <2>1. PICK p \in Graph!inEdge(x) : \E d \in outEdge[p] \ {x} : m \in Graph!Below[d]
      BY <1>3 DEF Above
    <2>2. PICK d \in outEdge[p] \ {x} : m \in Graph!Below[d]
      BY <2>1
    <2>3. p \in Elements
      BY <1>3, EdgeFacts
    <2>4. d \in Elements
      BY <2>3, EdgeFacts
    <2>5. c \in Graph!Below[d]
      BY <2>2, <2>4, BelowChild
    <2> QED BY <2>2, <2>5 DEF Above
  <1>4. ASSUME NEW k \in 1..Len(dfsStack'), NEW l \in 1..Len(dfsStack'), k < l
        PROVE  Above(dfsStack'[k], dfsStack'[l])
    <2>1. CASE k \in 1..(Len(dfsStack) - 1) /\ l \in 1..(Len(dfsStack) - 1)
      <3>1. k \in 1..Len(dfsStack) /\ l \in 1..Len(dfsStack)
            /\ dfsStack'[k] = dfsStack[k] /\ dfsStack'[l] = dfsStack[l]
        <4>1. \A i \in 1..(Len(dfsStack) - 1) : i \in 1..Len(dfsStack)
          BY <1>1
        <4>2. \A i \in 1..(Len(dfsStack) - 1) : dfsStack'[i] = dfsStack[i]
          BY <1>1 DEF Replaced
        <4> QED BY <2>1, <4>1, <4>2
      <3> QED BY <1>4, <3>1 DEF AboveInv
    <2>2. CASE k \in 1..(Len(dfsStack) - 1) /\ \E j \in 1..Len(kids) : l = Len(dfsStack) - 1 + j
      <3>1. PICK j \in 1..Len(kids) : l = Len(dfsStack) - 1 + j
        BY <2>2
      <3>2. /\ k \in 1..Len(dfsStack) /\ Len(dfsStack) \in 1..Len(dfsStack) /\ k < Len(dfsStack)
            /\ dfsStack'[k] = dfsStack[k] /\ dfsStack'[l] = kids[j]
        BY <1>1, <2>2, <3>1 DEF Replaced
      <3>3. Above(dfsStack[k], m) /\ dfsStack[k] \in Elements
        BY <1>1, <3>2, ElementOfSeq DEF AboveInv, GraphTyped
      <3>4. PICK x : x = dfsStack[k]
        OBVIOUS
      <3>5. Above(x, kids[j])
        BY <1>2, <1>3, <3>3, <3>4
      <3> QED BY <3>2, <3>4, <3>5
    <2>3. CASE \E i \in 1..Len(kids) : k = Len(dfsStack) - 1 + i
      <3>1. PICK i \in 1..Len(kids) : k = Len(dfsStack) - 1 + i
        BY <2>3
      <3>2. ~(l \in 1..(Len(dfsStack) - 1))
        BY <1>1, <1>4, <3>1
      <3>3. PICK j \in 1..Len(kids) : l = Len(dfsStack) - 1 + j
        BY <1>1, <3>2 DEF Replaced
      <3>4. i # j /\ dfsStack'[k] = kids[i] /\ dfsStack'[l] = kids[j]
        BY <1>1, <1>4, <3>1, <3>3 DEF Replaced
      <3>5. kids[i] # kids[j]
        BY <3>4 DEF Pushed
      <3>6. kids[j] \in Graph!Below[kids[j]]
        BY <1>2, BelowSelf
      <3>7. m \in Graph!inEdge(kids[i]) /\ kids[j] \in outEdge[m] \ {kids[i]}
        BY <1>2, <3>5
      <3>8. Above(kids[i], kids[j])
        BY <3>6, <3>7 DEF Above
      <3> QED BY <3>4, <3>8
    <2> QED BY <1>1, <2>1, <2>2, <2>3 DEF Replaced
  <1>5. ASSUME NEW k \in 1..Len(dfsStack'), dfsStack'[k] \in visited'
        PROVE  Shortcut(dfsStack'[k])
    <2>1. ~\E j \in 1..Len(kids) : k = Len(dfsStack) - 1 + j
      BY <1>1, <1>2, <1>5 DEF Replaced
    <2>2. k \in 1..(Len(dfsStack) - 1)
      BY <1>1, <2>1 DEF Replaced
    <2>3. /\ k \in 1..Len(dfsStack) /\ Len(dfsStack) \in 1..Len(dfsStack) /\ k < Len(dfsStack)
          /\ dfsStack'[k] = dfsStack[k]
      BY <1>1, <2>2 DEF Replaced
    <2>4. CASE dfsStack[k] = m
      BY <1>1, <2>3, <2>4 DEF AboveInv, Shortcut
    <2>5. CASE dfsStack[k] # m
      BY <1>1, <1>5, <2>3, <2>5 DEF AboveInv
    <2> QED BY <2>4, <2>5
  <1>6. \A x, y : Above(x, y)' <=> Above(x, y)
    BY <1>1, SameEdges
  <1>7. ASSUME NEW k \in 1..Len(dfsStack'), NEW l \in 1..Len(dfsStack'), k < l
        PROVE  Above(dfsStack[k], dfsStack[l])'
    <2>1. PICK x, y : x = dfsStack'[k] /\ y = dfsStack'[l]
      OBVIOUS
    <2>2. Above(x, y)'
      BY <1>4, <1>6, <1>7, <2>1
    <2> QED BY <2>1, <2>2 DEF Above
  <1>8. ASSUME NEW k \in 1..Len(dfsStack'), dfsStack'[k] \in visited'
        PROVE  Shortcut(dfsStack[k])'
    <2>1. PICK x : x = dfsStack'[k]
      OBVIOUS
    <2>2. Above(x, x)'
      BY <1>5, <1>6, <1>8, <2>1 DEF Shortcut
    <2> QED BY <2>1, <2>2 DEF Above, Shortcut
  <1> QED BY <1>7, <1>8 DEF AboveInv

LEMMA VisitSingle ==
    ASSUME GraphTyped, AboveInv, SingleInv, NEW m, NEW kids, Pushed(m, kids),
           Ungrouped(m) \/ \E i, base : Grouped(m, i, base)
    PROVE  SingleInv'
  <1>1. /\ m \in Elements /\ outEdge' = outEdge
        /\ dfsStack[Len(dfsStack)] = m /\ Len(dfsStack) \in 1..Len(dfsStack)
    BY FrontFacts DEF Pushed, GraphTyped
  <1>2. \A g : Single(g)' <=> Single(g)
    BY <1>1, SameEdges DEF Single
  <1>3. CASE Ungrouped(m)
    BY <1>2, <1>3 DEF Ungrouped, SingleInv
  <1>4. CASE \E i, base : Grouped(m, i, base)
    <2>1. PICK i, base : Grouped(m, i, base)
      BY <1>4
    <2>2. base \in Seq(Elements) /\ Len(base) \in Nat /\ linear_group_set'[i] = Append(base, m)
      BY <2>1, LenProperties DEF Grouped
    <2>3. Single(base)
      <3>1. CASE i \in 1..Len(linear_group_set)
        BY <2>1, <3>1 DEF Grouped, SingleInv
      <3>2. CASE i \notin 1..Len(linear_group_set)
        <4>1. base = <<>>
          BY <2>1, <3>2 DEF Grouped
        <4>2. Len(base) = 0
          BY <4>1, EmptySeq
        <4> QED BY <4>2 DEF Single
      <3> QED BY <3>1, <3>2
    <2>4. PICK g \in Seq(Elements) : g = Append(base, m) /\ g = linear_group_set'[i]
      BY <1>1, <2>1, <2>2, AppendFacts DEF Grouped
    <2>5. /\ Len(g) = Len(base) + 1 /\ g[Len(base) + 1] = m
          /\ \A k \in 1..Len(base) : g[k] = base[k]
      <3>1. /\ Len(Append(base, m)) = Len(base) + 1 /\ Append(base, m)[Len(base) + 1] = m
            /\ \A k \in 1..Len(base) : Append(base, m)[k] = base[k]
        BY <1>1, <2>2, AppendFacts
      <3> QED BY <2>4, <3>1
    <2>6. ASSUME NEW j \in 1..Len(g), NEW k \in 1..Len(g), j < k, g[j] = g[k]
          PROVE  Shortcut(g[j])
      <3>1. j \in 1..Len(base)
        BY <2>2, <2>5, <2>6
      <3>2. CASE k \in 1..Len(base)
        BY <2>3, <2>5, <2>6, <3>1, <3>2 DEF Single
      <3>3. CASE k \notin 1..Len(base)
        <4>1. k = Len(base) + 1
          BY <2>2, <2>5, <3>3
        <4>2. g[j] = m /\ base[j] = m
          BY <2>5, <2>6, <3>1, <4>1
        <4>3. m \in visited
          BY <2>1, <3>1, <4>2 DEF Grouped, Occurs
        <4> QED BY <1>1, <4>2, <4>3 DEF AboveInv
      <3> QED BY <3>2, <3>3
    <2>7. Single(g)
      BY <2>6 DEF Single
    <2>8. ASSUME NEW j \in 1..Len(linear_group_set') PROVE Single(linear_group_set'[j])
      <3>1. CASE j = i
        BY <2>4, <2>7, <3>1
      <3>2. CASE j # i
        <4>1. Len(linear_group_set) \in Nat
          BY GroupsTyped
        <4>2. j \in 1..Len(linear_group_set) /\ linear_group_set'[j] = linear_group_set[j]
          BY <2>1, <3>2, <4>1 DEF Grouped
        <4> QED BY <4>2 DEF SingleInv
      <3> QED BY <3>1, <3>2
    <2>9. ASSUME NEW j \in 1..Len(linear_group_set') PROVE Single(linear_group_set[j])'
      <3>1. PICK h : h = linear_group_set'[j]
        OBVIOUS
      <3>2. Single(h)'
        BY <1>2, <2>8, <3>1
      <3> QED BY <3>1, <3>2 DEF Single
    <2> QED BY <2>9 DEF SingleInv
  <1> QED BY <1>3, <1>4

LEMMA GraphVisit == ASSUME GraphInv, Graph!Visit PROVE GraphInv'
  <1> USE DEF GraphInv
  <1>1. PICK m, kids : m = dfsStack[Len(dfsStack)] /\ Pushed(m, kids)
    BY VisitPushes
  <1>2. m \in Elements
    BY <1>1 DEF Pushed
  <1>3. Ungrouped(m) \/ \E i, base : Grouped(m, i, base)
    BY <1>1, <1>2, VisitGroups
  <1>4. GraphTyped'
    BY <1>1, <1>3, VisitTyped
  <1>5. MembersInv'
    BY <1>1, <1>3, VisitMembers
  <1>6. LinksInv'
    BY <1>1, <1>3, VisitLinks
  <1>7. ChainInv'
    BY <1>1, <1>3, VisitChain
  <1>8. ReachInv'
    BY <1>1, VisitReach
  <1>9. AboveInv'
    BY <1>1, VisitAbove
  <1>10. SingleInv'
    BY <1>1, <1>3, VisitSingle
  <1> QED BY <1>4, <1>5, <1>6, <1>7, <1>8, <1>9, <1>10

LEMMA GraphRoot == ASSUME GraphInv, NEW m \in roots, Graph!Root(m) PROVE GraphInv'
  <1> USE DEF GraphInv
  <1>1. /\ m \in Elements /\ Graph!inEdge(m) = {} /\ m \notin visited
        /\ dfsStack = <<>> /\ roots' = roots \ {m} /\ dfsStack' = <<m>>
        /\ outEdge' = outEdge /\ visited' = visited /\ linear_group' = linear_group
        /\ linear_group_set' = linear_group_set
    BY DEF Graph!Root, ReachInv, GraphTyped
  <1>2. /\ \A x : Graph!inEdge(x)' = Graph!inEdge(x)
        /\ \A p, x : Graph!OnlyFollows(p, x)' <=> Graph!OnlyFollows(p, x)
        /\ \A x, y : Above(x, y)' <=> Above(x, y)
        /\ \A x : Shortcut(x)' <=> Shortcut(x)
    BY <1>1, SameEdges
  <1>3. /\ dfsStack' \in Seq(Elements) /\ Len(dfsStack') = 1 /\ dfsStack'[1] = m
        /\ \A x : ~Occurs(dfsStack, x)
        /\ \A x : Occurs(dfsStack', x) <=> x = m
    <2>1. dfsStack' \in Seq(Elements) /\ Len(dfsStack') = 1 /\ dfsStack'[1] = m
      BY <1>1
    <2>2. \A x : ~Occurs(dfsStack, x)
      BY <1>1, EmptySeq DEF Occurs
    <2>3. \A x : Occurs(dfsStack', x) <=> x = m
      BY <2>1 DEF Occurs
    <2> QED BY <2>1, <2>2, <2>3
  <1>4. GraphTyped'
    BY <1>1, <1>3 DEF GraphTyped
  <1>5. MembersInv'
    BY <1>1 DEF MembersInv
  <1>6. LinksInv'
    BY <1>1, <1>2 DEF LinksInv, Linked
  <1>7. ChainInv'
    <2>1. ASSUME NEW p \in Elements, NEW x \in Elements, Graph!OnlyFollows(p, x)
          PROVE  Chained(p, x)'
      <3>1. Chained(p, x) /\ ~(p \in visited /\ x \notin visited)
        BY <1>1, <2>1 DEF ChainInv, Chained
      <3>2. PICK g : g = GroupOf(p)
        OBVIOUS
      <3>3. g = linear_group_set'[linear_group'[p] + 1]
        BY <1>1, <3>2 DEF GroupOf
      <3> QED BY <1>1, <3>1, <3>2, <3>3, ChainedNext DEF Chained
    <2>2. \A p \in Elements : ~Graph!OnlyFollows(p, m)
      BY <1>1 DEF Graph!OnlyFollows
    <2>3. ASSUME NEW k \in 1..Len(dfsStack'), NEW p \in Elements
          PROVE  ~Graph!OnlyFollows(p, dfsStack[k])'
      <3>1. dfsStack'[k] = m
        BY <1>3
      <3>2. ~Graph!OnlyFollows(p, m)'
        BY <1>2, <2>2
      <3> QED BY <3>1, <3>2 DEF Graph!OnlyFollows
    <2> QED BY <1>2, <2>1, <2>3 DEF ChainInv
  <1>8. ReachInv'
    <2>1. ASSUME NEW x \in roots'
          PROVE  Graph!inEdge(x) = {} /\ x \notin visited' /\ ~Occurs(dfsStack', x)
      BY <1>1, <1>3 DEF ReachInv
    <2>2. ASSUME NEW x \in Elements, Graph!inEdge(x) = {}
          PROVE  x \in roots' \/ x \in visited' \/ Occurs(dfsStack', x)
      BY <1>1, <1>3, <2>2 DEF ReachInv
    <2>3. ASSUME NEW x \in visited', NEW c \in outEdge[x] PROVE c \in visited'
      BY <1>1, <1>3 DEF ReachInv
    <2>4. \A x : Occurs(dfsStack, x)' <=> Occurs(dfsStack', x)
      BY DEF Occurs
    <2> QED BY <1>1, <1>2, <2>1, <2>2, <2>3, <2>4 DEF ReachInv
  <1>9. AboveInv'
    <2>1. ASSUME NEW k \in 1..Len(dfsStack'), NEW l \in 1..Len(dfsStack') PROVE ~(k < l)
      BY <1>3
    <2>2. \A k \in 1..Len(dfsStack') : dfsStack'[k] \notin visited'
      BY <1>1, <1>3
    <2> QED BY <2>1, <2>2 DEF AboveInv
  <1>10. SingleInv'
    BY <1>1, <1>2 DEF SingleInv, Single
  <1> QED BY <1>4, <1>5, <1>6, <1>7, <1>8, <1>9, <1>10

LEMMA GraphInit == Graph!Init => GraphInv
  <1> SUFFICES ASSUME Graph!Init PROVE GraphInv
    OBVIOUS
  <1>1. /\ roots = {m \in Elements : Graph!inEdge(m) = {}}
        /\ dfsStack = <<>> /\ visited = {}
        /\ linear_group = [m \in Elements |-> -1] /\ linear_group_set = <<>>
    BY DEF Graph!Init, Elements
  <1>2. Len(dfsStack) = 0 /\ Len(linear_group_set) = 0 /\ \A x : ~Occurs(dfsStack, x)
    BY <1>1, EmptySeq DEF Occurs
  <1>3. GraphTyped
    <2>1. PICK edges \in SUBSET {e \in Elements \X Elements : e[1] < e[2]} :
             outEdge = [m \in Elements |-> {c \in Elements : <<m, c>> \in edges}]
      BY DEF Graph!Init, Elements
    <2>2. outEdge \in [Elements -> SUBSET Elements]
      BY <2>1
    <2>3. ASSUME NEW m \in Elements, NEW c \in outEdge[m] PROVE m < c
      <3>1. <<m, c>> \in edges
        BY <2>1, <2>3
      <3> QED BY <2>1, <3>1
    <2>4. dfsStack \in Seq(Elements) /\ linear_group_set \in Seq(Seq(Elements))
      BY <1>1, EmptySeq
    <2>5. linear_group \in [Elements -> -1..(Len(linear_group_set) - 1)]
      BY <1>1, <1>2
    <2> QED BY <1>1, <2>2, <2>3, <2>4, <2>5 DEF GraphTyped
  <1>4. MembersInv /\ LinksInv /\ SingleInv
    BY <1>1, <1>2 DEF MembersInv, LinksInv, SingleInv
  <1>5. ChainInv
    BY <1>1, <1>2 DEF ChainInv, Chained
  <1>6. ReachInv
    BY <1>1, <1>2 DEF ReachInv
  <1>7. AboveInv
    BY <1>1, <1>2 DEF AboveInv
  <1> QED BY <1>3, <1>4, <1>5, <1>6, <1>7 DEF GraphInv

LEMMA GraphStep == ASSUME GraphInv, Graph!Next PROVE GraphInv'
  BY GraphVisit, GraphRoot DEF Graph!Next

LEMMA GraphStutter == ASSUME GraphInv, UNCHANGED graphVars PROVE GraphInv'
  <1>1. /\ outEdge' = outEdge /\ roots' = roots /\ dfsStack' = dfsStack /\ visited' = visited
        /\ linear_group' = linear_group /\ linear_group_set' = linear_group_set
    BY DEF graphVars
  <1>2. /\ \A x : Graph!inEdge(x)' = Graph!inEdge(x)
        /\ \A p, x : Graph!OnlyFollows(p, x)' <=> Graph!OnlyFollows(p, x)
        /\ \A x, y : Above(x, y)' <=> Above(x, y)
        /\ \A x : Shortcut(x)' <=> Shortcut(x)
    BY <1>1, SameEdges
  <1>3. GraphTyped' /\ MembersInv'
    BY <1>1 DEF GraphInv, GraphTyped, MembersInv
  <1>4. LinksInv' /\ SingleInv' /\ AboveInv'
    BY <1>1, <1>2 DEF GraphInv, LinksInv, Linked, SingleInv, Single, AboveInv
  <1>5. ChainInv'
    BY <1>1, <1>2 DEF GraphInv, ChainInv, Chained, GroupOf
  <1>6. ReachInv'
    BY <1>1, <1>2 DEF GraphInv, ReachInv, Occurs
  <1> QED BY <1>3, <1>4, <1>5, <1>6 DEF GraphInv

\* Every element is reached from a root.
LEMMA AllVisited == ASSUME GraphInv, Graph!Done PROVE visited = Elements
  <1> USE DEF GraphInv
  <1> DEFINE Left == Elements \ visited
  <1>1. visited \subseteq Elements /\ Left \subseteq Nat
    BY ElementFacts DEF GraphTyped
  <1>2. \A x : ~Occurs(dfsStack, x)
    BY EmptySeq DEF Graph!Done, Occurs
  <1>3. ASSUME Left # {} PROVE FALSE
    <2>1. PICK m \in Left : \A p \in Left : <<p, m>> \notin Less
      <3> HIDE DEF Left
      <3> QED BY <1>1, <1>3, LessWellFounded, WFMin
    <2>2. Graph!inEdge(m) # {}
      BY <1>2, <2>1 DEF ReachInv, Graph!Done
    <2>3. PICK p \in Graph!inEdge(m) : TRUE
      BY <2>2
    <2>4. p \in Elements /\ m \in outEdge[p] /\ p < m
      BY <2>1, <2>3, EdgeFacts
    <2>5. p \in visited
      <3>1. p \in Nat /\ m \in Nat
        BY <2>1, <2>4, ElementFacts
      <3>2. <<p, m>> \in Less
        BY <2>4, <3>1 DEF Less
      <3> QED BY <2>1, <2>4, <3>2
    <2> QED BY <1>2, <2>1, <2>4, <2>5 DEF ReachInv
  <1> QED BY <1>1, <1>3

LEMMA FewMembers ==
    ASSUME NEW S, \A a, b \in S : a = b
    PROVE  IsFiniteSet(S) /\ Cardinality(S) <= 1
  <1>1. CASE S = {}
    BY <1>1, FS_EmptySet
  <1>2. CASE S # {}
    <2>1. PICK x : S = {x}
      BY <1>2
    <2>2. IsFiniteSet({x}) /\ Cardinality({x}) = 1
      BY FS_Singleton
    <2> QED BY <2>1, <2>2
  <1> QED BY <1>1, <1>2

LEMMA ContainsIsIn == \A g, x : Graph!Contains(g, x) <=> Occurs(g, x)
  BY DEF Graph!Contains, Occurs

LEMMA GroupsAre ==
    ASSUME GraphInv, NEW g \in Graph!Groups
    PROVE  \E i \in 1..Len(linear_group_set) : g = linear_group_set[i] /\ g \in Seq(Elements)
  <1>1. DOMAIN linear_group_set = 1..Len(linear_group_set)
    BY LenProperties DEF GraphInv, GraphTyped
  <1> QED BY <1>1, GroupsTyped DEF Graph!Groups, GraphInv

LEMMA GraphPaths == GraphInv => Graph!GroupsArePaths
  <1> USE DEF GraphInv
  <1> SUFFICES ASSUME GraphInv, Graph!Done, NEW m \in Elements
               PROVE  /\ Graph!Cardinality({g \in Graph!Groups : Graph!Contains(g, m)}) <= 1
                      /\ \A g \in Graph!Groups : Graph!Contains(g, m) /\ Graph!FirstAt(g, m) > 1 =>
                            Graph!OnlyFollows(g[Graph!FirstAt(g, m) - 1], m)
                      /\ \A p \in Elements : Graph!OnlyFollows(p, m) =>
                            \E g \in Graph!Groups : /\ Graph!Contains(g, p)
                                                    /\ Graph!FirstAt(g, m) = Graph!FirstAt(g, p) + 1
    BY DEF Graph!GroupsArePaths, Elements
  <1> DEFINE S == {g \in Graph!Groups : Graph!Contains(g, m)}
  <1>1. Graph!Cardinality(S) <= 1
    <2>1. ASSUME NEW a \in S, NEW b \in S PROVE a = b
      <3>1. PICK i \in 1..Len(linear_group_set) : a = linear_group_set[i]
        BY GroupsAre
      <3>2. PICK j \in 1..Len(linear_group_set) : b = linear_group_set[j]
        BY GroupsAre
      <3>3. linear_group[m] = i - 1 /\ linear_group[m] = j - 1
        BY <3>1, <3>2, ContainsIsIn DEF MembersInv
      <3>4. i = j
        BY <3>3
      <3> QED BY <3>1, <3>2, <3>4
    <2> HIDE DEF S
    <2>2. Cardinality(S) <= 1
      BY <2>1, FewMembers
    <2> QED BY <2>2, SameCardinality
  <1>2. ASSUME NEW g \in Graph!Groups, Graph!Contains(g, m), Graph!FirstAt(g, m) > 1
        PROVE  Graph!OnlyFollows(g[Graph!FirstAt(g, m) - 1], m)
    <2>1. Occurs(g, m) /\ Linked(g)
      BY <1>2, ContainsIsIn, GroupsAre DEF LinksInv
    <2> QED BY <1>2, <2>1 DEF Linked
  <1>3. ASSUME NEW p \in Elements, Graph!OnlyFollows(p, m)
        PROVE  \E g \in Graph!Groups : /\ Graph!Contains(g, p)
                                       /\ Graph!FirstAt(g, m) = Graph!FirstAt(g, p) + 1
    <2>1. p \in visited /\ m \in visited
      BY AllVisited
    <2>2. Graph!FirstAt(GroupOf(p), m) = Graph!FirstAt(GroupOf(p), p) + 1
      BY <1>3, <2>1 DEF ChainInv, Chained
    <2>3. linear_group[p] # -1
      <3>1. outEdge[p] = {m}
        BY <1>3 DEF Graph!OnlyFollows
      <3>2. Cardinality(outEdge[p]) = 1
        BY <3>1, FS_Singleton
      <3> QED BY <2>1, <3>2 DEF MembersInv
    <2>4. PICK i \in 1..Len(linear_group_set) : i = linear_group[p] + 1
      BY <2>3, GroupsTyped
    <2>5. linear_group[p] = i - 1
      BY <2>4 DEF GraphTyped
    <2>6. GroupOf(p) = linear_group_set[i]
      BY <2>4 DEF GroupOf
    <2>7. Graph!Contains(GroupOf(p), p)
      BY <2>5, <2>6, ContainsIsIn DEF MembersInv
    <2>8. DOMAIN linear_group_set = 1..Len(linear_group_set)
      BY LenProperties DEF GraphTyped
    <2>9. GroupOf(p) \in Graph!Groups
      BY <2>6, <2>8 DEF Graph!Groups
    <2> QED BY <2>2, <2>7, <2>9
  <1> QED BY <1>1, <1>2, <1>3

LEMMA GraphOnce == GraphInv => Graph!OnceUnlessShortcut
  <1> SUFFICES ASSUME GraphInv, Graph!Done, NEW g \in Graph!Groups, NEW m \in Elements,
                      Graph!Cardinality({i \in DOMAIN g : g[i] = m}) > 1
               PROVE  \E p \in Graph!inEdge(m) : \E c \in outEdge[p] \ {m} : m \in Graph!Below[c]
    BY DEF Graph!OnceUnlessShortcut, Elements
  <1> DEFINE S == {i \in DOMAIN g : g[i] = m}
  <1>1. g \in Seq(Elements) /\ Single(g)
    BY GroupsAre DEF GraphInv, SingleInv
  <1>2. DOMAIN g = 1..Len(g) /\ Len(g) \in Nat
    BY <1>1, LenProperties
  <1>3. Cardinality(S) > 1
    BY SameCardinality
  <1>4. ~\A a, b \in S : a = b
    <2> HIDE DEF S
    <2> SUFFICES ASSUME \A a, b \in S : a = b PROVE FALSE
      OBVIOUS
    <2>1. IsFiniteSet(S) /\ Cardinality(S) <= 1
      BY FewMembers
    <2>2. Cardinality(S) \in Nat
      BY <2>1, FS_CardinalityType
    <2> QED BY <1>3, <2>1, <2>2
  <1>5. PICK a \in S, b \in S : a # b
    BY <1>4
  <1>6. a \in 1..Len(g) /\ b \in 1..Len(g) /\ g[a] = m /\ g[b] = m /\ (a < b \/ b < a)
    BY <1>2, <1>5
  <1>7. Shortcut(m)
    BY <1>1, <1>6 DEF Single
  <1> QED BY <1>7 DEF Shortcut, Above

LEMMA GraphCorrect == AnySpec => [](part = "graph" => GraphInv)
  <1> DEFINE PartInv == part = "graph" => GraphInv
  <1>1. AnyInit => PartInv
    BY GraphInit DEF AnyInit
  <1>2. PartInv /\ [AnyNext]_<<part, vars, fibVars, routeVars, graphVars>> => PartInv'
    <2> SUFFICES ASSUME PartInv, [AnyNext]_<<part, vars, fibVars, routeVars, graphVars>>, part' = "graph"
                 PROVE  GraphInv'
      OBVIOUS
    <2>1. part = "graph" /\ (Graph!Next \/ UNCHANGED graphVars)
      BY DEF AnyNext
    <2> QED BY <2>1, GraphStep, GraphStutter
  <1> QED BY <1>1, <1>2, PTL DEF AnySpec

\* GraphAnalyzer::analyze: in whatever order the edges of an element are visited, when the
\* search ends each group is a path of elements that only follow each other, every such pair
\* is neighbours in a group, and no element is in two groups.
THEOREM GroupsCorrect == AnySpec => []GroupsArePaths
  <1>1. (part = "graph" => GraphInv) => GroupsArePaths
    BY GraphPaths DEF GroupsArePaths
  <1> QED BY <1>1, GraphCorrect, PTL

\* GraphAnalyzer::analyze: an element is put in its group twice only if one of its parents
\* also leads to it by way of another child.
THEOREM OnceCorrect == AnySpec => []OnceUnlessShortcut
  <1>1. (part = "graph" => GraphInv) => OnceUnlessShortcut
    BY GraphOnce DEF OnceUnlessShortcut
  <1> QED BY <1>1, GraphCorrect, PTL

=============================================================================
