--------------------------- MODULE Counting_proofs ---------------------------
(***************************************************************************)
(* What the operations on queues and tables do to the number of times a    *)
(* value occurs in them.                                                   *)
(***************************************************************************)
EXTENDS Counting, FiniteSetTheorems, SequenceTheorems, WellFoundedInduction, TLAPS

One(x, y) == IF x = y THEN 1 ELSE 0

LEMMA OneType == ASSUME NEW x, NEW y PROVE One(x, y) \in {0, 1}
  BY DEF One

-----------------------------------------------------------------------------
(* Finite sets                                                             *)

\* The size of a set of numbers does not change when the numbers are shifted.
LEMMA Shifted ==
    ASSUME NEW S \in SUBSET Int, IsFiniteSet(S), NEW k \in Int, NEW T \in SUBSET Int,
           \A i \in Int : i + k \in T <=> i \in S
    PROVE  IsFiniteSet(T) /\ Cardinality(T) = Cardinality(S)
  <1> DEFINE f == [i \in S |-> i + k]
  <1>1. f \in [S -> T]
    OBVIOUS
  <1>2. ASSUME NEW j \in T PROVE j - k \in S
    <2>1. j - k \in Int /\ (j - k) + k = j
      OBVIOUS
    <2> QED BY <2>1
  <1>3. f \in Bijection(S, T)
    <2>1. ASSUME NEW i \in S, NEW j \in S, f[i] = f[j] PROVE i = j
      BY <2>1
    <2>2. \A j \in T : \E i \in S : f[i] = j
      <3> TAKE j \in T
      <3>1. j - k \in S /\ f[j - k] = j
        BY <1>2
      <3> QED BY <3>1
    <2> HIDE DEF f
    <2> QED BY <1>1, <2>1, <2>2 DEF Bijection, Injection, Surjection, IsInjective
  <1>4. ExistsBijection(S, T)
    BY <1>3 DEF ExistsBijection
  <1> QED BY <1>4, FS_Bijection

\* Two parts of a set.
LEMMA Parts ==
    ASSUME NEW S, NEW T, IsFiniteSet(S), IsFiniteSet(T), S \cap T = {}
    PROVE  IsFiniteSet(S \cup T) /\ Cardinality(S \cup T) = Cardinality(S) + Cardinality(T)
  <1>1. Cardinality(S) \in Nat /\ Cardinality(T) \in Nat /\ Cardinality({}) = 0
    BY FS_CardinalityType, FS_EmptySet
  <1>2. IsFiniteSet(S \cup T)
        /\ Cardinality(S \cup T) = Cardinality(S) + Cardinality(T) - Cardinality(S \cap T)
    BY FS_Union, Zenon
  <1>3. Cardinality(S \cap T) = 0
    BY <1>1
  <1> QED BY <1>1, <1>2, <1>3

-----------------------------------------------------------------------------
(* Sequences                                                               *)

Places(s, x) == {i \in 1..Len(s) : s[i] = x}

LEMMA PlacesFinite ==
    ASSUME NEW S, NEW s \in Seq(S), NEW x
    PROVE  /\ IsFiniteSet(Places(s, x)) /\ Places(s, x) \in SUBSET (1..Len(s))
           /\ Len(s) \in Nat /\ Count(s, x) = Cardinality(Places(s, x)) /\ Count(s, x) \in Nat
  <1>1. Len(s) \in Nat /\ DOMAIN s = 1..Len(s)
    BY LenProperties
  <1>2. IsFiniteSet(1..Len(s)) /\ Places(s, x) \in SUBSET (1..Len(s))
    BY <1>1, FS_Interval DEF Places
  <1>3. IsFiniteSet(Places(s, x))
    BY <1>2, FS_Subset
  <1> QED BY <1>1, <1>2, <1>3, FS_CardinalityType DEF Count, Places

LEMMA CountType == ASSUME NEW S, NEW s \in Seq(S), NEW x PROVE Count(s, x) \in Nat
  BY PlacesFinite

LEMMA CountEmpty == ASSUME NEW x PROVE Count(<<>>, x) = 0
  <1>1. {i \in DOMAIN <<>> : <<>>[i] = x} = {}
    OBVIOUS
  <1> QED BY <1>1, FS_EmptySet DEF Count

LEMMA CountPositive ==
    ASSUME NEW S, NEW s \in Seq(S), NEW x
    PROVE  Count(s, x) # 0 <=> \E i \in 1..Len(s) : s[i] = x
  <1>1. IsFiniteSet(Places(s, x)) /\ Count(s, x) = Cardinality(Places(s, x))
    BY PlacesFinite
  <1>2. Count(s, x) = 0 <=> Places(s, x) = {}
    BY <1>1, FS_EmptySet
  <1> QED BY <1>2 DEF Places

\* Two places of a value that occurs at most once are the same.
LEMMA CountUnique ==
    ASSUME NEW S, NEW s \in Seq(S), NEW x, Count(s, x) <= 1,
           NEW i \in 1..Len(s), NEW j \in 1..Len(s), s[i] = x, s[j] = x
    PROVE  i = j
  <1>1. IsFiniteSet(Places(s, x)) /\ Count(s, x) = Cardinality(Places(s, x))
    BY PlacesFinite
  <1>2. i \in Places(s, x) /\ j \in Places(s, x)
    BY DEF Places
  <1>3. Cardinality(Places(s, x)) \in Nat /\ Cardinality(Places(s, x)) # 0
    BY <1>1, <1>2, FS_CardinalityType, FS_EmptySet
  <1>4. Cardinality(Places(s, x)) = 1
    BY <1>1, <1>3
  <1>5. PICK y : Places(s, x) = {y}
    BY <1>1, <1>4, FS_Singleton
  <1> QED BY <1>2, <1>5

\* Concatenation
LEMMA CountConcat ==
    ASSUME NEW S, NEW s \in Seq(S), NEW t \in Seq(S), NEW x
    PROVE  Count(s \o t, x) = Count(s, x) + Count(t, x)
  <1> DEFINE P == Places(s, x)
             Q == Places(t, x)
             R == Places(s \o t, x)
             T == {j \in Int : j - Len(s) \in Q}
  <1>1. /\ Len(s) \in Nat /\ Len(t) \in Nat
        /\ s \o t \in Seq(S) /\ Len(s \o t) = Len(s) + Len(t)
        /\ \A i \in 1..Len(s) + Len(t) :
              (s \o t)[i] = IF i <= Len(s) THEN s[i] ELSE t[i - Len(s)]
    BY ConcatProperties, LenProperties
  <1>2. IsFiniteSet(P) /\ Count(s, x) = Cardinality(P) /\ P \in SUBSET (1..Len(s))
    BY PlacesFinite
  <1>3. IsFiniteSet(Q) /\ Count(t, x) = Cardinality(Q) /\ Q \in SUBSET (1..Len(t))
    BY PlacesFinite
  <1>4. Count(s \o t, x) = Cardinality(R)
    BY <1>1, PlacesFinite
  <1>5. IsFiniteSet(T) /\ Cardinality(T) = Cardinality(Q)
    <2>1. \A i \in Int : i + Len(s) \in T <=> i \in Q
      <3> TAKE i \in Int
      <3>1. i + Len(s) \in Int /\ (i + Len(s)) - Len(s) = i
        BY <1>1
      <3> QED BY <3>1
    <2>2. Q \in SUBSET Int /\ T \in SUBSET Int
      BY <1>1, <1>3
    <2> HIDE DEF Q, T
    <2>3. Len(s) \in Int
      BY <1>1
    <2> QED BY <1>3, <2>1, <2>2, <2>3, Shifted, Zenon
  <1>6. P \cap T = {}
    <2> SUFFICES ASSUME NEW i \in P, i \in T PROVE FALSE
      OBVIOUS
    <2>1. i \in Int /\ i <= Len(s) /\ i - Len(s) >= 1
      BY <1>1, <1>2, <1>3
    <2> QED BY <1>1, <2>1
  <1>7. R = P \cup T
    <2>1. ASSUME NEW i \in R PROVE i \in P \cup T
      <3>1. i \in 1..Len(s) + Len(t) /\ (s \o t)[i] = x
        BY <1>1 DEF Places
      <3>2. CASE i <= Len(s)
        <4>1. i \in 1..Len(s) /\ s[i] = x
          BY <1>1, <3>1, <3>2
        <4> QED BY <4>1 DEF Places
      <3>3. CASE ~(i <= Len(s))
        <4>1. i - Len(s) \in 1..Len(t) /\ t[i - Len(s)] = x /\ i \in Int
          BY <1>1, <3>1, <3>3
        <4> QED BY <4>1 DEF Places
      <3> QED BY <3>2, <3>3
    <2>2. ASSUME NEW i \in P PROVE i \in R
      <3>1. i \in 1..Len(s) /\ s[i] = x
        BY DEF Places
      <3>2. i \in 1..Len(s) + Len(t) /\ (s \o t)[i] = x
        BY <1>1, <3>1
      <3> QED BY <1>1, <3>2 DEF Places
    <2>3. ASSUME NEW i \in T PROVE i \in R
      <3>1. i \in Int /\ i - Len(s) \in 1..Len(t) /\ t[i - Len(s)] = x
        BY DEF Places
      <3>2. i \in 1..Len(s) + Len(t) /\ (s \o t)[i] = x
        BY <1>1, <3>1
      <3> QED BY <1>1, <3>2 DEF Places
    <2> QED BY <2>1, <2>2, <2>3
  <1> HIDE DEF P, Q, R, T
  <1>8. Cardinality(R) = Cardinality(P) + Cardinality(T)
    BY <1>2, <1>5, <1>6, <1>7, Parts, Zenon
  <1> QED BY <1>2, <1>3, <1>4, <1>5, <1>8

LEMMA CountSingle == ASSUME NEW S, NEW y \in S, NEW x PROVE Count(<<y>>, x) = One(y, x)
  <1>1. {i \in DOMAIN <<y>> : <<y>>[i] = x} = IF y = x THEN {1} ELSE {}
    OBVIOUS
  <1> QED BY <1>1, FS_EmptySet, FS_Singleton DEF Count, One

\* push_back(), push_front() and pop_front() of a queue.
LEMMA CountPushBack ==
    ASSUME NEW S, NEW s \in Seq(S), NEW y \in S, NEW x
    PROVE  Count(Append(s, y), x) = Count(s, x) + One(y, x)
  <1>1. Append(s, y) = s \o <<y>> /\ <<y>> \in Seq(S)
    BY AppendIsConcat
  <1>2. Count(s \o <<y>>, x) = Count(s, x) + Count(<<y>>, x)
    BY <1>1, CountConcat, Zenon
  <1>3. Count(<<y>>, x) = One(y, x)
    BY CountSingle
  <1> QED BY <1>1, <1>2, <1>3

LEMMA CountPushFront ==
    ASSUME NEW S, NEW s \in Seq(S), NEW y \in S, NEW x
    PROVE  Count(<<y>> \o s, x) = Count(s, x) + One(y, x)
  <1>1. <<y>> \in Seq(S)
    OBVIOUS
  <1>2. Count(s, x) \in Nat
    BY CountType
  <1>3. Count(<<y>> \o s, x) = Count(<<y>>, x) + Count(s, x)
    BY <1>1, CountConcat, Zenon
  <1>4. Count(<<y>>, x) = One(y, x) /\ One(y, x) \in {0, 1}
    BY CountSingle, OneType
  <1> QED BY <1>2, <1>3, <1>4

LEMMA CountPop ==
    ASSUME NEW S, NEW s \in Seq(S), s # <<>>, NEW x
    PROVE  Count(Tail(s), x) = Count(s, x) - One(Head(s), x)
  <1>1. Head(s) \in S /\ Tail(s) \in Seq(S) /\ s = <<Head(s)>> \o Tail(s)
    <2>1. /\ Head(s) \in S /\ Tail(s) \in Seq(S) /\ Len(Tail(s)) = Len(s) - 1
          /\ Len(s) \in Nat /\ Head(s) = s[1]
          /\ \A i \in 1..Len(Tail(s)) : Tail(s)[i] = s[i + 1]
      BY HeadTailProperties, LenProperties
    <2>2. /\ <<Head(s)>> \in Seq(S) /\ Len(<<Head(s)>>) = 1 /\ <<Head(s)>>[1] = s[1]
      BY <2>1
    <2>3. /\ <<Head(s)>> \o Tail(s) \in Seq(S) /\ Len(<<Head(s)>> \o Tail(s)) = Len(s)
          /\ \A i \in 1..Len(s) : (<<Head(s)>> \o Tail(s))[i] =
                IF i <= 1 THEN <<Head(s)>>[i] ELSE Tail(s)[i - 1]
      BY <2>1, <2>2, ConcatProperties
    <2>4. \A i \in 1..Len(s) : (<<Head(s)>> \o Tail(s))[i] = s[i]
      BY <2>1, <2>2, <2>3
    <2> QED BY <2>1, <2>3, <2>4, SeqEqual
  <1>2. Count(s, x) = Count(Tail(s), x) + One(Head(s), x)
    BY <1>1, CountPushFront
  <1>3. Count(Tail(s), x) \in Nat /\ One(Head(s), x) \in {0, 1}
    BY <1>1, CountType, OneType
  <1> QED BY <1>2, <1>3

\* The first item goes to the back.
LEMMA CountRotate ==
    ASSUME NEW S, NEW s \in Seq(S), s # <<>>, NEW x
    PROVE  Count(Append(Tail(s), Head(s)), x) = Count(s, x)
  <1>1. Head(s) \in S /\ Tail(s) \in Seq(S)
    BY HeadTailProperties
  <1>2. Count(s, x) \in Nat /\ One(Head(s), x) \in {0, 1}
    BY CountType, OneType
  <1>3. Count(Append(Tail(s), Head(s)), x) = Count(Tail(s), x) + One(Head(s), x)
    BY <1>1, CountPushBack, Zenon
  <1>4. Count(Tail(s), x) = Count(s, x) - One(Head(s), x)
    BY CountPop, Zenon
  <1> QED BY <1>2, <1>3, <1>4

-----------------------------------------------------------------------------
(* Functions                                                               *)

In(x, S) == IF x \in S THEN 1 ELSE 0

\* Sets that differ in at most one element.
LEMMA OneChanged ==
    ASSUME NEW A, NEW B, IsFiniteSet(A), NEW d, A \ {d} = B \ {d}
    PROVE  IsFiniteSet(B) /\ Cardinality(B) = Cardinality(A) - In(d, A) + In(d, B)
  <1>1. /\ IsFiniteSet(A \ {d})
        /\ Cardinality(A \ {d}) = IF d \in A THEN Cardinality(A) - 1 ELSE Cardinality(A)
    BY FS_RemoveElement
  <1>2. /\ IsFiniteSet((A \ {d}) \cup {d})
        /\ Cardinality((A \ {d}) \cup {d}) = Cardinality(A \ {d}) + 1
    BY <1>1, FS_AddElement
  <1>3. Cardinality(A) \in Nat /\ Cardinality(A \ {d}) \in Nat
    BY <1>1, FS_CardinalityType
  <1>4. CASE d \in B
    <2>1. B = (A \ {d}) \cup {d}
      BY <1>4
    <2> QED BY <1>1, <1>2, <1>3, <1>4, <2>1 DEF In
  <1>5. CASE d \notin B
    <2>1. B = A \ {d}
      BY <1>5
    <2> QED BY <1>1, <1>3, <1>5, <2>1 DEF In
  <1> QED BY <1>4, <1>5

\* A function that changes at one argument.
LEMMA CountChanged ==
    ASSUME NEW D, IsFiniteSet(D), NEW f, NEW g, DOMAIN f = D, DOMAIN g = D,
           NEW d \in D, \A e \in D \ {d} : f[e] = g[e], NEW x
    PROVE  /\ Count(f, x) \in Nat /\ Count(g, x) \in Nat
           /\ Count(g, x) = Count(f, x) - One(f[d], x) + One(g[d], x)
  <1> DEFINE A == {e \in D : f[e] = x}
             B == {e \in D : g[e] = x}
  <1>1. IsFiniteSet(A)
    BY FS_Subset
  <1>2. A \ {d} = B \ {d}
    OBVIOUS
  <1>3. /\ d \in A <=> f[d] = x
        /\ d \in B <=> g[d] = x
    OBVIOUS
  <1>4. Count(f, x) = Cardinality(A) /\ Count(g, x) = Cardinality(B)
    BY DEF Count
  <1> HIDE DEF A, B
  <1>5. IsFiniteSet(B) /\ Cardinality(B) = Cardinality(A) - In(d, A) + In(d, B)
    BY <1>1, <1>2, OneChanged, Zenon
  <1>6. Cardinality(A) \in Nat /\ Cardinality(B) \in Nat
    BY <1>1, <1>5, FS_CardinalityType
  <1> QED BY <1>3, <1>4, <1>5, <1>6 DEF In, One

\* Tables of sequences.
SeqTable(f, D, S) == IsFiniteSet(D) /\ f \in [D -> Seq(S)]

LEMMA CountInFinite ==
    ASSUME NEW D, NEW S, NEW f, SeqTable(f, D, S), NEW x
    PROVE  /\ IsFiniteSet(Entries(f, x)) /\ CountIn(f, x) \in Nat
           /\ CountIn(f, x) = Cardinality(Entries(f, x))
           /\ \A p : p \in Entries(f, x) <=>
                \E d \in D : \E i \in 1..Len(f[d]) : f[d][i] = x /\ p = <<d, i>>
  <1> USE DEF SeqTable
  <1> DEFINE All == UNION {{d} \X DOMAIN f[d] : d \in D}
             g == [d \in D |-> {d} \X DOMAIN f[d]]
             R == {g[d] : d \in D}
  <1>1. \A d \in D : f[d] \in Seq(S) /\ Len(f[d]) \in Nat /\ DOMAIN f[d] = 1..Len(f[d])
    BY LenProperties
  <1>2. ASSUME NEW d \in D PROVE IsFiniteSet({d} \X DOMAIN f[d])
    <2>1. PICK n \in Nat : n = Len(f[d]) /\ DOMAIN f[d] = 1..n
      BY <1>1
    <2>2. IsFiniteSet(1..n)
      BY FS_Interval
    <2>3. IsFiniteSet({d})
      BY FS_Singleton
    <2>4. IsFiniteSet({d} \X (1..n))
      BY <2>2, <2>3, FS_Product
    <2> QED BY <2>1, <2>4
  <1>3. IsFiniteSet(R)
    <2>1. g \in Surjection(D, R)
      BY DEF Surjection
    <2> HIDE DEF g, R
    <2> QED BY <2>1, FS_Surjection
  <1>4. All = UNION R
    OBVIOUS
  <1>5. IsFiniteSet(All)
    <2>1. \A T \in R : IsFiniteSet(T)
      BY <1>2
    <2> HIDE DEF R, All
    <2> QED BY <1>3, <1>4, <2>1, FS_UNION
  <1>6. Entries(f, x) \in SUBSET All
    BY DEF Entries
  <1> HIDE DEF All
  <1>7. IsFiniteSet(Entries(f, x))
    BY <1>5, <1>6, FS_Subset
  <1>8. CountIn(f, x) \in Nat
    BY <1>7, FS_CardinalityType DEF CountIn
  <1>9. ASSUME NEW p
        PROVE  p \in Entries(f, x) <=>
                 \E d \in D : \E i \in 1..Len(f[d]) : f[d][i] = x /\ p = <<d, i>>
    BY <1>1 DEF Entries
  <1> QED BY <1>7, <1>8, <1>9 DEF CountIn

\* One of the sequences changes.
LEMMA CountInChanged ==
    ASSUME NEW D, NEW S, NEW f, SeqTable(f, D, S), NEW g, SeqTable(g, D, S), NEW d \in D,
           \A e \in D \ {d} : f[e] = g[e], NEW x
    PROVE  CountIn(g, x) = CountIn(f, x) - Count(f[d], x) + Count(g[d], x)
  <1>1. /\ IsFiniteSet(Entries(f, x)) /\ CountIn(f, x) \in Nat
        /\ CountIn(f, x) = Cardinality(Entries(f, x))
        /\ \A p : p \in Entries(f, x) <=>
             \E e \in D : \E i \in 1..Len(f[e]) : f[e][i] = x /\ p = <<e, i>>
    BY CountInFinite
  <1>2. /\ IsFiniteSet(Entries(g, x)) /\ CountIn(g, x) \in Nat
        /\ CountIn(g, x) = Cardinality(Entries(g, x))
        /\ \A p : p \in Entries(g, x) <=>
             \E e \in D : \E i \in 1..Len(g[e]) : g[e][i] = x /\ p = <<e, i>>
    BY CountInFinite
  <1>3. f[d] \in Seq(S) /\ g[d] \in Seq(S)
    BY DEF SeqTable
  <1> DEFINE Rest == {p \in Entries(f, x) : p[1] # d}
             F == {d} \X Places(f[d], x)
             G == {d} \X Places(g[d], x)
  <1>4. IsFiniteSet(F) /\ Cardinality(F) = Count(f[d], x) /\ Count(f[d], x) \in Nat
    <2>1. /\ IsFiniteSet({d}) /\ Cardinality({d}) = 1
          /\ IsFiniteSet(Places(f[d], x)) /\ Count(f[d], x) = Cardinality(Places(f[d], x))
          /\ Count(f[d], x) \in Nat
      BY <1>3, FS_Singleton, PlacesFinite
    <2>2. IsFiniteSet(F) /\ Cardinality(F) = Cardinality({d}) * Cardinality(Places(f[d], x))
      BY <2>1, FS_Product, Zenon
    <2> QED BY <2>1, <2>2
  <1>5. IsFiniteSet(G) /\ Cardinality(G) = Count(g[d], x) /\ Count(g[d], x) \in Nat
    <2>1. /\ IsFiniteSet({d}) /\ Cardinality({d}) = 1
          /\ IsFiniteSet(Places(g[d], x)) /\ Count(g[d], x) = Cardinality(Places(g[d], x))
          /\ Count(g[d], x) \in Nat
      BY <1>3, FS_Singleton, PlacesFinite
    <2>2. IsFiniteSet(G) /\ Cardinality(G) = Cardinality({d}) * Cardinality(Places(g[d], x))
      BY <2>1, FS_Product, Zenon
    <2> QED BY <2>1, <2>2
  <1>6. IsFiniteSet(Rest) /\ Cardinality(Rest) \in Nat
    <2>1. Rest \in SUBSET Entries(f, x)
      OBVIOUS
    <2> HIDE DEF Rest
    <2> QED BY <1>1, <2>1, FS_Subset, FS_CardinalityType
  <1>7. Entries(f, x) = Rest \cup F /\ Rest \cap F = {}
    BY <1>1 DEF Places
  <1>8. Entries(g, x) = Rest \cup G /\ Rest \cap G = {}
    <2>1. ASSUME NEW p \in Entries(g, x) PROVE p \in Rest \cup G
      <3>1. PICK e \in D : \E i \in 1..Len(g[e]) : g[e][i] = x /\ p = <<e, i>>
        BY <1>2
      <3>2. PICK i \in 1..Len(g[e]) : g[e][i] = x /\ p = <<e, i>>
        BY <3>1
      <3>3. CASE e = d
        BY <3>2, <3>3 DEF Places
      <3>4. CASE e # d
        <4>1. f[e] = g[e] /\ p[1] # d
          BY <3>2, <3>4
        <4> QED BY <1>1, <3>2, <4>1
      <3> QED BY <3>3, <3>4
    <2>2. ASSUME NEW p \in Rest PROVE p \in Entries(g, x)
      <3>1. PICK e \in D : \E i \in 1..Len(f[e]) : f[e][i] = x /\ p = <<e, i>>
        BY <1>1
      <3>2. e # d /\ f[e] = g[e]
        BY <3>1
      <3> QED BY <1>2, <3>1, <3>2
    <2>3. ASSUME NEW p \in G PROVE p \in Entries(g, x)
      BY <1>2, <2>3 DEF Places
    <2>4. Rest \cap G = {}
      OBVIOUS
    <2> QED BY <2>1, <2>2, <2>3, <2>4
  <1> HIDE DEF Rest, F, G
  <1>9. Cardinality(Entries(f, x)) = Cardinality(Rest) + Cardinality(F)
    BY <1>4, <1>6, <1>7, Parts, Zenon
  <1>10. Cardinality(Entries(g, x)) = Cardinality(Rest) + Cardinality(G)
    BY <1>5, <1>6, <1>8, Parts, Zenon
  <1> QED BY <1>1, <1>2, <1>4, <1>5, <1>6, <1>9, <1>10

\* An occurrence in one of the sequences is one in all of them.
LEMMA CountInPositive ==
    ASSUME NEW D, NEW S, NEW f, SeqTable(f, D, S), NEW x
    PROVE  /\ CountIn(f, x) # 0 <=> \E d \in D : \E i \in 1..Len(f[d]) : f[d][i] = x
           /\ \A d \in D : Count(f[d], x) \in Nat /\ Count(f[d], x) <= CountIn(f, x)
  <1>1. /\ IsFiniteSet(Entries(f, x)) /\ CountIn(f, x) = Cardinality(Entries(f, x))
        /\ \A p : p \in Entries(f, x) <=>
             \E d \in D : \E i \in 1..Len(f[d]) : f[d][i] = x /\ p = <<d, i>>
    BY CountInFinite
  <1>2. CountIn(f, x) = 0 <=> Entries(f, x) = {}
    BY <1>1, FS_EmptySet
  <1>3. CountIn(f, x) # 0 <=> \E d \in D : \E i \in 1..Len(f[d]) : f[d][i] = x
    BY <1>1, <1>2
  <1>4. ASSUME NEW d \in D PROVE Count(f[d], x) \in Nat /\ Count(f[d], x) <= CountIn(f, x)
    <2> DEFINE F == {d} \X Places(f[d], x)
    <2>1. /\ IsFiniteSet({d}) /\ Cardinality({d}) = 1
          /\ IsFiniteSet(Places(f[d], x)) /\ Count(f[d], x) = Cardinality(Places(f[d], x))
          /\ Count(f[d], x) \in Nat
      BY FS_Singleton, PlacesFinite DEF SeqTable
    <2>2. Cardinality(F) = Cardinality({d}) * Cardinality(Places(f[d], x))
      BY <2>1, FS_Product, Zenon
    <2>3. F \in SUBSET Entries(f, x)
      BY <1>1 DEF Places
    <2> HIDE DEF F
    <2>4. Cardinality(F) <= Cardinality(Entries(f, x))
      BY <1>1, <2>3, FS_Subset
    <2> QED BY <1>1, <2>1, <2>2, <2>4
  <1> QED BY <1>3, <1>4

\* Two places of a value that occurs at most once in a table are the same.
LEMMA CountInUnique ==
    ASSUME NEW D, NEW S, NEW f, SeqTable(f, D, S), NEW x, CountIn(f, x) <= 1,
           NEW d \in D, NEW i \in 1..Len(f[d]), f[d][i] = x,
           NEW e \in D, NEW j \in 1..Len(f[e]), f[e][j] = x
    PROVE  d = e /\ i = j
  <1>1. /\ IsFiniteSet(Entries(f, x)) /\ CountIn(f, x) = Cardinality(Entries(f, x))
        /\ CountIn(f, x) \in Nat
        /\ \A p : p \in Entries(f, x) <=>
             \E c \in D : \E k \in 1..Len(f[c]) : f[c][k] = x /\ p = <<c, k>>
    BY CountInFinite
  <1>2. <<d, i>> \in Entries(f, x) /\ <<e, j>> \in Entries(f, x)
    BY <1>1
  <1>3. Cardinality(Entries(f, x)) # 0
    BY <1>1, <1>2, FS_EmptySet
  <1>4. Cardinality(Entries(f, x)) = 1
    BY <1>1, <1>3
  <1>5. PICK p : Entries(f, x) = {p}
    BY <1>1, <1>4, FS_Singleton
  <1> QED BY <1>2, <1>5

\* A sequence in which no value occurs twice has as many members as items.
LEMMA DistinctItems ==
    ASSUME NEW S, NEW s \in Seq(S), \A x \in S : Count(s, x) <= 1
    PROVE  /\ IsFiniteSet({s[i] : i \in DOMAIN s})
           /\ Cardinality({s[i] : i \in DOMAIN s}) = Len(s)
  <1> DEFINE R == {s[i] : i \in DOMAIN s}
  <1>1. PICK n \in Nat : n = Len(s) /\ DOMAIN s = 1..n
    BY LenProperties
  <1>2. ASSUME NEW i \in 1..n, NEW j \in 1..n, s[i] = s[j] PROVE i = j
    <2>1. s[i] \in S /\ Count(s, s[i]) <= 1
      BY <1>1, ElementOfSeq
    <2> QED BY <1>1, <1>2, <2>1, CountUnique
  <1>3. s \in Bijection(1..n, R)
    <2>1. s \in [1..n -> R]
      BY <1>1
    <2>2. \A r \in R : \E i \in 1..n : s[i] = r
      BY <1>1
    <2> HIDE DEF R
    <2> QED BY <1>2, <2>1, <2>2 DEF Bijection, Injection, Surjection, IsInjective
  <1>4. IsFiniteSet(1..n) /\ Cardinality(1..n) = n
    BY FS_Interval
  <1> HIDE DEF R
  <1>5. ExistsBijection(1..n, R)
    BY <1>3 DEF ExistsBijection
  <1>6. IsFiniteSet(R) /\ Cardinality(R) = n
    BY <1>4, <1>5, FS_Bijection
  <1> QED BY <1>1, <1>6 DEF R
-----------------------------------------------------------------------------
(* Induction: a set of numbers with 0 and every successor is all of them,  *)
(* since the least number outside would have a predecessor.                *)

Less == {p \in Nat \X Nat : p[1] < p[2]}

LEMMA LessWellFounded == IsWellFoundedOn(Less, Nat)
  <1>1. IsWellFoundedOn(OpToRel(<, Nat), Nat)
    BY NatLessThanWellFounded
  <1>2. OpToRel(<, Nat) = Less
    BY DEF OpToRel, Less
  <1> QED BY <1>1, <1>2

LEMMA Induction ==
    ASSUME NEW T \in SUBSET Nat, 0 \in T, \A n \in T : n + 1 \in T
    PROVE  T = Nat
  <1>1. SUFFICES ASSUME Nat \ T # {} PROVE FALSE
    OBVIOUS
  <1>2. PICK n \in Nat \ T : \A m \in Nat \ T : <<m, n>> \notin Less
    BY <1>1, LessWellFounded, WFMin
  <1>3. n # 0 /\ n - 1 \in Nat /\ <<n - 1, n>> \in Less
    BY <1>2 DEF Less
  <1>4. n - 1 \in T
    BY <1>2, <1>3
  <1> QED BY <1>2, <1>4

-----------------------------------------------------------------------------
(* Sums over a finite set, as MapThenSumSet computes them                  *)

Pick(s) == CHOOSE x \in s : TRUE

Sums(f, S) ==
    CHOOSE sum : sum = [s \in SUBSET S |-> IF s = {} THEN 0 ELSE f[Pick(s)] + sum[s \ {Pick(s)}]]

UpTo(S, n) == {s \in SUBSET S : Cardinality(s) <= n}

\* All but one.
LEMMA UpToLess ==
    ASSUME NEW S, IsFiniteSet(S), NEW n \in Nat, NEW s \in UpTo(S, n + 1), s # {}
    PROVE  Pick(s) \in s /\ Pick(s) \in S /\ s \ {Pick(s)} \in UpTo(S, n)
  <1>1. Pick(s) \in s /\ s \in SUBSET S /\ IsFiniteSet(s)
    BY FS_Subset DEF Pick, UpTo
  <1>2. Cardinality(s \ {Pick(s)}) = Cardinality(s) - 1 /\ Cardinality(s) \in Nat
    BY <1>1, FS_RemoveElement, FS_CardinalityType
  <1> QED BY <1>1, <1>2 DEF UpTo

LEMMA UpToFacts ==
    ASSUME NEW S, IsFiniteSet(S)
    PROVE  /\ UpTo(S, 0) = {{}}
           /\ UpTo(S, Cardinality(S)) = SUBSET S
           /\ \A n \in Nat : UpTo(S, n) \subseteq UpTo(S, n + 1)
  <1>1. ASSUME NEW s \in SUBSET S
        PROVE  /\ IsFiniteSet(s) /\ Cardinality(s) \in Nat /\ Cardinality(s) <= Cardinality(S)
               /\ Cardinality(s) = 0 <=> s = {}
    BY FS_Subset, FS_CardinalityType, FS_EmptySet
  <1>2. {} \in SUBSET S /\ Cardinality(S) \in Nat
    BY FS_CardinalityType
  <1>3. UpTo(S, 0) = {{}}
    BY <1>1, <1>2 DEF UpTo
  <1>4. UpTo(S, Cardinality(S)) = SUBSET S
    BY <1>1 DEF UpTo
  <1>5. ASSUME NEW n \in Nat PROVE UpTo(S, n) \subseteq UpTo(S, n + 1)
    BY <1>1 DEF UpTo
  <1> QED BY <1>3, <1>4, <1>5

LEMMA SumsExist ==
    ASSUME NEW S, IsFiniteSet(S), NEW f
    PROVE  \A s \in SUBSET S :
               Sums(f, S)[s] = IF s = {} THEN 0 ELSE f[Pick(s)] + Sums(f, S)[s \ {Pick(s)}]
  <1> DEFINE Step(g, s) == IF s = {} THEN 0 ELSE f[Pick(s)] + g[s \ {Pick(s)}]
             T == {n \in Nat : \E g : g = [s \in UpTo(S, n) |-> Step(g, s)]}
  <1>1. 0 \in T
    <2> DEFINE g == [s \in UpTo(S, 0) |-> 0]
    <2>1. \A s \in UpTo(S, 0) : s = {}
      BY UpToFacts
    <2>2. g = [s \in UpTo(S, 0) |-> Step(g, s)]
      BY <2>1
    <2> QED BY <2>2
  <1>2. ASSUME NEW n \in T PROVE n + 1 \in T
    <2>1. PICK g : g = [s \in UpTo(S, n) |-> Step(g, s)]
      OBVIOUS
    <2>a. PICK h : h = [s \in UpTo(S, n + 1) |-> Step(g, s)]
      OBVIOUS
    <2>2. \A s \in UpTo(S, n) : h[s] = g[s]
      <3>1. \A s \in UpTo(S, n) : g[s] = Step(g, s)
        BY <2>1
      <3> QED BY <3>1, <2>a, UpToFacts
    <2>3. ASSUME NEW s \in UpTo(S, n + 1) PROVE Step(g, s) = Step(h, s)
      <3>1. s # {} => s \ {Pick(s)} \in UpTo(S, n)
        BY UpToLess
      <3> QED BY <3>1, <2>2
    <2>4. h = [s \in UpTo(S, n + 1) |-> Step(h, s)]
      BY <2>a, <2>3
    <2>5. \E k : k = [s \in UpTo(S, n + 1) |-> Step(k, s)]
      BY <2>4, Zenon
    <2>6. n + 1 \in Nat
      OBVIOUS
    <2> QED BY <2>5, <2>6, Zenon
  <1>3. T = Nat
    <2> HIDE DEF T
    <2>1. T \in SUBSET Nat
      BY DEF T
    <2> QED BY <2>1, <1>1, <1>2, Induction
  <1>4. Cardinality(S) \in T /\ UpTo(S, Cardinality(S)) = SUBSET S
    BY <1>3, FS_CardinalityType, UpToFacts
  <1>5. \E g : g = [s \in SUBSET S |-> Step(g, s)]
    BY <1>4
  <1>6. Sums(f, S) = [s \in SUBSET S |-> Step(Sums(f, S), s)]
    BY <1>5 DEF Sums
  <1> QED BY <1>6

LEMMA SumsType ==
    ASSUME NEW S, IsFiniteSet(S), NEW f \in [S -> Int]
    PROVE  Sums(f, S)[S] \in Int
  <1> DEFINE T == {n \in Nat : \A s \in UpTo(S, n) : Sums(f, S)[s] \in Int}
  <1>1. 0 \in T
    <2>1. Sums(f, S)[{}] = 0
      BY SumsExist
    <2> QED BY <2>1, UpToFacts
  <1>2. ASSUME NEW n \in T PROVE n + 1 \in T
    <2>1. ASSUME NEW s \in UpTo(S, n + 1) PROVE Sums(f, S)[s] \in Int
      <3>1. Sums(f, S)[s] = IF s = {} THEN 0 ELSE f[Pick(s)] + Sums(f, S)[s \ {Pick(s)}]
        BY SumsExist DEF UpTo
      <3>2. s # {} => Pick(s) \in S /\ s \ {Pick(s)} \in UpTo(S, n)
        BY UpToLess
      <3> QED BY <3>1, <3>2
    <2> QED BY <2>1
  <1>3. T = Nat
    <2>1. T \in SUBSET Nat
      OBVIOUS
    <2> HIDE DEF T
    <2> QED BY <2>1, <1>1, <1>2, Induction
  <1>4. S \in UpTo(S, Cardinality(S)) /\ Cardinality(S) \in Nat
    BY UpToFacts, FS_CardinalityType
  <1> QED BY <1>3, <1>4

\* A sum changes as one of its terms does.
LEMMA SumChanged ==
    ASSUME NEW S, IsFiniteSet(S), NEW f \in [S -> Int], NEW g \in [S -> Int], NEW t \in S,
           \A x \in S : x # t => g[x] = f[x]
    PROVE  Sums(g, S)[S] = Sums(f, S)[S] + (g[t] - f[t])
  <1>a. \A s \in SUBSET S :
            Sums(f, S)[s] = IF s = {} THEN 0 ELSE f[Pick(s)] + Sums(f, S)[s \ {Pick(s)}]
    BY SumsExist
  <1>b. \A s \in SUBSET S :
            Sums(g, S)[s] = IF s = {} THEN 0 ELSE g[Pick(s)] + Sums(g, S)[s \ {Pick(s)}]
    BY SumsExist
  <1> DEFINE Delta(s) == IF t \in s THEN g[t] - f[t] ELSE 0
             T == {n \in Nat : \A s \in UpTo(S, n) : /\ Sums(f, S)[s] \in Int
                                                     /\ Sums(g, S)[s] = Sums(f, S)[s] + Delta(s)}
  <1>1. 0 \in T
    <2>1. Sums(f, S)[{}] = 0 /\ Sums(g, S)[{}] = 0
      BY <1>a, <1>b
    <2>3. \A s \in UpTo(S, 0) : s = {} /\ Delta(s) = 0
      BY UpToFacts
    <2> HIDE DEF Delta
    <2>4. \A s \in UpTo(S, 0) : Sums(f, S)[s] \in Int /\ Sums(g, S)[s] = Sums(f, S)[s] + Delta(s)
      <3> TAKE s \in UpTo(S, 0)
      <3>1. s = {} /\ Delta(s) = 0
        BY <2>3
      <3>2. Sums(f, S)[s] = 0 /\ Sums(g, S)[s] = 0
        BY <2>1, <3>1, Zenon
      <3> QED BY <3>1, <3>2
    <2> QED BY <2>4
  <1>2. ASSUME NEW n \in T PROVE n + 1 \in T
    <2>1. ASSUME NEW s \in UpTo(S, n + 1)
          PROVE  Sums(f, S)[s] \in Int /\ Sums(g, S)[s] = Sums(f, S)[s] + Delta(s)
      <3>0. s \in SUBSET S
        BY DEF UpTo
      <3>1. Sums(f, S)[s] = IF s = {} THEN 0 ELSE f[Pick(s)] + Sums(f, S)[s \ {Pick(s)}]
        BY <3>0, <1>a
      <3>2. Sums(g, S)[s] = IF s = {} THEN 0 ELSE g[Pick(s)] + Sums(g, S)[s \ {Pick(s)}]
        BY <3>0, <1>b
      <3>3. CASE s = {}
        BY <3>1, <3>2, <3>3
      <3>4. CASE s # {}
        <4>1. Pick(s) \in s /\ Pick(s) \in S /\ s \ {Pick(s)} \in UpTo(S, n)
          BY <3>4, UpToLess
        <4>2. PICK p : p = Pick(s)
          OBVIOUS
        <4>3. PICK r : r = s \ {p}
          OBVIOUS
        <4>4. Sums(f, S)[r] \in Int /\ Sums(g, S)[r] = Sums(f, S)[r] + Delta(r)
          BY <4>1, <4>2, <4>3
        <4>5. Sums(f, S)[s] = f[p] + Sums(f, S)[r] /\ Sums(g, S)[s] = g[p] + Sums(g, S)[r]
          BY <3>1, <3>2, <3>4, <4>2, <4>3
        <4>6. f[p] \in Int /\ g[p] \in Int /\ f[t] \in Int /\ g[t] \in Int
          BY <4>1, <4>2
        <4>7. CASE p = t
          <5>1. Delta(r) = 0 /\ Delta(s) = g[t] - f[t]
            BY <4>1, <4>2, <4>3, <4>7
          <5> QED BY <4>4, <4>5, <4>6, <4>7, <5>1
        <4>8. CASE p # t
          <5>1. Delta(r) = Delta(s) /\ g[p] = f[p] /\ Delta(s) \in Int
            BY <4>1, <4>2, <4>3, <4>6, <4>8
          <5> QED BY <4>4, <4>5, <4>6, <5>1
        <4> QED BY <4>7, <4>8
      <3> QED BY <3>3, <3>4
    <2> QED BY <2>1
  <1>3. T = Nat
    <2>1. T \in SUBSET Nat
      OBVIOUS
    <2> HIDE DEF T
    <2> QED BY <2>1, <1>1, <1>2, Induction
  <1>4. S \in UpTo(S, Cardinality(S)) /\ Cardinality(S) \in Nat
    BY UpToFacts, FS_CardinalityType
  <1> QED BY <1>3, <1>4
LEMMA SumOfZeros ==
    ASSUME NEW S, IsFiniteSet(S), NEW f, \A x \in S : f[x] = 0
    PROVE  Sums(f, S)[S] = 0
  <1> DEFINE T == {n \in Nat : \A s \in UpTo(S, n) : Sums(f, S)[s] = 0}
  <1>1. 0 \in T
    <2>1. Sums(f, S)[{}] = 0
      BY SumsExist
    <2> QED BY <2>1, UpToFacts
  <1>2. ASSUME NEW n \in T PROVE n + 1 \in T
    <2>1. ASSUME NEW s \in UpTo(S, n + 1) PROVE Sums(f, S)[s] = 0
      <3>1. Sums(f, S)[s] = IF s = {} THEN 0 ELSE f[Pick(s)] + Sums(f, S)[s \ {Pick(s)}]
        BY SumsExist DEF UpTo
      <3>2. s # {} => Pick(s) \in S /\ s \ {Pick(s)} \in UpTo(S, n)
        BY UpToLess
      <3> QED BY <3>1, <3>2
    <2> QED BY <2>1
  <1>3. T = Nat
    <2>1. T \in SUBSET Nat
      OBVIOUS
    <2> HIDE DEF T
    <2> QED BY <2>1, <1>1, <1>2, Induction
  <1>4. S \in UpTo(S, Cardinality(S)) /\ Cardinality(S) \in Nat
    BY UpToFacts, FS_CardinalityType
  <1> QED BY <1>3, <1>4
-----------------------------------------------------------------------------
(* The items at some places of a sequence, in their order                  *)

\* ItemsAt of each prefix.
ItemsUpTo(s, places) ==
    CHOOSE upTo : upTo = [n \in 0..Len(s) |->
        IF n = 0 THEN <<>>
        ELSE IF n \in places THEN Append(upTo[n - 1], s[n]) ELSE upTo[n - 1]]

LEMMA ItemsUpToExist ==
    ASSUME NEW S, NEW s \in Seq(S), NEW places
    PROVE  /\ ItemsAt(s, places) = ItemsUpTo(s, places)[Len(s)]
           /\ \A n \in 0..Len(s) :
                ItemsUpTo(s, places)[n] =
                   IF n = 0 THEN <<>>
                   ELSE IF n \in places THEN Append(ItemsUpTo(s, places)[n - 1], s[n])
                                        ELSE ItemsUpTo(s, places)[n - 1]
  <1> DEFINE Step(g, n) == IF n = 0 THEN <<>>
                           ELSE IF n \in places THEN Append(g[n - 1], s[n]) ELSE g[n - 1]
             T == {m \in Nat : \E g : g = [n \in 0..m |-> Step(g, n)]}
  <1>1. 0 \in T
    <2> DEFINE g == [n \in 0..0 |-> <<>>]
    <2>1. \A n \in 0..0 : n = 0
      OBVIOUS
    <2>2. g = [n \in 0..0 |-> Step(g, n)]
      BY <2>1
    <2> QED BY <2>2
  <1>2. ASSUME NEW m \in T PROVE m + 1 \in T
    <2>1. PICK g : g = [n \in 0..m |-> Step(g, n)]
      OBVIOUS
    <2>2. PICK h : h = [n \in 0..m + 1 |-> Step(g, n)]
      OBVIOUS
    <2>3. m \in Nat
      OBVIOUS
    <2>4. \A n \in 0..m : h[n] = g[n]
      <3>1. \A n \in 0..m : g[n] = Step(g, n)
        BY <2>1
      <3>2. \A n \in 0..m : n \in 0..m + 1
        BY <2>3
      <3> QED BY <3>1, <3>2, <2>2
    <2>5. ASSUME NEW n \in 0..m + 1 PROVE Step(g, n) = Step(h, n)
      <3>1. n # 0 => n - 1 \in 0..m
        BY <2>3
      <3> QED BY <3>1, <2>4
    <2>6. h = [n \in 0..m + 1 |-> Step(h, n)]
      BY <2>2, <2>5
    <2>7. \E k : k = [n \in 0..m + 1 |-> Step(k, n)]
      BY <2>6, Zenon
    <2>8. m + 1 \in Nat
      BY <2>3
    <2> QED BY <2>7, <2>8, Zenon
  <1>3. T = Nat
    <2> HIDE DEF T
    <2>1. T \in SUBSET Nat
      BY DEF T
    <2> QED BY <2>1, <1>1, <1>2, Induction
  <1>4. Len(s) \in T
    BY <1>3, LenProperties
  <1>5. \E g : g = [n \in 0..Len(s) |-> Step(g, n)]
    BY <1>4
  <1>6. ItemsUpTo(s, places) = [n \in 0..Len(s) |-> Step(ItemsUpTo(s, places), n)]
    BY <1>5 DEF ItemsUpTo
  <1>7. ItemsAt(s, places) = ItemsUpTo(s, places)[Len(s)]
    BY DEF ItemsAt, ItemsUpTo
  <1> QED BY <1>6, <1>7

\* at[k] is the place the item k of r has in the first n items of s.
PlacesKept(r, at, s, n, places) ==
    /\ at \in [1..Len(r) -> 1..n]
    /\ \A k \in 1..Len(r) : at[k] \in places /\ r[k] = s[at[k]]
    /\ \A k, l \in 1..Len(r) : k < l => at[k] < at[l]
    /\ \A i \in 1..n : i \in places => \E k \in 1..Len(r) : at[k] = i

LEMMA ItemsAtFacts ==
    ASSUME NEW S, NEW s \in Seq(S), NEW places
    PROVE  /\ ItemsAt(s, places) \in Seq(S)
           /\ \E at : PlacesKept(ItemsAt(s, places), at, s, Len(s), places)
  <1> DEFINE u == ItemsUpTo(s, places)
             Good(n) == u[n] \in Seq(S) /\ \E at : PlacesKept(u[n], at, s, n, places)
             T == {n \in Nat : n <= Len(s) => Good(n)}
  <1>0. Len(s) \in Nat
    BY LenProperties
  <1>1. 0 \in T
    <2>1. u[0] = <<>>
      BY <1>0, ItemsUpToExist
    <2>2. Len(<<>>) = 0 /\ <<>> \in Seq(S)
      OBVIOUS
    <2>3. PlacesKept(<<>>, <<>>, s, 0, places)
      BY DEF PlacesKept
    <2> QED BY <2>1, <2>2, <2>3
  <1>2. ASSUME NEW m \in T PROVE m + 1 \in T
    <2> SUFFICES ASSUME m + 1 <= Len(s) PROVE Good(m + 1)
      OBVIOUS
    <2>1. m \in Nat /\ m + 1 \in 0..Len(s) /\ m + 1 # 0 /\ (m + 1) - 1 = m /\ m <= Len(s)
      BY <1>0
    <2>2. u[m + 1] = IF m + 1 \in places THEN Append(u[m], s[m + 1]) ELSE u[m]
      <3>1. u[m + 1] = IF m + 1 = 0 THEN <<>>
                       ELSE IF m + 1 \in places THEN Append(u[(m + 1) - 1], s[m + 1])
                                                ELSE u[(m + 1) - 1]
        BY <2>1, ItemsUpToExist
      <3> QED BY <3>1, <2>1
    <2>3. u[m] \in Seq(S) /\ \E at : PlacesKept(u[m], at, s, m, places)
      BY <2>1
    <2>4. PICK at : PlacesKept(u[m], at, s, m, places)
      BY <2>3
    <2>5. PICK r : r = u[m]
      OBVIOUS
    <2>6. r \in Seq(S) /\ PlacesKept(r, at, s, m, places) /\ Len(r) \in Nat
      BY <2>3, <2>4, <2>5, LenProperties
    <2>7. CASE m + 1 \notin places
      <3>1. PlacesKept(r, at, s, m + 1, places)
        <4>1. \A i \in 1..m + 1 : i \in places => i \in 1..m
          BY <2>1, <2>7
        <4>2. 1..m \subseteq 1..m + 1
          BY <2>1
        <4> QED BY <2>1, <2>6, <4>1, <4>2 DEF PlacesKept
      <3>2. u[m + 1] = r
        BY <2>2, <2>5, <2>7
      <3> HIDE DEF u
      <3> QED BY <2>6, <3>1, <3>2
    <2>8. CASE m + 1 \in places
      <3> DEFINE q == Append(r, s[m + 1])
                 to == [k \in 1..Len(r) + 1 |-> IF k = Len(r) + 1 THEN m + 1 ELSE at[k]]
      <3>1. s[m + 1] \in S
        BY <2>1, <1>0, ElementOfSeq
      <3>2. /\ q \in Seq(S) /\ Len(q) = Len(r) + 1
            /\ \A k \in 1..Len(r) : q[k] = r[k]
            /\ q[Len(r) + 1] = s[m + 1]
        BY <2>6, <3>1, AppendProperties
      <3>3. /\ \A k \in 1..Len(r) : /\ at[k] \in 1..m /\ at[k] \in places /\ r[k] = s[at[k]]
                                    /\ k \in 1..Len(r) + 1 /\ k # Len(r) + 1
            /\ \A k \in 1..Len(r) + 1 : k # Len(r) + 1 => k \in 1..Len(r)
            /\ Len(r) + 1 \in 1..Len(r) + 1
        <4> HIDE DEF q, to
        <4>1. PICK n \in Nat : n = Len(r)
          BY <2>6
        <4>2. /\ \A k \in 1..n : k \in 1..n + 1 /\ k # n + 1
              /\ \A k \in 1..n + 1 : k # n + 1 => k \in 1..n
              /\ n + 1 \in 1..n + 1
          OBVIOUS
        <4>3. \A k \in 1..Len(r) : at[k] \in 1..m /\ at[k] \in places /\ r[k] = s[at[k]]
          BY <2>6 DEF PlacesKept
        <4> QED BY <4>1, <4>2, <4>3
      <3>4. to \in [1..Len(r) + 1 -> 1..m + 1]
        <4>1. \A k \in 1..Len(r) : at[k] \in 1..m + 1
          BY <2>1, <3>3
        <4>2. m + 1 \in 1..m + 1
          BY <2>1
        <4> QED BY <3>3, <4>1, <4>2
      <3>5. ASSUME NEW k \in 1..Len(r) + 1 PROVE to[k] \in places /\ q[k] = s[to[k]]
        BY <2>8, <3>2, <3>3
      <3>6. ASSUME NEW k \in 1..Len(r) + 1, NEW l \in 1..Len(r) + 1, k < l PROVE to[k] < to[l]
        <4>1. k \in 1..Len(r) /\ k # Len(r) + 1
          BY <2>6, <3>6
        <4>2. to[k] = at[k] /\ at[k] \in 1..m
          BY <3>3, <4>1
        <4>3. CASE l = Len(r) + 1
          <5>1. to[l] = m + 1
            BY <4>3
          <5> QED BY <2>1, <4>2, <5>1
        <4>4. CASE l # Len(r) + 1
          <5>1. l \in 1..Len(r) /\ to[l] = at[l]
            BY <3>3, <4>4
          <5>2. at[k] < at[l]
            BY <2>6, <3>6, <4>1, <5>1 DEF PlacesKept
          <5> QED BY <4>2, <5>1, <5>2
        <4> QED BY <4>3, <4>4
      <3>7. ASSUME NEW i \in 1..m + 1, i \in places PROVE \E k \in 1..Len(r) + 1 : to[k] = i
        <4>1. CASE i = m + 1
          BY <3>3, <4>1
        <4>2. CASE i # m + 1
          <5>1. i \in 1..m
            BY <2>1, <4>2
          <5>2. PICK k \in 1..Len(r) : at[k] = i
            BY <2>6, <3>7, <5>1 DEF PlacesKept
          <5> QED BY <3>3, <5>2
        <4> QED BY <4>1, <4>2
      <3>8. u[m + 1] = q
        BY <2>2, <2>5, <2>8
      <3> HIDE DEF u, q, to
      <3>9. PlacesKept(q, to, s, m + 1, places)
        BY <3>2, <3>4, <3>5, <3>6, <3>7 DEF PlacesKept
      <3> QED BY <3>2, <3>8, <3>9
    <2> QED BY <2>7, <2>8
  <1>3. T = Nat
    <2> HIDE DEF T
    <2>1. T \in SUBSET Nat
      BY DEF T
    <2> QED BY <2>1, <1>1, <1>2, Induction
  <1>4. Len(s) \in T
    BY <1>0, <1>3
  <1>5. Good(Len(s)) /\ ItemsAt(s, places) = u[Len(s)]
    BY <1>0, <1>4, ItemsUpToExist
  <1> QED BY <1>5

\* The items behind the first n.
LEMMA ItemsBehind ==
    ASSUME NEW S, NEW s \in Seq(S), NEW n \in Nat, n <= Len(s), NEW places,
           \A i \in 1..Len(s) : i \in places <=> i > n
    PROVE  /\ ItemsAt(s, places) \in Seq(S) /\ Len(ItemsAt(s, places)) = Len(s) - n
           /\ \A i \in 1..(Len(s) - n) : ItemsAt(s, places)[i] = s[n + i]
  <1> DEFINE u == ItemsUpTo(s, places)
             Good(m) == /\ u[m] \in Seq(S) /\ Len(u[m]) = IF m <= n THEN 0 ELSE m - n
                        /\ \A i \in 1..Len(u[m]) : u[m][i] = s[n + i]
             T == {m \in Nat : m <= Len(s) => Good(m)}
  <1>0. Len(s) \in Nat
    BY LenProperties
  <1>1. 0 \in T
    <2>1. u[0] = <<>>
      BY <1>0, ItemsUpToExist
    <2>2. Len(<<>>) = 0 /\ <<>> \in Seq(S) /\ \A i \in 1..0 : FALSE
      OBVIOUS
    <2>3. u[0] \in Seq(S) /\ Len(u[0]) = 0 /\ \A i \in 1..Len(u[0]) : FALSE
      BY <2>1, <2>2
    <2> HIDE DEF u
    <2> QED BY <2>3
  <1>2. ASSUME NEW m \in T PROVE m + 1 \in T
    <2> SUFFICES ASSUME m + 1 <= Len(s) PROVE Good(m + 1)
      OBVIOUS
    <2>1. m \in Nat /\ m + 1 \in 0..Len(s) /\ m + 1 # 0 /\ (m + 1) - 1 = m /\ m <= Len(s)
          /\ m + 1 \in 1..Len(s)
      BY <1>0
    <2>2. u[m + 1] = IF m + 1 \in places THEN Append(u[m], s[m + 1]) ELSE u[m]
      <3>1. u[m + 1] = IF m + 1 = 0 THEN <<>>
                       ELSE IF m + 1 \in places THEN Append(u[(m + 1) - 1], s[m + 1])
                                                ELSE u[(m + 1) - 1]
        BY <2>1, ItemsUpToExist
      <3> QED BY <3>1, <2>1
    <2>3. Good(m) /\ s[m + 1] \in S
      BY <2>1, <1>0, ElementOfSeq
    <2>4. PICK r : r = u[m]
      OBVIOUS
    <2>5. PICK q : q = u[m + 1]
      OBVIOUS
    <2> HIDE DEF u
    <2>6. /\ r \in Seq(S) /\ Len(r) = IF m <= n THEN 0 ELSE m - n
          /\ \A i \in 1..Len(r) : r[i] = s[n + i]
      BY <2>3, <2>4
    <2>7. q = IF m + 1 > n THEN Append(r, s[m + 1]) ELSE r
      BY <2>1, <2>2, <2>4, <2>5
    <2>8. /\ q \in Seq(S) /\ Len(q) = IF m + 1 <= n THEN 0 ELSE (m + 1) - n
          /\ \A i \in 1..Len(q) : q[i] = s[n + i]
      <3>1. CASE m + 1 > n
        <4>1. /\ Append(r, s[m + 1]) \in Seq(S) /\ Len(Append(r, s[m + 1])) = Len(r) + 1
              /\ \A i \in 1..Len(r) : Append(r, s[m + 1])[i] = r[i]
              /\ Append(r, s[m + 1])[Len(r) + 1] = s[m + 1]
          BY <2>3, <2>6, AppendProperties
        <4>2. Len(r) = m - n /\ n + (Len(r) + 1) = m + 1
          BY <2>1, <2>6, <3>1
        <4>3. \A i \in 1..(Len(r) + 1) : i \in 1..Len(r) \/ i = Len(r) + 1
          BY <2>1, <4>2
        <4> QED BY <2>1, <2>6, <2>7, <3>1, <4>1, <4>2, <4>3
      <3>2. CASE ~(m + 1 > n)
        BY <2>1, <2>6, <2>7, <3>2
      <3> QED BY <3>1, <3>2
    <2> QED BY <2>5, <2>8
  <1>3. T = Nat
    <2> HIDE DEF T
    <2>1. T \in SUBSET Nat
      BY DEF T
    <2> QED BY <2>1, <1>1, <1>2, Induction
  <1>4. Len(s) \in T
    BY <1>0, <1>3
  <1>5. Good(Len(s)) /\ ItemsAt(s, places) = u[Len(s)]
    BY <1>0, <1>4, ItemsUpToExist
  <1> HIDE DEF u
  <1>6. Len(u[Len(s)]) = Len(s) - n
    BY <1>0, <1>5
  <1> QED BY <1>5, <1>6

=============================================================================
