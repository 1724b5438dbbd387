-------------------------- MODULE PacketSplit_proofs --------------------------
(***************************************************************************)
(* The properties of PacketSplit for any graph, any number of packets and  *)
(* of batches.                                                             *)
(***************************************************************************)
EXTENDS PacketSplit, Counting_proofs

Slot      == [pkt : Packets, ok : BOOLEAN, to : Nat \cup {Drop}]
BatchType == [slots : Seq(Slot), elem : Elems, has : BOOLEAN]
FrameType == [batch : Batches \cup {NoBatch}, need : Nat]

ThreadTypes ==
    /\ pc \in {"recv", "feed", "round", "flush", "roundEnd", "resume", "stopped", "undefined"}
    /\ frames \in Seq(FrameType)
    /\ brk \in BOOLEAN /\ broken \in BOOLEAN

BatchTypes ==
    /\ pool \in SUBSET Batches /\ kept \in SUBSET Batches
    /\ batch \in [Batches -> BatchType]
    /\ queue \in Seq(Batches) /\ done \in Seq(Batches)

PacketTypes ==
    /\ rx \in Seq(Packets) /\ pkts \in Seq(Packets)
    /\ dropQ \in SUBSET Packets /\ freed \in SUBSET Packets /\ sent \in SUBSET Packets
    /\ route \in [Packets -> Elems \cup {Out, Drop}]

TypeInv == ThreadTypes /\ BatchTypes /\ PacketTypes

-----------------------------------------------------------------------------
(* The graph and what elements decide                                       *)

LEMMA OutputFacts ==
    ASSUME NEW e \in Elems
    PROVE  /\ Next_elems[e] \in Seq(Elems \cup {Out}) /\ Len(Next_elems[e]) \in Nat
           /\ Outputs(e) = 1..Len(Next_elems[e]) /\ Outputs(e) \subseteq Nat
           /\ \A o \in Outputs(e) : Next_elems[e][o] \in Elems \cup {Out}
  <1>1. Next_elems[e] \in Seq(Elems \cup {Out})
    BY GraphAssumption
  <1>2. Len(Next_elems[e]) \in Nat
    BY <1>1, LenProperties
  <1>3. \A o \in 1..Len(Next_elems[e]) : Next_elems[e][o] \in Elems \cup {Out}
    BY <1>1, ElementOfSeq
  <1> QED BY <1>1, <1>2, <1>3 DEF Outputs

LEMMA FreshType == FreshBatch \in BatchType /\ Len(FreshBatch.slots) = 0
  BY GraphAssumption DEF FreshBatch, BatchType

LEMMA BatchFacts ==
    ASSUME TypeInv, NEW b \in Batches
    PROVE  /\ batch[b] \in BatchType /\ batch[b].elem \in Elems /\ batch[b].has \in BOOLEAN
           /\ batch[b].slots \in Seq(Slot) /\ Len(batch[b].slots) \in Nat
           /\ DOMAIN batch[b].slots = 1..Len(batch[b].slots)
           /\ \A i \in 1..Len(batch[b].slots) : batch[b].slots[i] \in Slot
  <1>1. /\ batch[b] \in BatchType /\ batch[b].elem \in Elems /\ batch[b].has \in BOOLEAN
        /\ batch[b].slots \in Seq(Slot)
    BY DEF TypeInv, BatchTypes, BatchType
  <1>2. Len(batch[b].slots) \in Nat /\ DOMAIN batch[b].slots = 1..Len(batch[b].slots)
    BY <1>1, LenProperties
  <1>3. \A i \in 1..Len(batch[b].slots) : batch[b].slots[i] \in Slot
    BY <1>1, ElementOfSeq
  <1> QED BY <1>1, <1>2, <1>3

\* A decision is about the packets that are not excluded, or there is none.
LEMMA DecisionFacts ==
    ASSUME TypeInv, NEW b \in Batches, NEW d \in Decisions(b)
    PROVE  /\ DOMAIN d \subseteq 1..Len(batch[b].slots)
           /\ \A i \in DOMAIN d : batch[b].slots[i].ok /\ d[i] \in Outputs(batch[b].elem) \cup {Drop}
           /\ ~batch[b].has => \A i \in 1..Len(batch[b].slots) : batch[b].slots[i].ok => i \in DOMAIN d
           /\ batch[b].has => DOMAIN d = {}
  <1>1. CASE batch[b].has
    <2>1. d = <<>>
      BY <1>1 DEF Decisions
    <2>2. DOMAIN d = {}
      BY <2>1
    <2> QED BY <1>1, <2>2
  <1>2. CASE ~batch[b].has
    <2>1. d \in [{i \in DOMAIN batch[b].slots : batch[b].slots[i].ok}
                    -> Outputs(batch[b].elem) \cup {Drop}]
      BY <1>2 DEF Decisions
    <2> QED BY <1>2, <2>1, BatchFacts
  <1> QED BY <1>1, <1>2

LEMMA DecidedFacts ==
    ASSUME TypeInv, NEW b \in Batches, NEW d \in Decisions(b)
    PROVE  /\ Decided(b, d) \in Seq(Slot) /\ Len(Decided(b, d)) = Len(batch[b].slots)
           /\ \A i \in 1..Len(batch[b].slots) :
                /\ Decided(b, d)[i].pkt = batch[b].slots[i].pkt
                /\ Decided(b, d)[i].ok => batch[b].slots[i].ok
                /\ i \in DOMAIN d => /\ Decided(b, d)[i].to = d[i]
                                     /\ Decided(b, d)[i].ok <=> d[i] # Drop
                /\ i \notin DOMAIN d => Decided(b, d)[i] = batch[b].slots[i]
  <1> DEFINE s == batch[b].slots
             r == Decided(b, d)
  <1>1. /\ s \in Seq(Slot) /\ Len(s) \in Nat /\ DOMAIN s = 1..Len(s)
        /\ \A i \in 1..Len(s) : s[i] \in Slot
    BY BatchFacts
  <1>2. r = [i \in 1..Len(s) |->
               IF i \in DOMAIN d THEN [s[i] EXCEPT !.to = d[i], !.ok = (d[i] # Drop)] ELSE s[i]]
    BY <1>1 DEF Decided
  <1>3. ASSUME NEW i \in 1..Len(s)
        PROVE  /\ r[i] \in Slot /\ r[i].pkt = s[i].pkt
               /\ r[i].ok => s[i].ok
               /\ i \in DOMAIN d => r[i].to = d[i] /\ (r[i].ok <=> d[i] # Drop)
               /\ i \notin DOMAIN d => r[i] = s[i]
    <2>1. s[i] \in Slot
      BY <1>1
    <2>2. CASE i \in DOMAIN d
      <3>1. s[i].ok /\ d[i] \in Nat \cup {Drop}
        BY <2>2, DecisionFacts, BatchFacts, OutputFacts
      <3>2. r[i] = [s[i] EXCEPT !.to = d[i], !.ok = (d[i] # Drop)]
        BY <1>2, <2>2
      <3> HIDE DEF r, s
      <3> QED BY <2>1, <2>2, <3>1, <3>2 DEF Slot
    <2>3. CASE i \notin DOMAIN d
      BY <1>2, <2>1, <2>3
    <2> QED BY <2>2, <2>3
  <1>4. r \in Seq(Slot) /\ Len(r) = Len(s)
    <2>1. r \in [1..Len(s) -> Slot]
      BY <1>2, <1>3
    <2> HIDE DEF r, s
    <2> QED BY <1>1, <2>1, SeqDef
  <1> QED BY <1>3, <1>4

LEMMA RouteType ==
    ASSUME TypeInv, NEW b \in Batches, NEW d \in Decisions(b)
    PROVE  RouteAfter(b, d) \in [Packets -> Elems \cup {Out, Drop}]
  <1> DEFINE s == batch[b].slots
             at(p) == CHOOSE i \in DOMAIN d : s[i].pkt = p
             to(p) == IF d[at(p)] = Drop THEN Drop ELSE Next_elems[batch[b].elem][d[at(p)]]
  <1>1. ASSUME NEW p \in Packets, \E i \in DOMAIN d : s[i].pkt = p
        PROVE  to(p) \in Elems \cup {Out, Drop}
    <2>1. at(p) \in DOMAIN d
      BY <1>1
    <2>2. d[at(p)] \in Outputs(batch[b].elem) \cup {Drop}
      BY <2>1, DecisionFacts
    <2>3. d[at(p)] # Drop => Next_elems[batch[b].elem][d[at(p)]] \in Elems \cup {Out}
      BY <2>2, BatchFacts, OutputFacts
    <2> QED BY <2>3
  <1>2. RouteAfter(b, d) =
          [p \in Packets |-> IF \E i \in DOMAIN d : s[i].pkt = p THEN to(p) ELSE route[p]]
    BY DEF RouteAfter
  <1>3. \A p \in Packets : route[p] \in Elems \cup {Out, Drop}
    BY DEF TypeInv, PacketTypes
  <1> HIDE DEF to, s
  <1> QED BY <1>1, <1>2, <1>3

-----------------------------------------------------------------------------
(* What a split does                                                        *)

LEMMA SetToSeqFacts ==
    ASSUME NEW S, IsFiniteSet(S)
    PROVE  /\ SetToSeq(S) \in [1..Cardinality(S) -> S]
           /\ \A i, j \in 1..Cardinality(S) : SetToSeq(S)[i] = SetToSeq(S)[j] => i = j
           /\ SetToSeq(S) \in Seq(S) /\ Len(SetToSeq(S)) = Cardinality(S)
           /\ Cardinality(S) \in Nat
  <1>1. Cardinality(S) \in Nat /\ ExistsBijection(1..Cardinality(S), S)
    BY FS_CardinalityType
  <1>2. \E f \in [1..Cardinality(S) -> S] : IsInjective(f)
    BY <1>1 DEF ExistsBijection, Bijection, Injection, IsInjective
  <1>3. SetToSeq(S) \in [1..Cardinality(S) -> S] /\ IsInjective(SetToSeq(S))
    BY <1>2 DEF SetToSeq
  <1>4. \A i, j \in 1..Cardinality(S) : SetToSeq(S)[i] = SetToSeq(S)[j] => i = j
    BY <1>3 DEF IsInjective
  <1> QED BY <1>1, <1>3, <1>4, SeqDef

\* The packets of Taking and Valid.
LEMMA TakingFacts ==
    ASSUME NEW slots \in Seq(Slot), NEW o
    PROVE  /\ Taking(slots, o) \in Seq(Slot)
           /\ \E at \in [1..Len(Taking(slots, o)) -> 1..Len(slots)] :
                /\ \A k \in 1..Len(Taking(slots, o)) :
                      /\ slots[at[k]].ok /\ slots[at[k]].to = o
                      /\ Taking(slots, o)[k] = slots[at[k]]
                /\ \A k, l \in 1..Len(Taking(slots, o)) : at[k] = at[l] => k = l
  <1> DEFINE K == {i \in DOMAIN slots : slots[i].ok /\ slots[i].to = o}
  <1>1. PICK r : r = Taking(slots, o)
    OBVIOUS
  <1>2. r = ItemsAt(slots, K)
    BY <1>1 DEF Taking
  <1> HIDE DEF K
  <1>3. r \in Seq(Slot) /\ \E at : PlacesKept(r, at, slots, Len(slots), K)
    BY <1>2, ItemsAtFacts
  <1>4. PICK at : PlacesKept(r, at, slots, Len(slots), K)
    BY <1>3
  <1>5. PICK n \in Nat : n = Len(slots)
    BY LenProperties
  <1>6. PICK m \in Nat : m = Len(r)
    BY <1>3, LenProperties
  <1>7. /\ at \in [1..m -> 1..n]
        /\ \A k \in 1..m : at[k] \in K /\ r[k] = slots[at[k]]
        /\ \A k, l \in 1..m : k < l => at[k] < at[l]
    BY <1>4, <1>5, <1>6 DEF PlacesKept
  <1>8. ASSUME NEW k \in 1..m, NEW l \in 1..m, at[k] = at[l] PROVE k = l
    <2>1. at[k] \in 1..n /\ at[l] \in 1..n /\ ~(at[k] < at[l]) /\ ~(at[l] < at[k])
      BY <1>7, <1>8
    <2> QED BY <1>7, <2>1
  <1>9. \A k \in 1..m : slots[at[k]].ok /\ slots[at[k]].to = o
    BY <1>7 DEF K
  <1> QED BY <1>1, <1>3, <1>5, <1>6, <1>7, <1>8, <1>9

\* The items of t are those of slots that go to output o, each from a place of its own.
TakenFrom(t, slots, o) ==
    \E at \in [1..Len(t) -> 1..Len(slots)] :
       /\ \A k \in 1..Len(t) :
             slots[at[k]].ok /\ slots[at[k]].to = o /\ t[k] = slots[at[k]]
       /\ \A k, l \in 1..Len(t) : at[k] = at[l] => k = l

LEMMA TakingFrom ==
    ASSUME NEW slots \in Seq(Slot), NEW o, NEW t, t = Taking(slots, o)
    PROVE  TakenFrom(t, slots, o)
  BY TakingFacts DEF TakenFrom

LEMMA ValidFacts ==
    ASSUME NEW slots \in Seq(Slot)
    PROVE  \A p : p \in PacketsOf(Valid(slots)) <=>
                    \E i \in 1..Len(slots) : slots[i].ok /\ slots[i].pkt = p
  <1> DEFINE K == {i \in DOMAIN slots : slots[i].ok}
  <1>1. PICK r : r = Valid(slots)
    OBVIOUS
  <1>2. r = ItemsAt(slots, K)
    BY <1>1 DEF Valid
  <1>3. DOMAIN slots = 1..Len(slots)
    BY LenProperties
  <1>4. \A i : i \in K <=> i \in 1..Len(slots) /\ slots[i].ok
    BY <1>3
  <1> HIDE DEF K
  <1>5. r \in Seq(Slot) /\ \E at : PlacesKept(r, at, slots, Len(slots), K)
    BY <1>2, ItemsAtFacts
  <1>6. PICK at : PlacesKept(r, at, slots, Len(slots), K)
    BY <1>5
  <1>7. DOMAIN r = 1..Len(r)
    BY <1>5, LenProperties
  <1>8. /\ \A k \in 1..Len(r) : at[k] \in K /\ r[k] = slots[at[k]]
        /\ \A i \in 1..Len(slots) : i \in K => \E k \in 1..Len(r) : at[k] = i
    BY <1>6 DEF PlacesKept
  <1>9. \A p : p \in PacketsOf(r) <=> \E k \in 1..Len(r) : r[k].pkt = p
    BY <1>7 DEF PacketsOf
  <1>10. ASSUME NEW p
         PROVE (\E k \in 1..Len(r) : r[k].pkt = p)
                  <=> (\E i \in 1..Len(slots) : slots[i].ok /\ slots[i].pkt = p)
    <2>1. ASSUME NEW k \in 1..Len(r), r[k].pkt = p
          PROVE  \E i \in 1..Len(slots) : slots[i].ok /\ slots[i].pkt = p
      <3>1. at[k] \in 1..Len(slots) /\ slots[at[k]].ok /\ slots[at[k]].pkt = p
        BY <1>4, <1>8, <2>1
      <3> QED BY <3>1
    <2>2. ASSUME NEW i \in 1..Len(slots), slots[i].ok, slots[i].pkt = p
          PROVE  \E k \in 1..Len(r) : r[k].pkt = p
      <3>1. PICK k \in 1..Len(r) : at[k] = i
        BY <1>4, <1>8, <2>2
      <3>2. r[k].pkt = p
        BY <1>8, <2>2, <3>1
      <3> QED BY <3>2
    <2> QED BY <2>1, <2>2
  <1> QED BY <1>1, <1>9, <1>10

\* The output batches outs of a split of b, and the outputs, jobs, whose batches
\* are enqueued.
SplitStep(b, slots, rest, outs, jobs) ==
    /\ outs \in [1..NOutputs(b) -> pool]
    /\ \A o, p \in 1..NOutputs(b) : outs[o] = outs[p] => o = p
    /\ jobs \in Seq(1..NOutputs(b))
    /\ \A j, k \in 1..Len(jobs) : jobs[j] = jobs[k] => j = k
    /\ \A j \in 1..Len(jobs) : Next_elems[batch[b].elem][jobs[j]] \in Elems
    /\ queue' = rest \o [j \in 1..Len(jobs) |-> outs[jobs[j]]]
    /\ pool' = (pool \ {outs[jobs[j]] : j \in 1..Len(jobs)}) \cup {b}
    /\ batch' \in [Batches -> BatchType]
    /\ \A j \in 1..Len(jobs) :
         batch'[outs[jobs[j]]] = [slots |-> Taking(slots, jobs[j]),
                                  elem  |-> Next_elems[batch[b].elem][jobs[j]], has |-> FALSE]
    /\ batch'[b] = FreshBatch
    /\ \A c \in Batches :
         c # b /\ (\A j \in 1..Len(jobs) : outs[jobs[j]] # c) => batch'[c] = batch[c]
    /\ sent' = sent \cup UNION {PacketsOf(Taking(slots, o)) :
                                  o \in {p \in 1..NOutputs(b) : Next_elems[batch[b].elem][p] = Out}}
    /\ dropQ' = dropQ \cup PacketsOf(slots)
    /\ brk' = TRUE

LEMMA SplitFacts ==
    ASSUME TypeInv, NEW b \in Batches, b \notin pool, NEW slots \in Seq(Slot), NEW rest,
           NOutputs(b) \in Nat, Cardinality(pool) >= NOutputs(b), SplitInto(b, slots, rest)
    PROVE  \E outs, jobs : SplitStep(b, slots, rest, outs, jobs)
  <1>1. PICK e \in Elems : e = batch[b].elem
    BY BatchFacts
  <1>2. PICK n \in Nat : n = NOutputs(b)
    OBVIOUS
  <1>3. /\ n = Len(Next_elems[e]) /\ Outputs(e) = 1..n
        /\ \A o \in 1..n : Next_elems[e][o] \in Elems \cup {Out}
    BY <1>1, <1>2, OutputFacts DEF NOutputs
  <1>4. IsFiniteSet(pool)
    BY SizeAssumption, FS_Subset DEF TypeInv, BatchTypes
  <1>5. PICK outs : outs = SubSeq(SetToSeq(pool), 1, n)
    OBVIOUS
  <1>6. /\ outs \in [1..n -> pool]
        /\ \A o, p \in 1..n : outs[o] = outs[p] => o = p
    <2>1. /\ SetToSeq(pool) \in Seq(pool) /\ Len(SetToSeq(pool)) = Cardinality(pool)
          /\ Cardinality(pool) \in Nat /\ n <= Cardinality(pool)
          /\ \A i, j \in 1..Cardinality(pool) : SetToSeq(pool)[i] = SetToSeq(pool)[j] => i = j
      BY <1>2, <1>4, SetToSeqFacts
    <2>2. PICK q \in Seq(pool) : q = SetToSeq(pool)
      BY <2>1
    <2>3. PICK m \in Nat : m = Len(q) /\ m = Cardinality(pool)
      BY <2>1, <2>2
    <2>4. 1 \in 1..Len(q) + 1 /\ n \in 1 - 1..Len(q) /\ (n - 1) + 1 = n
      BY <2>1, <2>3
    <2>5. /\ outs \in Seq(pool) /\ Len(outs) = (n - 1) + 1
          /\ \A i \in 1..(n - 1) + 1 : outs[i] = q[(1 + i) - 1]
      BY <1>5, <2>2, <2>4, SubSeqProperties
    <2>6. /\ outs \in Seq(pool) /\ Len(outs) = n
          /\ \A i \in 1..n : outs[i] = q[(1 + i) - 1]
      BY <2>4, <2>5
    <2>7. \A i \in 1..n : outs[i] = q[i] /\ i \in 1..m
      <3> TAKE i \in 1..n
      <3>1. (1 + i) - 1 = i /\ i \in 1..m
        BY <2>1, <2>3
      <3> QED BY <2>6, <3>1
    <2>8. outs \in [1..n -> pool]
      BY <2>6, LenProperties
    <2> QED BY <2>1, <2>2, <2>3, <2>7, <2>8
  <1> DEFINE K == {o \in Outputs(e) : Taking(slots, o) # <<>> /\ Next_elems[e][o] # Out}
             all == [o \in Outputs(e) |-> o]
  <1>7. PICK jobs : jobs = ItemsAt(all, K)
    OBVIOUS
  <1>8. /\ jobs \in Seq(1..n)
        /\ \A j, k \in 1..Len(jobs) : jobs[j] = jobs[k] => j = k
        /\ \A j \in 1..Len(jobs) : jobs[j] \in 1..n /\ Next_elems[e][jobs[j]] \in Elems
        /\ Range(jobs) = {jobs[j] : j \in 1..Len(jobs)}
    <2>1. all \in Seq(1..n) /\ Len(all) = n /\ \A o \in 1..n : all[o] = o
      BY <1>3, SeqDef
    <2>2. \A o \in K : o \in 1..n /\ Next_elems[e][o] # Out
      BY <1>3
    <2> HIDE DEF all, K
    <2>3. jobs \in Seq(1..n) /\ \E at : PlacesKept(jobs, at, all, Len(all), K)
      BY <1>7, <2>1, ItemsAtFacts
    <2>4. PICK at : PlacesKept(jobs, at, all, n, K)
      BY <2>1, <2>3
    <2>5. PICK m \in Nat : m = Len(jobs) /\ DOMAIN jobs = 1..m
      BY <2>3, LenProperties
    <2>6. /\ \A k \in 1..m : at[k] \in K /\ at[k] \in 1..n /\ jobs[k] = at[k]
          /\ \A k, l \in 1..m : k < l => at[k] < at[l]
      BY <2>1, <2>4, <2>5 DEF PlacesKept
    <2>7. ASSUME NEW k \in 1..m, NEW l \in 1..m, jobs[k] = jobs[l] PROVE k = l
      <3>1. at[k] \in 1..n /\ at[k] = at[l]
        BY <2>6, <2>7
      <3>2. ~(at[k] < at[l]) /\ ~(at[l] < at[k])
        BY <3>1
      <3> QED BY <2>6, <3>2
    <2>8. \A j \in 1..m : jobs[j] \in 1..n /\ Next_elems[e][jobs[j]] \in Elems
      BY <1>3, <2>2, <2>6
    <2>9. Range(jobs) = {jobs[j] : j \in 1..m}
      BY <2>5 DEF Range
    <2> QED BY <2>3, <2>5, <2>7, <2>8, <2>9
  <1> DEFINE txs == {o \in Outputs(e) : Next_elems[e][o] = Out}
             at(c) == CHOOSE o \in Range(jobs) : outs[o] = c
             child(o) == [slots |-> Taking(slots, o), elem |-> Next_elems[e][o], has |-> FALSE]
  <1>9. /\ batch' = [c \in Batches |->
              IF \E o \in Range(jobs) : outs[o] = c THEN child(at(c))
              ELSE IF c = b THEN FreshBatch ELSE batch[c]]
        /\ queue' = rest \o [j \in DOMAIN jobs |-> outs[jobs[j]]]
        /\ sent' = sent \cup UNION {PacketsOf(Taking(slots, o)) : o \in txs}
        /\ pool' = (pool \ {outs[o] : o \in Range(jobs)}) \cup {b}
        /\ dropQ' = dropQ \cup PacketsOf(slots)
        /\ brk' = TRUE
    <2>1. Len(Next_elems[e]) = n
      BY <1>3
    <2> QED BY <1>1, <1>5, <1>7, <2>1 DEF SplitInto, PoolAfterSplit, BreakLoops
  <1> HIDE DEF K, all
  <1>10. \A o \in Range(jobs) : /\ o \in 1..n /\ outs[o] \in pool /\ outs[o] \in Batches
                                /\ outs[o] # b /\ Next_elems[e][o] \in Elems
    <2>1. pool \subseteq Batches
      BY DEF TypeInv, BatchTypes
    <2> QED BY <1>6, <1>8, <2>1
  <1>11. ASSUME NEW o \in Range(jobs) PROVE batch'[outs[o]] = child(o) /\ child(o) \in BatchType
    <2>1. at(outs[o]) \in Range(jobs) /\ outs[at(outs[o])] = outs[o]
      OBVIOUS
    <2>2. at(outs[o]) = o
      BY <1>6, <1>10, <2>1
    <2>3. batch'[outs[o]] = child(at(outs[o]))
      BY <1>9, <1>10, Zenon
    <2>4. Taking(slots, o) \in Seq(Slot)
      BY TakingFacts
    <2>5. child(o) \in BatchType
      BY <1>10, <2>4 DEF BatchType
    <2> HIDE DEF at, child
    <2> QED BY <2>2, <2>3, <2>5
  <1>12. batch'[b] = FreshBatch
    BY <1>9, <1>10
  <1>13. \A c \in Batches :
           c # b /\ (\A o \in Range(jobs) : outs[o] # c) => batch'[c] = batch[c]
    BY <1>9
  <1>14. batch' \in [Batches -> BatchType]
    <2>1. ASSUME NEW c \in Batches PROVE batch'[c] \in BatchType
      <3>1. CASE \E o \in Range(jobs) : outs[o] = c
        BY <1>11, <3>1
      <3>2. CASE \A o \in Range(jobs) : outs[o] # c
        BY <1>12, <1>13, <3>2, FreshType, BatchFacts
      <3> QED BY <3>1, <3>2
    <2>2. \E h : batch' = [c \in Batches |-> h[c]]
      <3>1. DOMAIN batch' = Batches /\ batch' = [c \in DOMAIN batch' |-> batch'[c]]
        BY <1>9
      <3>2. batch' = [c \in Batches |-> batch'[c]]
        BY <3>1
      <3> QED BY <3>2
    <2> QED BY <2>1, <2>2
  <1>15. DOMAIN jobs = 1..Len(jobs)
    BY <1>8, LenProperties
  <1>16. /\ queue' = rest \o [j \in 1..Len(jobs) |-> outs[jobs[j]]]
         /\ pool' = (pool \ {outs[jobs[j]] : j \in 1..Len(jobs)}) \cup {b}
         /\ txs = {p \in 1..n : Next_elems[e][p] = Out}
    <2>1. {outs[o] : o \in Range(jobs)} = {outs[jobs[j]] : j \in 1..Len(jobs)}
      BY <1>8
    <2>2. queue' = rest \o [j \in DOMAIN jobs |-> outs[jobs[j]]]
          /\ pool' = (pool \ {outs[o] : o \in Range(jobs)}) \cup {b}
      BY <1>9
    <2>3. txs = {p \in 1..n : Next_elems[e][p] = Out}
      BY <1>3
    <2> QED BY <1>15, <2>1, <2>2, <2>3
  <1>17. /\ \A j \in 1..Len(jobs) : batch'[outs[jobs[j]]] = child(jobs[j])
         /\ \A c \in Batches :
              c # b /\ (\A j \in 1..Len(jobs) : outs[jobs[j]] # c) => batch'[c] = batch[c]
    <2> HIDE DEF child, at, txs
    <2>1. \A j \in 1..Len(jobs) : jobs[j] \in Range(jobs)
      BY <1>8
    <2>2. ASSUME NEW c \in Batches, c # b, \A j \in 1..Len(jobs) : outs[jobs[j]] # c
          PROVE  batch'[c] = batch[c]
      <3>1. \A o \in Range(jobs) : outs[o] # c
        BY <1>8, <2>2
      <3> QED BY <1>13, <2>2, <3>1
    <2> QED BY <1>11, <2>1, <2>2
  <1>18. sent' = sent \cup UNION {PacketsOf(Taking(slots, o)) :
                                  o \in {p \in 1..n : Next_elems[e][p] = Out}}
    BY <1>9, <1>16
  <1>19. dropQ' = dropQ \cup PacketsOf(slots) /\ brk' = TRUE
    BY <1>9
  <1> HIDE DEF txs, at
  <1>20. SplitStep(b, slots, rest, outs, jobs)
    BY <1>1, <1>2, <1>6, <1>8, <1>12, <1>14, <1>16, <1>17, <1>18, <1>19 DEF SplitStep
  <1> QED BY <1>20

-----------------------------------------------------------------------------
(* Types                                                                    *)

LEMMA InitTypes == Init => TypeInv
  <1> SUFFICES ASSUME Init PROVE TypeInv
    OBVIOUS
  <1>1. NPackets \in Nat /\ Packets = 1..NPackets
    BY SizeAssumption DEF Packets
  <1>2. rx \in Seq(Packets)
    <2>1. rx \in [1..NPackets -> Packets]
      BY <1>1 DEF Init
    <2> QED BY <1>1, <2>1, SeqDef
  <1>3. ThreadTypes
    <2>1. frames \in Seq(FrameType)
      BY DEF Init
    <2>2. pc = "recv" /\ brk = FALSE /\ broken = FALSE
      BY DEF Init
    <2> QED BY <2>1, <2>2 DEF ThreadTypes
  <1>4. BatchTypes
    BY FreshType DEF Init, BatchTypes
  <1>5. PacketTypes
    BY <1>2, GraphAssumption DEF Init, PacketTypes
  <1> QED BY <1>3, <1>4, <1>5 DEF TypeInv

\* The chunk and the rest of the received packets.
LEMMA ChunkFacts ==
    ASSUME TypeInv, pkts # <<>>
    PROVE  /\ ChunkSize \in Nat /\ ChunkSize # 0 /\ ChunkSize <= Len(pkts) /\ Len(pkts) \in Nat
           /\ RestOfBurst \in Seq(Packets) /\ Len(RestOfBurst) = Len(pkts) - ChunkSize
           /\ \A i \in 1..Len(pkts) - ChunkSize : RestOfBurst[i] = pkts[ChunkSize + i]
           /\ \A i \in 1..Len(pkts) : pkts[i] \in Packets
  <1>1. pkts \in Seq(Packets)
    BY DEF TypeInv, PacketTypes
  <1>2. PICK n \in Nat : n = Len(pkts)
    BY <1>1, LenProperties
  <1>3. n # 0
    BY <1>1, <1>2, EmptySeq
  <1>4. PICK c \in Nat : c = ChunkSize /\ c # 0 /\ c <= n
    BY <1>2, <1>3, SizeAssumption DEF ChunkSize
  <1>5. c + 1 \in 1..n + 1 /\ n \in (c + 1) - 1..n /\ (n - (c + 1)) + 1 = n - c
    BY <1>4
  <1>6. PICK r : r = RestOfBurst
    OBVIOUS
  <1>7. r = SubSeq(pkts, c + 1, n)
    BY <1>2, <1>4, <1>6 DEF RestOfBurst
  <1>8. /\ r \in Seq(Packets) /\ Len(r) = (n - (c + 1)) + 1
        /\ \A i \in 1..(n - (c + 1)) + 1 : r[i] = pkts[((c + 1) + i) - 1]
    BY <1>1, <1>2, <1>5, <1>7, SubSeqProperties
  <1>9. \A i \in 1..n - c : r[i] = pkts[c + i]
    <2> TAKE i \in 1..n - c
    <2>1. ((c + 1) + i) - 1 = c + i
      BY <1>4
    <2> QED BY <1>5, <1>8, <2>1
  <1>10. \A i \in 1..n : pkts[i] \in Packets
    BY <1>1, <1>2, ElementOfSeq
  <1> QED BY <1>2, <1>4, <1>5, <1>6, <1>8, <1>9, <1>10

\* What an iteration receives.
LEMMA ReceiveFacts ==
    ASSUME TypeInv, Receive
    PROVE  \E n \in Nat :
             /\ Len(rx) \in Nat /\ n <= Len(rx)
             /\ pkts' \in Seq(Packets) /\ Len(pkts') = n
             /\ rx' \in Seq(Packets) /\ Len(rx') = Len(rx) - n
             /\ \A i \in 1..n : pkts'[i] = rx[i]
             /\ \A i \in 1..Len(rx) - n : rx'[i] = rx[n + i]
  <1>1. rx \in Seq(Packets)
    BY DEF TypeInv, PacketTypes
  <1>2. PICK l \in Nat : l = Len(rx)
    BY <1>1, LenProperties
  <1>3. PICK n \in 0..BurstSize : /\ n <= l /\ pkts' = SubSeq(rx, 1, n)
                                  /\ rx' = SubSeq(rx, n + 1, l)
    BY <1>2 DEF Receive
  <1>4. n \in Nat
    BY SizeAssumption
  <1>5. /\ 1 \in 1..l + 1 /\ n \in 1 - 1..l /\ (n - 1) + 1 = n
        /\ n + 1 \in 1..l + 1 /\ l \in (n + 1) - 1..l /\ (l - (n + 1)) + 1 = l - n
    BY <1>3, <1>4
  <1>6. /\ pkts' \in Seq(Packets) /\ Len(pkts') = (n - 1) + 1
        /\ \A i \in 1..(n - 1) + 1 : pkts'[i] = rx[(1 + i) - 1]
    BY <1>1, <1>2, <1>3, <1>5, SubSeqProperties
  <1>7. /\ rx' \in Seq(Packets) /\ Len(rx') = (l - (n + 1)) + 1
        /\ \A i \in 1..(l - (n + 1)) + 1 : rx'[i] = rx[((n + 1) + i) - 1]
    BY <1>1, <1>2, <1>3, <1>5, SubSeqProperties
  <1>8. \A i \in 1..n : pkts'[i] = rx[i]
    <2> TAKE i \in 1..n
    <2>1. (1 + i) - 1 = i
      BY <1>4
    <2> QED BY <1>5, <1>6, <2>1
  <1>9. \A i \in 1..l - n : rx'[i] = rx[n + i]
    <2> TAKE i \in 1..l - n
    <2>1. ((n + 1) + i) - 1 = n + i
      BY <1>4
    <2> QED BY <1>5, <1>7, <2>1
  <1>10. Len(pkts') = n /\ Len(rx') = l - n
    BY <1>5, <1>6, <1>7
  <1> QED BY <1>2, <1>3, <1>4, <1>6, <1>7, <1>8, <1>9, <1>10

LEMMA QueueFacts ==
    ASSUME TypeInv, queue # <<>>
    PROVE  Head(queue) \in Batches /\ Tail(queue) \in Seq(Batches)
  BY HeadTailProperties DEF TypeInv, BatchTypes

\* The new batch of FeedBatch.
LEMMA FeedFacts ==
    ASSUME TypeInv, FeedBatch
    PROVE  \E b \in pool : \E slots \in Seq(Slot) :
             /\ b \in Batches /\ Len(slots) = ChunkSize
             /\ \A i \in 1..ChunkSize : slots[i] = [pkt |-> pkts[i], ok |-> TRUE, to |-> 0]
             /\ pool' = pool \ {b} /\ queue' = Append(queue, b)
             /\ batch' = [batch EXCEPT ![b] = [slots |-> slots, elem |-> Input, has |-> FALSE]]
  <1>1. PICK b : b = CHOOSE c \in pool : TRUE
    OBVIOUS
  <1>2. PICK slots : slots = [i \in 1..ChunkSize |-> [pkt |-> pkts[i], ok |-> TRUE, to |-> 0]]
    OBVIOUS
  <1>3. pkts # <<>> /\ b \in pool /\ b \in Batches
    BY <1>1 DEF FeedBatch, TypeInv, BatchTypes
  <1>4. slots \in Seq(Slot) /\ Len(slots) = ChunkSize
    <2>1. PICK c \in Nat : c = ChunkSize /\ \A i \in 1..c : pkts[i] \in Packets
      BY <1>3, ChunkFacts
    <2>2. slots \in [1..c -> Slot]
      BY <1>2, <2>1 DEF Slot
    <2> QED BY <2>1, <2>2, SeqDef
  <1>5. /\ pool' = pool \ {b} /\ queue' = Append(queue, b)
        /\ batch' = [batch EXCEPT ![b] = [slots |-> slots, elem |-> Input, has |-> FALSE]]
    BY <1>1, <1>2 DEF FeedBatch
  <1> QED BY <1>2, <1>3, <1>4, <1>5

-----------------------------------------------------------------------------
(* The places of a batch                                                    *)

BatchesOf(fr) == [i \in DOMAIN fr |-> fr[i].batch]

InPool(b)      == IF b \in pool THEN 1 ELSE 0
OnDevice(b)    == IF b \in kept THEN 1 ELSE 0
Waiting(b)     == Count(BatchesOf(frames), b)
BatchCopies(b) == InPool(b) + OnDevice(b) + Count(queue, b) + Count(done, b) + Waiting(b)

OneCopy == \A b \in Batches : BatchCopies(b) <= 1 /\ (~broken => BatchCopies(b) = 1)

LEMMA BatchesOfType ==
    ASSUME NEW fr \in Seq(FrameType)
    PROVE  /\ BatchesOf(fr) \in Seq(Batches \cup {NoBatch}) /\ Len(BatchesOf(fr)) = Len(fr)
           /\ \A i \in 1..Len(fr) : BatchesOf(fr)[i] = fr[i].batch /\ fr[i] \in FrameType
  <1>1. DOMAIN fr = 1..Len(fr) /\ Len(fr) \in Nat /\ \A i \in 1..Len(fr) : fr[i] \in FrameType
    BY LenProperties, ElementOfSeq
  <1>2. BatchesOf(fr) \in [1..Len(fr) -> Batches \cup {NoBatch}]
    BY <1>1 DEF BatchesOf, FrameType
  <1>3. \A i \in 1..Len(fr) : BatchesOf(fr)[i] = fr[i].batch
    BY <1>1 DEF BatchesOf
  <1> QED BY <1>1, <1>2, <1>3, SeqDef

LEMMA BatchesOfPush ==
    ASSUME NEW fr \in Seq(FrameType), NEW f \in FrameType
    PROVE  /\ BatchesOf(<<f>> \o fr) = <<f.batch>> \o BatchesOf(fr)
           /\ <<f>> \o fr \in Seq(FrameType)
           /\ Len(fr) \in Nat /\ Len(<<f>> \o fr) = 1 + Len(fr)
           /\ \A i \in 1..1 + Len(fr) : (<<f>> \o fr)[i] = IF i = 1 THEN f ELSE fr[i - 1]
  <1> DEFINE T == Batches \cup {NoBatch}
  <1>1. /\ f.batch \in T /\ <<f>> \in Seq(FrameType) /\ <<f.batch>> \in Seq(T)
        /\ Len(<<f>>) = 1 /\ Len(<<f.batch>>) = 1 /\ <<f>>[1] = f /\ <<f.batch>>[1] = f.batch
    BY DEF FrameType
  <1>2. PICK q : q = <<f>> \o fr
    OBVIOUS
  <1>3. PICK n \in Nat : n = Len(fr)
    BY LenProperties
  <1>4. /\ q \in Seq(FrameType) /\ Len(q) = 1 + n
        /\ \A i \in 1..1 + n : q[i] = IF i <= 1 THEN <<f>>[i] ELSE fr[i - 1]
    BY <1>1, <1>2, <1>3, ConcatProperties
  <1>5. /\ BatchesOf(fr) \in Seq(T) /\ Len(BatchesOf(fr)) = n
        /\ \A i \in 1..n : BatchesOf(fr)[i] = fr[i].batch
    BY <1>3, BatchesOfType
  <1>6. PICK p : p = <<f.batch>> \o BatchesOf(fr)
    OBVIOUS
  <1>7. /\ p \in Seq(T) /\ Len(p) = 1 + n
        /\ \A i \in 1..1 + n : p[i] = IF i <= 1 THEN <<f.batch>>[i] ELSE BatchesOf(fr)[i - 1]
    <2> HIDE DEF T
    <2> QED BY <1>1, <1>5, <1>6, ConcatProperties
  <1>8. /\ BatchesOf(q) \in Seq(T) /\ Len(BatchesOf(q)) = 1 + n
        /\ \A i \in 1..1 + n : BatchesOf(q)[i] = q[i].batch
    BY <1>4, BatchesOfType
  <1>9. \A i \in 1..1 + n : BatchesOf(q)[i] = p[i]
    <2> TAKE i \in 1..1 + n
    <2>1. CASE i = 1
      <3>1. i <= 1 /\ q[i] = <<f>>[i] /\ p[i] = <<f.batch>>[i]
        BY <1>4, <1>7, <2>1
      <3>2. q[i] = f /\ p[i] = f.batch
        BY <1>1, <2>1, <3>1
      <3> QED BY <1>8, <3>2
    <2>2. CASE i # 1
      <3>1. ~(i <= 1) /\ i - 1 \in 1..n
        BY <1>3, <2>2
      <3> QED BY <1>4, <1>5, <1>7, <1>8, <3>1
    <2> QED BY <2>1, <2>2
  <1>10. BatchesOf(q) = p
    <2> HIDE DEF T
    <2> QED BY <1>7, <1>8, <1>9, SeqEqual
  <1>11. \A i \in 1..1 + n : q[i] = IF i = 1 THEN f ELSE fr[i - 1]
    <2> TAKE i \in 1..1 + n
    <2>1. i <= 1 <=> i = 1
      OBVIOUS
    <2> QED BY <1>1, <1>4, <2>1
  <1> QED BY <1>2, <1>3, <1>4, <1>6, <1>10, <1>11

LEMMA BatchesOfPop ==
    ASSUME NEW fr \in Seq(FrameType), fr # <<>>
    PROVE  /\ Tail(fr) \in Seq(FrameType) /\ Head(fr) \in FrameType
           /\ Len(fr) \in Nat \ {0} /\ Head(fr) = fr[1] /\ Len(Tail(fr)) = Len(fr) - 1
           /\ \A i \in 1..Len(fr) - 1 : Tail(fr)[i] = fr[i + 1]
           /\ BatchesOf(fr) # <<>> /\ Head(BatchesOf(fr)) = Head(fr).batch
           /\ BatchesOf(Tail(fr)) = Tail(BatchesOf(fr))
  <1> DEFINE T == Batches \cup {NoBatch}
  <1>1. PICK n \in Nat : n = Len(fr)
    BY LenProperties
  <1>2. n # 0
    BY <1>1, EmptySeq
  <1>3. PICK t : t = Tail(fr)
    OBVIOUS
  <1>4. /\ t \in Seq(FrameType) /\ Len(t) = n - 1
        /\ \A i \in 1..n - 1 : t[i] = fr[i + 1]
        /\ Head(fr) = fr[1] /\ Head(fr) \in FrameType
    BY <1>1, <1>3, HeadTailProperties
  <1>5. /\ BatchesOf(fr) \in Seq(T) /\ Len(BatchesOf(fr)) = n
        /\ \A i \in 1..n : BatchesOf(fr)[i] = fr[i].batch
    BY <1>1, BatchesOfType
  <1>6. BatchesOf(fr) # <<>>
    BY <1>2, <1>5, EmptySeq
  <1>7. PICK p : p = Tail(BatchesOf(fr))
    OBVIOUS
  <1>8. /\ p \in Seq(T) /\ Len(p) = n - 1
        /\ \A i \in 1..n - 1 : p[i] = BatchesOf(fr)[i + 1]
        /\ Head(BatchesOf(fr)) = BatchesOf(fr)[1]
    <2> HIDE DEF T
    <2> QED BY <1>5, <1>6, <1>7, HeadTailProperties
  <1>9. /\ BatchesOf(t) \in Seq(T) /\ Len(BatchesOf(t)) = n - 1
        /\ \A i \in 1..n - 1 : BatchesOf(t)[i] = t[i].batch
    BY <1>4, BatchesOfType
  <1>10. \A i \in 1..n - 1 : BatchesOf(t)[i] = p[i]
    <2> TAKE i \in 1..n - 1
    <2>1. i + 1 \in 1..n
      OBVIOUS
    <2> QED BY <1>4, <1>5, <1>8, <1>9, <2>1
  <1>11. BatchesOf(t) = p
    <2> HIDE DEF T
    <2> QED BY <1>8, <1>9, <1>10, SeqEqual
  <1>12. 1 \in 1..n
    BY <1>2
  <1> QED BY <1>1, <1>2, <1>3, <1>4, <1>5, <1>6, <1>7, <1>8, <1>11, <1>12

LEMMA CopyTypes ==
    ASSUME TypeInv, NEW b \in Batches
    PROVE  /\ InPool(b) \in {0, 1} /\ OnDevice(b) \in {0, 1}
           /\ Count(queue, b) \in Nat /\ Count(done, b) \in Nat /\ Waiting(b) \in Nat
           /\ BatchCopies(b) \in Nat
  <1>1. BatchesOf(frames) \in Seq(Batches \cup {NoBatch})
    BY BatchesOfType DEF TypeInv, ThreadTypes
  <1>2. Waiting(b) \in Nat
    BY <1>1, CountType DEF Waiting
  <1>3. Count(queue, b) \in Nat /\ Count(done, b) \in Nat
    BY CountType DEF TypeInv, BatchTypes
  <1>4. InPool(b) \in {0, 1} /\ OnDevice(b) \in {0, 1}
    BY DEF InPool, OnDevice
  <1> QED BY <1>2, <1>3, <1>4 DEF BatchCopies

\* A batch that is in one place is in no other.
LEMMA OnePlace ==
    ASSUME TypeInv, OneCopy, NEW b \in Batches
    PROVE  /\ Count(queue, b) # 0 => /\ b \notin pool /\ b \notin kept
                                     /\ Count(done, b) = 0 /\ Waiting(b) = 0
           /\ b \in kept => b \notin pool /\ Count(queue, b) = 0 /\ Waiting(b) = 0
           /\ b \in pool => b \notin kept /\ Count(queue, b) = 0 /\ Waiting(b) = 0
           /\ Waiting(b) # 0 => b \notin pool /\ b \notin kept /\ Count(queue, b) = 0
  <1>1. /\ InPool(b) \in {0, 1} /\ OnDevice(b) \in {0, 1}
        /\ Count(queue, b) \in Nat /\ Count(done, b) \in Nat /\ Waiting(b) \in Nat
    BY CopyTypes
  <1>2. InPool(b) + OnDevice(b) + Count(queue, b) + Count(done, b) + Waiting(b) <= 1
    BY DEF OneCopy, BatchCopies
  <1>3. /\ Count(queue, b) # 0 => /\ InPool(b) = 0 /\ OnDevice(b) = 0
                                  /\ Count(done, b) = 0 /\ Waiting(b) = 0
        /\ OnDevice(b) = 1 => InPool(b) = 0 /\ Count(queue, b) = 0 /\ Waiting(b) = 0
        /\ InPool(b) = 1 => OnDevice(b) = 0 /\ Count(queue, b) = 0 /\ Waiting(b) = 0
        /\ Waiting(b) # 0 => InPool(b) = 0 /\ OnDevice(b) = 0 /\ Count(queue, b) = 0
    BY <1>1, <1>2
  <1>4. (InPool(b) = 1 <=> b \in pool) /\ (OnDevice(b) = 1 <=> b \in kept)
    BY DEF InPool, OnDevice
  <1> QED BY <1>1, <1>3, <1>4

\* The batch of the next job.
LEMMA NextJob ==
    ASSUME TypeInv, OneCopy, queue # <<>>, NEW b, b = Head(queue)
    PROVE  /\ b \in Batches /\ b \notin pool /\ b \notin kept /\ Waiting(b) = 0
           /\ Tail(queue) \in Seq(Batches)
           /\ \A x \in Batches : Count(Tail(queue), x) = Count(queue, x) - One(b, x)
  <1>1. queue \in Seq(Batches)
    BY DEF TypeInv, BatchTypes
  <1>2. b \in Batches /\ Tail(queue) \in Seq(Batches)
    BY QueueFacts
  <1>3. \A x \in Batches : Count(Tail(queue), x) = Count(queue, x) - One(b, x)
    BY <1>1, CountPop
  <1>4. Count(Tail(queue), b) \in Nat /\ Count(queue, b) \in Nat /\ One(b, b) = 1
    BY <1>1, <1>2, CountType DEF One
  <1>5. Count(queue, b) # 0
    BY <1>2, <1>3, <1>4
  <1> QED BY <1>2, <1>3, <1>5, OnePlace

\* The batch of the innermost call that waits.
LEMMA NextFrame ==
    ASSUME TypeInv, OneCopy, frames # <<>>, NEW b \in Batches, b = Head(frames).batch
    PROVE  /\ b \notin pool /\ b \notin kept /\ Count(queue, b) = 0
           /\ \A x \in Batches : Count(BatchesOf(Tail(frames)), x) = Waiting(x) - One(b, x)
  <1>1. frames \in Seq(FrameType)
    BY DEF TypeInv, ThreadTypes
  <1>2. /\ BatchesOf(frames) \in Seq(Batches \cup {NoBatch})
        /\ BatchesOf(frames) # <<>> /\ Head(BatchesOf(frames)) = b
        /\ Tail(frames) \in Seq(FrameType)
        /\ BatchesOf(Tail(frames)) = Tail(BatchesOf(frames))
    BY <1>1, BatchesOfType, BatchesOfPop
  <1>3. \A x \in Batches : Count(BatchesOf(Tail(frames)), x) = Waiting(x) - One(b, x)
    BY <1>2, CountPop DEF Waiting
  <1>4. BatchesOf(Tail(frames)) \in Seq(Batches \cup {NoBatch})
    BY <1>2, BatchesOfType
  <1>5. Count(BatchesOf(Tail(frames)), b) \in Nat /\ Waiting(b) \in Nat /\ One(b, b) = 1
    BY <1>2, <1>4, CountType DEF One, Waiting
  <1>6. Waiting(b) # 0
    BY <1>3, <1>5
  <1> QED BY <1>3, <1>6, OnePlace

-----------------------------------------------------------------------------
(* The steps                                                                *)

LEMMA JobFacts ==
    ASSUME TypeInv, OneCopy, NEW b \in Batches, NEW d, Job(b, d)
    PROVE  /\ d \in Decisions(b) /\ queue # <<>> /\ pc = "flush" /\ ~broken
           /\ b = Head(queue) /\ b \notin pool /\ b \notin kept /\ Waiting(b) = 0
           /\ route' = RouteAfter(b, d) /\ route' \in [Packets -> Elems \cup {Out, Drop}]
           /\ Decided(b, d) \in Seq(Slot)
           /\ NOutputs(b) \in Nat
           /\ Tail(queue) \in Seq(Batches)
           /\ \A x \in Batches : Count(Tail(queue), x) = Count(queue, x) - One(b, x)
  <1>1. /\ d \in Decisions(b) /\ queue # <<>> /\ pc = "flush" /\ ~broken
        /\ b = Head(queue) /\ route' = RouteAfter(b, d)
    BY DEF Job
  <1>2. route' \in [Packets -> Elems \cup {Out, Drop}]
    BY <1>1, RouteType
  <1>3. Decided(b, d) \in Seq(Slot)
    BY <1>1, DecidedFacts
  <1>4. NOutputs(b) \in Nat
    BY BatchFacts, OutputFacts DEF NOutputs
  <1> QED BY <1>1, <1>2, <1>3, <1>4, NextJob

\* A sequence in which no value occurs twice.
LEMMA CountInjective ==
    ASSUME NEW S, NEW s \in Seq(S), \A i, j \in 1..Len(s) : s[i] = s[j] => i = j, NEW x
    PROVE  Count(s, x) = IF \E i \in 1..Len(s) : s[i] = x THEN 1 ELSE 0
  <1>1. CASE \E i \in 1..Len(s) : s[i] = x
    <2>1. PICK i \in 1..Len(s) : s[i] = x
      BY <1>1
    <2>2. Places(s, x) = {i}
      BY <2>1 DEF Places
    <2>3. Cardinality(Places(s, x)) = 1
      BY <2>2, FS_Singleton
    <2> QED BY <1>1, <2>3, PlacesFinite
  <1>2. CASE ~\E i \in 1..Len(s) : s[i] = x
    BY <1>2, CountPositive
  <1> QED BY <1>1, <1>2

LEMMA SplitMoves ==
    ASSUME TypeInv, NEW b \in Batches, b \notin pool, NEW slots \in Seq(Slot),
           NEW rest \in Seq(Batches), NEW outs, NEW jobs, NOutputs(b) \in Nat,
           SplitStep(b, slots, rest, outs, jobs)
    PROVE  /\ pool' \in SUBSET Batches /\ queue' \in Seq(Batches)
           /\ sent' \in SUBSET Packets /\ dropQ' \in SUBSET Packets
           /\ batch' \in [Batches -> BatchType] /\ brk' \in BOOLEAN
           /\ \A x \in Batches : InPool(x)' + Count(queue', x)
                                    = InPool(x) + Count(rest, x) + One(b, x)
  <1>1. PICK n \in Nat : n = NOutputs(b)
    OBVIOUS
  <1>2. /\ outs \in [1..n -> pool]
        /\ \A o, p \in 1..n : outs[o] = outs[p] => o = p
        /\ jobs \in Seq(1..n)
        /\ \A j, k \in 1..Len(jobs) : jobs[j] = jobs[k] => j = k
        /\ queue' = rest \o [j \in 1..Len(jobs) |-> outs[jobs[j]]]
        /\ pool' = (pool \ {outs[jobs[j]] : j \in 1..Len(jobs)}) \cup {b}
        /\ batch' \in [Batches -> BatchType]
        /\ sent' = sent \cup UNION {PacketsOf(Taking(slots, o)) :
                                  o \in {p \in 1..n : Next_elems[batch[b].elem][p] = Out}}
        /\ dropQ' = dropQ \cup PacketsOf(slots)
        /\ brk' = TRUE
    BY <1>1 DEF SplitStep
  <1>3. pool \subseteq Batches /\ sent \subseteq Packets /\ dropQ \subseteq Packets
    BY DEF TypeInv, BatchTypes, PacketTypes
  <1>4. PICK m \in Nat : m = Len(jobs) /\ \A j \in 1..m : jobs[j] \in 1..n
    BY <1>2, LenProperties, ElementOfSeq
  <1>5. PICK q : q = [j \in 1..m |-> outs[jobs[j]]]
    OBVIOUS
  <1>6. \A j \in 1..m : q[j] = outs[jobs[j]] /\ q[j] \in pool /\ q[j] \in Batches
    BY <1>2, <1>3, <1>4, <1>5
  <1>7. q \in Seq(Batches) /\ Len(q) = m
    <2>1. q \in [1..m -> Batches]
      BY <1>5, <1>6
    <2> QED BY <2>1, SeqDef
  <1>8. ASSUME NEW i \in 1..m, NEW j \in 1..m, q[i] = q[j] PROVE i = j
    BY <1>2, <1>4, <1>6, <1>8
  <1>9. queue' \in Seq(Batches) /\ queue' = rest \o q
    BY <1>2, <1>4, <1>5, <1>7, ConcatProperties
  <1>10. ASSUME NEW s \in Seq(Slot) PROVE PacketsOf(s) \in SUBSET Packets
    <2>1. DOMAIN s = 1..Len(s) /\ \A i \in 1..Len(s) : s[i] \in Slot
      BY LenProperties, ElementOfSeq
    <2> QED BY <2>1 DEF PacketsOf, Slot
  <1>11. \A o : PacketsOf(Taking(slots, o)) \in SUBSET Packets
    BY <1>10, TakingFacts
  <1>12. sent' \in SUBSET Packets /\ dropQ' \in SUBSET Packets
    BY <1>2, <1>3, <1>10, <1>11
  <1>13. pool' = (pool \ {q[j] : j \in 1..m}) \cup {b}
    <2>1. {outs[jobs[j]] : j \in 1..m} = {q[j] : j \in 1..m}
      BY <1>6
    <2>2. pool' = (pool \ {outs[jobs[j]] : j \in 1..m}) \cup {b}
      BY <1>2, <1>4
    <2> QED BY <2>1, <2>2
  <1>14. ASSUME NEW x \in Batches
         PROVE  InPool(x)' + Count(queue', x) = InPool(x) + Count(rest, x) + One(b, x)
    <2>1. /\ Count(queue', x) = Count(rest, x) + Count(q, x)
          /\ Count(rest, x) \in Nat
      BY <1>7, <1>9, CountConcat, CountType
    <2>2. Count(q, x) = IF \E j \in 1..m : q[j] = x THEN 1 ELSE 0
      BY <1>7, <1>8, CountInjective
    <2>3. InPool(x)' + Count(q, x) = InPool(x) + One(b, x)
      <3>1. CASE x = b
        <4>1. x \notin pool /\ x \in pool' /\ ~\E j \in 1..m : q[j] = x
          BY <1>6, <1>13, <3>1
        <4> QED BY <2>2, <3>1, <4>1 DEF InPool, One
      <3>2. CASE x # b /\ \E j \in 1..m : q[j] = x
        <4>1. x \in pool /\ x \notin pool'
          BY <1>6, <1>13, <3>2
        <4> QED BY <2>2, <3>2, <4>1 DEF InPool, One
      <3>3. CASE x # b /\ ~\E j \in 1..m : q[j] = x
        <4>1. x \in pool' <=> x \in pool
          BY <1>13, <3>3
        <4> QED BY <2>2, <3>3, <4>1 DEF InPool, One
      <3> QED BY <3>1, <3>2, <3>3
    <2>4. InPool(x)' \in {0, 1} /\ InPool(x) \in {0, 1} /\ One(b, x) \in {0, 1}
          /\ Count(q, x) \in {0, 1}
      BY <2>2 DEF InPool, One
    <2> QED BY <2>1, <2>3, <2>4
  <1> QED BY <1>2, <1>3, <1>9, <1>12, <1>13, <1>14

\* What a step does with the copies of a batch.
BatchMoves(x) ==
    /\ BatchCopies(x)' <= BatchCopies(x) /\ BatchCopies(x)' \in Int
    /\ ~broken' => ~broken /\ BatchCopies(x)' = BatchCopies(x)

LEMMA BatchStays ==
    ASSUME TypeInv, NEW x \in Batches, UNCHANGED <<pool, kept, queue, done, frames>>,
           ~broken' => ~broken
    PROVE  BatchMoves(x)
  <1>1. BatchCopies(x)' = BatchCopies(x)
    BY DEF BatchCopies, InPool, OnDevice, Waiting
  <1>2. BatchCopies(x) \in Nat
    BY CopyTypes
  <1> QED BY <1>1, <1>2 DEF BatchMoves

LEMMA BatchReplaced ==
    ASSUME TypeInv, NEW x \in Batches, broken' = broken,
           /\ InPool(x)' \in Int /\ OnDevice(x)' \in Int /\ Count(queue, x)' \in Int
           /\ Count(done, x)' \in Int /\ Waiting(x)' \in Int,
           InPool(x)' + OnDevice(x)' + Count(queue, x)' + Count(done, x)' + Waiting(x)'
              = InPool(x) + OnDevice(x) + Count(queue, x) + Count(done, x) + Waiting(x)
    PROVE  BatchMoves(x)
  <1>1. BatchCopies(x)' = BatchCopies(x)
    BY DEF BatchCopies
  <1>2. BatchCopies(x) \in Nat
    BY CopyTypes
  <1> QED BY <1>1, <1>2 DEF BatchMoves

\* Steps that leave the batches where they are.
LEMMA IdleSteps ==
    ASSUME TypeInv, OneCopy,
           \/ Receive \/ RunLoop \/ StopLoop \/ RunCheck \/ EndRound \/ AwaitAgain
           \/ SplitUnfilled \/ Terminate \/ Stopped
    PROVE  TypeInv' /\ \A x \in Batches : BatchMoves(x)
  <1>1. UNCHANGED <<pool, kept, queue, done, frames, batch>> /\ (~broken' => ~broken)
    BY DEF Receive, RunLoop, StopLoop, RunCheck, EndRound, AwaitAgain, SplitUnfilled,
           Terminate, Stopped, vars, packetVars
  <1>2. \A x \in Batches : BatchMoves(x)
    BY <1>1, BatchStays
  <1>3. BatchTypes' /\ frames' \in Seq(FrameType)
    BY <1>1 DEF TypeInv, BatchTypes, ThreadTypes
  <1>4. /\ pc' \in {"recv", "feed", "round", "flush", "roundEnd", "resume", "stopped", "undefined"}
        /\ brk' \in BOOLEAN /\ broken' \in BOOLEAN
    BY DEF Receive, RunLoop, StopLoop, RunCheck, EndRound, AwaitAgain, SplitUnfilled,
           Terminate, Stopped, vars, packetVars, TypeInv, ThreadTypes
  <1>5. CASE Receive
    <2>1. pkts' \in Seq(Packets) /\ rx' \in Seq(Packets)
      BY <1>5, ReceiveFacts
    <2>2. /\ dropQ' \in SUBSET Packets /\ freed' \in SUBSET Packets /\ sent' \in SUBSET Packets
          /\ route' \in [Packets -> Elems \cup {Out, Drop}]
      BY <1>5 DEF Receive, TypeInv, PacketTypes
    <2>3. PacketTypes'
      BY <2>1, <2>2 DEF PacketTypes
    <2> QED BY <1>2, <1>3, <1>4, <2>3 DEF TypeInv, ThreadTypes
  <1>6. CASE ~Receive
    <2>1. UNCHANGED <<rx, pkts, dropQ, freed, sent, route>>
      BY <1>6 DEF RunLoop, StopLoop, RunCheck, EndRound, AwaitAgain, SplitUnfilled,
                  Terminate, Stopped, vars, packetVars
    <2>2. PacketTypes'
      BY <2>1 DEF TypeInv, PacketTypes
    <2> QED BY <1>2, <1>3, <1>4, <2>2 DEF TypeInv, ThreadTypes
  <1> QED BY <1>5, <1>6

\* Steps that feed batches, and calls that wait.
LEMMA FeedSteps ==
    ASSUME TypeInv, OneCopy, FeedBatch \/ AwaitBatch \/ AbandonChunk \/ FlushDone \/ ResumeFeed
    PROVE  TypeInv' /\ \A x \in Batches : BatchMoves(x)
  <1>0. /\ ThreadTypes /\ BatchTypes /\ PacketTypes
        /\ frames \in Seq(FrameType) /\ queue \in Seq(Batches) /\ done \in Seq(Batches)
    BY DEF TypeInv, ThreadTypes, BatchTypes
  <1>1. \A x \in Batches : /\ InPool(x) \in {0, 1} /\ OnDevice(x) \in {0, 1}
                           /\ Count(queue, x) \in Nat /\ Count(done, x) \in Nat
                           /\ Waiting(x) \in Nat /\ BatchCopies(x) \in Nat
    BY CopyTypes
  <1>2. CASE FeedBatch
    <2>1. PICK b \in pool : \E slots \in Seq(Slot) :
             /\ b \in Batches
             /\ pool' = pool \ {b} /\ queue' = Append(queue, b)
             /\ batch' = [batch EXCEPT ![b] = [slots |-> slots, elem |-> Input, has |-> FALSE]]
      BY <1>2, FeedFacts
    <2>2. PICK slots \in Seq(Slot) :
             /\ b \in Batches
             /\ pool' = pool \ {b} /\ queue' = Append(queue, b)
             /\ batch' = [batch EXCEPT ![b] = [slots |-> slots, elem |-> Input, has |-> FALSE]]
      BY <2>1
    <2>3. /\ UNCHANGED <<rx, kept, done, pc, frames, brk, broken, dropQ, freed, sent, route>>
          /\ pkts # <<>> /\ pkts' = RestOfBurst
      BY <1>2 DEF FeedBatch, packetVars
    <2>4. PacketTypes'
      BY <1>0, <2>3, ChunkFacts DEF PacketTypes
    <2>5. queue' \in Seq(Batches) /\ pool' \in SUBSET Batches
      BY <1>0, <2>2, AppendProperties DEF BatchTypes
    <2>6. batch' \in [Batches -> BatchType]
      <3>1. [slots |-> slots, elem |-> Input, has |-> FALSE] \in BatchType
        BY GraphAssumption DEF BatchType
      <3> QED BY <1>0, <2>2, <3>1 DEF BatchTypes
    <2>7. ThreadTypes' /\ BatchTypes'
      BY <1>0, <2>3, <2>5, <2>6 DEF ThreadTypes, BatchTypes
    <2>8. ASSUME NEW x \in Batches PROVE BatchMoves(x)
      <3>1. Count(queue', x) = Count(queue, x) + One(b, x) /\ Count(queue', x) \in Nat
        BY <1>0, <2>2, <2>5, CountPushBack, CountType
      <3>2. InPool(x)' + One(b, x) = InPool(x) /\ InPool(x)' \in {0, 1} /\ One(b, x) \in {0, 1}
        BY <2>2 DEF InPool, One
      <3>3. OnDevice(x)' = OnDevice(x) /\ Count(done, x)' = Count(done, x) /\ Waiting(x)' = Waiting(x)
        BY <2>3 DEF OnDevice, Waiting
      <3>4. broken' = broken
        BY <2>3
      <3> QED BY <1>1, <3>1, <3>2, <3>3, <3>4, BatchReplaced
    <2> QED BY <2>4, <2>7, <2>8 DEF TypeInv
  <1>3. CASE AwaitBatch
    <2> DEFINE f == [batch |-> NoBatch, need |-> 1]
    <2>1. f \in FrameType /\ f.batch = NoBatch
      BY DEF FrameType
    <2>2. /\ UNCHANGED <<rx, pkts, pool, batch, queue, kept, done, broken, dropQ, freed, sent, route>>
          /\ frames' = <<f>> \o frames /\ brk' = FALSE /\ pc' = "round"
      BY <1>3 DEF AwaitBatch, packetVars
    <2> HIDE DEF f
    <2>3. frames' \in Seq(FrameType) /\ BatchesOf(frames') = <<NoBatch>> \o BatchesOf(frames)
      BY <1>0, <2>1, <2>2, BatchesOfPush
    <2>4. ThreadTypes' /\ BatchTypes' /\ PacketTypes'
      BY <1>0, <2>2, <2>3 DEF ThreadTypes, BatchTypes, PacketTypes
    <2>5. ASSUME NEW x \in Batches PROVE BatchMoves(x)
      <3>1. BatchesOf(frames) \in Seq(Batches \cup {NoBatch})
        BY <1>0, BatchesOfType
      <3>2. Count(<<NoBatch>> \o BatchesOf(frames), x) = Count(BatchesOf(frames), x) + One(NoBatch, x)
        BY <3>1, CountPushFront
      <3>3. One(NoBatch, x) = 0
        BY SizeAssumption DEF One
      <3>4. Waiting(x)' = Waiting(x)
        BY <1>1, <2>3, <3>2, <3>3 DEF Waiting
      <3>5. BatchCopies(x)' = BatchCopies(x)
        BY <2>2, <3>4 DEF BatchCopies, InPool, OnDevice
      <3> QED BY <1>1, <2>2, <3>5 DEF BatchMoves
    <2> QED BY <2>4, <2>5 DEF TypeInv
  <1>4. CASE AbandonChunk
    <2>1. /\ UNCHANGED <<rx, batch, queue, kept, done, pc, frames, brk, broken, dropQ, freed, sent, route>>
          /\ pkts # <<>> /\ pkts' = RestOfBurst /\ broken /\ pool' \subseteq pool
      BY <1>4 DEF AbandonChunk, packetVars
    <2>2. ThreadTypes' /\ BatchTypes' /\ PacketTypes'
      BY <1>0, <2>1, ChunkFacts DEF ThreadTypes, BatchTypes, PacketTypes
    <2>3. ASSUME NEW x \in Batches PROVE BatchMoves(x)
      <3>1. InPool(x)' <= InPool(x) /\ InPool(x)' \in {0, 1}
        BY <2>1 DEF InPool
      <3>2. OnDevice(x)' = OnDevice(x) /\ Count(queue, x)' = Count(queue, x)
            /\ Count(done, x)' = Count(done, x) /\ Waiting(x)' = Waiting(x)
        BY <2>1 DEF OnDevice, Waiting
      <3>3. BatchCopies(x)' <= BatchCopies(x) /\ BatchCopies(x)' \in Int
        BY <1>1, <3>1, <3>2 DEF BatchCopies
      <3> QED BY <2>1, <3>3 DEF BatchMoves
    <2> QED BY <2>2, <2>3 DEF TypeInv
  <1>5. CASE FlushDone
    <2>1. /\ UNCHANGED <<rx, pkts, pool, batch, kept, frames, brk, broken, dropQ, freed, sent, route>>
          /\ queue' = queue \o done /\ done' = <<>> /\ pc' = "roundEnd"
      BY <1>5 DEF FlushDone, packetVars
    <2>2. queue' \in Seq(Batches) /\ done' \in Seq(Batches)
      BY <1>0, <2>1, ConcatProperties
    <2>3. ThreadTypes' /\ BatchTypes' /\ PacketTypes'
      BY <1>0, <2>1, <2>2 DEF ThreadTypes, BatchTypes, PacketTypes
    <2>4. ASSUME NEW x \in Batches PROVE BatchMoves(x)
      <3>1. Count(queue', x) = Count(queue, x) + Count(done, x)
        BY <1>0, <2>1, CountConcat
      <3>2. Count(done', x) = 0
        BY <2>1, CountEmpty
      <3>3. InPool(x)' = InPool(x) /\ OnDevice(x)' = OnDevice(x) /\ Waiting(x)' = Waiting(x)
        BY <2>1 DEF InPool, OnDevice, Waiting
      <3>4. broken' = broken
        BY <2>1
      <3> QED BY <1>1, <3>1, <3>2, <3>3, <3>4, BatchReplaced
    <2> QED BY <2>3, <2>4 DEF TypeInv
  <1>6. CASE ResumeFeed
    <2>1. /\ UNCHANGED <<rx, pkts, pool, batch, queue, kept, done, brk, broken, dropQ, freed, sent, route>>
          /\ frames' = Tail(frames) /\ pc' = "feed" /\ Head(frames).batch = NoBatch
      BY <1>6 DEF ResumeFeed, packetVars
    <2>2. CASE frames = <<>>
      <3>1. frames' = frames
        BY <2>1, <2>2
      <3>2. ThreadTypes' /\ BatchTypes' /\ PacketTypes'
        BY <1>0, <2>1, <3>1 DEF ThreadTypes, BatchTypes, PacketTypes
      <3>3. \A x \in Batches : BatchMoves(x)
        BY <2>1, <2>2, <3>1, BatchStays
      <3> QED BY <3>2, <3>3 DEF TypeInv
    <2>3. CASE frames # <<>>
      <3>1. /\ frames' \in Seq(FrameType) /\ BatchesOf(frames) # <<>>
            /\ Head(BatchesOf(frames)) = NoBatch /\ BatchesOf(frames') = Tail(BatchesOf(frames))
            /\ BatchesOf(frames) \in Seq(Batches \cup {NoBatch})
        BY <1>0, <2>1, <2>3, BatchesOfPop, BatchesOfType
      <3>2. ThreadTypes' /\ BatchTypes' /\ PacketTypes'
        BY <1>0, <2>1, <3>1 DEF ThreadTypes, BatchTypes, PacketTypes
      <3>3. ASSUME NEW x \in Batches PROVE BatchMoves(x)
        <4>1. Count(Tail(BatchesOf(frames)), x) = Count(BatchesOf(frames), x) - One(NoBatch, x)
          BY <3>1, CountPop
        <4>2. One(NoBatch, x) = 0
          BY SizeAssumption DEF One
        <4>3. Waiting(x)' = Waiting(x)
          BY <1>1, <3>1, <4>1, <4>2 DEF Waiting
        <4>4. BatchCopies(x)' = BatchCopies(x)
          BY <2>1, <4>3 DEF BatchCopies, InPool, OnDevice
        <4> QED BY <1>1, <2>1, <4>4 DEF BatchMoves
      <3> QED BY <3>2, <3>3 DEF TypeInv
    <2> QED BY <2>2, <2>3
  <1> QED BY <1>2, <1>3, <1>4, <1>5, <1>6

\* Steps with the batch of a job.
LEMMA JobSteps ==
    ASSUME TypeInv, OneCopy,
           Offload \/ DropBatch \/ PassBatch \/ TransmitBatch \/ AwaitSplit
    PROVE  TypeInv' /\ \A x \in Batches : BatchMoves(x)
  <1>0. /\ ThreadTypes /\ BatchTypes /\ PacketTypes
        /\ frames \in Seq(FrameType) /\ queue \in Seq(Batches) /\ done \in Seq(Batches)
        /\ batch \in [Batches -> BatchType]
    BY DEF TypeInv, ThreadTypes, BatchTypes
  <1>1. \A x \in Batches : /\ InPool(x) \in {0, 1} /\ OnDevice(x) \in {0, 1}
                           /\ Count(queue, x) \in Nat /\ Count(done, x) \in Nat
                           /\ Waiting(x) \in Nat /\ BatchCopies(x) \in Nat
    BY CopyTypes
  <1>2. CASE Offload
    <2>1. PICK b : b = Head(queue)
      OBVIOUS
    <2>2. /\ UNCHANGED <<rx, pkts, pool, batch, done, pc, frames, brk, broken, dropQ, freed, sent, route>>
          /\ queue # <<>> /\ queue' = Tail(queue) /\ kept' = kept \cup {b}
      BY <1>2, <2>1 DEF Offload, packetVars
    <2>3. /\ b \in Batches /\ b \notin kept /\ queue' \in Seq(Batches)
          /\ \A x \in Batches : Count(queue', x) = Count(queue, x) - One(b, x)
      BY <2>1, <2>2, NextJob
    <2>4. ThreadTypes' /\ BatchTypes' /\ PacketTypes'
      BY <1>0, <2>2, <2>3 DEF ThreadTypes, BatchTypes, PacketTypes
    <2>5. ASSUME NEW x \in Batches PROVE BatchMoves(x)
      <3>1. Count(queue', x) = Count(queue, x) - One(b, x) /\ Count(queue', x) \in Nat
        BY <2>3, CountType
      <3>2. OnDevice(x)' = OnDevice(x) + One(b, x) /\ OnDevice(x)' \in {0, 1} /\ One(b, x) \in {0, 1}
        BY <2>2, <2>3 DEF OnDevice, One
      <3>3. InPool(x)' = InPool(x) /\ Count(done, x)' = Count(done, x) /\ Waiting(x)' = Waiting(x)
        BY <2>2 DEF InPool, Waiting
      <3>4. broken' = broken
        BY <2>2
      <3> QED BY <1>1, <3>1, <3>2, <3>3, <3>4, BatchReplaced
    <2> QED BY <2>4, <2>5 DEF TypeInv
  <1>3. CASE DropBatch \/ TransmitBatch
    <2>1. PICK b, d :
             /\ b \in Batches /\ Job(b, d) /\ pool' = pool \cup {b} /\ brk' = TRUE
             /\ batch' = [batch EXCEPT ![b] = FreshBatch]
             /\ \/ dropQ' = dropQ \cup PacketsOf(batch[b].slots) /\ sent' = sent
                \/ dropQ' = dropQ /\ sent' = sent \cup PacketsOf(Valid(Decided(b, d)))
      BY <1>3 DEF DropBatch, TransmitBatch, BreakLoops
    <2>2. UNCHANGED <<rx, pkts, kept, done, pc, frames, broken, freed>> /\ queue' = Tail(queue)
      BY <1>3 DEF DropBatch, TransmitBatch
    <2>3. /\ b \notin pool /\ queue' \in Seq(Batches)
          /\ route' \in [Packets -> Elems \cup {Out, Drop}] /\ Decided(b, d) \in Seq(Slot)
          /\ \A x \in Batches : Count(queue', x) = Count(queue, x) - One(b, x)
      BY <2>1, <2>2, JobFacts
    <2>4. PacketTypes'
      <3>1. PacketsOf(batch[b].slots) \subseteq Packets
        BY <2>1, BatchFacts DEF PacketsOf, Slot
      <3>2. PacketsOf(Valid(Decided(b, d))) \subseteq Packets
        <4>1. \A i \in 1..Len(Decided(b, d)) : Decided(b, d)[i] \in Slot
          BY <2>3, ElementOfSeq
        <4>2. \A i \in 1..Len(Decided(b, d)) : Decided(b, d)[i].pkt \in Packets
          BY <4>1 DEF Slot
        <4>3. \A p : p \in PacketsOf(Valid(Decided(b, d))) <=>
                 \E i \in 1..Len(Decided(b, d)) : Decided(b, d)[i].ok /\ Decided(b, d)[i].pkt = p
          BY <2>3, ValidFacts
        <4> QED BY <4>2, <4>3
      <3>3. dropQ' \in SUBSET Packets /\ sent' \in SUBSET Packets
        BY <1>0, <2>1, <3>1, <3>2 DEF PacketTypes
      <3> QED BY <1>0, <2>2, <2>3, <3>3 DEF PacketTypes
    <2>5. ThreadTypes' /\ BatchTypes'
      BY <1>0, <2>1, <2>2, <2>3, FreshType DEF ThreadTypes, BatchTypes
    <2>6. ASSUME NEW x \in Batches PROVE BatchMoves(x)
      <3>1. Count(queue', x) = Count(queue, x) - One(b, x) /\ Count(queue', x) \in Nat
        BY <2>3, CountType
      <3>2. InPool(x)' = InPool(x) + One(b, x) /\ InPool(x)' \in {0, 1} /\ One(b, x) \in {0, 1}
        BY <2>1, <2>3 DEF InPool, One
      <3>3. OnDevice(x)' = OnDevice(x) /\ Count(done, x)' = Count(done, x) /\ Waiting(x)' = Waiting(x)
        BY <2>2 DEF OnDevice, Waiting
      <3>4. broken' = broken
        BY <2>2
      <3> QED BY <1>1, <3>1, <3>2, <3>3, <3>4, BatchReplaced
    <2> QED BY <2>4, <2>5, <2>6 DEF TypeInv
  <1>4. CASE PassBatch
    <2>1. PICK b, d :
             /\ b \in Batches /\ Job(b, d) /\ NOutputs(b) = 1 /\ GoesOn(b)
             /\ batch' = [batch EXCEPT ![b] = [slots |-> Decided(b, d),
                             elem |-> Next_elems[batch[b].elem][1], has |-> FALSE]]
             /\ queue' = Append(Tail(queue), b)
      BY <1>4 DEF PassBatch
    <2>2. UNCHANGED <<rx, pkts, pool, kept, done, pc, frames, brk, broken, dropQ, freed, sent>>
      BY <1>4 DEF PassBatch
    <2>3. PICK q : q = Tail(queue)
      OBVIOUS
    <2>4. /\ q \in Seq(Batches) /\ route' \in [Packets -> Elems \cup {Out, Drop}]
          /\ Decided(b, d) \in Seq(Slot)
          /\ \A x \in Batches : Count(q, x) = Count(queue, x) - One(b, x)
      BY <2>1, <2>3, JobFacts
    <2>5. queue' \in Seq(Batches) /\ queue' = Append(q, b)
      BY <2>1, <2>3, <2>4, AppendProperties
    <2>6. Next_elems[batch[b].elem][1] \in Elems
      BY <2>1, BatchFacts, OutputFacts DEF NOutputs, GoesOn
    <2>7. batch' \in [Batches -> BatchType]
      <3>1. [slots |-> Decided(b, d), elem |-> Next_elems[batch[b].elem][1], has |-> FALSE] \in BatchType
        BY <2>4, <2>6 DEF BatchType
      <3> QED BY <1>0, <2>1, <3>1
    <2>8. ThreadTypes' /\ BatchTypes' /\ PacketTypes'
      BY <1>0, <2>2, <2>4, <2>5, <2>7 DEF ThreadTypes, BatchTypes, PacketTypes
    <2>9. ASSUME NEW x \in Batches PROVE BatchMoves(x)
      <3>1. Count(queue', x) = Count(q, x) + One(b, x) /\ Count(q, x) \in Nat
        BY <2>4, <2>5, CountPushBack, CountType
      <3>2. Count(q, x) = Count(queue, x) - One(b, x) /\ One(b, x) \in {0, 1}
        BY <2>4, OneType
      <3>3. InPool(x)' = InPool(x) /\ OnDevice(x)' = OnDevice(x)
            /\ Count(done, x)' = Count(done, x) /\ Waiting(x)' = Waiting(x)
        BY <2>2 DEF InPool, OnDevice, Waiting
      <3>4. broken' = broken
        BY <2>2
      <3> QED BY <1>1, <3>1, <3>2, <3>3, <3>4, BatchReplaced
    <2> QED BY <2>8, <2>9 DEF TypeInv
  <1>5. CASE AwaitSplit
    <2>1. PICK b, d :
             /\ b \in Batches /\ Job(b, d)
             /\ batch' = [batch EXCEPT ![b].slots = Decided(b, d), ![b].has = TRUE]
             /\ frames' = <<[batch |-> b, need |-> NOutputs(b)]>> \o frames
      BY <1>5 DEF AwaitSplit
    <2>2. /\ UNCHANGED <<rx, pkts, pool, kept, done, broken, dropQ, freed, sent>>
          /\ queue' = Tail(queue) /\ brk' = FALSE /\ pc' = "round"
      BY <1>5 DEF AwaitSplit
    <2>3. /\ queue' \in Seq(Batches) /\ route' \in [Packets -> Elems \cup {Out, Drop}]
          /\ Decided(b, d) \in Seq(Slot) /\ NOutputs(b) \in Nat
          /\ \A x \in Batches : Count(queue', x) = Count(queue, x) - One(b, x)
      BY <2>1, <2>2, JobFacts
    <2>4. PICK f : f = [batch |-> b, need |-> NOutputs(b)]
      OBVIOUS
    <2>5. f \in FrameType /\ f.batch = b /\ frames' = <<f>> \o frames
      BY <2>1, <2>3, <2>4 DEF FrameType
    <2>6. frames' \in Seq(FrameType) /\ BatchesOf(frames') = <<b>> \o BatchesOf(frames)
      BY <1>0, <2>5, BatchesOfPush
    <2>7. batch' \in [Batches -> BatchType]
      <3>1. [batch[b] EXCEPT !.slots = Decided(b, d), !.has = TRUE] \in BatchType
        BY <2>1, <2>3, BatchFacts DEF BatchType
      <3> QED BY <1>0, <2>1, <3>1
    <2>8. ThreadTypes' /\ BatchTypes' /\ PacketTypes'
      BY <1>0, <2>2, <2>3, <2>6, <2>7 DEF ThreadTypes, BatchTypes, PacketTypes
    <2>9. ASSUME NEW x \in Batches PROVE BatchMoves(x)
      <3>1. BatchesOf(frames) \in Seq(Batches \cup {NoBatch})
        BY <1>0, BatchesOfType
      <3>2. Count(<<b>> \o BatchesOf(frames), x) = Count(BatchesOf(frames), x) + One(b, x)
        BY <2>1, <3>1, CountPushFront
      <3>3. Waiting(x)' = Waiting(x) + One(b, x)
        BY <2>6, <3>2 DEF Waiting
      <3>4. Count(queue', x) = Count(queue, x) - One(b, x) /\ One(b, x) \in {0, 1}
        BY <2>3, OneType
      <3>5. InPool(x)' = InPool(x) /\ OnDevice(x)' = OnDevice(x) /\ Count(done, x)' = Count(done, x)
        BY <2>2 DEF InPool, OnDevice
      <3>6. broken' = broken
        BY <2>2
      <3> QED BY <1>1, <3>3, <3>4, <3>5, <3>6, BatchReplaced
    <2> QED BY <2>8, <2>9 DEF TypeInv
  <1> QED BY <1>2, <1>3, <1>4, <1>5

\* The calls that wait: only the outermost one waits for an input batch, the
\* others have a batch with its results and wait for one batch per output.
FrameInv ==
    /\ pc \in {"recv", "feed"} => frames = <<>>
    /\ pc = "resume" => frames # <<>>
    /\ \A i \in 1..Len(frames) :
         /\ frames[i].batch = NoBatch => i = Len(frames)
         /\ frames[i].batch # NoBatch =>
               /\ batch[frames[i].batch].has
               /\ frames[i].need = NOutputs(frames[i].batch)

LEMMA ResumeFacts ==
    ASSUME TypeInv, OneCopy, FrameInv, ResumeSplit
    PROVE  \E b \in Batches : \E slots \in Seq(Slot) : \E outs, jobs :
             /\ frames # <<>> /\ b = Head(frames).batch /\ slots = batch[b].slots /\ batch[b].has
             /\ b \notin pool /\ b \notin kept /\ Count(queue, b) = 0 /\ NOutputs(b) \in Nat
             /\ SplitStep(b, slots, queue, outs, jobs)
             /\ frames' \in Seq(FrameType)
             /\ \A x \in Batches : Waiting(x)' = Waiting(x) - One(b, x)
  <1>1. /\ Head(frames).batch # NoBatch /\ Cardinality(pool) >= Head(frames).need
        /\ SplitInto(Head(frames).batch, batch[Head(frames).batch].slots, queue)
        /\ frames' = Tail(frames) /\ pc = "resume"
    BY DEF ResumeSplit
  <1>2. frames \in Seq(FrameType) /\ frames # <<>>
    BY <1>1 DEF TypeInv, ThreadTypes, FrameInv
  <1>3. /\ Tail(frames) \in Seq(FrameType) /\ Head(frames) \in FrameType
        /\ Len(frames) \in Nat \ {0} /\ Head(frames) = frames[1]
    BY <1>2, BatchesOfPop
  <1>4. PICK b : b = Head(frames).batch
    OBVIOUS
  <1>5. b \in Batches /\ b # NoBatch /\ frames[1].batch = b
    BY <1>1, <1>3, <1>4 DEF FrameType
  <1>6. 1 \in 1..Len(frames)
    BY <1>3
  <1>7. batch[b].has /\ Head(frames).need = NOutputs(b)
    BY <1>3, <1>5, <1>6 DEF FrameInv
  <1>8. /\ b \notin pool /\ b \notin kept /\ Count(queue, b) = 0
        /\ \A x \in Batches : Count(BatchesOf(Tail(frames)), x) = Waiting(x) - One(b, x)
    BY <1>2, <1>4, <1>5, NextFrame
  <1>9. PICK slots \in Seq(Slot) : slots = batch[b].slots
    BY <1>5, BatchFacts
  <1>10. NOutputs(b) \in Nat
    BY <1>5, BatchFacts, OutputFacts DEF NOutputs
  <1>11. SplitInto(b, slots, queue) /\ Cardinality(pool) >= NOutputs(b)
    BY <1>1, <1>4, <1>7, <1>9
  <1>12. PICK outs, jobs : SplitStep(b, slots, queue, outs, jobs)
    BY <1>5, <1>8, <1>10, <1>11, SplitFacts
  <1>13. \A x \in Batches : Waiting(x)' = Waiting(x) - One(b, x)
    BY <1>1, <1>8 DEF Waiting
  <1> QED BY <1>1, <1>2, <1>3, <1>4, <1>5, <1>7, <1>8, <1>9, <1>10, <1>12, <1>13

LEMMA SplitSteps ==
    ASSUME TypeInv, OneCopy, FrameInv, SplitBatch \/ ResumeSplit \/ Complete
    PROVE  TypeInv' /\ \A x \in Batches : BatchMoves(x)
  <1>0. /\ ThreadTypes /\ BatchTypes /\ PacketTypes
        /\ frames \in Seq(FrameType) /\ queue \in Seq(Batches) /\ done \in Seq(Batches)
        /\ batch \in [Batches -> BatchType]
    BY DEF TypeInv, ThreadTypes, BatchTypes
  <1>1. \A x \in Batches : /\ InPool(x) \in {0, 1} /\ OnDevice(x) \in {0, 1}
                           /\ Count(queue, x) \in Nat /\ Count(done, x) \in Nat
                           /\ Waiting(x) \in Nat /\ BatchCopies(x) \in Nat
    BY CopyTypes
  <1>2. CASE SplitBatch
    <2>1. PICK b, d : /\ b \in Batches /\ Job(b, d) /\ Cardinality(pool) >= NOutputs(b)
                      /\ SplitInto(b, Decided(b, d), Tail(queue))
      BY <1>2 DEF SplitBatch
    <2>2. UNCHANGED <<rx, pkts, kept, done, pc, frames, broken, freed>>
      BY <1>2 DEF SplitBatch
    <2>3. PICK slots, rest : slots = Decided(b, d) /\ rest = Tail(queue)
      OBVIOUS
    <2>4. /\ b \notin pool /\ rest \in Seq(Batches) /\ slots \in Seq(Slot)
          /\ route' \in [Packets -> Elems \cup {Out, Drop}] /\ NOutputs(b) \in Nat
          /\ \A x \in Batches : Count(rest, x) = Count(queue, x) - One(b, x)
      BY <2>1, <2>3, JobFacts
    <2>5. SplitInto(b, slots, rest)
      BY <2>1, <2>3
    <2>6. PICK outs, jobs : SplitStep(b, slots, rest, outs, jobs)
      BY <2>1, <2>4, <2>5, SplitFacts
    <2>7. /\ pool' \in SUBSET Batches /\ queue' \in Seq(Batches)
          /\ sent' \in SUBSET Packets /\ dropQ' \in SUBSET Packets
          /\ batch' \in [Batches -> BatchType] /\ brk' \in BOOLEAN
          /\ \A x \in Batches : InPool(x)' + Count(queue', x)
                                   = InPool(x) + Count(rest, x) + One(b, x)
      BY <2>1, <2>4, <2>6, SplitMoves
    <2>8. ThreadTypes' /\ BatchTypes' /\ PacketTypes'
      BY <1>0, <2>2, <2>4, <2>7 DEF ThreadTypes, BatchTypes, PacketTypes
    <2>9. ASSUME NEW x \in Batches PROVE BatchMoves(x)
      <3>1. /\ InPool(x)' + Count(queue', x) = InPool(x) + Count(rest, x) + One(b, x)
            /\ Count(rest, x) = Count(queue, x) - One(b, x) /\ One(b, x) \in {0, 1}
        BY <2>4, <2>7, OneType
      <3>2. Count(queue', x) \in Nat /\ InPool(x)' \in {0, 1}
        BY <2>7, CountType DEF InPool
      <3>3. OnDevice(x)' = OnDevice(x) /\ Count(done, x)' = Count(done, x) /\ Waiting(x)' = Waiting(x)
        BY <2>2 DEF OnDevice, Waiting
      <3>4. broken' = broken
        BY <2>2
      <3> QED BY <1>1, <3>1, <3>2, <3>3, <3>4, BatchReplaced
    <2> QED BY <2>8, <2>9 DEF TypeInv
  <1>3. CASE ResumeSplit
    <2>1. PICK b, slots, outs, jobs :
             /\ b \in Batches /\ slots \in Seq(Slot)
             /\ b \notin pool /\ NOutputs(b) \in Nat
             /\ SplitStep(b, slots, queue, outs, jobs)
             /\ frames' \in Seq(FrameType)
             /\ \A x \in Batches : Waiting(x)' = Waiting(x) - One(b, x)
      BY <1>3, ResumeFacts
    <2>2. UNCHANGED <<rx, pkts, kept, done, broken, freed, route>> /\ pc' = "flush"
      BY <1>3 DEF ResumeSplit
    <2>3. /\ pool' \in SUBSET Batches /\ queue' \in Seq(Batches)
          /\ sent' \in SUBSET Packets /\ dropQ' \in SUBSET Packets
          /\ batch' \in [Batches -> BatchType] /\ brk' \in BOOLEAN
          /\ \A x \in Batches : InPool(x)' + Count(queue', x)
                                   = InPool(x) + Count(queue, x) + One(b, x)
      BY <1>0, <2>1, SplitMoves
    <2>4. ThreadTypes' /\ BatchTypes' /\ PacketTypes'
      BY <1>0, <2>1, <2>2, <2>3 DEF ThreadTypes, BatchTypes, PacketTypes
    <2>5. ASSUME NEW x \in Batches PROVE BatchMoves(x)
      <3>1. /\ InPool(x)' + Count(queue', x) = InPool(x) + Count(queue, x) + One(b, x)
            /\ Waiting(x)' = Waiting(x) - One(b, x) /\ One(b, x) \in {0, 1}
        BY <2>1, <2>3, OneType
      <3>2. Count(queue', x) \in Nat /\ InPool(x)' \in {0, 1}
        BY <2>3, CountType DEF InPool
      <3>3. OnDevice(x)' = OnDevice(x) /\ Count(done, x)' = Count(done, x)
        BY <2>2 DEF OnDevice
      <3>4. broken' = broken
        BY <2>2
      <3> QED BY <1>1, <3>1, <3>2, <3>3, <3>4, BatchReplaced
    <2> QED BY <2>4, <2>5 DEF TypeInv
  <1>4. CASE Complete
    <2>1. PICK b, d : /\ b \in kept /\ d \in Decisions(b) /\ route' = RouteAfter(b, d)
                      /\ batch' = [batch EXCEPT ![b].slots = Decided(b, d), ![b].has = TRUE]
                      /\ kept' = kept \ {b} /\ done' = Append(done, b)
      BY <1>4 DEF Complete
    <2>2. UNCHANGED <<rx, pkts, pool, queue, pc, frames, brk, broken, dropQ, freed, sent>>
      BY <1>4 DEF Complete
    <2>3. b \in Batches /\ kept' \in SUBSET Batches
      BY <1>0, <2>1 DEF BatchTypes
    <2>4. route' \in [Packets -> Elems \cup {Out, Drop}] /\ Decided(b, d) \in Seq(Slot)
      BY <2>1, <2>3, RouteType, DecidedFacts
    <2>5. batch' \in [Batches -> BatchType]
      <3>1. [batch[b] EXCEPT !.slots = Decided(b, d), !.has = TRUE] \in BatchType
        BY <2>3, <2>4, BatchFacts DEF BatchType
      <3> QED BY <1>0, <2>1, <2>3, <3>1
    <2>6. done' \in Seq(Batches)
      BY <1>0, <2>1, <2>3, AppendProperties
    <2>7. ThreadTypes' /\ BatchTypes' /\ PacketTypes'
      BY <1>0, <2>2, <2>3, <2>4, <2>5, <2>6 DEF ThreadTypes, BatchTypes, PacketTypes
    <2>8. ASSUME NEW x \in Batches PROVE BatchMoves(x)
      <3>1. Count(done', x) = Count(done, x) + One(b, x) /\ Count(done', x) \in Nat
        BY <1>0, <2>1, <2>3, <2>6, CountPushBack, CountType
      <3>2. OnDevice(x)' + One(b, x) = OnDevice(x) /\ OnDevice(x)' \in {0, 1} /\ One(b, x) \in {0, 1}
        BY <2>1 DEF OnDevice, One
      <3>3. InPool(x)' = InPool(x) /\ Count(queue, x)' = Count(queue, x) /\ Waiting(x)' = Waiting(x)
        BY <2>2 DEF InPool, Waiting
      <3>4. broken' = broken
        BY <2>2
      <3> QED BY <1>1, <3>1, <3>2, <3>3, <3>4, BatchReplaced
    <2> QED BY <2>7, <2>8 DEF TypeInv
  <1> QED BY <1>2, <1>3, <1>4

-----------------------------------------------------------------------------
(* Calls that wait                                                          *)

LEMMA WaiterCounts ==
    ASSUME TypeInv, NEW i \in 1..Len(frames), NEW b \in Batches, frames[i].batch = b
    PROVE  Waiting(b) # 0
  <1>1. /\ BatchesOf(frames) \in Seq(Batches \cup {NoBatch})
        /\ Len(BatchesOf(frames)) = Len(frames) /\ BatchesOf(frames)[i] = b
    BY BatchesOfType DEF TypeInv, ThreadTypes
  <1> QED BY <1>1, CountPositive DEF Waiting

LEMMA SplitKeeps ==
    ASSUME TypeInv, OneCopy, NEW b \in Batches, NEW slots, NEW rest, NEW outs, NEW jobs,
           SplitStep(b, slots, rest, outs, jobs), NEW c \in Batches, c # b, c \notin pool
    PROVE  batch'[c] = batch[c]
  <1>1. /\ outs \in [1..NOutputs(b) -> pool] /\ jobs \in Seq(1..NOutputs(b))
        /\ c # b /\ (\A j \in 1..Len(jobs) : outs[jobs[j]] # c) => batch'[c] = batch[c]
    BY DEF SplitStep
  <1>2. \A j \in 1..Len(jobs) : jobs[j] \in 1..NOutputs(b)
    BY <1>1, ElementOfSeq
  <1>3. \A j \in 1..Len(jobs) : outs[jobs[j]] # c
    BY <1>1, <1>2
  <1> QED BY <1>1, <1>3

\* While a call waits nothing happens to its batch.
LEMMA WaitersKept ==
    ASSUME TypeInv, OneCopy, FrameInv, Next, NEW c \in Batches, Waiting(c) # 0, Waiting(c)' # 0
    PROVE  batch'[c] = batch[c]
  <1>1. c \notin pool /\ c \notin kept /\ Count(queue, c) = 0
    BY OnePlace
  <1>2. CASE UNCHANGED batch
    BY <1>2
  <1>3. CASE FeedBatch
    <2>1. PICK b \in pool : \E slots \in Seq(Slot) :
             batch' = [batch EXCEPT ![b] = [slots |-> slots, elem |-> Input, has |-> FALSE]]
      BY <1>3, FeedFacts
    <2> QED BY <1>1, <2>1 DEF TypeInv, BatchTypes
  <1>4. CASE DropBatch \/ TransmitBatch \/ PassBatch \/ AwaitSplit
    <2>1. PICK b, d : b \in Batches /\ Job(b, d) /\ (c # b => batch'[c] = batch[c])
      <3>1. batch \in [Batches -> BatchType]
        BY DEF TypeInv, BatchTypes
      <3>2. CASE DropBatch \/ TransmitBatch
        BY <3>1, <3>2 DEF DropBatch, TransmitBatch
      <3>3. CASE PassBatch
        BY <3>1, <3>3 DEF PassBatch
      <3>4. CASE AwaitSplit
        BY <3>1, <3>4 DEF AwaitSplit
      <3> QED BY <1>4, <3>2, <3>3, <3>4
    <2>2. Waiting(b) = 0
      BY <2>1, JobFacts
    <2> QED BY <2>1, <2>2
  <1>5. CASE SplitBatch
    <2>1. PICK b, d : /\ b \in Batches /\ Job(b, d) /\ Cardinality(pool) >= NOutputs(b)
                      /\ SplitInto(b, Decided(b, d), Tail(queue))
      BY <1>5 DEF SplitBatch
    <2>2. PICK slots, rest : slots = Decided(b, d) /\ rest = Tail(queue)
      OBVIOUS
    <2>3. b \notin pool /\ slots \in Seq(Slot) /\ NOutputs(b) \in Nat /\ Waiting(b) = 0
      BY <2>1, <2>2, JobFacts
    <2>4. SplitInto(b, slots, rest)
      BY <2>1, <2>2
    <2>5. PICK outs, jobs : SplitStep(b, slots, rest, outs, jobs)
      BY <2>1, <2>3, <2>4, SplitFacts
    <2> QED BY <1>1, <2>1, <2>3, <2>5, SplitKeeps
  <1>6. CASE ResumeSplit
    <2>1. PICK b, slots, outs, jobs :
             /\ b \in Batches /\ SplitStep(b, slots, queue, outs, jobs)
             /\ \A x \in Batches : Waiting(x)' = Waiting(x) - One(b, x)
      BY <1>6, ResumeFacts
    <2>2. c # b
      <3>1. Waiting(c) <= 1 /\ Waiting(c) \in Nat
        <4>1. /\ InPool(c) \in {0, 1} /\ OnDevice(c) \in {0, 1}
              /\ Count(queue, c) \in Nat /\ Count(done, c) \in Nat /\ Waiting(c) \in Nat
          BY CopyTypes
        <4>2. InPool(c) + OnDevice(c) + Count(queue, c) + Count(done, c) + Waiting(c) <= 1
          BY DEF OneCopy, BatchCopies
        <4> QED BY <4>1, <4>2
      <3>2. One(c, c) = 1
        BY DEF One
      <3> QED BY <2>1, <3>1, <3>2
    <2> QED BY <1>1, <2>1, <2>2, SplitKeeps
  <1>7. CASE Complete
    <2>1. PICK b, d : b \in kept /\ batch' = [batch EXCEPT ![b].slots = Decided(b, d), ![b].has = TRUE]
      BY <1>7 DEF Complete
    <2> QED BY <1>1, <2>1 DEF TypeInv, BatchTypes
  <1> QED
    BY <1>2, <1>3, <1>4, <1>5, <1>6, <1>7
    DEF Next, Thread, Receive, AwaitBatch, AbandonChunk, RunLoop, StopLoop, Offload, FlushDone,
        RunCheck, EndRound, ResumeFeed, AwaitAgain, SplitUnfilled, Terminate, Stopped, vars

\* The frames that stay.
LEMMA FramesKept ==
    ASSUME TypeInv, TypeInv', OneCopy, FrameInv, Next,
           NEW i \in 1..Len(frames), NEW k \in 1..Len(frames'), frames'[k] = frames[i],
           frames[i].batch # NoBatch
    PROVE  /\ batch'[frames'[k].batch].has
           /\ frames'[k].need = Len(Next_elems[batch'[frames'[k].batch].elem])
  <1>1. PICK b : b = frames[i].batch
    OBVIOUS
  <1>2. b \in Batches
    BY <1>1, BatchesOfType DEF TypeInv, ThreadTypes, FrameType
  <1>3. Waiting(b) # 0
    BY <1>1, <1>2, WaiterCounts
  <1>4. Waiting(b)' # 0
    <2>1. /\ BatchesOf(frames') \in Seq(Batches \cup {NoBatch})
          /\ Len(BatchesOf(frames')) = Len(frames') /\ BatchesOf(frames')[k] = b
      BY <1>1, BatchesOfType DEF TypeInv, ThreadTypes
    <2>2. Count(BatchesOf(frames'), b) # 0
      BY <2>1, CountPositive
    <2> QED BY <2>2 DEF Waiting
  <1>5. batch'[b] = batch[b]
    BY <1>2, <1>3, <1>4, WaitersKept
  <1>6. batch[b].has /\ frames[i].need = Len(Next_elems[batch[b].elem])
    BY <1>1 DEF FrameInv, NOutputs
  <1> QED BY <1>1, <1>5, <1>6

LEMMA FrameNext ==
    ASSUME TypeInv, TypeInv', OneCopy, FrameInv, Next
    PROVE  FrameInv'
  <1>0. frames \in Seq(FrameType) /\ Len(frames) \in Nat
    BY LenProperties DEF TypeInv, ThreadTypes
  <1>1. CASE UNCHANGED frames /\ ~(AwaitBatch \/ AwaitSplit \/ ResumeFeed \/ ResumeSplit)
    <2>1. pc' \in {"recv", "feed"} => frames' = <<>>
      <3>1. pc' \in {"recv", "feed"} => pc \in {"recv", "feed"} \/ frames = <<>>
        BY <1>1
        DEF Next, Thread, Receive, FeedBatch, AbandonChunk, RunLoop, StopLoop, Offload,
            DropBatch, PassBatch, TransmitBatch, SplitBatch, FlushDone, RunCheck, EndRound,
            AwaitAgain, SplitUnfilled, Complete, Terminate, Stopped, vars
      <3> QED BY <1>1, <3>1 DEF FrameInv
    <2>2. pc' = "resume" => frames' # <<>>
      <3>1. pc' = "resume" => pc = "resume" \/ frames # <<>>
        BY <1>1
        DEF Next, Thread, Receive, FeedBatch, AbandonChunk, RunLoop, StopLoop, Offload,
            DropBatch, PassBatch, TransmitBatch, SplitBatch, FlushDone, RunCheck, EndRound,
            AwaitAgain, SplitUnfilled, Complete, Terminate, Stopped, vars
      <3> QED BY <1>1, <3>1 DEF FrameInv
    <2>3. ASSUME NEW i \in 1..Len(frames')
          PROVE  /\ frames'[i].batch = NoBatch => i = Len(frames')
                 /\ frames'[i].batch # NoBatch =>
                       /\ batch'[frames'[i].batch].has
                       /\ frames'[i].need = Len(Next_elems[batch'[frames'[i].batch].elem])
      <3>1. i \in 1..Len(frames) /\ frames'[i] = frames[i]
        BY <1>1
      <3>2. CASE frames[i].batch = NoBatch
        BY <1>1, <3>1, <3>2 DEF FrameInv
      <3>3. CASE frames[i].batch # NoBatch
        <4>1. /\ batch'[frames'[i].batch].has
              /\ frames'[i].need = Len(Next_elems[batch'[frames'[i].batch].elem])
          BY <3>1, <3>3, FramesKept
        <4> QED BY <3>1, <3>3, <4>1
      <3> QED BY <3>2, <3>3
    <2> QED BY <2>1, <2>2, <2>3 DEF FrameInv, NOutputs
  <1>2. CASE AwaitBatch
    <2>1. frames = <<>> /\ pc' = "round" /\ frames' = <<[batch |-> NoBatch, need |-> 1]>> \o frames
      BY <1>2 DEF AwaitBatch, FrameInv
    <2>2. frames' = <<[batch |-> NoBatch, need |-> 1]>>
      BY <2>1
    <2>3. Len(frames') = 1 /\ frames'[1].batch = NoBatch
      BY <2>2
    <2>4. \A i \in 1..Len(frames') : i = 1
      BY <2>3
    <2> QED BY <2>1, <2>3, <2>4 DEF FrameInv
  <1>3. CASE AwaitSplit
    <2>1. PICK b, d : /\ b \in Batches /\ Job(b, d)
                      /\ batch' = [batch EXCEPT ![b].slots = Decided(b, d), ![b].has = TRUE]
                      /\ frames' = <<[batch |-> b, need |-> NOutputs(b)]>> \o frames
      BY <1>3 DEF AwaitSplit
    <2>2. PICK f : f = [batch |-> b, need |-> NOutputs(b)]
      OBVIOUS
    <2>3. f \in FrameType /\ frames' = <<f>> \o frames
      BY <2>1, <2>2, JobFacts DEF FrameType
    <2>4. /\ Len(frames') = 1 + Len(frames)
          /\ \A i \in 1..1 + Len(frames) : frames'[i] = IF i = 1 THEN f ELSE frames[i - 1]
      BY <1>0, <2>3, BatchesOfPush
    <2>5. pc' = "round"
      BY <1>3 DEF AwaitSplit
    <2>6. /\ b # NoBatch /\ f.batch = b /\ batch'[b].has
          /\ f.need = Len(Next_elems[batch'[b].elem])
      <3>1. batch'[b] = [batch[b] EXCEPT !.slots = Decided(b, d), !.has = TRUE]
        BY <2>1 DEF TypeInv, BatchTypes
      <3>2. batch'[b].has /\ batch'[b].elem = batch[b].elem
        BY <2>1, <3>1, BatchFacts DEF BatchType
      <3> QED BY <2>1, <2>2, <3>2, SizeAssumption DEF NOutputs
    <2>7. ASSUME NEW i \in 1..Len(frames')
          PROVE  /\ frames'[i].batch = NoBatch => i = Len(frames')
                 /\ frames'[i].batch # NoBatch =>
                       /\ batch'[frames'[i].batch].has
                       /\ frames'[i].need = Len(Next_elems[batch'[frames'[i].batch].elem])
      <3>1. CASE i = 1
        <4>1. frames'[i] = f
          BY <2>4, <3>1
        <4> QED BY <2>6, <4>1
      <3>2. CASE i # 1
        <4>1. i - 1 \in 1..Len(frames) /\ frames'[i] = frames[i - 1]
          BY <1>0, <2>4, <3>2
        <4>2. CASE frames[i - 1].batch = NoBatch
          <5>1. i - 1 = Len(frames)
            BY <4>1, <4>2 DEF FrameInv
          <5> QED BY <1>0, <2>4, <4>1, <4>2, <5>1
        <4>3. CASE frames[i - 1].batch # NoBatch
          <5>1. PICK j \in 1..Len(frames) : frames'[i] = frames[j] /\ frames[j].batch # NoBatch
            BY <4>1, <4>3
          <5>2. /\ batch'[frames'[i].batch].has
                /\ frames'[i].need = Len(Next_elems[batch'[frames'[i].batch].elem])
            BY <5>1, FramesKept
          <5> QED BY <5>1, <5>2
        <4> QED BY <4>2, <4>3
      <3> QED BY <3>1, <3>2
    <2> QED BY <2>5, <2>7 DEF FrameInv, NOutputs
  <1>4. CASE ResumeFeed \/ ResumeSplit
    <2>1. frames' = Tail(frames) /\ frames # <<>>
      BY <1>4 DEF ResumeFeed, ResumeSplit, FrameInv
    <2>2. /\ Len(frames) \in Nat \ {0} /\ Head(frames) = frames[1] /\ Len(frames') = Len(frames) - 1
          /\ \A i \in 1..Len(frames) - 1 : frames'[i] = frames[i + 1]
          /\ frames' \in Seq(FrameType)
      BY <1>0, <2>1, BatchesOfPop
    <2>3. pc' \in {"feed", "flush"} /\ (pc' = "feed" => frames' = <<>>)
      <3>1. CASE ResumeFeed
        <4>1. frames[1].batch = NoBatch /\ 1 \in 1..Len(frames)
          BY <2>2, <3>1 DEF ResumeFeed
        <4>2. Len(frames) = 1
          BY <4>1 DEF FrameInv
        <4>3. Len(frames') = 0
          BY <2>2, <4>2
        <4>4. frames' = <<>>
          BY <2>2, <4>3, EmptySeq
        <4> QED BY <3>1, <4>4 DEF ResumeFeed
      <3>2. CASE ResumeSplit
        BY <3>2 DEF ResumeSplit
      <3> QED BY <1>4, <3>1, <3>2
    <2>4. ASSUME NEW i \in 1..Len(frames')
          PROVE  /\ frames'[i].batch = NoBatch => i = Len(frames')
                 /\ frames'[i].batch # NoBatch =>
                       /\ batch'[frames'[i].batch].has
                       /\ frames'[i].need = Len(Next_elems[batch'[frames'[i].batch].elem])
      <3>1. PICK j : j = i + 1
        OBVIOUS
      <3>2. j \in 1..Len(frames) /\ frames'[i] = frames[j]
        BY <2>2, <3>1
      <3>3. CASE frames[j].batch = NoBatch
        <4>1. j = Len(frames)
          BY <3>2, <3>3 DEF FrameInv
        <4> QED BY <2>2, <3>1, <3>2, <3>3, <4>1
      <3>4. CASE frames[j].batch # NoBatch
        <4>1. /\ batch'[frames'[i].batch].has
              /\ frames'[i].need = Len(Next_elems[batch'[frames'[i].batch].elem])
          BY <3>2, <3>4, FramesKept
        <4> QED BY <3>2, <3>4, <4>1
      <3> QED BY <3>3, <3>4
    <2> QED BY <2>3, <2>4 DEF FrameInv, NOutputs
  <1>5. UNCHANGED frames \/ AwaitBatch \/ AwaitSplit \/ ResumeFeed \/ ResumeSplit
    BY DEF Next, Thread, Receive, FeedBatch, AbandonChunk, RunLoop, StopLoop, Offload,
           DropBatch, PassBatch, TransmitBatch, SplitBatch, FlushDone, RunCheck, EndRound,
           AwaitAgain, SplitUnfilled, Complete, Terminate, Stopped, vars
  <1> QED BY <1>1, <1>2, <1>3, <1>4, <1>5

\* A call whose batches are free is woken at the end of the round.
WakeInv ==
    pc \in {"flush", "round", "roundEnd"} /\ frames # <<>>
      /\ Cardinality(pool) >= Head(frames).need => brk

LEMMA WakeNext ==
    ASSUME TypeInv, OneCopy, FrameInv, WakeInv, Next
    PROVE  WakeInv'
  <1>0. frames \in Seq(FrameType) /\ Cardinality(pool) \in Nat
    <2>1. IsFiniteSet(pool)
      BY SizeAssumption, FS_Subset DEF TypeInv, BatchTypes
    <2> QED BY <2>1, FS_CardinalityType DEF TypeInv, ThreadTypes
  <1>1. CASE DropBatch \/ TransmitBatch \/ Terminate
    <2>1. brk'
      BY <1>1 DEF DropBatch, TransmitBatch, Terminate, BreakLoops
    <2> QED BY <2>1 DEF WakeInv
  <1>2. CASE SplitBatch \/ ResumeSplit
    <2>1. brk'
      <3>1. CASE SplitBatch
        <4>1. PICK b, d : /\ b \in Batches /\ Job(b, d) /\ Cardinality(pool) >= NOutputs(b)
                          /\ SplitInto(b, Decided(b, d), Tail(queue))
          BY <3>1 DEF SplitBatch
        <4>2. PICK slots, rest : slots = Decided(b, d) /\ rest = Tail(queue)
          OBVIOUS
        <4>3. b \notin pool /\ slots \in Seq(Slot) /\ NOutputs(b) \in Nat
          BY <4>1, <4>2, JobFacts
        <4>4. SplitInto(b, slots, rest)
          BY <4>1, <4>2
        <4>5. PICK outs, jobs : SplitStep(b, slots, rest, outs, jobs)
          BY <4>1, <4>3, <4>4, SplitFacts
        <4> QED BY <4>5 DEF SplitStep
      <3>2. CASE ResumeSplit
        <4>1. PICK b, slots, outs, jobs : SplitStep(b, slots, queue, outs, jobs)
          BY <3>2, ResumeFacts
        <4> QED BY <4>1 DEF SplitStep
      <3> QED BY <1>2, <3>1, <3>2
    <2> QED BY <2>1 DEF WakeInv
  <1>3. CASE AwaitBatch
    <2>1. PICK f : f = [batch |-> NoBatch, need |-> 1]
      OBVIOUS
    <2>2. /\ f \in FrameType /\ f.need = 1 /\ frames' = <<f>> \o frames
          /\ pool' = pool /\ pool = {}
      BY <1>3, <2>1 DEF AwaitBatch, FrameType
    <2>3. Head(frames') = f
      <3>1. /\ frames' \in Seq(FrameType) /\ Len(frames) \in Nat /\ Len(frames') = 1 + Len(frames)
            /\ \A i \in 1..1 + Len(frames) : frames'[i] = IF i = 1 THEN f ELSE frames[i - 1]
        BY <1>0, <2>2, BatchesOfPush, LenProperties
      <3>2. frames' # <<>> /\ 1 \in 1..1 + Len(frames)
        BY <3>1, EmptySeq
      <3> QED BY <3>1, <3>2, BatchesOfPop
    <2>4. Cardinality(pool') = 0
      BY <2>2, FS_EmptySet
    <2> QED BY <2>2, <2>3, <2>4 DEF WakeInv
  <1>4. CASE AwaitSplit
    <2>1. PICK b, d : /\ b \in Batches /\ Job(b, d) /\ Cardinality(pool) < NOutputs(b)
                      /\ frames' = <<[batch |-> b, need |-> NOutputs(b)]>> \o frames
      BY <1>4 DEF AwaitSplit
    <2>2. PICK f : f = [batch |-> b, need |-> NOutputs(b)]
      OBVIOUS
    <2>3. /\ f \in FrameType /\ f.need = NOutputs(b) /\ frames' = <<f>> \o frames
          /\ pool' = pool /\ NOutputs(b) \in Nat
      BY <1>4, <2>1, <2>2, JobFacts DEF AwaitSplit, FrameType
    <2>4. Head(frames') = f
      <3>1. /\ frames' \in Seq(FrameType) /\ Len(frames) \in Nat /\ Len(frames') = 1 + Len(frames)
            /\ \A i \in 1..1 + Len(frames) : frames'[i] = IF i = 1 THEN f ELSE frames[i - 1]
        BY <1>0, <2>3, BatchesOfPush, LenProperties
      <3>2. frames' # <<>> /\ 1 \in 1..1 + Len(frames)
        BY <3>1, EmptySeq
      <3> QED BY <3>1, <3>2, BatchesOfPop
    <2>5. ~(Cardinality(pool') >= Head(frames').need)
      BY <1>0, <2>1, <2>3, <2>4
    <2> QED BY <2>5 DEF WakeInv
  <1>5. CASE AwaitAgain
    <2>1. Cardinality(pool) < Head(frames).need /\ UNCHANGED <<pool, frames>> /\ frames # <<>>
      BY <1>5 DEF AwaitAgain, FrameInv
    <2>2. Head(frames).need \in Nat
      BY <1>0, <2>1, BatchesOfPop DEF FrameType
    <2>3. ~(Cardinality(pool') >= Head(frames').need)
      BY <1>0, <2>1, <2>2
    <2> QED BY <2>3 DEF WakeInv
  <1>6. CASE Offload \/ PassBatch \/ FlushDone \/ RunCheck \/ Complete \/ Stopped \/ EndRound
    <2>1. UNCHANGED <<pool, frames, brk>>
      BY <1>6 DEF Offload, PassBatch, FlushDone, RunCheck, Complete, Stopped, EndRound, vars
    <2>2. pc' \in {"flush", "round", "roundEnd"} => pc \in {"flush", "round", "roundEnd"}
      BY <1>6 DEF Offload, PassBatch, FlushDone, RunCheck, Complete, Stopped, EndRound, vars
    <2> QED BY <2>1, <2>2 DEF WakeInv
  <1>7. CASE Receive \/ FeedBatch \/ AbandonChunk \/ StopLoop \/ ResumeFeed \/ SplitUnfilled
    <2>1. pc' \notin {"flush", "round", "roundEnd"}
      BY <1>7 DEF Receive, FeedBatch, AbandonChunk, StopLoop, ResumeFeed, SplitUnfilled
    <2> QED BY <2>1 DEF WakeInv
  <1>8. CASE RunLoop
    <2>1. frames' = <<>>
      BY <1>8 DEF RunLoop, FrameInv
    <2> QED BY <2>1 DEF WakeInv
  <1> QED BY <1>1, <1>2, <1>3, <1>4, <1>5, <1>6, <1>7, <1>8 DEF Next, Thread

-----------------------------------------------------------------------------
(* Batches                                                                  *)

BatchInv == TypeInv /\ OneCopy /\ FrameInv /\ WakeInv

LEMMA BatchInit == Init => BatchInv
  <1> SUFFICES ASSUME Init PROVE BatchInv
    OBVIOUS
  <1>1. TypeInv
    BY InitTypes
  <1>2. /\ pool = Batches /\ kept = {} /\ queue = <<>> /\ done = <<>> /\ frames = <<>>
        /\ pc = "recv" /\ brk = FALSE
    BY DEF Init
  <1>3. FrameInv
    <2>1. \A i \in 1..Len(frames) : FALSE
      BY <1>2
    <2> QED BY <1>2, <2>1 DEF FrameInv
  <1>4. WakeInv
    BY <1>2 DEF WakeInv
  <1>5. ASSUME NEW x \in Batches PROVE BatchCopies(x) = 1
    <2>1. Count(queue, x) = 0 /\ Count(done, x) = 0
      BY <1>2, CountEmpty
    <2>2. Waiting(x) = 0
      <3>1. BatchesOf(frames) = <<>>
        <4>1. BatchesOf(frames) \in Seq(Batches \cup {NoBatch}) /\ Len(BatchesOf(frames)) = 0
          BY <1>1, <1>2, BatchesOfType DEF TypeInv, ThreadTypes
        <4> QED BY <4>1, EmptySeq
      <3> QED BY <3>1, CountEmpty DEF Waiting
    <2>3. InPool(x) = 1 /\ OnDevice(x) = 0
      BY <1>2 DEF InPool, OnDevice
    <2> QED BY <2>1, <2>2, <2>3 DEF BatchCopies
  <1>6. OneCopy
    BY <1>5 DEF OneCopy
  <1> QED BY <1>1, <1>3, <1>4, <1>6 DEF BatchInv

LEMMA BatchNext ==
    ASSUME BatchInv, [Next]_vars
    PROVE  BatchInv'
  <1>1. CASE UNCHANGED vars
    BY <1>1 DEF vars, packetVars, BatchInv, TypeInv, ThreadTypes, BatchTypes, PacketTypes, OneCopy,
                BatchCopies, InPool, OnDevice, Waiting, FrameInv, NOutputs, WakeInv
  <1>2. CASE Next
    <2>1. TypeInv /\ OneCopy /\ FrameInv /\ WakeInv
      BY DEF BatchInv
    <2>2. TypeInv' /\ \A x \in Batches : BatchMoves(x)
      BY <1>2, <2>1, IdleSteps, FeedSteps, JobSteps, SplitSteps DEF Next, Thread
    <2>3. OneCopy'
      <3>1. ASSUME NEW x \in Batches
            PROVE  BatchCopies(x)' <= 1 /\ (~broken' => BatchCopies(x)' = 1)
        <4>1. BatchCopies(x) \in Nat /\ BatchCopies(x) <= 1 /\ (~broken => BatchCopies(x) = 1)
          BY <2>1, CopyTypes DEF OneCopy
        <4> QED BY <2>2, <4>1 DEF BatchMoves
      <3> QED BY <3>1 DEF OneCopy
    <2>4. FrameInv'
      BY <1>2, <2>1, <2>2, FrameNext
    <2>5. WakeInv'
      BY <1>2, <2>1, WakeNext
    <2> QED BY <2>2, <2>3, <2>4, <2>5 DEF BatchInv
  <1> QED BY <1>1, <1>2

LEMMA BatchAlways == Spec => []BatchInv
  <1>1. Init => BatchInv
    BY BatchInit
  <1>2. BatchInv /\ [Next]_vars => BatchInv'
    BY BatchNext
  <1> QED BY <1>1, <1>2, PTL DEF Spec

\* Every state of the graph is well formed: jobs, waiting calls, batches with
\* their packets and what elements decided on them.
THEOREM TypeCorrect == Spec => []TypeInv
  <1>1. BatchInv => TypeInv
    BY DEF BatchInv
  <1> QED BY <1>1, BatchAlways, PTL

\* No branch, however deeply process_batch() is nested in event loops, loses a
\* batch or uses one twice, as long as the loop is not broken: each PacketBatch is
\* free, a job, in a call that waits, on a device or back from it.
THEOREM BatchesSafe == Spec => []BatchesConserved
  <1>1. BatchInv => BatchesConserved
    BY DEF BatchInv, OneCopy, BatchesConserved, BatchCopies, InPool, OnDevice, Waiting, BatchesOf
  <1> QED BY <1>1, BatchAlways, PTL

\* free_batch() breaks the loop whenever a batch is freed, so that a call that
\* waits for batches sleeps through no round in which the pool has enough of them.
THEOREM CallsWoken == Spec => []WokenWhenFree
  <1>1. BatchInv => WokenWhenFree
    BY DEF BatchInv, WakeInv, WokenWhenFree
  <1> QED BY <1>1, BatchAlways, PTL

-----------------------------------------------------------------------------
(* Packets: batches f, transmitted packets s and history r                  *)

\* The place i of batch b has packet p, which is not excluded.
At(f, b, i, p) ==
    i \in 1..Len(f[b].slots) /\ f[b].slots[i].ok /\ f[b].slots[i].pkt = p

OnceIn(f) ==
    \A b, c \in Batches : \A i, j \in Nat : \A p \in Packets :
        At(f, b, i, p) /\ At(f, c, j, p) => b = c /\ i = j

RoutedIn(f, s, r) ==
    /\ \A b \in Batches : \A i \in Nat : \A p \in Packets :
         At(f, b, i, p) =>
            /\ p \notin s
            /\ f[b].has => /\ f[b].slots[i].to \in Outputs(f[b].elem)
                           /\ r[p] = Next_elems[f[b].elem][f[b].slots[i].to]
            /\ ~f[b].has => r[p] = f[b].elem
    /\ \A p \in s : r[p] = Out

Placed(f, s, r) == OnceIn(f) /\ RoutedIn(f, s, r)

SeenIn(f, s, p) == p \in s \/ \E b \in Batches : \E i \in Nat : At(f, b, i, p)

\* Steps with packets that are in the graph already.
PacketMoves ==
    /\ Placed(batch', sent', route')
    /\ \A p \in Packets : /\ SeenIn(batch', sent', p) => SeenIn(batch, sent, p)
                          /\ ~SeenIn(batch, sent, p) => route'[p] = route[p]

LEMMA AtType ==
    ASSUME TypeInv, NEW b \in Batches, NEW i, NEW p, At(batch, b, i, p)
    PROVE  i \in Nat /\ p \in Packets
  <1>1. i \in 1..Len(batch[b].slots) /\ batch[b].slots[i].pkt = p
    BY DEF At
  <1> QED BY <1>1, BatchFacts DEF Slot

\* What the element of b decides on packets: places with the new results, and a
\* new history of these packets only.
Redecided(b, slots, r) ==
    /\ slots \in Seq(Slot) /\ Len(slots) = Len(batch[b].slots)
    /\ \A i \in 1..Len(slots) :
         /\ slots[i].pkt = batch[b].slots[i].pkt
         /\ slots[i].ok => /\ batch[b].slots[i].ok
                           /\ slots[i].to \in Outputs(batch[b].elem)
                           /\ r[slots[i].pkt] = Next_elems[batch[b].elem][slots[i].to]
    /\ \A p \in Packets : (\A i \in Nat : ~At(batch, b, i, p)) => r[p] = route[p]

LEMMA DecisionRoutes ==
    ASSUME TypeInv, Placed(batch, sent, route), NEW b \in Batches, NEW d \in Decisions(b)
    PROVE  Redecided(b, Decided(b, d), RouteAfter(b, d))
  <1> DEFINE s == batch[b].slots
             e == batch[b].elem
             S == Decided(b, d)
             at(p) == CHOOSE i \in DOMAIN d : s[i].pkt = p
  <1>1. /\ S \in Seq(Slot) /\ Len(S) = Len(s)
        /\ \A i \in 1..Len(s) :
             /\ S[i].pkt = s[i].pkt
             /\ S[i].ok => s[i].ok
             /\ i \in DOMAIN d => S[i].to = d[i] /\ (S[i].ok <=> d[i] # Drop)
             /\ i \notin DOMAIN d => S[i] = s[i]
    BY DecidedFacts
  <1>2. /\ DOMAIN d \subseteq 1..Len(s)
        /\ \A i \in DOMAIN d : s[i].ok /\ d[i] \in Outputs(e) \cup {Drop}
        /\ ~batch[b].has => \A i \in 1..Len(s) : s[i].ok => i \in DOMAIN d
        /\ batch[b].has => DOMAIN d = {}
    BY DecisionFacts
  <1>3. /\ Len(s) \in Nat /\ \A i \in 1..Len(s) : s[i] \in Slot /\ i \in Nat /\ s[i].pkt \in Packets
    BY BatchFacts DEF Slot
  <1>4. PICK r : r = RouteAfter(b, d)
    OBVIOUS
  <1>5. r = [p \in Packets |->
               IF \E i \in DOMAIN d : s[i].pkt = p
                 THEN IF d[at(p)] = Drop THEN Drop ELSE Next_elems[e][d[at(p)]]
                 ELSE route[p]]
    BY <1>4 DEF RouteAfter
  <1>6. ASSUME NEW i \in DOMAIN d, d[i] # Drop
        PROVE  r[s[i].pkt] = Next_elems[e][d[i]]
    <2>1. at(s[i].pkt) \in DOMAIN d /\ s[at(s[i].pkt)].pkt = s[i].pkt
      OBVIOUS
    <2>2. PICK k : k = at(s[i].pkt)
      OBVIOUS
    <2>3. k \in DOMAIN d /\ s[k].pkt = s[i].pkt
      BY <2>1, <2>2
    <2>4. /\ k \in 1..Len(s) /\ i \in 1..Len(s) /\ k \in Nat /\ i \in Nat
          /\ s[k].ok /\ s[i].ok /\ s[i].pkt \in Packets
      BY <1>2, <1>3, <2>3
    <2>5. At(batch, b, k, s[i].pkt) /\ At(batch, b, i, s[i].pkt)
      BY <2>3, <2>4 DEF At
    <2>6. k = i
      BY <2>4, <2>5 DEF Placed, OnceIn
    <2>7. r[s[i].pkt] = IF d[at(s[i].pkt)] = Drop THEN Drop ELSE Next_elems[e][d[at(s[i].pkt)]]
      BY <1>5, <2>4
    <2> HIDE DEF at
    <2> QED BY <1>6, <2>2, <2>6, <2>7
  <1>7. ASSUME NEW p \in Packets, \A i \in DOMAIN d : s[i].pkt # p
        PROVE  r[p] = route[p]
    BY <1>5, <1>7
  <1> HIDE DEF at
  <1>8. ASSUME NEW p \in Packets, \A i \in Nat : ~At(batch, b, i, p)
        PROVE  r[p] = route[p]
    <2>1. ASSUME NEW i \in DOMAIN d PROVE s[i].pkt # p
      <3>1. i \in 1..Len(s) /\ i \in Nat /\ s[i].ok
        BY <1>2, <1>3
      <3>2. ~At(batch, b, i, p)
        BY <1>8, <3>1
      <3> QED BY <3>1, <3>2 DEF At
    <2> QED BY <1>7, <2>1
  <1>9. ASSUME NEW i \in 1..Len(s), S[i].ok
        PROVE  S[i].to \in Outputs(e) /\ r[S[i].pkt] = Next_elems[e][S[i].to]
    <2>1. CASE i \in DOMAIN d
      <3>1. d[i] # Drop /\ S[i].to = d[i] /\ S[i].pkt = s[i].pkt /\ d[i] \in Outputs(e)
        BY <1>1, <1>2, <1>9, <2>1
      <3> QED BY <1>6, <2>1, <3>1
    <2>2. CASE i \notin DOMAIN d
      <3>1. S[i] = s[i] /\ s[i].ok /\ i \in Nat /\ s[i].pkt \in Packets
        BY <1>1, <1>3, <1>9, <2>2
      <3>2. batch[b].has
        BY <1>2, <2>2, <3>1
      <3>3. At(batch, b, i, s[i].pkt)
        BY <3>1 DEF At
      <3>4. s[i].to \in Outputs(e) /\ route[s[i].pkt] = Next_elems[e][s[i].to]
        BY <3>1, <3>2, <3>3 DEF Placed, RoutedIn
      <3>5. r[s[i].pkt] = route[s[i].pkt]
        BY <1>2, <1>7, <3>1, <3>2
      <3> QED BY <3>1, <3>4, <3>5
    <2> QED BY <2>1, <2>2
  <1> HIDE DEF s, S, e
  <1>10. Redecided(b, S, r)
    <2>1. \A i \in 1..Len(S) : /\ S[i].pkt = s[i].pkt
                               /\ S[i].ok => s[i].ok /\ S[i].to \in Outputs(e)
                                              /\ r[S[i].pkt] = Next_elems[e][S[i].to]
      BY <1>1, <1>9
    <2> QED BY <1>1, <1>8, <2>1 DEF Redecided, s, e
  <1> QED BY <1>4, <1>10 DEF S

\* A batch with results goes on, is transmitted or is dropped.
LEMMA BatchGoesOn ==
    ASSUME TypeInv, Placed(batch, sent, route), NEW b \in Batches, NEW slots,
           Redecided(b, slots, route'),
           \A c \in Batches : c # b => batch'[c] = batch[c],
           \A i \in 1..Len(batch'[b].slots) :
               /\ i \in 1..Len(slots) /\ batch'[b].slots[i] = slots[i]
               /\ slots[i].ok /\ batch'[b].has => batch'[b].elem = batch[b].elem
               /\ slots[i].ok /\ ~batch'[b].has =>
                    batch'[b].elem = Next_elems[batch[b].elem][slots[i].to],
           \/ sent' = sent
           \/ /\ 1..Len(batch'[b].slots) = {}
              /\ \A p \in sent' : p \in sent \/ \E i \in 1..Len(slots) :
                    /\ slots[i].ok /\ slots[i].pkt = p
                    /\ Next_elems[batch[b].elem][slots[i].to] = Out,
           sent' \subseteq Packets
    PROVE  PacketMoves
  <1> DEFINE e == batch[b].elem
  <1>1. /\ Len(slots) = Len(batch[b].slots) /\ Len(slots) \in Nat
        /\ \A i \in 1..Len(slots) :
             /\ slots[i].pkt = batch[b].slots[i].pkt /\ i \in Nat
             /\ slots[i].ok => /\ batch[b].slots[i].ok
                               /\ slots[i].to \in Outputs(e)
                               /\ route'[slots[i].pkt] = Next_elems[e][slots[i].to]
        /\ \A p \in Packets : (\A i \in Nat : ~At(batch, b, i, p)) => route'[p] = route[p]
    BY BatchFacts DEF Redecided
  <1>2. ASSUME NEW i \in 1..Len(slots), slots[i].ok PROVE At(batch, b, i, slots[i].pkt) /\ i \in Nat
    BY <1>1, <1>2 DEF At
  <1>3. ASSUME NEW c \in Batches, NEW i, NEW p, At(batch', c, i, p) PROVE At(batch, c, i, p)
    <2>1. CASE c = b
      <3>1. i \in 1..Len(slots) /\ slots[i].ok /\ slots[i].pkt = p
        BY <1>3, <2>1 DEF At
      <3> QED BY <1>2, <2>1, <3>1
    <2>2. CASE c # b
      BY <1>3, <2>2 DEF At
    <2> QED BY <2>1, <2>2
  <1>4. OnceIn(batch')
    BY <1>3 DEF Placed, OnceIn
  <1>5. ASSUME NEW p \in sent', p \notin sent
        PROVE  /\ \E i \in Nat : At(batch, b, i, p)
               /\ route'[p] = Out /\ 1..Len(batch'[b].slots) = {}
    <2>1. PICK i \in 1..Len(slots) : /\ slots[i].ok /\ slots[i].pkt = p
                                     /\ Next_elems[e][slots[i].to] = Out
      BY <1>5
    <2> QED BY <1>1, <1>2, <1>5, <2>1
  <1>6. ASSUME NEW c \in Batches, NEW i \in Nat, NEW p \in Packets, At(batch', c, i, p)
        PROVE  /\ p \notin sent'
               /\ batch'[c].has => /\ batch'[c].slots[i].to \in Outputs(batch'[c].elem)
                                   /\ route'[p] = Next_elems[batch'[c].elem][batch'[c].slots[i].to]
               /\ ~batch'[c].has => route'[p] = batch'[c].elem
    <2>1. At(batch, c, i, p) /\ p \notin sent
      BY <1>3, <1>6 DEF Placed, RoutedIn
    <2>2. CASE c = b
      <3>1. /\ i \in 1..Len(batch'[b].slots) /\ i \in 1..Len(slots)
            /\ batch'[b].slots[i] = slots[i] /\ slots[i].ok /\ slots[i].pkt = p
        BY <1>6, <2>2 DEF At
      <3>2. p \notin sent'
        BY <1>5, <2>1, <3>1
      <3>3. slots[i].to \in Outputs(e) /\ route'[p] = Next_elems[e][slots[i].to]
        BY <1>1, <3>1
      <3> QED BY <2>2, <3>1, <3>2, <3>3
    <2>3. CASE c # b
      <3>1. \A k \in Nat : ~At(batch, b, k, p)
        BY <2>1, <2>3 DEF Placed, OnceIn
      <3>2. p \notin sent' /\ route'[p] = route[p]
        BY <1>1, <1>5, <2>1, <3>1
      <3>3. /\ batch[c].has => /\ batch[c].slots[i].to \in Outputs(batch[c].elem)
                               /\ route[p] = Next_elems[batch[c].elem][batch[c].slots[i].to]
            /\ ~batch[c].has => route[p] = batch[c].elem
        BY <2>1 DEF Placed, RoutedIn
      <3>4. batch'[c] = batch[c]
        BY <2>3
      <3> QED BY <3>2, <3>3, <3>4
    <2> QED BY <2>2, <2>3
  <1>7. ASSUME NEW p \in sent' PROVE route'[p] = Out
    <2>1. CASE p \in sent
      <3>1. \A k \in Nat : ~At(batch, b, k, p)
        BY <2>1 DEF Placed, RoutedIn
      <3>2. route[p] = Out /\ p \in Packets
        BY <2>1 DEF Placed, RoutedIn, TypeInv, PacketTypes
      <3> QED BY <1>1, <3>1, <3>2
    <2>2. CASE p \notin sent
      BY <1>5, <2>2
    <2> QED BY <2>1, <2>2
  <1>8. RoutedIn(batch', sent', route')
    BY <1>6, <1>7 DEF RoutedIn
  <1>9. ASSUME NEW p \in Packets
        PROVE  /\ SeenIn(batch', sent', p) => SeenIn(batch, sent, p)
               /\ ~SeenIn(batch, sent, p) => route'[p] = route[p]
    <2>1. SeenIn(batch', sent', p) => SeenIn(batch, sent, p)
      BY <1>3, <1>5 DEF SeenIn
    <2>2. ~SeenIn(batch, sent, p) => route'[p] = route[p]
      BY <1>1 DEF SeenIn
    <2> QED BY <2>1, <2>2
  <1> QED BY <1>4, <1>8, <1>9 DEF PacketMoves, Placed

\* A batch is split: each of its packets that is not excluded goes to one of the
\* output batches or is transmitted.
LEMMA BatchSplits ==
    ASSUME TypeInv, Placed(batch, sent, route), NEW b \in Batches, b \notin pool, NEW slots,
           NEW rest, NEW outs, NEW jobs, NOutputs(b) \in Nat,
           Redecided(b, slots, route'), SplitStep(b, slots, rest, outs, jobs)
    PROVE  PacketMoves
  <1> DEFINE e == batch[b].elem
  <1>1. /\ slots \in Seq(Slot)
        /\ Len(slots) = Len(batch[b].slots) /\ Len(slots) \in Nat
        /\ \A i \in 1..Len(slots) :
             /\ slots[i].pkt = batch[b].slots[i].pkt /\ i \in Nat
             /\ slots[i].ok => /\ batch[b].slots[i].ok
                               /\ slots[i].to \in Outputs(e)
                               /\ route'[slots[i].pkt] = Next_elems[e][slots[i].to]
        /\ \A p \in Packets : (\A i \in Nat : ~At(batch, b, i, p)) => route'[p] = route[p]
    BY BatchFacts DEF Redecided
  <1>2. PICK n \in Nat : n = NOutputs(b)
    OBVIOUS
  <1>3. PICK m \in Nat : m = Len(jobs)
    BY LenProperties DEF SplitStep
  <1>4. /\ \A o, p \in 1..n : outs[o] = outs[p] => o = p
        /\ \A j \in 1..m : jobs[j] \in 1..n /\ Next_elems[e][jobs[j]] \in Elems
        /\ \A j, k \in 1..m : jobs[j] = jobs[k] => j = k
        /\ \A j \in 1..m :
             /\ outs[jobs[j]] \in Batches /\ outs[jobs[j]] # b
             /\ batch'[outs[jobs[j]]] = [slots |-> Taking(slots, jobs[j]),
                                         elem  |-> Next_elems[e][jobs[j]], has |-> FALSE]
        /\ batch'[b] = FreshBatch
        /\ \A c \in Batches :
             c # b /\ (\A j \in 1..m : outs[jobs[j]] # c) => batch'[c] = batch[c]
    <2>1. \A j \in 1..m : jobs[j] \in 1..n
      BY <1>2, <1>3, ElementOfSeq DEF SplitStep
    <2>2. outs \in [1..n -> pool] /\ pool \subseteq Batches
      BY <1>2 DEF SplitStep, TypeInv, BatchTypes
    <2> QED BY <1>2, <1>3, <2>1, <2>2 DEF SplitStep
  <1>5. sent' = sent \cup UNION {PacketsOf(Taking(slots, o)) :
                                   o \in {p \in 1..n : Next_elems[e][p] = Out}}
    BY <1>2 DEF SplitStep
  <1>6. ASSUME NEW i \in 1..Len(slots), slots[i].ok PROVE At(batch, b, i, slots[i].pkt) /\ i \in Nat
    BY <1>1, <1>6 DEF At
  \* The packet at a place is decided once.
  <1>7. ASSUME NEW i \in 1..Len(slots), NEW k \in 1..Len(slots), slots[i].ok, slots[k].ok,
               slots[i].pkt = slots[k].pkt
        PROVE  i = k
    <2>1. At(batch, b, i, slots[i].pkt) /\ At(batch, b, k, slots[i].pkt) /\ i \in Nat /\ k \in Nat
      BY <1>6, <1>7
    <2>2. slots[i].pkt \in Packets
      BY <2>1, AtType
    <2> QED BY <2>1, <2>2 DEF Placed, OnceIn
  \* Where the packets of an output batch come from.
  <1>8. ASSUME NEW j \in 1..m, NEW i, NEW p, At(batch', outs[jobs[j]], i, p)
        PROVE  \E k \in 1..Len(slots) : slots[k].ok /\ slots[k].pkt = p /\ slots[k].to = jobs[j]
    <2>1. batch'[outs[jobs[j]]].slots = Taking(slots, jobs[j])
      <3>1. batch'[outs[jobs[j]]] = [slots |-> Taking(slots, jobs[j]),
                                     elem  |-> Next_elems[e][jobs[j]], has |-> FALSE]
        BY <1>4
      <3> QED BY <3>1
    <2>2. PICK t : t = Taking(slots, jobs[j])
      OBVIOUS
    <2>3. i \in 1..Len(t) /\ t[i].pkt = p
      BY <1>8, <2>1, <2>2 DEF At
    <2>4. TakenFrom(t, slots, jobs[j])
      BY <1>1, <2>2, TakingFrom
    <2>5. PICK at \in [1..Len(t) -> 1..Len(slots)] :
            /\ \A k \in 1..Len(t) :
                  slots[at[k]].ok /\ slots[at[k]].to = jobs[j] /\ t[k] = slots[at[k]]
            /\ \A k, l \in 1..Len(t) : at[k] = at[l] => k = l
      BY <2>4 DEF TakenFrom
    <2>6. /\ at[i] \in 1..Len(slots) /\ slots[at[i]].ok
          /\ slots[at[i]].pkt = p /\ slots[at[i]].to = jobs[j]
      BY <2>3, <2>5
    <2> QED BY <2>6
  <1>9. ASSUME NEW j \in 1..m, NEW i, NEW k, NEW p,
               At(batch', outs[jobs[j]], i, p), At(batch', outs[jobs[j]], k, p)
        PROVE  i = k
    <2>1. batch'[outs[jobs[j]]].slots = Taking(slots, jobs[j])
      <3>1. batch'[outs[jobs[j]]] = [slots |-> Taking(slots, jobs[j]),
                                     elem  |-> Next_elems[e][jobs[j]], has |-> FALSE]
        BY <1>4
      <3> QED BY <3>1
    <2>2. PICK t : t = Taking(slots, jobs[j])
      OBVIOUS
    <2>3. i \in 1..Len(t) /\ t[i].pkt = p /\ k \in 1..Len(t) /\ t[k].pkt = p
      BY <1>9, <2>1, <2>2 DEF At
    <2>4. TakenFrom(t, slots, jobs[j])
      BY <1>1, <2>2, TakingFrom
    <2>5. PICK at \in [1..Len(t) -> 1..Len(slots)] :
            /\ \A l \in 1..Len(t) :
                 slots[at[l]].ok /\ slots[at[l]].to = jobs[j] /\ t[l] = slots[at[l]]
            /\ \A l, o \in 1..Len(t) : at[l] = at[o] => l = o
      BY <2>4 DEF TakenFrom
    <2>6. /\ at[i] \in 1..Len(slots) /\ slots[at[i]].ok /\ slots[at[i]].pkt = p
          /\ at[k] \in 1..Len(slots) /\ slots[at[k]].ok /\ slots[at[k]].pkt = p
      BY <2>3, <2>5
    <2>7. at[i] = at[k]
      BY <1>7, <2>6
    <2> QED BY <2>3, <2>5, <2>7
  \* A packet is in an output batch, or where it was.
  <1>10. ASSUME NEW c \in Batches, NEW i, NEW p, At(batch', c, i, p)
         PROVE  \/ \E j \in 1..m : c = outs[jobs[j]]
                \/ c # b /\ batch'[c] = batch[c] /\ At(batch, c, i, p)
    <2>1. c # b
      <3>1. 1..Len(FreshBatch.slots) = {}
        BY FreshType
      <3> QED BY <1>4, <1>10, <3>1 DEF At
    <2>2. (\A j \in 1..m : outs[jobs[j]] # c) => batch'[c] = batch[c]
      BY <1>4, <2>1
    <2> QED BY <1>10, <2>1, <2>2 DEF At
  <1>11. ASSUME NEW p \in Packets, NEW k \in 1..Len(slots), slots[k].ok, slots[k].pkt = p
         PROVE  /\ \E i \in Nat : At(batch, b, i, p)
                /\ \A c \in Batches : \A i \in Nat : At(batch, c, i, p) => c = b
                /\ p \notin sent
                /\ route'[p] = Next_elems[e][slots[k].to]
    <2>1. At(batch, b, k, p) /\ k \in Nat
      BY <1>6, <1>11
    <2> QED BY <1>1, <1>11, <2>1 DEF Placed, OnceIn, RoutedIn
  <1>12. ASSUME NEW p \in sent', p \notin sent
         PROVE  \E k \in 1..Len(slots) : /\ slots[k].ok /\ slots[k].pkt = p
                                         /\ Next_elems[e][slots[k].to] = Out
    <2>1. PICK o \in 1..n : Next_elems[e][o] = Out /\ p \in PacketsOf(Taking(slots, o))
      BY <1>5, <1>12
    <2>2. PICK t : t = Taking(slots, o)
      OBVIOUS
    <2>3. t \in Seq(Slot) /\ DOMAIN t = 1..Len(t)
      BY <1>1, <2>2, TakingFacts, LenProperties
    <2>4. PICK i \in 1..Len(t) : t[i].pkt = p
      BY <2>1, <2>2, <2>3 DEF PacketsOf
    <2>5. TakenFrom(t, slots, o)
      BY <1>1, <2>2, TakingFrom
    <2>6. PICK at \in [1..Len(t) -> 1..Len(slots)] :
            /\ \A l \in 1..Len(t) :
                  slots[at[l]].ok /\ slots[at[l]].to = o /\ t[l] = slots[at[l]]
            /\ \A k, l \in 1..Len(t) : at[k] = at[l] => k = l
      BY <2>5 DEF TakenFrom
    <2>7. at[i] \in 1..Len(slots) /\ slots[at[i]].ok /\ slots[at[i]].pkt = p /\ slots[at[i]].to = o
      BY <2>4, <2>6
    <2> QED BY <2>1, <2>7
  <1>13. sent' \subseteq Packets
    <2>1. \A k \in 1..Len(slots) : slots[k].pkt \in Packets
      <3>1. \A k \in 1..Len(slots) : slots[k] \in Slot
        BY <1>1, ElementOfSeq
      <3> QED BY <3>1 DEF Slot
    <2>2. sent \subseteq Packets
      BY DEF TypeInv, PacketTypes
    <2> QED BY <1>12, <2>1, <2>2
  <1> HIDE DEF e
  <1>14. OnceIn(batch')
    <2>1. ASSUME NEW c \in Batches, NEW i \in Nat, NEW p \in Packets, At(batch', c, i, p),
                 NEW a \in Batches, NEW l \in Nat, At(batch', a, l, p)
          PROVE  c = a /\ i = l
      <3>1. CASE \E j \in 1..m : c = outs[jobs[j]]
        <4>1. PICK j \in 1..m : c = outs[jobs[j]]
          BY <3>1
        <4>2. At(batch', outs[jobs[j]], i, p)
          BY <2>1, <4>1
        <4>3. PICK k \in 1..Len(slots) : slots[k].ok /\ slots[k].pkt = p /\ slots[k].to = jobs[j]
          BY <1>8, <4>2
        <4>4. CASE \E h \in 1..m : a = outs[jobs[h]]
          <5>1. PICK h \in 1..m : a = outs[jobs[h]]
            BY <4>4
          <5>2. At(batch', outs[jobs[h]], l, p)
            BY <2>1, <5>1
          <5>3. PICK o \in 1..Len(slots) : slots[o].ok /\ slots[o].pkt = p /\ slots[o].to = jobs[h]
            BY <1>8, <5>2
          <5>4. k = o
            BY <1>7, <4>3, <5>3
          <5>5. a = c
            BY <4>1, <4>3, <5>1, <5>3, <5>4
          <5>6. i = l
            BY <1>9, <2>1, <4>1, <5>5
          <5> QED BY <5>5, <5>6
        <4>5. CASE a # b /\ At(batch, a, l, p)
          BY <1>11, <2>1, <4>3, <4>5
        <4> QED BY <1>10, <2>1, <4>4, <4>5
      <3>2. CASE c # b /\ At(batch, c, i, p)
        <4>1. CASE \E h \in 1..m : a = outs[jobs[h]]
          <5>1. PICK h \in 1..m : a = outs[jobs[h]]
            BY <4>1
          <5>2. At(batch', outs[jobs[h]], l, p)
            BY <2>1, <5>1
          <5>3. PICK o \in 1..Len(slots) : slots[o].ok /\ slots[o].pkt = p /\ slots[o].to = jobs[h]
            BY <1>8, <5>2
          <5> QED BY <1>11, <2>1, <3>2, <5>3
        <4>2. CASE a # b /\ At(batch, a, l, p)
          BY <2>1, <3>2, <4>2 DEF Placed, OnceIn
        <4> QED BY <1>10, <2>1, <4>1, <4>2
      <3> QED BY <1>10, <2>1, <3>1, <3>2
    <2> QED BY <2>1 DEF OnceIn
  <1>15. ASSUME NEW c \in Batches, NEW i \in Nat, NEW p \in Packets, At(batch', c, i, p)
         PROVE  /\ p \notin sent'
                /\ batch'[c].has => /\ batch'[c].slots[i].to \in Outputs(batch'[c].elem)
                                    /\ route'[p] = Next_elems[batch'[c].elem][batch'[c].slots[i].to]
                /\ ~batch'[c].has => route'[p] = batch'[c].elem
                /\ SeenIn(batch, sent, p)
    <2>1. CASE \E j \in 1..m : c = outs[jobs[j]]
      <3>1. PICK j \in 1..m : c = outs[jobs[j]]
        BY <2>1
      <3>2. At(batch', outs[jobs[j]], i, p)
        BY <1>15, <3>1
      <3>3. PICK k \in 1..Len(slots) : slots[k].ok /\ slots[k].pkt = p /\ slots[k].to = jobs[j]
        BY <1>8, <3>2
      <3>4. p \notin sent'
        <4> SUFFICES ASSUME p \in sent' PROVE FALSE
          OBVIOUS
        <4>1. p \notin sent
          BY <1>11, <3>3
        <4>2. PICK o \in 1..Len(slots) : /\ slots[o].ok /\ slots[o].pkt = p
                                         /\ Next_elems[e][slots[o].to] = Out
          BY <1>12, <4>1
        <4>3. o = k
          BY <1>7, <3>3, <4>2
        <4>4. Next_elems[e][jobs[j]] \in Elems
          BY <1>4
        <4> QED BY <3>3, <4>2, <4>3, <4>4, GraphAssumption
      <3>5. batch'[c].has = FALSE /\ batch'[c].elem = Next_elems[e][jobs[j]]
        <4>1. batch'[c] = [slots |-> Taking(slots, jobs[j]),
                           elem |-> Next_elems[e][jobs[j]], has |-> FALSE]
          BY <1>4, <3>1
        <4> QED BY <4>1
      <3>6. route'[p] = Next_elems[e][jobs[j]]
        BY <1>11, <3>3
      <3>7. SeenIn(batch, sent, p)
        BY <1>11, <3>3 DEF SeenIn
      <3> QED BY <3>4, <3>5, <3>6, <3>7
    <2>2. CASE c # b /\ batch'[c] = batch[c] /\ At(batch, c, i, p)
      <3>1. \A k \in Nat : ~At(batch, b, k, p)
        BY <2>2 DEF Placed, OnceIn
      <3>2. p \notin sent /\ route'[p] = route[p]
        BY <1>1, <2>2, <3>1 DEF Placed, RoutedIn
      <3>3. p \notin sent'
        BY <1>11, <1>12, <2>2, <3>2
      <3>4. /\ batch[c].has => /\ batch[c].slots[i].to \in Outputs(batch[c].elem)
                               /\ route[p] = Next_elems[batch[c].elem][batch[c].slots[i].to]
            /\ ~batch[c].has => route[p] = batch[c].elem
        BY <2>2 DEF Placed, RoutedIn
      <3>5. SeenIn(batch, sent, p)
        BY <2>2 DEF SeenIn
      <3> QED BY <2>2, <3>2, <3>3, <3>4, <3>5
    <2> QED BY <1>10, <1>15, <2>1, <2>2
  <1>16. ASSUME NEW p \in sent' PROVE route'[p] = Out /\ SeenIn(batch, sent, p)
    <2>1. CASE p \in sent
      <3>1. \A k \in Nat : ~At(batch, b, k, p)
        BY <1>13, <2>1 DEF Placed, RoutedIn
      <3>2. route[p] = Out
        BY <2>1 DEF Placed, RoutedIn
      <3> QED BY <1>1, <1>13, <2>1, <3>1, <3>2 DEF SeenIn
    <2>2. CASE p \notin sent
      <3>1. PICK k \in 1..Len(slots) : /\ slots[k].ok /\ slots[k].pkt = p
                                       /\ Next_elems[e][slots[k].to] = Out
        BY <1>12, <2>2
      <3> QED BY <1>11, <1>13, <3>1 DEF SeenIn
    <2> QED BY <2>1, <2>2
  <1>17. RoutedIn(batch', sent', route')
    BY <1>15, <1>16 DEF RoutedIn
  <1>18. ASSUME NEW p \in Packets
         PROVE  /\ SeenIn(batch', sent', p) => SeenIn(batch, sent, p)
                /\ ~SeenIn(batch, sent, p) => route'[p] = route[p]
    <2>1. ASSUME SeenIn(batch', sent', p) PROVE SeenIn(batch, sent, p)
      <3>1. CASE p \in sent'
        BY <1>16, <3>1
      <3>2. CASE p \notin sent'
        <4>1. PICK c \in Batches : \E i \in Nat : At(batch', c, i, p)
          BY <2>1, <3>2 DEF SeenIn
        <4>2. PICK i \in Nat : At(batch', c, i, p)
          BY <4>1
        <4> QED BY <1>15, <4>2
      <3> QED BY <3>1, <3>2
    <2>2. ~SeenIn(batch, sent, p) => route'[p] = route[p]
      BY <1>1 DEF SeenIn
    <2> QED BY <2>1, <2>2
  <1> QED BY <1>14, <1>17, <1>18 DEF PacketMoves, Placed
\* Every step but FeedBatch moves packets that are in the graph already.
LEMMA PacketSteps ==
    ASSUME BatchInv, Placed(batch, sent, route), Next, ~FeedBatch
    PROVE  PacketMoves
  <1>1. TypeInv /\ OneCopy /\ FrameInv /\ batch \in [Batches -> BatchType]
    BY DEF BatchInv, TypeInv, BatchTypes
  <1>2. sent' \subseteq Packets
    <2>1. BatchInv'
      BY BatchNext
    <2> QED BY <2>1 DEF BatchInv, TypeInv, PacketTypes
  <1>3. CASE UNCHANGED <<batch, sent, route>>
    <2>1. batch' = batch /\ sent' = sent /\ route' = route
      BY <1>3
    <2> QED BY <2>1 DEF PacketMoves
  <1>4. CASE DropBatch \/ TransmitBatch
    <2>1. PICK b, d :
             /\ b \in Batches /\ Job(b, d) /\ batch' = [batch EXCEPT ![b] = FreshBatch]
             /\ \/ sent' = sent
                \/ /\ sent' = sent \cup PacketsOf(Valid(Decided(b, d)))
                   /\ NOutputs(b) = 1 /\ ~GoesOn(b)
      BY <1>4 DEF DropBatch, TransmitBatch
    <2>2. PICK slots : slots = Decided(b, d)
      OBVIOUS
    <2>3. slots \in Seq(Slot) /\ d \in Decisions(b) /\ route' = RouteAfter(b, d)
      BY <1>1, <2>1, <2>2, JobFacts
    <2>4. Redecided(b, slots, route')
      BY <1>1, <2>1, <2>2, <2>3, DecisionRoutes
    <2>5. batch'[b] = FreshBatch /\ \A c \in Batches : c # b => batch'[c] = batch[c]
      BY <1>1, <2>1
    <2>6. 1..Len(batch'[b].slots) = {}
      BY <2>5, FreshType
    <2>7. \/ sent' = sent
          \/ \A p \in sent' : p \in sent \/ \E i \in 1..Len(slots) :
                /\ slots[i].ok /\ slots[i].pkt = p
                /\ Next_elems[batch[b].elem][slots[i].to] = Out
      <3>1. SUFFICES ASSUME sent' = sent \cup PacketsOf(Valid(slots)), NOutputs(b) = 1, ~GoesOn(b),
                            NEW p \in sent', p \notin sent
                     PROVE  \E i \in 1..Len(slots) :
                              /\ slots[i].ok /\ slots[i].pkt = p
                              /\ Next_elems[batch[b].elem][slots[i].to] = Out
        BY <2>1, <2>2
      <3>2. PICK i \in 1..Len(slots) : slots[i].ok /\ slots[i].pkt = p
        BY <2>3, <3>1, ValidFacts
      <3>3. slots[i].to \in Outputs(batch[b].elem)
        BY <2>4, <3>2 DEF Redecided
      <3>4. slots[i].to = 1
        BY <3>1, <3>3 DEF Outputs, NOutputs
      <3> QED BY <3>1, <3>2, <3>4 DEF GoesOn
    <2> QED BY <1>1, <1>2, <2>1, <2>4, <2>5, <2>6, <2>7, BatchGoesOn
  <1>5. CASE PassBatch
    <2>1. PICK b, d :
             /\ b \in Batches /\ Job(b, d) /\ NOutputs(b) = 1
             /\ batch' = [batch EXCEPT ![b] = [slots |-> Decided(b, d),
                             elem |-> Next_elems[batch[b].elem][1], has |-> FALSE]]
      BY <1>5 DEF PassBatch
    <2>2. PICK slots : slots = Decided(b, d)
      OBVIOUS
    <2>3. d \in Decisions(b) /\ route' = RouteAfter(b, d)
      BY <1>1, <2>1, JobFacts
    <2>4. Redecided(b, slots, route')
      BY <1>1, <2>1, <2>2, <2>3, DecisionRoutes
    <2>5. \A c \in Batches : c # b => batch'[c] = batch[c]
      BY <1>1, <2>1
    <2>6. batch'[b] = [slots |-> slots, elem |-> Next_elems[batch[b].elem][1], has |-> FALSE]
      BY <1>1, <2>1, <2>2
    <2>7. /\ batch'[b].slots = slots /\ batch'[b].has = FALSE
          /\ batch'[b].elem = Next_elems[batch[b].elem][1]
      BY <2>6
    <2>8. ASSUME NEW i \in 1..Len(slots), slots[i].ok PROVE slots[i].to = 1
      <3>1. slots[i].to \in Outputs(batch[b].elem)
        BY <2>4, <2>8 DEF Redecided
      <3> QED BY <2>1, <3>1 DEF Outputs, NOutputs
    <2>9. sent' = sent
      BY <1>5 DEF PassBatch
    <2> QED BY <1>1, <1>2, <2>1, <2>4, <2>5, <2>7, <2>8, <2>9, BatchGoesOn
  <1>6. CASE AwaitSplit \/ Complete
    <2>1. PICK b, d :
             /\ b \in Batches /\ d \in Decisions(b) /\ route' = RouteAfter(b, d)
             /\ batch' = [batch EXCEPT ![b].slots = Decided(b, d), ![b].has = TRUE]
      <3>1. CASE AwaitSplit
        BY <3>1 DEF AwaitSplit, Job
      <3>2. CASE Complete
        BY <1>1, <3>2 DEF Complete, TypeInv, BatchTypes
      <3> QED BY <1>6, <3>1, <3>2
    <2>2. PICK slots : slots = Decided(b, d)
      OBVIOUS
    <2>4. Redecided(b, slots, route')
      BY <1>1, <2>1, <2>2, DecisionRoutes
    <2>5. \A c \in Batches : c # b => batch'[c] = batch[c]
      BY <1>1, <2>1
    <2>6. batch'[b] = [batch[b] EXCEPT !.slots = slots, !.has = TRUE]
      BY <1>1, <2>1, <2>2
    <2>7. /\ batch'[b].slots = slots /\ batch'[b].has = TRUE /\ batch'[b].elem = batch[b].elem
      BY <2>1, <2>6, BatchFacts, <1>1 DEF BatchType
    <2>9. sent' = sent
      BY <1>6 DEF AwaitSplit, Complete
    <2> QED BY <1>1, <1>2, <2>1, <2>4, <2>5, <2>7, <2>9, BatchGoesOn
  <1>7. CASE SplitBatch
    <2>1. PICK b, d : /\ b \in Batches /\ Job(b, d) /\ Cardinality(pool) >= NOutputs(b)
                      /\ SplitInto(b, Decided(b, d), Tail(queue))
      BY <1>7 DEF SplitBatch
    <2>2. PICK slots, rest : slots = Decided(b, d) /\ rest = Tail(queue)
      OBVIOUS
    <2>3. /\ b \notin pool /\ slots \in Seq(Slot) /\ NOutputs(b) \in Nat
          /\ d \in Decisions(b) /\ route' = RouteAfter(b, d)
      BY <1>1, <2>1, <2>2, JobFacts
    <2>4. Redecided(b, slots, route')
      BY <1>1, <2>1, <2>2, <2>3, DecisionRoutes
    <2>5. SplitInto(b, slots, rest)
      BY <2>1, <2>2
    <2>6. PICK outs, jobs : SplitStep(b, slots, rest, outs, jobs)
      BY <1>1, <2>1, <2>3, <2>5, SplitFacts
    <2> QED BY <1>1, <2>1, <2>3, <2>4, <2>6, BatchSplits
  <1>8. CASE ResumeSplit
    <2>1. PICK b, slots, outs, jobs :
             /\ b \in Batches /\ slots \in Seq(Slot) /\ slots = batch[b].slots /\ batch[b].has
             /\ b \notin pool /\ NOutputs(b) \in Nat
             /\ SplitStep(b, slots, queue, outs, jobs)
      BY <1>1, <1>8, ResumeFacts
    <2>2. route' = route
      BY <1>8 DEF ResumeSplit
    <2>3. ASSUME NEW i \in 1..Len(slots), slots[i].ok
          PROVE  /\ slots[i].to \in Outputs(batch[b].elem)
                 /\ route'[slots[i].pkt] = Next_elems[batch[b].elem][slots[i].to]
      <3>1. At(batch, b, i, slots[i].pkt)
        BY <2>1, <2>3 DEF At
      <3>2. i \in Nat /\ slots[i].pkt \in Packets
        BY <1>1, <2>1, <3>1, AtType
      <3> QED BY <2>1, <2>2, <3>1, <3>2 DEF Placed, RoutedIn
    <2>4. Redecided(b, slots, route')
      BY <2>1, <2>2, <2>3 DEF Redecided
    <2> QED BY <1>1, <2>1, <2>4, BatchSplits
  <1>9. CASE \/ Receive \/ AwaitBatch \/ AbandonChunk \/ RunLoop \/ StopLoop \/ Offload
             \/ FlushDone \/ RunCheck \/ EndRound \/ ResumeFeed \/ AwaitAgain
             \/ SplitUnfilled \/ Terminate \/ Stopped
    <2>1. UNCHANGED <<batch, sent, route>>
      BY <1>9 DEF Receive, AwaitBatch, AbandonChunk, RunLoop, StopLoop, Offload, FlushDone,
                  RunCheck, EndRound, ResumeFeed, AwaitAgain, SplitUnfilled, Terminate, Stopped,
                  vars, packetVars
    <2> QED BY <1>3, <2>1
  <1> QED BY <1>4, <1>5, <1>6, <1>7, <1>8, <1>9 DEF Next, Thread
-----------------------------------------------------------------------------
(* The packets that arrive, in their order                                  *)

Arrived == NPackets - Len(rx) - Len(pkts)

\* The packets that have a batch are the first ones; the others are in pkts and
\* then in rx, and nothing has been decided on them.
ArriveInv ==
    /\ Arrived \in Nat
    /\ \A i \in 1..Len(pkts) : pkts[i] = Arrived + i
    /\ \A i \in 1..Len(rx) : rx[i] = Arrived + Len(pkts) + i
    /\ \A p \in Packets : p > Arrived => ~SeenIn(batch, sent, p) /\ route[p] = Input

\* Packets wait for a batch only while they are fed, or in a call that waits.
HeldInv == pkts = <<>> \/ pc = "feed" \/ Count(BatchesOf(frames), NoBatch) # 0

PacketInv == BatchInv /\ Placed(batch, sent, route) /\ ArriveInv /\ HeldInv

LEMMA ArriveTypes ==
    ASSUME TypeInv
    PROVE  /\ pkts \in Seq(Packets) /\ rx \in Seq(Packets)
           /\ Len(pkts) \in Nat /\ Len(rx) \in Nat /\ NPackets \in Nat
  <1>1. pkts \in Seq(Packets) /\ rx \in Seq(Packets)
    BY DEF TypeInv, PacketTypes
  <1> QED BY <1>1, LenProperties, SizeAssumption

LEMMA PacketInit == Init => PacketInv
  <1> SUFFICES ASSUME Init PROVE PacketInv
    OBVIOUS
  <1>1. BatchInv /\ TypeInv
    BY BatchInit, InitTypes
  <1>2. ASSUME NEW b \in Batches, NEW i, NEW p PROVE ~At(batch, b, i, p)
    <2>1. batch[b] = FreshBatch
      BY DEF Init
    <2>2. 1..Len(batch[b].slots) = {}
      BY <2>1, FreshType
    <2> QED BY <2>2 DEF At
  <1>3. Placed(batch, sent, route)
    BY <1>2 DEF Init, Placed, OnceIn, RoutedIn
  <1>4. /\ Len(pkts) = 0 /\ Len(rx) = NPackets /\ NPackets \in Nat
        /\ \A i \in 1..NPackets : rx[i] = i
    <2>1. pkts = <<>> /\ NPackets \in Nat /\ rx = [i \in 1..NPackets |-> i]
      BY SizeAssumption DEF Init, Packets
    <2> QED BY <2>1, EmptySeq
  <1>5. Arrived = 0
    BY <1>4 DEF Arrived
  <1>6. /\ \A i \in 1..Len(pkts) : pkts[i] = Arrived + i
        /\ \A i \in 1..Len(rx) : rx[i] = Arrived + Len(pkts) + i
    BY <1>4, <1>5
  <1>7. ASSUME NEW p \in Packets PROVE ~SeenIn(batch, sent, p) /\ route[p] = Input
    BY <1>2 DEF Init, SeenIn
  <1>8. ArriveInv
    BY <1>5, <1>6, <1>7 DEF ArriveInv
  <1>9. HeldInv
    BY DEF Init, HeldInv
  <1> QED BY <1>1, <1>3, <1>8, <1>9 DEF PacketInv

\* A step that leaves the arriving packets where they are.
LEMMA ArriveStays ==
    ASSUME PacketInv, PacketMoves, Len(pkts)' = Len(pkts), Len(rx)' = Len(rx),
           UNCHANGED <<pkts, rx>>
    PROVE  ArriveInv'
  <1>1. Arrived' = Arrived
    BY DEF Arrived
  <1>2. ASSUME NEW p \in Packets, p > Arrived
        PROVE  ~SeenIn(batch', sent', p) /\ route'[p] = Input
    BY <1>2 DEF PacketInv, ArriveInv, PacketMoves
  <1>3. /\ Arrived \in Nat
        /\ \A i \in 1..Len(pkts) : pkts[i] = Arrived + i
        /\ \A i \in 1..Len(rx) : rx[i] = Arrived + Len(pkts) + i
    BY DEF PacketInv, ArriveInv
  <1> QED BY <1>1, <1>2, <1>3 DEF ArriveInv

LEMMA ArriveReceive ==
    ASSUME PacketInv, Receive, pkts = <<>>
    PROVE  ArriveInv'
  <1>1. TypeInv /\ ArriveInv
    BY DEF PacketInv, BatchInv
  <1>2. PICK n \in Nat :
             /\ Len(rx) \in Nat /\ n <= Len(rx)
             /\ pkts' \in Seq(Packets) /\ Len(pkts') = n
             /\ rx' \in Seq(Packets) /\ Len(rx') = Len(rx) - n
             /\ \A i \in 1..n : pkts'[i] = rx[i]
             /\ \A i \in 1..Len(rx) - n : rx'[i] = rx[n + i]
    BY <1>1, ReceiveFacts
  <1>3. PICK l \in Nat : l = Len(rx)
    BY <1>2
  <1>4. PICK a \in Nat : a = Arrived
    BY <1>1 DEF ArriveInv
  <1>5. Len(pkts) = 0 /\ NPackets \in Nat
    BY EmptySeq, SizeAssumption
  <1>6. a = NPackets - l
    BY <1>3, <1>4, <1>5 DEF Arrived
  <1>7. Arrived' = a
    BY <1>2, <1>3, <1>5, <1>6 DEF Arrived
  <1>8. \A i \in 1..l : rx[i] = a + i
    <2>1. \A i \in 1..l : rx[i] = a + 0 + i
      BY <1>1, <1>3, <1>4, <1>5 DEF ArriveInv
    <2> QED BY <2>1
  <1>9. ASSUME NEW i \in 1..n PROVE pkts'[i] = a + i
    <2>1. i \in 1..l /\ pkts'[i] = rx[i]
      BY <1>2, <1>3
    <2> QED BY <1>8, <2>1
  <1>10. ASSUME NEW i \in 1..l - n PROVE rx'[i] = a + n + i
    <2>1. n + i \in 1..l /\ rx'[i] = rx[n + i]
      BY <1>2, <1>3
    <2>2. rx[n + i] = a + (n + i)
      BY <1>8, <2>1
    <2> QED BY <2>1, <2>2
  <1>11. ASSUME NEW p \in Packets, p > a PROVE ~SeenIn(batch', sent', p) /\ route'[p] = Input
    BY <1>1, <1>4, <1>11 DEF Receive, ArriveInv
  <1> QED BY <1>2, <1>3, <1>7, <1>9, <1>10, <1>11 DEF ArriveInv

\* The chunk leaves pkts; seen are the packets of its batch, if it has one.
LEMMA ArriveChunk ==
    ASSUME PacketInv, pkts # <<>>, pkts' = RestOfBurst, rx' = rx,
           route' = route, sent' = sent,
           \A p \in Packets : SeenIn(batch', sent', p) =>
              SeenIn(batch, sent, p) \/ \E i \in 1..ChunkSize : pkts[i] = p
    PROVE  ArriveInv'
  <1>1. TypeInv /\ ArriveInv
    BY DEF PacketInv, BatchInv
  <1>2. PICK k \in Nat : k = Len(pkts)
    BY <1>1, ArriveTypes
  <1>3. PICK c \in Nat :
           /\ c = ChunkSize /\ c <= k
           /\ Len(RestOfBurst) = k - c
           /\ \A i \in 1..k - c : RestOfBurst[i] = pkts[c + i]
    BY <1>1, <1>2, ChunkFacts
  <1>4. PICK l \in Nat : l = Len(rx)
    BY <1>1, ArriveTypes
  <1>5. PICK a \in Nat : a = Arrived
    BY <1>1 DEF ArriveInv
  <1>6. a = NPackets - l - k /\ NPackets \in Nat
    BY <1>2, <1>4, <1>5, SizeAssumption DEF Arrived
  <1>7. Len(pkts') = k - c /\ Len(rx') = l
    BY <1>3, <1>4
  <1>8. Arrived' = a + c
    BY <1>3, <1>6, <1>7 DEF Arrived
  <1>9. /\ \A i \in 1..k : pkts[i] = a + i
        /\ \A i \in 1..l : rx[i] = a + k + i
        /\ \A p \in Packets : p > a => ~SeenIn(batch, sent, p) /\ route[p] = Input
    BY <1>1, <1>2, <1>4, <1>5 DEF ArriveInv
  <1>10. ASSUME NEW i \in 1..k - c PROVE pkts'[i] = a + c + i
    <2>1. c + i \in 1..k /\ pkts'[i] = pkts[c + i]
      BY <1>3
    <2>2. pkts[c + i] = a + (c + i)
      BY <1>9, <2>1
    <2> QED BY <2>1, <2>2
  <1>11. ASSUME NEW i \in 1..l PROVE rx'[i] = a + c + (k - c) + i
    <2>1. rx'[i] = a + k + i
      BY <1>9
    <2> QED BY <2>1
  <1>12. ASSUME NEW p \in Packets, p > a + c
         PROVE  ~SeenIn(batch', sent', p) /\ route'[p] = Input
    <2>1. p \in Nat
      BY <1>6 DEF Packets
    <2>2. p > a
      BY <1>12, <2>1
    <2>3. \A i \in 1..c : pkts[i] # p
      <3> TAKE i \in 1..c
      <3>1. i \in 1..k /\ pkts[i] = a + i
        BY <1>3, <1>9
      <3> QED BY <1>12, <2>1, <3>1
    <2> QED BY <1>3, <1>9, <2>2, <2>3
  <1>13. a + c \in Nat
    OBVIOUS
  <1> QED BY <1>7, <1>8, <1>10, <1>11, <1>12, <1>13 DEF ArriveInv
LEMMA HeldNext ==
    ASSUME PacketInv, Next
    PROVE  HeldInv'
  <1>1. /\ TypeInv /\ OneCopy /\ FrameInv /\ HeldInv /\ frames \in Seq(FrameType)
        /\ BatchesOf(frames) \in Seq(Batches \cup {NoBatch})
    BY BatchesOfType DEF PacketInv, BatchInv, TypeInv, ThreadTypes
  <1>2. CASE pc' = "feed" \/ pkts' = <<>>
    BY <1>2 DEF HeldInv
  <1>3. CASE UNCHANGED <<pkts, frames>> /\ pc # "feed"
    BY <1>1, <1>3 DEF HeldInv
  <1>4. CASE AwaitBatch
    <2>1. PICK f : f = [batch |-> NoBatch, need |-> 1]
      OBVIOUS
    <2>2. f \in FrameType /\ f.batch = NoBatch /\ frames' = <<f>> \o frames
      BY <1>4, <2>1 DEF AwaitBatch, FrameType
    <2>3. BatchesOf(frames') = <<NoBatch>> \o BatchesOf(frames)
      BY <1>1, <2>2, BatchesOfPush
    <2>4. /\ Count(BatchesOf(frames'), NoBatch)
               = Count(BatchesOf(frames), NoBatch) + One(NoBatch, NoBatch)
          /\ Count(BatchesOf(frames), NoBatch) \in Nat
      BY <1>1, <2>3, CountPushFront, CountType
    <2>5. One(NoBatch, NoBatch) = 1
      BY DEF One
    <2>6. Count(BatchesOf(frames'), NoBatch) # 0
      BY <2>4, <2>5
    <2> QED BY <2>6 DEF HeldInv
  <1>5. CASE AwaitSplit
    <2>1. PICK b, d :
             /\ b \in Batches /\ Job(b, d)
             /\ frames' = <<[batch |-> b, need |-> NOutputs(b)]>> \o frames
      BY <1>5 DEF AwaitSplit
    <2>2. NOutputs(b) \in Nat /\ pc = "flush"
      BY <1>1, <2>1, JobFacts
    <2>3. PICK f : f = [batch |-> b, need |-> NOutputs(b)]
      OBVIOUS
    <2>4. f \in FrameType /\ f.batch = b /\ frames' = <<f>> \o frames
      BY <2>1, <2>2, <2>3 DEF FrameType
    <2>5. BatchesOf(frames') = <<b>> \o BatchesOf(frames)
      BY <1>1, <2>4, BatchesOfPush
    <2>6. /\ Count(BatchesOf(frames'), NoBatch)
               = Count(BatchesOf(frames), NoBatch) + One(b, NoBatch)
          /\ Count(BatchesOf(frames), NoBatch) \in Nat /\ One(b, NoBatch) \in {0, 1}
      <3>1. Count(<<b>> \o BatchesOf(frames), NoBatch)
               = Count(BatchesOf(frames), NoBatch) + One(b, NoBatch)
        BY <1>1, <2>1, CountPushFront
      <3>2. Count(BatchesOf(frames), NoBatch) \in Nat /\ One(b, NoBatch) \in {0, 1}
        BY <1>1, CountType DEF One
      <3> QED BY <2>5, <3>1, <3>2
    <2>7. pkts' = pkts
      BY <1>5 DEF AwaitSplit
    <2>8. Count(BatchesOf(frames), NoBatch) # 0 => Count(BatchesOf(frames'), NoBatch) # 0
      BY <2>6
    <2> QED BY <1>1, <2>2, <2>7, <2>8 DEF HeldInv
  <1>6. CASE ResumeSplit
    <2>1. /\ pkts' = pkts /\ frames' = Tail(frames) /\ pc = "resume"
          /\ Head(frames).batch # NoBatch /\ frames # <<>>
      BY <1>1, <1>6 DEF ResumeSplit, FrameInv
    <2>2. PICK b : b = Head(frames).batch
      OBVIOUS
    <2>3. /\ BatchesOf(frames) # <<>> /\ Head(BatchesOf(frames)) = b
          /\ BatchesOf(frames') = Tail(BatchesOf(frames))
      BY <1>1, <2>1, <2>2, BatchesOfPop
    <2>4. /\ Count(BatchesOf(frames'), NoBatch)
               = Count(BatchesOf(frames), NoBatch) - One(b, NoBatch)
          /\ Count(BatchesOf(frames), NoBatch) \in Nat
      BY <1>1, <2>3, CountPop, CountType
    <2>5. One(b, NoBatch) = 0
      BY <2>1, <2>2 DEF One
    <2>6. Count(BatchesOf(frames'), NoBatch) = Count(BatchesOf(frames), NoBatch)
      BY <2>4, <2>5
    <2> QED BY <1>1, <2>1, <2>6 DEF HeldInv
  <1>7. CASE Receive \/ FeedBatch \/ AbandonChunk \/ RunLoop \/ ResumeFeed
    <2>1. pc' = "feed" \/ pkts' = <<>>
      BY <1>7 DEF Receive, FeedBatch, AbandonChunk, RunLoop, ResumeFeed
    <2> QED BY <1>2, <2>1
  <1>8. CASE \/ StopLoop \/ Offload \/ FlushDone \/ DropBatch \/ TransmitBatch \/ PassBatch
             \/ SplitBatch \/ RunCheck \/ EndRound \/ AwaitAgain \/ SplitUnfilled \/ Terminate
    <2>1. UNCHANGED <<pkts, frames>> /\ pc # "feed"
      BY <1>8 DEF StopLoop, Offload, FlushDone, DropBatch, TransmitBatch, PassBatch, SplitBatch,
                  RunCheck, EndRound, AwaitAgain, SplitUnfilled, Terminate, Job, packetVars
    <2> QED BY <1>3, <2>1
  <1>9. CASE Complete \/ Stopped
    <2>1. UNCHANGED <<pkts, frames, pc>>
      BY <1>9 DEF Complete, Stopped, vars
    <2> QED BY <1>1, <2>1 DEF HeldInv
  <1> QED BY <1>4, <1>5, <1>6, <1>7, <1>8, <1>9 DEF Next, Thread

\* No packets wait when the next ones are received.
LEMMA NoneHeld ==
    ASSUME PacketInv, Receive
    PROVE  pkts = <<>>
  <1>1. frames \in Seq(FrameType) /\ frames = <<>> /\ pc = "recv" /\ HeldInv
    BY DEF PacketInv, BatchInv, FrameInv, TypeInv, ThreadTypes, Receive
  <1>2. BatchesOf(frames) = <<>>
    <2>1. BatchesOf(frames) \in Seq(Batches \cup {NoBatch}) /\ Len(BatchesOf(frames)) = 0
      BY <1>1, BatchesOfType
    <2> QED BY <2>1, EmptySeq
  <1>3. Count(BatchesOf(frames), NoBatch) = 0
    BY <1>2, CountEmpty
  <1> QED BY <1>1, <1>3 DEF HeldInv
\* A chunk gets a batch: its packets are the next ones, which no batch has yet.
LEMMA FeedMoves ==
    ASSUME PacketInv, FeedBatch
    PROVE  /\ Placed(batch', sent', route')
           /\ \A p \in Packets : SeenIn(batch', sent', p) =>
                SeenIn(batch, sent, p) \/ \E i \in 1..ChunkSize : pkts[i] = p
  <1>1. TypeInv /\ Placed(batch, sent, route) /\ ArriveInv /\ batch \in [Batches -> BatchType]
    BY DEF PacketInv, BatchInv, TypeInv, BatchTypes
  <1>2. pkts # <<>> /\ sent' = sent /\ route' = route
    BY DEF FeedBatch, packetVars
  <1>3. PICK b \in pool : \E slots \in Seq(Slot) :
           /\ b \in Batches /\ Len(slots) = ChunkSize
           /\ \A i \in 1..ChunkSize : slots[i] = [pkt |-> pkts[i], ok |-> TRUE, to |-> 0]
           /\ batch' = [batch EXCEPT ![b] = [slots |-> slots, elem |-> Input, has |-> FALSE]]
    BY <1>1, FeedFacts
  <1>4. PICK slots \in Seq(Slot) :
           /\ b \in Batches /\ Len(slots) = ChunkSize
           /\ \A i \in 1..ChunkSize : slots[i] = [pkt |-> pkts[i], ok |-> TRUE, to |-> 0]
           /\ batch' = [batch EXCEPT ![b] = [slots |-> slots, elem |-> Input, has |-> FALSE]]
    BY <1>3
  <1>5. PICK c \in Nat : c = ChunkSize /\ c <= Len(pkts) /\ Len(pkts) \in Nat
    BY <1>1, <1>2, ChunkFacts
  <1>6. PICK a \in Nat : a = Arrived
    BY <1>1 DEF ArriveInv
  <1>7. /\ batch'[b] = [slots |-> slots, elem |-> Input, has |-> FALSE]
        /\ \A x \in Batches : x # b => batch'[x] = batch[x]
    BY <1>1, <1>4
  <1>8. batch'[b].slots = slots /\ batch'[b].elem = Input /\ batch'[b].has = FALSE
    BY <1>7
  <1>9. ASSUME NEW i \in 1..c
        PROVE  /\ slots[i].pkt = a + i /\ pkts[i] = a + i
               /\ i \in 1..Len(pkts) /\ i \in Nat
    <2>1. i \in 1..Len(pkts)
      BY <1>5
    <2>2. pkts[i] = a + i
      BY <1>1, <1>6, <2>1 DEF ArriveInv
    <2>3. slots[i] = [pkt |-> pkts[i], ok |-> TRUE, to |-> 0]
      BY <1>4, <1>5
    <2> QED BY <2>1, <2>2, <2>3
  \* The new batch has new packets.
  <1>10. ASSUME NEW i, NEW p \in Packets, At(batch', b, i, p)
         PROVE  i \in 1..c /\ p = a + i /\ pkts[i] = p /\ ~SeenIn(batch, sent, p) /\ route[p] = Input
    <2>1. i \in 1..c /\ slots[i].pkt = p
      BY <1>4, <1>5, <1>8, <1>10 DEF At
    <2>2. p = a + i /\ pkts[i] = p /\ i \in 1..Len(pkts)
      BY <1>9, <2>1
    <2>3. p > a
      BY <1>9, <2>1, <2>2
    <2> QED BY <1>1, <1>6, <2>1, <2>2, <2>3 DEF ArriveInv
  <1>11. ASSUME NEW x \in Batches, x # b, NEW i, NEW p, At(batch', x, i, p)
         PROVE  At(batch, x, i, p) /\ batch'[x] = batch[x]
    BY <1>7, <1>11 DEF At
  <1>12. OnceIn(batch')
    <2>1. ASSUME NEW x \in Batches, NEW i \in Nat, NEW p \in Packets, At(batch', x, i, p),
                 NEW y \in Batches, NEW j \in Nat, At(batch', y, j, p)
          PROVE  x = y /\ i = j
      <3>1. CASE x = b /\ y = b
        <4>1. p = a + i /\ p = a + j
          BY <1>10, <2>1, <3>1
        <4> QED BY <3>1, <4>1
      <3>2. CASE x = b /\ y # b
        BY <1>10, <1>11, <2>1, <3>2 DEF SeenIn
      <3>3. CASE x # b /\ y = b
        BY <1>10, <1>11, <2>1, <3>3 DEF SeenIn
      <3>4. CASE x # b /\ y # b
        <4>1. At(batch, x, i, p) /\ At(batch, y, j, p)
          BY <1>11, <2>1, <3>4
        <4> QED BY <1>1, <4>1 DEF Placed, OnceIn
      <3> QED BY <3>1, <3>2, <3>3, <3>4
    <2> QED BY <2>1 DEF OnceIn
  <1>13. ASSUME NEW x \in Batches, NEW i \in Nat, NEW p \in Packets, At(batch', x, i, p)
         PROVE  /\ p \notin sent'
                /\ batch'[x].has => /\ batch'[x].slots[i].to \in Outputs(batch'[x].elem)
                                    /\ route'[p] = Next_elems[batch'[x].elem][batch'[x].slots[i].to]
                /\ ~batch'[x].has => route'[p] = batch'[x].elem
    <2>1. CASE x = b
      <3>1. ~SeenIn(batch, sent, p) /\ route[p] = Input
        BY <1>10, <1>13, <2>1
      <3> QED BY <1>2, <1>8, <2>1, <3>1 DEF SeenIn
    <2>2. CASE x # b
      <3>1. At(batch, x, i, p) /\ batch'[x] = batch[x]
        BY <1>11, <1>13, <2>2
      <3> QED BY <1>1, <1>2, <3>1 DEF Placed, RoutedIn
    <2> QED BY <2>1, <2>2
  <1>14. RoutedIn(batch', sent', route')
    BY <1>1, <1>2, <1>13 DEF Placed, RoutedIn
  <1>15. ASSUME NEW p \in Packets, SeenIn(batch', sent', p)
         PROVE  SeenIn(batch, sent, p) \/ \E i \in 1..c : pkts[i] = p
    <2>1. CASE p \in sent'
      BY <1>2, <2>1 DEF SeenIn
    <2>2. CASE p \notin sent'
      <3>1. PICK x \in Batches : \E i \in Nat : At(batch', x, i, p)
        BY <1>15, <2>2 DEF SeenIn
      <3>2. PICK i \in Nat : At(batch', x, i, p)
        BY <3>1
      <3>3. CASE x = b
        BY <1>10, <3>2, <3>3
      <3>4. CASE x # b
        BY <1>11, <3>2, <3>4 DEF SeenIn
      <3> QED BY <3>3, <3>4
    <2> QED BY <2>1, <2>2
  <1> QED BY <1>5, <1>12, <1>14, <1>15 DEF Placed

LEMMA PacketNext ==
    ASSUME PacketInv, [Next]_vars
    PROVE  PacketInv'
  <1>1. BatchInv'
    BY BatchNext DEF PacketInv
  <1>2. CASE UNCHANGED vars
    <2>1. UNCHANGED <<rx, pkts, batch, pc, frames, sent, route>>
      BY <1>2 DEF vars, packetVars
    <2>2. batch' = batch /\ sent' = sent /\ route' = route
      BY <2>1
    <2>3. PacketMoves
      BY <2>2 DEF PacketMoves, PacketInv
    <2>4. ArriveInv'
      BY <2>1, <2>3, ArriveStays
    <2>5. HeldInv'
      BY <2>1 DEF PacketInv, HeldInv
    <2> QED BY <1>1, <2>3, <2>4, <2>5 DEF PacketInv, PacketMoves
  <1>3. CASE Next
    <2>1. HeldInv'
      BY <1>3, HeldNext
    <2>2. CASE FeedBatch
      <3>1. /\ pkts # <<>> /\ pkts' = RestOfBurst /\ rx' = rx /\ route' = route /\ sent' = sent
        BY <2>2 DEF FeedBatch, packetVars
      <3>2. /\ Placed(batch', sent', route')
            /\ \A p \in Packets : SeenIn(batch', sent', p) =>
                 SeenIn(batch, sent, p) \/ \E i \in 1..ChunkSize : pkts[i] = p
        BY <2>2, FeedMoves
      <3>3. ArriveInv'
        BY <3>1, <3>2, ArriveChunk
      <3> QED BY <1>1, <2>1, <3>2, <3>3 DEF PacketInv
    <2>3. CASE ~FeedBatch
      <3>1. PacketMoves
        BY <1>3, <2>3, PacketSteps DEF PacketInv
      <3>2. CASE Receive
        <4>1. ArriveInv'
          BY <3>2, NoneHeld, ArriveReceive
        <4> QED BY <1>1, <2>1, <3>1, <4>1 DEF PacketInv, PacketMoves
      <3>3. CASE AbandonChunk
        <4>1. /\ pkts # <<>> /\ pkts' = RestOfBurst /\ rx' = rx
              /\ route' = route /\ sent' = sent /\ batch' = batch
          BY <3>3 DEF AbandonChunk, packetVars
        <4>2. \A p \in Packets : SeenIn(batch', sent', p) =>
                 SeenIn(batch, sent, p) \/ \E i \in 1..ChunkSize : pkts[i] = p
          BY <4>1
        <4>3. ArriveInv'
          BY <4>1, <4>2, ArriveChunk
        <4> QED BY <1>1, <2>1, <3>1, <4>3 DEF PacketInv, PacketMoves
      <3>4. CASE ~Receive /\ ~AbandonChunk
        <4>1. UNCHANGED <<pkts, rx>>
          BY <1>3, <2>3, <3>4 DEF Next, Thread, AwaitBatch, RunLoop, StopLoop, Offload, DropBatch,
             PassBatch, TransmitBatch, SplitBatch, AwaitSplit, FlushDone, RunCheck, EndRound,
             ResumeFeed, ResumeSplit, AwaitAgain, SplitUnfilled, Complete, Terminate, Stopped,
             vars, packetVars
        <4>2. ArriveInv'
          BY <3>1, <4>1, ArriveStays
        <4> QED BY <1>1, <2>1, <3>1, <4>2 DEF PacketInv, PacketMoves
      <3> QED BY <3>2, <3>3, <3>4
    <2> QED BY <2>2, <2>3
  <1> QED BY <1>2, <1>3

LEMMA PacketAlways == Spec => []PacketInv
  <1>1. Init => PacketInv
    BY PacketInit
  <1>2. PacketInv /\ [Next]_vars => PacketInv'
    BY PacketNext
  <1> QED BY <1>1, <1>2, PTL DEF Spec

\* A packet in a batch, in terms of its places.
LEMMA HoldsFacts ==
    ASSUME TypeInv, NEW b \in Batches, NEW p
    PROVE  Holds(b, p) <=> \E i \in Nat : At(batch, b, i, p)
  <1>1. PICK slots \in Seq(Slot) : slots = batch[b].slots
    BY BatchFacts
  <1>2. Holds(b, p) <=> \E i \in 1..Len(slots) : slots[i].ok /\ slots[i].pkt = p
    BY <1>1, ValidFacts DEF Holds
  <1>3. Len(slots) \in Nat
    BY LenProperties
  <1> QED BY <1>1, <1>2, <1>3 DEF At

\* No packet is forwarded twice, whatever the graph and however its branches are
\* interrupted: a packet is valid in at most one batch, once, and in none after
\* it was transmitted.
THEOREM PacketsForwardedOnce == Spec => []ForwardedOnce
  <1>1. ASSUME PacketInv PROVE ForwardedOnce
    <2>1. TypeInv /\ Placed(batch, sent, route)
      BY <1>1 DEF PacketInv, BatchInv
    <2>2. SUFFICES ASSUME NEW p \in Packets, NEW b \in Live, Holds(b, p)
                   PROVE  /\ p \notin sent
                          /\ \A c \in Live : Holds(c, p) => c = b
                          /\ Cardinality({i \in DOMAIN batch[b].slots :
                                 batch[b].slots[i].ok /\ batch[b].slots[i].pkt = p}) = 1
      BY DEF ForwardedOnce
    <2>3. b \in Batches
      BY DEF Live
    <2>4. PICK i \in Nat : At(batch, b, i, p)
      BY <2>1, <2>2, <2>3, HoldsFacts
    <2>5. p \notin sent
      BY <2>1, <2>3, <2>4 DEF Placed, RoutedIn
    <2>6. ASSUME NEW c \in Live, Holds(c, p) PROVE c = b
      <3>1. c \in Batches
        BY DEF Live
      <3>2. PICK j \in Nat : At(batch, c, j, p)
        BY <2>1, <2>6, <3>1, HoldsFacts
      <3> QED BY <2>1, <2>3, <2>4, <3>1, <3>2 DEF Placed, OnceIn
    <2>7. DOMAIN batch[b].slots = 1..Len(batch[b].slots) /\ Len(batch[b].slots) \in Nat
      <3>1. batch[b].slots \in Seq(Slot)
        BY <2>1, <2>3, BatchFacts
      <3> QED BY <3>1, LenProperties
    <2>8. \A j \in 1..Len(batch[b].slots) :
            batch[b].slots[j].ok /\ batch[b].slots[j].pkt = p => j = i
      <3> SUFFICES ASSUME NEW j \in 1..Len(batch[b].slots),
                          batch[b].slots[j].ok, batch[b].slots[j].pkt = p
                   PROVE  j = i
        OBVIOUS
      <3>1. At(batch, b, j, p) /\ j \in Nat
        BY <2>7 DEF At
      <3> QED BY <2>1, <2>3, <2>4, <3>1 DEF Placed, OnceIn
    <2>9. {j \in DOMAIN batch[b].slots :
             batch[b].slots[j].ok /\ batch[b].slots[j].pkt = p} = {i}
      BY <2>4, <2>7, <2>8 DEF At
    <2> QED BY <2>5, <2>6, <2>9, FS_Singleton
  <1>2. PacketInv => ForwardedOnce
    BY <1>1
  <1> QED BY <1>2, PacketAlways, PTL

\* A packet is where its last element sent it, also when its batch waited for
\* output batches or was on a device meanwhile: in a batch at that element, or in
\* one that has the results and is still to be split, or transmitted if that
\* element is an output.
THEOREM PacketsWhereSent == Spec => []WhereSent
  <1>1. ASSUME PacketInv PROVE WhereSent
    <2>1. TypeInv /\ Placed(batch, sent, route)
      BY <1>1 DEF PacketInv, BatchInv
    <2>2. ASSUME NEW b \in Live, NEW i \in DOMAIN batch[b].slots, batch[b].slots[i].ok
          PROVE  IF batch[b].has
                   THEN /\ batch[b].slots[i].to # Drop
                        /\ route[batch[b].slots[i].pkt] =
                              Next_elems[batch[b].elem][batch[b].slots[i].to]
                   ELSE route[batch[b].slots[i].pkt] = batch[b].elem
      <3>1. b \in Batches
        BY DEF Live
      <3>2. i \in 1..Len(batch[b].slots)
        <4>1. batch[b].slots \in Seq(Slot)
          BY <2>1, <3>1, BatchFacts
        <4> QED BY <2>2, <4>1, LenProperties
      <3>3. At(batch, b, i, batch[b].slots[i].pkt)
        BY <2>2, <3>2 DEF At
      <3>4. i \in Nat /\ batch[b].slots[i].pkt \in Packets
        BY <2>1, <3>1, <3>3, AtType
      <3>5. /\ batch[b].has => /\ batch[b].slots[i].to \in Outputs(batch[b].elem)
                               /\ route[batch[b].slots[i].pkt] =
                                     Next_elems[batch[b].elem][batch[b].slots[i].to]
            /\ ~batch[b].has => route[batch[b].slots[i].pkt] = batch[b].elem
        BY <2>1, <3>1, <3>3, <3>4 DEF Placed, RoutedIn
      <3>6. Outputs(batch[b].elem) \subseteq Nat
        BY DEF Outputs
      <3> QED BY <3>5, <3>6, SizeAssumption
    <2>3. \A p \in sent : route[p] = Out
      BY <2>1 DEF Placed, RoutedIn
    <2> QED BY <2>2, <2>3 DEF WhereSent
  <1>2. PacketInv => WhereSent
    BY <1>1
  <1> QED BY <1>2, PacketAlways, PTL

=============================================================================
