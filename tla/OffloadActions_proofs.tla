------------------------- MODULE OffloadActions_proofs -------------------------
(***************************************************************************)
(* Proofs about the derivation of the offload actions, for groups of every *)
(* length and every number of datablocks.                                  *)
(***************************************************************************)
EXTENDS OffloadActions, TLAPS

\* What is left to delete was used by the previous element and is not used by
\* the one the loop is at.
Deletions == deleted \subseteq UsedAt(at - 1) \ UsedAt(at)

\* The two sets while a run of offloadable elements is visited: all_new_dbids
\* covers what is in use or not yet deleted, and all_deleted_dbids is the rest.
Sets ==
    /\ UsedAt(at) \cup deleted \subseteq allNew
    /\ allDel = allNew \ (UsedAt(at) \cup deleted)

\* Behind a run both are empty again.
Cleared == UsedAt(at) = {} /\ deleted = {} => allNew = {}

\* Every id in all_new_dbids was used in the current run.
FromRun ==
    UsedAt(at) # {} =>
        \A d \in allNew : \E p \in 1..at : d \in used[p] /\ \A h \in p..at : used[h] # {}

FinSoFar == fin = {e \in Derived : RunEnd(e)}

FinInv == Sets /\ Cleared /\ FromRun /\ FinSoFar
Inv == TypeOK /\ Deletions /\ (Contiguous => FinInv)

-----------------------------------------------------------------------------

LEMMA InitInv == Init => Inv
  <1> SUFFICES ASSUME Init PROVE Inv
    OBVIOUS
  <1> USE GroupAssumption
  <1>1. TypeOK
    BY DEF Init, TypeOK
  <1>2. UsedAt(at) = {} /\ Derived = {}
    BY DEF Init, UsedAt, Derived, Group
  <1>3. Deletions
    BY DEF Init, Deletions
  <1>4. Sets /\ Cleared /\ FromRun /\ FinSoFar
    BY <1>2 DEF Init, Sets, Cleared, FromRun, FinSoFar
  <1> QED BY <1>1, <1>3, <1>4 DEF Inv, FinInv

LEMMA UsedType == ASSUME TypeOK, NEW e PROVE UsedAt(e) \subseteq Dbs
  BY DEF TypeOK, UsedAt

\* The step to the next element.
LEMMA VisitInv == ASSUME Inv, VisitElement PROVE Inv'
  <1> USE GroupAssumption
  <1>1. /\ at \in Nat /\ Length \in Nat /\ at < Length
        /\ at' = at + 1 /\ at + 1 \in Group /\ deleted = {}
        /\ used' = used /\ used \in [Group -> SUBSET Dbs]
    BY DEF Inv, TypeOK, VisitElement, Group
  <1>2. /\ deleted' = UsedAt(at) \ UsedAt(at + 1)
        /\ allNew' = allNew \cup (UsedAt(at + 1) \ UsedAt(at))
        /\ preproc' = preproc \cup ({at + 1} \X (UsedAt(at + 1) \ UsedAt(at)))
        /\ UNCHANGED <<allDel, postproc, fin>>
    BY <1>1 DEF VisitElement
  <1>3. UsedAt(at) \subseteq Dbs /\ UsedAt(at + 1) \subseteq Dbs /\ UsedAt(at + 1) = used[at + 1]
    BY <1>1, UsedType DEF Inv, UsedAt
  <1>4. TypeOK'
    <2>1. at' \in 0..Length
      BY <1>1
    <2>2. deleted' \subseteq Dbs /\ allNew' \subseteq Dbs /\ allDel' \subseteq Dbs
      BY <1>2, <1>3 DEF Inv, TypeOK
    <2>3. preproc' \subseteq Group \X Dbs
      BY <1>1, <1>2, <1>3 DEF Inv, TypeOK
    <2> QED BY <1>1, <1>2, <2>1, <2>2, <2>3 DEF Inv, TypeOK
  <1>5. UsedAt(at)' = UsedAt(at + 1) /\ UsedAt(at - 1)' = UsedAt(at)
    BY <1>1 DEF UsedAt
  <1>6. Deletions'
    BY <1>2, <1>5 DEF Deletions
  <1>7. ASSUME Contiguous PROVE FinInv'
    <2> USE <1>7
    <2>1. Sets /\ Cleared /\ FromRun /\ FinSoFar
      BY DEF Inv, FinInv
    \* An id that was deleted in this run does not come back.
    <2>2. allDel \cap UsedAt(at + 1) = {}
      <3> SUFFICES ASSUME NEW d \in allDel, d \in UsedAt(at + 1) PROVE FALSE
        OBVIOUS
      <3>1. d \in allNew /\ d \notin UsedAt(at)
        BY <2>1, <1>1 DEF Sets
      <3>2. UsedAt(at) # {}
        BY <3>1, <2>1, <1>1 DEF Cleared
      <3>3. PICK p \in 1..at : d \in used[p] /\ \A h \in p..at : used[h] # {}
        BY <3>1, <3>2, <2>1 DEF FromRun
      <3>4. \A h \in p..(at + 1) : used[h] # {}
        BY <3>3, <1>1, <1>3
      <3>5. at \in Group /\ p \in Group /\ p <= at /\ at <= at + 1
        BY <1>1 DEF Group
      <3>6. used[p] \cap used[at + 1] \subseteq used[at]
        BY <3>4, <3>5, <1>1 DEF Contiguous
      <3>7. UsedAt(at) = used[at]
        BY <3>5 DEF UsedAt
      <3> QED BY <3>1, <3>3, <3>6, <3>7, <1>3
    <2>3. Sets'
      <3>1. UsedAt(at) \subseteq allNew /\ allDel = allNew \ UsedAt(at)
        BY <2>1, <1>1 DEF Sets
      <3> QED BY <3>1, <2>2, <1>2, <1>5 DEF Sets
    <2>4. Cleared'
      <3> SUFFICES ASSUME UsedAt(at + 1) = {}, UsedAt(at) \ UsedAt(at + 1) = {} PROVE allNew' = {}
        BY <1>2, <1>5 DEF Cleared
      <3>1. allNew = {}
        BY <2>1, <1>1 DEF Cleared
      <3> QED BY <3>1, <1>2
    <2>5. FromRun'
      <3> SUFFICES ASSUME UsedAt(at + 1) # {}, NEW d \in allNew'
                   PROVE \E p \in 1..(at + 1) : d \in used[p] /\ \A h \in p..(at + 1) : used[h] # {}
        BY <1>1, <1>5 DEF FromRun
      <3>1. CASE d \in UsedAt(at + 1)
        <4>1. at + 1 \in 1..(at + 1) /\ \A h \in (at + 1)..(at + 1) : h = at + 1
          BY <1>1
        <4> QED BY <4>1, <3>1, <1>3
      <3>2. CASE d \notin UsedAt(at + 1)
        <4>1. d \in allNew
          BY <3>2, <1>2
        <4>2. UsedAt(at) # {}
          BY <4>1, <2>1, <1>1 DEF Cleared
        <4>3. PICK p \in 1..at : d \in used[p] /\ \A h \in p..at : used[h] # {}
          BY <4>1, <4>2, <2>1 DEF FromRun
        <4>4. p \in 1..(at + 1) /\ \A h \in p..(at + 1) : h \in p..at \/ h = at + 1
          BY <1>1
        <4> QED BY <4>3, <4>4, <1>3
      <3> QED BY <3>1, <3>2
    <2>6. FinSoFar'
      <3>1. Derived = 1..(at - 1)
        BY <1>1 DEF Derived
      <3>2. \A e : RunEnd(e)' <=> RunEnd(e)
        BY <1>1 DEF RunEnd, UsedAt
      <3>3. CASE UsedAt(at) \ UsedAt(at + 1) # {}
        <4>1. Derived' = 1..(at - 1)
          BY <3>3, <1>1, <1>2 DEF Derived
        <4> QED BY <4>1, <3>1, <3>2, <2>1, <1>2 DEF FinSoFar
      <3>4. CASE UsedAt(at) \ UsedAt(at + 1) = {}
        <4>1. Derived' = 1..at
          BY <3>4, <1>1, <1>2 DEF Derived
        <4>2. \A e \in 1..at : e \in 1..(at - 1) \/ e = at
          BY <1>1
        <4>3. at \in 1..at => ~RunEnd(at)
          <5>1. at \in 1..at => UsedAt(at) = used[at]
            BY <1>1 DEF UsedAt, Group
          <5> QED BY <5>1, <3>4 DEF RunEnd
        <4>4. 1..(at - 1) \subseteq 1..at
          BY <1>1
        <4> QED BY <4>1, <4>2, <4>3, <4>4, <3>1, <3>2, <2>1, <1>2 DEF FinSoFar
      <3> QED BY <3>3, <3>4
    <2> QED BY <2>3, <2>4, <2>5, <2>6 DEF FinInv
  <1>8. Contiguous' => Contiguous
    BY <1>1 DEF Contiguous
  <1> QED BY <1>4, <1>6, <1>7, <1>8 DEF Inv

\* The step that post-processes one datablock.
LEMMA DeleteInv == ASSUME Inv, DeleteDatablock PROVE Inv'
  <1> USE GroupAssumption
  <1>1. PICK d \in deleted :
            /\ deleted' = deleted \ {d}
            /\ postproc' = postproc \cup {<<at - 1, d>>}
            /\ IF allNew # {} /\ allNew = allDel \cup {d}
                 THEN fin' = fin \cup {at - 1} /\ allNew' = {} /\ allDel' = {}
                 ELSE allDel' = allDel \cup {d} /\ UNCHANGED <<fin, allNew>>
            /\ UNCHANGED <<used, at, preproc>>
    BY DEF DeleteDatablock
  <1>2. d \in UsedAt(at - 1) /\ d \notin UsedAt(at) /\ d \in Dbs
    BY DEF Inv, Deletions, TypeOK
  <1>3. at \in Nat /\ at - 1 \in Group
    BY <1>2 DEF Inv, TypeOK, UsedAt
  <1>4. TypeOK'
    <2>1. deleted' \subseteq Dbs /\ allNew' \subseteq Dbs /\ allDel' \subseteq Dbs
      BY <1>1, <1>2 DEF Inv, TypeOK
    <2>2. postproc' \subseteq Group \X Dbs
      BY <1>1, <1>2, <1>3 DEF Inv, TypeOK
    <2>3. fin' \subseteq Group
      BY <1>1, <1>3 DEF Inv, TypeOK
    <2> QED BY <1>1, <2>1, <2>2, <2>3 DEF Inv, TypeOK
  <1>5. UsedAt(at)' = UsedAt(at) /\ UsedAt(at - 1)' = UsedAt(at - 1)
    BY <1>1 DEF UsedAt
  <1>6. Deletions'
    BY <1>1, <1>5 DEF Inv, Deletions
  <1>7. ASSUME Contiguous PROVE FinInv'
    <2> USE <1>7
    <2>1. Sets /\ Cleared /\ FromRun /\ FinSoFar
      BY DEF Inv, FinInv
    <2>2. /\ UsedAt(at) \cup deleted \subseteq allNew
          /\ allDel = allNew \ (UsedAt(at) \cup deleted)
      BY <2>1 DEF Sets
    <2>3. \A e : RunEnd(e)' <=> RunEnd(e)
      BY <1>1 DEF RunEnd, UsedAt
    <2>4. Derived = 1..(at - 2)
      BY <1>1 DEF Derived
    \* The sets agree after the last deletion behind a run, and only then.
    <2>5. CASE UsedAt(at) = {} /\ deleted = {d}
      <3>1. allNew # {} /\ allNew = allDel \cup {d}
        BY <2>2, <2>5
      <3>2. fin' = fin \cup {at - 1} /\ allNew' = {} /\ allDel' = {} /\ deleted' = {}
        BY <3>1, <1>1, <2>5
      <3>3. Sets' /\ Cleared' /\ FromRun'
        BY <3>2, <1>5, <2>5 DEF Sets, Cleared, FromRun
      <3>4. FinSoFar'
        <4>1. Derived' = 1..(at - 1)
          BY <3>2, <1>1 DEF Derived
        <4>2. RunEnd(at - 1)
          <5>1. UsedAt(at - 1) = used[at - 1] /\ (at - 1) + 1 = at
            BY <1>3 DEF UsedAt
          <5> QED BY <5>1, <1>2, <2>5 DEF RunEnd
        <4>3. 1..(at - 1) = 1..(at - 2) \cup {at - 1}
          BY <1>3 DEF Group
        <4> QED BY <4>1, <4>2, <4>3, <3>2, <2>1, <2>3, <2>4 DEF FinSoFar
      <3> QED BY <3>3, <3>4 DEF FinInv
    <2>6. CASE ~(UsedAt(at) = {} /\ deleted = {d})
      <3>1. allNew # allDel \cup {d}
        <4>1. PICK x \in UsedAt(at) \cup deleted : x # d
          BY <2>6, <1>2
        <4> QED BY <4>1, <2>2
      <3>2. allDel' = allDel \cup {d} /\ fin' = fin /\ allNew' = allNew
        BY <3>1, <1>1
      <3>3. Sets'
        BY <3>2, <2>2, <1>1, <1>2, <1>5 DEF Sets
      <3>4. Cleared'
        BY <2>6, <1>1, <1>5 DEF Cleared
      <3>5. FromRun'
        BY <3>2, <2>1, <1>1, <1>5 DEF FromRun
      <3>6. FinSoFar'
        <4>1. CASE deleted' # {}
          <5>1. Derived' = Derived
            BY <4>1, <1>1 DEF Derived
          <5> QED BY <5>1, <3>2, <2>1, <2>3 DEF FinSoFar
        <4>2. CASE deleted' = {}
          <5>1. Derived' = 1..(at - 1)
            BY <4>2, <1>1 DEF Derived
          <5>2. UsedAt(at) # {}
            BY <4>2, <2>6, <1>1
          <5>3. ~RunEnd(at - 1)
            <6>1. (at - 1) + 1 = at
              BY <1>3
            <6> QED BY <6>1, <5>2 DEF RunEnd
          <5>4. 1..(at - 1) = 1..(at - 2) \cup {at - 1}
            BY <1>3 DEF Group
          <5> QED BY <5>1, <5>3, <5>4, <3>2, <2>1, <2>3, <2>4 DEF FinSoFar
        <4> QED BY <4>1, <4>2
      <3> QED BY <3>3, <3>4, <3>5, <3>6 DEF FinInv
    <2> QED BY <2>5, <2>6
  <1>8. Contiguous' => Contiguous
    BY <1>1 DEF Contiguous
  <1> QED BY <1>4, <1>6, <1>7, <1>8 DEF Inv

LEMMA StutterInv == ASSUME Inv, UNCHANGED vars PROVE Inv'
  <1>1. TypeOK' /\ Deletions'
    BY DEF Inv, TypeOK, Deletions, UsedAt, vars
  <1>2. Contiguous' <=> Contiguous
    BY DEF Contiguous, vars
  <1>3. Sets' <=> Sets
    BY DEF Sets, UsedAt, vars
  <1>4. Cleared' <=> Cleared
    BY DEF Cleared, UsedAt, vars
  <1>5. FromRun' <=> FromRun
    BY DEF FromRun, UsedAt, vars
  <1>6. FinSoFar' <=> FinSoFar
    BY DEF FinSoFar, Derived, RunEnd, UsedAt, vars
  <1> QED BY <1>1, <1>2, <1>3, <1>4, <1>5, <1>6 DEF Inv, FinInv

LEMMA InvHolds == Spec => []Inv
  <1>1. Inv /\ [Next]_vars => Inv'
    BY VisitInv, DeleteInv, StutterInv DEF Next
  <1> QED BY <1>1, InitInv, PTL DEF Spec

\* Every variable always has its type.
THEOREM TypeCorrect == Spec => []TypeOK
  <1>1. Inv => TypeOK
    BY DEF Inv
  <1> QED BY <1>1, InvHolds, PTL

\* In a group of any length that never returns to a datablock within a run, the
\* FIN action is derived for exactly the last element of every run: this is
\* ChainAssumption, which OffloadPipeline makes of its constant Fin.
THEOREM FinCorrect == Spec => []FinEndsRun
  <1>1. Inv => FinEndsRun
    BY DEF Inv, FinInv, FinSoFar, FinEndsRun
  <1> QED BY <1>1, InvHolds, PTL

-----------------------------------------------------------------------------

\* Post-processing so far: where a datablock was used last, but for what is left.
SavedSoFar ==
    \A e \in Group, d \in Dbs :
        <<e, d>> \in postproc <=>
            /\ e \in 1..(at - 1) /\ d \in used[e] /\ d \notin UsedAt(e + 1)
            /\ ~(e = at - 1 /\ d \in deleted)

\* Pre-processing so far: what an element uses was used ever since.
LoadedSoFar ==
    \A e \in Group : e <= at => \A d \in used[e] :
        \E p \in 1..e : <<p, d>> \in preproc /\ \A h \in p..e : d \in used[h]

\* The step to the next element leaves what it does not use any more to be saved.
LEMMA VisitSaved == ASSUME Inv, SavedSoFar, VisitElement PROVE SavedSoFar'
  <1> USE GroupAssumption
  <1>1. /\ at \in Nat /\ at' = at + 1 /\ deleted = {}
        /\ used' = used /\ postproc' = postproc
        /\ deleted' = UsedAt(at) \ UsedAt(at + 1)
    BY DEF Inv, TypeOK, VisitElement
  <1>2. at' - 1 = at
    BY <1>1
  <1> SUFFICES ASSUME NEW e \in Group, NEW d \in Dbs
               PROVE  <<e, d>> \in postproc <=>
                        /\ e \in 1..at /\ d \in used[e] /\ d \notin UsedAt(e + 1)
                        /\ ~(e = at /\ d \in UsedAt(at) \ UsedAt(at + 1))
    BY <1>1, <1>2 DEF SavedSoFar, UsedAt
  <1>3. <<e, d>> \in postproc <=> e \in 1..(at - 1) /\ d \in used[e] /\ d \notin UsedAt(e + 1)
    BY <1>1 DEF SavedSoFar
  <1>4. CASE e = at
    <2>1. UsedAt(e) = used[e]
      BY DEF UsedAt
    <2> QED BY <1>1, <1>3, <1>4, <2>1
  <1>5. CASE e # at
    <2>1. e \in 1..(at - 1) <=> e \in 1..at
      BY <1>1, <1>5 DEF Group
    <2> QED BY <1>3, <1>5, <2>1
  <1> QED BY <1>4, <1>5

\* What the next element uses was used before, or is pre-processed there.
LEMMA VisitLoaded == ASSUME Inv, LoadedSoFar, VisitElement PROVE LoadedSoFar'
  <1> USE GroupAssumption
  <1>1. /\ at \in Nat /\ at' = at + 1 /\ at + 1 \in Group /\ used' = used
        /\ preproc' = preproc \cup ({at + 1} \X (UsedAt(at + 1) \ UsedAt(at)))
    BY DEF Inv, TypeOK, VisitElement, Group
  <1> SUFFICES ASSUME NEW e \in Group, e <= at + 1, NEW d \in used[e]
               PROVE  \E p \in 1..e : <<p, d>> \in preproc' /\ \A h \in p..e : d \in used[h]
    BY <1>1 DEF LoadedSoFar
  <1>2. CASE e <= at
    BY <1>1, <1>2 DEF LoadedSoFar
  <1>3. CASE e = at + 1 /\ d \in UsedAt(at)
    <2>1. at \in Group /\ UsedAt(at) = used[at]
      BY <1>3 DEF UsedAt
    <2>2. PICK p \in 1..at : <<p, d>> \in preproc /\ \A h \in p..at : d \in used[h]
      BY <1>1, <1>3, <2>1 DEF LoadedSoFar
    <2>3. p \in 1..e /\ \A h \in p..e : h \in p..at \/ h = e
      BY <1>1, <1>3
    <2> QED BY <1>1, <2>2, <2>3
  <1>4. CASE e = at + 1 /\ d \notin UsedAt(at)
    <2>1. UsedAt(at + 1) = used[e]
      BY <1>4 DEF UsedAt
    <2>2. <<e, d>> \in preproc'
      BY <1>1, <1>4, <2>1
    <2>3. e \in 1..e /\ \A h \in e..e : h = e
      BY DEF Group
    <2> QED BY <2>2, <2>3
  <1> QED BY <1>1, <1>2, <1>3, <1>4 DEF Group

\* What is deleted was used last by the previous element, and is saved there.
LEMMA DeleteSaved == ASSUME Inv, SavedSoFar, DeleteDatablock PROVE SavedSoFar'
  <1> USE GroupAssumption
  <1>1. PICK c \in deleted :
            /\ deleted' = deleted \ {c}
            /\ postproc' = postproc \cup {<<at - 1, c>>}
            /\ UNCHANGED <<used, at>>
    BY DEF DeleteDatablock
  <1>2. c \in UsedAt(at - 1) /\ c \notin UsedAt(at)
    BY DEF Inv, Deletions
  <1>3. at \in Nat /\ at - 1 \in Group /\ UsedAt(at - 1) = used[at - 1] /\ (at - 1) + 1 = at
    BY <1>2 DEF Inv, TypeOK, UsedAt
  <1> SUFFICES ASSUME NEW e \in Group, NEW d \in Dbs
               PROVE  <<e, d>> \in postproc' <=>
                        /\ e \in 1..(at - 1) /\ d \in used[e] /\ d \notin UsedAt(e + 1)
                        /\ ~(e = at - 1 /\ d \in deleted \ {c})
    BY <1>1 DEF SavedSoFar, UsedAt
  <1>4. CASE e = at - 1 /\ d = c
    <2>1. at - 1 \in 1..(at - 1)
      BY <1>3 DEF Group
    <2> QED BY <1>1, <1>2, <1>3, <1>4, <2>1
  <1>5. CASE ~(e = at - 1 /\ d = c)
    <2>1. <<e, d>> \in postproc' <=> <<e, d>> \in postproc
      BY <1>1, <1>5
    <2> QED BY <1>5, <2>1 DEF SavedSoFar
  <1> QED BY <1>4, <1>5

\* Both hold while a group is visited.
LEMMA SoFarHolds == Spec => [](SavedSoFar /\ LoadedSoFar)
  <1>1. Init => SavedSoFar /\ LoadedSoFar
    BY DEF Init, SavedSoFar, LoadedSoFar, Group
  <1>2. ASSUME Inv, SavedSoFar, LoadedSoFar, [Next]_vars PROVE SavedSoFar' /\ LoadedSoFar'
    <2>1. CASE VisitElement
      BY <1>2, <2>1, VisitSaved, VisitLoaded
    <2>2. CASE DeleteDatablock
      <3>1. LoadedSoFar' <=> LoadedSoFar
        BY <2>2 DEF DeleteDatablock, LoadedSoFar
      <3> QED BY <1>2, <2>2, <3>1, DeleteSaved
    <2>3. CASE UNCHANGED vars
      <3>1. LoadedSoFar' <=> LoadedSoFar
        BY <2>3 DEF LoadedSoFar, vars
      <3>2. SavedSoFar' <=> SavedSoFar
        BY <2>3 DEF SavedSoFar, UsedAt, vars
      <3> QED BY <1>2, <3>1, <3>2
    <2> QED BY <1>2, <2>1, <2>2, <2>3 DEF Next
  <1> QED BY <1>1, <1>2, InvHolds, PTL DEF Spec

\* In a group of any length a datablock is post-processed at exactly the elements that
\* use it and are not followed by one that does.
THEOREM SavedCorrect == Spec => []SavedOnce
  <1>1. ASSUME Inv, SavedSoFar PROVE SavedOnce
    <2>1. at \in Nat /\ Length \in Nat
      BY <1>1, GroupAssumption DEF Inv, TypeOK
    <2> SUFFICES ASSUME NEW e \in Derived, NEW d \in Dbs
                 PROVE  <<e, d>> \in postproc <=> d \in used[e] /\ d \notin UsedAt(e + 1)
      BY DEF SavedOnce
    <2>2. e \in Group /\ e \in 1..(at - 1) /\ ~(e = at - 1 /\ d \in deleted)
      BY <1>1, <2>1 DEF Derived, Inv, TypeOK, Group
    <2> QED BY <1>1, <2>2 DEF SavedSoFar
  <1> QED BY <1>1, SoFarHolds, InvHolds, PTL

\* In a group of any length, what an element uses was pre-processed at it or before,
\* was used by every element since, and was not post-processed in between.
THEOREM LoadedCorrect == Spec => []LoadedWhereUsed
  <1>1. ASSUME Inv, SavedSoFar, LoadedSoFar PROVE LoadedWhereUsed
    <2>1. at \in Nat /\ Length \in Nat /\ used \in [Group -> SUBSET Dbs]
      BY <1>1, GroupAssumption DEF Inv, TypeOK
    <2> SUFFICES ASSUME NEW e \in Derived, NEW d \in used[e]
                 PROVE  \E p \in 1..e :
                          /\ <<p, d>> \in preproc
                          /\ \A h \in p..(e - 1) : d \in used[h] /\ <<h, d>> \notin postproc
      BY DEF LoadedWhereUsed
    <2>2. e \in Group /\ e <= at
      BY <1>1, <2>1 DEF Derived, Inv, TypeOK, Group
    <2>3. PICK p \in 1..e : <<p, d>> \in preproc /\ \A h \in p..e : d \in used[h]
      BY <1>1, <2>2 DEF LoadedSoFar
    <2>4. ASSUME NEW h \in p..(e - 1) PROVE d \in used[h] /\ <<h, d>> \notin postproc
      <3>1. h \in p..e /\ h + 1 \in p..e /\ h \in Group /\ h + 1 \in Group
        BY <2>1, <2>2, <2>3 DEF Group
      <3>2. d \in used[h] /\ d \in UsedAt(h + 1)
        BY <2>3, <3>1 DEF UsedAt
      <3>3. d \in Dbs
        BY <2>1, <2>2
      <3> QED BY <1>1, <3>1, <3>2, <3>3 DEF SavedSoFar
    <2> QED BY <2>3, <2>4
  <1> QED BY <1>1, SoFarHolds, InvHolds, PTL

=============================================================================
