---------------------------- MODULE OffloadActions ----------------------------
(***************************************************************************)
(* How ComputationContext::build_element_graph() derives, for each linear  *)
(* group of elements, where a task's datablocks are pre-processed, where   *)
(* they are post-processed, and where the task's I/O buffers and datablock *)
(* trackers are released (ELEM_OFFL_POSTPROC_FIN).  OffloadPipeline takes  *)
(* the last of the three as its constant Fin.                              *)
(*                                                                         *)
(* A group is the sequence 1..Length; used[e] are the datablocks that      *)
(* get_used_datablocks() of element e reports, none for an element that is *)
(* not offloadable (every offloadable element of the program uses some).   *)
(* The -1 entries the code's vectors begin with cancel in its differences. *)
(***************************************************************************)
EXTENDS Integers

CONSTANTS
    Dbs,      \* datablock ids
    Length    \* elements of the group

ASSUME GroupAssumption == Dbs \subseteq Nat /\ Length \in Nat

Group == 1..Length

VARIABLES
    used,       \* the group
    at,         \* the element the loop is at
    deleted,    \* deleted_dbids left to visit
    allNew,     \* all_new_dbids
    allDel,     \* all_deleted_dbids
    preproc, postproc, fin    \* the offload actions added so far

vars == <<used, at, deleted, allNew, allDel, preproc, postproc, fin>>

Init ==
    /\ used \in [Group -> SUBSET Dbs]
    /\ at = 0
    /\ deleted = {} /\ allNew = {} /\ allDel = {}
    /\ preproc = {} /\ postproc = {} /\ fin = {}

\* cur_dbids and prev_dbids when the loop is at element e.
UsedAt(e) == IF e \in Group THEN used[e] ELSE {}

\* Faulty: only the first element of a run pre-processes.
VisitRunStart ==
    /\ deleted = {} /\ at < Length
    /\ at' = at + 1
    /\ LET new == IF UsedAt(at) = {} THEN UsedAt(at') ELSE {}
       IN /\ preproc' = preproc \cup ({at'} \X new)
          /\ allNew' = allNew \cup new
    /\ deleted' = UsedAt(at) \ UsedAt(at')
    /\ UNCHANGED <<used, allDel, postproc, fin>>

\* Faulty: the previous element is not looked at.
VisitAsFirst ==
    /\ deleted = {} /\ at < Length
    /\ at' = at + 1
    /\ preproc' = preproc \cup ({at'} \X UsedAt(at'))
    /\ allNew' = allNew \cup UsedAt(at')
    /\ deleted' = UsedAt(at)
    /\ UNCHANGED <<used, allDel, postproc, fin>>

\* The next element: what it uses and its predecessor does not is new.
VisitElement ==
    /\ deleted = {} /\ at < Length
    /\ at' = at + 1
    /\ LET new == UsedAt(at') \ UsedAt(at)
       IN /\ preproc' = preproc \cup ({at'} \X new)
          /\ allNew' = allNew \cup new
    /\ deleted' = UsedAt(at) \ UsedAt(at')
    /\ UNCHANGED <<used, allDel, postproc, fin>>

\* Faulty: the sets are not cleared after a FIN action.
DeleteKeepingSets ==
    \E d \in deleted :
      /\ \A c \in deleted : d <= c
      /\ deleted' = deleted \ {d}
      /\ postproc' = postproc \cup {<<at - 1, d>>}
      /\ allDel' = allDel \cup {d}
      /\ fin' = IF allNew # {} /\ allNew = allDel' THEN fin \cup {at - 1} ELSE fin
      /\ UNCHANGED <<used, at, allNew, preproc>>

\* The next datablock the predecessor used last: it is post-processed there, and
\* when the two sets agree the predecessor gets the FIN action as well.
DeleteDatablock ==
    \E d \in deleted :
      /\ \A c \in deleted : d <= c
      /\ deleted' = deleted \ {d}
      /\ postproc' = postproc \cup {<<at - 1, d>>}
      /\ IF allNew # {} /\ allNew = allDel \cup {d}
           THEN fin' = fin \cup {at - 1} /\ allNew' = {} /\ allDel' = {}
           ELSE allDel' = allDel \cup {d} /\ UNCHANGED <<fin, allNew>>
      /\ UNCHANGED <<used, at, preproc>>

Next == VisitElement \/ DeleteDatablock

Spec == Init /\ [][Next]_vars

-----------------------------------------------------------------------------

TypeOK ==
    /\ used \in [Group -> SUBSET Dbs]
    /\ at \in 0..Length
    /\ deleted \subseteq Dbs /\ allNew \subseteq Dbs /\ allDel \subseteq Dbs
    /\ preproc \subseteq Group \X Dbs /\ postproc \subseteq Group \X Dbs
    /\ fin \subseteq Group

\* Elements whose actions are final.
Derived == IF deleted = {} THEN 1..(at - 1) ELSE 1..(at - 2)

\* Runs of adjacent offloadable elements end here.
RunEnd(e) == used[e] # {} /\ UsedAt(e + 1) = {}

\* No datablock is dropped and used again in one run of offloadable elements.
Contiguous ==
    \A e, f, g \in Group :
        e <= f /\ f <= g /\ (\A h \in e..g : used[h] # {}) =>
            used[e] \cap used[g] \subseteq used[f]

\* The buffers of a task are released exactly at the end of a run of offloadable
\* elements: never before an element that still uses them, and never not at all.
\* This is what OffloadPipeline assumes of Fin.
FinEndsRun ==
    Contiguous => \A e \in Derived : e \in fin <=> RunEnd(e)

\* A datablock that an element uses was pre-processed at it or at an earlier
\* element of its run, and was not post-processed in between: the buffers that
\* reused tasks keep on the device hold what the element expects.
LoadedWhereUsed ==
    \A e \in Derived : \A d \in used[e] :
        \E p \in 1..e : /\ <<p, d>> \in preproc
                        /\ \A h \in p..(e - 1) : d \in used[h] /\ <<h, d>> \notin postproc

\* Every datablock that is pre-processed is post-processed once before it is
\* pre-processed again, and after the last element of the run at the latest:
\* results neither stay on the device nor are applied twice.
SavedOnce ==
    \A e \in Derived : \A d \in Dbs :
        <<e, d>> \in postproc <=> d \in used[e] /\ d \notin UsedAt(e + 1)

=============================================================================
