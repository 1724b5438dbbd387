----------------------------- MODULE LinearGroups -----------------------------
(***************************************************************************)
(* GraphAnalyzer::analyze(): a depth-first search puts elements that only  *)
(* follow each other into a linear group.  ComputationContext derives the  *)
(* offload actions for each group (OffloadActions).                        *)
(*                                                                         *)
(* Edges go from lower to higher numbers, since packets flow from the      *)
(* inputs to the outputs; roots are the elements without incoming edges,   *)
(* as the parser has them.  Sets of pointers are visited in any order.     *)
(***************************************************************************)
EXTENDS Integers, Sequences, FiniteSets, SequencesExt

CONSTANT NumModules    \* total_modules

ModulesAssumption == NumModules \in Nat

Modules == 1..NumModules

VARIABLES
    outEdge,        \* of each element
    roots,          \* roots left
    dfsStack, visited,
    linear_group,   \* of each element, -1 for none
    linear_group_set

vars == <<outEdge, roots, dfsStack, visited, linear_group, linear_group_set>>

inEdge(m) == {p \in Modules : m \in outEdge[p]}

Init ==
    /\ \E edges \in SUBSET {e \in Modules \X Modules : e[1] < e[2]} :
          outEdge = [m \in Modules |-> {c \in Modules : <<m, c>> \in edges}]
    /\ roots = {m \in Modules : inEdge(m) = {}}
    /\ dfsStack = <<>> /\ visited = {}
    /\ linear_group = [m \in Modules |-> -1]
    /\ linear_group_set = <<>>

Root(m) ==
    /\ dfsStack = <<>> /\ m \in roots
    /\ roots' = roots \ {m}
    /\ dfsStack' = <<m>>
    /\ UNCHANGED <<outEdge, visited, linear_group, linear_group_set>>

Only(s) == CHOOSE m \in s : TRUE

\* Faulty: the parent may have other children.
InheritedFromAny(m) ==
    IF Cardinality(inEdge(m)) = 1 THEN linear_group[Only(inEdge(m))] ELSE linear_group[m]

\* The group of an only parent whose only child the element is.
Inherited(m) ==
    IF Cardinality(inEdge(m)) = 1 /\ Cardinality(outEdge[Only(inEdge(m))]) = 1
      THEN linear_group[Only(inEdge(m))] ELSE linear_group[m]

\* Faulty: children are pushed however often they were visited.
AllChildren(m) == outEdge[m]

NewChildren(m) == outEdge[m] \ visited

\* The element on top of the stack; it may have been visited before.
Visit ==
    /\ dfsStack # <<>>
    /\ LET current == Last(dfsStack)
           inherited == Inherited(current)
           opens == inherited = -1 /\ Cardinality(outEdge[current]) = 1
           group == IF opens THEN Len(linear_group_set) ELSE inherited
           groups == IF opens THEN Append(linear_group_set, <<>>) ELSE linear_group_set
       IN /\ \E children \in SetToSeqs(NewChildren(current)) :
               dfsStack' = Front(dfsStack) \o children
          /\ visited' = visited \cup {current}
          /\ linear_group' = [linear_group EXCEPT ![current] = group]
          /\ linear_group_set' =
               IF group = -1 THEN groups
               ELSE [groups EXCEPT ![group + 1] = Append(@, current)]
    /\ UNCHANGED <<outEdge, roots>>

Next == Visit \/ \E m \in roots : Root(m)

Spec == Init /\ [][Next]_vars

-----------------------------------------------------------------------------

Done == dfsStack = <<>> /\ roots = {}

\* Nothing else leads from p, and nothing else to m.
OnlyFollows(p, m) == outEdge[p] = {m} /\ inEdge(m) = {p}

FirstAt(g, m) == SelectInSeq(g, LAMBDA e : e = m)
Groups == {linear_group_set[i] : i \in DOMAIN linear_group_set}

\* But for elements that occur again, the groups are the longest paths on which
\* elements only follow each other, in their order: neighbours in a group do, an
\* element that does stands right behind its predecessor, and no element is in two.
GroupsArePaths ==
    Done => \A m \in Modules :
        /\ Cardinality({g \in Groups : Contains(g, m)}) <= 1
        /\ \A g \in Groups : Contains(g, m) /\ FirstAt(g, m) > 1 =>
               OnlyFollows(g[FirstAt(g, m) - 1], m)
        /\ \A p \in Modules : OnlyFollows(p, m) =>
               \E g \in Groups : /\ Contains(g, p) /\ FirstAt(g, m) = FirstAt(g, p) + 1

Below == [m \in Modules |-> {c \in Modules : \E path \in SUBSET Modules :
              /\ m \in path /\ c \in path
              /\ \A e \in path \ {c} : outEdge[e] \cap path # {} /\ e < c}]

\* An element is in its group once unless it is a child of an element and also below
\* another child of it: only then it may be on the stack twice.
OnceUnlessShortcut ==
    Done => \A g \in Groups : \A m \in Modules :
        Cardinality({i \in DOMAIN g : g[i] = m}) > 1 =>
            \E p \in inEdge(m) : \E c \in outEdge[p] \ {m} : m \in Below[c]

=============================================================================
