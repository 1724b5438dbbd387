---------------------------- MODULE MCSequential ----------------------------
(***************************************************************************)
(* The parts of the program that run on one thread and share nothing with  *)
(* each other: the queue of the element graph, and what is computed once   *)
(* at start-up.  A behaviour is one of one part.                           *)
(***************************************************************************)
EXTENDS FixedRing

CONSTANTS
    High, Low, Flag, NextHops, MaxRoutes,
    Bits, Buckets, MaxAdds,
    NumModules

VARIABLES
    part,
    rib, written, TBL24, TBLlong, current,
    dests, chain, lost, items, adds, pending, route, start, end,
    outEdge, roots, dfsStack, visited, linear_group, linear_group_set

Fib == INSTANCE Ipv4Fib
Routes == INSTANCE Ipv6Routes
Graph == INSTANCE LinearGroups

ASSUME PartsAssumption ==
    Fib!FibAssumption /\ Routes!TableAssumption /\ Graph!ModulesAssumption

fibVars == <<rib, written, TBL24, TBLlong, current>>
routeVars == <<dests, chain, lost, items, adds, pending, route, start, end>>
graphVars == <<outEdge, roots, dfsStack, visited, linear_group, linear_group_set>>

NoFib == rib = <<>> /\ written = <<>> /\ TBL24 = <<>> /\ TBLlong = <<>> /\ current = <<>>
NoRoutes ==
    /\ dests = <<>> /\ chain = <<>> /\ lost = <<>> /\ items = <<>> /\ adds = <<>>
    /\ pending = <<>> /\ route = <<>> /\ start = <<>> /\ end = <<>>
NoGraph ==
    /\ outEdge = <<>> /\ roots = <<>> /\ dfsStack = <<>> /\ visited = <<>>
    /\ linear_group = <<>> /\ linear_group_set = <<>>

AnyInit ==
    \/ part = "ring" /\ Init /\ NoFib /\ NoRoutes /\ NoGraph
    \/ part = "fib" /\ Init /\ Fib!Init /\ NoRoutes /\ NoGraph
    \/ part = "routes" /\ Init /\ NoFib /\ Routes!Init /\ NoGraph
    \/ part = "graph" /\ Init /\ NoFib /\ NoRoutes /\ Graph!Init

AnyNext ==
    /\ part' = part
    /\ \/ part = "ring" /\ Next /\ UNCHANGED <<fibVars, routeVars, graphVars>>
       \/ part = "fib" /\ Fib!Next /\ UNCHANGED <<vars, routeVars, graphVars>>
       \/ part = "routes" /\ Routes!Next /\ UNCHANGED <<vars, fibVars, graphVars>>
       \/ part = "graph" /\ Graph!Next /\ UNCHANGED <<vars, fibVars, routeVars>>

AnySpec == AnyInit /\ [][AnyNext]_<<part, vars, fibVars, routeVars, graphVars>>

-----------------------------------------------------------------------------

\* IPlookup: an address gets the next hop of its longest route, from two arrays.
FibLongestMatch == part = "fib" => Fib!LookupIsLongestMatch

\* LookupIP6Route: an address gets the destination of its longest route, unless what
\* went wrong in building the table lies on its way.
RoutesLongestMatch == part = "routes" => Routes!LookupIsLongest

\* GraphAnalyzer: the groups are the longest paths without branches and joins.
GroupsArePaths == part = "graph" => Graph!GroupsArePaths

\* GraphAnalyzer: an element occurs in its group once, but behind a shortcut.
OnceUnlessShortcut == part = "graph" => Graph!OnceUnlessShortcut

=============================================================================
