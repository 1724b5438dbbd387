------------------------------ MODULE Ipv6Routes ------------------------------
(***************************************************************************)
(* The routing table of LookupIP6Route: one hash table for each length of  *)
(* a prefix, and a binary search over the lengths.  build() leaves markers *)
(* in the tables that the search for a prefix visits, with the best match  *)
(* so far, to send the search on to longer prefixes.  Addresses have Bits  *)
(* bits instead of 128; the tables are m_Tables[0] to m_Tables[Bits - 1].  *)
(*                                                                         *)
(* A bucket is the sequence of its chain.  An insert cuts off what follows *)
(* its item; what was cut off is found no more, but stays in the array and *)
(* build() comes to it.  States of items are left out: they select what    *)
(* build() iterates over, which is all that was added, since no table has  *)
(* markers before the next one is iterated over.                           *)
(***************************************************************************)
EXTENDS Integers, Sequences, SequencesExt

CONSTANTS
    Bits,
    Buckets,      \* m_TableSize
    MaxAdds       \* bound: routes that are added, but for those of Init

TableAssumption == Bits \in Nat \ {0} /\ Buckets \in Nat \ {0} /\ MaxAdds \in Nat

\* 1 << n, as a recursive function, which can be reasoned about.
PowerOf2[n \in 0..Bits] == IF n = 0 THEN 1 ELSE 2 * PowerOf2[n - 1]

Addresses == 0..(PowerOf2[Bits] - 1)
Tables == 0..(Bits - 1)

mask(a, len) == a - (a % PowerOf2[Bits - len])
RoutePrefixes ==
    UNION {{[len |-> l, addr |-> k * PowerOf2[Bits - l]] : k \in 0..(PowerOf2[l] - 1)} :
              l \in 1..Bits}
Covers(p, ip) == mask(ip, p.len) = p.addr

\* jhash2() modulo the size: any function of the key.
HASH(key) == key % Buckets

VARIABLES
    dests,      \* destinations of the routes that were added
    chain,      \* the tables
    adds,       \* routes added so far
    lost,       \* history: what inserts cut off, as tables and keys
    items,      \* items of the arrays: a route, and the call that took the item
    pending,    \* items that build() still iterates over
    route, start, end  \* the route it is at, and its search

vars == <<dests, chain, lost, items, adds, pending, route, start, end>>

NoRoute == [len |-> 0, addr |-> 0]

-----------------------------------------------------------------------------
(* HashTable128                                                            *)

KeyAt(c, key) == SelectInSeq(c, LAMBDA item : item.key = key)

\* An item that is already there becomes the last one of its chain: its link is reset.
insert(t, key, val) ==
    LET c == chain[t][HASH(key)]
        i == KeyAt(c, key)
        kept == IF i = 0 THEN c ELSE SubSeq(c, 1, i - 1)
    IN /\ chain' = [chain EXCEPT ![t][HASH(key)] = Append(kept, [key |-> key, val |-> val])]
       /\ lost' = lost \cup {<<t, c[j].key>> : j \in IF i = 0 THEN {} ELSE (i + 1)..Len(c)}

find(t, key) ==
    LET c == chain[t][HASH(key)]
        i == KeyAt(c, key)
    IN IF i = 0 THEN 0 ELSE c[i].val

-----------------------------------------------------------------------------
(* RoutingTableV6                                                          *)

\* One turn of the search.  A marker with destination 0 counts as not found.
Searched(s, ip) ==
    LET len == (s.start + s.end) \div 2
        temp == find(len, mask(ip, len + 1))
    IN IF s.start > s.end THEN s
       ELSE IF temp = 0 THEN [s EXCEPT !.end = len - 1]
       ELSE [s EXCEPT !.start = len + 1, !.result = temp]

\* Each turn leaves fewer lengths, so that there are no more turns than lengths.
Search(ip) ==
    LET After[n \in 0..Bits] ==
          IF n = 0 THEN [start |-> 0, end |-> Bits - 1, result |-> 0]
          ELSE Searched(After[n - 1], ip)
    IN After

lookup(ip) == Search(ip)[Bits].result

\* A route that is found already gets another destination; one that was cut off gets
\* another item.  Destinations are told apart by the number of the call; the program's
\* are random, from 1 on.
add(p) ==
    /\ pending = {} /\ route = NoRoute /\ adds < MaxAdds
    /\ adds' = adds + 1
    /\ insert(p.len - 1, p.addr, adds + 1)
    /\ dests' = [q \in DOMAIN dests \cup {p} |-> IF q = p THEN adds + 1 ELSE dests[q]]
    /\ items' = IF find(p.len - 1, p.addr) = 0 THEN items \cup {<<p, adds + 1>>} ELSE items
    /\ UNCHANGED <<pending, route, start, end>>

Build ==
    /\ adds = MaxAdds
    /\ adds' = MaxAdds + 1
    /\ pending' = items
    /\ UNCHANGED <<dests, chain, lost, items, route, start, end>>

Turn(x) == \A y \in pending : x[1].len <= y[1].len

Visit ==
    /\ route = NoRoute
    /\ \E x \in pending : Turn(x) /\ route' = x[1] /\ pending' = pending \ {x}
    /\ start' = 0 /\ end' = Bits - 1
    /\ UNCHANGED <<dests, chain, lost, items, adds>>

len_marker == (start + end) \div 2

\* Faulty: a marker leads to the route's own destination.
MarkerOfRoute == dests[route]

\* The best match among the shorter routes, all of which were visited.
marker_dest == lookup(mask(route.addr, len_marker + 1))

\* A marker goes where the search would turn to longer prefixes.
Mark ==
    /\ route # NoRoute /\ len_marker < route.len - 1
    /\ insert(len_marker, mask(route.addr, len_marker + 1), marker_dest)
    /\ start' = len_marker + 1
    /\ UNCHANGED <<dests, items, adds, pending, route, end>>

GoShorter ==
    /\ route # NoRoute /\ len_marker > route.len - 1
    /\ end' = len_marker - 1
    /\ UNCHANGED <<dests, chain, lost, items, adds, pending, route, start>>

Leave ==
    /\ route # NoRoute /\ len_marker = route.len - 1
    /\ route' = NoRoute /\ start' = 0 /\ end' = 0
    /\ UNCHANGED <<dests, chain, lost, items, adds, pending>>

\* The routes of length 1 cover every address.
Halves == {p \in RoutePrefixes : p.len = 1}

\* The first routes get numbers behind those of add().
Init ==
    \E base \in {{}, Halves} :
      /\ dests = [p \in base |-> MaxAdds + 1 + p.addr]
      /\ chain = [t \in Tables |-> [b \in 0..(Buckets - 1) |->
             SetToSeq({[key |-> p.addr, val |-> dests[p]] :
                         p \in {q \in base : q.len = t + 1 /\ HASH(q.addr) = b}})]]
      /\ items = {<<p, 0>> : p \in base}
      /\ lost = {} /\ adds = 0 /\ pending = {} /\ route = NoRoute /\ start = 0 /\ end = 0

Next ==
    \/ Build \/ Visit \/ Mark \/ GoShorter \/ Leave
    \/ \E p \in RoutePrefixes : add(p)

Spec == Init /\ [][Next]_vars

-----------------------------------------------------------------------------

Built == adds = MaxAdds + 1 /\ pending = {} /\ route = NoRoute

Longest(ps) == CHOOSE p \in ps : \A q \in ps : q.len <= p.len
Dest(ps) == IF ps = {} THEN 0 ELSE dests[Longest(ps)]
Matching(ip) == {p \in DOMAIN dests : Covers(p, ip)}

\* The lengths among which a search for one goes on.
Middle(r) == (r.start + r.end) \div 2
Narrowed(r, len) ==
    IF Middle(r) < len THEN [r EXCEPT !.start = Middle(r) + 1]
    ELSE IF Middle(r) > len THEN [r EXCEPT !.end = Middle(r) - 1]
    ELSE r
Among(len) ==
    LET After[n \in 0..Bits] ==
          IF n = 0 THEN [start |-> 0, end |-> Bits - 1] ELSE Narrowed(After[n - 1], len)
    IN After

\* Where the search for a length turns to longer prefixes.
Turns(len) == {Middle(Among(len)[n]) : n \in 0..Bits} \cap 0..(len - 1)

\* The routes whose markers all have a destination, which is that of a shorter route
\* for which the same holds.
LedTo(p, shorter) ==
    \A m \in Turns(p.len - 1) : \E q \in shorter : q.len <= m + 1 /\ Covers(q, p.addr)
UpTo[n \in 0..Bits] ==
    IF n = 0 THEN {}
    ELSE UpTo[n - 1] \cup {p \in DOMAIN dests : p.len = n /\ LedTo(p, UpTo[n - 1])}
Guided == UpTo[Bits]

MatchLen(ip) == IF Matching(ip) = {} THEN 0 ELSE Longest(Matching(ip)).len

\* The tables with a marker on the way of this address.
Markers(ip) ==
    {m \in Tables : \E p \in DOMAIN dests :
        m \in Turns(p.len - 1) /\ mask(p.addr, m + 1) = mask(ip, m + 1)}

\* Nothing was cut off that a lookup of this address can come to in the first n tables.
IntactTo(ip, n) == \A t \in 0..(n - 1) : <<t, mask(ip, t + 1)>> \notin lost

\* The address that a marker's destination is looked up for, the rest of which is 0, has
\* no route that is longer than the marker.
Clear(m, ip) == \A q \in Matching(mask(ip, m + 1)) : q.len <= m + 1

\* Markers lead to the address' longest route, nothing is cut off on the way to it, and
\* the markers from there on have the destination of no longer route.
Sound(ip) ==
    /\ Matching(ip) # {} => Longest(Matching(ip)) \in Guided
    /\ IntactTo(ip, MatchLen(ip))
    /\ \A m \in Markers(ip) : m + 1 >= MatchLen(ip) => Clear(m, ip)

\* However routes nest, whatever shares their buckets, and whichever of them markers
\* stand on, a lookup finds the longest route, unless what went wrong when the table was
\* built lies on its own way: whatever was cut off or overwritten elsewhere.
Wrong == {ip \in Addresses : lookup(ip) # Dest(Matching(ip))}
LookupIsLongest == Built => \A ip \in Wrong : ~Sound(ip)

=============================================================================
