------------------------------- MODULE Ipv4Fib -------------------------------
(***************************************************************************)
(* The forwarding table of IPlookup: routes are written into two arrays,   *)
(* short ones first, so that a lookup takes one or two reads.  An entry of *)
(* TBL24 is a next hop or, with its highest bit set, the number of a chunk *)
(* of TBLlong.  Addresses have High + Low bits instead of 24 + 8, entries  *)
(* have the values below 2 * Flag instead of 2^16.                         *)
(***************************************************************************)
EXTENDS Integers

CONSTANTS
    High, Low,    \* bits that index TBL24, and bits behind them
    Flag,         \* 0x8000
    NextHops,     \* next hops that routes are given
    MaxRoutes     \* bound: routes of the file

\* Next hops of any 16 bits but 0, as load_rib_from_file() makes them up: those with
\* Flag's bit set are taken for numbers of chunks.
FibAssumption ==
    /\ High \in Nat /\ Low \in Nat /\ MaxRoutes \in Nat
    /\ Flag \in Nat /\ MaxRoutes < Flag /\ NextHops \subseteq 1..(2 * Flag - 1)

AddressBits == High + Low

\* 1 << n, as a recursive function, which can be reasoned about.
PowerOf2[n \in 0..AddressBits] == IF n = 0 THEN 1 ELSE 2 * PowerOf2[n - 1]

Addresses == 0..(PowerOf2[AddressBits] - 1)
ChunkSize == PowerOf2[Low]

\* Routes come without bits behind their length.
Span(p) == PowerOf2[AddressBits - p.len]
Prefixes ==
    UNION {{[len |-> l, addr |-> k * PowerOf2[AddressBits - l]] : k \in 0..(PowerOf2[l] - 1)} :
              l \in 0..AddressBits}
Covers(p, ip) == p.addr <= ip /\ ip < p.addr + Span(p)

VARIABLES
    rib,          \* tables: next hops of the routes
    written,      \* routes that were written
    TBL24, TBLlong,
    current       \* current_TBLlong

vars == <<rib, written, TBL24, TBLlong, current>>

Init ==
    /\ \E file \in [1..MaxRoutes -> Prefixes] :
          rib \in [{file[i] : i \in 1..MaxRoutes} -> NextHops]
    /\ written = {}
    /\ TBL24 = [k \in 0..PowerOf2[High] |-> 0]
    /\ TBLlong = [j \in 0..(Flag * ChunkSize) |-> 0]
    /\ current = 0

-----------------------------------------------------------------------------

\* Faulty: routes are written in the order in which they are found.
AnyTurn(p) == p \in DOMAIN rib \ written

\* The tables are written by length, each in the order of its hash.
Turn(p) ==
    /\ p \in DOMAIN rib \ written
    /\ \A q \in DOMAIN rib \ written : p.len <= q.len

WriteShort(p) ==
    /\ p.len <= High /\ Turn(p)
    /\ TBL24' = [k \in DOMAIN TBL24 |-> IF Covers(p, k * ChunkSize) THEN rib[p] ELSE TBL24[k]]
    /\ written' = written \cup {p}
    /\ UNCHANGED <<rib, TBLlong, current>>

Flagged(entry) == entry >= Flag

\* A chunk starts as a copy of the entry; one entry too many is written, which the
\* next chunk overwrites.
WriteNewChunk(p) ==
    /\ p.len > High /\ Turn(p)
    /\ LET k == p.addr \div ChunkSize
           start == current + (p.addr % ChunkSize)
       IN /\ ~Flagged(TBL24[k])
          /\ TBLlong' = [j \in DOMAIN TBLlong |->
                 IF start <= j /\ j < start + Span(p) THEN rib[p]
                 ELSE IF current <= j /\ j <= current + ChunkSize THEN TBL24[k]
                 ELSE TBLlong[j]]
          /\ TBL24' = [TBL24 EXCEPT ![k] = current \div ChunkSize + Flag]
    /\ current' = current + ChunkSize
    /\ written' = written \cup {p}
    /\ UNCHANGED rib

WriteOldChunk(p) ==
    /\ p.len > High /\ Turn(p)
    /\ LET k == p.addr \div ChunkSize
           start == (TBL24[k] % Flag) * ChunkSize + (p.addr % ChunkSize)
       IN /\ Flagged(TBL24[k])
          /\ TBLlong' = [j \in DOMAIN TBLlong |->
                 IF start <= j /\ j < start + Span(p) THEN rib[p] ELSE TBLlong[j]]
    /\ written' = written \cup {p}
    /\ UNCHANGED <<rib, TBL24, current>>

Next == \E p \in DOMAIN rib : WriteShort(p) \/ WriteNewChunk(p) \/ WriteOldChunk(p)

Spec == Init /\ [][Next]_vars

\* direct_lookup()
Lookup(ip) ==
    LET entry == TBL24[ip \div ChunkSize]
    IN IF Flagged(entry) THEN TBLlong[(entry % Flag) * ChunkSize + (ip % ChunkSize)] ELSE entry

-----------------------------------------------------------------------------

\* The next hop of the longest of the routes that match, 0 if none does.
Longest(matching) ==
    IF matching = {} THEN 0
    ELSE rib[CHOOSE p \in matching : \A q \in matching : q.len <= p.len]

LongestMatch(ip) == Longest({p \in written : Covers(p, ip)})
ShortHop(ip) == Longest({p \in written : Covers(p, ip) /\ p.len <= High})

\* Neither is the next hop of the address's short route taken for a chunk, nor the
\* address's chunk for the next hop of the short route that encloses a long one.
Sound(ip) ==
    /\ ~Flagged(ShortHop(ip))
    /\ \A p \in written :
          p.len > High /\ Flagged(ShortHop(p.addr)) => TBL24[ip \div ChunkSize] # ShortHop(p.addr)

\* In whatever order a hash table yields the routes of one length, the two arrays
\* give an address the next hop of the longest route that was written and covers
\* it: chunks keep what they copied, no route spills into a neighbour, and the entry
\* too many of a chunk is never seen.  A next hop with the bit of a chunk harms the
\* addresses of its own route and, where that route has longer ones inside, those of
\* the chunk it is taken for, and no others.
Wrong == {ip \in Addresses : Lookup(ip) # LongestMatch(ip)}
LookupIsLongestMatch == \A ip \in Wrong : ~Sound(ip)

=============================================================================
