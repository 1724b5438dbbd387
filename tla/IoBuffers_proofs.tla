-------------------------- MODULE IoBuffers_proofs --------------------------
(***************************************************************************)
(* Theorems about IoBuffers, for groups of every length, every number of   *)
(* datablocks and batches, every alignment and any counts of packets:      *)
(* regions do not overlap, kernels get their own arguments and the newest  *)
(* inputs, and results come back.                                          *)
(***************************************************************************)
EXTENDS IoBuffers, OffloadActions_proofs, Counting_proofs

-----------------------------------------------------------------------------
(* Reservations.  Whatever is reserved, for any datablock or argument, lies  *)
(* behind all that was reserved before.                                      *)

Aligned(n) == \E k \in Nat : n = k * Align

LEMMA CeilFacts ==
    ASSUME NEW n \in Nat
    PROVE  Ceil(n) \in Nat /\ Ceil(n) >= n /\ Aligned(Ceil(n))
  <1>1. PICK a \in Nat \ {0} : a = Align
    BY BufferAssumption
  <1>2. PICK q \in Int : q = (n + a - 1) \div a
    BY <1>1
  <1>3. q * a <= n + a - 1 /\ n + a - 1 < q * a + a
    BY <1>1, <1>2
  <1>4. q \in Nat
    BY <1>1, <1>3
  <1>5. q * a >= n /\ q * a \in Nat
    BY <1>1, <1>3, <1>4
  <1>6. Ceil(n) = q * Align
    BY <1>1, <1>2 DEF Ceil
  <1> QED BY <1>1, <1>4, <1>5, <1>6 DEF Aligned

LEMMA CeilShifted ==
    ASSUME NEW m \in Nat, Aligned(m), NEW n \in Nat
    PROVE  Ceil(m + n) = m + Ceil(n)
  <1>1. PICK a \in Nat \ {0} : a = Align
    BY BufferAssumption
  <1>2. PICK k \in Nat : m = k * a
    BY <1>1 DEF Aligned
  <1>3. PICK q \in Int : q = (n + a - 1) \div a
    BY <1>1
  <1>4. q * a <= n + a - 1 /\ n + a - 1 < q * a + a
    BY <1>1, <1>3
  <1>5. (k + q) * a = k * a + q * a /\ k + q \in Int
    BY <1>1, <1>2, <1>3
  <1>6. (m + n + a - 1) \div a = k + q
    BY <1>1, <1>2, <1>4, <1>5
  <1> QED BY <1>1, <1>2, <1>3, <1>5, <1>6 DEF Ceil

LEMMA AlignedSum == ASSUME NEW m \in Nat, NEW n \in Nat, Aligned(m), Aligned(n) PROVE Aligned(m + n)
  <1>1. PICK a \in Nat \ {0} : a = Align
    BY BufferAssumption
  <1>2. PICK k \in Nat, l \in Nat : m = k * a /\ n = l * a
    BY <1>1 DEF Aligned
  <1>3. m + n = (k + l) * a /\ k + l \in Nat
    BY <1>1, <1>2
  <1> QED BY <1>1, <1>3 DEF Aligned
-----------------------------------------------------------------------------

RegionType == [buffer : {"in", "out"}, from : Nat, length : Nat \ {0},
               host : Int, dev : Int, new : Int]
PoolType   == [in : Nat, inout : Nat, out : Nat, shifts : Nat]
BeginType  == [in : Nat, inout : Nat, out : Nat]

\* What a reservation works on.
Memory(p, b, g, a) == [pool |-> p, begin |-> b, regs |-> g, agree |-> a]

RegsType(g) == g = [n \in DOMAIN g |-> g[n]] /\ \A n \in DOMAIN g : g[n] \in RegionType

LEMMA ReserveOne ==
    ASSUME NEW p \in PoolType, NEW b, NEW g, NEW a, NEW r, r.into \in {"in", "out"}
    PROVE  DoReserve(Memory(p, b, g, a), r) =
             Memory([p EXCEPT ![r.into] = Ceil(p[r.into] + r.length)], b,
                    With(g, r.into, p[r.into], r), a)
  BY DEF DoReserve, Memory

LEMMA ReserveInout ==
    ASSUME NEW p \in PoolType, NEW b, NEW g, NEW a, NEW r, r.into = "inout"
    PROVE  DoReserve(Memory(p, b, g, a), r) =
             Memory([in |-> Ceil(p.in + r.length), inout |-> Ceil(p.inout + r.length),
                     out |-> p.out, shifts |-> p.shifts], b,
                    With(g, "in", p.in, r),
                    a /\ p.in = p.shifts + p.inout)
  BY DEF DoReserve, Memory, PoolType

LEMMA ReserveShift ==
    ASSUME NEW p \in PoolType, NEW b \in BeginType, NEW g, NEW a, NEW r, r.into = "shift"
    PROVE  DoReserve(Memory(p, b, g, a), r) =
             Memory([p EXCEPT !.shifts = p.shifts + (p.in - b.in)],
                    [b EXCEPT !.inout = p.in - b.in], g, a)
  BY DEF DoReserve, Memory, PoolType, BeginType

\* Regions of data that a kernel produces; everything else is input of a kernel.
OutName(n) == n[1] = "data" /\ Kind[n[2]] = "result"

Layout(p, g) ==
    /\ p \in PoolType /\ Aligned(p.in)
    /\ RegsType(g)
    /\ \A n \in DOMAIN g : g[n].from + g[n].length <= p[g[n].buffer]
    /\ \A m, n \in DOMAIN g :
         m # n => Apart(g[m], g[n].buffer, g[n].from, g[n].from + g[n].length)

\* Regions with names in N are added behind the others.
Behind(p, g, q, h, N) ==
    /\ q.in >= p.in /\ q.out >= p.out
    /\ \A n \in DOMAIN g : n \in DOMAIN h /\ h[n] = g[n]
    /\ \A n \in DOMAIN h : n \notin DOMAIN g =>
         /\ n \in N /\ h[n].from >= p[h[n].buffer]
         /\ h[n].buffer = IF OutName(n) THEN "out" ELSE "in"
         /\ h[n].buffer = "in" => h[n].host = 0 /\ h[n].new = 0

Sound(s) ==
    /\ s = Memory(s.pool, s.begin, s.regs, s.agree)
    /\ s.begin \in BeginType /\ s.agree \in BOOLEAN
    /\ Layout(s.pool, s.regs) /\ s.begin.in <= s.pool.in

Grows(s, t, N) ==
    /\ Behind(s.pool, s.regs, t.pool, t.regs, N)
    /\ t.begin.in = s.begin.in /\ t.begin.out = s.begin.out

ItemOk(r, N) ==
    \/ r.into = "shift"
    \/ /\ r.into \in {"in", "inout", "out"} /\ r.length \in Nat \ {0} /\ r.name \in N
       /\ r.into = "out" <=> OutName(r.name)

LEMMA AddRegion ==
    ASSUME NEW p \in PoolType, NEW g, Layout(p, g), NEW buffer \in {"in", "out"}, NEW q \in PoolType,
           Aligned(q.in), q.in >= p.in, q.out >= p.out, NEW r, NEW N, r.length \in Nat \ {0}, r.name \in N,
           q[buffer] >= p[buffer] + r.length, buffer = "out" <=> OutName(r.name),
           NEW h, h = With(g, buffer, p[buffer], r)
    PROVE  Layout(q, h) /\ Behind(p, g, q, h, N)
  <1>1. /\ DOMAIN h = DOMAIN g \cup {r.name}
        /\ \A n \in DOMAIN g : h[n] = g[n]
        /\ \A n \in DOMAIN h : n \notin DOMAIN g => n = r.name /\ h[n] = Region(buffer, p[buffer], r)
        /\ h = [n \in DOMAIN h |-> h[n]]
    BY DEF With
  <1>2. p.in \in Nat /\ p.out \in Nat /\ q.in \in Nat /\ q.out \in Nat /\ p[buffer] \in Nat
    BY DEF PoolType
  <1>3. PICK e : e = Region(buffer, p[buffer], r)
    OBVIOUS
  <1>4. /\ e \in RegionType /\ e.buffer = buffer /\ e.from = p[buffer] /\ e.length = r.length
        /\ buffer = "in" => e.host = 0 /\ e.new = 0
    BY <1>2, <1>3 DEF Region, RegionType
  <1>5. \A n \in DOMAIN g : /\ g[n] \in RegionType /\ g[n].buffer \in {"in", "out"}
                            /\ g[n].from \in Nat /\ g[n].length \in Nat
                            /\ g[n].from + g[n].length <= p[g[n].buffer]
    BY DEF Layout, RegsType, RegionType
  <1>6. \A b \in {"in", "out"} : p[b] \in Nat /\ q[b] \in Nat /\ p[b] <= q[b]
    BY <1>2
  <1>7. RegsType(h)
    BY <1>1, <1>3, <1>4, <1>5 DEF RegsType
  <1>8. \A n \in DOMAIN h : h[n].from + h[n].length <= q[h[n].buffer]
    <2> TAKE n \in DOMAIN h
    <2>1. CASE n \in DOMAIN g
      <3>1. g[n].from + g[n].length <= p[g[n].buffer] /\ g[n].buffer \in {"in", "out"}
            /\ g[n].from \in Nat /\ g[n].length \in Nat
        BY <1>5, <2>1
      <3>2. p[g[n].buffer] \in Nat /\ q[g[n].buffer] \in Nat /\ p[g[n].buffer] <= q[g[n].buffer]
        BY <1>6, <3>1
      <3>3. g[n].from + g[n].length <= q[g[n].buffer]
        BY <3>1, <3>2
      <3> QED BY <1>1, <2>1, <3>3
    <2>2. CASE n \notin DOMAIN g
      <3>1. h[n] = e
        BY <1>1, <1>3, <2>2
      <3> QED BY <1>4, <3>1
    <2> QED BY <2>1, <2>2
  <1>9. ASSUME NEW m \in DOMAIN h, NEW n \in DOMAIN h, m # n
        PROVE  Apart(h[m], h[n].buffer, h[n].from, h[n].from + h[n].length)
    <2>1. CASE m \in DOMAIN g /\ n \in DOMAIN g
      BY <1>1, <1>9, <2>1 DEF Layout
    <2>2. CASE m \in DOMAIN g /\ n \notin DOMAIN g
      <3>1. h[n] = e /\ h[m] = g[m]
        BY <1>1, <1>3, <2>2
      <3>2. g[m].buffer = buffer => g[m].from + g[m].length <= p[buffer]
        BY <1>5, <2>2
      <3>3. Apart(g[m], e.buffer, e.from, e.from + e.length)
        BY <1>4, <3>2 DEF Apart
      <3> QED BY <3>1, <3>3
    <2>3. CASE m \notin DOMAIN g /\ n \in DOMAIN g
      <3>1. h[n] = g[n] /\ h[m] = e
        BY <1>1, <1>3, <2>3
      <3>2. g[n].buffer = buffer => g[n].from + g[n].length <= p[buffer]
        BY <1>5, <2>3
      <3>3. Apart(e, g[n].buffer, g[n].from, g[n].from + g[n].length)
        BY <1>4, <3>2 DEF Apart
      <3> QED BY <3>1, <3>3
    <2> QED BY <1>1, <1>9, <2>1, <2>2, <2>3
  <1>10. Layout(q, h)
    BY <1>7, <1>8, <1>9 DEF Layout
  <1>11. ASSUME NEW n \in DOMAIN h, n \notin DOMAIN g
         PROVE  /\ n \in N /\ h[n].from >= p[h[n].buffer]
                /\ h[n].buffer = IF OutName(n) THEN "out" ELSE "in"
                /\ h[n].buffer = "in" => h[n].host = 0 /\ h[n].new = 0
    <2>1. n = r.name /\ h[n] = e
      BY <1>1, <1>3, <1>11
    <2>2. e.from >= p[e.buffer]
      BY <1>2, <1>4
    <2> QED BY <1>4, <2>1, <2>2
  <1>12. Behind(p, g, q, h, N)
    BY <1>1, <1>11 DEF Behind
  <1> QED BY <1>10, <1>12
LEMMA MemoryParts ==
    ASSUME NEW p, NEW b, NEW g, NEW a
    PROVE  /\ Memory(p, b, g, a).pool = p /\ Memory(p, b, g, a).begin = b
           /\ Memory(p, b, g, a).regs = g /\ Memory(p, b, g, a).agree = a
  BY DEF Memory

LEMMA SoundMemory ==
    ASSUME NEW p \in PoolType, NEW b \in BeginType, NEW g, NEW a \in BOOLEAN,
           Layout(p, g), b.in <= p.in
    PROVE  Sound(Memory(p, b, g, a))
  <1>1. Memory(p, b, g, a) = Memory(Memory(p, b, g, a).pool, Memory(p, b, g, a).begin,
                                    Memory(p, b, g, a).regs, Memory(p, b, g, a).agree)
    BY MemoryParts
  <1> HIDE DEF Memory
  <1> QED BY <1>1, MemoryParts DEF Sound

\* One reservation.
LEMMA ReserveSound ==
    ASSUME NEW s, Sound(s), NEW N, NEW r, ItemOk(r, N)
    PROVE  Sound(DoReserve(s, r)) /\ Grows(s, DoReserve(s, r), N)
  <1>1. PICK p, b, g, a : p = s.pool /\ b = s.begin /\ g = s.regs /\ a = s.agree
    OBVIOUS
  <1>2. /\ s = Memory(p, b, g, a) /\ p \in PoolType /\ b \in BeginType /\ a \in BOOLEAN
        /\ Layout(p, g) /\ b.in <= p.in
    BY <1>1 DEF Sound, Layout
  <1>3. p.in \in Nat /\ p.out \in Nat /\ p.inout \in Nat /\ p.shifts \in Nat /\ b.in \in Nat
        /\ Aligned(p.in)
    BY <1>2 DEF PoolType, BeginType, Layout
  <1>4. CASE r.into = "shift"
    <2>1. PICK q, c : q = [p EXCEPT !.shifts = p.shifts + (p.in - b.in)]
                      /\ c = [b EXCEPT !.inout = p.in - b.in]
      OBVIOUS
    <2>2. p.in - b.in \in Nat /\ p.shifts + (p.in - b.in) \in Nat
      BY <1>2, <1>3
    <2>3. q \in PoolType /\ q.in = p.in /\ q.out = p.out /\ c \in BeginType /\ c.in = b.in /\ c.out = b.out
      BY <1>2, <2>1, <2>2 DEF PoolType, BeginType
    <2>4. DoReserve(s, r) = Memory(q, c, g, a)
      BY <1>2, <1>4, <2>1, ReserveShift
    <2>5. \A n \in DOMAIN g : q[g[n].buffer] = p[g[n].buffer]
      <3>1. \A n \in DOMAIN g : g[n].buffer \in {"in", "out"}
        BY <1>2 DEF Layout, RegsType, RegionType
      <3> QED BY <2>3, <3>1
    <2>6. Layout(q, g)
      BY <1>2, <1>3, <2>3, <2>5 DEF Layout
    <2>7. Sound(Memory(q, c, g, a))
      BY <1>2, <2>3, <2>6, SoundMemory
    <2>8. Behind(p, g, q, g, N)
      BY <1>3, <2>3 DEF Behind
    <2> QED BY <1>1, <2>3, <2>4, <2>7, <2>8, MemoryParts DEF Grows
  <1>5. ASSUME NEW buffer \in {"in", "out"}, NEW q \in PoolType, NEW c \in BOOLEAN,
               r.length \in Nat \ {0}, r.name \in N, buffer = "out" <=> OutName(r.name),
               Aligned(q.in), q.in >= p.in, q.out >= p.out, q[buffer] >= p[buffer] + r.length,
               DoReserve(s, r) = Memory(q, b, With(g, buffer, p[buffer], r), c)
        PROVE  Sound(DoReserve(s, r)) /\ Grows(s, DoReserve(s, r), N)
    <2>1. PICK h : h = With(g, buffer, p[buffer], r)
      OBVIOUS
    <2>2. Layout(q, h) /\ Behind(p, g, q, h, N)
      BY <1>2, <1>5, <2>1, AddRegion
    <2>3. b.in <= q.in
      BY <1>2, <1>3, <1>5 DEF PoolType
    <2>4. Sound(Memory(q, b, h, c))
      BY <1>2, <1>5, <2>2, <2>3, SoundMemory
    <2> QED BY <1>1, <1>5, <2>1, <2>2, <2>4, MemoryParts DEF Grows
  <1>6. CASE r.into \in {"in", "out"}
    <2>1. PICK q : q = [p EXCEPT ![r.into] = Ceil(p[r.into] + r.length)]
      OBVIOUS
    <2>2. r.length \in Nat \ {0} /\ r.name \in N /\ (r.into = "out" <=> OutName(r.name))
      BY <1>6 DEF ItemOk
    <2>3. PICK m \in Nat : m = p[r.into]
      BY <1>3, <1>6
    <2>4. PICK e : e = Ceil(m + r.length)
      OBVIOUS
    <2>5. e \in Nat /\ e >= m + r.length /\ Aligned(e)
      BY <2>2, <2>4, CeilFacts
    <2>6. q = [p EXCEPT ![r.into] = e]
      BY <2>1, <2>3, <2>4
    <2>7. q \in PoolType /\ q[r.into] = e
      BY <1>2, <1>6, <2>5, <2>6 DEF PoolType
    <2>8. Aligned(q.in) /\ q.in >= p.in /\ q.out >= p.out
      <3>1. CASE r.into = "in"
        BY <1>2, <1>3, <2>2, <2>3, <2>5, <2>6, <3>1 DEF PoolType
      <3>2. CASE r.into = "out"
        BY <1>2, <1>3, <2>2, <2>3, <2>5, <2>6, <3>2 DEF PoolType
      <3> QED BY <1>6, <3>1, <3>2
    <2>9. DoReserve(s, r) = Memory(q, b, With(g, r.into, p[r.into], r), a)
      <3>1. DoReserve(Memory(p, b, g, a), r) =
             Memory([p EXCEPT ![r.into] = Ceil(p[r.into] + r.length)], b,
                    With(g, r.into, p[r.into], r), a)
        BY <1>2, <1>6, ReserveOne
      <3> QED BY <1>2, <2>1, <3>1
    <2> QED BY <1>2, <1>5, <1>6, <2>2, <2>3, <2>5, <2>7, <2>8, <2>9
  <1>7. CASE r.into = "inout"
    <2>1. r.length \in Nat \ {0} /\ r.name \in N /\ ~OutName(r.name)
      BY <1>7 DEF ItemOk
    <2>2. PICK d, e : d = Ceil(p.in + r.length) /\ e = Ceil(p.inout + r.length)
      OBVIOUS
    <2>3. d \in Nat /\ d >= p.in + r.length /\ Aligned(d) /\ e \in Nat
      <3>1. p.in + r.length \in Nat /\ p.inout + r.length \in Nat
        BY <1>3, <2>1
      <3> QED BY <2>2, <3>1, CeilFacts
    <2>4. PICK q : q = [in |-> d, inout |-> e, out |-> p.out, shifts |-> p.shifts]
      OBVIOUS
    <2>5. q \in PoolType /\ q.in = d /\ q.out = p.out
      BY <1>3, <2>3, <2>4 DEF PoolType
    <2>6. PICK c \in BOOLEAN : c = (a /\ p.in = p.shifts + p.inout)
      BY <1>2
    <2>7. DoReserve(s, r) = Memory(q, b, With(g, "in", p.in, r), c)
      <3>1. DoReserve(s, r) =
             Memory([in |-> Ceil(p.in + r.length), inout |-> Ceil(p.inout + r.length),
                     out |-> p.out, shifts |-> p.shifts], b,
                    With(g, "in", p.in, r),
                    a /\ p.in = p.shifts + p.inout)
        BY <1>2, <1>7, ReserveInout
      <3> QED BY <2>2, <2>4, <2>6, <3>1
    <2>8. q.in >= p.in /\ q.out >= p.out /\ q["in"] >= p["in"] + r.length
      BY <1>3, <2>1, <2>3, <2>5
    <2> QED BY <1>5, <2>1, <2>3, <2>5, <2>7, <2>8
  <1> QED BY <1>4, <1>6, <1>7 DEF ItemOk
LEMMA GrowsItself == ASSUME NEW s, Sound(s), NEW N PROVE Grows(s, s, N)
  <1>1. s.pool.in \in Nat /\ s.pool.out \in Nat
    BY DEF Sound, Layout, PoolType
  <1> QED BY <1>1 DEF Grows, Behind

LEMMA GrowsOn ==
    ASSUME NEW s, Sound(s), NEW t, Sound(t), NEW u, Sound(u), NEW N, Grows(s, t, N), Grows(t, u, N)
    PROVE  Grows(s, u, N)
  <1>1. /\ s.pool.in \in Nat /\ s.pool.out \in Nat /\ t.pool.in \in Nat /\ t.pool.out \in Nat
        /\ u.pool.in \in Nat /\ u.pool.out \in Nat
        /\ RegsType(u.regs)
    BY DEF Sound, Layout, PoolType
  <1>2. Behind(s.pool, s.regs, t.pool, t.regs, N) /\ Behind(t.pool, t.regs, u.pool, u.regs, N)
    BY DEF Grows
  <1>3. u.pool.in >= s.pool.in /\ u.pool.out >= s.pool.out
    BY <1>1, <1>2 DEF Behind
  <1>4. \A n \in DOMAIN s.regs : n \in DOMAIN u.regs /\ u.regs[n] = s.regs[n]
    BY <1>2 DEF Behind
  <1>5. ASSUME NEW n \in DOMAIN u.regs, n \notin DOMAIN s.regs
        PROVE  /\ n \in N /\ u.regs[n].from >= s.pool[u.regs[n].buffer]
               /\ u.regs[n].buffer = IF OutName(n) THEN "out" ELSE "in"
               /\ u.regs[n].buffer = "in" => u.regs[n].host = 0 /\ u.regs[n].new = 0
    <2>1. CASE n \in DOMAIN t.regs
      BY <1>2, <1>5, <2>1 DEF Behind
    <2>2. CASE n \notin DOMAIN t.regs
      <3>1. /\ n \in N /\ u.regs[n].from >= t.pool[u.regs[n].buffer]
            /\ u.regs[n].buffer = IF OutName(n) THEN "out" ELSE "in"
            /\ u.regs[n].buffer = "in" => u.regs[n].host = 0 /\ u.regs[n].new = 0
        BY <1>2, <2>2 DEF Behind
      <3>2. PICK f \in Nat, b \in {"in", "out"} : f = u.regs[n].from /\ b = u.regs[n].buffer
        BY <1>1 DEF RegsType, RegionType
      <3>3. t.pool[b] >= s.pool[b] /\ t.pool[b] \in Nat /\ s.pool[b] \in Nat
        BY <1>1, <1>2, <3>2 DEF Behind
      <3>4. f >= s.pool[b]
        BY <3>1, <3>2, <3>3
      <3> QED BY <3>1, <3>2, <3>4
    <2> QED BY <2>1, <2>2
  <1>6. Behind(s.pool, s.regs, u.pool, u.regs, N)
    BY <1>3, <1>4, <1>5 DEF Behind
  <1> QED BY <1>6 DEF Grows

\* What the assertions of alloc_inout_buffer() look at, and when they hold.
Same(s, t) == /\ t.agree = s.agree /\ t.pool.shifts = s.pool.shifts
              /\ t.pool.inout = s.pool.inout

Matched(s) == s.agree /\ s.pool.in = s.pool.shifts + s.pool.inout /\ Aligned(s.pool.shifts)

LEMMA ReserveSame ==
    ASSUME NEW s, Sound(s), NEW r, r.into \in {"in", "out"} PROVE Same(s, DoReserve(s, r))
  <1>1. s.pool \in PoolType /\ s = Memory(s.pool, s.begin, s.regs, s.agree)
    BY DEF Sound, Layout
  <1> QED BY <1>1 DEF DoReserve, Memory, Same, PoolType

LEMMA ReserveMatched ==
    ASSUME NEW s, Sound(s), Matched(s), NEW r, r.into = "inout", r.length \in Nat
    PROVE  Matched(DoReserve(s, r))
  <1>1. PICK p, b, g, a : p = s.pool /\ b = s.begin /\ g = s.regs /\ a = s.agree
    OBVIOUS
  <1>2. /\ p \in PoolType /\ s = Memory(p, b, g, a) /\ a \in BOOLEAN
        /\ p.in = p.shifts + p.inout /\ Aligned(p.shifts)
        /\ p.shifts \in Nat /\ p.inout \in Nat
    BY <1>1 DEF Sound, Layout, Matched, PoolType
  <1>3. PICK m \in Nat, n \in Nat, l \in Nat : m = p.shifts /\ n = p.inout /\ l = r.length
    BY <1>2
  <1>4. Ceil(p.in + r.length) = m + Ceil(n + l) /\ Aligned(m)
    <2>1. p.in + r.length = m + (n + l) /\ n + l \in Nat /\ Aligned(m)
      BY <1>2, <1>3
    <2> QED BY <2>1, CeilShifted
  <1>5. PICK q : q = [in |-> Ceil(p.in + r.length), inout |-> Ceil(p.inout + r.length),
                     out |-> p.out, shifts |-> p.shifts]
    OBVIOUS
  <1>6. PICK h, c : h = With(g, "in", p.in, r) /\ c = (a /\ p.in = p.shifts + p.inout)
    OBVIOUS
  <1>7. DoReserve(s, r) = Memory(q, b, h, c)
    <2>1. DoReserve(Memory(p, b, g, a), r) =
             Memory([in |-> Ceil(p.in + r.length), inout |-> Ceil(p.inout + r.length),
                     out |-> p.out, shifts |-> p.shifts], b, With(g, "in", p.in, r),
                    a /\ p.in = p.shifts + p.inout)
      BY <1>2, ReserveInout
    <2> QED BY <1>2, <1>5, <1>6, <2>1
  <1>8. c
    BY <1>1, <1>2, <1>6 DEF Matched
  <1>9. DoReserve(s, r).pool = q /\ DoReserve(s, r).agree = c
    BY <1>7, MemoryParts
  <1>10. q.in = q.shifts + q.inout /\ Aligned(q.shifts)
    BY <1>3, <1>4, <1>5
  <1> QED BY <1>8, <1>9, <1>10 DEF Matched

\* The first shift of a run: the pool of the inout buffers begins where the
\* reservations are.
LEMMA ShiftMatched ==
    ASSUME NEW s, Sound(s), s.agree, s.pool.shifts = 0, s.pool.inout = 0, s.begin.in = 0,
           NEW r, r.into = "shift"
    PROVE  Matched(DoReserve(s, r))
  <1>1. PICK p, b, g, a : p = s.pool /\ b = s.begin /\ g = s.regs /\ a = s.agree
    OBVIOUS
  <1>2. /\ p \in PoolType /\ b \in BeginType /\ s = Memory(p, b, g, a) /\ a \in BOOLEAN
        /\ p.in \in Nat /\ Aligned(p.in) /\ p.shifts = 0 /\ p.inout = 0 /\ b.in = 0
    BY <1>1 DEF Sound, Layout, PoolType
  <1>3. PICK q, c : q = [p EXCEPT !.shifts = p.shifts + (p.in - b.in)]
                    /\ c = [b EXCEPT !.inout = p.in - b.in]
    OBVIOUS
  <1>4. DoReserve(s, r) = Memory(q, c, g, a)
    <2>1. DoReserve(Memory(p, b, g, a), r) =
             Memory([p EXCEPT !.shifts = p.shifts + (p.in - b.in)],
                    [b EXCEPT !.inout = p.in - b.in], g, a)
      BY <1>2, ReserveShift
    <2> QED BY <1>2, <1>3, <2>1
  <1>5. p.shifts + (p.in - b.in) = p.in /\ p.in = p.in + 0
    BY <1>2
  <1>6. q.in = p.in /\ q.shifts = p.in /\ q.inout = 0
    BY <1>2, <1>3, <1>5 DEF PoolType
  <1>7. DoReserve(s, r).pool = q /\ DoReserve(s, r).agree = a
    BY <1>4, MemoryParts
  <1> QED BY <1>1, <1>2, <1>5, <1>6, <1>7 DEF Matched
-----------------------------------------------------------------------------
(* Lists of reservations                                                   *)

\* Reserved of each prefix.
ReservedUpTo(s, list) ==
    CHOOSE upTo : upTo = [n \in 0..Len(list) |->
        IF n = 0 THEN s ELSE DoReserve(upTo[n - 1], list[n])]

LEMMA ReservedExists ==
    ASSUME NEW s, NEW list, Len(list) \in Nat
    PROVE  /\ Reserved(s, list) = ReservedUpTo(s, list)[Len(list)]
           /\ ReservedUpTo(s, list)[0] = s
           /\ \A n \in Nat : n + 1 <= Len(list) =>
                ReservedUpTo(s, list)[n + 1] = DoReserve(ReservedUpTo(s, list)[n], list[n + 1])
  <1> DEFINE Step(f, n) == IF n = 0 THEN s ELSE DoReserve(f[n - 1], list[n])
             T == {m \in Nat : \E f : f = [n \in 0..m |-> Step(f, n)]}
  <1>1. 0 \in T
    <2> DEFINE f == [n \in 0..0 |-> s]
    <2>1. \A n \in 0..0 : n = 0
      OBVIOUS
    <2>2. f = [n \in 0..0 |-> Step(f, n)]
      BY <2>1
    <2> QED BY <2>2
  <1>2. ASSUME NEW m \in T PROVE m + 1 \in T
    <2>1. PICK f : f = [n \in 0..m |-> Step(f, n)]
      OBVIOUS
    <2>2. PICK h : h = [n \in 0..m + 1 |-> Step(f, n)]
      OBVIOUS
    <2>3. m \in Nat
      OBVIOUS
    <2>4. \A n \in 0..m : h[n] = f[n]
      <3>1. \A n \in 0..m : f[n] = Step(f, n)
        BY <2>1
      <3>2. \A n \in 0..m : n \in 0..m + 1
        BY <2>3
      <3> QED BY <3>1, <3>2, <2>2
    <2>5. ASSUME NEW n \in 0..m + 1 PROVE Step(f, n) = Step(h, n)
      <3>1. n # 0 => n - 1 \in 0..m
        BY <2>3
      <3> QED BY <3>1, <2>4
    <2>6. h = [n \in 0..m + 1 |-> Step(h, n)]
      BY <2>2, <2>5
    <2>7. \E f2 : f2 = [n \in 0..m + 1 |-> Step(f2, n)]
      BY <2>6, Zenon
    <2>8. m + 1 \in Nat
      BY <2>3
    <2> QED BY <2>7, <2>8, Zenon
  <1>3. T = Nat
    <2> HIDE DEF T
    <2>1. T \in SUBSET Nat
      BY DEF T
    <2> QED BY <2>1, <1>1, <1>2, Induction
  <1>4. \E f : f = [n \in 0..Len(list) |-> Step(f, n)]
    BY <1>3
  <1>5. ReservedUpTo(s, list) = [n \in 0..Len(list) |-> Step(ReservedUpTo(s, list), n)]
    BY <1>4 DEF ReservedUpTo
  <1>6. PICK f : f = ReservedUpTo(s, list)
    OBVIOUS
  <1>7. \A n \in 0..Len(list) : f[n] = Step(f, n)
    BY <1>5, <1>6
  <1>8. f[0] = s
    BY <1>7
  <1>9. ASSUME NEW n \in Nat, n + 1 <= Len(list)
        PROVE  f[n + 1] = DoReserve(f[n], list[n + 1])
    <2>1. n + 1 \in 0..Len(list) /\ n + 1 # 0 /\ (n + 1) - 1 = n
      BY <1>9
    <2>2. f[n + 1] = Step(f, n + 1)
      BY <1>7, <2>1
    <2> QED BY <2>1, <2>2
  <1>10. Reserved(s, list) = ReservedUpTo(s, list)[Len(list)]
    BY DEF Reserved, ReservedUpTo
  <1> QED BY <1>6, <1>8, <1>9, <1>10

\* ReservedPass of each prefix.
PassUpTo(s, pass, ds) ==
    CHOOSE upTo : upTo = [n \in 0..Len(ds) |->
        IF n = 0 THEN s ELSE Reserved(upTo[n - 1], Pass(pass, ds[n]))]

LEMMA ReservedPassExists ==
    ASSUME NEW s, NEW pass, NEW ds, Len(ds) \in Nat
    PROVE  /\ ReservedPass(s, pass, ds) = PassUpTo(s, pass, ds)[Len(ds)]
           /\ PassUpTo(s, pass, ds)[0] = s
           /\ \A n \in Nat : n + 1 <= Len(ds) =>
                PassUpTo(s, pass, ds)[n + 1] = Reserved(PassUpTo(s, pass, ds)[n], Pass(pass, ds[n + 1]))
  <1> DEFINE Step(f, n) == IF n = 0 THEN s ELSE Reserved(f[n - 1], Pass(pass, ds[n]))
             T == {m \in Nat : \E f : f = [n \in 0..m |-> Step(f, n)]}
  <1>1. 0 \in T
    <2> DEFINE f == [n \in 0..0 |-> s]
    <2>1. \A n \in 0..0 : n = 0
      OBVIOUS
    <2>2. f = [n \in 0..0 |-> Step(f, n)]
      BY <2>1
    <2> QED BY <2>2
  <1>2. ASSUME NEW m \in T PROVE m + 1 \in T
    <2>1. PICK f : f = [n \in 0..m |-> Step(f, n)]
      OBVIOUS
    <2>2. PICK h : h = [n \in 0..m + 1 |-> Step(f, n)]
      OBVIOUS
    <2>3. m \in Nat
      OBVIOUS
    <2>4. \A n \in 0..m : h[n] = f[n]
      <3>1. \A n \in 0..m : f[n] = Step(f, n)
        BY <2>1
      <3>2. \A n \in 0..m : n \in 0..m + 1
        BY <2>3
      <3> QED BY <3>1, <3>2, <2>2
    <2>5. ASSUME NEW n \in 0..m + 1 PROVE Step(f, n) = Step(h, n)
      <3>1. n # 0 => n - 1 \in 0..m
        BY <2>3
      <3> QED BY <3>1, <2>4
    <2>6. h = [n \in 0..m + 1 |-> Step(h, n)]
      BY <2>2, <2>5
    <2>7. \E f2 : f2 = [n \in 0..m + 1 |-> Step(f2, n)]
      BY <2>6, Zenon
    <2>8. m + 1 \in Nat
      BY <2>3
    <2> QED BY <2>7, <2>8, Zenon
  <1>3. T = Nat
    <2> HIDE DEF T
    <2>1. T \in SUBSET Nat
      BY DEF T
    <2> QED BY <2>1, <1>1, <1>2, Induction
  <1>4. \E f : f = [n \in 0..Len(ds) |-> Step(f, n)]
    BY <1>3
  <1>5. PassUpTo(s, pass, ds) = [n \in 0..Len(ds) |-> Step(PassUpTo(s, pass, ds), n)]
    BY <1>4 DEF PassUpTo
  <1>6. PICK f : f = PassUpTo(s, pass, ds)
    OBVIOUS
  <1>7. \A n \in 0..Len(ds) : f[n] = Step(f, n)
    BY <1>5, <1>6
  <1>8. f[0] = s
    BY <1>7
  <1>9. ASSUME NEW n \in Nat, n + 1 <= Len(ds)
        PROVE  f[n + 1] = Reserved(f[n], Pass(pass, ds[n + 1]))
    <2>1. n + 1 \in 0..Len(ds) /\ n + 1 # 0 /\ (n + 1) - 1 = n
      BY <1>9
    <2>2. f[n + 1] = Step(f, n + 1)
      BY <1>7, <2>1
    <2> QED BY <2>1, <2>2
  <1>10. ReservedPass(s, pass, ds) = PassUpTo(s, pass, ds)[Len(ds)]
    BY DEF ReservedPass, PassUpTo
  <1> QED BY <1>6, <1>8, <1>9, <1>10

\* What lists have in common, and the lists of datablocks that are read and
\* written as a whole.
ListOk(list, N) == Len(list) \in Nat /\ \A i \in 1..Len(list) : ItemOk(list[i], N)
Plain(list) == \A i \in 1..Len(list) : list[i].into \in {"in", "out"}
ShiftFirst(list) ==
    /\ Len(list) >= 1 /\ list[1].into = "shift"
    /\ \A i \in 1..Len(list) : i # 1 => list[i].into = "inout"
AtBase(s) == s.pool.shifts = 0 /\ s.pool.inout = 0 /\ s.begin.in = 0

LEMMA ReservedFacts ==
    ASSUME NEW s, Sound(s), NEW N, NEW list, ListOk(list, N)
    PROVE  /\ Sound(Reserved(s, list)) /\ Grows(s, Reserved(s, list), N)
           /\ Plain(list) => Same(s, Reserved(s, list))
           /\ ShiftFirst(list) /\ AtBase(s) /\ s.agree => Matched(Reserved(s, list))
  <1> DEFINE u == ReservedUpTo(s, list)
             Good(n) == /\ Sound(u[n]) /\ Grows(s, u[n], N)
                        /\ Plain(list) => Same(s, u[n])
                        /\ ShiftFirst(list) /\ AtBase(s) /\ s.agree /\ n > 0 => Matched(u[n])
             T == {n \in Nat : n <= Len(list) => Good(n)}
  <1>0. Len(list) \in Nat /\ \A i \in 1..Len(list) : ItemOk(list[i], N)
    BY DEF ListOk
  <1>1. /\ Reserved(s, list) = u[Len(list)] /\ u[0] = s
        /\ \A n \in Nat : n + 1 <= Len(list) => u[n + 1] = DoReserve(u[n], list[n + 1])
    BY <1>0, ReservedExists
  <1> HIDE DEF u
  <1>2. 0 \in T
    BY <1>1, GrowsItself DEF Same
  <1>3. ASSUME NEW n \in T PROVE n + 1 \in T
    <2> SUFFICES ASSUME n + 1 <= Len(list) PROVE Good(n + 1)
      OBVIOUS
    <2>1. n \in Nat /\ n <= Len(list) /\ n + 1 \in 1..Len(list)
      BY <1>0
    <2>2. PICK v, r : v = u[n] /\ r = list[n + 1]
      OBVIOUS
    <2>3. Good(n) /\ ItemOk(r, N) /\ u[n + 1] = DoReserve(v, r)
      BY <1>0, <1>1, <2>1, <2>2
    <2>4. PICK w : w = DoReserve(v, r)
      OBVIOUS
    <2>5. Sound(v) /\ Grows(s, v, N)
      BY <2>2, <2>3
    <2>6. Sound(w) /\ Grows(v, w, N)
      BY <2>3, <2>4, <2>5, ReserveSound
    <2>7. Grows(s, w, N)
      BY <2>5, <2>6, GrowsOn
    <2>8. ASSUME Plain(list) PROVE Same(s, w)
      <3>1. Same(v, w)
        BY <2>1, <2>2, <2>4, <2>5, <2>8, ReserveSame DEF Plain
      <3>2. Same(s, v)
        BY <2>2, <2>3, <2>8
      <3> QED BY <3>1, <3>2 DEF Same
    <2>9. ASSUME ShiftFirst(list), AtBase(s), s.agree PROVE Matched(w)
      <3>1. CASE n = 0
        <4>1. v = s /\ r.into = "shift"
          BY <1>1, <2>2, <2>9, <3>1 DEF ShiftFirst
        <4> QED BY <2>4, <2>9, <4>1, ShiftMatched DEF AtBase
      <3>2. CASE n # 0
        <4>1. Matched(v) /\ n + 1 # 1
          BY <2>1, <2>2, <2>3, <2>9, <3>2
        <4>2. r.into = "inout"
          BY <2>1, <2>2, <2>9, <4>1 DEF ShiftFirst
        <4>3. r.length \in Nat
          BY <2>3, <4>2 DEF ItemOk
        <4> QED BY <2>4, <2>5, <4>1, <4>2, <4>3, ReserveMatched
      <3> QED BY <3>1, <3>2
    <2> QED BY <2>3, <2>4, <2>6, <2>7, <2>8, <2>9
  <1>4. T = Nat
    <2> HIDE DEF T
    <2>1. T \in SUBSET Nat
      BY DEF T
    <2> QED BY <2>1, <1>2, <1>3, Induction
  <1>5. Good(Len(list))
    BY <1>0, <1>4
  <1>6. ShiftFirst(list) => Len(list) > 0
    BY <1>0 DEF ShiftFirst
  <1> QED BY <1>1, <1>5, <1>6

-----------------------------------------------------------------------------
(* What is reserved for a datablock                                        *)

NamesOf(d) == {<<kind, d, b>> : kind \in {"sizes", "data"}, b \in Batches}

\* Where a region of a datablock may be, and a list of regions there.
MayBeIn(into, kind, d) ==
    /\ into \in {"in", "inout", "out"} /\ kind \in {"sizes", "data"}
    /\ into = "out" <=> kind = "data" /\ Kind[d] = "result"

ListIn(r, into, d) ==
    /\ r \in Seq([into : {into}, name : NamesOf(d), length : Nat])
    /\ ListOk(r, NamesOf(d)) /\ \A i \in 1..Len(r) : r[i].into = into

LEMMA ForBatchesFacts ==
    ASSUME NEW into, NEW kind, NEW d, MayBeIn(into, kind, d), NEW lengths \in [Batches -> Nat]
    PROVE  ListIn(ForBatches(into, kind, d, lengths), into, d)
  <1> DEFINE S == [into : {into}, name : NamesOf(d), length : Nat]
             f == [b \in Batches |-> Reserve(into, <<kind, d, b>>, lengths[b])]
             P == {b \in Batches : lengths[b] > 0}
  <1>0. /\ into \in {"in", "inout", "out"} /\ kind \in {"sizes", "data"}
        /\ into = "out" <=> kind = "data" /\ Kind[d] = "result"
    BY DEF MayBeIn
  <1>1. NBatches \in Nat
    BY BufferAssumption
  <1>2. f \in Seq(S) /\ Len(f) = NBatches
    <2>1. \A b \in Batches : <<kind, d, b>> \in NamesOf(d)
      BY <1>0 DEF NamesOf
    <2>2. f \in [1..NBatches -> S]
      BY <2>1 DEF Reserve, Batches
    <2> HIDE DEF f, S
    <2> QED BY <1>1, <2>2, SeqDef, LenProperties
  <1>3. PICK r : r = ForBatches(into, kind, d, lengths)
    OBVIOUS
  <1>4. r = ItemsAt(f, P)
    BY <1>3 DEF ForBatches
  <1>5. \A b \in P : ItemOk(f[b], NamesOf(d)) /\ f[b].into = into
    <2> TAKE b \in P
    <2>1. f[b] = Reserve(into, <<kind, d, b>>, lengths[b]) /\ lengths[b] \in Nat \ {0}
      OBVIOUS
    <2>2. OutName(<<kind, d, b>>) <=> kind = "data" /\ Kind[d] = "result"
      BY DEF OutName
    <2>3. <<kind, d, b>> \in NamesOf(d)
      BY <1>0 DEF NamesOf
    <2> QED BY <1>0, <2>1, <2>2, <2>3 DEF ItemOk, Reserve
  <1> HIDE DEF f, P, S
  <1>6. r \in Seq(S) /\ \E at0 : PlacesKept(r, at0, f, Len(f), P)
    BY <1>2, <1>4, ItemsAtFacts
  <1>7. PICK at0 : PlacesKept(r, at0, f, Len(f), P)
    BY <1>6
  <1>8. \A i \in 1..Len(r) : at0[i] \in P /\ r[i] = f[at0[i]]
    BY <1>7 DEF PlacesKept
  <1>9. \A i \in 1..Len(r) : ItemOk(r[i], NamesOf(d)) /\ r[i].into = into
    BY <1>5, <1>8
  <1>10. Len(r) \in Nat
    BY <1>6, LenProperties
  <1>11. ListOk(r, NamesOf(d))
    BY <1>9, <1>10 DEF ListOk
  <1> QED BY <1>3, <1>6, <1>9, <1>11 DEF S, ListIn

CountsTyped == count \in [Batches -> Nat]

LEMMA LengthsType ==
    ASSUME CountsTyped, NEW d
    PROVE  /\ [b \in Batches |-> SizesLength(d)] \in [Batches -> Nat]
           /\ [b \in Batches |-> DataLength(d, b)] \in [Batches -> Nat]
  <1>1. \A b \in Batches : SizesLength(d) \in Nat /\ DataLength(d, b) \in Nat
    <2> TAKE b \in Batches
    <2>1. count[b] \in Nat
      BY DEF CountsTyped
    <2>2. CASE Kind[d] = "whole"
      BY <2>1, <2>2 DEF SizesLength, DataLength
    <2>3. CASE Kind[d] # "whole"
      BY <2>1, <2>3 DEF SizesLength, DataLength
    <2> QED BY <2>2, <2>3
  <1> QED BY <1>1

LEMMA EmptyList == ASSUME NEW N PROVE ListOk(<<>>, N) /\ Plain(<<>>)
  BY DEF ListOk, Plain

LEMMA PassFacts ==
    ASSUME CountsTyped, NEW d \in Dbs, NEW pass \in {"sizes", "data", "results"}
    PROVE  /\ ListOk(Pass(pass, d), NamesOf(d))
           /\ IF pass = "data" /\ Kind[d] = "whole" THEN ShiftFirst(Pass(pass, d)) ELSE Plain(Pass(pass, d))
  <1>0. Kind[d] \in {"whole", "partial", "user", "result"}
    BY BufferAssumption
  <1>1. ASSUME NEW into \in {"in", "out"}, NEW kind \in {"sizes", "data"},
               NEW lengths \in [Batches -> Nat], into = "out" <=> kind = "data" /\ Kind[d] = "result"
        PROVE  /\ ListOk(ForBatches(into, kind, d, lengths), NamesOf(d))
               /\ Plain(ForBatches(into, kind, d, lengths))
    <2>1. PICK r : r = ForBatches(into, kind, d, lengths)
      OBVIOUS
    <2>2. ListOk(r, NamesOf(d)) /\ \A i \in 1..Len(r) : r[i].into = into
      <3>1. MayBeIn(into, kind, d)
        BY <1>1 DEF MayBeIn
      <3>2. ListIn(r, into, d)
        BY <2>1, <3>1, ForBatchesFacts
      <3> QED BY <3>2 DEF ListIn
    <2> QED BY <2>1, <2>2 DEF Plain
  <1>2. CASE pass = "sizes"
    <2>1. CASE Kind[d] \in {"whole", "partial"}
      <3>1. Pass(pass, d) = ForBatches("in", "sizes", d, [b \in Batches |-> SizesLength(d)])
        BY <1>2, <2>1 DEF Pass, SizesOf
      <3> QED BY <1>1, <1>2, <3>1, LengthsType
    <2>2. CASE Kind[d] \notin {"whole", "partial"}
      <3>1. Pass(pass, d) = <<>>
        BY <1>2, <2>2 DEF Pass, SizesOf
      <3> QED BY <1>2, <3>1, EmptyList
    <2> QED BY <2>1, <2>2
  <1>3. CASE pass = "results"
    <2>1. CASE Kind[d] = "result"
      <3>1. Pass(pass, d) = ForBatches("out", "data", d, [b \in Batches |-> DataLength(d, b)])
        BY <1>3, <2>1 DEF Pass, ResultsOf
      <3> QED BY <1>1, <1>3, <2>1, <3>1, LengthsType
    <2>2. CASE Kind[d] # "result"
      <3>1. Pass(pass, d) = <<>>
        BY <1>3, <2>2 DEF Pass, ResultsOf
      <3> QED BY <1>3, <3>1, EmptyList
    <2> QED BY <2>1, <2>2
  <1>4. CASE pass = "data"
    <2>0. Pass(pass, d) = DataOf(d)
      BY <1>4 DEF Pass
    <2>1. CASE Kind[d] = "whole"
      <3>1. PICK list : list = ForBatches("inout", "data", d, [b \in Batches |-> DataLength(d, b)])
        OBVIOUS
      <3>2. DataOf(d) = Shift \o list
        BY <2>1, <3>1 DEF DataOf
      <3>3. PICK T : T = [into : {"inout"}, name : NamesOf(d), length : Nat]
        OBVIOUS
      <3>4. /\ list \in Seq(T) /\ ListOk(list, NamesOf(d))
            /\ \A i \in 1..Len(list) : list[i].into = "inout"
        <4>1. PICK lengths \in [Batches -> Nat] : lengths = [b \in Batches |-> DataLength(d, b)]
          BY LengthsType
        <4>2. list = ForBatches("inout", "data", d, lengths)
          BY <3>1, <4>1
        <4>3. MayBeIn("inout", "data", d)
          BY <2>1 DEF MayBeIn
        <4>4. ListIn(list, "inout", d)
          BY <4>2, <4>3, ForBatchesFacts
        <4> QED BY <3>3, <4>4 DEF ListIn
      <3>5. PICK e : e = [into |-> "shift"]
        OBVIOUS
      <3>6. list \in Seq(T \cup {e}) /\ <<e>> \in Seq(T \cup {e})
        BY <3>4, SeqMonotonic
      <3>7. PICK both : both = <<e>> \o list
        OBVIOUS
      <3>8. /\ Len(both) = 1 + Len(list) /\ Len(list) \in Nat
            /\ \A i \in 1..1 + Len(list) : both[i] = IF i <= 1 THEN <<e>>[i] ELSE list[i - 1]
        <4>1. Len(<<e>>) = 1
          OBVIOUS
        <4> HIDE <3>5
        <4> QED BY <3>6, <3>7, <4>1, ConcatProperties, LenProperties
      <3>9. \A i \in 1..1 + Len(list) : i # 1 => i - 1 \in 1..Len(list) /\ both[i] = list[i - 1]
        <4> TAKE i \in 1..1 + Len(list)
        <4>1. i # 1 => ~(i <= 1) /\ i - 1 \in 1..Len(list)
          BY <3>8
        <4> QED BY <3>8, <4>1
      <3>10. 1 \in 1..1 + Len(list) /\ both[1] = e
        <4>1. 1 \in 1..1 + Len(list)
          BY <3>8
        <4>2. <<e>>[1] = e /\ 1 <= 1
          OBVIOUS
        <4> QED BY <3>8, <4>1, <4>2
      <3>11. e.into = "shift"
        BY <3>5
      <3>12. ListOk(both, NamesOf(d))
        BY <3>4, <3>8, <3>9, <3>10, <3>11 DEF ListOk, ItemOk
      <3>13. ShiftFirst(both)
        BY <3>4, <3>8, <3>9, <3>10, <3>11 DEF ShiftFirst
      <3>14. Pass(pass, d) = both
        BY <2>0, <3>2, <3>5, <3>7 DEF Shift
      <3> QED BY <1>4, <2>1, <3>12, <3>13, <3>14
    <2>2. CASE Kind[d] \in {"partial", "user"}
      <3>1. DataOf(d) = ForBatches("in", "data", d, [b \in Batches |-> DataLength(d, b)])
        BY <2>2 DEF DataOf
      <3> QED BY <1>1, <2>0, <2>2, <3>1, LengthsType
    <2>3. CASE Kind[d] = "result"
      <3>1. DataOf(d) = <<>>
        BY <2>3 DEF DataOf
      <3> QED BY <2>0, <2>3, <3>1, EmptyList
    <2> QED BY <1>0, <2>1, <2>2, <2>3
  <1> QED BY <1>2, <1>3, <1>4

\* The loops over datablocks.
AllNames(ds) == UNION {NamesOf(ds[i]) : i \in 1..Len(ds)}
NoWhole(ds) == \A i \in 1..Len(ds) : Kind[ds[i]] # "whole"
OneWhole(ds) == \A i, j \in 1..Len(ds) : Kind[ds[i]] = "whole" /\ Kind[ds[j]] = "whole" => i = j

LEMMA GrowsMore == ASSUME NEW s, NEW t, NEW N, NEW M, Grows(s, t, N), N \subseteq M PROVE Grows(s, t, M)
  BY DEF Grows, Behind

LEMMA PassesFacts ==
    ASSUME CountsTyped, NEW s, Sound(s), NEW pass \in {"sizes", "data", "results"}, NEW ds \in Seq(Dbs)
    PROVE  /\ Sound(ReservedPass(s, pass, ds)) /\ Grows(s, ReservedPass(s, pass, ds), AllNames(ds))
           /\ pass # "data" \/ NoWhole(ds) => Same(s, ReservedPass(s, pass, ds))
           /\ AtBase(s) /\ s.agree /\ OneWhole(ds) => ReservedPass(s, pass, ds).agree
  <1> DEFINE N == AllNames(ds)
             u == PassUpTo(s, pass, ds)
             None(n) == \A i \in 1..Len(ds) : i <= n => Kind[ds[i]] # "whole"
             Good(n) == /\ Sound(u[n]) /\ Grows(s, u[n], N)
                        /\ pass # "data" \/ NoWhole(ds) => Same(s, u[n])
                        /\ AtBase(s) /\ s.agree /\ OneWhole(ds) =>
                             u[n].agree /\ (None(n) => AtBase(u[n]))
             T == {n \in Nat : n <= Len(ds) => Good(n)}
  <1>0. Len(ds) \in Nat /\ \A i \in 1..Len(ds) : ds[i] \in Dbs /\ NamesOf(ds[i]) \subseteq N
    <2>1. Len(ds) \in Nat /\ \A i \in 1..Len(ds) : ds[i] \in Dbs
      BY LenProperties, ElementOfSeq
    <2> QED BY <2>1 DEF AllNames
  <1>1. /\ ReservedPass(s, pass, ds) = u[Len(ds)] /\ u[0] = s
        /\ \A n \in Nat : n + 1 <= Len(ds) => u[n + 1] = Reserved(u[n], Pass(pass, ds[n + 1]))
    BY <1>0, ReservedPassExists
  <1> HIDE DEF u, N
  <1>2. 0 \in T
    BY <1>1, GrowsItself DEF Same
  <1>3. ASSUME NEW n \in T PROVE n + 1 \in T
    <2> SUFFICES ASSUME n + 1 <= Len(ds) PROVE Good(n + 1)
      OBVIOUS
    <2>1. n \in Nat /\ n <= Len(ds) /\ n + 1 \in 1..Len(ds)
      BY <1>0
    <2>2. PICK v, d : v = u[n] /\ d = ds[n + 1]
      OBVIOUS
    <2>3. PICK list : list = Pass(pass, d)
      OBVIOUS
    <2>4. Good(n) /\ d \in Dbs /\ NamesOf(d) \subseteq N /\ u[n + 1] = Reserved(v, list)
      BY <1>0, <1>1, <2>1, <2>2, <2>3
    <2>5. PICK w : w = Reserved(v, list)
      OBVIOUS
    <2>6. Sound(v) /\ Grows(s, v, N)
      BY <2>2, <2>4
    <2>7. /\ ListOk(list, NamesOf(d))
          /\ IF pass = "data" /\ Kind[d] = "whole" THEN ShiftFirst(list) ELSE Plain(list)
      BY <2>3, <2>4, PassFacts
    <2>8. /\ Sound(w) /\ Grows(v, w, NamesOf(d))
          /\ Plain(list) => Same(v, w)
          /\ ShiftFirst(list) /\ AtBase(v) /\ v.agree => Matched(w)
      BY <2>5, <2>6, <2>7, ReservedFacts
    <2>9. Grows(v, w, N)
      BY <2>4, <2>8, GrowsMore
    <2>10. Grows(s, w, N)
      BY <2>6, <2>8, <2>9, GrowsOn
    <2>11. ASSUME pass # "data" \/ NoWhole(ds) PROVE Same(s, w)
      <3>1. Plain(list)
        BY <2>1, <2>2, <2>7, <2>11 DEF NoWhole
      <3>2. Same(s, v)
        BY <2>2, <2>4, <2>11
      <3> QED BY <2>8, <3>1, <3>2 DEF Same
    <2>12. ASSUME AtBase(s), s.agree, OneWhole(ds) PROVE w.agree /\ (None(n + 1) => AtBase(w))
      <3>1. v.agree /\ (None(n) => AtBase(v))
        BY <2>2, <2>4, <2>12
      <3>2. CASE pass = "data" /\ Kind[d] = "whole"
        <4>1. None(n)
          <5> SUFFICES ASSUME NEW i \in 1..Len(ds), i <= n, Kind[ds[i]] = "whole" PROVE FALSE
            OBVIOUS
          <5>1. i = n + 1
            BY <2>1, <2>2, <2>12, <3>2 DEF OneWhole
          <5> QED BY <2>1, <5>1
        <4>2. ~None(n + 1)
          <5>1. n + 1 <= n + 1
            BY <2>1
          <5> QED BY <2>1, <2>2, <3>2, <5>1
        <4>3. AtBase(v)
          BY <3>1, <4>1
        <4> QED BY <2>7, <2>8, <3>1, <3>2, <4>2, <4>3 DEF Matched
      <3>3. CASE ~(pass = "data" /\ Kind[d] = "whole")
        <4>1. Same(v, w) /\ w.begin.in = v.begin.in
          BY <2>7, <2>8, <3>3 DEF Grows
        <4>2. None(n + 1) => None(n)
          <5>1. \A i \in 1..Len(ds) : i <= n => i <= n + 1
            BY <2>1
          <5> QED BY <5>1
        <4> QED BY <3>1, <4>1, <4>2 DEF Same, AtBase
      <3> QED BY <3>2, <3>3
    <2> HIDE DEF None
    <2> QED BY <2>4, <2>5, <2>8, <2>10, <2>11, <2>12
  <1>4. T = Nat
    <2> HIDE DEF T
    <2>1. T \in SUBSET Nat
      BY DEF T
    <2> QED BY <2>1, <1>2, <1>3, Induction
  <1>5. Good(Len(ds))
    BY <1>0, <1>4
  <1> QED BY <1>1, <1>5 DEF N

-----------------------------------------------------------------------------
(* The list of an element's datablocks, and the arguments of its kernel    *)

LEMMA UsedListFacts ==
    ASSUME used[el] \subseteq Dbs
    PROVE  /\ UsedList \in Seq(used[el]) /\ UsedList \in Seq(Dbs)
           /\ Len(UsedList) \in Nat /\ DOMAIN UsedList = 1..Len(UsedList)
           /\ used[el] # {} => Len(UsedList) >= 1
           /\ \A i, j \in 1..Len(UsedList) : UsedList[i] = UsedList[j] => i = j
  <1>1. IsFiniteSet(used[el])
    BY BufferAssumption, FS_Subset
  <1>2. PICK n : n = Cardinality(used[el])
    OBVIOUS
  <1>3. n \in Nat /\ (used[el] # {} => n >= 1)
    <2>1. n \in Nat /\ (n = 0 <=> used[el] = {})
      BY <1>1, <1>2, FS_CardinalityType, FS_EmptySet
    <2> QED BY <2>1
  <1>4. ExistsBijection(1..n, used[el])
    BY <1>1, <1>2, FS_NatBijection, FS_CardinalityType
  <1>5. \E f \in [1..n -> used[el]] : IsInjective(f)
    BY <1>4 DEF ExistsBijection, Bijection, Injection, IsInjective
  <1>6. UsedList \in [1..n -> used[el]] /\ IsInjective(UsedList)
    BY <1>2, <1>5 DEF UsedList, SetToSeq
  <1>7. PICK list : list = UsedList
    OBVIOUS
  <1>8. list \in Seq(used[el]) /\ Len(list) = n /\ DOMAIN list = 1..n
    BY <1>3, <1>6, <1>7, SeqDef, LenProperties
  <1>9. list \in Seq(Dbs)
    BY <1>8, SeqMonotonic
  <1> QED BY <1>3, <1>6, <1>7, <1>8, <1>9 DEF IsInjective

\* The places that Prepare and Launch look for.
PlaceOf(list, d) == SelectInSeq(list, LAMBDA c : c = d)
LastPlaceOf(list, f, k) == SelectLastInSeq(list, LAMBDA d : f[d] = k)

LEMMA FirstPlace ==
    ASSUME NEW list, Len(list) \in Nat, NEW k \in 1..Len(list), NEW d, list[k] = d,
           \A i, j \in 1..Len(list) : list[i] = list[j] => i = j
    PROVE  PlaceOf(list, d) = k
  <1>1. PICK I : I = {i \in 1..Len(list) : list[i] = d}
    OBVIOUS
  <1>2. I = {k}
    BY <1>1
  <1>3. Min(I) = k
    <2>1. k \in I /\ \A y \in I : k <= y
      BY <1>2
    <2>2. \A x \in I : x = k
      BY <1>2
    <2> QED BY <2>1, <2>2 DEF Min
  <1> QED BY <1>1, <1>2, <1>3 DEF SelectInSeq, PlaceOf

IsLast(list, f, k, m) ==
    /\ Len(list) \in Nat /\ m \in 1..Len(list) /\ f[list[m]] = k
    /\ \A i \in 1..Len(list) : i > m => f[list[i]] # k

LEMMA LastPlace ==
    ASSUME NEW list, NEW f, NEW k, NEW m, IsLast(list, f, k, m)
    PROVE  LastPlaceOf(list, f, k) = m
  <1> USE DEF IsLast
  <1>1. PICK I : I = {i \in 1..Len(list) : f[list[i]] = k}
    OBVIOUS
  <1>2. m \in I /\ \A y \in I : m >= y
    BY <1>1
  <1>3. Max(I) = m
    <2>1. \A x \in I : (\A y \in I : x >= y) => x = m
      <3> SUFFICES ASSUME NEW x \in I, \A y \in I : x >= y PROVE x = m
        OBVIOUS
      <3>1. x \in Nat /\ x >= m /\ m >= x
        BY <1>1, <1>2
      <3> QED BY <3>1
    <2> QED BY <1>2, <2>1 DEF Max
  <1> QED BY <1>1, <1>2, <1>3 DEF SelectLastInSeq, LastPlaceOf

ArgNames(e) == {<<"array", e>>, <<"counts", e>>} \cup {<<"arg", e, i>> : i \in Nat}

LEMMA ArgNamesIn == ASSUME NEW n \in ArgNames(el) PROVE n[1] \in {"array", "counts", "arg"} /\ ~OutName(n)
  BY DEF ArgNames, OutName

LEMMA ArgItem ==
    ASSUME NEW name \in ArgNames(el), NEW length \in Nat \ {0}
    PROVE  /\ ItemOk(Reserve("in", name, length), ArgNames(el))
           /\ Reserve("in", name, length).into = "in"
  <1>1. ~OutName(name)
    BY ArgNamesIn
  <1> QED BY <1>1 DEF ItemOk, Reserve

LEMMA ArgsLists ==
    ASSUME datablocks \in Seq(Dbs), Len(datablocks) >= 1
    PROVE  /\ ListOk(KernelArgs, ArgNames(el)) /\ Plain(KernelArgs)
           /\ ListOk(ItemCounts, ArgNames(el)) /\ Plain(ItemCounts)
  <1>0. NBatches \in Nat \ {0} /\ 1 + NBatches \in Nat \ {0}
    BY BufferAssumption
  <1>1. PICK m \in Nat \ {0} : m = Len(datablocks) /\ DOMAIN datablocks = 1..m
    BY LenProperties
  <1>2. /\ <<"array", el>> \in ArgNames(el) /\ <<"counts", el>> \in ArgNames(el)
        /\ \A i \in 1..m : <<"arg", el, i>> \in ArgNames(el)
    BY DEF ArgNames
  <1>3. PICK a, c : a = Reserve("in", <<"array", el>>, m) /\ c = Reserve("in", <<"counts", el>>, NBatches)
    OBVIOUS
  <1>4. ItemOk(a, ArgNames(el)) /\ a.into = "in" /\ ItemOk(c, ArgNames(el)) /\ c.into = "in"
    BY <1>0, <1>1, <1>2, <1>3, ArgItem
  <1>5. PICK f : f = [i \in 1..m |-> Reserve("in", <<"arg", el, i>>, 1 + NBatches)]
    OBVIOUS
  <1>6. \A i \in 1..m : ItemOk(f[i], ArgNames(el)) /\ f[i].into = "in"
    BY <1>0, <1>2, <1>5, ArgItem
  <1>7. PICK S : S = {f[i] : i \in 1..m} \cup {a}
    OBVIOUS
  <1>8. f \in Seq(S) /\ Len(f) = m /\ <<a>> \in Seq(S) /\ Len(<<a>>) = 1 /\ <<a>>[1] = a
    <2>1. f \in [1..m -> S]
      BY <1>5, <1>7
    <2>2. f \in Seq(S) /\ Len(f) = m
      BY <1>1, <2>1, SeqDef, LenProperties
    <2>3. a \in S
      BY <1>7
    <2> QED BY <2>2, <2>3
  <1>9. PICK list : list = <<a>> \o f
    OBVIOUS
  <1>10. Len(list) = 1 + m /\ \A i \in 1..1 + m : list[i] = IF i <= 1 THEN <<a>>[i] ELSE f[i - 1]
    <2> HIDE <1>1, <1>3, <1>5, <1>7
    <2> QED BY <1>8, <1>9, ConcatProperties
  <1>11. ASSUME NEW i \in 1..1 + m PROVE ItemOk(list[i], ArgNames(el)) /\ list[i].into = "in"
    <2>1. CASE i = 1
      <3>1. list[i] = a
        BY <1>8, <1>10, <2>1
      <3> QED BY <1>4, <3>1
    <2>2. CASE i # 1
      <3>1. ~(i <= 1) /\ i - 1 \in 1..m
        BY <2>2
      <3>2. list[i] = f[i - 1]
        BY <1>10, <3>1
      <3> QED BY <1>6, <3>1, <3>2
    <2> QED BY <2>1, <2>2
  <1>12. ListOk(list, ArgNames(el)) /\ Plain(list)
    BY <1>10, <1>11 DEF ListOk, Plain
  <1>13. KernelArgs = list
    BY <1>1, <1>3, <1>5, <1>9 DEF KernelArgs
  <1>14. ListOk(<<c>>, ArgNames(el)) /\ Plain(<<c>>)
    <2>1. Len(<<c>>) = 1 /\ <<c>>[1] = c
      OBVIOUS
    <2> QED BY <1>4, <2>1 DEF ListOk, Plain
  <1>15. ItemCounts = <<c>>
    BY <1>3 DEF ItemCounts
  <1> QED BY <1>12, <1>13, <1>14, <1>15

-----------------------------------------------------------------------------
(* The derivation as the tasks find it                                     *)

PreprocIs == \A e \in Group, d \in Dbs :
    <<e, d>> \in preproc <=> e <= at /\ d \in used[e] /\ d \notin UsedAt(e - 1)

Ready == at = Length /\ deleted = {} /\ Fits
Fed == pc # "derive" => Ready

-----------------------------------------------------------------------------
(* The inductive invariant of the buffers                                  *)

\* A task that begins anew has nothing reserved and no datablocks.
Clean == pool = Empty /\ begin = NoBegin /\ regs = <<>> /\ datablocks = <<>>

Begins == pc = "derive" \/ (pc = "arrived" /\ (used[el] = {} \/ UsedAt(el - 1) = {}))

Tasks ==
    /\ pc \in {"derive", "arrived", "prepared", "running", "finished", "copied"}
    /\ el \in Group /\ CountsTyped /\ datablocks \in Seq(Dbs)
    /\ pc = "derive" => el = 1
    /\ pc \notin {"derive", "arrived"} => used[el] # {}
    /\ Begins => Clean

Buffers == \A n \in DOMAIN regs : regs[n].buffer = IF OutName(n) THEN "out" ELSE "in"

\* Data that is reserved belongs to a datablock that an element of the run uses.
FromRunUpTo(m) ==
    \A n \in DOMAIN regs : n[1] = "data" =>
        \E p \in 1..m : n[2] \in used[p] /\ \A h \in p..m : used[h] # {}
DataOfRun == FromRunUpTo(IF pc \in {"derive", "arrived"} THEN el - 1 ELSE el)

\* What kernels read is on the device, or will be when the element's copy is made.
Copied(r) == r.dev = r.new
ToBeCopied(r) == r.from >= begin.in /\ r.host = r.new
InputsKept ==
    ~NoPackets => \A n \in DOMAIN regs : regs[n].buffer = "in" =>
        \/ /\ Copied(regs[n])
           /\ pc = "prepared" => regs[n].from + regs[n].length <= begin.in
        \/ /\ pc = "prepared"
           /\ ToBeCopied(regs[n])

\* What the element's kernel produces lies in the range that is copied back.
Produced(n) == OutName(n) /\ n[2] \in used[el]
ResultsKept ==
    /\ pc \in {"prepared", "running", "finished"} =>
         \A n \in DOMAIN regs : Produced(n) => regs[n].from >= begin.out
    /\ pc = "finished" => \A d \in used[el], b \in Batches :
         Kind[d] = "result" /\ <<"data", d, b>> \in DOMAIN regs => Copied(regs[<<"data", d, b>>])
    /\ pc = "copied" => \A d \in ToPostprocess : Kind[d] = "result" => Back(d)

\* The datablocks of the element are the last ones of the task's list.
OwnPlaces ==
    /\ pc = "prepared" =>
         /\ \E front \in Seq(Dbs) : datablocks = front \o UsedList
         /\ \A k \in 1..Len(UsedList) : dbid_h2d[UsedList[k]] = k
    /\ ArgsOwn

LEMMA PreprocHolds == Spec => []PreprocIs
  <1>1. Init => PreprocIs
    BY DEF Init, PreprocIs, Group
  <1>2. ASSUME Inv, PreprocIs, [Next]_vars PROVE PreprocIs'
    <2>0. at \in Nat /\ Length \in Nat
      BY <1>2, GroupAssumption DEF Inv, TypeOK
    <2>1. CASE VisitElement
      <3>1. /\ at < Length /\ at' = at + 1 /\ used' = used
            /\ preproc' = preproc \cup ({at + 1} \X (UsedAt(at + 1) \ UsedAt(at)))
        BY <2>1 DEF VisitElement, UsedAt
      <3>2. \A e : UsedAt(e)' = UsedAt(e)
        BY <3>1 DEF UsedAt
      <3>3. at + 1 \in Group /\ UsedAt(at + 1) = used[at + 1] /\ (at + 1) - 1 = at
        BY <2>0, <3>1 DEF Group, UsedAt
      <3>4. ASSUME NEW e \in Group, NEW d \in Dbs
            PROVE  <<e, d>> \in preproc' <=> e <= at' /\ d \in used[e] /\ d \notin UsedAt(e - 1)
        <4>0. e \in Nat
          BY <2>0 DEF Group
        <4>1. CASE e = at + 1
          <5>1. <<e, d>> \notin preproc
            BY <1>2, <2>0, <4>1 DEF PreprocIs
          <5>2. <<e, d>> \in preproc' <=> d \in used[e] /\ d \notin UsedAt(e - 1)
            BY <3>1, <3>3, <4>1, <5>1
          <5> QED BY <2>0, <3>1, <4>1, <5>2
        <4>2. CASE e # at + 1
          <5>1. <<e, d>> \in preproc' <=> <<e, d>> \in preproc
            BY <3>1, <4>2
          <5>2. e <= at + 1 <=> e <= at
            BY <2>0, <4>0, <4>2
          <5> QED BY <1>2, <3>1, <5>1, <5>2 DEF PreprocIs
        <4> QED BY <4>1, <4>2
      <3> QED BY <3>1, <3>2, <3>4 DEF PreprocIs
    <2>2. CASE DeleteDatablock
      BY <1>2, <2>2 DEF DeleteDatablock, PreprocIs, UsedAt
    <2>3. CASE UNCHANGED vars
      BY <1>2, <2>3 DEF vars, PreprocIs, UsedAt
    <2> QED BY <1>2, <2>1, <2>2, <2>3 DEF Next
  <1> QED BY <1>1, <1>2, InvHolds, PTL DEF Spec

\* The derivation goes on as OffloadActions has it.
LEMMA IoRefines == IoSpec => Spec
  <1>1. IoInit => Init
    BY DEF IoInit
  <1>2. [IoNext]_<<vars, ioVars>> => [Next]_vars
    <2>1. Derive => Next
      BY DEF Derive
    <2>2. Feed \/ OnCPU => UNCHANGED vars
      BY DEF Feed, OnCPU, vars
    <2>3. Prepare => UNCHANGED vars
      BY Zenon DEF Prepare, vars
    <2>4. Launch => UNCHANGED vars
      BY Zenon DEF Launch, vars
    <2>5. Kernel => UNCHANGED vars
      BY Zenon DEF Kernel, vars
    <2>6. CopyD2h => UNCHANGED vars
      BY Zenon DEF CopyD2h, vars
    <2>7. Complete => UNCHANGED vars
      BY Zenon DEF Complete, vars
    <2> QED BY <2>1, <2>2, <2>3, <2>4, <2>5, <2>6, <2>7 DEF IoNext
  <1> QED BY <1>1, <1>2, PTL DEF IoSpec, Spec

\* What is known of the group, and what that means for an element with datablocks
\* when tasks arrive.
GroupKnown == Inv /\ PreprocIs /\ FinEndsRun /\ SavedOnce

LEMMA GroupHolds == IoSpec => []GroupKnown
  BY IoRefines, InvHolds, PreprocHolds, FinCorrect, SavedCorrect, PTL DEF GroupKnown

LEMMA GroupDone ==
    ASSUME GroupKnown, Ready, NEW e \in Group, used[e] # {}
    PROVE  /\ e + 1 \in Group /\ e \in Nat
           /\ UsedAt(e) = used[e] /\ UsedAt(e + 1) = used[e + 1] /\ used[e] \subseteq Dbs
           /\ Usable(e) /\ Contiguous
           /\ e \in fin <=> used[e + 1] = {}
           /\ \A d \in Dbs : /\ <<e, d>> \in preproc <=> d \in used[e] /\ d \notin UsedAt(e - 1)
                             /\ <<e, d>> \in postproc <=> d \in used[e] /\ d \notin used[e + 1]
  <1>1. /\ Length \in Nat /\ at = Length /\ deleted = {} /\ used[Length] = {} /\ Contiguous /\ Usable(e)
        /\ used \in [Group -> SUBSET Dbs]
    BY GroupAssumption DEF Ready, Fits, GroupKnown, Inv, TypeOK
  <1>2. e \in Nat /\ e \in 1..Length /\ e # Length /\ e <= at
    BY <1>1 DEF Group
  <1>3. e + 1 \in Group /\ e \in Derived
    BY <1>1, <1>2 DEF Group, Derived
  <1>4. UsedAt(e) = used[e] /\ UsedAt(e + 1) = used[e + 1] /\ used[e] \subseteq Dbs
    BY <1>1, <1>3 DEF UsedAt
  <1>5. e \in fin <=> used[e + 1] = {}
    BY <1>1, <1>3, <1>4 DEF GroupKnown, FinEndsRun, RunEnd
  <1>6. \A d \in Dbs : /\ <<e, d>> \in preproc <=> d \in used[e] /\ d \notin UsedAt(e - 1)
                       /\ <<e, d>> \in postproc <=> d \in used[e] /\ d \notin used[e + 1]
    BY <1>2, <1>3, <1>4 DEF GroupKnown, PreprocIs, SavedOnce
  <1> QED BY <1>1, <1>2, <1>3, <1>4, <1>5, <1>6

-----------------------------------------------------------------------------

IoInv ==
    /\ Fed /\ Tasks
    /\ Sound(Now(begin)) /\ agree
    /\ Buffers /\ DataOfRun /\ InputsKept /\ ResultsKept /\ OwnPlaces

LEMMA NowMemory == ASSUME NEW b PROVE Now(b) = Memory(pool, b, regs, agree)
  BY DEF Now, Memory

LEMMA NowParts ==
    ASSUME NEW b
    PROVE  /\ Now(b).pool = pool /\ Now(b).begin = b /\ Now(b).regs = regs /\ Now(b).agree = agree
  BY DEF Now

LEMMA CleanSound == ASSUME Clean, agree PROVE Sound(Now(begin))
  <1>1. 0 = 0 * Align
    BY BufferAssumption
  <1>2. Aligned(0)
    BY <1>1 DEF Aligned
  <1>3. Empty \in PoolType /\ Empty.in = 0 /\ NoBegin \in BeginType /\ NoBegin.in = 0
    BY DEF Empty, NoBegin, PoolType, BeginType
  <1>4. DOMAIN <<>> = {} /\ RegsType(<<>>)
    BY DEF RegsType
  <1>5. Layout(Empty, <<>>)
    BY <1>2, <1>3, <1>4 DEF Layout
  <1>6. PICK a \in BOOLEAN : a = agree
    OBVIOUS
  <1>7. Sound(Memory(Empty, NoBegin, <<>>, a))
    BY <1>3, <1>5, SoundMemory
  <1> QED BY <1>6, <1>7, NowMemory DEF Clean

LEMMA CleanRegs == ASSUME Clean PROVE Buffers /\ DataOfRun /\ InputsKept
  <1>1. DOMAIN regs = {}
    BY DEF Clean
  <1> QED BY <1>1 DEF Buffers, DataOfRun, FromRunUpTo, InputsKept

LEMMA IoInitInv == IoInit => IoInv
  <1> SUFFICES ASSUME IoInit PROVE IoInv
    OBVIOUS
  <1>1. pc = "derive" /\ el = 1 /\ agree /\ Clean /\ count = [b \in Batches |-> 0]
    BY DEF IoInit, Clean
  <1>2. 1 \in Group
    BY GroupAssumption, BufferAssumption DEF Group
  <1>3. CountsTyped /\ datablocks \in Seq(Dbs)
    BY <1>1 DEF CountsTyped, Clean
  <1>4. Tasks /\ Fed
    BY <1>1, <1>2, <1>3 DEF Tasks, Fed
  <1>5. ResultsKept /\ OwnPlaces
    BY <1>1 DEF ResultsKept, OwnPlaces, ArgsOwn
  <1> QED BY <1>1, <1>4, <1>5, CleanSound, CleanRegs DEF IoInv

\* Steps of the derivation, and steps between elements.
LEMMA DeriveInv == ASSUME IoInv, Inv, Derive PROVE IoInv'
  <1>1. pc = "derive" /\ UNCHANGED ioVars /\ used' = used
    BY DEF Derive, Next, VisitElement, DeleteDatablock
  <1>2. /\ count' = count /\ pc' = pc /\ el' = el /\ datablocks' = datablocks /\ dbid_h2d' = dbid_h2d
        /\ pool' = pool /\ begin' = begin /\ regs' = regs /\ dbarray' = dbarray /\ agree' = agree
    BY <1>1 DEF ioVars
  <1>3. Fed' /\ Tasks'
    BY <1>1, <1>2 DEF IoInv, Fed, Tasks, CountsTyped, Begins, Clean, UsedAt
  <1>4. Sound(Now(begin))' /\ agree' /\ Buffers'
    BY <1>1, <1>2 DEF IoInv, Now, Buffers
  <1>5. DataOfRun' /\ InputsKept'
    BY <1>1, <1>2 DEF IoInv, DataOfRun, FromRunUpTo, InputsKept, NoPackets, Copied, ToBeCopied
  <1>6. ResultsKept' /\ OwnPlaces'
    BY <1>1, <1>2 DEF IoInv, ResultsKept, OwnPlaces, ArgsOwn
  <1> QED BY <1>3, <1>4, <1>5, <1>6 DEF IoInv

LEMMA FeedInv == ASSUME IoInv, Feed PROVE IoInv'
  <1>1. /\ pc = "derive" /\ pc' = "arrived" /\ Ready /\ Clean /\ agree /\ el = 1 /\ el \in Group
        /\ count' \in [Batches -> Counts] /\ UNCHANGED vars
        /\ el' = el /\ datablocks' = datablocks /\ pool' = pool /\ begin' = begin /\ regs' = regs
        /\ agree' = agree
    BY DEF Feed, IoInv, Tasks, Begins, Ready
  <1>2. Clean' /\ used' = used
    BY <1>1 DEF Clean, vars
  <1>3. Fed'
    BY <1>1, <1>2 DEF Fed, Ready, Fits, Contiguous, Usable, UsedAt, vars
  <1>4. Tasks'
    <2>1. count' \in [Batches -> Nat]
      BY <1>1, BufferAssumption
    <2>2. datablocks' \in Seq(Dbs)
      BY <1>1 DEF Clean
    <2> QED BY <1>1, <1>2, <2>1, <2>2 DEF Tasks, CountsTyped
  <1>5. (Sound(Now(begin)))'
    <2>1. Sound(Now(begin))
      BY DEF IoInv
    <2> QED BY <1>1, <2>1 DEF Now
  <1>6. DOMAIN regs' = {}
    BY <1>2 DEF Clean
  <1>7. Buffers' /\ DataOfRun' /\ InputsKept'
    BY <1>6 DEF Buffers, DataOfRun, FromRunUpTo, InputsKept
  <1>8. ResultsKept' /\ OwnPlaces'
    BY <1>1 DEF ResultsKept, OwnPlaces, ArgsOwn
  <1> QED BY <1>1, <1>3, <1>4, <1>5, <1>7, <1>8 DEF IoInv

LEMMA OnCPUInv == ASSUME IoInv, OnCPU PROVE IoInv'
  <1>1. /\ pc = "arrived" /\ pc' = pc /\ used[el] = {} /\ el < Length /\ el' = el + 1
        /\ UNCHANGED vars /\ el \in Group /\ Fed /\ CountsTyped
        /\ count' = count /\ datablocks' = datablocks /\ pool' = pool /\ begin' = begin
        /\ regs' = regs /\ agree' = agree /\ agree
    BY DEF OnCPU, IoInv, Tasks
  <1>2. Clean
    BY <1>1 DEF IoInv, Tasks, Begins
  <1>3. Clean' /\ used' = used
    BY <1>1, <1>2 DEF Clean, vars
  <1>4. Fed'
    BY <1>1, <1>3 DEF Fed, Ready, Fits, Contiguous, Usable, UsedAt, vars
  <1>5. Tasks'
    <2>1. el' \in Group
      BY <1>1, GroupAssumption DEF Group
    <2>2. datablocks' \in Seq(Dbs)
      BY <1>3 DEF Clean
    <2> QED BY <1>1, <1>3, <2>1, <2>2 DEF Tasks, CountsTyped
  <1>6. (Sound(Now(begin)))'
    <2>1. Sound(Now(begin))
      BY DEF IoInv
    <2> QED BY <1>1, <2>1 DEF Now
  <1>7. DOMAIN regs' = {}
    BY <1>3 DEF Clean
  <1>8. Buffers' /\ DataOfRun' /\ InputsKept'
    BY <1>7 DEF Buffers, DataOfRun, FromRunUpTo, InputsKept
  <1>9. ResultsKept' /\ OwnPlaces'
    BY <1>1 DEF ResultsKept, OwnPlaces, ArgsOwn
  <1> QED BY <1>1, <1>4, <1>5, <1>6, <1>8, <1>9 DEF IoInv

-----------------------------------------------------------------------------
(* Pre-processing                                                          *)

LEMMA BeginsHere == ASSUME IoInv PROVE Sound(Now(BeginHere)) /\ Sound(Now(begin))
  <1>1. Sound(Now(begin))
    BY DEF IoInv
  <1>2. /\ pool \in PoolType /\ begin \in BeginType /\ agree \in BOOLEAN /\ Layout(pool, regs)
    BY <1>1, NowParts DEF Sound, Layout
  <1>3. BeginHere \in BeginType /\ BeginHere.in = pool.in /\ pool.in \in Nat
    BY <1>2 DEF BeginHere, BeginType, PoolType
  <1>4. BeginHere.in <= pool.in
    BY <1>3
  <1>5. Sound(Memory(pool, BeginHere, regs, agree))
    BY <1>2, <1>3, <1>4, SoundMemory
  <1> QED BY <1>1, <1>5, NowMemory

\* What an element brings is reserved behind what is there.
Brings(new) ==
    /\ new \in Seq(Dbs)
    /\ \A i \in 1..Len(new) : new[i] \in used[el] /\ new[i] \notin UsedAt(el - 1)
    /\ Sound(Now(begin))' /\ agree'
    /\ Grows(Now(BeginHere), Now(begin)', AllNames(new))

LEMMA PrepareBrings == ASSUME GroupKnown, IoInv, Prepare PROVE \E new : Brings(new)
  <1>1. /\ pc = "arrived" /\ used[el] # {} /\ Ready /\ el \in Group /\ CountsTyped
        /\ datablocks \in Seq(Dbs) /\ agree
    BY DEF Prepare, IoInv, Tasks, Fed
  <1>2. /\ used[el] \subseteq Dbs /\ Usable(el)
        /\ \A d \in Dbs : <<el, d>> \in preproc => d \in used[el] /\ d \notin UsedAt(el - 1)
    BY <1>1, GroupDone
  <1>3. PICK list : list = UsedList
    OBVIOUS
  <1>4. list \in Seq(Dbs) /\ \A i, j \in 1..Len(list) : list[i] = list[j] => i = j
    BY <1>2, <1>3, UsedListFacts
  <1>5. PICK both : both = datablocks \o list
    OBVIOUS
  <1>6. both \in Seq(Dbs)
    BY <1>1, <1>4, <1>5, ConcatProperties
  <1>7. PICK places : places = {i \in DOMAIN both : <<el, both[i]>> \in preproc}
    OBVIOUS
  <1>8. PICK new : new = ItemsAt(both, places)
    OBVIOUS
  <1>9. new \in Seq(Dbs) /\ \E at0 : PlacesKept(new, at0, both, Len(both), places)
    BY <1>6, <1>8, ItemsAtFacts
  <1>10. PICK at0 : PlacesKept(new, at0, both, Len(both), places)
    BY <1>9
  <1>11. Len(new) \in Nat /\ \A i \in 1..Len(new) : new[i] \in Dbs
    BY <1>9, LenProperties, ElementOfSeq
  <1>12. \A i \in 1..Len(new) : at0[i] \in 1..Len(both) /\ at0[i] \in places /\ new[i] = both[at0[i]]
    BY <1>10 DEF PlacesKept
  <1>13. \A i \in 1..Len(new) : new[i] \in used[el] /\ new[i] \notin UsedAt(el - 1)
    BY <1>2, <1>7, <1>11, <1>12
  <1>14. PICK s : s = Now(BeginHere)
    OBVIOUS
  <1>15. PICK s1 : s1 = ReservedPass(s, "sizes", new)
    OBVIOUS
  <1>16. PICK s2 : s2 = ReservedPass(s1, "data", new)
    OBVIOUS
  <1>17. PICK s3 : s3 = ReservedPass(s2, "results", new)
    OBVIOUS
  <1>18. pool' = s3.pool /\ begin' = s3.begin /\ regs' = s3.regs /\ agree' = s3.agree
    <2>1. datablocks' = both
      BY <1>3, <1>5 DEF Prepare, Push
    <2> QED BY <2>1, <1>7, <1>8, <1>14, <1>15, <1>16, <1>17 DEF Prepare
  <1>19. Sound(s) /\ s.agree
    BY <1>1, <1>14, BeginsHere, NowParts
  <1>20. Sound(s1) /\ Grows(s, s1, AllNames(new)) /\ Same(s, s1)
    BY <1>1, <1>9, <1>15, <1>19, PassesFacts
  <1>21. /\ Sound(s2) /\ Grows(s1, s2, AllNames(new))
         /\ NoWhole(new) => Same(s1, s2)
         /\ AtBase(s1) /\ s1.agree /\ OneWhole(new) => s2.agree
    BY <1>1, <1>9, <1>16, <1>20, PassesFacts
  <1>22. Sound(s3) /\ Grows(s2, s3, AllNames(new)) /\ Same(s2, s3)
    BY <1>1, <1>9, <1>17, <1>21, PassesFacts
  <1>23. s2.agree
    <2>1. s1.agree
      BY <1>19, <1>20 DEF Same
    <2>2. CASE UsedAt(el - 1) # {}
      <3>1. NoWhole(new)
        BY <1>2, <1>13, <2>2 DEF NoWhole, Usable
      <3> QED BY <1>21, <2>1, <3>1 DEF Same
    <2>3. CASE UsedAt(el - 1) = {}
      <3>1. Clean
        BY <1>1, <2>3 DEF IoInv, Tasks, Begins
      <3>2. AtBase(s)
        BY <1>14, <3>1, NowParts DEF Clean, Empty, BeginHere, AtBase
      <3>3. AtBase(s1)
        BY <1>20, <3>2 DEF AtBase, Same, Grows
      <3>4. both = list
        BY <1>4, <1>5, <3>1, ConcatEmptySeq DEF Clean
      <3>5. OneWhole(new)
        <4> SUFFICES ASSUME NEW i \in 1..Len(new), NEW j \in 1..Len(new),
                            Kind[new[i]] = "whole", Kind[new[j]] = "whole"
                     PROVE  i = j
          BY DEF OneWhole
        <4>1. new[i] = new[j]
          BY <1>2, <1>13 DEF Usable
        <4>2. at0[i] = at0[j] /\ at0[i] \in Nat
          BY <1>4, <1>12, <3>4, <4>1
        <4>3. ~(i < j) /\ ~(j < i)
          BY <1>10, <4>2 DEF PlacesKept
        <4> QED BY <1>11, <4>3
      <3> QED BY <1>21, <2>1, <3>3, <3>5
    <2> QED BY <2>2, <2>3
  <1>24. s3.agree
    BY <1>22, <1>23 DEF Same
  <1>25. Grows(s, s2, AllNames(new))
    BY <1>19, <1>20, <1>21, GrowsOn
  <1>26. Grows(s, s3, AllNames(new))
    BY <1>19, <1>21, <1>22, <1>25, GrowsOn
  <1>27. Now(begin)' = s3
    <2>1. s3 = Memory(s3.pool, s3.begin, s3.regs, s3.agree)
      BY <1>22 DEF Sound
    <2>2. Now(begin)' = Memory(pool', begin', regs', agree')
      BY DEF Now, Memory
    <2> QED BY <1>18, <2>1, <2>2
  <1>28. Sound(Now(begin))'
    BY <1>22, <1>27
  <1>29. agree'
    BY <1>18, <1>24
  <1> QED BY <1>9, <1>13, <1>14, <1>26, <1>27, <1>28, <1>29 DEF Brings

\* A result is not reserved before its element.
LEMMA ResultIsNew ==
    ASSUME GroupKnown, IoInv, pc = "arrived", used[el] # {}, NEW n \in DOMAIN regs, OutName(n)
    PROVE  n[2] \notin used[el]
  <1>1. Ready /\ el \in Group /\ el \in Nat /\ Usable(el) /\ Contiguous
    <2>1. Ready /\ el \in Group
      BY DEF IoInv, Tasks, Fed
    <2> QED BY <2>1, GroupDone
  <1>2. PICK d : d = n[2] /\ n[1] = "data" /\ Kind[d] = "result"
    BY DEF OutName
  <1>3. PICK p \in 1..(el - 1) : d \in used[p] /\ \A h \in p..(el - 1) : used[h] # {}
    BY <1>2 DEF IoInv, DataOfRun, FromRunUpTo
  <1>4. SUFFICES ASSUME d \in used[el] PROVE FALSE
    BY <1>2
  <1>5. p \in Group /\ el - 1 \in Group /\ p <= el - 1 /\ el - 1 <= el
    BY <1>1, <1>3, GroupAssumption DEF Group
  <1>6. \A h \in p..el : h \in p..(el - 1) \/ h = el
    BY <1>1, <1>3
  <1>7. d \in used[el - 1]
    BY <1>1, <1>3, <1>4, <1>5, <1>6 DEF Contiguous
  <1>8. d \in UsedAt(el - 1)
    BY <1>5, <1>7 DEF UsedAt
  <1> QED BY <1>1, <1>2, <1>4, <1>8 DEF Usable

LEMMA PreparePlaces ==
    ASSUME GroupKnown, IoInv, Prepare
    PROVE  datablocks' \in Seq(Dbs) /\ OwnPlaces'
  <1>1. /\ used[el] # {} /\ Ready /\ el \in Group /\ datablocks \in Seq(Dbs)
        /\ pc' = "prepared" /\ el' = el /\ used' = used /\ datablocks' = datablocks \o UsedList
    BY DEF Prepare, IoInv, Tasks, Fed, vars, Push
  <1>2. used[el] \subseteq Dbs
    BY <1>1, GroupDone
  <1>3. PICK list : list = UsedList
    OBVIOUS
  <1>4. /\ list \in Seq(used[el]) /\ list \in Seq(Dbs) /\ Len(list) \in Nat
        /\ \A i, j \in 1..Len(list) : list[i] = list[j] => i = j
    BY <1>2, <1>3, UsedListFacts
  <1>5. datablocks \o list \in Seq(Dbs)
    BY <1>1, <1>4, ConcatProperties
  <1>6. UsedList' = list
    BY <1>1, <1>3 DEF UsedList
  <1>7. ASSUME NEW k \in 1..Len(list) PROVE dbid_h2d'[list[k]] = k
    <2>1. list[k] \in used[el]
      BY <1>4, ElementOfSeq
    <2>2. PICK d : d = list[k]
      OBVIOUS
    <2>3. dbid_h2d'[d] = PlaceOf(list, d)
      <3>1. d \in used[el] /\ d \in Dbs
        BY <1>2, <2>1, <2>2
      <3>2. dbid_h2d' = [x \in Dbs |-> IF x \in used[el] THEN PlaceOf(UsedList, x) ELSE dbid_h2d[x]]
        BY Zenon DEF Prepare, PlaceOf
      <3> QED BY <1>3, <3>1, <3>2
    <2> QED BY <1>4, <2>2, <2>3, FirstPlace
  <1> QED BY <1>1, <1>3, <1>5, <1>6, <1>7 DEF OwnPlaces, ArgsOwn

LEMMA PrepareInv == ASSUME GroupKnown, IoInv, Prepare PROVE IoInv'
  <1>1. /\ pc = "arrived" /\ used[el] # {} /\ Ready /\ el \in Group /\ CountsTyped /\ Fed
        /\ pc' = "prepared" /\ el' = el /\ count' = count /\ UNCHANGED vars
    BY DEF Prepare, IoInv, Tasks, Fed
  <1>2. PICK new : Brings(new)
    BY PrepareBrings
  <1>3. datablocks' \in Seq(Dbs) /\ OwnPlaces'
    BY PreparePlaces
  <1>4. used' = used
    BY <1>1 DEF vars
  <1>5. Fed'
    BY <1>1, <1>4 DEF Fed, Ready, Fits, Contiguous, Usable, UsedAt, vars
  <1>6. Tasks'
    BY <1>1, <1>3, <1>4 DEF Tasks, CountsTyped, Begins
  <1>7. /\ Behind(pool, regs, pool', regs', AllNames(new))
        /\ begin'.in = pool.in /\ begin'.out = pool.out
    BY <1>2, NowParts DEF Brings, Grows, BeginHere, Now
  <1>8. /\ \A n \in DOMAIN regs : n \in DOMAIN regs' /\ regs'[n] = regs[n]
        /\ \A n \in DOMAIN regs' : n \notin DOMAIN regs =>
             /\ n \in AllNames(new) /\ regs'[n].from >= pool[regs'[n].buffer]
             /\ regs'[n].buffer = IF OutName(n) THEN "out" ELSE "in"
             /\ regs'[n].buffer = "in" => regs'[n].host = 0 /\ regs'[n].new = 0
    BY <1>7 DEF Behind
  <1>9. \A n \in AllNames(new) : n[2] \in used[el]
    BY <1>2 DEF AllNames, NamesOf, Brings
  <1>10. el \in Nat
    BY <1>1 DEF Group
  <1>11. Buffers'
    BY <1>8 DEF Buffers, IoInv
  <1>12. DataOfRun'
    <2> SUFFICES ASSUME NEW n \in DOMAIN regs', n[1] = "data"
                 PROVE  \E p \in 1..el : n[2] \in used[p] /\ \A h \in p..el : used[h] # {}
      BY <1>1, <1>4 DEF DataOfRun, FromRunUpTo
    <2>1. CASE n \in DOMAIN regs
      <3>1. PICK p \in 1..(el - 1) : n[2] \in used[p] /\ \A h \in p..(el - 1) : used[h] # {}
        BY <1>1, <2>1 DEF IoInv, DataOfRun, FromRunUpTo
      <3>2. p \in 1..el /\ \A h \in p..el : h \in p..(el - 1) \/ h = el
        BY <1>10, <3>1
      <3> QED BY <1>1, <3>1, <3>2
    <2>2. CASE n \notin DOMAIN regs
      <3>1. n[2] \in used[el]
        BY <1>8, <1>9, <2>2
      <3>2. el \in 1..el /\ \A h \in el..el : h = el
        BY <1>1, <1>10 DEF Group
      <3> QED BY <1>1, <3>1, <3>2
    <2> QED BY <2>1, <2>2
  <1>13. InputsKept'
    <2> SUFFICES ASSUME ~NoPackets, NEW n \in DOMAIN regs', regs'[n].buffer = "in"
                 PROVE  \/ /\ Copied(regs'[n])
                           /\ regs'[n].from + regs'[n].length <= begin'.in
                        \/ regs'[n].from >= begin'.in /\ regs'[n].host = regs'[n].new
      BY <1>1 DEF InputsKept, NoPackets, Copied, ToBeCopied
    <2>1. CASE n \in DOMAIN regs
      <3>1. regs'[n] = regs[n]
        BY <1>8, <2>1
      <3>2. Copied(regs[n])
        BY <1>1, <2>1, <3>1 DEF IoInv, InputsKept
      <3>3. regs[n].from + regs[n].length <= pool[regs[n].buffer]
        BY <2>1, BeginsHere, NowParts DEF Sound, Layout
      <3> QED BY <1>7, <3>1, <3>2, <3>3
    <2>2. CASE n \notin DOMAIN regs
      BY <1>7, <1>8, <2>2
    <2> QED BY <2>1, <2>2
  <1>14. ResultsKept'
    <2> SUFFICES ASSUME NEW n \in DOMAIN regs', OutName(n), n[2] \in used[el]
                 PROVE  regs'[n].from >= begin'.out
      BY <1>1, <1>4 DEF ResultsKept, Produced
    <2>1. n \notin DOMAIN regs
      BY <1>1, ResultIsNew
    <2> QED BY <1>7, <1>8, <2>1
  <1> QED BY <1>2, <1>3, <1>5, <1>6, <1>11, <1>12, <1>13, <1>14 DEF IoInv, Brings

-----------------------------------------------------------------------------
(* Copies and kernels leave the regions where they are                     *)

SameRegions(g, h) ==
    /\ DOMAIN h = DOMAIN g /\ RegsType(h)
    /\ \A n \in DOMAIN g : /\ h[n].buffer = g[n].buffer
                           /\ h[n].from = g[n].from /\ h[n].length = g[n].length

LEMMA SameLayout == ASSUME NEW p, NEW g, Layout(p, g), NEW h, SameRegions(g, h) PROVE Layout(p, h)
  <1>1. \A n \in DOMAIN h : h[n].from + h[n].length <= p[h[n].buffer]
    BY DEF Layout, SameRegions
  <1>2. \A m, n \in DOMAIN h :
         m # n => Apart(h[m], h[n].buffer, h[n].from, h[n].from + h[n].length)
    <2> SUFFICES ASSUME NEW m \in DOMAIN h, NEW n \in DOMAIN h, m # n
                 PROVE  Apart(h[m], h[n].buffer, h[n].from, h[n].from + h[n].length)
      OBVIOUS
    <2>1. Apart(g[m], g[n].buffer, g[n].from, g[n].from + g[n].length)
      BY DEF Layout, SameRegions
    <2> QED BY <2>1 DEF SameRegions, Apart
  <1> QED BY <1>1, <1>2 DEF Layout, SameRegions

LEMMA WriteSame ==
    ASSUME NEW g, RegsType(g), NEW buffer, NEW from, NEW to
    PROVE  SameRegions(g, MemWrite(g, buffer, from, to))
  <1>1. PICK h : h = MemWrite(g, buffer, from, to)
    OBVIOUS
  <1>2. DOMAIN h = DOMAIN g /\ h = [n \in DOMAIN h |-> h[n]]
    BY <1>1 DEF MemWrite
  <1>3. ASSUME NEW n \in DOMAIN g
        PROVE  /\ h[n] \in RegionType /\ h[n].buffer = g[n].buffer
               /\ h[n].from = g[n].from /\ h[n].length = g[n].length
    <2>1. PICK e : e = IF Inside(g[n], buffer, from, to) THEN g[n].host ELSE -1
      OBVIOUS
    <2>2. h[n] = IF Apart(g[n], buffer, from, to) THEN g[n] ELSE [g[n] EXCEPT !.dev = e]
      BY <1>1, <2>1 DEF MemWrite
    <2>3. g[n] \in RegionType
      BY DEF RegsType
    <2>4. e \in Int
      BY <2>1, <2>3 DEF RegionType
    <2> QED BY <2>2, <2>3, <2>4 DEF RegionType
  <1> QED BY <1>1, <1>2, <1>3 DEF SameRegions, RegsType

LEMMA ReadSame ==
    ASSUME NEW g, RegsType(g), NEW buffer, NEW from, NEW to
    PROVE  SameRegions(g, MemRead(g, buffer, from, to))
  <1>1. PICK h : h = MemRead(g, buffer, from, to)
    OBVIOUS
  <1>2. DOMAIN h = DOMAIN g /\ h = [n \in DOMAIN h |-> h[n]]
    BY <1>1 DEF MemRead
  <1>3. ASSUME NEW n \in DOMAIN g
        PROVE  /\ h[n] \in RegionType /\ h[n].buffer = g[n].buffer
               /\ h[n].from = g[n].from /\ h[n].length = g[n].length
    <2>1. PICK e : e = IF Inside(g[n], buffer, from, to) THEN g[n].dev ELSE -1
      OBVIOUS
    <2>2. h[n] = IF Apart(g[n], buffer, from, to) THEN g[n] ELSE [g[n] EXCEPT !.host = e]
      BY <1>1, <2>1 DEF MemRead
    <2>3. g[n] \in RegionType
      BY DEF RegsType
    <2>4. e \in Int
      BY <2>1, <2>3 DEF RegionType
    <2> QED BY <2>2, <2>3, <2>4 DEF RegionType
  <1> QED BY <1>1, <1>2, <1>3 DEF SameRegions, RegsType

LEMMA SameItself == ASSUME NEW g, RegsType(g) PROVE SameRegions(g, g)
  BY DEF SameRegions

-----------------------------------------------------------------------------
(* The copy to the device                                                  *)

\* The copied range of a launch holds all that was reserved since Prepare began.
Launches(t) ==
    /\ Sound(t) /\ Grows(Now(begin), t, ArgNames(el))
    /\ pool' = t.pool
    /\ regs' = IF NoPackets THEN t.regs ELSE MemWrite(t.regs, "in", begin.in, t.pool.in)

LEMMA LaunchGrows == ASSUME GroupKnown, IoInv, Launch PROVE \E t : Launches(t)
  <1>1. /\ used[el] # {} /\ Ready /\ el \in Group /\ datablocks \in Seq(Dbs)
        /\ \E front \in Seq(Dbs) : datablocks = front \o UsedList
        /\ pc = "prepared"
    BY DEF Launch, IoInv, Tasks, Fed, OwnPlaces
  <1>2. used[el] \subseteq Dbs
    BY <1>1, GroupDone
  <1>3. PICK list : list = UsedList
    OBVIOUS
  <1>4. list \in Seq(Dbs) /\ Len(list) \in Nat /\ Len(list) >= 1
    BY <1>1, <1>2, <1>3, UsedListFacts
  <1>5. PICK front \in Seq(Dbs) : datablocks = front \o list
    BY <1>1, <1>3
  <1>6. Len(datablocks) >= 1
    <2>1. Len(datablocks) = Len(front) + Len(list) /\ Len(front) \in Nat
      BY <1>4, <1>5, ConcatProperties, LenProperties
    <2> QED BY <1>4, <2>1
  <1>7. /\ ListOk(KernelArgs, ArgNames(el)) /\ ListOk(ItemCounts, ArgNames(el))
    BY <1>1, <1>6, ArgsLists
  <1>8. PICK s : s = Now(begin)
    OBVIOUS
  <1>9. PICK args : args = Reserved(s, KernelArgs)
    OBVIOUS
  <1>10. PICK all : all = Reserved(args, ItemCounts)
    OBVIOUS
  <1>11. Sound(s)
    BY <1>8 DEF IoInv
  <1>12. Sound(args) /\ Grows(s, args, ArgNames(el))
    BY <1>7, <1>9, <1>11, ReservedFacts
  <1>13. Sound(all) /\ Grows(args, all, ArgNames(el))
    BY <1>7, <1>10, <1>12, ReservedFacts
  <1>14. Grows(s, all, ArgNames(el))
    BY <1>11, <1>12, <1>13, GrowsOn
  <1>15. IF NoPackets THEN pool' = args.pool /\ regs' = args.regs
         ELSE /\ pool' = all.pool
              /\ regs' = MemWrite(all.regs, "in", begin.in, H2dEnd(args, all))
    BY <1>8, <1>9, <1>10, Zenon DEF Launch
  <1>16. CASE NoPackets
    <2>1. Launches(args)
      BY <1>8, <1>12, <1>15, <1>16 DEF Launches
    <2> QED BY <2>1
  <1>17. CASE ~NoPackets
    <2>1. Launches(all)
      BY <1>8, <1>13, <1>14, <1>15, <1>17 DEF Launches, H2dEnd
    <2> QED BY <2>1
  <1> QED BY <1>16, <1>17

LEMMA LaunchPlaces == ASSUME GroupKnown, IoInv, Launch PROVE OwnPlaces'
  <1>1. /\ pc = "prepared" /\ used[el] # {} /\ Ready /\ el \in Group
        /\ \A k \in 1..Len(UsedList) : dbid_h2d[UsedList[k]] = k
        /\ \E front \in Seq(Dbs) : datablocks = front \o UsedList
        /\ pc' = "running" /\ el' = el /\ used' = used /\ datablocks' = datablocks
    BY DEF Launch, IoInv, Tasks, Fed, OwnPlaces, vars
  <1>2. used[el] \subseteq Dbs
    BY <1>1, GroupDone
  <1>3. PICK list : list = UsedList
    OBVIOUS
  <1>4. /\ list \in Seq(Dbs) /\ Len(list) \in Nat /\ DOMAIN list = 1..Len(list)
        /\ \A i, j \in 1..Len(list) : list[i] = list[j] => i = j
    BY <1>2, <1>3, UsedListFacts
  <1>5. PICK front \in Seq(Dbs) : datablocks = front \o list
    BY <1>1, <1>3
  <1>6. PICK db, f : db = datablocks /\ f = dbid_h2d
    OBVIOUS
  <1>7. /\ Len(front) \in Nat /\ Len(db) = Len(front) + Len(list)
        /\ \A i \in 1..Len(front) + Len(list) :
              db[i] = IF i <= Len(front) THEN front[i] ELSE list[i - Len(front)]
    BY <1>4, <1>5, <1>6, ConcatProperties, LenProperties
  <1>8. PICK n \in Nat, l \in Nat : n = Len(front) /\ l = Len(list)
    BY <1>4, <1>7
  <1>9. \A j \in 1..l : n + j \in 1..n + l /\ db[n + j] = list[j] /\ f[list[j]] = j
    <2> TAKE j \in 1..l
    <2>1. n + j \in 1..n + l /\ ~(n + j <= n) /\ (n + j) - n = j
      OBVIOUS
    <2> QED BY <1>1, <1>3, <1>6, <1>7, <1>8, <2>1
  <1>10. ASSUME NEW k \in 1..l PROVE LastPlaceOf(db, f, k) = n + k
    <2>0. PICK m \in Nat : m = n + k
      OBVIOUS
    <2>1. m \in 1..Len(db) /\ f[db[m]] = k /\ Len(db) \in Nat
      BY <1>7, <1>8, <1>9, <2>0
    <2>2. \A i \in 1..Len(db) : i > m => f[db[i]] # k
      <3> SUFFICES ASSUME NEW i \in 1..Len(db), i > m PROVE f[db[i]] # k
        OBVIOUS
      <3>1. i - n \in 1..l /\ n + (i - n) = i /\ i - n # k
        BY <1>7, <1>8, <2>0
      <3> QED BY <1>9, <3>1
    <2>3. LastPlaceOf(db, f, k) = m
      <3>1. IsLast(db, f, k, m)
        BY <2>1, <2>2 DEF IsLast
      <3> QED BY <3>1, LastPlace
    <2> QED BY <2>0, <2>3
  <1>11. dbarray' = [k \in DOMAIN UsedList |-> LastPlaceOf(datablocks, dbid_h2d, k)]
    BY Zenon DEF Launch, LastPlaceOf
  <1>12. UsedList' = list
    BY <1>1, <1>3 DEF UsedList
  <1>13. ASSUME NEW k \in DOMAIN list PROVE datablocks'[dbarray'[k]] = list[k]
    <2>1. k \in 1..l
      BY <1>4, <1>8
    <2>2. dbarray'[k] = n + k
      BY <1>3, <1>6, <1>10, <1>11, <2>1
    <2> QED BY <1>1, <1>6, <1>9, <2>1, <2>2
  <1> QED BY <1>1, <1>12, <1>13 DEF OwnPlaces, ArgsOwn

LEMMA LaunchInv == ASSUME GroupKnown, IoInv, Launch PROVE IoInv'
  <1>1. /\ pc = "prepared" /\ used[el] # {} /\ Ready /\ el \in Group /\ CountsTyped /\ Fed
        /\ datablocks \in Seq(Dbs) /\ agree
        /\ pc' = "running" /\ el' = el /\ count' = count /\ datablocks' = datablocks
        /\ begin' = begin /\ agree' = agree /\ UNCHANGED vars
    BY DEF Launch, IoInv, Tasks, Fed
  <1>2. PICK t : Launches(t)
    BY LaunchGrows
  <1>3. used' = used
    BY <1>1 DEF vars
  <1>4. Fed'
    BY <1>1, <1>3 DEF Fed, Ready, Fits, Contiguous, Usable, UsedAt, vars
  <1>5. Tasks'
    BY <1>1, <1>3 DEF Tasks, CountsTyped, Begins
  <1>6. /\ Behind(pool, regs, t.pool, t.regs, ArgNames(el)) /\ Sound(t) /\ pool' = t.pool
        /\ t.begin.in = begin.in /\ Layout(t.pool, t.regs) /\ begin.in <= t.pool.in
    BY <1>2, NowParts DEF Launches, Grows, Sound
  <1>7. SameRegions(t.regs, regs')
    <2>1. RegsType(t.regs)
      BY <1>6 DEF Layout
    <2>2. CASE NoPackets
      BY <1>2, <2>1, <2>2, SameItself DEF Launches
    <2>3. CASE ~NoPackets
      BY <1>2, <2>1, <2>3, WriteSame DEF Launches
    <2> QED BY <2>2, <2>3
  <1>8. (Sound(Now(begin)))'
    <2>1. Layout(pool', regs')
      BY <1>6, <1>7, SameLayout
    <2>2. pool' \in PoolType /\ begin \in BeginType /\ agree \in BOOLEAN
      BY <2>1, BeginsHere, NowParts DEF Layout, Sound
    <2>3. Sound(Memory(pool', begin, regs', agree))
      BY <1>6, <2>1, <2>2, SoundMemory
    <2> QED BY <1>1, <2>3 DEF Now, Memory
  <1>9. /\ \A n \in DOMAIN regs : n \in DOMAIN t.regs /\ t.regs[n] = regs[n]
        /\ \A n \in DOMAIN t.regs : n \notin DOMAIN regs =>
             /\ n \in ArgNames(el) /\ t.regs[n].from >= pool[t.regs[n].buffer]
             /\ t.regs[n].buffer = IF OutName(n) THEN "out" ELSE "in"
             /\ t.regs[n].buffer = "in" => t.regs[n].host = 0 /\ t.regs[n].new = 0
    BY <1>6 DEF Behind
  <1>10. /\ DOMAIN regs' = DOMAIN t.regs
         /\ \A n \in DOMAIN t.regs : regs'[n].buffer = t.regs[n].buffer /\ regs'[n].from = t.regs[n].from
    BY <1>7 DEF SameRegions
  <1>11. Buffers'
    BY <1>9, <1>10 DEF Buffers, IoInv
  <1>12. \A n \in DOMAIN regs' : n \notin DOMAIN regs => n[1] # "data" /\ ~OutName(n)
    BY <1>9, <1>10, ArgNamesIn
  <1>13. DataOfRun'
    BY <1>1, <1>3, <1>12 DEF DataOfRun, FromRunUpTo, IoInv
  <1>14. ResultsKept'
    <2>1. \A n \in DOMAIN regs' : Produced(n) => n \in DOMAIN regs /\ regs'[n].from = regs[n].from
      BY <1>9, <1>10, <1>12 DEF Produced
    <2>2. \A n : Produced(n)' <=> Produced(n)
      BY <1>1, <1>3 DEF Produced
    <2> QED BY <1>1, <2>1, <2>2 DEF ResultsKept, IoInv
  <1>15. InputsKept'
    <2> SUFFICES ASSUME ~NoPackets, NEW n \in DOMAIN t.regs, t.regs[n].buffer = "in"
                 PROVE  Copied(regs'[n])
      BY <1>1, <1>10 DEF InputsKept, NoPackets, Copied
    <2>1. PICK r, e : r = t.regs[n] /\ e = t.pool.in
      OBVIOUS
    <2>2. /\ r \in RegionType /\ r.from \in Nat /\ r.length \in Nat \ {0} /\ r.buffer = "in"
          /\ r.from + r.length <= e /\ e \in Nat /\ begin.in \in Nat /\ pool.in \in Nat
          /\ begin.in <= pool.in
      <3>1. r \in RegionType /\ r.buffer = "in" /\ r.from + r.length <= t.pool[r.buffer]
        BY <1>6, <2>1 DEF Layout, RegsType
      <3>2. t.pool.in \in Nat /\ begin.in \in Nat /\ pool.in \in Nat /\ begin.in <= pool.in
        BY <1>6, BeginsHere, NowParts DEF Layout, Sound, PoolType, BeginType
      <3> QED BY <2>1, <3>1, <3>2 DEF RegionType
    <2>3. regs'[n] = IF Apart(r, "in", begin.in, e) THEN r
                     ELSE [r EXCEPT !.dev = IF Inside(r, "in", begin.in, e) THEN r.host ELSE -1]
      BY <1>2, <2>1 DEF Launches, MemWrite
    <2>4. CASE r.from >= begin.in /\ r.host = r.new
      <3>1. ~Apart(r, "in", begin.in, e) /\ Inside(r, "in", begin.in, e)
        BY <2>2, <2>4 DEF Apart, Inside
      <3>2. regs'[n] = [r EXCEPT !.dev = r.host]
        BY <2>3, <3>1
      <3> QED BY <2>2, <2>4, <3>2 DEF Copied, RegionType
    <2>5. CASE Copied(r) /\ r.from + r.length <= begin.in
      <3>1. Apart(r, "in", begin.in, e)
        BY <2>2, <2>5 DEF Apart
      <3> QED BY <2>3, <2>5, <3>1
    <2>6. CASE n \in DOMAIN regs
      <3>1. regs[n] = r
        BY <1>9, <2>1, <2>6
      <3>2. \/ Copied(r) /\ r.from + r.length <= begin.in
            \/ r.from >= begin.in /\ r.host = r.new
        BY <1>1, <2>1, <2>6, <3>1 DEF IoInv, InputsKept, ToBeCopied
      <3> QED BY <2>4, <2>5, <3>2
    <2>7. CASE n \notin DOMAIN regs
      <3>1. r.from >= pool[r.buffer] /\ r.host = 0 /\ r.new = 0
        BY <1>9, <2>1, <2>2, <2>7
      <3>2. r.from >= begin.in
        BY <2>2, <3>1
      <3> QED BY <2>4, <3>1, <3>2
    <2> QED BY <2>6, <2>7
  <1> QED BY <1>1, <1>4, <1>5, <1>8, <1>11, <1>13, <1>14, <1>15, LaunchPlaces DEF IoInv

-----------------------------------------------------------------------------
(* The kernel, the copy back, and what follows                             *)

LEMMA KernelInv == ASSUME GroupKnown, IoInv, Kernel PROVE IoInv'
  <1>1. /\ pc = "running" /\ used[el] # {} /\ Ready /\ el \in Group /\ CountsTyped /\ Fed
        /\ datablocks \in Seq(Dbs) /\ agree
        /\ pc' = "finished" /\ el' = el /\ count' = count /\ datablocks' = datablocks
        /\ pool' = pool /\ begin' = begin /\ agree' = agree
    BY DEF Kernel, IoInv, Tasks, Fed
  <1>2. UNCHANGED vars
    BY Zenon DEF Kernel
  <1>3. used' = used /\ el \in Int
    BY <1>1, <1>2 DEF vars, Group
  <1>4. Fed' /\ Tasks'
    BY <1>1, <1>2, <1>3 DEF Fed, Ready, Fits, Contiguous, Usable, UsedAt, vars, Tasks, CountsTyped, Begins
  <1>5. PICK written : written = {"data"} \X {d \in used[el] : Kind[d] \in WriteTypes} \X Batches
    OBVIOUS
  <1>6. regs' = [n \in DOMAIN regs |->
                   IF n \in written THEN [regs[n] EXCEPT !.dev = el, !.new = el] ELSE regs[n]]
    BY <1>5, Zenon DEF Kernel
  <1>7. Sound(Now(begin)) /\ Layout(pool, regs) /\ RegsType(regs)
    BY BeginsHere, NowParts DEF Sound, Layout
  <1>8. ASSUME NEW n \in DOMAIN regs
        PROVE  /\ regs'[n] \in RegionType /\ regs'[n].buffer = regs[n].buffer
               /\ regs'[n].from = regs[n].from /\ regs'[n].length = regs[n].length
               /\ n \in written \/ Copied(regs[n]) => Copied(regs'[n])
    <2>1. regs[n] \in RegionType
      BY <1>7 DEF RegsType
    <2> QED BY <1>3, <1>6, <2>1 DEF RegionType, Copied
  <1>9. DOMAIN regs' = DOMAIN regs /\ SameRegions(regs, regs')
    BY <1>6, <1>8 DEF SameRegions, RegsType
  <1>10. (Sound(Now(begin)))'
    <2>1. Layout(pool, regs')
      BY <1>7, <1>9, SameLayout
    <2>2. Sound(Memory(pool, begin, regs', agree))
      BY <1>7, <2>1, SoundMemory, NowParts DEF Sound, Layout
    <2> QED BY <1>1, <2>2 DEF Now, Memory
  <1>11. Buffers' /\ DataOfRun'
    BY <1>1, <1>3, <1>8, <1>9 DEF Buffers, DataOfRun, FromRunUpTo, IoInv
  <1>12. InputsKept'
    <2> SUFFICES ASSUME ~NoPackets, NEW n \in DOMAIN regs, regs[n].buffer = "in" PROVE Copied(regs'[n])
      BY <1>1, <1>8, <1>9 DEF InputsKept, NoPackets, Copied
    <2>1. Copied(regs[n])
      BY <1>1 DEF IoInv, InputsKept
    <2> QED BY <1>8, <2>1
  <1>13. ResultsKept'
    <2>1. ASSUME NEW n \in DOMAIN regs', Produced(n)' PROVE regs'[n].from >= begin'.out
      <3>1. n \in DOMAIN regs /\ Produced(n)
        BY <1>1, <1>3, <1>9, <2>1 DEF Produced
      <3> QED BY <1>1, <1>8, <3>1 DEF IoInv, ResultsKept
    <2>2. ASSUME NEW d \in used[el], NEW b \in Batches, Kind[d] = "result", <<"data", d, b>> \in DOMAIN regs'
          PROVE  Copied(regs'[<<"data", d, b>>])
      <3>1. <<"data", d, b>> \in written
        BY <1>5, <2>2 DEF WriteTypes
      <3>2. PICK n : n = <<"data", d, b>>
        OBVIOUS
      <3> QED BY <1>8, <1>9, <2>2, <3>1, <3>2
    <2> QED BY <1>1, <1>3, <2>1, <2>2 DEF ResultsKept, Copied
  <1>14. OwnPlaces'
    BY <1>1 DEF OwnPlaces, ArgsOwn
  <1> QED BY <1>1, <1>4, <1>10, <1>11, <1>12, <1>13, <1>14 DEF IoInv

LEMMA CopyInv == ASSUME GroupKnown, IoInv, CopyD2h PROVE IoInv'
  <1>1. /\ pc = "finished" /\ used[el] # {} /\ Ready /\ el \in Group /\ CountsTyped /\ Fed
        /\ datablocks \in Seq(Dbs) /\ agree
        /\ pc' = "copied" /\ el' = el /\ count' = count /\ datablocks' = datablocks
        /\ pool' = pool /\ begin' = begin /\ agree' = agree /\ UNCHANGED vars
    BY DEF CopyD2h, IoInv, Tasks, Fed
  <1>2. used' = used /\ postproc' = postproc
    BY <1>1 DEF vars
  <1>3. Fed' /\ Tasks'
    BY <1>1, <1>2 DEF Fed, Ready, Fits, Contiguous, Usable, UsedAt, vars, Tasks, CountsTyped, Begins
  <1>4. /\ Sound(Now(begin)) /\ Layout(pool, regs) /\ RegsType(regs) /\ pool \in PoolType
        /\ begin \in BeginType
    BY BeginsHere, NowParts DEF Sound, Layout
  <1>5. PICK from, to : from = pool.shifts + begin.inout /\ to = from + pool.inout
    OBVIOUS
  <1>6. PICK mid : mid = MemRead(regs, "in", from, to)
    OBVIOUS
  <1>7. regs' = IF HasOutput THEN MemRead(mid, "out", begin.out, pool.out) ELSE regs
    BY <1>5, <1>6, Zenon DEF CopyD2h
  <1>8. SameRegions(regs, mid) /\ \A n \in DOMAIN regs : mid[n].dev = regs[n].dev /\ mid[n].new = regs[n].new
    <2>1. SameRegions(regs, mid)
      BY <1>4, <1>6, ReadSame
    <2>2. ASSUME NEW n \in DOMAIN regs PROVE mid[n].dev = regs[n].dev /\ mid[n].new = regs[n].new
      <3>1. PICK e : e = IF Inside(regs[n], "in", from, to) THEN regs[n].dev ELSE -1
        OBVIOUS
      <3>2. mid[n] = IF Apart(regs[n], "in", from, to) THEN regs[n] ELSE [regs[n] EXCEPT !.host = e]
        BY <1>6, <3>1 DEF MemRead
      <3>3. regs[n] \in RegionType
        BY <1>4 DEF RegsType
      <3> QED BY <3>2, <3>3 DEF RegionType
    <2> QED BY <2>1, <2>2
  <1>9. ASSUME HasOutput
        PROVE  /\ SameRegions(regs, regs')
               /\ \A n \in DOMAIN regs :
                    /\ regs'[n].dev = regs[n].dev /\ regs'[n].new = regs[n].new
                    /\ Inside(regs[n], "out", begin.out, pool.out) /\ ~Apart(regs[n], "out", begin.out, pool.out)
                         => regs'[n].host = regs[n].dev
    <2>1. SameRegions(mid, regs')
      BY <1>7, <1>8, <1>9, ReadSame DEF SameRegions
    <2>2. SameRegions(regs, regs')
      BY <1>8, <2>1 DEF SameRegions
    <2>3. ASSUME NEW n \in DOMAIN regs
          PROVE  /\ regs'[n].dev = regs[n].dev /\ regs'[n].new = regs[n].new
                 /\ Inside(regs[n], "out", begin.out, pool.out) /\ ~Apart(regs[n], "out", begin.out, pool.out)
                         => regs'[n].host = regs[n].dev
      <3>1. PICK r : r = mid[n]
        OBVIOUS
      <3>2. PICK e : e = IF Inside(r, "out", begin.out, pool.out) THEN r.dev ELSE -1
        OBVIOUS
      <3>3. /\ r \in RegionType /\ r.dev = regs[n].dev /\ r.new = regs[n].new
            /\ r.buffer = regs[n].buffer /\ r.from = regs[n].from /\ r.length = regs[n].length
            /\ n \in DOMAIN mid
        BY <1>8, <3>1 DEF SameRegions, RegsType
      <3>4. regs'[n] = IF Apart(r, "out", begin.out, pool.out) THEN r ELSE [r EXCEPT !.host = e]
        BY <1>7, <1>9, <3>1, <3>2, <3>3 DEF MemRead
      <3>5. /\ Apart(r, "out", begin.out, pool.out) <=> Apart(regs[n], "out", begin.out, pool.out)
            /\ Inside(r, "out", begin.out, pool.out) <=> Inside(regs[n], "out", begin.out, pool.out)
        BY <3>3 DEF Apart, Inside
      <3> QED BY <3>2, <3>3, <3>4, <3>5 DEF RegionType
    <2> QED BY <2>2, <2>3
  <1>10. /\ SameRegions(regs, regs')
         /\ \A n \in DOMAIN regs : regs'[n].dev = regs[n].dev /\ regs'[n].new = regs[n].new
    BY <1>4, <1>7, <1>9, SameItself
  <1>11. /\ DOMAIN regs' = DOMAIN regs
         /\ \A n \in DOMAIN regs : /\ regs'[n].buffer = regs[n].buffer
                                   /\ Copied(regs[n]) => Copied(regs'[n])
    BY <1>10 DEF SameRegions, Copied
  <1>12. (Sound(Now(begin)))'
    <2>1. Layout(pool, regs')
      BY <1>4, <1>10, SameLayout
    <2>2. Sound(Memory(pool, begin, regs', agree))
      BY <1>4, <2>1, SoundMemory, NowParts DEF Sound
    <2> QED BY <1>1, <2>2 DEF Now, Memory
  <1>13. Buffers' /\ DataOfRun'
    BY <1>1, <1>2, <1>11 DEF Buffers, DataOfRun, FromRunUpTo, IoInv
  <1>14. InputsKept'
    <2> SUFFICES ASSUME ~NoPackets, NEW n \in DOMAIN regs, regs[n].buffer = "in" PROVE Copied(regs'[n])
      BY <1>1, <1>11 DEF InputsKept, NoPackets, Copied
    <2>1. Copied(regs[n])
      BY <1>1 DEF IoInv, InputsKept
    <2> QED BY <1>11, <2>1
  <1>15. ResultsKept'
    <2> SUFFICES ASSUME NEW d \in ToPostprocess, Kind[d] = "result", NEW b \in Batches,
                        <<"data", d, b>> \in DOMAIN regs
                 PROVE  regs'[<<"data", d, b>>].host = regs'[<<"data", d, b>>].new
      <3>1. ToPostprocess' = ToPostprocess
        BY <1>1, <1>2 DEF ToPostprocess
      <3> QED BY <1>1, <1>11, <3>1 DEF ResultsKept, Back
    <2>1. HasOutput
      BY DEF HasOutput, WriteTypes
    <2>2. PICK n : n = <<"data", d, b>> /\ OutName(n) /\ n[2] = d
      BY DEF OutName
    <2>3. d \in used[el]
      <3>1. d \in Dbs /\ <<el, d>> \in postproc
        BY <1>1, LenProperties, ElementOfSeq DEF ToPostprocess, ToSet
      <3> QED BY <1>1, <3>1, GroupDone
    <2>4. regs[n].from >= begin.out /\ Copied(regs[n])
      BY <1>1, <2>2, <2>3 DEF IoInv, ResultsKept, Produced
    <2>5. /\ regs[n].buffer = "out" /\ regs[n].from + regs[n].length <= pool.out
          /\ regs[n].from \in Nat /\ regs[n].length \in Nat \ {0}
          /\ begin.out \in Nat /\ pool.out \in Nat
      <3>1. regs[n].buffer = "out" /\ regs[n] \in RegionType
        BY <1>4, <2>2 DEF IoInv, Buffers, RegsType
      <3>2. regs[n].from + regs[n].length <= pool["out"]
        BY <1>4, <2>2, <3>1 DEF Layout
      <3> QED BY <1>4, <3>1, <3>2 DEF RegionType, PoolType, BeginType
    <2>6. Inside(regs[n], "out", begin.out, pool.out) /\ ~Apart(regs[n], "out", begin.out, pool.out)
      BY <2>4, <2>5 DEF Inside, Apart
    <2>7. regs'[n].host = regs[n].dev /\ regs'[n].new = regs[n].new
      BY <1>9, <2>1, <2>2, <2>6
    <2> QED BY <2>2, <2>4, <2>7 DEF Copied
  <1>16. OwnPlaces'
    BY <1>1 DEF OwnPlaces, ArgsOwn
  <1> QED BY <1>1, <1>3, <1>12, <1>13, <1>14, <1>15, <1>16 DEF IoInv

LEMMA CleanSoundNext == (Clean /\ agree => Sound(Now(begin)))'
  <1>1. Clean /\ agree => Sound(Now(begin))
    BY CleanSound
  <1> QED BY <1>1, PTL

LEMMA CompleteInv == ASSUME GroupKnown, IoInv, Complete PROVE IoInv'
  <1>1. /\ pc = "copied" /\ used[el] # {} /\ Ready /\ el \in Group /\ CountsTyped /\ Fed
        /\ datablocks \in Seq(Dbs) /\ agree
        /\ pc' = "arrived" /\ el' = el + 1 /\ count' = count /\ agree' = agree /\ UNCHANGED vars
        /\ IF el \in fin THEN pool' = Empty /\ regs' = <<>> ELSE UNCHANGED <<pool, regs>>
        /\ IF used[el + 1] # {} THEN UNCHANGED <<datablocks, begin>>
                                ELSE datablocks' = <<>> /\ begin' = NoBegin
    BY DEF Complete, IoInv, Tasks, Fed
  <1>2. used' = used
    BY <1>1 DEF vars
  <1>3. /\ el + 1 \in Group /\ el \in Nat /\ UsedAt(el) = used[el] /\ (el + 1) - 1 = el
        /\ el \in fin <=> used[el + 1] = {}
    BY <1>1, GroupDone DEF Group
  <1>4. Fed'
    BY <1>1, <1>2 DEF Fed, Ready, Fits, Contiguous, Usable, UsedAt, vars
  <1>5. ResultsKept' /\ OwnPlaces'
    BY <1>1 DEF ResultsKept, OwnPlaces, ArgsOwn
  <1>6. CASE used[el + 1] = {}
    <2>1. Clean'
      BY <1>1, <1>3, <1>6 DEF Clean
    <2>2. datablocks' \in Seq(Dbs)
      BY <1>1, <1>6
    <2>3. Tasks'
      BY <1>1, <1>2, <1>3, <2>1, <2>2 DEF Tasks, CountsTyped
    <2>4. (Sound(Now(begin)))'
      BY <1>1, <2>1, CleanSoundNext
    <2>5. DOMAIN regs' = {}
      BY <2>1 DEF Clean
    <2>6. Buffers' /\ DataOfRun' /\ InputsKept'
      BY <2>5 DEF Buffers, DataOfRun, FromRunUpTo, InputsKept
    <2> QED BY <1>1, <1>4, <1>5, <2>3, <2>4, <2>6 DEF IoInv
  <1>7. CASE used[el + 1] # {}
    <2>1. pool' = pool /\ regs' = regs /\ datablocks' = datablocks /\ begin' = begin
      BY <1>1, <1>3, <1>7
    <2>2. ~Begins'
      BY <1>1, <1>2, <1>3, <1>7 DEF Begins, UsedAt
    <2>3. Tasks'
      BY <1>1, <1>3, <2>1, <2>2 DEF Tasks, CountsTyped
    <2>4. (Sound(Now(begin)))' /\ Buffers'
      BY <1>1, <2>1 DEF IoInv, Now, Buffers
    <2>5. DataOfRun'
      BY <1>1, <1>2, <1>3, <2>1 DEF IoInv, DataOfRun, FromRunUpTo
    <2>6. InputsKept'
      BY <1>1, <2>1 DEF IoInv, InputsKept, NoPackets
    <2> QED BY <1>1, <1>4, <1>5, <2>3, <2>4, <2>5, <2>6 DEF IoInv
  <1> QED BY <1>6, <1>7

LEMMA IoStutterInv == ASSUME IoInv, UNCHANGED <<vars, ioVars>> PROVE IoInv'
  <1>1. /\ UNCHANGED vars /\ count' = count /\ pc' = pc /\ el' = el /\ datablocks' = datablocks
        /\ dbid_h2d' = dbid_h2d /\ pool' = pool /\ begin' = begin /\ regs' = regs
        /\ dbarray' = dbarray /\ agree' = agree /\ used' = used /\ postproc' = postproc
    BY DEF ioVars, vars
  <1>2. Fed' /\ Tasks'
    <2>1. Fed'
      BY <1>1 DEF IoInv, Fed, Ready, Fits, Contiguous, Usable, UsedAt, vars
    <2>2. Begins' = Begins /\ Clean' = Clean
      BY <1>1 DEF Begins, Clean, UsedAt
    <2>3. Tasks'
      BY <1>1, <2>2 DEF IoInv, Tasks, CountsTyped
    <2> QED BY <2>1, <2>3
  <1>3. (Sound(Now(begin)))' /\ agree' /\ Buffers'
    BY <1>1 DEF IoInv, Now, Buffers
  <1>4. DataOfRun' /\ InputsKept'
    BY <1>1 DEF IoInv, DataOfRun, FromRunUpTo, InputsKept, NoPackets, Copied, ToBeCopied
  <1>5. ToPostprocess' = ToPostprocess /\ UsedList' = UsedList
    BY <1>1 DEF ToPostprocess, UsedList
  <1>6. ResultsKept'
    BY <1>1, <1>5 DEF IoInv, ResultsKept, Produced, Copied, Back
  <1>7. OwnPlaces'
    BY <1>1, <1>5 DEF IoInv, OwnPlaces, ArgsOwn
  <1> QED BY <1>2, <1>3, <1>4, <1>6, <1>7 DEF IoInv

LEMMA IoInvHolds == IoSpec => [](GroupKnown /\ IoInv)
  <1>1. GroupKnown /\ IoInv /\ [IoNext]_<<vars, ioVars>> => IoInv'
    <2> SUFFICES ASSUME GroupKnown, IoInv, [IoNext]_<<vars, ioVars>> PROVE IoInv'
      OBVIOUS
    <2>1. Inv
      BY DEF GroupKnown
    <2> QED BY <2>1, DeriveInv, FeedInv, OnCPUInv, PrepareInv, LaunchInv, KernelInv, CopyInv,
               CompleteInv, IoStutterInv DEF IoNext
  <1> QED BY <1>1, IoInitInv, GroupHolds, PTL DEF IoSpec

\* Whatever the counts of packets, the alignment and the group: regions in
\* the buffers of a task never overlap, and the assertions of alloc_inout_buffer() hold.
THEOREM LayoutCorrect == IoSpec => []LayoutSound
  <1>1. IoInv => LayoutSound
    BY BeginsHere, NowParts DEF IoInv, Sound, Layout, LayoutSound
  <1> QED BY <1>1, IoInvHolds, PTL

\* A kernel always gets the datablocks of its own element.
THEOREM ArgsCorrect == IoSpec => []ArgsOwn
  <1>1. IoInv => ArgsOwn
    BY DEF IoInv, OwnPlaces
  <1> QED BY <1>1, IoInvHolds, PTL

\* Whatever a kernel reads is on the device in its newest version, however many
\* elements of its run came before it and whatever they copied and wrote.
THEOREM InputsCorrect == IoSpec => []KernelInputsReady
  <1>1. ASSUME IoInv PROVE KernelInputsReady
    <2> SUFFICES ASSUME pc = "running", ~NoPackets, NEW n \in DOMAIN regs,
                        ~(n[1] = "data" /\ Kind[n[2]] = "result")
                 PROVE  regs[n].dev = regs[n].new
      BY DEF KernelInputsReady
    <2>1. regs[n].buffer = "in"
      BY <1>1 DEF IoInv, Buffers, OutName
    <2> QED BY <1>1, <2>1 DEF IoInv, InputsKept, Copied
  <1> QED BY <1>1, IoInvHolds, PTL

\* The results of an element are back on the host when it is post-processed.
THEOREM ResultsCorrect == IoSpec => []ResultsBack
  <1>1. IoInv => ResultsBack
    BY DEF IoInv, ResultsKept, ResultsBack
  <1> QED BY <1>1, IoInvHolds, PTL

=============================================================================
