------------------------------ MODULE IoBuffers ------------------------------
(***************************************************************************)
(* The I/O buffers of a task on its way through a linear group, under the  *)
(* actions that OffloadActions derives for the group: what is reserved in  *)
(* the buffers of an io_base, what is copied to the device and back, and   *)
(* what the kernels and the post-processing find there.                    *)
(*                                                                         *)
(* Offsets are those of the pools of the CUDA engine; a host and a device  *)
(* pool are always used together, so that one offset stands for both, and  *)
(* both input and inout pools lie in one memory.  A region carries the     *)
(* version of its data: 0 as the host wrote it, e as the kernel of element *)
(* e left it, -1 if there is none.  The pools are large enough.            *)
(***************************************************************************)
EXTENDS OffloadActions, SequencesExt, Counting

CONSTANTS
    Kind,        \* of a datablock: what is read and written of packets
    NBatches,    \* batches of the task
    Counts,      \* packets a batch may have
    Align        \* alignment of the pools

ASSUME BufferAssumption ==
    /\ Kind \in [Dbs -> {"whole", "partial", "user", "result"}]
    /\ NBatches \in Nat \ {0} /\ Counts \subseteq Nat /\ Align \in Nat \ {0}
    /\ IsFiniteSet(Dbs) /\ Length # 0

Batches == 1..NBatches

VARIABLES
    count,       \* packets of the batches
    pc, el,      \* where the task is, and its element
    datablocks,  \* of the task, in the order in which elements brought them
    dbid_h2d,    \* places of datablocks in the kernel's array
    pool,        \* ends of the pools, and the shift of the inout pool
    begin,       \* input_begin, inout_begin, output_begin of the task
    regs,        \* regions that are reserved
    dbarray,     \* the array of the datablocks for the kernel
    agree        \* have the assertions of alloc_inout_buffer() held?

ioVars == <<count, pc, el, datablocks, dbid_h2d, pool, begin, regs, dbarray, agree>>

Empty == [in |-> 0, inout |-> 0, out |-> 0, shifts |-> 0]
NoBegin == [in |-> 0, inout |-> 0, out |-> 0]

ReadTypes == {"whole", "partial", "user"}    \* read_roi other than READ_NONE
WriteTypes == {"whole", "result"}            \* write_roi other than WRITE_NONE

\* The groups of the program: they end with an element of the CPU, a kernel has
\* input, one datablock at most is read as a whole and comes with the first element
\* of a run, and results are of one element.
Usable(e) ==
    /\ used[e] # {} => \E d \in used[e] : Kind[d] \in ReadTypes
    /\ \A c, d \in used[e] : Kind[c] = "whole" /\ Kind[d] = "whole" => c = d
    /\ \A d \in used[e] :
         /\ Kind[d] = "whole" /\ UsedAt(e - 1) # {} => d \in UsedAt(e - 1)
         /\ Kind[d] = "result" => d \notin UsedAt(e - 1)

Fits == Contiguous /\ used[Length] = {} /\ \A e \in Group : Usable(e)

IoInit ==
    /\ Init
    /\ count = [b \in Batches |-> 0]
    /\ pc = "derive" /\ el = 1
    /\ datablocks = <<>> /\ dbid_h2d = [d \in Dbs |-> 0]
    /\ pool = Empty /\ begin = NoBegin
    /\ regs = <<>> /\ dbarray = <<>> /\ agree = TRUE

-----------------------------------------------------------------------------
(* Reservations                                                            *)

Ceil(n) == ((n + Align - 1) \div Align) * Align

\* Lengths in bytes, small and not all multiples of the alignment.
SizesLength(d) == IF Kind[d] = "whole" THEN 3 ELSE 1
DataLength(d, b) == count[b] * (IF Kind[d] = "whole" THEN 3 ELSE 1)

Reserve(into, name, length) == [into |-> into, name |-> name, length |-> length]
Shift == <<[into |-> "shift"]>>

\* One batch after the other; nothing is reserved for nothing.
ForBatches(into, kind, d, lengths) ==
    ItemsAt([b \in Batches |-> Reserve(into, <<kind, d, b>>, lengths[b])],
            {b \in Batches : lengths[b] > 0})

SizesOf(d) ==
    IF Kind[d] \in {"whole", "partial"}
      THEN ForBatches("in", "sizes", d, [b \in Batches |-> SizesLength(d)]) ELSE <<>>

DataOf(d) ==
    LET lengths == [b \in Batches |-> DataLength(d, b)]
    IN  CASE Kind[d] = "whole" -> Shift \o ForBatches("inout", "data", d, lengths)
          [] Kind[d] \in {"partial", "user"} -> ForBatches("in", "data", d, lengths)
          [] OTHER -> <<>>

ResultsOf(d) ==
    IF Kind[d] = "result"
      THEN ForBatches("out", "data", d, [b \in Batches |-> DataLength(d, b)]) ELSE <<>>

\* The three loops over the datablocks of a task.
Pass(pass, d) ==
    CASE pass = "sizes" -> SizesOf(d) [] pass = "data" -> DataOf(d) [] pass = "results" -> ResultsOf(d)

Region(buffer, from, r) ==
    [buffer |-> buffer, from |-> from, length |-> r.length,
     host |-> IF buffer = "out" THEN -1 ELSE 0, dev |-> -1,
     new |-> IF buffer = "out" THEN -1 ELSE 0]

With(rs, buffer, from, r) ==
    [n \in DOMAIN rs \cup {r.name} |-> IF n \in DOMAIN rs THEN rs[n] ELSE Region(buffer, from, r)]

\* Faulty: an inout buffer is not reserved in the input pool.
ReserveInoutOnly(s, r) ==
    CASE r.into = "shift" ->
           LET by == s.pool.in - s.begin.in
           IN [s EXCEPT !.pool.shifts = @ + by, !.begin.inout = by]
      [] r.into = "inout" ->
           [s EXCEPT !.pool.inout = Ceil(@ + r.length),
                     !.regs = With(@, "in", s.pool.in, r),
                     !.agree = @ /\ s.pool.in = s.pool.shifts + s.pool.inout]
      [] OTHER ->
           [s EXCEPT !.pool[r.into] = Ceil(@ + r.length),
                     !.regs = With(@, r.into, s.pool[r.into], r)]

\* The bump allocators, and shift_inout_base() by what the element has reserved.
DoReserve(s, r) ==
    CASE r.into = "shift" ->
           LET by == s.pool.in - s.begin.in
           IN [s EXCEPT !.pool.shifts = @ + by, !.begin.inout = by]
      [] r.into = "inout" ->
           [s EXCEPT !.pool.in = Ceil(@ + r.length), !.pool.inout = Ceil(@ + r.length),
                     !.regs = With(@, "in", s.pool.in, r),
                     !.agree = @ /\ s.pool.in = s.pool.shifts + s.pool.inout]
      [] OTHER ->
           [s EXCEPT !.pool[r.into] = Ceil(@ + r.length),
                     !.regs = With(@, r.into, s.pool[r.into], r)]

Now(at0) == [pool |-> pool, begin |-> at0, regs |-> regs, agree |-> agree]

\* One reservation after the other, and one datablock after the other.
Reserved(s, list) ==
    LET upTo[n \in 0..Len(list)] ==
            IF n = 0 THEN s ELSE DoReserve(upTo[n - 1], list[n])
    IN  upTo[Len(list)]

ReservedPass(s, pass, ds) ==
    LET upTo[n \in 0..Len(ds)] ==
            IF n = 0 THEN s ELSE Reserved(upTo[n - 1], Pass(pass, ds[n]))
    IN  upTo[Len(ds)]

\* Copies between the two memories: what is inside the copied range arrives.
Inside(r, buffer, from, to) ==
    r.buffer = buffer /\ from <= r.from /\ r.from + r.length <= to
Apart(r, buffer, from, to) ==
    r.buffer # buffer \/ r.from >= to \/ r.from + r.length <= from

MemWrite(rs, buffer, from, to) ==
    [n \in DOMAIN rs |->
        IF Apart(rs[n], buffer, from, to) THEN rs[n]
        ELSE [rs[n] EXCEPT !.dev = IF Inside(rs[n], buffer, from, to) THEN rs[n].host ELSE -1]]

MemRead(rs, buffer, from, to) ==
    [n \in DOMAIN rs |->
        IF Apart(rs[n], buffer, from, to) THEN rs[n]
        ELSE [rs[n] EXCEPT !.host = IF Inside(rs[n], buffer, from, to) THEN rs[n].dev ELSE -1]]

-----------------------------------------------------------------------------
(* The computation thread                                                  *)

Derive == pc = "derive" /\ Next /\ UNCHANGED ioVars

\* A task is made of batches that reach the group.
Feed ==
    /\ pc = "derive" /\ at = Length /\ deleted = {} /\ Fits
    /\ pc' = "arrived"
    /\ count' \in [Batches -> Counts]
    /\ UNCHANGED <<vars, el, datablocks, dbid_h2d, pool, begin, regs, dbarray, agree>>

OnCPU ==
    /\ pc = "arrived" /\ used[el] = {} /\ el < Length
    /\ el' = el + 1
    /\ UNCHANGED <<vars, count, pc, datablocks, dbid_h2d, pool, begin, regs, dbarray, agree>>

\* In some order, which is the element's own.
UsedList == SetToSeq(used[el])

\* Faulty: a datablock is not listed twice.
PushNew(list) == list \o SelectSeq(UsedList, LAMBDA d : d \notin ToSet(list))

\* The list of a reused task goes on with the datablocks of its next element.
Push(list) == list \o UsedList

\* Faulty: the task always begins at the start of the pools.
BeginAtZero == NoBegin

BeginHere == [in |-> pool.in, inout |-> begin.inout, out |-> pool.out]

Prepare ==
    /\ pc = "arrived" /\ used[el] # {}
    /\ pc' = "prepared"
    /\ datablocks' = Push(datablocks)
    /\ dbid_h2d' = [d \in Dbs |-> IF d \in used[el] THEN SelectInSeq(UsedList, LAMBDA c : c = d) ELSE dbid_h2d[d]]
    /\ LET new == ItemsAt(datablocks', {i \in DOMAIN datablocks' : <<el, datablocks'[i]>> \in preproc})
           sized == ReservedPass(Now(BeginHere), "sizes", new)
           s == ReservedPass(ReservedPass(sized, "data", new), "results", new)
       IN pool' = s.pool /\ begin' = s.begin /\ regs' = s.regs /\ agree' = s.agree
    /\ UNCHANGED <<vars, count, el, dbarray>>

-----------------------------------------------------------------------------
(* The coprocessor thread and the device                                   *)

NoPackets == \A b \in Batches : count[b] = 0

KernelArgs ==
    <<Reserve("in", <<"array", el>>, Len(datablocks))>>
      \o [i \in DOMAIN datablocks |-> Reserve("in", <<"arg", el, i>>, 1 + NBatches)]
ItemCounts == <<Reserve("in", <<"counts", el>>, NBatches)>>

\* Faulty: the size of the copy is taken before the item counts are reserved.
BeforeCounts(args, all) == args.pool.in

H2dEnd(args, all) == all.pool.in

\* Of the entries of the list that have the same place, the last one gets it.
\* Without packets the kernel is skipped.
Launch ==
    /\ pc = "prepared"
    /\ pc' = "running"
    /\ dbarray' = [k \in DOMAIN UsedList |->
                     SelectLastInSeq(datablocks, LAMBDA d : dbid_h2d[d] = k)]
    /\ LET args == Reserved(Now(begin), KernelArgs)
           all == Reserved(args, ItemCounts)
       IN IF NoPackets
            THEN pool' = args.pool /\ regs' = args.regs
            ELSE /\ pool' = all.pool
                 /\ regs' = MemWrite(all.regs, "in", begin.in, H2dEnd(args, all))
    /\ UNCHANGED <<vars, count, el, datablocks, dbid_h2d, begin, agree>>

\* The kernel writes what its element's datablocks hold of packets.
Kernel ==
    /\ pc = "running"
    /\ pc' = "finished"
    /\ LET written == {"data"} \X {d \in used[el] : Kind[d] \in WriteTypes} \X Batches
       IN regs' = [n \in DOMAIN regs |->
                     IF n \in written THEN [regs[n] EXCEPT !.dev = el, !.new = el] ELSE regs[n]]
    /\ UNCHANGED <<vars, count, el, datablocks, dbid_h2d, pool, begin, dbarray, agree>>

ToPostprocess == {d \in ToSet(datablocks) : <<el, d>> \in postproc}

\* Faulty: it is the datablock's input that decides.
HasInput == \E d \in ToPostprocess : Kind[d] \in ReadTypes

HasOutput == \E d \in ToPostprocess : Kind[d] \in WriteTypes

\* The inout pool's base is already shifted by what inout_begin counts.
CopyD2h ==
    /\ pc = "finished"
    /\ pc' = "copied"
    /\ LET from == pool.shifts + begin.inout
           inout == MemRead(regs, "in", from, from + pool.inout)
       IN regs' = IF HasOutput THEN MemRead(inout, "out", begin.out, pool.out) ELSE regs
    /\ UNCHANGED <<vars, count, el, datablocks, dbid_h2d, pool, begin, dbarray, agree>>

-----------------------------------------------------------------------------
(* The computation thread again: post-processing, and what follows         *)

\* The task goes on to the next element if that is offloadable, or ends here.
Complete ==
    /\ pc = "copied"
    /\ pc' = "arrived" /\ el' = el + 1
    /\ IF el \in fin THEN pool' = Empty /\ regs' = <<>> ELSE UNCHANGED <<pool, regs>>
    /\ IF used[el + 1] # {}
         THEN UNCHANGED <<datablocks, begin>>
         ELSE datablocks' = <<>> /\ begin' = NoBegin
    /\ dbarray' = <<>>
    /\ UNCHANGED <<vars, count, dbid_h2d, agree>>

IoNext ==
    Derive \/ Feed \/ OnCPU \/ Prepare \/ Launch \/ Kernel \/ CopyD2h \/ Complete

IoSpec == IoInit /\ [][IoNext]_<<vars, ioVars>>

-----------------------------------------------------------------------------

\* Regions of one buffer never overlap, and the input pool and the inout pool,
\* which share their memory, agree where the next region lies (the assertions
\* in alloc_inout_buffer()): the allocators and the shift are right together.
LayoutSound ==
    /\ agree
    /\ \A m, n \in DOMAIN regs :
         m # n => Apart(regs[m], regs[n].buffer, regs[n].from, regs[n].from + regs[n].length)

\* A kernel addresses its arguments by the place of a datablock in the list of its
\* own element.  In a reused task these places are shared with datablocks of
\* earlier elements, and the kernel still gets those of its own.
ArgsOwn ==
    pc = "running" => \A k \in DOMAIN UsedList : datablocks[dbarray[k]] = UsedList[k]

\* When a kernel runs, everything it reads is on the device, and in its newest
\* version: its arguments, and the data and sizes of its datablocks, be they
\* copied now or for an earlier element, or written by an earlier kernel.
KernelInputsReady ==
    pc = "running" /\ ~NoPackets =>
        \A n \in DOMAIN regs :
            \/ n[1] \in {"data", "sizes"} /\ (n[2] \notin used[el] \/ Kind[n[2]] = "result")
            \/ n[1] \in {"array", "arg", "counts"} /\ n[2] # el
            \/ regs[n].dev = regs[n].new

\* What is post-processed is back in the host's buffer, in its newest version: the
\* results of a kernel.  Fields that are only read have nothing to post-process, and
\* whole packets are the subject of PayloadsBack.
Back(d) == \A b \in Batches : LET n == <<"data", d, b>>
                              IN n \in DOMAIN regs => regs[n].host = regs[n].new
ResultsBack ==
    pc = "copied" => \A d \in ToPostprocess : Kind[d] = "result" => Back(d)

\* The comment on execute() "Execute the offload handler and copy back the output
\* data (device-to-host)", of packets that are read and written as a whole.
PayloadsBack ==
    pc = "copied" => \A d \in ToPostprocess : Kind[d] = "whole" => Back(d)

=============================================================================
