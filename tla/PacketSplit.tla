---------------------------- MODULE PacketSplit ----------------------------
(***************************************************************************)
(* Packets and packet batches in ElementGraph: process_batch() with one,   *)
(* several or no outputs, dropped packets, free_batch(), and the nested    *)
(* event loops in which a branch waits for its output batches.             *)
(*                                                                         *)
(* This is a build without branch prediction (code path 2) and with a      *)
(* batching scheme that marks excluded packets and never moves them        *)
(* (NBA_BATCHING_TRADITIONAL; BITVECTOR in its optimised build, where the  *)
(* mask of an empty batch is folded to 0).  Offloading is abstracted to    *)
(* batches that leave the graph and come back with results (the details    *)
(* are in OffloadPipeline).                                                *)
(***************************************************************************)
EXTENDS Integers, Sequences, FiniteSets, SequencesExt, Counting

CONSTANTS
    NPackets,      \* packets that arrive, numbered in their order of arrival
    Batches,       \* PacketBatch objects of batch_pool
    Elems,         \* elements of the graph, other than input and output
    Input,         \* the element that is connected to FromInput
    Next_elems,    \* Element::next_elems: the sequence of each element's outputs
    Offloadable,   \* elements whose batches may be processed by a device
    CombatchSize,  \* num_combatch_size: packets of a new batch
    BurstSize,     \* most packets that one iteration of io_loop receives
    MayTerminate,  \* whether SIGINT/SIGTERM may arrive
    Out,           \* an element of type ELEMTYPE_OUTPUT
    Drop,          \* PacketDisposition DROP
    NoBatch        \* a null PacketBatch pointer

Packets == 1..NPackets

ASSUME GraphAssumption ==
    /\ Input \in Elems /\ Out \notin Elems
    /\ Next_elems \in [Elems -> Seq(Elems \cup {Out})]
    /\ Offloadable \subseteq Elems
ASSUME SizeAssumption ==
    /\ NPackets \in Nat /\ IsFiniteSet(Batches) /\ NoBatch \notin Batches
    /\ CombatchSize \in Nat \ {0} /\ BurstSize \in Nat
    /\ MayTerminate \in BOOLEAN /\ Drop \notin Nat

VARIABLES
    rx,      \* packets that have not been received yet
    pkts,    \* pkts[] of io_loop: received packets without a batch
    pool,    \* batch_pool: the free batches
    batch,   \* the fields of each batch
    queue,   \* ElementGraph::queue
    kept,    \* batches that offload() took, still on a device
    done,    \* batches that came back, in finished_batches
    pc,      \* what the thread does
    frames,  \* the calls that wait in ev_run() for batches, innermost first
    brk,     \* libev's loop_done is EVBREAK_ALL
    broken,  \* io_thread_context::loop_broken
    dropQ,   \* drop_queue: packets to be freed
    freed,   \* packets given back to their pool
    sent,    \* packets given to the TX queue
    route    \* history: what the last element decided on each packet

packetVars == <<dropQ, freed, sent, route>>
vars == <<rx, pkts, pool, batch, queue, kept, done, pc, frames, brk, broken, packetVars>>

\* A place in slots has the packet (pkt), !excluded (ok), and its entry in results (to).
\* The fields of a pooled batch are dead.
FreshBatch == [slots |-> <<>>, elem |-> Input, has |-> FALSE]

Init ==
    /\ rx = [i \in Packets |-> i] /\ pkts = <<>>
    /\ pool = Batches /\ batch = [b \in Batches |-> FreshBatch]
    /\ queue = <<>> /\ kept = {} /\ done = <<>>
    /\ pc = "recv" /\ frames = <<>> /\ brk = FALSE /\ broken = FALSE
    /\ dropQ = {} /\ freed = {} /\ sent = {}
    /\ route = [p \in Packets |-> Input]

-----------------------------------------------------------------------------
(* Batches and their packets *)

Outputs(e) == 1..Len(Next_elems[e])
\* FOR_EACH_PACKET: the packets that are not excluded, in their order.
Valid(slots)   == ItemsAt(slots, {i \in DOMAIN slots : slots[i].ok})
Taking(slots, o) == ItemsAt(slots, {i \in DOMAIN slots : slots[i].ok /\ slots[i].to = o})
PacketsOf(slots) == {slots[i].pkt : i \in DOMAIN slots}

\* Element::_process_batch(): process() pushes each packet to an output or
\* kills it; a killed packet is marked as excluded and stays in its place.  A
\* batch that comes with results is not processed again.
Decisions(b) ==
    IF batch[b].has
      THEN {<<>>}
      ELSE [{i \in DOMAIN batch[b].slots : batch[b].slots[i].ok}
               -> Outputs(batch[b].elem) \cup {Drop}]
\* Faulty: kill() without EXCLUDE_PACKET_MARK_ONLY.
DecidedUnmarked(b, d) ==
    [i \in DOMAIN batch[b].slots |->
        IF i \in DOMAIN d THEN [batch[b].slots[i] EXCEPT !.to = d[i]]
                         ELSE batch[b].slots[i]]
Decided(b, d) ==
    [i \in DOMAIN batch[b].slots |->
        IF i \in DOMAIN d
          THEN [batch[b].slots[i] EXCEPT !.to = d[i], !.ok = (d[i] # Drop)]
          ELSE batch[b].slots[i]]
RouteAfter(b, d) ==
    [p \in Packets |->
        IF \E i \in DOMAIN d : batch[b].slots[i].pkt = p
          THEN LET i == CHOOSE i \in DOMAIN d : batch[b].slots[i].pkt = p
               IN  IF d[i] = Drop THEN Drop ELSE Next_elems[batch[b].elem][d[i]]
          ELSE route[p]]

\* What free_batch() does besides: the batch is in its pool again, and calls of
\* ev_run() return.
\* Faulty: KeepLoops, without ev_break().
KeepLoops  == brk' = brk
BreakLoops == brk' = TRUE

-----------------------------------------------------------------------------
(* io_loop and comp_process_batch()                                         *)

\* One iteration: receive a burst, and free what is in drop_queue.
Receive ==
    /\ pc = "recv" /\ ~broken
    /\ \E n \in 0..BurstSize :
         /\ n <= Len(rx)
         /\ pkts' = SubSeq(rx, 1, n)
         /\ rx' = SubSeq(rx, n + 1, Len(rx))
    /\ freed' = freed \cup dropQ /\ dropQ' = {}
    /\ pc' = "feed"
    /\ UNCHANGED <<pool, batch, queue, kept, done, frames, brk, broken,
                   sent, route>>

ChunkSize == IF Len(pkts) < CombatchSize THEN Len(pkts) ELSE CombatchSize
\* Faulty: RestOverlapping, one packet too early.
RestOverlapping == SubSeq(pkts, ChunkSize, Len(pkts))
RestOfBurst     == SubSeq(pkts, ChunkSize + 1, Len(pkts))

\* A new batch for the next num_combatch_size packets.  feed_input() enqueues it
\* with results at the input element, which passes it on unprocessed; that job is
\* left out.
FeedBatch ==
    /\ pc = "feed" /\ ~broken /\ pkts # <<>> /\ pool # {}
    /\ LET b     == CHOOSE c \in pool : TRUE
           slots == [i \in 1..ChunkSize |-> [pkt |-> pkts[i], ok |-> TRUE, to |-> 0]]
       IN  /\ pool' = pool \ {b}
           /\ batch' = [batch EXCEPT ![b] = [slots |-> slots, elem |-> Input, has |-> FALSE]]
           /\ queue' = Append(queue, b)
    /\ pkts' = RestOfBurst
    /\ UNCHANGED <<rx, kept, done, pc, frames, brk, broken, packetVars>>

\* The pool is empty: wait in ev_run().
AwaitBatch ==
    /\ pc = "feed" /\ ~broken /\ pkts # <<>> /\ pool = {}
    /\ frames' = <<[batch |-> NoBatch, need |-> 1]>> \o frames
    /\ brk' = FALSE /\ pc' = "round"
    /\ UNCHANGED <<rx, pkts, pool, batch, queue, kept, done, broken, packetVars>>

\* The loop is broken: the chunk is abandoned, with the batch the pool gave.
AbandonChunk ==
    /\ pc = "feed" /\ broken /\ pkts # <<>>
    /\ pool' = IF pool = {} THEN {} ELSE pool \ {CHOOSE c \in pool : TRUE}
    /\ pkts' = RestOfBurst
    /\ UNCHANGED <<rx, batch, queue, kept, done, pc, frames, brk, broken, packetVars>>

\* All packets have a batch: one round of ev_run(), or the end of io_loop.
RunLoop ==
    /\ pc = "feed" /\ pkts = <<>>
    /\ pc' = IF broken THEN "stopped" ELSE "round"
    /\ UNCHANGED <<rx, pkts, pool, batch, queue, kept, done, frames, brk, broken,
                   packetVars>>

StopLoop ==
    /\ pc = "recv" /\ broken
    /\ pc' = "stopped"
    /\ UNCHANGED <<rx, pkts, pool, batch, queue, kept, done, frames, brk, broken,
                   packetVars>>

-----------------------------------------------------------------------------
(* flush_tasks() and process_batch(): b is the batch of the next job and d   *)
(* what its element decides                                                  *)

Job(b, d) ==
    /\ pc = "flush" /\ ~broken /\ queue # <<>> /\ b = Head(queue)
    /\ d \in Decisions(b)
    /\ route' = RouteAfter(b, d)
NOutputs(b) == Len(Next_elems[batch[b].elem])
GoesOn(b) == Next_elems[batch[b].elem][1] # Out

\* offload() takes a batch the load balancer decided to offload.
Offload ==
    /\ pc = "flush" /\ ~broken /\ queue # <<>>
    /\ ~batch[Head(queue)].has /\ batch[Head(queue)].elem \in Offloadable
    /\ kept' = kept \cup {Head(queue)}
    /\ queue' = Tail(queue)
    /\ UNCHANGED <<rx, pkts, pool, batch, done, pc, frames, brk, broken, packetVars>>

\* No outputs: free_batch().  Every packet of the array goes to drop_queue, the
\* excluded ones too, the batch to its pool, and calls of ev_run() return.
DropBatch ==
    /\ \E b \in Batches : \E d \in Decisions(b) :
         /\ Job(b, d) /\ NOutputs(b) = 0
         /\ pool' = pool \cup {b} /\ BreakLoops
         /\ dropQ' = dropQ \cup PacketsOf(batch[b].slots)
         /\ batch' = [batch EXCEPT ![b] = FreshBatch]
    /\ queue' = Tail(queue)
    /\ UNCHANGED <<rx, pkts, kept, done, pc, frames, broken, freed, sent>>

\* One output: the same batch goes on ...
PassBatch ==
    /\ \E b \in Batches : \E d \in Decisions(b) :
         /\ Job(b, d) /\ NOutputs(b) = 1
         /\ GoesOn(b)
         /\ batch' = [batch EXCEPT ![b] =
                         [slots |-> Decided(b, d),
                          elem  |-> Next_elems[batch[b].elem][1],
                          has   |-> FALSE]]
         /\ queue' = Append(Tail(queue), b)
    /\ UNCHANGED <<rx, pkts, pool, kept, done, pc, frames, brk, broken,
                   dropQ, freed, sent>>

\* ... or is transmitted: io_tx_batch() and free_batch() without its packets.
TransmitBatch ==
    /\ \E b \in Batches : \E d \in Decisions(b) :
         /\ Job(b, d) /\ NOutputs(b) = 1
         /\ ~GoesOn(b)
         /\ sent' = sent \cup PacketsOf(Valid(Decided(b, d)))
         /\ pool' = pool \cup {b} /\ BreakLoops
         /\ batch' = [batch EXCEPT ![b] = FreshBatch]
    /\ queue' = Tail(queue)
    /\ UNCHANGED <<rx, pkts, kept, done, pc, frames, broken, dropQ, freed>>

\* Faulty: KeepParent, which does not free the batch that was split.
KeepParent(b, used)     == pool \ used
PoolAfterSplit(b, used) == (pool \ used) \cup {b}

\* Several outputs: the packets in slots of batch b, which has left the queue,
\* are added to new batches, one for each output.  Those without packets are
\* freed at once, those at an output element are transmitted and freed, and the
\* others are enqueued.  b is freed with its packets.
SplitInto(b, slots, rest) ==
    LET e     == batch[b].elem
        outs  == SubSeq(SetToSeq(pool), 1, Len(Next_elems[e]))
        jobs  == ItemsAt([o \in Outputs(e) |-> o],
                    {o \in Outputs(e) : Taking(slots, o) # <<>> /\ Next_elems[e][o] # Out})
        txs   == {o \in Outputs(e) : Next_elems[e][o] = Out}
    IN  /\ batch' = [c \in Batches |->
              IF \E o \in Range(jobs) : outs[o] = c
                THEN LET o == CHOOSE o \in Range(jobs) : outs[o] = c
                     IN  [slots |-> Taking(slots, o), elem |-> Next_elems[e][o], has |-> FALSE]
                ELSE IF c = b THEN FreshBatch ELSE batch[c]]
        /\ queue' = rest \o [j \in DOMAIN jobs |-> outs[jobs[j]]]
        /\ sent' = sent \cup UNION {PacketsOf(Taking(slots, o)) : o \in txs}
        /\ pool' = PoolAfterSplit(b, {outs[o] : o \in Range(jobs)})
        /\ dropQ' = dropQ \cup PacketsOf(slots)
        /\ BreakLoops

SplitBatch ==
    /\ \E b \in Batches : \E d \in Decisions(b) :
         /\ Job(b, d) /\ NOutputs(b) > 1 /\ Cardinality(pool) >= NOutputs(b)
         /\ SplitInto(b, Decided(b, d), Tail(queue))
    /\ UNCHANGED <<rx, pkts, kept, done, pc, frames, broken, freed>>

\* Too few free batches: wait for them in ev_run(), whose callbacks process the
\* rest of the queue, with the results of this batch at hand.
AwaitSplit ==
    /\ \E b \in Batches : \E d \in Decisions(b) :
         /\ Job(b, d) /\ NOutputs(b) > 1 /\ Cardinality(pool) < NOutputs(b)
         /\ batch' = [batch EXCEPT ![b].slots = Decided(b, d), ![b].has = TRUE]
         /\ frames' = <<[batch |-> b, need |-> NOutputs(b)]>> \o frames
    /\ queue' = Tail(queue)
    /\ brk' = FALSE /\ pc' = "round"
    /\ UNCHANGED <<rx, pkts, pool, kept, done, broken, dropQ, freed, sent>>

\* The queue is empty or the loop is broken; scan_offloadable_elements() then
\* takes every batch that came back.
FlushDone ==
    /\ pc = "flush" /\ (queue = <<>> \/ broken)
    /\ queue' = queue \o done /\ done' = <<>>
    /\ pc' = "roundEnd"
    /\ UNCHANGED <<rx, pkts, pool, batch, kept, frames, brk, broken, packetVars>>

-----------------------------------------------------------------------------
(* ev_run(): its rounds, and the calls that wait in it                       *)

\* The check watcher of a round: comp_prepare_cb().
RunCheck ==
    /\ pc = "round"
    /\ pc' = "flush"
    /\ UNCHANGED <<rx, pkts, pool, batch, queue, kept, done, frames, brk, broken,
                   packetVars>>

\* ev_run() returns to its caller, or waits for another round.
EndRound ==
    /\ pc = "roundEnd"
    /\ pc' = IF frames = <<>> THEN "recv" ELSE IF brk THEN "resume" ELSE "round"
    /\ UNCHANGED <<rx, pkts, pool, batch, queue, kept, done, frames, brk, broken,
                   packetVars>>

\* comp_process_batch() tries again.
ResumeFeed ==
    /\ pc = "resume" /\ Head(frames).batch = NoBatch
    /\ frames' = Tail(frames)
    /\ pc' = "feed"
    /\ UNCHANGED <<rx, pkts, pool, batch, queue, kept, done, brk, broken, packetVars>>

\* process_batch() tries again and gets its output batches.
ResumeSplit ==
    /\ pc = "resume" /\ Head(frames).batch # NoBatch
    /\ Cardinality(pool) >= Head(frames).need
    /\ SplitInto(Head(frames).batch, batch[Head(frames).batch].slots, queue)
    /\ frames' = Tail(frames)
    /\ pc' = "flush"
    /\ UNCHANGED <<rx, pkts, kept, done, broken, freed, route>>

\* There are too few still.
AwaitAgain ==
    /\ pc = "resume" /\ Head(frames).batch # NoBatch
    /\ Cardinality(pool) < Head(frames).need /\ ~broken
    /\ brk' = FALSE /\ pc' = "round"
    /\ UNCHANGED <<rx, pkts, pool, batch, queue, kept, done, frames, broken, packetVars>>

\* There are too few and the loop is broken: process_batch() goes on with an
\* array of batches that was not filled, and what happens then is undefined.
SplitUnfilled ==
    /\ pc = "resume" /\ Head(frames).batch # NoBatch
    /\ Cardinality(pool) < Head(frames).need /\ broken
    /\ pc' = "undefined"
    /\ UNCHANGED <<rx, pkts, pool, batch, queue, kept, done, frames, brk, broken,
                   packetVars>>

\* A device has processed a batch and postproc() has decided on its packets;
\* the completion callback leaves it in finished_batches.  Only FlushDone reads
\* it there, so it makes no difference when the thread runs the callback.
Complete ==
    /\ \E b \in kept : \E d \in Decisions(b) :
         /\ route' = RouteAfter(b, d)
         /\ batch' = [batch EXCEPT ![b].slots = Decided(b, d), ![b].has = TRUE]
         /\ kept' = kept \ {b}
         /\ done' = Append(done, b)
    /\ UNCHANGED <<rx, pkts, pool, queue, pc, frames, brk, broken, dropQ, freed,
                   sent>>

\* handle_signal() and io_terminate_cb(), before or after the check watcher.
Terminate ==
    /\ MayTerminate /\ ~broken /\ pc \in {"round", "roundEnd"}
    /\ broken' = TRUE /\ brk' = TRUE
    /\ UNCHANGED <<rx, pkts, pool, batch, queue, kept, done, pc, frames, packetVars>>

Stopped ==
    /\ pc \in {"stopped", "undefined"}
    /\ UNCHANGED vars

Thread ==
    \/ Receive \/ FeedBatch \/ AwaitBatch \/ AbandonChunk \/ RunLoop \/ StopLoop
    \/ Offload \/ DropBatch \/ PassBatch \/ TransmitBatch
    \/ SplitBatch \/ AwaitSplit \/ FlushDone
    \/ RunCheck \/ EndRound \/ ResumeFeed \/ ResumeSplit \/ AwaitAgain \/ SplitUnfilled

Next == Thread \/ Complete \/ Terminate \/ Stopped

\* The thread runs and devices finish.
Spec == Init /\ [][Next]_vars /\ WF_vars(Thread) /\ WF_vars(Complete)

-----------------------------------------------------------------------------
(* Properties *)

Live == Batches \ pool

\* A batch is in one place: free, a job, in a call that waits for output batches,
\* on a device or back from it.  No branch, nested to any depth, loses or reuses
\* a batch, as long as the loop is not broken.
BatchesConserved ==
    LET places(b) == (IF b \in pool THEN 1 ELSE 0) + (IF b \in kept THEN 1 ELSE 0)
                       + Count(queue, b) + Count(done, b)
                       + Count([i \in DOMAIN frames |-> frames[i].batch], b)
    IN  \A b \in Batches : places(b) <= 1 /\ (~broken => places(b) = 1)

Holds(b, p) == p \in PacketsOf(Valid(batch[b].slots))

\* A packet is forwarded once: it is valid in one batch, or was transmitted.
ForwardedOnce ==
    \A p \in Packets : \A b \in Live :
        Holds(b, p) => /\ p \notin sent
                       /\ \A c \in Live : Holds(c, p) => c = b
                       /\ Cardinality({i \in DOMAIN batch[b].slots :
                              batch[b].slots[i].ok /\ batch[b].slots[i].pkt = p}) = 1

\* A packet is where its last element sent it, also when the batch waited for
\* its output batches while others were processed: in a batch at that element,
\* or transmitted.  In particular no killed packet is transmitted.
WhereSent ==
    /\ \A b \in Live : \A i \in DOMAIN batch[b].slots :
          batch[b].slots[i].ok =>
             LET s == batch[b].slots[i]
             IN  IF batch[b].has
                   THEN s.to # Drop /\ route[s.pkt] = Next_elems[batch[b].elem][s.to]
                   ELSE route[s.pkt] = batch[b].elem
    /\ \A p \in sent : route[p] = Out

\* A call that waits is woken when the pool has what it needs.
WokenWhenFree ==
    pc \in {"roundEnd", "round"} /\ frames # <<>>
      /\ Cardinality(pool) >= Head(frames).need => brk

\* A packet whose memory is given back is not in use: a branch excludes every
\* packet from the parent batch, so that only the output batches own them.
OneOwner ==
    \A p \in dropQ \cup freed :
        p \notin sent /\ \A b \in Live : ~Holds(b, p)

\* Every batch returns to the pool, unless the program is terminated.
EveryBatchReturns == \A b \in Batches : b \notin pool ~> (b \in pool \/ broken)

=============================================================================
