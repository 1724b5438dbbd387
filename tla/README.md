# A verification project for NBA

NBA is a packet processing framework.  Worker threads receive packets, run them
in batches through a graph of Click-like elements, and may hand the work of some
elements to a coprocessor (a GPU, a Xeon Phi).  This directory holds TLA+ models
of the parts of it that are hard to test, the TLC configurations that check them
on small instances, and proofs of the properties that matter most for every
size.  Paths below are relative to `src/`, the root of the repository.

## 1. Inventory

| Part | Code | State | Hard behaviour | In the models |
|---|---|---|---|---|
| I/O and computation loop | `src/lib/io.cc` | libev loop, `loop_broken`, receive chunks | `ev_run()` is called recursively, from the loop, from a chunk that waits for a batch, and from a task that waits for buffers | `OffloadPipeline` |
| Element graph and its job queue | `src/lib/elementgraph.cc` | `queue`, trackers in batches and tasks | jobs are pushed at both ends, retried, and processed by a callback inside nested loops | `OffloadPipeline`, queue: `FixedRing` |
| Offloadable elements | `src/lib/element.cc` | `tasks[]`, `finished_batches` | tasks are filled over time, and reused by the next element | `OffloadPipeline` |
| Coprocessor thread | `src/lib/coprocessor.cc`, `src/lib/offloadtask.cc` | input ring, `d2h_pending_queue`, `task_done_queue`, completion ring | self-feeding callbacks, wakeups between threads, termination with tasks on the device | `OffloadPipeline` |
| Compute context | `src/engines/cuda/computecontext.cc`, other engines | `io_base_ring`, memory pools | buffers are shared by all elements of a reused task | `OffloadPipeline` (buffers as tokens), `IoBuffers` (what is in them) |
| Build of the graph | `src/lib/computation.cc`, `src/lib/graphanalysis.cc` | linear groups, offload actions | sets kept along a loop decide where buffers are released | `LinearGroups`, `OffloadActions` |
| Containers | `include/nba/core/queue.hh` | indices and size | two redundant ways to tell empty from full | `FixedRing`, `Deque` |
| Packet batches | `include/nba/element/packetbatch.hh`, `src/lib/packetbatch.cc`, `elementgraph.cc` 381-629 | packets, results, exclusion marks | splits of a batch in nested loops, ownership of packets | `PacketSplit` |
| Datablocks and I/O buffers | `src/lib/datablock.cc`, `src/lib/offloadtask.cc`, `include/nba/core/mempool.hh` | sizes, offsets, bump allocators | two pools in one memory, copies of ranges, tasks that are reused | `IoBuffers` |
| Node statistics | `src/lib/io.cc` 318-408 | per-thread and per-node counters, master flag | a collector that counts reports | `NodeThreads` |
| Start-up and end | `src/main.cc`, `include/nba/core/threading.hh` | barriers, condition variables | lost signals, order of initialization, contexts that are freed | `NodeThreads`; what a signal does to the loops: `OffloadPipeline` |
| Load balancers | `elements/loadbalancers/` | thresholds, averages | adaptation | a free choice per batch |
| Knapp engine | `src/engines/knapp-mic/`, `src/engines/knapp/` | poll rings, work of the threads by slot, spinning barriers | lock-free hand-over between host, master and workers | `KnappDevice`, `SlotServer` |
| Route tables | `elements/ip/`, `elements/ipv6/` | two arrays with flagged entries; a hash table for each length | what is written decides how later routes are written; markers that a lookup of unfinished tables fills | `Ipv4Fib`, `Ipv6Routes` |
| Other elements | `elements/` | | functions on bytes | not modelled |
| Configuration, Click parser | `src/lib/config.cc`, a submodule | none after start-up | | not modelled: parsing and embedded Python |
| DPDK, libev | external, `3rdparty/libev` | | event order, nested loops | libev as far as it is used |

How they interact: the loop receives a chunk and feeds a batch to the job queue;
the check callback of the loop drains the queue; an offloadable element collects
batches into a task; the queue sends a full task through the input ring and an
async watcher to the coprocessor thread; that thread launches it, polls it, and
sends it back through the completion ring and another async watcher; the
completion callback hands the task to the next offloadable element or its batches
back to the queue.  What the device is, a CUDA stream or the cores of a Xeon Phi that
spin on a shared ring, is hidden behind the compute context.  Beside the data path
every I/O thread reports its counters to the first one of its NUMA node, and a signal
handler, which runs on top of one of them, ends them all.  `PROJECT.json` lists the hazards of all this at their lines.

What makes each part correct: a batch passes every element once and in order; no
batch, task or buffer is lost or owned twice; no wakeup is lost; buffers are
released exactly once, behind their last user; nested loops neither re-enter the
receive path nor hold what another one waits for; a broken loop unwinds; a kernel
finds everything it reads on the device and what it wrote comes back; every item of a
task is processed once; counters add up; threads start and end in order; groups are
paths without branches and joins; an address gets the next hop of its longest route,
whatever went wrong for other addresses when the table was built.

## 2. Modules

| Module | What it is |
|---|---|
| `ElementPath` | abstract: every batch gets the results of the elements 1, 2, .. and is freed after the last |
| `OffloadPipeline` | the two threads, the loop, the queue, the rings and the device |
| `MCOffloadPipeline` | its instances: two adjacent offloadable elements, symmetry of batches, tasks and buffers |
| `OffloadPipeline_proofs` | theorems about it: types, wakeups, tasks, I/O buffers; batches, their trackers, assertions, scans, the refinement of `ElementPath` |
| `PacketSplit`, `PacketSplit_proofs` | packets in batches: branches, drops, the receive path and nested waits for batches; its theorems |
| `MCPacketSplit` | its two graphs |
| `Deque` | abstract: a bounded double-ended queue |
| `FixedRing` | the circular array of `queue.hh` |
| `OffloadActions`, `OffloadActions_proofs` | the derivation of the offload actions, and its theorems |
| `IoBuffers`, `IoBuffers_proofs` | extends `OffloadActions`: a task that passes the group, its buffers and the copies; its theorems |
| `MCIoBuffers` | its instance: the kinds of the datablocks |
| `SlotServer` | abstract: a device that is given tasks by slot and completes the slots in turn |
| `KnappDevice`, `KnappDevice_proofs` | a virtual device of the Knapp engine, on both sides, and its theorems |
| `NodeThreads`, `NodeThreads_proofs` | the threads of a NUMA node: start-up, statistics, end, and its theorems |
| `Counting`, `Counting_proofs` | how often a value occurs in a sequence or a table of sequences, and items by their places; lemmas on them, on sums and on induction |
| `LinearGroups` | the search for linear groups, on any acyclic graph |
| `Ipv4Fib` | the two-level forwarding table of `IPlookup` |
| `Ipv6Routes` | the hash tables and markers of `LookupIP6Route` |
| `MCSequential` | instance of `FixedRing` and of these three, which run on one thread each |
| `Sequential_proofs` | theorems about these four |

Operators named in comments as *faulty* are not part of any specification.  Each is
what a plausible bug would make of the definition behind it; `PROJECT.json` pairs
them with the property that such a bug breaks.

### OffloadPipeline

One action is one atomic step of one thread: a callback, one iteration of the loop
in a callback, or the part of a function between two points where the other thread
can see a difference (a ring operation, an async send) or where `ev_run()` is
entered.  The correspondence of the variables:

* `pool`, `taskPool`, `ioFree`, `dbFree`: the mempools `batch_pool`, `task_pool`,
  `dbstate_pool` (a count, no smaller than the number of batches, as with the
  default sizes of 1024 and 512) and `io_base_ring`.
* `batch[b]`: `tracker.element`, `tracker.has_results`, whether the load balancer
  chose the device, whether `datablock_states` is set.  `task[t]`: `elem`,
  `batches`, `state`, `io_base`.  Packets, sizes and task ids are left out: in the
  CUDA engine a task id is always available.
* `queue`, `finished`, `acc`: `ElementGraph::queue`, `finished_batches`, `tasks[0]`.
* `stack`: one record for each active `ev_run()`, innermost first, with its caller
  and the task the caller holds; `pend`: the pending watchers of the loop;
  `loopDone`: `loop_done` of libev; `pc`, `cur`, `burst`: where the thread is.
* `async`, `coAsync`: watchers on which `ev_async_send()` was called and which the
  loop has not seen; sends coalesce as in libev.
* `inRing`, `d2hQ`, `doneQ`, `compRing`, `coPend`, `coPc`, `coBroken`: the
  coprocessor thread.  `dev[t]`: what the device does with a task.

The order of callbacks is libev's: within a priority the last event that was queued
runs first, asyncs are queued by the pipe watcher after the check event, so in the
I/O loop the completion callback runs before the termination callback and the check
callback last; the coprocessor's watchers have priorities.  A nested `ev_run()`
first invokes what is pending, then polls; `ev_break()` ends the innermost loop and
a new `ev_run()` clears it.  `Poll` wakes for an async or does not block at all
(the outermost loop runs with `EVRUN_NOWAIT`); `PollTimer` is the 1 s statistics
timer, which is the only other event of the loop.

`Init` takes the buffers in any order.  The load balancer's decision and the
arrival of packets are free choices.  A task whose batches have no item for the
device skips the kernel (`InputCb`, second disjunct).

Left out of this module: splits and drops (a chain has one output per element; see
`PacketSplit`),
other schedulable elements (`NothingLeftToScan` shows that their scan finds nothing
of what the module has), the statistics watcher, and the drop queue.

### PacketSplit

The other half of the element graph: what happens to the packets of a batch.  The
two modules abstract each other.  `OffloadPipeline` has batches without packets on a
chain, and the protocol of tasks; `PacketSplit` has packets and a graph, and a device
that takes a batch (`Offload`) and returns it with results (`Complete`).

* `rx`, `pkts`: packets on the wire and in `pkts[]` of `io_loop`; `pool`: `batch_pool`.
* `batch[b]`: for every place of the array the packet, whether it is still valid
  (`mask`, `excluded`), and its entry in `results`; `tracker.element` and
  `tracker.has_results`.
* `queue`, `kept`, `done`: the job queue, batches with a device, `finished_batches`.
* `frames`: the calls that wait in `ev_run()` for batches, innermost first:
  `comp_process_batch` (`NoBatch`) or a branch with its batch.  `brk` is `loop_done`.
* `dropQ`, `freed`, `sent`: where packets end.  `route` is a history variable.

`process()` may push each packet to any output or kill it.  A branch (`SplitInto`) is
one step, since it enters no loop once it has its output batches; the order in which
the pool hands them out is fixed, because their names do not matter.  `Terminate` may
come in any round.  A branch that finds the loop broken before it got its batches
uses an array it has not filled; the model stops there (`SplitUnfilled`).

This is code path 2 (`NBA_BRANCHPRED_SCHEME` 0, the default), for schemes that mark
excluded packets and do not move them (`NBA_BATCHING_SCHEME` 2, the default, and
traditional).  Left out: prediction, the other schemes, cloned and pending packets.

### FixedRing

`v`, `push_idx`, `pop_idx`, `count` are the fields, the actions the three
operations, `Contents` what iteration yields.  The assertion of the pushes is their
guard.  The job queue of `OffloadPipeline` is a sequence that is used through
exactly these operations; `RefinesDeque` is why that is sound.

### OffloadActions

The double loop of `build_element_graph()` over one linear group: `VisitElement` is
the body up to the loop over `deleted_dbids`, `DeleteDatablock` one iteration of
that.  The initial states are all groups, an element without datablocks being one
that is not offloadable (no offloadable element of the repository has none).
`FinEndsRun` is the assumption `ChainAssumption` that `OffloadPipeline` makes of
`Fin`.

### IoBuffers

When the derivation is done, a task of `NBatches` batches arrives at the group and
passes it, element by element (`pc`, `el`), with the actions that were derived.
`Prepare` is `send_offload_task_to_device()` up to the input ring with
`prepare_read_buffer()` and `prepare_write_buffer()`; `Launch` is `copy_h2d()` and
`execute()`; `Kernel` is external; `CopyD2h` is `copy_d2h()`; `Complete` is the
completion callback.

* `datablocks`, `dbid_h2d`, `begin`: fields of the task (`input_begin`,
  `inout_begin`, `output_begin`).  `pool`: `cur_pos` of the three bump allocators and
  `shifts` of the inout pool, which lies in the memory of the input pool.  The pools
  of the host and of the device are always moved together, so that one position
  stands for both.
* `regs`: every region that was reserved, where it lies, and which version of its data
  the host and the device have.  What of a datablock is read and written is its
  `Kind`: a field of packets (`READ_PARTIAL_PACKET`, IP lookup), whole packets in and
  out (IPsec), values an element computes (`READ_USER_PREPROC`), fixed results
  (`WRITE_FIXED_SEGMENTS`).  A copy moves what lies inside the copied range, and
  spoils what it cuts.
* `dbarray`: the first kernel argument; entries are indices of `datablocks`.

Lengths are a few bytes, so that some are multiples of the alignment and others are
not.  `Fits` takes the groups that the program has: the group ends with an element
of the CPU (an offloadable last element gets no post-processing at all, as a comment
in `computation.cc:256` says), a kernel has input, whole packets come with the first
element of a run (`alloc_inout_buffer()` asserts that the two pools agree, and does
so for nothing else), at most one datablock of an element is read as a whole (each
would shift the inout pool again by all that the element has reserved, and
`inout_begin` keeps only the last shift), and results belong to one element.

### KnappDevice

Three parties and two rings.  The host's part is what the pipeline does around the calls
of the compute context.  A task takes the next id, which is its slot, and then a buffer
(`Offload`); if there is none it waits for one with its id taken, in an `ev_run()` of its
own, and the innermost wait goes on first (`Wait`, `Resume`).  `Execute` stands for
`execute()` up to the kernel launch, with the taskitem that it writes.  `SignalMic` is
`copy_d2h()`; `TakeBack` and `Requeue` are the two branches of `coproc_task_done_cb`: a
task that is finished leaves the queue, one that is not goes behind the others.
`launched` is `d2h_pending_queue`, `doneQ` is `task_done_queue`, `ioRing` is
`io_base_ring`, `waiting` the ids of the tasks that wait.

`hring` and `mring` are the two copies of the poll ring; `toMic` and `toHost` are
`scif_fence_signal()`s that have not arrived, in order and each behind the data that
was written before.  `item` is `task_params`, on both sides: a write reaches the device
with the signal at the latest, and what the device reads earlier from a slot that gets
a second task is not claimed.  `mcur`, `mpc` is the master thread of the device; `pc`,
`slot` are its workers, `slot[w]` being the slot whose `work` the reference `w` of the code
was bound to.  `ready`, `done` are `c1` of the spinning barriers of each slot.
Each read and write of `next_task_id`, `cur_task_id`, `c1` and a ring entry by one
worker that another party could see differently is a step.

`alloc_task_id()` hands out ids whether or not their slot is free.  `Owed[s]` counts the
completions that a slot owes, over all the places where a task may be, and the history
variable `shared` has the slots that got a task while they owed another's completion:
tasks that share a slot overwrite each other.  `hits` is a history variable,
too.  A task keeps no buffer for a following element (each ends with FIN) and has at
least one item.  `MaxTasks`, the number of tasks that the host executes, is a bound.

`SlotServer` is what the host may expect: completions come in the order of the slots,
each for a slot that was given a task, and a task goes unanswered only when it
shares its slot with another one.  In the refinement, `ServerSpec`, a slot completes when
the signal arrives at the host (`Turn` is the slot that does so next).

### NodeThreads

`mpc` and `cpc` are `main()` and `coproc_loop()`; `current`, `asleep`, `woken` the four
`CountedBarrier`s with a count of one and their condition variables; `ipc` the I/O
threads, of which `Master` runs in the main thread (`CALL_MASTER`); `initDone` and the
threads `"asleep"` the flag and the condition variable of the node.  `watcher` says
whether `node_stat_watcher` is initialised, `async` whether it was sent; `flag` is
`node_master_flag`, a counter of `Wrap` values with any value before it is
initialised.  `portStats`, `nodeStats`, `lastTotal` are one counter of one port.
`hpc` is the signal handler, which runs on top of the master, so that the master makes no
step while it waits (`Runs`).  `packets`, `reports` are bounds, `unseen` counts the
reports since the last collection.

The report of a thread is three steps (add, increment the flag, send), the collector
two (compare, print).  A condition variable has no spurious wakeup; `wait()` does not
test its condition again, so that one would let a thread pass the barrier.  The
handler is one step up to the wait.

### LinearGroups

`GraphAnalyzer::analyze()`: `Root` is the loop over the roots, `Visit` one round of the
loop over the stack.  `outEdge` and the operator `inEdge` are the edges, the variables
`dfsStack`, `visited`, `linear_group`, `linear_group_set` have their names in the code.
Roots and children are sets of pointers there and are visited in any order here.  The
initial states are all graphs whose edges go up, that is all acyclic graphs.
`Below` and `OnlyFollows` belong to the properties.

### Ipv4Fib

`rib` is what `load_rib_from_file()` makes of its file: next hops by prefix, where a
prefix that comes again gets another next hop.  The three writes are the branches of
the loop body in `build_direct_fib()`: a route that fits `TBL24`, one that opens a chunk
of `TBLlong`, and one that finds a chunk; `Lookup` is `direct_lookup()`.  The routes of
one length are written in any order, as a hash table yields them.  The initial value 0
stands for no route.  Powers of two are a recursive function here and in `Ipv6Routes`,
since the prover knows no exponents.

Next hops are any 16 bits but 0, as `load_rib_from_file()` makes them up
(`elements/ip/ip_route_core.cc:50`), so that about half of them have the bit by which an
entry names a chunk.  A table with such next hops is no longest prefix match; the property
says how far the harm goes.  `Sound(ip)` is false for the addresses whose longest short
route has such a next hop, since they read the chunk it names, and for those whose
own chunk is named by the next hop of a short route with longer routes inside, since these
are written into that chunk.  Every other address gets the next hop of its longest
route (`Wrong` has none of them).  Neither conjunct can be left out.

### Ipv6Routes

`chain[t][b]` is a bucket of `m_Tables[t]`.  `add` is `RoutingTableV6::add()`; `Build`,
`Visit`, `Mark`, `GoShorter`, `Leave` are the loops of `build()`, with `start`, `end` and
`len_marker` of the code; `lookup`, `find`, `insert` are the functions of these names,
and the loop of `lookup` is `Search`, with one turn in `Searched`.
The hash function is the remainder, which is as good as any.

`insert()` resets the link of an item that is there already, and what was chained behind
it is found no more.  It stays in the array, so that `build()` still comes to it: `items`
are the items of the arrays, and a route that was cut off and is added again has two.
`lost` is a history variable: the tables and keys that were cut off.

The property says what the markers achieve, and not more, since the code does
less than a longest prefix match (below).  `Wrong` are the addresses that do not get the
destination of their longest route, and none of them is `Sound`:

* markers lead to the address's longest route (`Guided`): each
  marker of that route has a destination, which is that of a shorter route for which the
  same holds (`LedTo`); hence it is defined from short routes to long ones (`UpTo`).
  `Turns` are the lengths of the markers, as the search visits them (`Among`);
* nothing was cut off in the tables up to the length of that route, under the keys
  that a lookup of the address asks for (`IntactTo`);
* the markers on the address's way, from that length on, were made for an address (their
  own, with zeros behind) that no route covers which is longer than the marker
  (`Clear`).

None of this asks anything of the rest of the table, where chains may be cut and
markers overwritten; and none of the three can be left out.  The table that the program
builds (`elements/ipv6/LookupIP6Route.cc:81`: 200000 random routes, a fixed seed) has
both: computed outside of this project, 655 of its items are cut off.  Of 200000 random
addresses, drawn as the routes are, 75 % are sound, and 83 % get their longest route; of
200000 addresses that are those of its routes, 96 % are sound, and 99.6 % get their
longest route.  So the property speaks of most addresses of that table, and the
others are really at risk.

### MCSequential

Variables of parts that a behaviour is not about stay empty.  The modules above state
their assumptions as definitions, which the instance collects in `PartsAssumption`.

## 3. Runs

| Run | Bounds | What it shows |
|---|---|---|
| `offload_safety` | 4 batches, 3 tasks, 1 io_base, 1 batch per task | all safety properties and the refinement of `ElementPath`, with nested waits two deep, reuse and termination |
| `offload_batching` | 4 batches, 3 tasks, 2 io_bases, 2 batches per task, input ring of 1 | no task is lost or doubled with partly filled tasks and a full input ring |
| `offload_live` | 2 batches, 2 tasks, 1 io_base | batches return, loops unwind |
| `split_safety` | 5 packets, 3 batches of at most 2, bursts of 3, a branch in front of two offloadable elements | conservation of batches, one place for every packet, results that survive a nested wait, no wait that is missed |
| `split_owner`, `split_stall` | an offloadable element in front of two branches; 3 and 4 packets, 4 batches | disagreements of comments and code, below |
| `io_buffers` | 5 elements, 3 datablocks (a field, whole packets, results), 2 batches of 0 or 2 packets | every group: where its actions are; regions do not overlap, kernels find what they read, results come back |
| `io_copyback` | 3 elements | a bug, below |
| `knapp_device` | 2 slots, 4 tasks, 3 workers, 1 or 4 items | every item is processed once, workers stay at one task, slots complete in order, and they do complete; with tasks that are polled in any order, taken back too early and given slots in use |
| `knapp_poll` | 2 slots, 3 tasks, 2 workers | a bug, below |
| `node_threads` | 3 I/O threads, 1 packet, 5 reports, a flag of 4 values | order of start-up and end, counters add up, no last report is missed, the program starts and ends |
| `sequential_parts` | ring of 4 slots, 2 values; IPv4: addresses of 2 + 2 bits, 3 routes; IPv6: addresses of 4 bits, 2 buckets, 3 calls that add a route to none or to the two of length 1; graphs of 5 elements | the ring is a bounded deque; lookups find the longest route, unless what went wrong in the table lies on their own way; groups are the longest paths, an element is in one twice only behind a shortcut |

Why the bounds are enough: with one io_base and three tasks one task runs and two
wait in nested loops, so the inner one is resumed while the outer one is not; with
four batches a batch can wait in the queue and another in the receive path.  Two
offloadable elements are the least for reuse.  More of either repeats these
situations.  In
`split_safety` three batches are what one branch needs; with five packets both output
batches may be with the device while two more arrive, so that a branch and the
receive path wait at the same time and the innermost wait is tried more than once.
In `io_buffers` five elements hold two runs with an element of
the CPU between them, or a run of four, so that buffers are kept, added to, released
and used again; batches with and without packets meet.  In `knapp_device` one item
leaves workers without a share and four items leave a remainder; two slots make the
workers come back to a barrier that others have just left; with four tasks each slot is
used again, also while its first task is with the device, and two tasks wait for
buffers at a time.  In `node_threads` three
threads make the last report, the comparison and an early second report overlap, five
reports reach the wrap of the flag.  In `sequential_parts` four slots wrap in both
directions; three routes give a chunk on top of a short route with a longer one in it, or
two chunks next to each other, so that the entry too many falls into the neighbour, or a
short route whose next hop names the chunk of another one; two
buckets let keys collide, and three calls add a key behind another one, then the first
again, so that the second is cut off; routes on top of those of length 1 have markers
with destinations; five elements make a diamond with a tail, and the
shortcut.
`CHECK_DEADLOCK FALSE` is used where the system may stop: after
termination, and when a task leaves its group.

Fairness (`FairSpec`): each thread keeps running, since it is never blocked but in
`poll`; the timer of a blocked loop fires; the device finishes what it was given.
In `PacketSplit`
the thread runs and the device returns its batches.  In `KnappDevice` the threads spin
and are never blocked, the coprocessor thread keeps polling, and signals arrive;
`SlotReturns` is about behaviours in which no slot is ever shared, since after that the
master may wait for ever for a slot that nobody fills.  In `NodeThreads` the threads run, and a
loop gets to each of its watchers.  Nothing is assumed of packets,
signals, or the balancer.

Disagreements of code and comments that the runs show (`PROJECT.json`, findings):

* a branch frees the packets that it has just handed to its output batches
  (`split_owner`): `free_batch()` frees every packet of the array by default, and an
  exclusion mark neither removes a packet from it nor shortens it;
* branches that wait for output batches can hold, all together, the batches they wait
  for (`split_stall`), so the thread polls for ever;
* the copy of whole packets from the device begins at twice the shift of the inout
  pool (`io_copyback`), so the first bytes that IPsec elements have written, about
  36 KB of item sizes per batch, do not come back;
* `poll_d2h_copy_finished()` asks for the slot of the buffer instead of the task
  (`knapp_poll`).  As soon as two tasks are in flight, one is put behind the other, and
  from then on the numbers of buffers and slots differ: a task is taken back because
  another one was finished.  `knapp_device` shows what holds all the same.

Others that were met on the way and that no run checks:

* `comp_prepare_cb` says that it runs when `ev_run()` is about to block
  (`src/lib/io.cc:100`), but is a check watcher, which runs behind the poll: a nested
  loop sleeps with jobs in its queue until the next wakeup or the timer;
* a task that is not full is never started: of the three conditions in the comment at
  `src/lib/element.cc:231` one is implemented;
* an empty task pool makes `flush_tasks()` spin for ever, with a task pool as large as
  the input ring, which the comment at `src/lib/element.cc:192` takes for enough;
* with an input ring that stays full, the same loop retries a task for ever
  (`src/lib/elementgraph.cc:131`) if the coprocessor was terminated meanwhile;
* a run of elements that returns to a datablock that an element in between did not use
  gets its FIN action too early (`FinEndsRun` has the condition `Contiguous`);
* the flag of the statistics counts reports and not threads, and is compared for
  equality: a thread that reports twice stands for another one, and a report between
  the last one and the comparison stops the statistics until the flag has wrapped;
* the byte counters of a node (`num_recv_bytes`, `num_sent_bytes`) are not initialised
  where the others are (`src/main.cc:808`);
* on a second node the first I/O thread is one of those that the handler waits for, and
  frees its context while others may report to it; and the handler reads the context
  of a thread that it has just told to terminate (`src/main.cc:976`);
* a signal during start-up finds loops that do not exist (`src/main.cc:484`), and the
  coprocessor thread is not joined: `main()` may return while it runs;
* a task of Knapp without items skips its kernel and announces its slot all the same;
  task ids are taken before the wait for a buffer, and are not checked to be free, so that
  two tasks may share a slot (`shared`);
* datablocks that a reused task shares with its former element are in its list twice,
  and are post-processed twice; `dbid_h2d` makes that harmless for kernels (`ArgsOwn`);
* a packet that is killed on a path without branches is freed nowhere;
* the search for linear groups puts an element that was pushed twice into its group
  twice (`src/lib/graphanalysis.cc:58`), where groups are to be disjoint linear paths;
  an offloadable element that is the last of its group gets no post-processing
  (`src/lib/computation.cc:256`);
* next hops of IPv4 routes are random numbers up to 65532 (`elements/ip/ip_route_core.cc:50`),
  but those from `0x8000` are read as numbers of chunks (lines 81, 113), so that
  direct lookup is no longest prefix match for the tables the program loads, and may find 0
  where there is a route, which the tests of the lookup take for a failure
  (`tests/test_ipv4route.cc`, `EXPECT_NE(0, cpu_results[0])`);
* an address without a route looks up 0, but the elements drop the packet only for
  `0xffff` (`elements/ip/IPlookup.cc:132`, `elements/ipv6/LookupIP6Route.cc:136`), which
  for IPv6 is a destination that a route may have;
* `LookupIP6Route::process()` looks up an array that nothing was copied to
  (`elements/ipv6/LookupIP6Route.cc:124`);
* inserting a key that is there cuts off what is chained behind it
  (`elements/ipv6/util_hash_table.cc:63`);
* the destination of a marker comes from a lookup that may find a longer route, even the
  one that the marker is made for, and overwrites that of a shorter route with the same
  key (`elements/ipv6/util_routing_v6.cc:64`); and a marker with destination 0 counts as
  not found, so a long route is not found unless, for each of its markers, a shorter
  route that is found itself covers it (`Guided`).

And two of order: the watchers of the coprocessor have the reverse of the
priorities in the comment at `src/lib/coprocessor.cc:57` (`offload_safety` and
`offload_live` show that neither safety nor progress suffers), and the queue of jobs
is breadth-first where the comment at `src/lib/elementgraph.cc:617` says depth-first.

## 4. Proofs

All are checked by TLAPS, for every value of the constants under the assumptions
of the modules: `PoolAssumption` and `ChainAssumption` (`OffloadPipeline`),
`GraphAssumption` and `SizeAssumption` (`PacketSplit`), `RingAssumption`,
`GroupAssumption`, `BufferAssumption` (`IoBuffers`: a finite number of datablocks,
since a kernel's arguments are a list of them, and a group that is not empty),
`DeviceAssumption`, `NodeAssumption`, `PartsAssumption` (`MCSequential`).  Every invariant is proved in
the same way: a stronger one that is inductive, with one step per action.

### OffloadPipeline

`TypeInv` adds to the types that a task in a ring, queue or frame is a task (`NoTask`
is not), and where the program counter says that there is a current task or frame.
On it rest, in this order:

* `WakeupsCorrect`, `DrainCorrect`: `WakeInv` is `NoLostWakeup`, plus that the I/O
  loop polls only with nothing pending, and that a coprocessor whose loop is broken has
  neither pending events nor tasks in its queues; it is needed because the terminate
  callback breaks the loop only when no later stage is pending, which the priorities give.
* `TasksConserved`: the sum of a task's occurrences in pool, element, queue, frames,
  hand, rings and burst is one.  A step moves a task from one term to another, by the
  lemmas on counts; that it takes a task from where it is one needs the frames of
  loops without a task to hold none (`WaitFrames`), and the burst to be empty outside
  of the completion callback (`BurstInv`).
* `IoBasesOwned`: a task that is with the device, on its way there or back has a
  buffer, one that was filled anew has none or that of its last element, and the
  elements of tasks in use are offloadable (`HasIo`).  This is where `ChainAssumption`,
  hence the derivation of FIN actions, is used.
* `DeviceDataStable` (an action property): a task on the device is nowhere else, so
  that no step of the computation thread has it in hand.
* `BatchesConserved`: the same sum for batches; the batches of a task move with it.
* `TrackersAccounted`: the batches of a task have trackers all or none, all while it
  is in use, none while it is filled (`TrackersOf`), and the entries that are taken
  are counted (`TrackerInv`).  `start` and `release` in the code look at the first batch
  or at the element only, which is right because of this.
* `NoAbort`: the completion ring has room, since whatever is in it or on its way has a
  buffer of its own, and there are no more buffers than places (`RoomForCompletion`);
  `dbstate_pool` has an entry since no batch has two.
* `ScanComplete`: whoever fills a finished list does so in a round whose check watcher
  is still to come (`ScanInv`).
* `PathsFollowed`: the refinement of `ElementPath`.  The stage of a batch is read off
  the place where it is, and a step changes the stage of the batches that it moves to a
  place further down the chain, each by one (`PathInv`: free batches are fresh,
  free tasks empty, a task is filled at its own element).

### PacketSplit

`OneCopy` is the sum of a batch's places; a branch takes as many batches as it has
outputs, which is induction over its outputs (`SplitStep`).  `FrameInv` says that only
the outermost call waits for an input batch, and that the others have a batch with
results and wait for one batch per output; `WakeInv` that a call whose batches are free
finds the loop broken at the end of the round.  They give `BatchesSafe` and `CallsWoken`.
For packets, `Placed` says that a packet is valid in one place of one batch at most, in
none once it was transmitted, and that its history fits the place.  That a branch
keeps this, although it copies packets into several batches, follows from what
`ItemsAt` selects: a place belongs to one output.  `ArriveInv` and `HeldInv` say that
packets that have no batch yet are in order and wait only where a call waits for them.
They give `PacketsForwardedOnce` and `PacketsWhereSent`.

### KnappDevice

None of the theorems has a hypothesis: they hold for whatever the host polls, takes back
and gives to slots in use.  `DeviceInv` is the conjunction of these:

* `BarrierInv` has two phases.  Either the leader gathers, and every follower is behind
  the last barrier or at the next one, whose counter is the number of those at it
  (`GatherInv`); or they work at the slot in `cur_task_id` (`WorkInv`).  It gives
  `ReleasedTogether` and, with `AloneInv`, `OneTaskOnly`.
* `OrderInv` ties the two ends of the device together: the signals on their way to the host
  are for one slot after the other, and the slot that the leader of the workers is at, or
  comes to, is the one behind them.
* `AloneInv`: a slot that is not shared owes at most one completion.  `OwedParts` takes
  the sum apart, and each step moves one from a term to the next (`PartsExecute` and
  others); where a slot has two, a signal or a status may be written over another one and
  one is lost (`Merged`), which is the only way.
* `NotifyInv`: the master does not split into a slot that it has handed over.
* `HitsInv` is about slots that are not shared: the shares of a task that was split are
  those of its number of items, and exactly the shares of workers that have run were
  processed.  That shares are disjoint and cover all items is arithmetic of `Remaining`.
  It needs `AloneInv` to know that the task whose completion arrives is the one in the slot.

`AllResults` follows from `HitsInv`, `ServerRefined` from `OrderInv` and the steps of
the sum: each step gives a slot a task, completes the slot whose turn it is, loses one that
shares its slot, or is a stutter.

### IoBuffers

Every step of `IoBuffers` is one of `OffloadActions` or leaves its variables alone
(`IoRefines`), so that `FinEndsRun`, `SavedOnce` and the meaning of PREPROC
(`PreprocIs`) are known of whatever group the task passes (`GroupKnown`).

*Reservations.*  `Sound` says of the pools and regions together what the proofs of all
four theorems need: the ends of the pools are aligned, every region lies before the end
of its pool and apart from every other, and the pools agree.  One reservation keeps it
(`ReserveSound`) since rounding a sum up from an aligned position is adding the
rounded length (`CeilShifted`), which is why the input and the inout pool, moved
separately, stay together (`ReserveMatched`, `ShiftMatched`).  Lists of reservations and
the three loops over datablocks are recursive functions; `ReservedFacts` and
`PassesFacts` take `Sound` through them by induction, and say in addition that
what is reserved for an element lies behind all that was there (`Grows`), and which
regions can be new.  That the shift comes before any inout region and at the base of a
run is where the conditions of `Usable` on whole packets are used.

*The invariant* `IoInv` relates regions to the group: what lies in the buffers belongs to
elements of the present run (`DataOfRun`, by `FinEndsRun`: at its end all is released); a
region of the input buffer is either on the device in its newest version or lies behind
`input_begin` and is about to be copied, and when the kernel runs only the former is
left (`InputsKept`); the results of the present element lie behind `output_begin`, are
written when the kernel is done, and are back after the copy, which is made whenever one
of them is post-processed (`ResultsKept`; `SavedOnce` says at which element that is);
and the list of a prepared task ends with that of its element, whose places `dbid_h2d`
has (`OwnPlaces`).  `KernelInputsReady` is not
inductive without the case of what is behind `input_begin`, nor `ResultsBack` without
what is known of results between a kernel and the copy.

### NodeThreads

For any number of threads and any width of the flag.  `OrderCorrect`: `Ordered` speaks of
the present, and each step of the start-up relies on what was passed before: `BarrierInv`
says that a barrier that can be passed was passed on by a thread that is behind the step
which the barrier waits for; `StartInv` relates the places of the two threads that
follow; `RunInv` says that no I/O thread exists before `main()` launches them, that nobody
runs before the watcher is there, and that the master's context is freed last.
`ReportsCorrect`: `CountInv` adds that nothing was reported before the watcher; the rest
is arithmetic of a counter that wraps (`OneMore`).  `PacketsCorrect`: received packets are
the sum over the threads plus what was collected; the sum is the recursive one of the
community modules, about which induction gives what a change of one thread does.

### OffloadActions

`FinCorrect`: in a run, `all_new_dbids` covers what is used or still to be deleted, and
`all_deleted_dbids` is the rest of it (`Sets`); every id in the former was used in
this run (`FromRun`; with `Contiguous` it cannot come back once deleted), and both are
empty behind a run (`Cleared`).  `SavedCorrect` and `LoadedCorrect` are about relations
over all elements visited so far: `SavedSoFar` and `LoadedSoFar` say them of each prefix
of the group, with the sets in the place of what is still to come.

### FixedRing

`TypeCorrect`, `IndicesCorrect` and `RefinesDeque`, from the invariant
`push_idx = (pop_idx + count) % max_size`.  It makes every position a case distinction
without remainder (`Offset`), items have distinct slots (`PosInjective`), and moving the
first index moves every position by one (`PosMoves`), from which each operation maps to
the one of `Deque`.

### Ipv4Fib

`FibCorrect`, for addresses of any width.  In `FibInv` the lookup is right for the routes
written so far at every moment.  Each write changes what exactly the addresses that
the route covers look up (`Overrides`), which is the longest match after it because
routes are written from short to long (`FibOrdered`, `LongestOverridden`).  That a write
goes nowhere else needs two facts about chunks (`FibChunks`): those in use are the first
ones of `TBLlong`, so that the entry too many which a new chunk writes falls into one that
nobody has, and each belongs to one entry of `TBL24`.  There is room for a chunk because a
route opens one at most.  A next hop that reads as a chunk breaks neither
fact: it sends the lookups of its own addresses, and the writes of longer routes in it,
to a chunk that is not theirs, which is what `Sound` says of an address.

### Ipv6Routes

`RoutesCorrect`, for addresses of any width, tables of any size and any routes.

*Tables.*  An insert changes what is found for its own key; of any other key it finds the
same as before, or nothing, and then the key is in `lost` (`InsertFacts`).

*The search.*  The turns of a search for a length are the path to it in a tree over the
lengths (`InTree`, `TreeStep`, `TreeLeaf`): all its markers are on that path, and behind
as many turns as there are lengths nothing is left.  `LookupFinds` is about any contents
of the tables: if everything on the path to a length has some destination, and the tables
from there on have none but those of a given set, the lookup ends with one of that set.

*The build.*  Two facts are enough of the tables.  `Led`: where there is a marker or
a route, and a guided route that is not longer, an address that nothing was cut off for
so far finds a destination.  `Right`: a sound address finds
no destination but its own in the tables from its longest route on.  Together they make
the lookup of a sound address right (`SoundLookup`), also while markers are still missing
that its route does not need.  Both speak only of what an address meets itself, so that
an insert which cuts off or overwrites something elsewhere keeps them.

`RoutesInv` has two phases: while routes are added the tables hold them but for those in
`lost` (`AddPhase`); then `Led` and `Right` hold with the markers of the routes that
`build()` has come to, and those of the present route up to where its search is
(`BuildPhase`).  A marker gets its destination from a lookup in unfinished tables.  That it
gets one is `MarkerLed`.  That it is the right one for each sound address that meets the
marker from its longest route on is `MarkerRight`: by `Clear` the marker's own address has
the same longest route, and is sound as well (`KeySound`); that route is no longer than the
marker, hence shorter than the one being visited, and its markers are there
(`ShorterMarked`).

### LinearGroups

`GroupsCorrect` and `OnceCorrect`, for every acyclic graph.  `GraphInv` is about the
search: an element is in the group that it knows and in no other (`MembersInv`); what
stands before it in the group leads to nothing else, and nothing else leads to it
(`LinksInv`); an element that only follows another is visited right after that one, from
the top of the stack, and once (`ChainInv`), so that groups are as long as they can be;
nothing that can be reached is forgotten (`ReachInv`).  An element is visited twice only
if it was pushed twice, and then a parent of it leads to it another way: `AboveInv` says
of two entries of the stack that a parent of the lower one leads to the upper one by
another child, which becomes a shortcut when both are the same element.

### What the proofs rest on, and what is only model-checked

`Counting_proofs` has the lemmas on counts, and on the functions defined by
recursion over numbers (`ItemsAt`, sums).  Induction is stated there once, for sets of
numbers, by taking the least number outside of the set.

Only model-checked: liveness, which is out of the prover's reach (`BatchReturns`,
`TerminationUnwinds`, `SlotReturns`, `StartsAndStops`).  Every other property of a run
that passes is a theorem.

## 5. Not modelled

* Packet processing elements but for the route tables: they change bytes of one packet;
  the cryptography is beyond a model checker.  The kernels' own copies of the route
  tables and their lookups; a hash table that is full.
* The load balancers' search for a ratio works on measured throughput; any decision per
  batch is allowed instead.
* Configuration and the Click parser run once, before there is any concurrency, and
  decide nothing that the other modules do not leave open.  `OffloadActions` takes every
  sequence of elements as a group.
* Queue and the scan of schedulable elements; branch prediction; the CONTINUOUS and
  LINKEDLIST schemes of batches; cloned and pending packets; the mask of an empty batch
  in the unoptimised build.
* The Phi engine, the set-up of devices and of SCIF memory, the control channel of
  Knapp (generated code), and the end of a Knapp device, whose threads spin on.
* A second NUMA node: nodes share nothing but the main thread.
* DPDK's rings and pools are taken as queues and sets; libev as far as the program
  uses it.

## 6. Plan

Next modules: `Queue` with the scan of schedulable elements; the CONTINUOUS scheme of
batches, whose `collect_excluded_packets()` is on the list of hazards; what the device does
with tasks that share a slot.
