-------------------------- MODULE OffloadPipeline --------------------------
(***************************************************************************)
(* The offloading pipeline of one NBA worker: the I/O + computation thread *)
(* (io_loop, the element graph's job queue and the nested libev loops it   *)
(* waits in), the coprocessor thread that drives the device, and the two   *)
(* rings and two async watchers between them.                              *)
(*                                                                         *)
(* The element graph is a chain 1..NElems from the input (element 0) to    *)
(* the output; the elements of Offloadable may run on the device, and the  *)
(* elements of Fin carry the ELEM_OFFL_POSTPROC_FIN action that            *)
(* build_element_graph() derives (module OffloadActions).  The length of a *)
(* packet batch, its packets and its buffers are abstracted away.          *)
(***************************************************************************)
EXTENDS Integers, Sequences, FiniteSets, Counting

CONSTANTS
    Batches,      \* PacketBatch objects of batch_pool
    Tasks,        \* OffloadTask objects of task_pool
    IoBases,      \* io_base values of the ComputeContext
    NElems,       \* elements of the chain
    Offloadable,  \* those that are ELEMTYPE_OFFLOADABLE
    Fin,          \* those with an ELEM_OFFL_POSTPROC_FIN action
    PpDepth,      \* COPROC_PPDEPTH: batches per task
    InQCap,       \* usable slots of the task input ring
    CompQCap,     \* slots of the task completion ring below its water mark
    MayTerminate, \* whether SIGINT/SIGTERM may arrive
    NoTask,       \* a null OffloadTask pointer
    NoIo          \* INVALID_IO_BASE

Elems == 1..NElems

\* The sizes main.cc and config.hh give the pools and rings, and what a Task
\* pointer's type tag guarantees: a queue entry is a batch or a task.
ASSUME PoolAssumption ==
    /\ IsFiniteSet(Batches) /\ IsFiniteSet(Tasks) /\ IsFiniteSet(IoBases)
    /\ Batches \cap Tasks = {}
    /\ NoTask \notin Batches \cup Tasks /\ NoIo \notin IoBases
    /\ PpDepth \in Nat \ {0}
    /\ InQCap \in Nat \ {0}
    /\ CompQCap \in Nat /\ CompQCap >= Cardinality(IoBases)
    /\ MayTerminate \in BOOLEAN

\* What a correct derivation of the offload actions gives a chain: I/O buffers
\* are released exactly where a run of adjacent offloadable elements ends.
ASSUME ChainAssumption ==
    /\ NElems \in Nat \ {0}
    /\ Offloadable \subseteq Elems
    /\ Fin = {e \in Offloadable : e + 1 \notin Offloadable}

-----------------------------------------------------------------------------
VARIABLES
    \* the computation thread's data
    pool,      \* batch_pool: the free batches
    batch,     \* tracker, LB decision and datablock_states of each batch
    queue,     \* ElementGraph::queue, a FixedRing of batches and tasks
    finished,  \* finished_batches of each offloadable element
    acc,       \* OffloadableElement::tasks[0]: the task being filled
    taskPool,  \* task_pool: the free tasks
    task,      \* the fields of each OffloadTask
    ioFree,    \* io_base_ring of the ComputeContext
    dbFree,    \* entries left in dbstate_pool
    \* the computation thread's control
    pc, cur, stack, pend, loopDone, burst, broken,
    \* async watchers that were sent and not yet seen by their loop
    async, coAsync,
    \* the coprocessor thread and the device
    inRing, coPend, coPc, d2hQ, doneQ, compRing, coBroken, dev

dataVars == <<pool, batch, queue, finished, acc, taskPool, task, ioFree, dbFree>>
ctlVars  == <<pc, cur, stack, pend, loopDone, burst, broken>>
ringVars == <<async, coAsync, inRing, compRing>>
coVars   == <<coPend, coPc, d2hQ, doneQ, coBroken, dev>>
vars     == <<dataVars, ctlVars, ringVars, coVars>>

\* A batch as its constructor leaves it, tracked at the input element.  The
\* fields of a pooled batch are dead and are kept in this form too.
FreshBatch == [elem |-> 0, has |-> TRUE, dev |-> FALSE, db |-> FALSE]
\* A task as the pool keeps it and as offload() constructs it.
FreshTask  == [elem |-> 1, batches |-> <<>>, state |-> "INITIALIZING", io |-> NoIo]

Init ==
    /\ pool = Batches
    /\ batch = [b \in Batches |-> FreshBatch]
    /\ queue = <<>>
    /\ finished = [e \in Elems |-> <<>>]
    /\ acc = [e \in Elems |-> NoTask]
    /\ taskPool = Tasks
    /\ task = [t \in Tasks |-> FreshTask]
    /\ ioFree \in {s \in [1..Cardinality(IoBases) -> IoBases] :
                      \A i, j \in DOMAIN s : s[i] = s[j] => i = j}
    /\ dbFree = Cardinality(Batches)
    /\ pc = "rx" /\ cur = NoTask /\ stack = <<>> /\ pend = {}
    /\ loopDone = FALSE /\ burst = <<>> /\ broken = FALSE
    /\ async = {} /\ coAsync = {}
    /\ inRing = <<>> /\ compRing = <<>>
    /\ coPend = {} /\ coPc = "loop"
    /\ d2hQ = <<>> /\ doneQ = <<>> /\ coBroken = FALSE
    /\ dev = [t \in Tasks |-> "idle"]

-----------------------------------------------------------------------------
(* ev_run() and the callbacks of the I/O loop.  A frame of stack is one      *)
(* active ev_run(): "nowait" from io_loop ("polled" once it has polled),     *)
(* "rx" from comp_process_batch, "send" from send_offload_task_to_device.    *)

EvRun(kind, t) ==
    /\ stack' = <<[kind |-> kind, task |-> t]>> \o stack
    /\ loopDone' = FALSE
    /\ pc' = "invoke"

\* Nothing is pending: either another round of the loop, or back to the caller.
LoopRound ==
    /\ pc = "invoke" /\ pend = {}
    /\ IF loopDone \/ Head(stack).kind = "polled"
         THEN /\ stack' = Tail(stack)
              /\ cur' = Head(stack).task
              /\ pc' = CASE Head(stack).kind = "rx"   -> "getBatch"
                         [] Head(stack).kind = "send" -> "alloc"
                         [] OTHER                     -> "rx"
         ELSE /\ pc' = "poll"
              /\ UNCHANGED <<stack, cur>>
    /\ UNCHANGED <<dataVars, pend, loopDone, burst, broken, ringVars, coVars>>

\* backend_poll() returned: the asyncs that were sent become pending together
\* with the check watcher, which every round of the loop queues.
Wake ==
    /\ pc = "poll"
    /\ pend' = async \cup {"check"}
    /\ async' = {}
    /\ loopDone' = FALSE
    /\ stack' = IF Head(stack).kind = "nowait"
                  THEN <<[Head(stack) EXCEPT !.kind = "polled"]>> \o Tail(stack)
                  ELSE stack
    /\ pc' = "invoke"
    /\ UNCHANGED <<dataVars, cur, burst, broken, coAsync, inRing, compRing, coVars>>

Blocked == pc = "poll" /\ Head(stack).kind # "nowait" /\ async = {}

Poll      == ~Blocked /\ Wake
PollTimer == Blocked /\ Wake             \* the 1 s stat_timer of io_loop

\* comp_offload_task_completion_cb() begins: dequeue all that is there.
CompletionCb ==
    /\ pc = "invoke" /\ "completion" \in pend
    /\ pend' = pend \ {"completion"}
    /\ burst' = compRing
    /\ compRing' = <<>>
    /\ pc' = "complete"
    /\ UNCHANGED <<dataVars, cur, stack, loopDone, broken, async, coAsync, inRing, coVars>>

\* check_next_offloadable(): the task goes on to the next element.
NextOffloadable(e) == e + 1 \in Offloadable

\* Faulty: as if datablocks were never reused.
ReleaseAlways(e) == TRUE

\* check_postproc_all(): the buffers are released here.
PostprocAll(e) == e \in Fin

\* One task of the burst: post-process, release, and either hand the task to
\* the next offloadable element or give its batches back to its own element.
CompleteTask ==
    /\ pc = "complete" /\ burst # <<>> /\ ~broken
    /\ LET t == Head(burst)
           e == task[t].elem
           members == {task[t].batches[i] : i \in DOMAIN task[t].batches}
           held == {b \in members : batch[b].db}
       IN /\ IF PostprocAll(e)
               THEN /\ batch' = [b \in Batches |->
                                   IF b \in held THEN [batch[b] EXCEPT !.db = FALSE] ELSE batch[b]]
                    /\ dbFree' = dbFree + Cardinality(held)
                    /\ ioFree' = Append(ioFree, task[t].io)
               ELSE UNCHANGED <<batch, dbFree, ioFree>>
          /\ IF NextOffloadable(e)
               THEN /\ task' = [task EXCEPT ![t].state = "INITIALIZED", ![t].elem = e + 1]
                    /\ queue' = <<t>> \o queue
                    /\ UNCHANGED <<finished, taskPool>>
               ELSE /\ finished' = [finished EXCEPT ![e] = @ \o task[t].batches]
                    /\ taskPool' = taskPool \cup {t}
                    /\ task' = [task EXCEPT ![t] = FreshTask]
                    /\ UNCHANGED queue
          /\ dev' = [dev EXCEPT ![t] = "idle"]
    /\ burst' = Tail(burst)
    /\ loopDone' = TRUE
    /\ UNCHANGED <<pool, acc, pc, cur, stack, pend, broken, ringVars,
                   coPend, coPc, d2hQ, doneQ, coBroken>>

\* The burst is done, or the loop is broken and the rest of it is lost.
CompletionDone ==
    /\ pc = "complete" /\ (burst = <<>> \/ broken)
    /\ burst' = <<>>
    /\ pc' = "invoke"
    /\ UNCHANGED <<dataVars, cur, stack, pend, loopDone, broken, ringVars, coVars>>

\* Faulty: the ev_break() is forgotten.
TerminateWithoutBreak ==
    /\ pc = "invoke" /\ "terminate" \in pend /\ "completion" \notin pend
    /\ pend' = pend \ {"terminate"}
    /\ broken' = TRUE
    /\ UNCHANGED <<dataVars, pc, cur, stack, loopDone, burst, ringVars, coVars>>

\* io_terminate_cb()
TerminateCb ==
    /\ pc = "invoke" /\ "terminate" \in pend /\ "completion" \notin pend
    /\ pend' = pend \ {"terminate"}
    /\ broken' = TRUE
    /\ loopDone' = TRUE
    /\ UNCHANGED <<dataVars, pc, cur, stack, burst, ringVars, coVars>>

\* comp_prepare_cb(): flush_tasks(), then scan_offloadable_elements().
CheckCb ==
    /\ pc = "invoke" /\ pend = {"check"}
    /\ pend' = {}
    /\ pc' = "flush"
    /\ UNCHANGED <<dataVars, cur, stack, loopDone, burst, broken, ringVars, coVars>>

\* Faulty: only flush_tasks() is called.
FlushWithoutScan ==
    /\ pc = "flush" /\ (queue = <<>> \/ broken)
    /\ pc' = "invoke"
    /\ UNCHANGED <<dataVars, cur, stack, pend, loopDone, burst, broken, ringVars, coVars>>

FlushDone ==
    /\ pc = "flush" /\ (queue = <<>> \/ broken)
    /\ pc' = "scan"
    /\ UNCHANGED <<dataVars, cur, stack, pend, loopDone, burst, broken, ringVars, coVars>>

\* Faulty: has_results is not set on the batch.
ScanWithoutResults(e) ==
    /\ pc = "scan" /\ finished[e] # <<>>
    /\ \A f \in Elems : f < e => finished[f] = <<>>
    /\ LET b == Head(finished[e])
       IN /\ batch' = [batch EXCEPT ![b].elem = e]
          /\ queue' = Append(queue, b)
    /\ finished' = [finished EXCEPT ![e] = Tail(@)]
    /\ UNCHANGED <<pool, acc, taskPool, task, ioFree, dbFree, ctlVars, ringVars, coVars>>

\* Faulty: the batch is not popped.
ScanWithoutPop(e) ==
    /\ pc = "scan" /\ finished[e] # <<>>
    /\ LET b == Head(finished[e])
       IN /\ batch' = [batch EXCEPT ![b].elem = e, ![b].has = TRUE]
          /\ queue' = Append(queue, b)
    /\ pc' = "invoke"
    /\ UNCHANGED <<pool, finished, acc, taskPool, task, ioFree, dbFree,
                   cur, stack, pend, loopDone, burst, broken, ringVars, coVars>>

\* Drain finished_batches, element by element in graph order.
ScanBatch(e) ==
    /\ pc = "scan" /\ finished[e] # <<>>
    /\ \A f \in Elems : f < e => finished[f] = <<>>
    /\ LET b == Head(finished[e])
       IN /\ batch' = [batch EXCEPT ![b].elem = e, ![b].has = TRUE]
          /\ queue' = Append(queue, b)
    /\ finished' = [finished EXCEPT ![e] = Tail(@)]
    /\ UNCHANGED <<pool, acc, taskPool, task, ioFree, dbFree, ctlVars, ringVars, coVars>>

ScanDone ==
    /\ pc = "scan" /\ \A e \in Elems : finished[e] = <<>>
    /\ pc' = "invoke"
    /\ UNCHANGED <<dataVars, cur, stack, pend, loopDone, burst, broken, ringVars, coVars>>

-----------------------------------------------------------------------------
(* io_loop() and comp_process_batch()                                       *)

\* A chunk of received packets: comp_process_batch() is called.  (With the
\* loop broken and the pool empty the call does nothing.)
ReceiveChunk ==
    /\ pc = "rx" /\ (~broken \/ pool # {})
    /\ pc' = "getBatch"
    /\ UNCHANGED <<dataVars, cur, stack, pend, loopDone, burst, broken, ringVars, coVars>>

RunLoop ==
    /\ pc = "rx" /\ ~broken
    /\ EvRun("nowait", NoTask)
    /\ UNCHANGED <<dataVars, cur, pend, burst, broken, ringVars, coVars>>

StopIoLoop ==
    /\ pc = "rx" /\ broken
    /\ pc' = "stopped"
    /\ UNCHANGED <<dataVars, cur, stack, pend, loopDone, burst, broken, ringVars, coVars>>

\* A batch is available: initialize it and feed it to the input element, whose
\* load balancer downstream decides between CPU and device.
GetBatch ==
    /\ pc = "getBatch" /\ ~broken
    /\ \E b \in pool, d \in BOOLEAN :
         /\ pool' = pool \ {b}
         /\ batch' = [batch EXCEPT ![b] = [FreshBatch EXCEPT !.dev = d]]
         /\ queue' = Append(queue, b)
    /\ pc' = "rx"
    /\ UNCHANGED <<finished, acc, taskPool, task, ioFree, dbFree,
                   cur, stack, pend, loopDone, burst, broken, ringVars, coVars>>

\* The pool is empty: wait for a batch inside ev_run().
WaitBatch ==
    /\ pc = "getBatch" /\ ~broken /\ pool = {}
    /\ EvRun("rx", NoTask)
    /\ UNCHANGED <<dataVars, cur, pend, burst, broken, ringVars, coVars>>

\* The loop is broken: return, losing the batch if the pool gave one.
AbandonChunk ==
    /\ pc = "getBatch" /\ broken
    /\ IF pool = {} THEN UNCHANGED pool ELSE \E b \in pool : pool' = pool \ {b}
    /\ pc' = "rx"
    /\ UNCHANGED <<batch, queue, finished, acc, taskPool, task, ioFree, dbFree,
                   cur, stack, pend, loopDone, burst, broken, ringVars, coVars>>

-----------------------------------------------------------------------------
(* ElementGraph::flush_tasks() and what it dispatches                       *)

Flushing(x) == pc = "flush" /\ ~broken /\ queue # <<>> /\ x = Head(queue)

ShouldOffload(b) ==
    ~batch[b].has /\ batch[b].elem \in Offloadable /\ batch[b].dev

\* Faulty: the element keeps its pointer to a task that was started.
OffloadKeepingTask(b, t) ==
    /\ Flushing(b) /\ ShouldOffload(b)
    /\ LET e == batch[b].elem
           bs == Append(task[t].batches, b)
           full == Len(bs) = PpDepth
       IN /\ IF acc[e] = NoTask THEN t \in taskPool ELSE t = acc[e]
          /\ taskPool' = taskPool \ {t}
          /\ task' = [task EXCEPT ![t].elem = e, ![t].batches = bs,
                                  ![t].state = IF full THEN "INITIALIZED" ELSE "INITIALIZING"]
          /\ acc' = [acc EXCEPT ![e] = t]
          /\ queue' = IF full THEN <<t>> \o Tail(queue) ELSE Tail(queue)
    /\ UNCHANGED <<pool, batch, finished, ioFree, dbFree, ctlVars, ringVars, coVars>>

\* offload(): the batch joins the task being filled; a full task is pushed to
\* the front of the queue.
OffloadBatch(b, t) ==
    /\ Flushing(b) /\ ShouldOffload(b)
    /\ LET e == batch[b].elem
           bs == Append(task[t].batches, b)
           full == Len(bs) = PpDepth
       IN /\ IF acc[e] = NoTask THEN t \in taskPool ELSE t = acc[e]
          /\ taskPool' = taskPool \ {t}
          /\ task' = [task EXCEPT ![t].elem = e, ![t].batches = bs,
                                  ![t].state = IF full THEN "INITIALIZED" ELSE "INITIALIZING"]
          /\ acc' = [acc EXCEPT ![e] = IF full THEN NoTask ELSE t]
          /\ queue' = IF full THEN <<t>> \o Tail(queue) ELSE Tail(queue)
    /\ UNCHANGED <<pool, batch, finished, ioFree, dbFree, ctlVars, ringVars, coVars>>

\* offload() found no free task: the batch goes to the back of the queue.
DelayBatch(b) ==
    /\ Flushing(b) /\ ShouldOffload(b)
    /\ acc[batch[b].elem] = NoTask /\ taskPool = {}
    /\ queue' = Append(Tail(queue), b)
    /\ UNCHANGED <<pool, batch, finished, acc, taskPool, task, ioFree, dbFree,
                   ctlVars, ringVars, coVars>>

\* Faulty: the output is recognized one element late.
PastOutput(b) == batch[b].elem > NElems

\* The next element of the chain is the ELEMTYPE_OUTPUT one.
AtOutput(b) == batch[b].elem = NElems

\* The batch has its results or gets them from the CPU handler; it moves on to
\* the next element of the chain or, at the end, is transmitted and freed.
ForwardBatch(b) ==
    /\ Flushing(b) /\ ~ShouldOffload(b)
    /\ IF AtOutput(b)
         THEN /\ pool' = pool \cup {b}
              /\ batch' = [batch EXCEPT ![b] = [FreshBatch EXCEPT !.db = batch[b].db]]
              /\ queue' = Tail(queue)
              /\ loopDone' = TRUE
         ELSE /\ batch' = [batch EXCEPT ![b].elem = @ + 1, ![b].has = FALSE]
              /\ queue' = Append(Tail(queue), b)
              /\ UNCHANGED <<pool, loopDone>>
    /\ UNCHANGED <<finished, acc, taskPool, task, ioFree, dbFree,
                   pc, cur, stack, pend, burst, broken, ringVars, coVars>>

\* Faulty: trackers are taken whether or not the batches have them.
TrackersAlways(t) == TRUE

\* It is okay to check only the first batch.
NeedsTrackers(t) == ~batch[task[t].batches[1]].db

\* process_offload_task(): begin send_offload_task_to_device().  A task that is
\* PREPARED already comes back from a full input ring.
StartSend(t) ==
    /\ Flushing(t) /\ t \in Tasks
    /\ queue' = Tail(queue)
    /\ cur' = t
    /\ LET bs == task[t].batches
       IN IF task[t].state # "PREPARED" /\ NeedsTrackers(t)
            THEN LET members == {bs[i] : i \in DOMAIN bs}
                 IN /\ batch' = [b \in Batches |->
                                   IF b \in members THEN [batch[b] EXCEPT !.db = TRUE] ELSE batch[b]]
                       /\ dbFree' = dbFree - Len(bs)
            ELSE UNCHANGED <<batch, dbFree>>
    /\ pc' = IF task[t].state = "PREPARED" THEN "enqueue" ELSE "alloc"
    /\ UNCHANGED <<pool, finished, acc, taskPool, task, ioFree,
                   stack, pend, loopDone, burst, broken, ringVars, coVars>>

\* Faulty: the task does not wait for an io_base.
AllocWithoutWait ==
    /\ pc = "alloc"
    /\ task' = [task EXCEPT ![cur].state = "PREPARED",
                            ![cur].io = IF ioFree = <<>> THEN @ ELSE Head(ioFree)]
    /\ ioFree' = IF ioFree = <<>> THEN ioFree ELSE Tail(ioFree)
    /\ pc' = "enqueue"
    /\ UNCHANGED <<pool, batch, queue, finished, acc, taskPool, dbFree,
                   cur, stack, pend, loopDone, burst, broken, ringVars, coVars>>

\* The task has, or gets, an io_base: reserve its buffers.
AllocIoBase ==
    /\ pc = "alloc"
    /\ \/ /\ task[cur].io # NoIo
          /\ task' = [task EXCEPT ![cur].state = "PREPARED"]
          /\ UNCHANGED ioFree
       \/ /\ task[cur].io = NoIo /\ ~broken /\ ioFree # <<>>
          /\ task' = [task EXCEPT ![cur].state = "PREPARED", ![cur].io = Head(ioFree)]
          /\ ioFree' = Tail(ioFree)
    /\ pc' = "enqueue"
    /\ UNCHANGED <<pool, batch, queue, finished, acc, taskPool, dbFree,
                   cur, stack, pend, loopDone, burst, broken, ringVars, coVars>>

\* No io_base: wait for one inside a nested ev_run().
WaitIoBase ==
    /\ pc = "alloc" /\ task[cur].io = NoIo /\ ~broken /\ ioFree = <<>>
    /\ EvRun("send", cur)
    /\ cur' = NoTask
    /\ UNCHANGED <<dataVars, pend, burst, broken, ringVars, coVars>>

\* The loop was broken while waiting: the task is dropped.
DropTask ==
    /\ pc = "alloc" /\ task[cur].io = NoIo /\ broken
    /\ cur' = NoTask
    /\ pc' = "flush"
    /\ UNCHANGED <<dataVars, stack, pend, loopDone, burst, broken, ringVars, coVars>>

\* Faulty: a task that was enqueued is delayed as well.
EnqueueTwice ==
    /\ pc = "enqueue" /\ Len(inRing) < InQCap
    /\ inRing' = Append(inRing, cur)
    /\ queue' = <<cur>> \o queue
    /\ pc' = "notify"
    /\ UNCHANGED <<pool, batch, finished, acc, taskPool, task, ioFree, dbFree,
                   cur, stack, pend, loopDone, burst, broken,
                   async, coAsync, compRing, coVars>>

EnqueueInput ==
    /\ pc = "enqueue" /\ Len(inRing) < InQCap
    /\ inRing' = Append(inRing, cur)
    /\ pc' = "notify"
    /\ UNCHANGED <<dataVars, cur, stack, pend, loopDone, burst, broken,
                   async, coAsync, compRing, coVars>>

\* -ENOBUFS: the task goes back to the front of the queue.
DelayTask ==
    /\ pc = "enqueue" /\ Len(inRing) = InQCap
    /\ queue' = <<cur>> \o queue
    /\ cur' = NoTask
    /\ pc' = "flush"
    /\ UNCHANGED <<pool, batch, finished, acc, taskPool, task, ioFree, dbFree,
                   stack, pend, loopDone, burst, broken, ringVars, coVars>>

NotifyInput ==
    /\ pc = "notify"
    /\ coAsync' = coAsync \cup {"input"}
    /\ cur' = NoTask
    /\ pc' = "flush"
    /\ UNCHANGED <<dataVars, stack, pend, loopDone, burst, broken,
                   async, inRing, compRing, coVars>>

-----------------------------------------------------------------------------
(* The coprocessor thread: coproc_loop() and its callbacks.  Pending events  *)
(* are invoked by priority: input, then d2h, then done, then terminate.      *)

coCtl == <<pool, batch, queue, finished, acc, taskPool, ioFree, dbFree, ctlVars>>

CoPoll ==
    /\ coPc = "loop" /\ ~coBroken /\ coPend = {} /\ coAsync # {}
    /\ coPend' = coAsync
    /\ coAsync' = {}
    /\ UNCHANGED <<dataVars, ctlVars, async, inRing, compRing,
                   coPc, d2hQ, doneQ, coBroken, dev>>

\* Faulty: the terminate watcher comes first.
TerminateFirst == [input |-> 3, d2h |-> 2, done |-> 1, terminate |-> 4]

\* Watcher priorities; coproc_terminate_cb() itself runs what is pending first.
Priority == [input |-> 3, d2h |-> 2, done |-> 1, terminate |-> 0]

Invokable(w) ==
    /\ coPc = "loop" /\ w \in coPend
    /\ \A v \in coPend : Priority[v] <= Priority[w]

\* Faulty: off by one.
RefeedIfTwo(w, q) == IF Len(q) > 1 THEN {w} ELSE {}

\* ev_feed_event(): a callback marks its own watcher while its queue has tasks.
Refeed(w, q) == IF Len(q) > 0 THEN {w} ELSE {}

\* coproc_task_input_cb(): one task; copy H2D and launch the kernel, or skip it
\* when no batch of the task has an item.
InputCb ==
    /\ Invokable("input")
    /\ IF inRing = <<>>
         THEN /\ coPend' = coPend \ {"input"}
              /\ UNCHANGED <<inRing, task, d2hQ, dev>>
         ELSE LET t == Head(inRing)
              IN /\ inRing' = Tail(inRing)
                 /\ \/ /\ task' = [task EXCEPT ![t].state = "EXECUTING"]
                       /\ dev' = [dev EXCEPT ![t] = "kernel"]
                    \/ /\ task' = [task EXCEPT ![t].state = "H2D_COPYING"]
                       /\ dev' = [dev EXCEPT ![t] = "executed"]
                 /\ d2hQ' = Append(d2hQ, t)
                 /\ coPend' = (coPend \ {"input"}) \cup {"d2h"}
    /\ coPc' = "refeed"
    /\ UNCHANGED <<coCtl, async, coAsync, compRing, doneQ, coBroken>>

\* The end of the callback: feed the watcher again if tasks remain.
InputRefeed ==
    /\ coPc = "refeed"
    /\ coPend' = coPend \cup Refeed("input", inRing)
    /\ coPc' = "loop"
    /\ UNCHANGED <<dataVars, ctlVars, ringVars, d2hQ, doneQ, coBroken, dev>>

\* coproc_task_d2h_cb(): start the copy back of one task whose kernel finished,
\* or rotate it to the back.  NBA_MAX_KERNEL_OVERLAP (8) tasks force the feed.
D2hCb ==
    /\ Invokable("d2h") /\ d2hQ # <<>>
    /\ LET t == Head(d2hQ)
       IN IF dev[t] = "executed"
            THEN /\ task' = [task EXCEPT ![t].state = "D2H_COPYING"]
                 /\ dev' = [dev EXCEPT ![t] = "copying"]
                 /\ d2hQ' = Tail(d2hQ)
                 /\ doneQ' = Append(doneQ, t)
            ELSE /\ d2hQ' = Append(Tail(d2hQ), t)
                 /\ UNCHANGED <<task, dev, doneQ>>
    /\ coPend' = (coPend \ {"d2h"})
                   \cup (IF doneQ' # doneQ /\ (Len(doneQ') >= 8 \/ "input" \notin coPend)
                           THEN {"done"} ELSE {})
                   \cup Refeed("d2h", d2hQ')
    /\ UNCHANGED <<coCtl, ringVars, coPc, coBroken>>

\* coproc_task_done_cb(): complete one task whose copy finished.  An assertion
\* of notify_completion() aborts the program when the ring has no room.
DoneCb ==
    /\ Invokable("done") /\ doneQ # <<>>
    /\ LET t == Head(doneQ)
       IN IF dev[t] = "copied"
            THEN /\ task' = [task EXCEPT ![t].state = "FINISHED"]
                 /\ compRing' = Append(compRing, t)
                 /\ doneQ' = Tail(doneQ)
                 /\ coPc' = IF Len(compRing) < CompQCap THEN "notify" ELSE "aborted"
            ELSE /\ doneQ' = Append(Tail(doneQ), t)
                 /\ UNCHANGED <<task, compRing, coPc>>
    /\ coPend' = (coPend \ {"done"}) \cup Refeed("done", doneQ')
    /\ UNCHANGED <<coCtl, async, coAsync, inRing, d2hQ, coBroken, dev>>

\* notify_completion(): the async send that follows the ring enqueue.
NotifyCompletion ==
    /\ coPc = "notify"
    /\ async' = async \cup {"completion"}
    /\ coPc' = "loop"
    /\ UNCHANGED <<dataVars, ctlVars, coAsync, inRing, compRing,
                   coPend, d2hQ, doneQ, coBroken, dev>>

\* coproc_terminate_cb()
CoTerminateCb ==
    /\ Invokable("terminate")
    /\ coPend' = coPend \ {"terminate"}
    /\ coBroken' = TRUE
    /\ UNCHANGED <<dataVars, ctlVars, ringVars, coPc, d2hQ, doneQ, dev>>

-----------------------------------------------------------------------------
(* The environment: the device finishes kernels and copies; a signal ends    *)
(* the program.                                                              *)

KernelFinishes(t) ==
    /\ dev[t] = "kernel"
    /\ dev' = [dev EXCEPT ![t] = "executed"]
    /\ UNCHANGED <<dataVars, ctlVars, ringVars, coPend, coPc, d2hQ, doneQ, coBroken>>

CopyFinishes(t) ==
    /\ dev[t] = "copying"
    /\ dev' = [dev EXCEPT ![t] = "copied"]
    /\ UNCHANGED <<dataVars, ctlVars, ringVars, coPend, coPc, d2hQ, doneQ, coBroken>>

\* handle_signal(): wake both loops for termination and break the I/O loop.
Signal ==
    /\ MayTerminate /\ ~broken /\ "terminate" \notin async \cup pend
    /\ coAsync' = coAsync \cup {"terminate"}
    /\ async' = async \cup {"terminate"}
    /\ loopDone' = TRUE
    /\ UNCHANGED <<dataVars, pc, cur, stack, pend, burst, broken, inRing, compRing, coVars>>

-----------------------------------------------------------------------------

Flush ==
    \/ FlushDone \/ ScanDone
    \/ \E e \in Elems : ScanBatch(e)
    \/ \E b \in Batches : DelayBatch(b) \/ ForwardBatch(b) \/ \E t \in Tasks : OffloadBatch(b, t)
    \/ \E t \in Tasks : StartSend(t)
    \/ AllocIoBase \/ WaitIoBase \/ DropTask
    \/ EnqueueInput \/ DelayTask \/ NotifyInput

CompStep ==
    \/ LoopRound \/ Poll
    \/ CompletionCb \/ CompleteTask \/ CompletionDone \/ TerminateCb \/ CheckCb
    \/ ReceiveChunk \/ RunLoop \/ StopIoLoop
    \/ GetBatch \/ WaitBatch \/ AbandonChunk
    \/ Flush

CoprocStep ==
    \/ CoPoll \/ InputCb \/ InputRefeed \/ D2hCb \/ DoneCb \/ NotifyCompletion
    \/ CoTerminateCb

DeviceStep(t) == KernelFinishes(t) \/ CopyFinishes(t)

Next ==
    \/ CompStep \/ PollTimer \/ CoprocStep \/ Signal
    \/ \E t \in Tasks : DeviceStep(t)

Spec == Init /\ [][Next]_vars

\* Each thread runs while it can, the timer of a blocked loop fires, and the
\* device finishes what was launched.  Neither packets nor signals need arrive.
Fairness ==
    /\ WF_vars(CompStep) /\ WF_vars(PollTimer) /\ WF_vars(CoprocStep)
    /\ \A t \in Tasks : WF_vars(DeviceStep(t))

FairSpec == Spec /\ Fairness

-----------------------------------------------------------------------------
(* Properties                                                               *)

TaskStates == {"INITIALIZING", "INITIALIZED", "PREPARED", "H2D_COPYING",
               "EXECUTING", "D2H_COPYING", "FINISHED"}

\* Every variable has its type, and a stack frame is one of the four callers of
\* ev_run() with, for "send", the task that waits.
TypeOK ==
    /\ pool \subseteq Batches
    /\ batch \in [Batches -> [elem : 0..NElems, has : BOOLEAN, dev : BOOLEAN, db : BOOLEAN]]
    /\ queue \in Seq(Batches \cup Tasks)
    /\ finished \in [Elems -> Seq(Batches)]
    /\ acc \in [Elems -> Tasks \cup {NoTask}]
    /\ taskPool \subseteq Tasks
    /\ task \in [Tasks -> [elem : Elems, batches : Seq(Batches), state : TaskStates,
                           io : IoBases \cup {NoIo}]]
    /\ ioFree \in Seq(IoBases \cup {NoIo})
    /\ dbFree \in Int
    /\ pc \in {"rx", "getBatch", "invoke", "poll", "complete", "flush", "scan",
               "alloc", "enqueue", "notify", "stopped"}
    /\ cur \in Tasks \cup {NoTask}
    /\ stack \in Seq([kind : {"nowait", "polled", "rx", "send"}, task : Tasks \cup {NoTask}])
    /\ pend \subseteq {"completion", "terminate", "check"}
    /\ loopDone \in BOOLEAN /\ broken \in BOOLEAN
    /\ burst \in Seq(Tasks)
    /\ async \subseteq {"completion", "terminate"}
    /\ coAsync \subseteq {"input", "terminate"}
    /\ inRing \in Seq(Tasks) /\ compRing \in Seq(Tasks)
    /\ d2hQ \in Seq(Tasks) /\ doneQ \in Seq(Tasks)
    /\ coPend \subseteq {"input", "d2h", "done", "terminate"}
    /\ coPc \in {"loop", "refeed", "notify", "aborted"}
    /\ coBroken \in BOOLEAN
    /\ dev \in [Tasks -> {"idle", "kernel", "executed", "copying", "copied"}]

Frames(t)   == Count([i \in DOMAIN stack |-> stack[i].task], t)
InHand(t)   == IF cur = t /\ pc \in {"alloc", "enqueue"} THEN 1 ELSE 0
OnDevice(t) == Count(inRing, t) + Count(d2hQ, t) + Count(doneQ, t) + Count(compRing, t)

TaskCopies(t) ==
    (IF t \in taskPool THEN 1 ELSE 0) + Count(acc, t)
      + Count(queue, t) + Frames(t) + InHand(t) + OnDevice(t) + Count(burst, t)

\* A task object is never in two places at once, although both threads, several
\* rings and every nested wait pass it around, and none is lost while the loop
\* is not broken (the early returns of send_offload_task_to_device and of the
\* completion callback lose tasks only on termination).
TaskConservation ==
    \A t \in Tasks : TaskCopies(t) <= 1 /\ (~broken => TaskCopies(t) = 1)

TaskBatches == [t \in Tasks |-> task[t].batches]

BatchCopies(b) ==
    (IF b \in pool THEN 1 ELSE 0) + Count(queue, b)
      + CountIn(finished, b) + CountIn(TaskBatches, b)

\* A packet batch is in one place: the pool, the job queue, one entry of a
\* finished_batches list or of a task; none leaks while the loop is not broken.
BatchConservation ==
    \A b \in Batches : BatchCopies(b) <= 1 /\ (~broken => BatchCopies(b) = 1)

TaskIo == [t \in Tasks |-> task[t].io]

\* An io_base (one set of device buffers) is free or belongs to one task, also
\* across the reuse of a task by a chain of offloadable elements: two tasks
\* never write into the same buffers, and none is lost.
IoBaseOwnership ==
    \A i \in IoBases : Count(ioFree, i) + Count(TaskIo, i) = 1

\* datablock_states are all accounted for; a batch that returned to the pool
\* has given its tracker back, and every batch of a task that the device side
\* works on has one (copy_h2d and postprocess dereference it).
TrackerAccounting ==
    /\ dbFree + Cardinality({b \in Batches : batch[b].db}) = Cardinality(Batches)
    /\ \A b \in pool : ~batch[b].db
    /\ \A t \in Tasks : OnDevice(t) > 0 =>
          \A i \in DOMAIN task[t].batches : batch[task[t].batches[i]].db

\* The assertions on the rings and pools never fail: the completion ring has
\* room for every task in flight, and dbstate_pool a tracker for every batch.
NeverAborts == coPc # "aborted" /\ dbFree >= 0

\* While the device side has a task, the computation thread changes neither its
\* batches nor its buffers, whatever callbacks and nested waits it runs.
StableOnDevice ==
    [][\A t \in Tasks : OnDevice(t) > 0 /\ OnDevice(t)' > 0 =>
          task'[t].batches = task[t].batches /\ task'[t].io = task[t].io]_vars

\* No wakeup is lost between the two threads or between the coprocessor's
\* stages: a ring or queue that is not empty has a watcher that was sent or is
\* pending, or a thread that is about to send it.
NoLostWakeup ==
    /\ inRing # <<>> /\ ~coBroken =>
         "input" \in coPend \cup coAsync \/ coPc = "refeed" \/ pc = "notify"
    /\ d2hQ # <<>> => "d2h" \in coPend
    /\ doneQ # <<>> => "done" \in coPend
    /\ compRing # <<>> => "completion" \in async \cup pend \/ coPc \in {"notify", "aborted"}

\* coproc_terminate_cb "tries to finish all pending tasks first": when the loop
\* is broken the device owes nothing.
CoprocDrained == coBroken => d2hQ = <<>> /\ doneQ = <<>>

\* comp_prepare_cb leaves nothing behind: whenever io_loop is back from its
\* ev_run(), no finished batch waits for the scan of schedulable elements, which
\* offloadable elements are too (the model leaves that scan out because of it).
NothingLeftToScan == pc \in {"rx", "getBatch"} => \A e \in Elems : finished[e] = <<>>

\* The elements whose results a batch has.  A batch of a task has those of the
\* elements before the task's; the task's own count when it is completed.
Holders(b) == {t \in Tasks : \E i \in DOMAIN task[t].batches : task[t].batches[i] = b}
FinishedAt(b) == {e \in Elems : \E i \in DOMAIN finished[e] : finished[e][i] = b}

Stage(b) ==
    IF b \in pool THEN -1
    ELSE IF Holders(b) # {} THEN task[CHOOSE t \in Holders(b) : TRUE].elem - 1
    ELSE IF FinishedAt(b) # {} THEN CHOOSE e \in FinishedAt(b) : TRUE
    ELSE IF batch[b].has THEN batch[b].elem ELSE batch[b].elem - 1

Path == INSTANCE ElementPath WITH stage <- [b \in Batches |-> Stage(b)]

\* The pipeline implements ElementPath: nothing that happens in the queue, on
\* the device, in nested loops, or when a task is reused, retried or dropped
\* makes a batch skip an element, pass one twice, or return to the pool early.
PathSpec == Path!Spec

\* Every received batch is eventually transmitted and freed, on the CPU or on
\* the device, unless the program is terminated.
BatchReturns == \A b \in Batches : (b \notin pool) ~> (b \in pool \/ broken)

\* However deeply ev_run() is nested, a broken loop unwinds and io_loop returns.
TerminationUnwinds == broken ~> (pc = "stopped")

=============================================================================
