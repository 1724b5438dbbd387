----------------------------- MODULE KnappDevice -----------------------------
(***************************************************************************)
(* A virtual device of the Knapp engine: the poll ring that the host and   *)
(* the coprocessor share, the coprocessor's master thread, which splits a  *)
(* task among the workers, and the workers, which hand over from task to   *)
(* task by two barriers per slot of the ring.                              *)
(*                                                                         *)
(* Each side has a copy of the ring; a write to the other side's copy is   *)
(* a signal that arrives later, behind the data that was written before it *)
(* (scif_fence_signal).  The host is the engine's part of send_offload_-   *)
(* task_to_device() and of the coprocessor thread.  Ids are handed out     *)
(* whether or not their slot is free, so that two tasks may share a slot.  *)
(* Tasks keep no buffer for another element and have items; see the README *)
(* for both.                                                               *)
(***************************************************************************)
EXTENDS Integers, Sequences, FiniteSets, Counting

CONSTANTS
    Len0,        \* slots of the ring, NBA_MAX_IO_BASES
    Workers,     \* worker threads, numbered from 0
    Items,       \* numbers of items a task may have
    MaxTasks     \* bound on the tasks that the host executes

ASSUME DeviceAssumption ==
    /\ Len0 \in Nat \ {0} /\ Workers \in Nat \ {0} /\ MaxTasks \in Nat
    /\ Items \subseteq Nat \ {0} /\ \E n \in Items : \A k \in Items : k <= n

Slots == 0..(Len0 - 1)
Tids == 0..(Workers - 1)

VARIABLES
    \* the host
    left,        \* tasks the host has left to offload
    next_id,     \* next_task_id of the context
    ioRing,      \* io_base_ring
    waiting,     \* ids of tasks that wait for a buffer, each in an ev_run() of its own
    launched,    \* d2h_pending_queue: tasks executed, by id and io_base
    doneQ,       \* task_done_queue
    hring,       \* the host's copy of the ring
    \* between the two
    toMic,       \* slots that were signalled to the coprocessor
    toHost,      \* slots that were signalled back
    \* the coprocessor
    mring,       \* its copy of the ring
    item,        \* task_params: number of items by slot
    mcur, mpc,   \* the master thread
    work,        \* per_thread_work_info
    next_task_id, cur_task_id,
    pc, slot,    \* the workers
    ready, done, \* c1 of the data_ready and the task_done barriers
    \* history
    hits,        \* how often each item of the task in a slot was processed
    shared       \* slots that got a task while they owed the completion of another

hostVars == <<left, next_id, ioRing, waiting, launched, doneQ>>
masterVars == <<mcur, mpc, work>>
workerVars == <<next_task_id, cur_task_id, pc, slot, ready, done, hits>>
vars == <<hostVars, hring, toMic, toHost, mring, item, masterVars, workerVars, shared>>

MaxItems == CHOOSE n \in Items : \A k \in Items : k <= n
Untouched == [i \in 0..(MaxItems - 1) |-> 0]

Init ==
    /\ left = MaxTasks /\ next_id = 0
    /\ ioRing = [i \in 1..Len0 |-> i - 1]
    /\ waiting = <<>> /\ launched = <<>> /\ doneQ = <<>>
    /\ hring = [s \in Slots |-> "none"] /\ mring = [s \in Slots |-> "none"]
    /\ toMic = <<>> /\ toHost = <<>>
    /\ item = [s \in Slots |-> 0]
    /\ mcur = 0 /\ mpc = "wait"
    /\ work = [s \in Slots |-> [w \in Tids |-> [begin |-> 0, num |-> 0]]]
    /\ next_task_id = 0 /\ cur_task_id = 0
    /\ pc = [w \in Tids |-> "top"] /\ slot = [w \in Tids |-> 0]
    /\ ready = [s \in Slots |-> 0] /\ done = [s \in Slots |-> 0]
    /\ hits = [s \in Slots |-> Untouched]
    /\ shared = {}

-----------------------------------------------------------------------------
(* The slots                                                               *)

\* Worker 0 has taken up the task in a slot and has not signalled its completion.
Leading(s) == slot[0] = s /\ pc[0] \in {"lead_ready", "advance", "run", "lead_done", "post"}

Ids(q) == [i \in DOMAIN q |-> q[i].id]
Bit(b) == IF b THEN 1 ELSE 0

\* How many completions a slot owes: its tasks on the way to the coprocessor, waiting for
\* the master or being split, with the workers, and signalled back.
Owed ==
    [s \in Slots |->
        Count(Ids(launched), s) + Count(toMic, s)
      + Bit(mring[s] = "h2d" \/ (mpc = "notify" /\ mcur = s))
      + Bit(mring[s] = "ready" \/ Leading(s))
      + Count(toHost, s)]

\* The slot whose completion the host gets next.
Turn == IF toHost # <<>> THEN Head(toHost) ELSE IF pc[0] = "top" THEN next_task_id ELSE slot[0]

-----------------------------------------------------------------------------
(* The host                                                                *)

NextId ==
    /\ left > 0 /\ left' = left - 1
    /\ next_id' = (next_id + 1) % Len0

\* The taskitem is written, also over another one.
Execute(id, n) ==
    /\ launched' = Append(launched, [id |-> id, io |-> Head(ioRing)])
    /\ ioRing' = Tail(ioRing)
    /\ item' = [item EXCEPT ![id] = n]
    /\ shared' = IF Owed[id] = 0 THEN shared \ {id} ELSE shared \cup {id}
    /\ hits' = [hits EXCEPT ![id] = Untouched]
    /\ UNCHANGED <<doneQ, hring, toMic, toHost, mring, masterVars,
                   next_task_id, cur_task_id, pc, slot, ready, done>>

\* A task gets the next id and a buffer and is executed, ...
Offload(n) ==
    /\ ioRing # <<>>
    /\ NextId /\ Execute(next_id, n)
    /\ UNCHANGED waiting

\* ... or it keeps the id and waits for a buffer, deepest of all.
Wait ==
    /\ ioRing = <<>>
    /\ NextId /\ waiting' = <<next_id>> \o waiting
    /\ UNCHANGED <<ioRing, launched, doneQ, hring, toMic, toHost, mring, item, masterVars,
                   workerVars, shared>>

Resume(n) ==
    /\ waiting # <<>> /\ ioRing # <<>>
    /\ waiting' = Tail(waiting) /\ Execute(Head(waiting), n)
    /\ UNCHANGED <<left, next_id>>

\* copy_d2h() hands it to the device.
SignalMic ==
    /\ launched # <<>>
    /\ LET e == Head(launched)
       IN /\ hring' = [hring EXCEPT ![e.id] = "h2d"]
          /\ toMic' = Append(toMic, e.id)
          /\ doneQ' = Append(doneQ, e)
    /\ launched' = Tail(launched)
    /\ UNCHANGED <<left, next_id, ioRing, waiting, toHost, mring, item, masterVars, workerVars, shared>>

\* poll_output_finished() is asked with the number of the buffer.
Finished(e) == hring[e.io] = "d2h"

\* The callback polls the first task of the queue: it is finished, ...
TakeBack ==
    /\ doneQ # <<>> /\ Finished(Head(doneQ))
    /\ ioRing' = Append(ioRing, Head(doneQ).io)
    /\ doneQ' = Tail(doneQ)
    /\ UNCHANGED <<left, next_id, waiting, launched, hring, toMic, toHost, mring, item, masterVars,
                   workerVars, shared>>

\* ... or it goes behind the others.
Requeue ==
    /\ doneQ # <<>> /\ ~Finished(Head(doneQ))
    /\ doneQ' = Append(Tail(doneQ), Head(doneQ))
    /\ UNCHANGED <<left, next_id, ioRing, waiting, launched, hring, toMic, toHost, mring, item, masterVars,
                   workerVars, shared>>

-----------------------------------------------------------------------------
(* Signals                                                                 *)

ArriveMic ==
    /\ toMic # <<>>
    /\ mring' = [mring EXCEPT ![Head(toMic)] = "h2d"]
    /\ toMic' = Tail(toMic)
    /\ UNCHANGED <<hostVars, hring, toHost, item, masterVars, workerVars, shared>>

ArriveHost ==
    /\ toHost # <<>>
    /\ hring' = [hring EXCEPT ![Head(toHost)] = "d2h"]
    /\ toHost' = Tail(toHost)
    /\ UNCHANGED <<hostVars, toMic, mring, item, masterVars, workerVars, shared>>

-----------------------------------------------------------------------------
(* The master thread                                                       *)

\* Faulty: the remainder is nobody's.
ShareRoundedDown(n) == n \div Workers

\* The most items that a worker gets of n.
Share(n) == (n + Workers) \div Workers

\* What remains for the workers from w on.
Remaining(n, w) == IF w * Share(n) >= n THEN 0 ELSE n - w * Share(n)

\* Workers take their shares from the end of the items.
MasterSplit ==
    /\ mpc = "wait" /\ mring[mcur] = "h2d"
    /\ LET n == item[mcur]
           Part(w) == Remaining(n, w) - Remaining(n, w + 1)
       IN work' = [work EXCEPT ![mcur] =
                     [w \in Tids |-> [begin |-> Remaining(n, w + 1), num |-> Part(w)]]]
    /\ mpc' = "notify"
    /\ UNCHANGED <<hostVars, hring, toMic, toHost, mring, item, mcur, workerVars, shared>>

MasterNotify ==
    /\ mpc = "notify"
    /\ mring' = [mring EXCEPT ![mcur] = "ready"]
    /\ mcur' = (mcur + 1) % Len0
    /\ mpc' = "wait"
    /\ UNCHANGED <<hostVars, hring, toMic, toHost, item, work, workerVars, shared>>

-----------------------------------------------------------------------------
(* The workers                                                             *)

others == <<hostVars, hring, toMic, toHost, item, masterVars, shared>>

\* A round of the loop begins with the work of the next task.
Top(w) ==
    /\ pc[w] = "top"
    /\ slot' = [slot EXCEPT ![w] = next_task_id]
    /\ IF w = 0
         THEN cur_task_id' = next_task_id /\ pc' = [pc EXCEPT ![0] = "poll"]
         ELSE UNCHANGED cur_task_id /\ pc' = [pc EXCEPT ![w] = "arrive_ready"]
    /\ UNCHANGED <<others, mring, next_task_id, ready, done, hits>>

\* Worker 0 waits for the master.
PollReady ==
    /\ pc[0] = "poll" /\ mring[slot[0]] = "ready"
    /\ pc' = [pc EXCEPT ![0] = "lead_ready"]
    /\ UNCHANGED <<others, mring, next_task_id, cur_task_id, slot, ready, done, hits>>

\* Barrier::here() of the other workers: count and spin.
ArriveReady(w) ==
    /\ pc[w] = "arrive_ready"
    /\ ready' = [ready EXCEPT ![slot[w]] = @ + 1]
    /\ pc' = [pc EXCEPT ![w] = "spin_ready"]
    /\ UNCHANGED <<others, mring, next_task_id, cur_task_id, slot, done, hits>>

LeaveReady(w) ==
    /\ pc[w] = "spin_ready" /\ ready[slot[w]] = 0
    /\ pc' = [pc EXCEPT ![w] = "run"]
    /\ UNCHANGED <<others, mring, next_task_id, cur_task_id, slot, ready, done, hits>>

\* Faulty: the last one is not waited for.
AllButOneArrived(counts, s) == counts[s] + 2 >= Workers

\* Faulty: worker 0, which does not count itself, is waited for as well.
AllCounted(counts, s) == counts[s] = Workers

\* Barrier::here() of worker 0: wait for all others and release them.
AllArrived(counts, s) == counts[s] + 1 = Workers

LeadReady ==
    /\ pc[0] = "lead_ready" /\ AllArrived(ready, slot[0])
    /\ ready' = [ready EXCEPT ![slot[0]] = 0]
    /\ pc' = [pc EXCEPT ![0] = "advance"]
    /\ UNCHANGED <<others, mring, next_task_id, cur_task_id, slot, done, hits>>

Advance ==
    /\ pc[0] = "advance"
    /\ next_task_id' = (slot[0] + 1) % Len0
    /\ pc' = [pc EXCEPT ![0] = "run"]
    /\ UNCHANGED <<others, mring, cur_task_id, slot, ready, done, hits>>

\* The share of the current task is processed.
Run(w) ==
    /\ pc[w] = "run"
    /\ slot' = [slot EXCEPT ![w] = cur_task_id]
    /\ LET mine == work[cur_task_id][w]
           Hit(i) == cur_task_id \notin shared /\ mine.begin <= i /\ i < mine.begin + mine.num
       IN hits' = [hits EXCEPT ![cur_task_id] = [i \in DOMAIN @ |-> @[i] + Bit(Hit(i))]]
    /\ pc' = [pc EXCEPT ![w] = IF w = 0 THEN "lead_done" ELSE "arrive_done"]
    /\ UNCHANGED <<others, mring, next_task_id, cur_task_id, ready, done>>

ArriveDone(w) ==
    /\ pc[w] = "arrive_done"
    /\ done' = [done EXCEPT ![slot[w]] = @ + 1]
    /\ pc' = [pc EXCEPT ![w] = "spin_done"]
    /\ UNCHANGED <<others, mring, next_task_id, cur_task_id, slot, ready, hits>>

LeaveDone(w) ==
    /\ pc[w] = "spin_done" /\ done[slot[w]] = 0
    /\ pc' = [pc EXCEPT ![w] = "top"]
    /\ UNCHANGED <<others, mring, next_task_id, cur_task_id, slot, ready, done, hits>>

LeadDone ==
    /\ pc[0] = "lead_done" /\ AllArrived(done, slot[0])
    /\ done' = [done EXCEPT ![slot[0]] = 0]
    /\ pc' = [pc EXCEPT ![0] = "post"]
    /\ UNCHANGED <<others, mring, next_task_id, cur_task_id, slot, ready, hits>>

\* Faulty: the slot is read again, where worker 0 has advanced it.
SignalNext ==
    /\ pc[0] = "post"
    /\ mring' = [mring EXCEPT ![slot[0]] = "d2h"]
    /\ toHost' = Append(toHost, next_task_id)
    /\ pc' = [pc EXCEPT ![0] = "top"]
    /\ UNCHANGED <<hostVars, hring, toMic, item, masterVars, shared,
                   next_task_id, cur_task_id, slot, ready, done, hits>>

\* Results are written back and the host is signalled.
SignalHost ==
    /\ pc[0] = "post"
    /\ mring' = [mring EXCEPT ![slot[0]] = "d2h"]
    /\ toHost' = Append(toHost, slot[0])
    /\ pc' = [pc EXCEPT ![0] = "top"]
    /\ UNCHANGED <<hostVars, hring, toMic, item, masterVars, shared,
                   next_task_id, cur_task_id, slot, ready, done, hits>>

-----------------------------------------------------------------------------

Worker(w) ==
    \/ Top(w)
    \/ w = 0 /\ (PollReady \/ LeadReady \/ Advance \/ LeadDone \/ SignalHost)
    \/ w # 0 /\ (ArriveReady(w) \/ LeaveReady(w) \/ ArriveDone(w) \/ LeaveDone(w))
    \/ Run(w)

Master == MasterSplit \/ MasterNotify
Poll == TakeBack \/ Requeue
Host == Wait \/ (\E n \in Items : Offload(n) \/ Resume(n)) \/ SignalMic \/ Poll

Next ==
    \/ Host \/ Master \/ ArriveMic \/ ArriveHost
    \/ \E w \in Tids : Worker(w)

Spec == Init /\ [][Next]_vars

\* All threads spin and are never blocked; what was signalled arrives.
Fairness ==
    /\ WF_vars(SignalMic) /\ WF_vars(Poll) /\ WF_vars(Master)
    /\ WF_vars(ArriveMic) /\ WF_vars(ArriveHost)
    /\ \A w \in Tids : WF_vars(Worker(w))

FairSpec == Spec /\ Fairness

-----------------------------------------------------------------------------

\* When the host sees a slot complete, every item of the task in it was processed by
\* exactly one worker, and nothing beyond its items was, whatever happens to the other
\* slots.  Two tasks that share a slot overwrite each other's items, before this task or
\* after it.
ResultsComplete ==
    \A s \in Slots \ shared :
        hring[s] = "d2h" /\ Count(Ids(launched), s) = 0 =>
            \A k \in DOMAIN Untouched : hits[s][k] = Bit(k < item[s])

\* The workers between the two barriers are at the same task: the slot whose barrier
\* released them, read from next_task_id, is the one they process, read from
\* cur_task_id, however slow a worker is.  The master is not splitting into it, unless
\* the host gave two tasks the slot.
Released(w) ==
    \/ pc[w] \in {"run", "arrive_done", "lead_done"}
    \/ pc[w] = "spin_ready" /\ ready[slot[w]] = 0
OneTaskAtATime ==
    \A w \in Tids : Released(w) =>
        /\ slot[w] = cur_task_id
        /\ mpc = "notify" /\ mcur = cur_task_id => cur_task_id \in shared

\* The host takes a task back only when the slot of this task was completed, which
\* is what poll_output_finished() is asked.
TakenWhenDone ==
    [][\A i \in DOMAIN doneQ :
          (\A j \in DOMAIN doneQ' : doneQ'[j] # doneQ[i]) => hring[doneQ[i].id] = "d2h"]_vars

\* Unless tasks share a slot, a task in the slot that is next completes.
SlotReturns ==
    [](shared = {}) => \A s \in Slots : (Turn = s /\ Owed[s] > 0) ~> (Owed[s] = 0)

\* The device is a server that completes the slots in turn, never one without a task, and
\* drops a task only at a slot that several share.
Server == INSTANCE SlotServer WITH owed <- Owed, turn <- Turn
ServerSpec == Server!Spec

=============================================================================
