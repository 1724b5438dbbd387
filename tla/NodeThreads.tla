---------------------------- MODULE NodeThreads ----------------------------
(***************************************************************************)
(* The threads of one NUMA node, from main() to the end of the program: how *)
(* the main thread and the coprocessor thread start up in turns, how the    *)
(* I/O threads wait for the first one among them, which runs in the main    *)
(* thread, how they report their counters to it, and how a signal ends them.*)
(*                                                                         *)
(* One port and one counter stand for all.  A signal comes when every       *)
(* thread runs its loop; handle_signal() would use loops that do not exist  *)
(* yet if it came earlier.  Condition variables have no spurious wakeups.   *)
(***************************************************************************)
EXTENDS Integers, FiniteSets, FiniteSetsExt

CONSTANTS
    IoThreads, Master,    \* I/O threads of the node, and its first one
    MaxPackets,           \* bound: packets the threads receive
    MaxReports,           \* bound: reports of the threads
    Wrap                  \* values of the 16-bit flag

Workers == IoThreads \ {Master}
NThreads == Cardinality(IoThreads)

ASSUME NodeAssumption ==
    /\ IsFiniteSet(IoThreads) /\ Master \in IoThreads
    /\ MaxPackets \in Nat /\ MaxReports \in Nat
    /\ Wrap \in Nat /\ NThreads < Wrap

Barriers == {"thread_init_done", "offloadable_init", "offloadable_init_done", "loopstart"}

VARIABLES
    mpc,        \* main(): the step it is at
    cpc,        \* coproc_loop()
    current,    \* of the barriers
    asleep,     \* barriers somebody sleeps at
    woken,      \* barriers whose sleeper was signalled
    ipc,        \* io_loop() of the threads
    initDone,   \* init_done
    watcher,    \* has node_stat_watcher been initialised and started?
    flag,       \* node_master_flag
    async,      \* was node_stat_watcher sent?
    portStats,  \* port_stats of the threads
    nodeStats,  \* node_stat->port_stats
    lastTotal,  \* node_stat->last_total
    hpc,        \* handle_signal()
    term,       \* threads whose terminate_watcher was sent
    packets, reports, unseen    \* what happened, for the properties

starting == <<mpc, cpc, current, asleep, woken>>
shared   == <<initDone, watcher, flag, async>>
counters == <<portStats, nodeStats, lastTotal, packets>>
ending   == <<hpc, term>>
seen     == <<reports, unseen>>
vars == <<starting, ipc, shared, counters, ending, seen>>

\* What rte_malloc_socket() returns for the flag is not set until io_loop().
Init ==
    /\ mpc = "spawn" /\ cpc = "none"
    /\ current = [b \in Barriers |-> 0] /\ asleep = {} /\ woken = {}
    /\ ipc = [t \in IoThreads |-> "none"]
    /\ initDone = FALSE /\ watcher = FALSE /\ flag \in {0, Wrap - 1} /\ async = FALSE
    /\ portStats = [t \in IoThreads |-> 0] /\ nodeStats = 0 /\ lastTotal = 0
    /\ hpc = "none" /\ term = {}
    /\ packets = 0 /\ reports = 0 /\ unseen = 0

-----------------------------------------------------------------------------
(* CountedBarrier, of one: wait() does not look again after it was signalled *)

\* Faulty: nobody counts, so that it matters who comes first.
SignalOnly(b) ==
    /\ woken' = IF b \in asleep THEN woken \cup {b} ELSE woken
    /\ UNCHANGED <<current, asleep>>

Proceed(b) ==
    /\ current' = [current EXCEPT ![b] = @ + 1]
    /\ woken' = IF b \in asleep THEN woken \cup {b} ELSE woken
    /\ UNCHANGED asleep

Sleep(b) ==
    /\ current[b] < 1 /\ b \notin asleep
    /\ asleep' = asleep \cup {b}
    /\ UNCHANGED <<mpc, cpc, current, woken>>

\* Faulty: the count is not looked at.
Unless(b) == b \notin asleep \/ b \in woken

Passed(b) == (b \notin asleep /\ current[b] >= 1) \/ b \in woken

-----------------------------------------------------------------------------
(* Start-up of the main thread and the coprocessor thread                  *)

\* Building the graph and initialising it is done before the offloadable elements
\* are initialised for the device, and per-thread initialisation comes after it.
Main ==
    /\ UNCHANGED <<ipc, shared, counters, ending, seen>>
    /\ \/ /\ mpc = "spawn" /\ mpc' = "device"
          /\ cpc' = "device"
          /\ UNCHANGED <<current, asleep, woken>>
       \/ mpc = "device" /\ Sleep("thread_init_done")
       \/ /\ mpc = "device" /\ Passed("thread_init_done")
          /\ mpc' = "graph"
          /\ UNCHANGED <<cpc, current, asleep, woken>>
       \/ /\ mpc = "graph" /\ mpc' = "offloadables"
          /\ Proceed("offloadable_init")
          /\ UNCHANGED cpc
       \/ mpc = "offloadables" /\ Sleep("offloadable_init_done")
       \/ /\ mpc = "offloadables" /\ Passed("offloadable_init_done")
          /\ mpc' = "per_thread"
          /\ UNCHANGED <<cpc, current, asleep, woken>>
       \/ /\ mpc = "per_thread" /\ mpc' = "launch"
          /\ Proceed("loopstart")
          /\ UNCHANGED cpc

Coproc ==
    /\ UNCHANGED <<mpc, ipc, shared, counters, ending, seen>>
    /\ \/ /\ cpc = "device" /\ cpc' = "ready"
          /\ Proceed("thread_init_done")
       \/ cpc = "ready" /\ Sleep("offloadable_init")
       \/ /\ cpc = "ready" /\ Passed("offloadable_init")
          /\ cpc' = "offloadables"
          /\ UNCHANGED <<current, asleep, woken>>
       \/ /\ cpc = "offloadables" /\ cpc' = "initialised"
          /\ Proceed("offloadable_init_done")
       \/ cpc = "initialised" /\ Sleep("loopstart")
       \/ /\ cpc = "initialised" /\ Passed("loopstart")
          /\ cpc' = "loop"
          /\ UNCHANGED <<current, asleep, woken>>

\* rte_eal_mp_remote_launch(): the main thread becomes the first I/O thread.
Launch ==
    /\ mpc = "launch" /\ mpc' = "io"
    /\ ipc' = [t \in IoThreads |-> "start"]
    /\ UNCHANGED <<cpc, current, asleep, woken, shared, counters, ending, seen>>

-----------------------------------------------------------------------------
(* I/O threads                                                             *)

\* A signal handler runs on top of the main thread.
Runs(t) == t = Master => hpc # "wait"

MasterInit ==
    /\ ipc[Master] = "start"
    /\ ipc' = [ipc EXCEPT ![Master] = "ready"]
    /\ flag' = 0 /\ watcher' = TRUE
    /\ UNCHANGED <<starting, initDone, async, counters, ending, seen>>

MasterReady ==
    /\ ipc[Master] = "ready"
    /\ initDone' = TRUE
    /\ ipc' = [t \in IoThreads |-> IF t = Master THEN "poll"
                                   ELSE IF ipc[t] = "asleep" THEN "start" ELSE ipc[t]]
    /\ UNCHANGED <<starting, watcher, flag, async, counters, ending, seen>>

\* Faulty: others do not wait for the first one.
StartAtOnce == TRUE

MayStart == initDone

WorkerInit(t) ==
    /\ t # Master /\ ipc[t] = "start"
    /\ ipc' = [ipc EXCEPT ![t] = IF MayStart THEN "poll" ELSE "asleep"]
    /\ UNCHANGED <<starting, shared, counters, ending, seen>>

Receive(t) ==
    /\ Runs(t) /\ ipc[t] = "poll" /\ packets < MaxPackets
    /\ packets' = packets + 1
    /\ portStats' = [portStats EXCEPT ![t] = @ + 1]
    /\ UNCHANGED <<starting, ipc, shared, nodeStats, lastTotal, ending, seen>>

\* Faulty: the master is informed before the report counts.
SendFirst == [add |-> "send", send |-> "inc", inc |-> "poll"]

After == [add |-> "inc", inc |-> "send", send |-> "poll"]

\* Faulty: the thread's own counters are kept.
AddOnly(t) ==
    /\ nodeStats' = nodeStats + portStats[t]
    /\ UNCHANGED portStats

AddAndClear(t) ==
    /\ nodeStats' = nodeStats + portStats[t]
    /\ portStats' = [portStats EXCEPT ![t] = 0]

\* io_local_stat_timer_cb
Report(t) ==
    /\ Runs(t) /\ ipc[t] = "poll" /\ reports < MaxReports
    /\ AddAndClear(t)
    /\ reports' = reports + 1
    /\ ipc' = [ipc EXCEPT ![t] = After["add"]]
    /\ UNCHANGED <<starting, shared, lastTotal, packets, ending, unseen>>

IncrementFlag(t) ==
    /\ Runs(t) /\ ipc[t] = "inc"
    /\ flag' = (flag + 1) % Wrap /\ unseen' = unseen + 1
    /\ ipc' = [ipc EXCEPT ![t] = After["inc"]]
    /\ UNCHANGED <<starting, initDone, watcher, async, counters, ending, reports>>

SendMaster(t) ==
    /\ Runs(t) /\ ipc[t] = "send"
    /\ async' = TRUE
    /\ ipc' = [ipc EXCEPT ![t] = After["send"]]
    /\ UNCHANGED <<starting, initDone, watcher, flag, counters, ending, seen>>

\* io_node_stat_cb: libev takes the event back before it calls.
NodeStat ==
    /\ Runs(Master) /\ ipc[Master] = "poll" /\ async
    /\ async' = FALSE
    /\ ipc' = [ipc EXCEPT ![Master] = "compare"]
    /\ UNCHANGED <<starting, initDone, watcher, flag, counters, ending, seen>>

Compare ==
    /\ Runs(Master) /\ ipc[Master] = "compare"
    /\ IF flag = NThreads
         THEN flag' = 0 /\ unseen' = 0 /\ ipc' = [ipc EXCEPT ![Master] = "print"]
         ELSE ipc' = [ipc EXCEPT ![Master] = "poll"] /\ UNCHANGED <<flag, unseen>>
    /\ UNCHANGED <<starting, initDone, watcher, async, counters, ending, reports>>

PrintTotal ==
    /\ Runs(Master) /\ ipc[Master] = "print"
    /\ lastTotal' = nodeStats
    /\ ipc' = [ipc EXCEPT ![Master] = "poll"]
    /\ UNCHANGED <<starting, shared, portStats, nodeStats, packets, ending, seen>>

-----------------------------------------------------------------------------
(* The end                                                                 *)

HandleSignal ==
    /\ hpc = "none" /\ cpc = "loop"
    /\ \A t \in IoThreads : ipc[t] \notin {"none", "start", "ready", "asleep"}
    /\ hpc' = "wait"
    /\ term' = IoThreads \cup {"coproc"}
    /\ UNCHANGED <<starting, ipc, shared, counters, seen>>

\* Faulty: rte_eal_mp_wait_lcore() is left out.
NoWait == TRUE

LcoresDone == \A t \in Workers : ipc[t] = "freed"

HandlerReturns ==
    /\ hpc = "wait" /\ LcoresDone
    /\ hpc' = "terminated"
    /\ UNCHANGED <<starting, ipc, shared, counters, term, seen>>

\* io_terminate_cb, and the end of io_loop(): the context is freed.
Terminate(t) ==
    /\ Runs(t) /\ ipc[t] = "poll" /\ t \in term
    /\ ipc' = [ipc EXCEPT ![t] = "freed"]
    /\ UNCHANGED <<starting, shared, counters, ending, seen>>

\* Nobody waits for the coprocessor thread: when main() returns it may still run.
CoprocTerminate ==
    /\ cpc = "loop" /\ "coproc" \in term /\ mpc # "returned"
    /\ cpc' = "done"
    /\ UNCHANGED <<mpc, current, asleep, woken, ipc, shared, counters, ending, seen>>

MainReturns ==
    /\ mpc = "io" /\ ipc[Master] = "freed" /\ hpc = "terminated"
    /\ mpc' = "returned"
    /\ UNCHANGED <<cpc, current, asleep, woken, ipc, shared, counters, ending, seen>>

IoThread(t) ==
    \/ WorkerInit(t) \/ Receive(t) \/ Report(t) \/ IncrementFlag(t) \/ SendMaster(t)
    \/ Terminate(t)
MasterThread == MasterInit \/ MasterReady \/ NodeStat \/ Compare \/ PrintTotal
MainThread == Main \/ Launch \/ HandlerReturns \/ MainReturns
CoprocThread == Coproc \/ CoprocTerminate

Next ==
    \/ MainThread \/ CoprocThread \/ MasterThread \/ HandleSignal
    \/ \E t \in IoThreads : IoThread(t)

Spec == Init /\ [][Next]_vars

\* Threads run, and an ev_run() of a loop gets to every watcher that is active.
Fairness ==
    /\ WF_vars(MainThread) /\ WF_vars(CoprocThread) /\ WF_vars(MasterThread)
    /\ \A t \in IoThreads : WF_vars(IoThread(t))

FairSpec == Spec /\ Fairness

-----------------------------------------------------------------------------

Running == {"poll", "inc", "send", "compare", "print"}

\* "All these steps MUST be serialized" (main.cc): the graph is built once the
\* device is there, the offloadable elements are initialised for it between the
\* graph and the threads, and nothing runs before that.  I/O threads find the
\* watcher of their master, and at the end the master's context outlives all
\* threads that use its loop.
Ordered ==
    /\ mpc \notin {"spawn", "device"} => cpc \notin {"none", "device"}
    /\ cpc \in {"offloadables", "initialised", "loop"} => mpc \notin {"spawn", "device", "graph"}
    /\ mpc \in {"per_thread", "launch", "io"} => cpc \in {"initialised", "loop", "done"}
    /\ cpc = "loop" => mpc \in {"launch", "io", "returned"}
    /\ \A t \in IoThreads : ipc[t] \in Running => watcher /\ ipc[Master] # "freed"

\* Every report since the counters were last collected counts, and when as many as
\* there are threads have counted, the master is about to look: the last of them
\* is about to inform it, or has.
ReportsCounted ==
    /\ watcher => flag = unseen % Wrap
    /\ watcher /\ flag = NThreads =>
         \/ async \/ ipc[Master] \in {"compare", "freed"}
         \/ \E t \in IoThreads : ipc[t] = "send"

\* No packet is lost or counted twice between the threads' counters and the node's,
\* and the differences that are printed, which are unsigned, are not negative.
PacketsCounted ==
    /\ packets = MapThenSumSet(LAMBDA t : portStats[t], IoThreads) + nodeStats
    /\ lastTotal <= nodeStats

\* All threads get into their loops, whoever comes first at a barrier, and a signal
\* ends the I/O threads and main().
StartsAndStops ==
    /\ <>(cpc = "loop" /\ \A t \in IoThreads : ipc[t] \in Running)
    /\ hpc = "wait" ~> mpc = "returned"

=============================================================================
