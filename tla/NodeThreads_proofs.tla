-------------------------- MODULE NodeThreads_proofs --------------------------
(***************************************************************************)
(* Proofs about NodeThreads for any number of I/O threads: start-up and    *)
(* the end happen in order, and no report and no packet is lost.           *)
(***************************************************************************)
EXTENDS NodeThreads, Counting_proofs

IoPcs == {"none", "start", "ready", "asleep"} \cup Running \cup {"freed"}

TypeInv ==
    /\ mpc \in {"spawn", "device", "graph", "offloadables", "per_thread", "launch",
                "io", "returned"}
    /\ cpc \in {"none", "device", "ready", "offloadables", "initialised", "loop", "done"}
    /\ current \in [Barriers -> Nat]
    /\ ipc \in [IoThreads -> IoPcs]
    /\ hpc \in {"none", "wait", "terminated"}

\* A barrier that somebody can pass was passed on by the thread that does so, which
\* is then behind the step that the other one waits for.
BarrierInv ==
    /\ \A b \in woken : current[b] >= 1
    /\ mpc = "spawn" <=> cpc = "none"
    /\ current["thread_init_done"] >= 1 => cpc \notin {"none", "device"}
    /\ current["offloadable_init"] >= 1 => mpc \notin {"spawn", "device", "graph"}
    /\ current["offloadable_init_done"] >= 1 => cpc \in {"initialised", "loop", "done"}
    /\ current["loopstart"] >= 1 => mpc \in {"launch", "io", "returned"}

StartInv ==
    /\ mpc \notin {"spawn", "device"} => cpc \notin {"none", "device"}
    /\ cpc \in {"offloadables", "initialised", "loop", "done"} => mpc \notin {"spawn", "device", "graph"}
    /\ mpc \in {"per_thread", "launch", "io", "returned"} => cpc \in {"initialised", "loop", "done"}
    /\ cpc \in {"loop", "done"} => mpc \in {"launch", "io", "returned"}

\* Nobody runs before the first thread has set up the watcher, and the first thread
\* ends behind all others, since the handler on top of it waits for them.
RunInv ==
    /\ mpc \notin {"io", "returned"} => \A t \in IoThreads : ipc[t] = "none"
    /\ initDone => watcher
    /\ ipc[Master] \in {"ready", "freed"} \cup Running => watcher
    /\ \A t \in IoThreads : ipc[t] \in {"freed"} \cup Running => watcher
    /\ hpc # "none" => \A t \in IoThreads : ipc[t] \notin {"none", "start", "ready", "asleep"}
    /\ hpc = "none" => term = {}
    /\ hpc = "terminated" => \A t \in Workers : ipc[t] = "freed"
    /\ ipc[Master] = "freed" => hpc = "terminated"

Inv == TypeInv /\ BarrierInv /\ StartInv /\ RunInv

\* A fresh start: no thread runs and no barrier was passed.
LEMMA InvInit == Init => Inv
  BY NodeAssumption
  DEF Init, Inv, TypeInv, BarrierInv, StartInv, RunInv, Barriers, IoPcs, Running, Workers

\* Whoever gets past a barrier finds that it was passed on, signalled or not.
LEMMA PassedCounts ==
    ASSUME Inv, NEW b \in Barriers, Passed(b) PROVE current[b] >= 1
  BY DEF Inv, BarrierInv, Passed

\* Passing a barrier on counts there only, and signals nobody before it counts.
LEMMA ProceedCounts ==
    ASSUME Inv, NEW b \in Barriers, Proceed(b)
    PROVE  /\ current' \in [Barriers -> Nat]
           /\ \A c \in Barriers : c # b => current'[c] = current[c]
           /\ current'[b] >= 1
           /\ \A c \in woken' : current'[c] >= 1
  <1>1. current \in [Barriers -> Nat] /\ \A c \in woken : current[c] >= 1
    BY DEF Inv, TypeInv, BarrierInv
  <1>2. current' = [current EXCEPT ![b] = current[b] + 1] /\ woken' \subseteq woken \cup {b}
    BY DEF Proceed
  <1>3. /\ current' \in [Barriers -> Nat]
        /\ \A c \in Barriers : c # b => current'[c] = current[c]
        /\ current'[b] = current[b] + 1
    BY <1>1, <1>2
  <1>4. current'[b] >= 1
    BY <1>1, <1>3
  <1>5. ASSUME NEW c \in woken' PROVE current'[c] >= 1
    <2>1. CASE c = b
      BY <1>4, <2>1
    <2>2. CASE c # b
      BY <1>1, <1>2, <2>2
    <2> QED BY <2>1, <2>2
  <1> QED BY <1>3, <1>4, <1>5

\* The main thread's steps of start-up, one by one.
LEMMA MainStep == Inv /\ Main => Inv'
  <1> SUFFICES ASSUME Inv, Main PROVE Inv'
    OBVIOUS
  <1> USE DEF Inv, TypeInv, BarrierInv, StartInv
  <1>b. /\ "thread_init_done" \in Barriers /\ "offloadable_init" \in Barriers
        /\ "offloadable_init_done" \in Barriers /\ "loopstart" \in Barriers
    BY DEF Barriers
  <1>1. (TypeInv /\ BarrierInv /\ StartInv)'
    <2>0. UNCHANGED <<ipc, hpc>>
      BY DEF Main, ending
    <2>1. CASE /\ mpc = "spawn" /\ mpc' = "device" /\ cpc' = "device"
               /\ UNCHANGED <<current, asleep, woken>>
      BY <1>b, <2>0, <2>1
    <2>2. CASE UNCHANGED <<mpc, cpc, current, woken>>
      BY <1>b, <2>0, <2>2
    <2>3. CASE /\ mpc = "device" /\ Passed("thread_init_done") /\ mpc' = "graph"
               /\ UNCHANGED <<cpc, current, asleep, woken>>
      BY <1>b, <2>0, <2>3, PassedCounts
    <2>4. CASE /\ mpc = "graph" /\ mpc' = "offloadables" /\ Proceed("offloadable_init")
               /\ UNCHANGED cpc
      BY <1>b, <2>0, <2>4, ProceedCounts
    <2>5. CASE /\ mpc = "offloadables" /\ Passed("offloadable_init_done")
               /\ mpc' = "per_thread" /\ UNCHANGED <<cpc, current, asleep, woken>>
      BY <1>b, <2>0, <2>5, PassedCounts
    <2>6. CASE /\ mpc = "per_thread" /\ mpc' = "launch" /\ Proceed("loopstart")
               /\ UNCHANGED cpc
      BY <1>b, <2>0, <2>6, ProceedCounts
    <2> QED BY <2>1, <2>2, <2>3, <2>4, <2>5, <2>6 DEF Main, Sleep
  <1>2. RunInv'
    BY DEF Main, RunInv, shared, counters, ending, seen, Sleep, Proceed, Passed, Running
  <1> QED BY <1>1, <1>2

\* The coprocessor thread's steps of start-up, and its end.
LEMMA CoprocStep == Inv /\ (Coproc \/ CoprocTerminate) => Inv'
  <1> SUFFICES ASSUME Inv, Coproc \/ CoprocTerminate PROVE Inv'
    OBVIOUS
  <1> USE DEF Inv, TypeInv, BarrierInv, StartInv
  <1>b. /\ "thread_init_done" \in Barriers /\ "offloadable_init" \in Barriers
        /\ "offloadable_init_done" \in Barriers /\ "loopstart" \in Barriers
    BY DEF Barriers
  <1>1. (TypeInv /\ BarrierInv /\ StartInv)'
    <2>0. UNCHANGED <<mpc, ipc, hpc>>
      BY DEF Coproc, CoprocTerminate, ending
    <2>1. CASE cpc = "device" /\ cpc' = "ready" /\ Proceed("thread_init_done")
      BY <1>b, <2>0, <2>1, ProceedCounts
    <2>2. CASE UNCHANGED <<cpc, current, woken>>
      BY <1>b, <2>0, <2>2
    <2>3. CASE /\ cpc = "ready" /\ Passed("offloadable_init") /\ cpc' = "offloadables"
               /\ UNCHANGED <<current, asleep, woken>>
      BY <1>b, <2>0, <2>3, PassedCounts
    <2>4. CASE /\ cpc = "offloadables" /\ cpc' = "initialised"
               /\ Proceed("offloadable_init_done")
      BY <1>b, <2>0, <2>4, ProceedCounts
    <2>5. CASE /\ cpc = "initialised" /\ Passed("loopstart") /\ cpc' = "loop"
               /\ UNCHANGED <<current, asleep, woken>>
      BY <1>b, <2>0, <2>5, PassedCounts
    <2>6. CASE cpc = "loop" /\ cpc' = "done" /\ UNCHANGED <<current, woken>>
      BY <1>b, <2>0, <2>6
    <2> QED BY <2>1, <2>2, <2>3, <2>4, <2>5, <2>6 DEF Coproc, CoprocTerminate, Sleep
  <1>2. RunInv'
    BY DEF Coproc, CoprocTerminate, RunInv, shared, counters, ending, seen, Sleep, Proceed
  <1> QED BY <1>1, <1>2

\* Everything behind it leaves the barriers and the coprocessor thread alone.
LEMMA StartKept ==
    ASSUME Inv, UNCHANGED <<cpc, current, woken>>,
           UNCHANGED mpc \/ (mpc \in {"launch", "io"} /\ mpc' \in {"io", "returned"})
    PROVE  (BarrierInv /\ StartInv)'
  BY DEF Inv, TypeInv, BarrierInv, StartInv, Barriers

\* A step of an I/O thread's own loop.
LEMMA IoStep == ASSUME Inv, NEW t \in IoThreads, IoThread(t) PROVE Inv'
  <1> USE DEF Inv
  <1>1. UNCHANGED <<mpc, cpc, current, woken, hpc, term, initDone, watcher>>
    BY DEF IoThread, WorkerInit, Receive, Report, IncrementFlag, SendMaster, Terminate,
           starting, shared, counters, ending, seen
  <1>2. (BarrierInv /\ StartInv)'
    BY <1>1, StartKept
  <1>3. /\ ipc' \in [IoThreads -> IoPcs]
        /\ \A u \in IoThreads : u # t => ipc'[u] = ipc[u]
        /\ ipc[t] \notin {"none", "ready", "asleep", "freed"}
        /\ ipc'[t] \notin {"none", "start", "ready"}
        /\ ipc'[t] = "asleep" => ipc[t] = "start"
        /\ ipc[t] = "start" /\ ipc'[t] # "asleep" => t # Master /\ initDone
        /\ ipc'[t] = "freed" => ipc[t] = "poll" /\ t \in term /\ (t = Master => hpc # "wait")
    BY DEF IoThread, WorkerInit, Receive, Report, IncrementFlag, SendMaster, Terminate,
           TypeInv, IoPcs, Running, After, MayStart, Runs
  <1>4. TypeInv'
    BY <1>1, <1>3 DEF TypeInv
  <1>5. RunInv'
    BY <1>1, <1>3, NodeAssumption DEF RunInv, TypeInv, IoPcs, Running, Workers
  <1> QED BY <1>2, <1>4, <1>5

\* The first I/O thread sets up the watcher, lets the others go, and collects.
LEMMA MasterStep == Inv /\ MasterThread => Inv'
  <1> SUFFICES ASSUME Inv, MasterThread PROVE Inv'
    OBVIOUS
  <1> USE DEF Inv
  <1>1. UNCHANGED <<mpc, cpc, current, woken, hpc, term>>
    BY DEF MasterThread, MasterInit, MasterReady, NodeStat, Compare, PrintTotal,
           starting, shared, counters, ending, seen
  <1>2. (BarrierInv /\ StartInv)'
    BY <1>1, StartKept
  <1>3. CASE MasterInit
    BY <1>1, <1>2, <1>3, NodeAssumption DEF MasterInit, TypeInv, RunInv, IoPcs, Running, Workers
  <1>4. CASE MasterReady
    BY <1>1, <1>2, <1>4, NodeAssumption DEF MasterReady, TypeInv, RunInv, IoPcs, Running, Workers
  <1>5. CASE NodeStat \/ Compare \/ PrintTotal
    <2>1. /\ ipc' \in [IoThreads -> IoPcs]
          /\ \A u \in IoThreads : u # Master => ipc'[u] = ipc[u]
          /\ ipc[Master] \in Running /\ ipc'[Master] \in Running
      BY <1>5, NodeAssumption DEF NodeStat, Compare, PrintTotal, TypeInv, IoPcs, Running
    <2>2. UNCHANGED <<initDone, watcher>>
      BY <1>5 DEF NodeStat, Compare, PrintTotal, shared
    <2> QED BY <1>1, <1>2, <2>1, <2>2, NodeAssumption DEF TypeInv, RunInv, IoPcs, Running, Workers
  <1> QED BY <1>3, <1>4, <1>5 DEF MasterThread

\* The start of the I/O threads and their end by a signal.
LEMMA EndStep == Inv /\ (Launch \/ HandleSignal \/ HandlerReturns \/ MainReturns) => Inv'
  <1> SUFFICES ASSUME Inv, Launch \/ HandleSignal \/ HandlerReturns \/ MainReturns PROVE Inv'
    OBVIOUS
  <1> USE DEF Inv
  <1>1. (BarrierInv /\ StartInv)'
    BY StartKept DEF Launch, HandleSignal, HandlerReturns, MainReturns, starting
  <1>2. CASE Launch
    BY <1>1, <1>2, NodeAssumption DEF Launch, TypeInv, RunInv, IoPcs, Running, Workers, shared, ending
  <1>3. CASE HandleSignal \/ HandlerReturns
    BY <1>1, <1>3, NodeAssumption
    DEF HandleSignal, HandlerReturns, LcoresDone, TypeInv, RunInv, IoPcs, Running, Workers, shared, starting
  <1>4. CASE MainReturns
    BY <1>1, <1>4 DEF MainReturns, TypeInv, RunInv, shared, ending
  <1> QED BY <1>2, <1>3, <1>4

\* Steps of no thread of the node.
LEMMA StutterStep == Inv /\ UNCHANGED vars => Inv'
  BY DEF Inv, TypeInv, BarrierInv, StartInv, RunInv, vars, starting, shared, counters, ending, seen

\* The invariant holds in every state: every step of every thread keeps it.
LEMMA InvCorrect == Spec => []Inv
  <1>1. Init => Inv
    BY InvInit
  <1>2. Inv /\ [Next]_vars => Inv'
    BY MainStep, CoprocStep, IoStep, MasterStep, EndStep, StutterStep
    DEF Next, MainThread, CoprocThread
  <1> QED BY <1>1, <1>2, PTL DEF Spec

\* Ordered: start-up is serialized, nobody runs before the watcher of the node's master
\* is there, and the master's context outlives every thread that uses it.
THEOREM OrderCorrect == Spec => []Ordered
  <1>1. Inv => Ordered
    BY NodeAssumption DEF Inv, TypeInv, StartInv, RunInv, Ordered, Running, Workers
  <1> QED BY <1>1, InvCorrect, PTL

-----------------------------------------------------------------------------

\* The flag is the number of reports that nobody has looked at, and starts with the
\* watcher; the last of them is on its way.
CountInv ==
    /\ flag \in 0..(Wrap - 1) /\ unseen \in Nat
    /\ ~watcher => unseen = 0
    /\ ipc[Master] \in {"none", "start"} => ~watcher
    /\ ReportsCounted

\* A node has threads, and the flag more values than they are.
LEMMA SomeThreads == NThreads \in 1..(Wrap - 1) /\ Wrap \in Nat
  <1>1. IsFiniteSet(IoThreads) /\ IoThreads # {}
    BY NodeAssumption
  <1>2. NThreads \in Nat /\ NThreads # 0
    BY <1>1, FS_CardinalityType, FS_EmptySet DEF NThreads
  <1> QED BY <1>2, NodeAssumption

\* A quotient and a remainder determine each other.
LEMMA Remainder ==
    ASSUME NEW w \in Nat, w > 0, NEW n \in Nat, NEW q \in Int, NEW r \in 0..(w - 1), n = w * q + r
    PROVE  n % w = r
  BY SMTT(30)

LEMMA Quotient ==
    ASSUME NEW w \in Nat, w > 0, NEW n \in Nat, NEW q \in Int, q = n \div w,
           NEW r \in Int, r = n % w
    PROVE  n = w * q + r /\ r \in 0..(w - 1)
  BY SMTT(30)

\* One more counts once, also when the counter wraps.
LEMMA OneMore ==
    ASSUME NEW w \in Nat, w > 0, NEW n \in Nat PROVE ((n % w) + 1) % w = (n + 1) % w
  <1>1. PICK q \in Int : q = n \div w
    BY SMT
  <1>2. PICK r \in Int : r = n % w
    BY SMT
  <1>3. n = w * q + r /\ r \in 0..(w - 1)
    BY <1>1, <1>2, Quotient
  <1>4. CASE r + 1 < w
    <2>1. r + 1 \in 0..(w - 1) /\ n + 1 \in Nat /\ r + 1 \in Nat
          /\ n + 1 = w * q + (r + 1) /\ r + 1 = w * 0 + (r + 1)
      BY <1>3, <1>4
    <2>2. /\ (n + 1) % w = r + 1
          /\ (r + 1) % w = r + 1
      <3>1. PICK m \in Nat : m = n + 1
        BY SMT
      <3>2. PICK s \in 0..(w - 1) : s = r + 1
        BY <2>1
      <3>3. m = w * q + s /\ s \in Nat /\ s = w * 0 + s
        BY <2>1, <3>1, <3>2
      <3>4. m % w = s
        BY <3>3, Remainder
      <3>5. s % w = s
        BY <3>3, Remainder
      <3> QED BY <3>1, <3>2, <3>4, <3>5
    <2> QED BY <1>2, <2>2
  <1>5. CASE r + 1 = w
    <2>1. 0 \in 0..(w - 1) /\ n + 1 \in Nat /\ r + 1 \in Nat /\ q + 1 \in Int
      BY <1>3, <1>5
    <2>2. w * (q + 1) = w * q + w /\ w * 1 = w
      BY SMT
    <2>3. n + 1 = w * (q + 1) + 0 /\ r + 1 = w * 1 + 0
      <3>1. PICK p \in Int : p = w * q
        BY SMT
      <3>2. n = p + r /\ w * (q + 1) = p + w
        BY <1>3, <2>2, <3>1
      <3> QED BY <1>5, <2>2, <3>1, <3>2
    <2>4. (n + 1) % w = 0 /\ (r + 1) % w = 0
      BY <2>1, <2>3, Remainder
    <2> QED BY <1>2, <2>4
  <1> QED BY <1>3, <1>4, <1>5

\* A report that is counted keeps the count.
LEMMA CountIncrement ==
    ASSUME Inv, CountInv, NEW t \in IoThreads, IncrementFlag(t) PROVE CountInv'
  <1>1. /\ flag' = (flag + 1) % Wrap /\ unseen' = unseen + 1 /\ watcher' = watcher
        /\ ipc[t] = "inc" /\ ipc' = [ipc EXCEPT ![t] = "send"]
    BY DEF IncrementFlag, After
  <1>2. watcher
    BY <1>1 DEF Inv, RunInv, Running
  <1>3. flag' \in 0..(Wrap - 1) /\ unseen' \in Nat /\ flag' = unseen' % Wrap
    <2>1. Wrap \in Nat /\ Wrap > 0 /\ unseen \in Nat /\ flag = unseen % Wrap
      BY <1>2, SomeThreads DEF CountInv, ReportsCounted
    <2>2. ((unseen % Wrap) + 1) % Wrap = (unseen + 1) % Wrap
      BY <2>1, OneMore
    <2>3. (unseen + 1) % Wrap \in 0..(Wrap - 1)
      BY <2>1
    <2> QED BY <1>1, <2>1, <2>2, <2>3
  <1>4. ipc'[t] = "send" /\ (ipc'[Master] \in {"none", "start"} => ipc'[Master] = ipc[Master])
    BY <1>1, NodeAssumption DEF Inv, TypeInv
  <1> QED BY <1>1, <1>2, <1>3, <1>4 DEF CountInv, ReportsCounted

\* The other steps of a worker leave the count alone.
LEMMA CountOther ==
    ASSUME Inv, CountInv, NEW t \in IoThreads,
           WorkerInit(t) \/ Receive(t) \/ Report(t) \/ SendMaster(t) \/ Terminate(t)
    PROVE  CountInv'
  <1>1. UNCHANGED <<flag, unseen, watcher>> /\ (async => async')
    BY DEF WorkerInit, Receive, Report, SendMaster, Terminate, shared, seen, counters
  <1>2. /\ \A u \in IoThreads : u # t => ipc'[u] = ipc[u]
        /\ ipc[t] = "send" => async'
        /\ ipc'[t] \notin {"none", "start"}
        /\ ipc[t] \in {"compare", "freed"} => ipc'[t] = ipc[t]
    BY DEF WorkerInit, Receive, Report, SendMaster, Terminate, After, Inv, TypeInv, IoPcs, Running
  <1> QED BY <1>1, <1>2, NodeAssumption DEF CountInv, ReportsCounted

\* The master's steps: the watcher and a comparison start the count afresh.
LEMMA CountMaster == ASSUME Inv, CountInv, MasterThread PROVE CountInv'
  <1>1. CASE MasterInit
    <2>1. /\ flag' = 0 /\ watcher' /\ unseen' = unseen /\ unseen = 0
          /\ ipc'[Master] = "ready"
      BY <1>1, NodeAssumption DEF MasterInit, seen, CountInv, Inv, TypeInv
    <2>2. 0 % Wrap = 0 /\ 0 \in 0..(Wrap - 1) /\ NThreads # 0
      BY SomeThreads
    <2> QED BY <2>1, <2>2 DEF CountInv, ReportsCounted
  <1>2. CASE MasterReady
    <2>1. /\ UNCHANGED <<flag, unseen, watcher, async>>
          /\ ipc[Master] = "ready" /\ ipc'[Master] = "poll"
          /\ \A t \in IoThreads : ipc[t] = "send" => ipc'[t] = "send"
      BY <1>2, NodeAssumption DEF MasterReady, seen
    <2> QED BY <2>1 DEF CountInv, ReportsCounted
  <1>3. CASE NodeStat
    <2>1. UNCHANGED <<flag, unseen, watcher>> /\ ipc'[Master] = "compare"
      BY <1>3, NodeAssumption DEF NodeStat, seen, Inv, TypeInv
    <2> QED BY <2>1 DEF CountInv, ReportsCounted
  <1>4. CASE Compare
    <2>1. /\ UNCHANGED <<watcher, async>>
          /\ ipc[Master] = "compare" /\ ipc'[Master] \in {"print", "poll"}
          /\ \A t \in IoThreads : t # Master => ipc'[t] = ipc[t]
      BY <1>4, NodeAssumption DEF Compare, Inv, TypeInv
    <2>2. CASE flag = NThreads
      <3>1. flag' = 0 /\ unseen' = 0
        BY <1>4, <2>2 DEF Compare
      <3>2. 0 % Wrap = 0 /\ 0 \in 0..(Wrap - 1) /\ NThreads # 0
        BY SomeThreads
      <3> QED BY <2>1, <3>1, <3>2 DEF CountInv, ReportsCounted
    <2>3. CASE flag # NThreads
      <3>1. UNCHANGED <<flag, unseen>>
        BY <1>4, <2>3 DEF Compare
      <3> QED BY <2>1, <2>3, <3>1 DEF CountInv, ReportsCounted
    <2> QED BY <2>2, <2>3
  <1>5. CASE PrintTotal
    <2>1. /\ UNCHANGED <<flag, unseen, watcher, async>>
          /\ ipc[Master] = "print" /\ ipc'[Master] = "poll"
          /\ \A t \in IoThreads : t # Master => ipc'[t] = ipc[t]
      BY <1>5, NodeAssumption DEF PrintTotal, shared, seen, Inv, TypeInv
    <2> QED BY <2>1 DEF CountInv, ReportsCounted
  <1> QED BY <1>1, <1>2, <1>3, <1>4, <1>5 DEF MasterThread

\* Nobody else touches the count.
LEMMA CountRest ==
    ASSUME Inv, CountInv,
           \/ MainThread \/ CoprocThread \/ HandleSignal \/ UNCHANGED vars
    PROVE  CountInv'
  <1>1. UNCHANGED <<flag, unseen, watcher, async>>
    BY DEF MainThread, Main, Launch, HandlerReturns, MainReturns, CoprocThread, Coproc,
           CoprocTerminate, HandleSignal, shared, seen, vars
  <1>2. CASE Launch
    <2>1. mpc = "launch" /\ \A t \in IoThreads : ipc[t] = "none" /\ ipc'[t] = "start"
      BY <1>2 DEF Launch, Inv, RunInv
    <2> QED BY <1>1, <2>1, NodeAssumption DEF CountInv, ReportsCounted
  <1>3. CASE ipc' = ipc
    BY <1>1, <1>3 DEF CountInv, ReportsCounted
  <1>4. Launch \/ ipc' = ipc
    BY DEF MainThread, Main, HandlerReturns, MainReturns, CoprocThread, Coproc,
           CoprocTerminate, HandleSignal, vars
  <1> QED BY <1>2, <1>3, <1>4

\* ReportsCounted: however the reports of any number of threads interleave with each
\* other and with the collector, none is lost, and the last of as many as there are
\* threads finds the master about to look.
THEOREM ReportsCorrect == Spec => []ReportsCounted
  <1>1. Init => CountInv
    BY NodeAssumption, SomeThreads DEF Init, CountInv, ReportsCounted
  <1>2. Inv /\ CountInv /\ [Next]_vars => CountInv'
    BY CountIncrement, CountOther, CountMaster, CountRest DEF Next, IoThread
  <1>3. CountInv => ReportsCounted
    BY DEF CountInv
  <1> QED BY <1>1, <1>2, <1>3, InvCorrect, PTL DEF Spec
-----------------------------------------------------------------------------
(* The counters                                                            *)

LEMMA PacketsTotal ==
    MapThenSumSet(LAMBDA t : portStats[t], IoThreads) = Sums(portStats, IoThreads)[IoThreads]
  BY DEF MapThenSumSet, MapThenFoldSet, Sums, Pick

\* What is with the threads and what is collected are the packets that were received.
Collected == packets = Sums(portStats, IoThreads)[IoThreads] + nodeStats

PacketInv ==
    /\ portStats \in [IoThreads -> Nat] /\ nodeStats \in Nat
    /\ lastTotal \in Nat /\ lastTotal <= nodeStats
    /\ Collected

LEMMA PacketsInit ==
    ASSUME Init PROVE PacketInv
  <1>1. /\ portStats \in [IoThreads -> Nat] /\ \A t \in IoThreads : portStats[t] = 0
        /\ nodeStats = 0 /\ lastTotal = 0 /\ packets = 0 /\ IsFiniteSet(IoThreads)
    BY NodeAssumption DEF Init
  <1>2. Sums(portStats, IoThreads)[IoThreads] = 0
    BY <1>1, SumOfZeros
  <1> QED BY <1>1, <1>2 DEF PacketInv, Collected

LEMMA PacketsStep ==
    ASSUME PacketInv, [Next]_vars PROVE PacketInv'
  <1>1. /\ portStats \in [IoThreads -> Nat] /\ portStats \in [IoThreads -> Int]
        /\ nodeStats \in Nat /\ lastTotal \in Nat /\ lastTotal <= nodeStats
        /\ IsFiniteSet(IoThreads)
    BY NodeAssumption DEF PacketInv
  <1>2. PICK total \in Int : total = Sums(portStats, IoThreads)[IoThreads]
    BY <1>1, SumsType
  <1>3. packets = total + nodeStats
    BY <1>2 DEF PacketInv, Collected
  <1>4. ASSUME NEW t \in IoThreads, Receive(t) PROVE PacketInv'
    <2>1. /\ portStats' \in [IoThreads -> Nat] /\ portStats'[t] = portStats[t] + 1
          /\ \A u \in IoThreads : u # t => portStats'[u] = portStats[u]
          /\ packets' = packets + 1 /\ UNCHANGED <<nodeStats, lastTotal>>
      BY <1>1, <1>4 DEF Receive
    <2>2. Sums(portStats', IoThreads)[IoThreads] = total + (portStats'[t] - portStats[t])
      BY <1>1, <1>2, <2>1, SumChanged
    <2>3. portStats'[t] - portStats[t] = 1
      BY <1>1, <2>1
    <2> QED BY <1>1, <1>2, <1>3, <2>1, <2>2, <2>3 DEF PacketInv, Collected
  <1>5. ASSUME NEW t \in IoThreads, Report(t) PROVE PacketInv'
    <2>1. /\ portStats' \in [IoThreads -> Nat] /\ portStats'[t] = 0 /\ portStats[t] \in Nat
          /\ \A u \in IoThreads : u # t => portStats'[u] = portStats[u]
          /\ nodeStats' = nodeStats + portStats[t] /\ UNCHANGED <<packets, lastTotal>>
      BY <1>1, <1>5 DEF Report, AddAndClear
    <2>2. Sums(portStats', IoThreads)[IoThreads] = total + (portStats'[t] - portStats[t])
      BY <1>1, <1>2, <2>1, SumChanged
    <2>3. nodeStats' \in Nat /\ lastTotal <= nodeStats'
      BY <1>1, <2>1
    <2>4. (total + (portStats'[t] - portStats[t])) + nodeStats' = total + nodeStats
      BY <1>1, <1>2, <2>1
    <2> QED BY <1>1, <1>3, <2>1, <2>2, <2>3, <2>4 DEF PacketInv, Collected
  <1>6. CASE PrintTotal
    BY <1>1, <1>6 DEF PrintTotal, PacketInv, Collected
  <1>7. ASSUME ~PrintTotal, ~\E t \in IoThreads : Receive(t) \/ Report(t)
        PROVE  UNCHANGED counters
    BY <1>7 DEF Next, MainThread, Main, Launch, HandlerReturns, MainReturns, CoprocThread, Coproc,
         CoprocTerminate, MasterThread, MasterInit, MasterReady, NodeStat, Compare, HandleSignal,
         IoThread, WorkerInit, IncrementFlag, SendMaster, Terminate, counters, vars
  <1>8. CASE UNCHANGED counters
    BY <1>8 DEF counters, PacketInv, Collected
  <1> QED BY <1>4, <1>5, <1>6, <1>7, <1>8

\* PacketsCounted: no packet is lost or counted twice between the counters of any number
\* of threads and the node's, and a printed difference is not negative.
THEOREM PacketsCorrect == Spec => []PacketsCounted
  <1>1. Init => PacketInv
    BY PacketsInit
  <1>2. PacketInv /\ [Next]_vars => PacketInv'
    BY PacketsStep
  <1>3. PacketInv => PacketsCounted
    BY PacketsTotal DEF PacketInv, Collected, PacketsCounted
  <1> QED BY <1>1, <1>2, <1>3, PTL DEF Spec

=============================================================================
