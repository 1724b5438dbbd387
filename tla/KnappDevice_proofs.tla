------------------------- MODULE KnappDevice_proofs -------------------------
(***************************************************************************)
(* The barriers of the workers keep them at one task, the host gets        *)
(* complete results, and the device implements SlotServer, for every       *)
(* number of workers, of slots and of items, and however the host rotates  *)
(* its queue and gives out its slots.                                      *)
(*                                                                         *)
(* All three rest on what a slot owes: the completions of its tasks on     *)
(* their way to the coprocessor, with the master, with the workers and on  *)
(* their way back.  A slot that is not shared owes at most one, so that    *)
(* its task is at one of these places only.                                *)
(***************************************************************************)
EXTENDS KnappDevice, Counting_proofs

Statuses == {"none", "h2d", "ready", "d2h"}
Pcs == {"top", "poll", "arrive_ready", "spin_ready", "lead_ready", "advance", "run",
        "arrive_done", "spin_done", "lead_done", "post"}
Entry == [id : Slots, io : Slots]
ItemIds == DOMAIN Untouched

HostTypes ==
    /\ next_id \in Slots /\ ioRing \in Seq(Slots) /\ waiting \in Seq(Slots)
    /\ launched \in Seq(Entry) /\ doneQ \in Seq(Entry)
    /\ hring \in [Slots -> Statuses]
SignalTypes == toMic \in Seq(Slots) /\ toHost \in Seq(Slots)
MasterTypes ==
    /\ mring \in [Slots -> Statuses] /\ item \in [Slots -> Nat]
    /\ mcur \in Slots /\ mpc \in {"wait", "notify"}
    /\ work \in [Slots -> [Tids -> [begin : Int, num : Int]]]
WorkerTypes ==
    /\ next_task_id \in Slots /\ cur_task_id \in Slots
    /\ pc \in [Tids -> Pcs] /\ slot \in [Tids -> Slots]
    /\ ready \in [Slots -> Int] /\ done \in [Slots -> Int]
    /\ hits \in [Slots -> [ItemIds -> Int]]

TypeInv == HostTypes /\ SignalTypes /\ MasterTypes /\ WorkerTypes /\ shared \subseteq Slots

-----------------------------------------------------------------------------
(* Helpers                                                                 *)

\* The next slot, without a remainder.
After(s) == IF s + 1 = Len0 THEN 0 ELSE s + 1

LEMMA NextSlot ==
    ASSUME NEW s \in Slots PROVE (s + 1) % Len0 = After(s) /\ After(s) \in Slots
  <1>1. Len0 \in Nat /\ Len0 > 0 /\ s \in 0..(Len0 - 1)
    BY DeviceAssumption DEF Slots
  <1>2. CASE s + 1 = Len0
    <2>1. Len0 % Len0 = 0
      BY <1>1, SMTT(30)
    <2> QED BY <1>1, <1>2, <2>1 DEF After, Slots
  <1>3. CASE s + 1 # Len0
    <2>1. s + 1 \in 0..(Len0 - 1)
      BY <1>1, <1>3
    <2>2. (s + 1) % Len0 = s + 1
      BY <1>1, <2>1, SMTT(30)
    <2> QED BY <1>3, <2>1, <2>2 DEF After, Slots
  <1> QED BY <1>2, <1>3

LEMMA Constants ==
    /\ 0 \in Slots /\ 0 \in Tids
    /\ Slots \subseteq Nat /\ Tids \subseteq Nat
    /\ Len0 \in Nat /\ Workers \in Nat
  BY DeviceAssumption DEF Slots, Tids

\* Elements of a sequence, of what remains of it and of what it becomes.
LEMMA SeqFacts ==
    ASSUME NEW S, NEW q \in Seq(S)
    PROVE  /\ Len(q) \in Nat
           /\ \A i \in 1..Len(q) : q[i] \in S
           /\ q # <<>> => /\ Len(q) > 0 /\ Head(q) \in S /\ Head(q) = q[1]
                          /\ Tail(q) \in Seq(S) /\ Len(Tail(q)) = Len(q) - 1
                          /\ \A i \in 1..(Len(q) - 1) : Tail(q)[i] = q[i + 1]
           /\ \A x \in S : /\ Append(q, x) \in Seq(S) /\ Len(Append(q, x)) = Len(q) + 1
                           /\ \A i \in 1..Len(q) : Append(q, x)[i] = q[i]
                           /\ Append(q, x)[Len(q) + 1] = x
  BY SMT

LEMMA IdsFacts ==
    ASSUME NEW q \in Seq(Entry)
    PROVE  /\ Ids(q) \in Seq(Slots)
           /\ \A e \in Entry : Ids(Append(q, e)) = Append(Ids(q), e.id)
           /\ q # <<>> => /\ Ids(q) # <<>> /\ Head(Ids(q)) = Head(q).id
                          /\ Ids(Tail(q)) = Tail(Ids(q))
  <1>1. ASSUME NEW p \in Seq(Entry)
        PROVE  /\ Len(p) \in Nat /\ Ids(p) \in Seq(Slots) /\ Len(Ids(p)) = Len(p)
               /\ \A i \in 1..Len(p) : Ids(p)[i] = p[i].id
    <2>1. Len(p) \in Nat /\ DOMAIN p = 1..Len(p) /\ \A i \in 1..Len(p) : p[i] \in Entry
      BY SeqFacts
    <2>2. Ids(p) = [i \in 1..Len(p) |-> p[i].id]
      BY <2>1 DEF Ids
    <2>3. \A i \in 1..Len(p) : p[i].id \in Slots
      BY <2>1 DEF Entry
    <2> QED BY <2>1, <2>2, <2>3
  <1> HIDE DEF Ids
  <1>2. ASSUME NEW e \in Entry PROVE Ids(Append(q, e)) = Append(Ids(q), e.id)
    <2>1. e.id \in Slots
      BY DEF Entry
    <2>2. /\ Append(q, e) \in Seq(Entry) /\ Len(Append(q, e)) = Len(q) + 1
          /\ \A i \in 1..Len(q) : Append(q, e)[i] = q[i]
          /\ Append(q, e)[Len(q) + 1] = e
      BY SeqFacts
    <2>3. /\ Append(Ids(q), e.id) \in Seq(Slots) /\ Len(Append(Ids(q), e.id)) = Len(Ids(q)) + 1
          /\ \A i \in 1..Len(Ids(q)) : Append(Ids(q), e.id)[i] = Ids(q)[i]
          /\ Append(Ids(q), e.id)[Len(Ids(q)) + 1] = e.id
      BY <1>1, <2>1, SeqFacts
    <2>4. Ids(Append(q, e)) \in Seq(Slots) /\ Len(Ids(Append(q, e))) = Len(Append(q, e))
      BY <1>1, <2>2
    <2>5. ASSUME NEW i \in 1..(Len(q) + 1) PROVE Ids(Append(q, e))[i] = Append(Ids(q), e.id)[i]
      <3>1. Ids(Append(q, e))[i] = Append(q, e)[i].id
        BY <1>1, <2>2
      <3>2. i \in 1..Len(q) \/ i = Len(q) + 1
        BY <1>1
      <3> QED BY <1>1, <2>2, <2>3, <3>1, <3>2
    <2> QED BY <1>1, <2>2, <2>3, <2>4, <2>5, SeqEqual
  <1>3. ASSUME q # <<>> PROVE Ids(q) # <<>> /\ Head(Ids(q)) = Head(q).id /\ Ids(Tail(q)) = Tail(Ids(q))
    <2>1. /\ Len(q) > 0 /\ Head(q) = q[1] /\ Tail(q) \in Seq(Entry) /\ Len(Tail(q)) = Len(q) - 1
          /\ \A i \in 1..(Len(q) - 1) : Tail(q)[i] = q[i + 1]
      BY <1>3, SeqFacts
    <2>2. Ids(q) # <<>>
      BY <1>1, <2>1
    <2>3. /\ Head(Ids(q)) = Ids(q)[1] /\ Tail(Ids(q)) \in Seq(Slots) /\ Len(Tail(Ids(q))) = Len(q) - 1
          /\ \A i \in 1..(Len(q) - 1) : Tail(Ids(q))[i] = Ids(q)[i + 1]
      BY <1>1, <2>2, SeqFacts
    <2>4. ASSUME NEW i \in 1..(Len(q) - 1) PROVE Ids(Tail(q))[i] = Tail(Ids(q))[i]
      <3>1. i + 1 \in 1..Len(q)
        BY <1>1
      <3>2. Ids(Tail(q))[i] = Tail(q)[i].id
        BY <1>1, <2>1
      <3> QED BY <1>1, <2>1, <2>3, <3>1, <3>2
    <2>5. Ids(Tail(q)) = Tail(Ids(q))
      BY <1>1, <2>1, <2>3, <2>4, SeqEqual
    <2> QED BY <1>1, <2>1, <2>2, <2>3, <2>5
  <1> QED BY <1>1, <1>2, <1>3

\* A share is at least one item, and the workers' shares are enough for all.
LEMMA ShareEnough ==
    ASSUME NEW n \in Nat
    PROVE  Share(n) \in Nat /\ Share(n) >= 1 /\ Workers * Share(n) > n
  <1>1. Workers \in Nat /\ Workers > 0
    BY DeviceAssumption
  <1>2. ASSUME NEW w \in Nat, w > 0, NEW m \in Nat
        PROVE  /\ m \div w \in Int
               /\ m - w * (m \div w) \in 0..(w - 1)
    BY <1>2, SMTT(30)
  <1> DEFINE q == Share(n)
  <1>3. q \in Int /\ (n + Workers) - Workers * q \in 0..(Workers - 1)
    BY <1>1, <1>2 DEF Share
  <1>4. PICK p \in Int : p = Workers * q
    BY <1>1, <1>3
  <1>5. p > n
    BY <1>1, <1>3, <1>4
  <1>6. ASSUME q <= 0 PROVE FALSE
    <2>1. Workers * q <= 0
      BY <1>1, <1>3, <1>6, SMTT(30)
    <2> QED BY <2>1, <1>4, <1>5
  <1> QED BY <1>3, <1>4, <1>5, <1>6

LEMMA RemainingType ==
    ASSUME NEW n \in Nat, NEW w \in Nat
    PROVE  Remaining(n, w) \in Nat /\ Remaining(n, w) <= n
  <1>1. Share(n) \in Nat
    BY ShareEnough
  <1>2. PICK p \in Int : p = w * Share(n)
    BY <1>1
  <1>3. p >= 0
    BY <1>1, <1>2, SMTT(30)
  <1> QED BY <1>2, <1>3 DEF Remaining

-----------------------------------------------------------------------------
(* Types                                                                   *)

LEMMA TypesInit ==
    ASSUME Init PROVE TypeInv
  <1>1. /\ next_id = 0 /\ ioRing = [i \in 1..Len0 |-> i - 1] /\ waiting = <<>> /\ launched = <<>>
        /\ doneQ = <<>> /\ toMic = <<>> /\ toHost = <<>> /\ shared = {}
    BY DEF Init
  <1>2. HostTypes
    <2>1. ioRing \in Seq(Slots)
      BY <1>1, Constants DEF Slots
    <2>2. launched \in Seq(Entry) /\ doneQ \in Seq(Entry) /\ waiting \in Seq(Slots)
      BY <1>1
    <2>3. hring \in [Slots -> Statuses]
      BY DEF Init, Statuses
    <2> QED BY <1>1, <2>1, <2>2, <2>3, Constants DEF HostTypes
  <1>3. SignalTypes
    BY <1>1 DEF SignalTypes
  <1>4. MasterTypes
    BY Constants DEF Init, MasterTypes, Statuses
  <1>5. WorkerTypes
    BY Constants DEF Init, WorkerTypes, Pcs, Untouched, ItemIds
  <1> QED BY <1>1, <1>2, <1>3, <1>4, <1>5 DEF TypeInv

\* A task that is executed is there with its id and the first of the buffers.
LEMMA TypesExecute ==
    ASSUME TypeInv, NEW id \in Slots, NEW n \in Items, ioRing # <<>>, Execute(id, n),
           next_id' \in Slots, waiting' \in Seq(Slots)
    PROVE  TypeInv' /\ [id |-> id, io |-> Head(ioRing)] \in Entry
  <1> USE DEF TypeInv
  <1>1. Head(ioRing) \in Slots /\ Tail(ioRing) \in Seq(Slots)
    BY SeqFacts DEF HostTypes
  <1>2. [id |-> id, io |-> Head(ioRing)] \in Entry
    BY <1>1 DEF Entry
  <1>3. launched' \in Seq(Entry)
    BY <1>2, SeqFacts DEF Execute, HostTypes
  <1>4. HostTypes'
    BY <1>1, <1>3 DEF Execute, HostTypes
  <1>5. n \in Nat
    BY DeviceAssumption
  <1>6. MasterTypes'
    BY <1>5 DEF Execute, MasterTypes, masterVars
  <1>7. Untouched \in [ItemIds -> Int]
    BY DEF Untouched, ItemIds
  <1>8. WorkerTypes'
    BY <1>7 DEF Execute, WorkerTypes
  <1>9. shared' \subseteq Slots
    BY DEF Execute
  <1> QED BY <1>2, <1>4, <1>6, <1>8, <1>9 DEF Execute, SignalTypes

\* The ids that tasks get are slots.
LEMMA HostIds ==
    ASSUME TypeInv
    PROVE  /\ next_id \in Slots /\ (NextId => next_id' \in Slots)
           /\ waiting # <<>> => Head(waiting) \in Slots /\ Tail(waiting) \in Seq(Slots)
  <1>1. next_id \in Slots /\ waiting \in Seq(Slots)
    BY DEF TypeInv, HostTypes
  <1>2. NextId => next_id' \in Slots
    BY <1>1, NextSlot DEF NextId
  <1>3. waiting # <<>> => Head(waiting) \in Slots /\ Tail(waiting) \in Seq(Slots)
    BY <1>1, SeqFacts
  <1> QED BY <1>1, <1>2, <1>3

\* The tasks that are executed, whichever way.
LEMMA Executed ==
    ASSUME TypeInv, NEW n \in Items, Offload(n) \/ Resume(n)
    PROVE  \E id \in Slots : /\ Execute(id, n) /\ ioRing # <<>>
                             /\ next_id' \in Slots /\ waiting' \in Seq(Slots)
  <1>1. next_id \in Slots /\ waiting \in Seq(Slots)
    BY DEF TypeInv, HostTypes
  <1> QED BY <1>1, HostIds DEF Offload, Resume

LEMMA TypesHost ==
    ASSUME TypeInv, Host \/ ArriveHost PROVE TypeInv'
  <1> USE DEF TypeInv
  <1>1. ASSUME NEW n \in Items, Offload(n) \/ Resume(n) PROVE TypeInv'
    <2>1. PICK id \in Slots : /\ Execute(id, n) /\ ioRing # <<>>
                              /\ next_id' \in Slots /\ waiting' \in Seq(Slots)
      BY <1>1, Executed
    <2> QED BY <2>1, TypesExecute
  <1>2. CASE Wait
    <2>1. <<next_id>> \o waiting \in Seq(Slots) /\ next_id' \in Slots
      BY <1>2, HostIds DEF Wait, HostTypes
    <2> QED BY <1>2, <2>1 DEF Wait, HostTypes, SignalTypes, MasterTypes, WorkerTypes, masterVars, workerVars
  <1>3. CASE SignalMic
    <2> DEFINE e == Head(launched)
    <2>1. e \in Entry /\ Tail(launched) \in Seq(Entry)
      BY <1>3, SeqFacts DEF SignalMic, HostTypes
    <2>2. e.id \in Slots
      BY <2>1 DEF Entry
    <2>3. Append(doneQ, e) \in Seq(Entry) /\ Append(toMic, e.id) \in Seq(Slots)
      BY <2>1, <2>2, SeqFacts DEF HostTypes, SignalTypes
    <2>4. hring' \in [Slots -> Statuses]
      BY <1>3 DEF SignalMic, Statuses, HostTypes
    <2>5. HostTypes'
      BY <1>3, <2>1, <2>3, <2>4 DEF SignalMic, HostTypes
    <2>6. SignalTypes'
      BY <1>3, <2>3 DEF SignalMic, SignalTypes
    <2> QED BY <1>3, <2>5, <2>6 DEF SignalMic, MasterTypes, WorkerTypes, masterVars, workerVars
  <1>4. CASE TakeBack \/ Requeue
    <2>1. doneQ # <<>> /\ doneQ \in Seq(Entry) /\ ioRing \in Seq(Slots)
      BY <1>4 DEF TakeBack, Requeue, HostTypes
    <2>2. Head(doneQ) \in Entry /\ Tail(doneQ) \in Seq(Entry)
      BY <2>1, SeqFacts
    <2>3. Append(Tail(doneQ), Head(doneQ)) \in Seq(Entry)
      BY <2>2, SeqFacts
    <2>4. Head(doneQ).io \in Slots
      BY <2>2 DEF Entry
    <2>5. Append(ioRing, Head(doneQ).io) \in Seq(Slots)
      BY <2>1, <2>4, SeqFacts
    <2>6. HostTypes'
      BY <1>4, <2>2, <2>3, <2>5 DEF TakeBack, Requeue, HostTypes
    <2> QED BY <1>4, <2>6 DEF TakeBack, Requeue, SignalTypes, MasterTypes, WorkerTypes, masterVars,
          workerVars
  <1>5. CASE ArriveHost
    <2>1. hring' \in [Slots -> Statuses]
      BY <1>5 DEF ArriveHost, Statuses, HostTypes
    <2>2. Tail(toHost) \in Seq(Slots)
      BY <1>5, SeqFacts DEF ArriveHost, SignalTypes
    <2> QED BY <1>5, <2>1, <2>2 DEF ArriveHost, hostVars, HostTypes, SignalTypes, MasterTypes,
          WorkerTypes, masterVars, workerVars
  <1> QED BY <1>1, <1>2, <1>3, <1>4, <1>5 DEF Host, Poll

LEMMA TypesStep ==
    ASSUME TypeInv, [Next]_vars PROVE TypeInv'
  <1> USE DEF TypeInv
  <1>1. CASE Host \/ ArriveHost
    BY <1>1, TypesHost
  <1>4. CASE ArriveMic
    <2>1. Tail(toMic) \in Seq(Slots)
      BY <1>4, SeqFacts DEF ArriveMic, SignalTypes
    <2>2. mring' \in [Slots -> Statuses]
      BY <1>4 DEF ArriveMic, MasterTypes, Statuses
    <2> QED BY <1>4, <2>1, <2>2 DEF ArriveMic, HostTypes, SignalTypes, MasterTypes, WorkerTypes, hostVars,
          masterVars, workerVars
  <1>6. CASE MasterSplit
    <2>1. mcur \in Slots /\ item[mcur] \in Nat
      BY DEF MasterTypes
    <2> DEFINE n == item[mcur]
               part == [w \in Tids |-> [begin |-> Remaining(n, w + 1),
                                        num |-> Remaining(n, w) - Remaining(n, w + 1)]]
    <2>2. \A w \in Tids : Remaining(n, w) \in Nat /\ Remaining(n, w + 1) \in Nat
      <3> TAKE w \in Tids
      <3>1. w \in Nat /\ w + 1 \in Nat /\ n \in Nat
        BY <2>1, Constants
      <3>2. Remaining(n, w) \in Nat
        BY <3>1, RemainingType
      <3>3. Remaining(n, w + 1) \in Nat
        BY <3>1, RemainingType
      <3> QED BY <3>2, <3>3
    <2>3. part \in [Tids -> [begin : Int, num : Int]]
      BY <2>2
    <2>4. work' = [work EXCEPT ![mcur] = part]
      BY <1>6 DEF MasterSplit
    <2>5. work' \in [Slots -> [Tids -> [begin : Int, num : Int]]]
      BY <2>1, <2>3, <2>4 DEF MasterTypes
    <2>6. MasterTypes'
      BY <1>6, <2>5 DEF MasterSplit, MasterTypes
    <2> QED BY <1>6, <2>6 DEF MasterSplit, HostTypes, SignalTypes, WorkerTypes, hostVars, workerVars
  <1>7. CASE MasterNotify
    <2>1. mcur' \in Slots
      BY <1>7, NextSlot DEF MasterNotify, MasterTypes
    <2>2. MasterTypes'
      BY <1>7, <2>1 DEF MasterNotify, MasterTypes, Statuses
    <2> QED BY <1>7, <2>2 DEF MasterNotify, HostTypes, SignalTypes, WorkerTypes, hostVars, workerVars
  <1>8. ASSUME NEW w \in Tids, Worker(w) PROVE TypeInv'
    <2> USE DEF WorkerTypes, Pcs
    <2>1. ASSUME SignalHost PROVE TypeInv'
      <3>1. slot[0] \in Slots
        BY Constants
      <3>2. toHost' \in Seq(Slots)
        BY <2>1, <3>1, SeqFacts DEF SignalHost, SignalTypes
      <3>3. MasterTypes'
        BY <2>1 DEF SignalHost, MasterTypes, Statuses, masterVars
      <3>4. WorkerTypes'
        BY <2>1 DEF SignalHost
      <3> QED BY <2>1, <3>2, <3>3, <3>4 DEF SignalHost, HostTypes, SignalTypes, hostVars
    <2>2. ASSUME Run(w) PROVE WorkerTypes'
      <3> DEFINE mine == work[cur_task_id][w]
                 Hit(i) == cur_task_id \notin shared /\ mine.begin <= i /\ i < mine.begin + mine.num
                 h == [i \in ItemIds |-> hits[cur_task_id][i] + Bit(Hit(i))]
      <3>1. DOMAIN hits[cur_task_id] = ItemIds /\ \A i \in ItemIds : hits[cur_task_id][i] \in Int
        BY DEF WorkerTypes
      <3>2. hits' = [hits EXCEPT ![cur_task_id] = h]
        BY <2>2, <3>1 DEF Run
      <3>5. \A i \in ItemIds : Bit(Hit(i)) \in Int
        BY DEF Bit
      <3>3. h \in [ItemIds -> Int]
        BY <3>1, <3>5
      <3>4. hits' \in [Slots -> [ItemIds -> Int]]
        BY <3>2, <3>3
      <3> QED BY <2>2, <3>4 DEF Run
    <2>3. ASSUME Top(w) PROVE WorkerTypes'
      BY <2>3 DEF Top
    <2>4. ASSUME PollReady \/ LeadReady \/ LeadDone PROVE WorkerTypes'
      <3>1. CASE PollReady
        BY <3>1, Constants DEF PollReady
      <3>2. CASE LeadReady
        BY <3>2, Constants DEF LeadReady
      <3>3. CASE LeadDone
        BY <3>3, Constants DEF LeadDone
      <3> QED BY <2>4, <3>1, <3>2, <3>3
    <2>5. ASSUME Advance PROVE WorkerTypes'
      <3>1. next_task_id' \in Slots
        BY <2>5, NextSlot, Constants DEF Advance
      <3> QED BY <2>5, <3>1 DEF Advance
    <2>6. ASSUME ArriveReady(w) \/ ArriveDone(w) PROVE WorkerTypes'
      <3>1. slot[w] \in Slots /\ ready[slot[w]] + 1 \in Int /\ done[slot[w]] + 1 \in Int
        OBVIOUS
      <3>2. CASE ArriveReady(w)
        BY <3>1, <3>2 DEF ArriveReady
      <3>3. CASE ArriveDone(w)
        BY <3>1, <3>3 DEF ArriveDone
      <3> QED BY <2>6, <3>2, <3>3
    <2>7. ASSUME LeaveReady(w) \/ LeaveDone(w) PROVE WorkerTypes'
      BY <2>7 DEF LeaveReady, LeaveDone
    <2>8. ASSUME ~SignalHost
          PROVE  UNCHANGED others /\ UNCHANGED mring /\ WorkerTypes'
      <3>1. UNCHANGED others /\ UNCHANGED mring
        BY <1>8, <2>8 DEF Worker, Top, Run, PollReady, LeadReady, LeadDone, Advance, ArriveReady,
             ArriveDone, LeaveReady, LeaveDone
      <3> QED BY <1>8, <2>2, <2>3, <2>4, <2>5, <2>6, <2>7, <2>8, <3>1 DEF Worker
    <2> QED BY <2>1, <2>8 DEF HostTypes, SignalTypes, MasterTypes, others, hostVars, masterVars
  <1>9. CASE UNCHANGED vars
    BY <1>9 DEF vars, hostVars, masterVars, workerVars, HostTypes, SignalTypes, MasterTypes, WorkerTypes
  <1> QED BY <1>1, <1>4, <1>6, <1>7, <1>8, <1>9 DEF Next, Master
-----------------------------------------------------------------------------
(* The barriers                                                            *)

\* The workers other than the one that leads the barriers, and those of them that
\* wait at a barrier.
Followers == Tids \ {0}
At(l) == {w \in Followers : pc[w] = l}

\* The leader waits for the others; else they are about to work, work or have worked.
Gathering == pc[0] \in {"post", "top", "poll", "lead_ready"}

LeaderInv ==
    /\ pc[0] \in {"top", "poll", "lead_ready", "advance", "run", "lead_done", "post"}
    /\ pc[0] # "top" => slot[0] = cur_task_id
    /\ pc[0] \in {"poll", "lead_ready", "advance"} => next_task_id = cur_task_id

\* Between the barriers: some followers have not noticed the end of the last task,
\* the others have come to the barrier of the next one.
GatherInv ==
    /\ \A w \in Followers :
          /\ pc[w] \in {"spin_done", "top", "arrive_ready", "spin_ready"}
          /\ pc[w] \in {"arrive_ready", "spin_ready"} => slot[w] = next_task_id
    /\ \A s \in Slots : done[s] = 0
    /\ \A s \in Slots : ready[s] = IF s = next_task_id THEN Cardinality(At("spin_ready")) ELSE 0

\* At work: some followers have not noticed that they were released.
WorkInv ==
    /\ \A w \in Followers : /\ pc[w] \in {"spin_ready", "run", "arrive_done", "spin_done"}
                            /\ slot[w] = cur_task_id
    /\ \A s \in Slots : ready[s] = 0
    /\ \A s \in Slots : done[s] = IF s = cur_task_id THEN Cardinality(At("spin_done")) ELSE 0

BarrierInv == LeaderInv /\ (IF Gathering THEN GatherInv ELSE WorkInv)

LEMMA FollowersFinite ==
    IsFiniteSet(Followers) /\ Cardinality(Followers) = Workers - 1
  <1>1. Workers \in Nat /\ Workers > 0
    BY DeviceAssumption
  <1>2. Followers = 1..(Workers - 1)
    BY <1>1 DEF Followers, Tids
  <1> QED BY <1>1, <1>2, FS_Interval

LEMMA AtFacts ==
    ASSUME NEW l
    PROVE  /\ IsFiniteSet(At(l)) /\ Cardinality(At(l)) \in Nat
           /\ Cardinality(At(l)) = Workers - 1 => At(l) = Followers
           /\ (\E w \in Followers : pc[w] = l) => Cardinality(At(l)) > 0
           /\ (\A w \in Followers : pc[w] # l) => Cardinality(At(l)) = 0
  <1>1. At(l) \in SUBSET Followers
    BY DEF At
  <1>2. IsFiniteSet(At(l)) /\ (Cardinality(At(l)) = Workers - 1 => At(l) = Followers)
    BY <1>1, FollowersFinite, FS_Subset
  <1>3. Cardinality(At(l)) \in Nat
    BY <1>2, FS_CardinalityType
  <1>4. Cardinality(At(l)) = 0 <=> At(l) = {}
    BY <1>2, FS_EmptySet
  <1> QED BY <1>2, <1>3, <1>4 DEF At

LEMMA AtFactsNext ==
    ASSUME NEW l
    PROVE  /\ (\A w \in Followers : pc'[w] # l) => Cardinality(At(l)') = 0
  <1>1. (\A w \in Followers : pc'[w] # l) => At(l)' = {}
    BY DEF At
  <1> QED BY <1>1, FS_EmptySet

\* A follower that moves joins those at one label and those elsewhere stay as many.
LEMMA AtMoves ==
    ASSUME pc \in [Tids -> Pcs], NEW w \in Tids, NEW m, pc' = [pc EXCEPT ![w] = m], NEW l
    PROVE  /\ w = 0 \/ (pc[w] # l /\ m # l) => At(l)' = At(l)
           /\ w # 0 /\ pc[w] # l /\ m = l => Cardinality(At(l)') = Cardinality(At(l)) + 1
  <1>1. pc \in [Tids -> Pcs] /\ Followers \subseteq Tids /\ (w # 0 => w \in Followers) /\ 0 \notin Followers
    BY DEF Followers
  <1>2. w = 0 \/ (pc[w] # l /\ m # l) => At(l)' = At(l)
    BY <1>1 DEF At
  <1>3. w # 0 /\ pc[w] # l /\ m = l => At(l)' = At(l) \cup {w} /\ w \notin At(l)
    BY <1>1 DEF At
  <1>4. IsFiniteSet(At(l))
    BY AtFacts
  <1> QED BY <1>2, <1>3, <1>4, FS_AddElement

barrierVars == <<next_task_id, cur_task_id, pc, slot, ready, done>>

LEMMA BarrierInit ==
    ASSUME Init PROVE BarrierInv
  <1>1. pc = [w \in Tids |-> "top"] /\ 0 \in Tids /\ Followers \subseteq Tids
    BY Constants DEF Init, Followers
  <1>2. Cardinality(At("spin_ready")) = 0
    BY <1>1, AtFacts
  <1> QED BY <1>1, <1>2 DEF Init, BarrierInv, LeaderInv, Gathering, GatherInv

LEMMA BarrierSame ==
    ASSUME BarrierInv, UNCHANGED barrierVars PROVE BarrierInv'
  BY DEF barrierVars, BarrierInv, LeaderInv, Gathering, GatherInv, WorkInv, At

\* What a follower does at the barrier that its leader does not wait at.
LEMMA BarrierFollower ==
    ASSUME TypeInv, BarrierInv, NEW w \in Tids, w # 0, Worker(w) PROVE BarrierInv'
  <1> USE DEF TypeInv, WorkerTypes
  <1>1. /\ w \in Followers /\ Followers \subseteq Tids /\ 0 \notin Followers /\ 0 \in Tids
        /\ slot[w] \in Slots /\ next_task_id \in Slots /\ cur_task_id \in Slots
    BY Constants DEF Followers
  <1>2. /\ \E m : pc' = [pc EXCEPT ![w] = m]
        /\ \E s \in Slots : slot' = [slot EXCEPT ![w] = s]
        /\ UNCHANGED <<next_task_id, cur_task_id>>
    <2>1. slot = [slot EXCEPT ![w] = slot[w]]
      OBVIOUS
    <2> QED BY <1>1, <2>1 DEF Worker, Top, Run, ArriveReady, LeaveReady, ArriveDone, LeaveDone
  <1>3. pc'[0] = pc[0] /\ slot'[0] = slot[0]
    BY <1>1, <1>2
  <1>4. LeaderInv' /\ (Gathering' <=> Gathering)
    BY <1>2, <1>3 DEF BarrierInv, LeaderInv, Gathering
  <1>5. CASE Gathering
    <2>1. GatherInv
      BY <1>5 DEF BarrierInv
    <2>2. CASE Top(w)
      <3>1. At("spin_ready")' = At("spin_ready")
        <4>1. pc' = [pc EXCEPT ![w] = "arrive_ready"] /\ pc[w] # "spin_ready" /\ pc \in [Tids -> Pcs]
          BY <2>2 DEF Top
        <4> QED BY <4>1, AtMoves
      <3> QED BY <1>1, <1>4, <1>5, <2>1, <2>2, <3>1 DEF Top, GatherInv, BarrierInv
    <2>3. CASE ArriveReady(w)
      <3>1. Cardinality(At("spin_ready")') = Cardinality(At("spin_ready")) + 1
        BY <1>1, <2>3, AtMoves DEF ArriveReady
      <3>2. slot[w] = next_task_id
        BY <1>1, <2>1, <2>3 DEF ArriveReady, GatherInv
      <3>3. \A v \in Followers :
              /\ pc'[v] \in {"spin_done", "top", "arrive_ready", "spin_ready"}
              /\ pc'[v] \in {"arrive_ready", "spin_ready"} => slot'[v] = next_task_id'
        BY <1>1, <2>1, <2>3, <3>2 DEF ArriveReady, GatherInv
      <3>4. \A s \in Slots : ready'[s] = IF s = next_task_id THEN ready[s] + 1 ELSE ready[s]
        BY <1>1, <2>3, <3>2 DEF ArriveReady
      <3>5. \A s \in Slots : ready'[s] = IF s = next_task_id' THEN Cardinality(At("spin_ready")') ELSE 0
        BY <2>1, <2>3, <3>1, <3>4 DEF GatherInv, ArriveReady
      <3>6. GatherInv'
        BY <2>1, <2>3, <3>3, <3>5 DEF GatherInv, ArriveReady
      <3> QED BY <1>4, <1>5, <3>6 DEF BarrierInv
    <2>4. CASE LeaveReady(w)
      <3>1. Cardinality(At("spin_ready")) > 0 /\ Cardinality(At("spin_ready")) \in Nat
        BY <1>1, <2>4, AtFacts DEF LeaveReady
      <3>2. slot[w] = next_task_id /\ ready[slot[w]] = Cardinality(At("spin_ready"))
        BY <1>1, <2>1, <2>4 DEF LeaveReady, GatherInv
      <3> QED BY <2>4, <3>1, <3>2 DEF LeaveReady
    <2>5. CASE LeaveDone(w)
      <3>1. At("spin_ready")' = At("spin_ready")
        <4>1. pc' = [pc EXCEPT ![w] = "top"] /\ pc[w] # "spin_ready" /\ pc \in [Tids -> Pcs]
          BY <2>5 DEF LeaveDone
        <4> QED BY <4>1, AtMoves
      <3> QED BY <1>1, <1>4, <1>5, <2>1, <2>5, <3>1 DEF LeaveDone, GatherInv, BarrierInv
    <2>6. CASE ArriveDone(w) \/ Run(w)
      BY <1>1, <2>1, <2>6 DEF ArriveDone, Run, GatherInv
    <2> QED BY <2>2, <2>3, <2>4, <2>5, <2>6, <1>1 DEF Worker
  <1>6. CASE ~Gathering
    <2>1. WorkInv
      BY <1>6 DEF BarrierInv
    <2>2. CASE Top(w) \/ ArriveReady(w)
      BY <1>1, <2>1, <2>2 DEF Top, ArriveReady, WorkInv
    <2>3. CASE LeaveReady(w)
      <3>1. At("spin_done")' = At("spin_done")
        <4>1. pc' = [pc EXCEPT ![w] = "run"] /\ pc[w] # "spin_done" /\ pc \in [Tids -> Pcs]
          BY <2>3 DEF LeaveReady
        <4> QED BY <4>1, AtMoves
      <3> QED BY <1>1, <1>4, <1>6, <2>1, <2>3, <3>1 DEF LeaveReady, WorkInv, BarrierInv
    <2>4. CASE Run(w)
      <3>1. At("spin_done")' = At("spin_done")
        <4>1. pc' = [pc EXCEPT ![w] = "arrive_done"] /\ pc[w] # "spin_done" /\ pc \in [Tids -> Pcs]
          BY <2>4 DEF Run
        <4> QED BY <4>1, AtMoves
      <3> QED BY <1>1, <1>4, <1>6, <2>1, <2>4, <3>1 DEF Run, WorkInv, BarrierInv
    <2>5. CASE ArriveDone(w)
      <3>1. Cardinality(At("spin_done")') = Cardinality(At("spin_done")) + 1
        BY <1>1, <2>5, AtMoves DEF ArriveDone
      <3>2. slot[w] = cur_task_id
        BY <1>1, <2>1 DEF WorkInv
      <3>3. \A v \in Followers :
              pc'[v] \in {"spin_ready", "run", "arrive_done", "spin_done"} /\ slot'[v] = cur_task_id'
        BY <1>1, <2>1, <2>5 DEF ArriveDone, WorkInv
      <3>4. \A s \in Slots : done'[s] = IF s = cur_task_id THEN done[s] + 1 ELSE done[s]
        BY <1>1, <2>5, <3>2 DEF ArriveDone
      <3>5. \A s \in Slots : done'[s] = IF s = cur_task_id' THEN Cardinality(At("spin_done")') ELSE 0
        BY <2>1, <2>5, <3>1, <3>4 DEF WorkInv, ArriveDone
      <3>6. WorkInv'
        BY <2>1, <2>5, <3>3, <3>5 DEF WorkInv, ArriveDone
      <3> QED BY <1>4, <1>6, <3>6 DEF BarrierInv
    <2>6. CASE LeaveDone(w)
      <3>1. Cardinality(At("spin_done")) > 0 /\ Cardinality(At("spin_done")) \in Nat
        BY <1>1, <2>6, AtFacts DEF LeaveDone
      <3>2. done[slot[w]] = Cardinality(At("spin_done"))
        BY <1>1, <2>1 DEF WorkInv
      <3> QED BY <2>6, <3>1, <3>2 DEF LeaveDone
    <2> QED BY <2>2, <2>3, <2>4, <2>5, <2>6, <1>1 DEF Worker
  <1> QED BY <1>5, <1>6

\* All wait when the leader releases them.
LEMMA AllReady ==
    ASSUME TypeInv, BarrierInv, LeadReady
    PROVE  \A w \in Followers : pc[w] = "spin_ready" /\ slot[w] = cur_task_id
  <1>1. /\ Gathering /\ slot[0] = next_task_id /\ next_task_id = cur_task_id
        /\ next_task_id \in Slots
    BY DEF LeadReady, Gathering, BarrierInv, LeaderInv, TypeInv, WorkerTypes
  <1>2. GatherInv
    BY <1>1 DEF BarrierInv
  <1>3. Cardinality(At("spin_ready")) + 1 = Workers
    BY <1>1, <1>2 DEF LeadReady, AllArrived, GatherInv
  <1>4. At("spin_ready") = Followers
    BY <1>3, AtFacts, Constants
  <1> QED BY <1>1, <1>2, <1>4 DEF At, GatherInv

LEMMA AllDone ==
    ASSUME TypeInv, BarrierInv, LeadDone PROVE \A w \in Followers : pc[w] = "spin_done"
  <1>1. ~Gathering /\ slot[0] = cur_task_id /\ cur_task_id \in Slots
    BY DEF LeadDone, Gathering, BarrierInv, LeaderInv, TypeInv, WorkerTypes
  <1>2. WorkInv
    BY <1>1 DEF BarrierInv
  <1>3. Cardinality(At("spin_done")) + 1 = Workers
    BY <1>1, <1>2 DEF LeadDone, AllArrived, WorkInv
  <1>4. At("spin_done") = Followers
    BY <1>3, AtFacts, Constants
  <1> QED BY <1>4 DEF At

\* The leader releases the others when all of them wait.
LEMMA BarrierLeader ==
    ASSUME TypeInv, BarrierInv, Worker(0) PROVE BarrierInv'
  <1>a. LeadReady => \A w \in Followers : pc[w] = "spin_ready" /\ slot[w] = cur_task_id
    BY AllReady
  <1>b. LeadDone => \A w \in Followers : pc[w] = "spin_done"
    BY AllDone
  <1> USE DEF TypeInv, WorkerTypes
  <1>1. /\ Followers \subseteq Tids /\ 0 \notin Followers /\ 0 \in Tids
        /\ slot[0] \in Slots /\ next_task_id \in Slots /\ cur_task_id \in Slots
    BY Constants DEF Followers
  <1>2. /\ \E m : pc' = [pc EXCEPT ![0] = m]
        /\ \E s \in Slots : slot' = [slot EXCEPT ![0] = s]
    <2>1. slot = [slot EXCEPT ![0] = slot[0]]
      OBVIOUS
    <2> QED BY <1>1, <2>1 DEF Worker, Top, Run, PollReady, LeadReady, Advance, LeadDone, SignalHost
  <1>3. \A w \in Followers : pc'[w] = pc[w] /\ slot'[w] = slot[w]
    BY <1>1, <1>2
  <1>4. At("spin_ready")' = At("spin_ready") /\ At("spin_done")' = At("spin_done")
    BY <1>3 DEF At
  <1>5. CASE Top(0)
    <2>1. Gathering /\ Gathering' /\ LeaderInv'
      BY <1>1, <1>5 DEF Top, Gathering, LeaderInv
    <2>2. GatherInv'
      BY <2>1, <1>3, <1>4, <1>5 DEF Top, BarrierInv, GatherInv
    <2> QED BY <2>1, <2>2 DEF BarrierInv
  <1>6. CASE PollReady
    <2>1. Gathering /\ Gathering' /\ LeaderInv'
      BY <1>1, <1>6 DEF PollReady, Gathering, BarrierInv, LeaderInv
    <2>2. GatherInv'
      BY <2>1, <1>3, <1>4, <1>6 DEF PollReady, BarrierInv, GatherInv
    <2> QED BY <2>1, <2>2 DEF BarrierInv
  <1>7. CASE LeadReady
    <2>1. Gathering /\ ~Gathering' /\ LeaderInv' /\ slot[0] = next_task_id /\ next_task_id = cur_task_id
      BY <1>1, <1>7 DEF LeadReady, Gathering, BarrierInv, LeaderInv
    <2>2. GatherInv
      BY <2>1 DEF BarrierInv
    <2>5. \A w \in Followers : pc[w] = "spin_ready" /\ slot[w] = cur_task_id
      BY <1>7, <1>a
    <2>6. Cardinality(At("spin_done")) = 0
      BY <2>5, AtFacts
    <2>7. \A s \in Slots : ready'[s] = 0
      BY <1>1, <1>7, <2>1, <2>2 DEF LeadReady, GatherInv
    <2>8. WorkInv'
      BY <1>3, <1>4, <1>7, <2>2, <2>5, <2>6, <2>7 DEF LeadReady, WorkInv, GatherInv
    <2> QED BY <2>1, <2>8 DEF BarrierInv
  <1>8. CASE Advance
    <2>1. ~Gathering /\ ~Gathering' /\ LeaderInv'
      BY <1>1, <1>8 DEF Advance, Gathering, BarrierInv, LeaderInv
    <2>2. WorkInv'
      BY <2>1, <1>3, <1>4, <1>8 DEF Advance, BarrierInv, WorkInv
    <2> QED BY <2>1, <2>2 DEF BarrierInv
  <1>9. CASE Run(0)
    <2>1. ~Gathering /\ ~Gathering' /\ LeaderInv'
      BY <1>1, <1>9 DEF Run, Gathering, BarrierInv, LeaderInv
    <2>2. WorkInv'
      BY <2>1, <1>3, <1>4, <1>9 DEF Run, BarrierInv, WorkInv
    <2> QED BY <2>1, <2>2 DEF BarrierInv
  <1>10. CASE LeadDone
    <2>1. ~Gathering /\ Gathering' /\ LeaderInv' /\ slot[0] = cur_task_id
      BY <1>1, <1>10 DEF LeadDone, Gathering, BarrierInv, LeaderInv
    <2>2. WorkInv
      BY <2>1 DEF BarrierInv
    <2>5. \A w \in Followers : pc[w] = "spin_done"
      BY <1>10, <1>b
    <2>6. Cardinality(At("spin_ready")) = 0
      BY <2>5, AtFacts
    <2>7. \A s \in Slots : done'[s] = 0
      BY <1>1, <1>10, <2>1, <2>2 DEF LeadDone, WorkInv
    <2>8. GatherInv'
      BY <1>3, <1>4, <1>10, <2>2, <2>5, <2>6, <2>7 DEF LeadDone, WorkInv, GatherInv
    <2> QED BY <2>1, <2>8 DEF BarrierInv
  <1>11. CASE SignalHost
    <2>1. Gathering /\ Gathering' /\ LeaderInv'
      BY <1>1, <1>11 DEF SignalHost, Gathering, BarrierInv, LeaderInv
    <2>2. GatherInv'
      BY <2>1, <1>3, <1>4, <1>11 DEF SignalHost, BarrierInv, GatherInv
    <2> QED BY <2>1, <2>2 DEF BarrierInv
  <1> QED BY <1>5, <1>6, <1>7, <1>8, <1>9, <1>10, <1>11 DEF Worker

LEMMA BarrierStep ==
    ASSUME TypeInv, BarrierInv, [Next]_vars PROVE BarrierInv'
  <1>1. ASSUME NEW w \in Tids, Worker(w) PROVE BarrierInv'
    BY <1>1, BarrierFollower, BarrierLeader
  <1>2. ASSUME ~\E w \in Tids : Worker(w) PROVE UNCHANGED barrierVars
    BY <1>2 DEF Next, Host, Poll, Master, Offload, Resume, Execute, Wait, SignalMic, TakeBack, Requeue,
         ArriveMic, ArriveHost, MasterSplit, MasterNotify, vars, workerVars, barrierVars
  <1> QED BY <1>1, <1>2, BarrierSame
-----------------------------------------------------------------------------
(* What the slots owe                                                      *)

\* The places of the tasks of a slot: executed, signalled, with the master, with the
\* workers, and signalled back.
A(s) == Count(Ids(launched), s)
B(s) == Count(toMic, s)
C(s) == mring[s] = "h2d" \/ (mpc = "notify" /\ mcur = s)
D(s) == mring[s] = "ready" \/ Leading(s)
E(s) == Count(toHost, s)

LEMMA OwedParts ==
    ASSUME TypeInv, NEW s \in Slots
    PROVE  /\ A(s) \in Nat /\ B(s) \in Nat /\ E(s) \in Nat
           /\ C(s) \in BOOLEAN /\ D(s) \in BOOLEAN
           /\ Owed[s] = A(s) + B(s) + Bit(C(s)) + Bit(D(s)) + E(s)
  <1>1. /\ Ids(launched) \in Seq(Slots) /\ toMic \in Seq(Slots) /\ toHost \in Seq(Slots)
    BY IdsFacts DEF TypeInv, HostTypes, SignalTypes
  <1> QED BY <1>1, CountType DEF A, B, C, D, E, Leading, Owed

LEMMA OwedPartsNext ==
    ASSUME TypeInv', NEW s \in Slots
    PROVE  /\ A(s)' \in Nat /\ B(s)' \in Nat /\ E(s)' \in Nat
           /\ C(s)' \in BOOLEAN /\ D(s)' \in BOOLEAN
           /\ Owed'[s] = A(s)' + B(s)' + Bit(C(s)') + Bit(D(s)') + E(s)'
  <1>1. /\ Ids(launched') \in Seq(Slots) /\ toMic' \in Seq(Slots) /\ toHost' \in Seq(Slots)
    BY IdsFacts DEF TypeInv, HostTypes, SignalTypes
  <1>2. Ids(launched)' = Ids(launched')
    BY DEF Ids
  <1> QED BY <1>1, <1>2, CountType DEF A, B, C, D, E, Leading, Owed, Bit

\* The master does not split a task into a slot that it has handed over.
NotifyInv == mpc = "notify" => mring[mcur] # "ready"

\* What the steps change of these numbers.
LEMMA PartsExecute ==
    ASSUME TypeInv, NEW id \in Slots, NEW n \in Items, ioRing # <<>>, Execute(id, n),
           next_id' \in Slots, waiting' \in Seq(Slots), NEW s \in Slots
    PROVE  /\ A(s)' = A(s) + One(id, s) /\ B(s)' = B(s) /\ E(s)' = E(s)
           /\ C(s)' = C(s) /\ D(s)' = D(s)
  <1> DEFINE e == [id |-> id, io |-> Head(ioRing)]
  <1>1. e \in Entry /\ launched \in Seq(Entry) /\ launched' = Append(launched, e)
    BY TypesExecute DEF TypeInv, HostTypes, Execute
  <1>2. e.id = id
    OBVIOUS
  <1> HIDE DEF e
  <1>3. Ids(launched)' = Append(Ids(launched), id) /\ Ids(launched) \in Seq(Slots)
    BY <1>1, <1>2, IdsFacts DEF Ids
  <1>4. Count(Ids(launched)', s) = Count(Ids(launched), s) + One(id, s)
    BY <1>3, CountPushBack
  <1> QED BY <1>4 DEF A, B, C, D, E, Leading, Execute, masterVars

LEMMA PartsSignalMic ==
    ASSUME TypeInv, SignalMic, NEW id, id = Head(launched).id, NEW s \in Slots
    PROVE  /\ id \in Slots /\ id = Head(Ids(launched)) /\ A(id) > 0
           /\ A(s)' = A(s) - One(id, s) /\ B(s)' = B(s) + One(id, s) /\ E(s)' = E(s)
           /\ C(s)' = C(s) /\ D(s)' = D(s)
  <1>2. /\ launched \in Seq(Entry) /\ launched # <<>> /\ launched' = Tail(launched)
        /\ toMic \in Seq(Slots) /\ toMic' = Append(toMic, id)
        /\ UNCHANGED <<toHost, mring, masterVars, workerVars>>
    BY DEF SignalMic, TypeInv, HostTypes, SignalTypes
  <1>3. /\ Ids(launched) \in Seq(Slots) /\ Ids(launched) # <<>> /\ id = Head(Ids(launched))
        /\ Ids(launched') = Tail(Ids(launched))
    BY <1>2, IdsFacts
  <1>4. id \in Slots /\ Ids(launched)[1] = id /\ Len(Ids(launched)) > 0 /\ Len(Ids(launched)) \in Nat
    BY <1>3, SeqFacts
  <1>5. Count(Ids(launched'), s) = Count(Ids(launched), s) - One(id, s)
    BY <1>3, CountPop
  <1>6. Count(toMic', s) = Count(toMic, s) + One(id, s)
    BY <1>2, <1>4, CountPushBack
  <1>7. Count(Ids(launched), id) > 0
    <2>1. 1 \in 1..Len(Ids(launched))
      BY <1>4
    <2>2. Count(Ids(launched), id) # 0 /\ Count(Ids(launched), id) \in Nat
      BY <1>3, <1>4, <2>1, CountPositive, CountType
    <2> QED BY <2>2
  <1>8. /\ C(s)' = C(s) /\ D(s)' = D(s) /\ E(s)' = E(s)
    BY <1>2 DEF C, D, E, Leading, masterVars, workerVars
  <1>9. A(s)' = Count(Ids(launched'), s)
    BY DEF A, Ids
  <1> QED BY <1>3, <1>4, <1>5, <1>6, <1>7, <1>8, <1>9 DEF A, B

LEMMA PartsArriveMic ==
    ASSUME TypeInv, NotifyInv, ArriveMic, NEW h, h = Head(toMic), NEW s \in Slots
    PROVE  /\ h \in Slots /\ B(h) > 0
           /\ A(s)' = A(s) /\ B(s)' = B(s) - One(h, s) /\ E(s)' = E(s)
           /\ s # h => C(s)' = C(s) /\ D(s)' = D(s)
           /\ C(h)' /\ (C(h) => D(h)' = D(h)) /\ (D(h)' => D(h))
  <1>2. /\ toMic \in Seq(Slots) /\ toMic # <<>> /\ toMic' = Tail(toMic) /\ h \in Slots
        /\ toMic[1] = h /\ Len(toMic) \in Nat /\ Len(toMic) > 0
    BY SeqFacts DEF ArriveMic, TypeInv, SignalTypes
  <1>3. Count(toMic', s) = Count(toMic, s) - One(h, s)
    BY <1>2, CountPop
  <1>4. Count(toMic, h) > 0
    <2>1. 1 \in 1..Len(toMic)
      BY <1>2
    <2>2. Count(toMic, h) # 0 /\ Count(toMic, h) \in Nat
      BY <1>2, <2>1, CountPositive, CountType
    <2> QED BY <2>2
  <1>5. /\ mring \in [Slots -> Statuses] /\ mring' = [mring EXCEPT ![h] = "h2d"]
        /\ UNCHANGED <<launched, toHost, mcur, mpc, pc, slot>>
    BY DEF ArriveMic, TypeInv, MasterTypes, hostVars, masterVars, workerVars
  <1>6. A(s)' = A(s) /\ E(s)' = E(s) /\ (s # h => C(s)' = C(s) /\ D(s)' = D(s))
    BY <1>2, <1>5 DEF A, C, D, E, Ids, Leading
  <1>7. C(h)' /\ (D(h)' => D(h))
    BY <1>2, <1>5 DEF C, D, Leading
  <1>8. C(h) => D(h)' = D(h)
    BY <1>2, <1>5 DEF C, D, Leading, NotifyInv
  <1> QED BY <1>2, <1>3, <1>4, <1>6, <1>7, <1>8 DEF B

LEMMA PartsArriveHost ==
    ASSUME TypeInv, ArriveHost, NEW h, h = Head(toHost), NEW s \in Slots
    PROVE  /\ h \in Slots /\ E(h) > 0
           /\ A(s)' = A(s) /\ B(s)' = B(s) /\ E(s)' = E(s) - One(h, s)
           /\ C(s)' = C(s) /\ D(s)' = D(s)
  <1>2. /\ toHost \in Seq(Slots) /\ toHost # <<>> /\ toHost' = Tail(toHost) /\ h \in Slots
        /\ toHost[1] = h /\ Len(toHost) \in Nat /\ Len(toHost) > 0
    BY SeqFacts DEF ArriveHost, TypeInv, SignalTypes
  <1>3. Count(toHost', s) = Count(toHost, s) - One(h, s)
    BY <1>2, CountPop
  <1>4. Count(toHost, h) > 0
    <2>1. 1 \in 1..Len(toHost)
      BY <1>2
    <2>2. Count(toHost, h) # 0 /\ Count(toHost, h) \in Nat
      BY <1>2, <2>1, CountPositive, CountType
    <2> QED BY <2>2
  <1>5. A(s)' = A(s) /\ B(s)' = B(s) /\ C(s)' = C(s) /\ D(s)' = D(s)
    BY DEF A, B, C, D, Ids, Leading, ArriveHost, hostVars, masterVars, workerVars
  <1> QED BY <1>2, <1>3, <1>4, <1>5 DEF E

LEMMA PartsSplit ==
    ASSUME TypeInv, MasterSplit, NEW s
    PROVE  /\ A(s)' = A(s) /\ B(s)' = B(s) /\ C(s)' = C(s) /\ D(s)' = D(s) /\ E(s)' = E(s)
           /\ C(mcur) /\ mcur \in Slots
  BY DEF MasterSplit, TypeInv, MasterTypes, A, B, C, D, E, Ids, Leading, hostVars, workerVars

LEMMA PartsNotify ==
    ASSUME TypeInv, NotifyInv, MasterNotify, NEW m, m = mcur, NEW s \in Slots
    PROVE  /\ A(s)' = A(s) /\ B(s)' = B(s) /\ E(s)' = E(s)
           /\ s # m => C(s)' = C(s) /\ D(s)' = D(s)
           /\ C(m) /\ ~C(m)' /\ D(m)' /\ (D(m) <=> Leading(m)) /\ m \in Slots
  <1>1. /\ mring \in [Slots -> Statuses] /\ mring' = [mring EXCEPT ![m] = "ready"] /\ m \in Slots
        /\ mpc = "notify" /\ mpc' = "wait"
        /\ UNCHANGED <<launched, toMic, toHost, pc, slot>>
    BY DEF MasterNotify, TypeInv, MasterTypes, hostVars, workerVars
  <1> QED BY <1>1 DEF A, B, C, D, E, Ids, Leading, NotifyInv

\* The leader's slot.
LEMMA LeaderSlot ==
    ASSUME TypeInv, BarrierInv, pc[0] # "top" PROVE slot[0] = cur_task_id /\ cur_task_id \in Slots
  BY DEF TypeInv, WorkerTypes, BarrierInv, LeaderInv

LEMMA PartsWorker ==
    ASSUME TypeInv, BarrierInv, NEW w \in Tids, Worker(w), ~SignalHost, NEW s \in Slots
    PROVE  A(s)' = A(s) /\ B(s)' = B(s) /\ C(s)' = C(s) /\ D(s)' = D(s) /\ E(s)' = E(s)
  <1>1. /\ pc \in [Tids -> Pcs] /\ slot \in [Tids -> Slots] /\ 0 \in Tids
        /\ UNCHANGED <<launched, toMic, toHost, mring, mcur, mpc>>
    BY Constants DEF TypeInv, WorkerTypes, Worker, Top, Run, PollReady, LeadReady, Advance, LeadDone,
         ArriveReady, LeaveReady, ArriveDone, LeaveDone, others, hostVars, masterVars
  <1>2. CASE w # 0
    <2>1. pc'[0] = pc[0] /\ slot'[0] = slot[0]
      BY <1>1, <1>2 DEF Worker, Top, Run, ArriveReady, LeaveReady, ArriveDone, LeaveDone
    <2> QED BY <1>1, <2>1 DEF A, B, C, D, E, Ids, Leading
  <1>3. CASE w = 0
    <2>1. CASE PollReady
      BY <1>1, <2>1 DEF A, B, C, D, E, Ids, Leading, PollReady
    <2>2. CASE ~PollReady
      <3>1. Leading(s)' = Leading(s)
        <4>1. CASE Top(0)
          BY <1>1, <4>1 DEF Leading, Top
        <4>2. CASE Run(0)
          <5>1. slot[0] = cur_task_id
            BY <4>2, LeaderSlot DEF Run
          <5> QED BY <1>1, <4>2, <5>1 DEF Leading, Run
        <4>3. CASE LeadReady \/ Advance \/ LeadDone
          BY <1>1, <4>3 DEF Leading, LeadReady, Advance, LeadDone
        <4> QED BY <1>3, <2>2, <4>1, <4>2, <4>3 DEF Worker
      <3> QED BY <1>1, <3>1 DEF A, B, C, D, E, Ids
    <2> QED BY <2>1, <2>2
  <1> QED BY <1>2, <1>3

LEMMA PartsPost ==
    ASSUME TypeInv, SignalHost, NEW p, p = slot[0], NEW s \in Slots
    PROVE  /\ p \in Slots /\ A(s)' = A(s) /\ B(s)' = B(s) /\ E(s)' = E(s) + One(p, s)
           /\ s # p => C(s)' = C(s) /\ D(s)' = D(s)
           /\ D(p) /\ ~D(p)' /\ (C(p)' => C(p))
  <1>1. /\ pc \in [Tids -> Pcs] /\ slot \in [Tids -> Slots] /\ 0 \in Tids /\ p \in Slots
        /\ pc[0] = "post" /\ pc' = [pc EXCEPT ![0] = "top"] /\ slot' = slot
        /\ mring \in [Slots -> Statuses] /\ mring' = [mring EXCEPT ![p] = "d2h"]
        /\ toHost \in Seq(Slots) /\ toHost' = Append(toHost, p)
        /\ UNCHANGED <<launched, toMic, mcur, mpc>>
    BY Constants DEF SignalHost, TypeInv, WorkerTypes, SignalTypes, MasterTypes, hostVars, masterVars
  <1>2. Count(toHost', s) = Count(toHost, s) + One(p, s)
    BY <1>1, CountPushBack
  <1>3. s # p => C(s)' = C(s) /\ D(s)' = D(s)
    BY <1>1 DEF C, D, Leading
  <1>4. D(p) /\ ~D(p)' /\ (C(p)' => C(p))
    BY <1>1 DEF C, D, Leading
  <1> QED BY <1>1, <1>2, <1>3, <1>4 DEF A, B, E, Ids

partVars == <<launched, toMic, toHost, mring, mcur, mpc, pc, slot>>

LEMMA PartsSame ==
    ASSUME UNCHANGED partVars, NEW s
    PROVE  A(s)' = A(s) /\ B(s)' = B(s) /\ C(s)' = C(s) /\ D(s)' = D(s) /\ E(s)' = E(s)
  BY DEF partVars, A, B, C, D, E, Ids, Leading

LEMMA NotifyInit == ASSUME Init PROVE NotifyInv
  BY DEF Init, NotifyInv

LEMMA NotifyStep ==
    ASSUME TypeInv, NotifyInv, [Next]_vars PROVE NotifyInv'
  <1>1. mring \in [Slots -> Statuses] /\ mcur \in Slots
    BY DEF TypeInv, MasterTypes
  <1>2. CASE ArriveMic \/ MasterSplit \/ MasterNotify \/ SignalHost
    <2>1. CASE ArriveMic
      BY <1>1, <2>1 DEF ArriveMic, masterVars, NotifyInv
    <2>2. CASE MasterSplit
      BY <1>1, <2>2 DEF MasterSplit, NotifyInv
    <2>3. CASE MasterNotify
      BY <1>1, <2>3 DEF MasterNotify, NotifyInv
    <2>4. CASE SignalHost
      BY <1>1, <2>4 DEF SignalHost, masterVars, NotifyInv
    <2> QED BY <1>2, <2>1, <2>2, <2>3, <2>4
  <1>3. CASE ~(ArriveMic \/ MasterSplit \/ MasterNotify \/ SignalHost)
    <2>1. CASE Host \/ ArriveHost \/ UNCHANGED vars
      <3>1. UNCHANGED <<mring, mcur, mpc>>
        BY <2>1 DEF Host, Poll, Offload, Resume, Execute, Wait, SignalMic, TakeBack, Requeue, ArriveHost,
             vars, masterVars
      <3> QED BY <3>1 DEF NotifyInv
    <2>2. ASSUME NEW w \in Tids, Worker(w) PROVE NotifyInv'
      <3>1. UNCHANGED <<mring, mcur, mpc>>
        BY <1>3, <2>2 DEF Worker, Top, Run, PollReady, LeadReady, Advance, LeadDone, ArriveReady,
             LeaveReady, ArriveDone, LeaveDone, others, masterVars
      <3> QED BY <3>1 DEF NotifyInv
    <2> QED BY <1>3, <2>1, <2>2 DEF Next, Master
  <1> QED BY <1>2, <1>3

LEMMA OwedType ==
    ASSUME TypeInv PROVE Owed \in [Slots -> Nat]
  <1>1. \A s \in Slots : Owed[s] \in Nat
    BY OwedParts DEF Bit
  <1>2. DOMAIN Owed = Slots /\ Owed = [s \in DOMAIN Owed |-> Owed[s]]
    BY DEF Owed
  <1> QED BY <1>1, <1>2

LEMMA OwedTypeNext ==
    ASSUME TypeInv' PROVE Owed' \in [Slots -> Nat]
  <1>1. \A s \in Slots : Owed'[s] \in Nat
    BY OwedPartsNext DEF Bit
  <1>2. DOMAIN Owed' = Slots /\ Owed' = [s \in DOMAIN Owed' |-> Owed'[s]]
    BY DEF Owed
  <1> QED BY <1>1, <1>2

\* A slot that owes one completion more, one less, or as many.
LEMMA OwedBy ==
    ASSUME TypeInv, TypeInv', NEW x \in Slots, NEW k \in Int,
           \A s \in Slots : Owed'[s] = IF s = x THEN Owed[s] + k ELSE Owed[s]
    PROVE  Owed' = [Owed EXCEPT ![x] = @ + k]
  <1>1. Owed \in [Slots -> Nat] /\ Owed' \in [Slots -> Nat]
    BY OwedType, OwedTypeNext
  <1>2. [Owed EXCEPT ![x] = @ + k] = [s \in Slots |-> IF s = x THEN Owed[s] + k ELSE Owed[s]]
    BY <1>1
  <1>3. Owed' = [s \in Slots |-> Owed'[s]]
    BY <1>1
  <1> QED BY <1>2, <1>3

LEMMA OwedKept ==
    ASSUME TypeInv, TypeInv',
           \A s \in Slots : A(s)' = A(s) /\ B(s)' = B(s) /\ C(s)' = C(s) /\ D(s)' = D(s) /\ E(s)' = E(s)
    PROVE  Owed' = Owed
  <1>1. \A s \in Slots : Owed'[s] = Owed[s]
    BY OwedParts, OwedPartsNext DEF Bit
  <1>2. Owed \in [Slots -> Nat] /\ Owed' \in [Slots -> Nat]
    BY OwedType, OwedTypeNext
  <1> QED BY <1>1, <1>2

LEMMA OwedExecute ==
    ASSUME TypeInv, TypeInv', NEW id \in Slots, NEW n \in Items, ioRing # <<>>, Execute(id, n),
           next_id' \in Slots, waiting' \in Seq(Slots)
    PROVE  Owed' = [Owed EXCEPT ![id] = @ + 1]
  <1>1. \A s \in Slots : Owed'[s] = IF s = id THEN Owed[s] + 1 ELSE Owed[s]
    <2> TAKE s \in Slots
    <2>1. /\ A(s)' = A(s) + One(id, s) /\ B(s)' = B(s) /\ E(s)' = E(s) /\ C(s)' = C(s) /\ D(s)' = D(s)
      BY PartsExecute
    <2>2. /\ A(s) \in Nat /\ B(s) \in Nat /\ E(s) \in Nat
          /\ Owed[s] = A(s) + B(s) + Bit(C(s)) + Bit(D(s)) + E(s)
      BY OwedParts
    <2>3. Owed'[s] = A(s)' + B(s)' + Bit(C(s)') + Bit(D(s)') + E(s)'
      BY OwedPartsNext
    <2> QED BY <2>1, <2>2, <2>3 DEF One, Bit
  <1> QED BY <1>1, OwedBy

LEMMA OwedArriveHost ==
    ASSUME TypeInv, TypeInv', ArriveHost, NEW h, h = Head(toHost)
    PROVE  h \in Slots /\ Owed[h] > 0 /\ Owed' = [Owed EXCEPT ![h] = @ - 1]
  <1>1. 0 \in Slots
    BY Constants
  <1>2. h \in Slots /\ E(h) > 0
    BY <1>1, PartsArriveHost
  <1>3. \A s \in Slots : Owed'[s] = IF s = h THEN Owed[s] + (-1) ELSE Owed[s]
    <2> TAKE s \in Slots
    <2>1. /\ A(s)' = A(s) /\ B(s)' = B(s) /\ E(s)' = E(s) - One(h, s) /\ C(s)' = C(s) /\ D(s)' = D(s)
      BY PartsArriveHost
    <2>2. /\ A(s) \in Nat /\ B(s) \in Nat /\ E(s) \in Nat
          /\ Owed[s] = A(s) + B(s) + Bit(C(s)) + Bit(D(s)) + E(s)
      BY OwedParts
    <2>3. Owed'[s] = A(s)' + B(s)' + Bit(C(s)') + Bit(D(s)') + E(s)'
      BY OwedPartsNext
    <2> QED BY <2>1, <2>2, <2>3 DEF One, Bit
  <1>4. Owed[h] > 0
    BY <1>2, OwedParts DEF Bit
  <1>5. Owed' = [Owed EXCEPT ![h] = @ + (-1)]
    BY <1>2, <1>3, OwedBy
  <1>6. Owed[h] + (-1) = Owed[h] - 1
    BY <1>2, OwedType
  <1> QED BY <1>2, <1>4, <1>5, <1>6

\* A task is dropped only where the slot owes another completion.
Merged == \E s \in Slots : Owed[s] > 1 /\ Owed' = [Owed EXCEPT ![s] = @ - 1]

LEMMA OwedMerged ==
    ASSUME TypeInv, TypeInv', NEW x \in Slots,
           \A s \in Slots \ {x} : /\ A(s)' = A(s) /\ B(s)' = B(s) /\ E(s)' = E(s)
                                  /\ C(s)' = C(s) /\ D(s)' = D(s),
           Owed'[x] = Owed[x] \/ (Owed[x] > 1 /\ Owed'[x] = Owed[x] - 1)
    PROVE  Owed' = Owed \/ Merged
  <1>1. \A s \in Slots \ {x} : Owed'[s] = Owed[s]
    BY OwedParts, OwedPartsNext DEF Bit
  <1>2. Owed \in [Slots -> Nat] /\ Owed' \in [Slots -> Nat]
    BY OwedType, OwedTypeNext
  <1>3. CASE Owed'[x] = Owed[x]
    <2>1. \A s \in Slots : Owed'[s] = Owed[s]
      BY <1>1, <1>3
    <2> QED BY <1>2, <2>1
  <1>4. CASE Owed[x] > 1 /\ Owed'[x] = Owed[x] - 1
    <2>1. \A s \in Slots : Owed'[s] = IF s = x THEN Owed[s] + (-1) ELSE Owed[s]
      BY <1>1, <1>2, <1>4
    <2>2. Owed' = [Owed EXCEPT ![x] = @ + (-1)]
      BY <2>1, OwedBy
    <2>3. Owed[x] + (-1) = Owed[x] - 1
      BY <1>2
    <2> QED BY <1>4, <2>2, <2>3 DEF Merged
  <1> QED BY <1>3, <1>4

LEMMA OwedElse ==
    ASSUME TypeInv, TypeInv', BarrierInv, NotifyInv,
           \/ Wait \/ SignalMic \/ Poll \/ ArriveMic \/ Master
           \/ \E w \in Tids : Worker(w)
           \/ UNCHANGED vars
    PROVE  Owed' = Owed \/ Merged
  <1>1. CASE SignalMic
    <2>1. PICK id : id = Head(launched).id
      OBVIOUS
    <2>2. ASSUME NEW s \in Slots PROVE Owed'[s] = Owed[s]
      <3>1. /\ A(s)' = A(s) - One(id, s) /\ B(s)' = B(s) + One(id, s) /\ E(s)' = E(s)
            /\ C(s)' = C(s) /\ D(s)' = D(s)
        BY <1>1, <2>1, PartsSignalMic
      <3>2. /\ A(s) \in Nat /\ B(s) \in Nat /\ E(s) \in Nat
            /\ Owed[s] = A(s) + B(s) + Bit(C(s)) + Bit(D(s)) + E(s)
        BY OwedParts
      <3>3. Owed'[s] = A(s)' + B(s)' + Bit(C(s)') + Bit(D(s)') + E(s)'
        BY OwedPartsNext
      <3> QED BY <3>1, <3>2, <3>3 DEF One, Bit
    <2>3. Owed \in [Slots -> Nat] /\ Owed' \in [Slots -> Nat]
      BY OwedType, OwedTypeNext
    <2> QED BY <2>2, <2>3
  <1>2. CASE ArriveMic
    <2>1. PICK h : h = Head(toMic)
      OBVIOUS
    <2>2. 0 \in Slots
      BY Constants
    <2>3. h \in Slots
      BY <1>2, <2>1, <2>2, PartsArriveMic
    <2>4. /\ B(h) > 0 /\ A(h)' = A(h) /\ B(h)' = B(h) - 1 /\ E(h)' = E(h)
          /\ C(h)' /\ (C(h) => D(h)' = D(h)) /\ (D(h)' => D(h))
      BY <1>2, <2>1, <2>3, PartsArriveMic DEF One
    <2>5. /\ A(h) \in Nat /\ B(h) \in Nat /\ E(h) \in Nat
          /\ Owed[h] = A(h) + B(h) + Bit(C(h)) + Bit(D(h)) + E(h)
          /\ C(h) \in BOOLEAN /\ D(h) \in BOOLEAN /\ D(h)' \in BOOLEAN
          /\ Owed'[h] = A(h)' + B(h)' + Bit(C(h)') + Bit(D(h)') + E(h)'
      BY <2>3, OwedParts, OwedPartsNext
    <2>6. Owed'[h] = Owed[h] \/ (Owed[h] > 1 /\ Owed'[h] = Owed[h] - 1)
      BY <2>4, <2>5 DEF Bit
    <2>7. ASSUME NEW s \in Slots \ {h}
          PROVE  A(s)' = A(s) /\ B(s)' = B(s) /\ E(s)' = E(s) /\ C(s)' = C(s) /\ D(s)' = D(s)
      <3>1. B(s) \in Nat
        BY OwedParts
      <3> QED BY <1>2, <2>1, <3>1, PartsArriveMic DEF One
    <2> QED BY <2>3, <2>6, <2>7, OwedMerged
  <1>3. CASE MasterSplit
    BY <1>3, PartsSplit, OwedKept
  <1>4. CASE MasterNotify
    <2>1. PICK m : m = mcur
      OBVIOUS
    <2>2. 0 \in Slots
      BY Constants
    <2>3. m \in Slots
      BY <1>4, <2>1, <2>2, PartsNotify
    <2>4. /\ A(m)' = A(m) /\ B(m)' = B(m) /\ E(m)' = E(m) /\ C(m) /\ ~C(m)' /\ D(m)'
      BY <1>4, <2>1, <2>3, PartsNotify
    <2>5. /\ A(m) \in Nat /\ B(m) \in Nat /\ E(m) \in Nat /\ D(m) \in BOOLEAN
          /\ Owed[m] = A(m) + B(m) + Bit(C(m)) + Bit(D(m)) + E(m)
          /\ Owed'[m] = A(m)' + B(m)' + Bit(C(m)') + Bit(D(m)') + E(m)'
      BY <2>3, OwedParts, OwedPartsNext
    <2>6. Owed'[m] = Owed[m] \/ (Owed[m] > 1 /\ Owed'[m] = Owed[m] - 1)
      BY <2>4, <2>5 DEF Bit
    <2>7. \A s \in Slots \ {m} :
            A(s)' = A(s) /\ B(s)' = B(s) /\ E(s)' = E(s) /\ C(s)' = C(s) /\ D(s)' = D(s)
      BY <1>4, <2>1, PartsNotify
    <2> QED BY <2>3, <2>6, <2>7, OwedMerged
  <1>5. CASE SignalHost
    <2>1. PICK p : p = slot[0]
      OBVIOUS
    <2>2. 0 \in Slots
      BY Constants
    <2>3. p \in Slots
      BY <1>5, <2>1, <2>2, PartsPost
    <2>4. /\ A(p)' = A(p) /\ B(p)' = B(p) /\ E(p)' = E(p) + 1 /\ D(p) /\ ~D(p)' /\ (C(p)' => C(p))
      BY <1>5, <2>1, <2>3, PartsPost DEF One
    <2>5. /\ A(p) \in Nat /\ B(p) \in Nat /\ E(p) \in Nat /\ C(p) \in BOOLEAN /\ C(p)' \in BOOLEAN
          /\ Owed[p] = A(p) + B(p) + Bit(C(p)) + Bit(D(p)) + E(p)
          /\ Owed'[p] = A(p)' + B(p)' + Bit(C(p)') + Bit(D(p)') + E(p)'
      BY <2>3, OwedParts, OwedPartsNext
    <2>6. Owed'[p] = Owed[p] \/ (Owed[p] > 1 /\ Owed'[p] = Owed[p] - 1)
      BY <2>4, <2>5 DEF Bit
    <2>7. ASSUME NEW s \in Slots \ {p}
          PROVE  A(s)' = A(s) /\ B(s)' = B(s) /\ E(s)' = E(s) /\ C(s)' = C(s) /\ D(s)' = D(s)
      <3>1. E(s) \in Nat
        BY OwedParts
      <3> QED BY <1>5, <2>1, <3>1, PartsPost DEF One
    <2> QED BY <2>3, <2>6, <2>7, OwedMerged
  <1>6. ASSUME NEW w \in Tids, Worker(w), ~SignalHost PROVE Owed' = Owed
    BY <1>6, PartsWorker, OwedKept
  <1>7. CASE Wait \/ Poll \/ UNCHANGED vars
    <2>1. UNCHANGED partVars
      BY <1>7 DEF Wait, Poll, TakeBack, Requeue, vars, hostVars, masterVars, workerVars, partVars
    <2> QED BY <2>1, PartsSame, OwedKept
  <1> QED BY <1>1, <1>2, <1>3, <1>4, <1>5, <1>6, <1>7 DEF Master

-----------------------------------------------------------------------------
(* A slot that is not shared                                               *)

AloneInv == \A s \in Slots \ shared : Owed[s] <= 1

LEMMA AloneInit == ASSUME Init PROVE AloneInv /\ Owed = [s \in Slots |-> 0]
  <1>1. Ids(launched) = <<>> /\ toMic = <<>> /\ toHost = <<>>
    BY DEF Init, Ids
  <1>2. \A s \in Slots : ~C(s) /\ ~D(s)
    BY Constants DEF Init, C, D, Leading
  <1>3. \A s \in Slots : Owed[s] = 0
    BY <1>1, <1>2, CountEmpty DEF Owed, C, D, Bit
  <1>4. Owed = [s \in Slots |-> 0]
    BY <1>3 DEF Owed
  <1> QED BY <1>3, <1>4 DEF AloneInv

\* Every step but one that executes a task.
NoTask ==
    \/ Wait \/ SignalMic \/ Poll \/ ArriveMic \/ ArriveHost \/ Master
    \/ \E w \in Tids : Worker(w)
    \/ UNCHANGED vars

LEMMA SharedKept ==
    ASSUME NoTask PROVE shared' = shared
  BY DEF NoTask, Wait, SignalMic, Poll, TakeBack, Requeue, ArriveMic, ArriveHost, Master, MasterSplit,
         MasterNotify, Worker, Top, Run, PollReady, LeadReady, Advance, LeadDone, SignalHost, ArriveReady,
         LeaveReady, ArriveDone, LeaveDone, others, vars

LEMMA AloneStep ==
    ASSUME TypeInv, TypeInv', BarrierInv, NotifyInv, AloneInv, [Next]_vars PROVE AloneInv'
  <1>1. Owed \in [Slots -> Nat]
    BY OwedType
  <1>2. CASE NoTask
    <2>1. \A s \in Slots : Owed'[s] <= Owed[s]
      <3>1. CASE ArriveHost
        <4>1. PICK h : h = Head(toHost)
          OBVIOUS
        <4>2. h \in Slots /\ Owed' = [Owed EXCEPT ![h] = @ - 1]
          BY <3>1, <4>1, OwedArriveHost
        <4> QED BY <1>1, <4>2
      <3>2. CASE ~ArriveHost
        <4>1. Owed' = Owed \/ Merged
          BY <1>2, <3>2, OwedElse DEF NoTask
        <4> QED BY <1>1, <4>1 DEF Merged
      <3> QED BY <3>1, <3>2
    <2>2. Owed' \in [Slots -> Nat] /\ shared' = shared
      BY <1>2, OwedTypeNext, SharedKept
    <2> QED BY <1>1, <2>1, <2>2 DEF AloneInv
  <1>3. ASSUME NEW n \in Items, Offload(n) \/ Resume(n) PROVE AloneInv'
    <2>1. PICK id \in Slots : /\ Execute(id, n) /\ ioRing # <<>>
                              /\ next_id' \in Slots /\ waiting' \in Seq(Slots)
      BY <1>3, Executed
    <2>2. Owed' = [Owed EXCEPT ![id] = @ + 1]
      BY <2>1, OwedExecute
    <2>3. shared' = IF Owed[id] = 0 THEN shared \ {id} ELSE shared \cup {id}
      BY <2>1 DEF Execute
    <2> QED BY <1>1, <2>2, <2>3 DEF AloneInv
  <1> QED BY <1>2, <1>3 DEF Next, Host, NoTask

-----------------------------------------------------------------------------
(* The order of the completions                                            *)

Lead == IF pc[0] = "top" THEN next_task_id ELSE slot[0]

OrderInv ==
    /\ \A j \in 1..(Len(toHost) - 1) : toHost[j + 1] = After(toHost[j])
    /\ toHost # <<>> => Lead = After(toHost[Len(toHost)])
    /\ pc[0] \in {"run", "lead_done", "post"} => next_task_id = After(slot[0])

LEMMA OrderInit == ASSUME Init PROVE OrderInv /\ Turn = 0
  BY Constants DEF Init, OrderInv, Turn

LEMMA LeadSame ==
    ASSUME TypeInv, BarrierInv, OrderInv, [Next]_vars, ~SignalHost
    PROVE  /\ Lead' = Lead
           /\ pc'[0] \in {"run", "lead_done", "post"} => next_task_id' = After(slot'[0])
  <1>1. pc \in [Tids -> Pcs] /\ slot \in [Tids -> Slots] /\ 0 \in Tids
    BY Constants DEF TypeInv, WorkerTypes
  <1>2. ASSUME UNCHANGED <<pc, slot, next_task_id>> PROVE
           /\ Lead' = Lead
           /\ pc'[0] \in {"run", "lead_done", "post"} => next_task_id' = After(slot'[0])
    BY <1>2 DEF Lead, OrderInv
  <1>3. ASSUME NEW w \in Tids, Worker(w) PROVE
           /\ Lead' = Lead
           /\ pc'[0] \in {"run", "lead_done", "post"} => next_task_id' = After(slot'[0])
    <2>1. CASE w # 0
      <3>1. pc'[0] = pc[0] /\ slot'[0] = slot[0] /\ next_task_id' = next_task_id
        BY <1>1, <1>3, <2>1 DEF Worker, Top, Run, ArriveReady, LeaveReady, ArriveDone, LeaveDone
      <3> QED BY <3>1 DEF Lead, OrderInv
    <2>2. CASE Top(0)
      BY <1>1, <2>2 DEF Top, Lead, OrderInv
    <2>3. CASE Run(0)
      <3>1. slot[0] = cur_task_id
        BY <2>3, LeaderSlot DEF Run
      <3> QED BY <1>1, <2>3, <3>1 DEF Run, Lead, OrderInv
    <2>4. CASE Advance
      <3>1. next_task_id' = After(slot[0])
        BY <1>1, <2>4, NextSlot DEF Advance
      <3> QED BY <1>1, <2>4, <3>1 DEF Advance, Lead, OrderInv
    <2>5. CASE PollReady \/ LeadReady \/ LeadDone
      BY <1>1, <2>5 DEF PollReady, LeadReady, LeadDone, Lead, OrderInv
    <2> QED BY <1>3, <2>1, <2>2, <2>3, <2>4, <2>5 DEF Worker
  <1>4. ASSUME ~\E w \in Tids : Worker(w) PROVE UNCHANGED <<pc, slot, next_task_id>>
    BY <1>4 DEF Next, Host, Poll, Master, Offload, Resume, Execute, Wait, SignalMic, TakeBack, Requeue,
         ArriveMic, ArriveHost, MasterSplit, MasterNotify, vars, workerVars
  <1> QED BY <1>2, <1>3, <1>4

LEMMA ToHostSame ==
    ASSUME [Next]_vars, ~SignalHost, ~ArriveHost PROVE toHost' = toHost
  <1>1. ASSUME NEW w \in Tids, Worker(w) PROVE toHost' = toHost
    BY <1>1 DEF Worker, Top, Run, PollReady, LeadReady, Advance, LeadDone, ArriveReady, LeaveReady,
         ArriveDone, LeaveDone, others
  <1>2. ASSUME ~\E w \in Tids : Worker(w) PROVE toHost' = toHost
    BY <1>2 DEF Next, Host, Poll, Master, Offload, Resume, Execute, Wait, SignalMic, TakeBack, Requeue,
         ArriveMic, MasterSplit, MasterNotify, vars
  <1> QED BY <1>1, <1>2

\* The slot that completes next is the one after it when a completion arrives, and else the same.
LEMMA OrderStep ==
    ASSUME TypeInv, BarrierInv, OrderInv, [Next]_vars
    PROVE  OrderInv' /\ Turn \in Slots /\ Turn' = IF ArriveHost THEN After(Turn) ELSE Turn
  <1>1. /\ pc \in [Tids -> Pcs] /\ slot \in [Tids -> Slots] /\ 0 \in Tids /\ next_task_id \in Slots
        /\ toHost \in Seq(Slots) /\ Len(toHost) \in Nat
    BY Constants DEF TypeInv, WorkerTypes, SignalTypes
  <1>2. toHost # <<>> => Len(toHost) > 0 /\ Head(toHost) = toHost[1] /\ Head(toHost) \in Slots
    BY <1>1, SeqFacts
  <1>3. Turn \in Slots /\ Turn = IF toHost # <<>> THEN toHost[1] ELSE Lead
    BY <1>1, <1>2 DEF Turn, Lead
  <1>4. CASE SignalHost
    <2>1. /\ pc[0] = "post" /\ pc' = [pc EXCEPT ![0] = "top"] /\ toHost' = Append(toHost, slot[0])
          /\ UNCHANGED <<slot, next_task_id>> /\ slot[0] \in Slots
      BY <1>1, <1>4 DEF SignalHost
    <2>2. /\ toHost' \in Seq(Slots) /\ Len(toHost') = Len(toHost) + 1
          /\ \A i \in 1..Len(toHost) : toHost'[i] = toHost[i]
          /\ toHost'[Len(toHost) + 1] = slot[0]
      BY <1>1, <2>1, SeqFacts
    <2>3. toHost' # <<>> /\ Head(toHost') = toHost'[1] /\ Lead' = After(slot[0]) /\ Lead = slot[0]
      <3>1. toHost' # <<>>
        BY <1>1, <2>2
      <3>2. Head(toHost') = toHost'[1]
        BY <2>2, <3>1, SeqFacts
      <3> QED BY <1>1, <2>1, <3>1, <3>2 DEF Lead, OrderInv
    <2>4. ASSUME NEW j \in 1..(Len(toHost') - 1) PROVE toHost'[j + 1] = After(toHost'[j])
      <3>1. j \in 1..Len(toHost) /\ toHost'[j] = toHost[j]
        BY <1>1, <2>2
      <3>2. CASE j = Len(toHost)
        <4>1. toHost # <<>>
          BY <1>1, <3>1
        <4> QED BY <2>2, <2>3, <3>1, <3>2, <4>1 DEF OrderInv
      <3>3. CASE j # Len(toHost)
        <4>1. j \in 1..(Len(toHost) - 1) /\ j + 1 \in 1..Len(toHost)
          BY <1>1, <3>1, <3>3
        <4> QED BY <2>2, <3>1, <4>1 DEF OrderInv
      <3> QED BY <3>2, <3>3
    <2>5. OrderInv'
      <3>1. Lead' = After(toHost'[Len(toHost')])
        BY <2>2, <2>3
      <3>2. pc'[0] = "top"
        BY <1>1, <2>1
      <3> QED BY <2>4, <3>1, <3>2 DEF OrderInv
    <2>6. Turn' = Turn
      <3>1. Turn' = toHost'[1]
        BY <2>3 DEF Turn
      <3>2. CASE toHost = <<>>
        BY <1>3, <2>2, <2>3, <3>1, <3>2
      <3>3. CASE toHost # <<>>
        <4>1. 1 \in 1..Len(toHost)
          BY <1>1, <1>2, <3>3
        <4> QED BY <1>3, <2>2, <3>1, <3>3, <4>1
      <3> QED BY <3>2, <3>3
    <2>7. ~ArriveHost
      <3>1. pc' # pc
        BY <1>1, <2>1
      <3> QED BY <3>1 DEF ArriveHost, workerVars
    <2> QED BY <1>3, <2>5, <2>6, <2>7
  <1>5. CASE ArriveHost
    <2>1. toHost # <<>> /\ toHost' = Tail(toHost) /\ UNCHANGED <<pc, slot, next_task_id>>
      BY <1>5 DEF ArriveHost, workerVars
    <2>2. /\ toHost' \in Seq(Slots) /\ Len(toHost') = Len(toHost) - 1
          /\ \A i \in 1..(Len(toHost) - 1) : toHost'[i] = toHost[i + 1]
      BY <1>1, <2>1, SeqFacts
    <2>3. toHost' # <<>> => /\ Len(toHost') > 0 /\ Head(toHost') = toHost'[1]
      BY <2>2, SeqFacts
    <2>4. Lead' = Lead
      BY <2>1 DEF Lead
    <2>5. ASSUME NEW j \in 1..(Len(toHost') - 1) PROVE toHost'[j + 1] = After(toHost'[j])
      <3>1. j \in 1..(Len(toHost) - 1) /\ j + 1 \in 1..(Len(toHost) - 1)
        BY <1>1, <2>2
      <3> QED BY <2>2, <3>1 DEF OrderInv
    <2>6. toHost' # <<>> => Lead' = After(toHost'[Len(toHost')])
      <3>1. SUFFICES ASSUME toHost' # <<>> PROVE Lead' = After(toHost'[Len(toHost')])
        OBVIOUS
      <3>2. Len(toHost') \in 1..(Len(toHost) - 1) /\ Len(toHost') + 1 = Len(toHost)
        BY <1>1, <2>2, <2>3, <3>1
      <3> QED BY <2>1, <2>2, <2>4, <3>2 DEF OrderInv
    <2>7. OrderInv'
      BY <2>1, <2>5, <2>6 DEF OrderInv
    <2>8. Turn' = After(Turn)
      <3>1. Turn = toHost[1]
        BY <1>3, <2>1
      <3>2. CASE toHost' = <<>>
        <4>1. Len(toHost) = 1
          BY <1>1, <2>2, <3>2
        <4>2. Turn' = Lead'
          BY <3>2 DEF Turn, Lead
        <4> QED BY <2>1, <2>4, <3>1, <4>1, <4>2 DEF OrderInv
      <3>3. CASE toHost' # <<>>
        <4>1. 1 \in 1..(Len(toHost) - 1)
          BY <1>1, <2>2, <2>3, <3>3
        <4>2. toHost'[1] = toHost[1 + 1] /\ toHost[1 + 1] = After(toHost[1])
          BY <2>2, <4>1 DEF OrderInv
        <4> QED BY <2>3, <3>1, <3>3, <4>2 DEF Turn
      <3> QED BY <3>2, <3>3
    <2> QED BY <1>3, <1>5, <2>7, <2>8
  <1>6. CASE ~SignalHost /\ ~ArriveHost
    <2>1. /\ Lead' = Lead /\ toHost' = toHost
          /\ pc'[0] \in {"run", "lead_done", "post"} => next_task_id' = After(slot'[0])
      BY <1>6, LeadSame, ToHostSame
    <2>2. OrderInv'
      BY <2>1 DEF OrderInv
    <2>3. Turn' = Turn
      BY <2>1 DEF Turn, Lead
    <2> QED BY <1>3, <1>6, <2>2, <2>3
  <1> QED BY <1>4, <1>5, <1>6

LEMMA ServerStep ==
    ASSUME TypeInv, TypeInv', BarrierInv, NotifyInv, OrderInv, [Next]_vars
    PROVE  [Server!Next]_<<Owed, Turn>>
  <1>1. Turn \in Slots /\ Turn' = IF ArriveHost THEN After(Turn) ELSE Turn
    BY OrderStep
  <1>2. Slots = Server!Slots
    BY DEF Slots, Server!Slots
  <1>3. CASE ArriveHost
    <2>1. Turn = Head(toHost)
      BY <1>3 DEF ArriveHost, Turn
    <2>2. Owed[Turn] > 0 /\ Owed' = [Owed EXCEPT ![Turn] = @ - 1]
      BY <1>3, <2>1, OwedArriveHost
    <2>3. Turn' = (Turn + 1) % Len0
      BY <1>1, <1>3, NextSlot
    <2>4. Server!Complete
      BY <2>2, <2>3 DEF Server!Complete
    <2> QED BY <2>4 DEF Server!Next
  <1>4. CASE NoTask /\ ~ArriveHost
    <2>1. Owed' = Owed \/ Merged
      BY <1>4, OwedElse DEF NoTask
    <2>2. CASE Merged
      <3>1. PICK s \in Slots : Owed[s] > 1 /\ Owed' = [Owed EXCEPT ![s] = @ - 1]
        BY <2>2 DEF Merged
      <3>2. Server!Merge(s)
        BY <1>1, <1>4, <3>1 DEF Server!Merge
      <3> QED BY <1>2, <3>2 DEF Server!Next
    <2> QED BY <1>1, <1>4, <2>1, <2>2
  <1>5. ASSUME NEW n \in Items, Offload(n) \/ Resume(n) PROVE Server!Next
    <2>1. PICK id \in Slots : /\ Execute(id, n) /\ ioRing # <<>>
                              /\ next_id' \in Slots /\ waiting' \in Seq(Slots)
      BY <1>5, Executed
    <2>2. Owed' = [Owed EXCEPT ![id] = @ + 1]
      BY <2>1, OwedExecute
    <2>3. ~ArriveHost
      <3>1. launched' # launched
        <4>1. launched \in Seq(Entry) /\ [id |-> id, io |-> Head(ioRing)] \in Entry
          BY <2>1, TypesExecute DEF TypeInv, HostTypes
        <4>2. launched' = Append(launched, [id |-> id, io |-> Head(ioRing)])
          BY <2>1 DEF Execute
        <4>3. Len(launched') = Len(launched) + 1 /\ Len(launched) \in Nat
          BY <4>1, <4>2, SeqFacts
        <4> QED BY <4>3
      <3> QED BY <3>1 DEF ArriveHost, hostVars
    <2>4. Server!Give(id)
      BY <1>1, <2>2, <2>3 DEF Server!Give
    <2> QED BY <1>2, <2>4 DEF Server!Next
  <1> QED BY <1>3, <1>4, <1>5 DEF Next, Host, NoTask

-----------------------------------------------------------------------------
(* The shares                                                              *)

\* The items of worker w of n.
SplitOf(n) == [w \in Tids |-> [begin |-> Remaining(n, w + 1),
                               num |-> Remaining(n, w) - Remaining(n, w + 1)]]
Has(s, w, k) == work[s][w].begin <= k /\ k < work[s][w].begin + work[s][w].num

\* The worker has processed its share of the task in a slot.
Ran(w, s) ==
    /\ cur_task_id = s
    /\ \/ pc[0] = "post"
       \/ ~Gathering /\ pc[w] \in {"arrive_done", "spin_done", "lead_done"}

LEMMA ItemIdsNat == ItemIds \subseteq Nat
  <1>1. MaxItems \in Items
    BY DeviceAssumption DEF MaxItems
  <1>2. MaxItems \in Nat
    BY <1>1, DeviceAssumption
  <1> QED BY <1>2 DEF ItemIds, Untouched

LEMMA DivFloor ==
    ASSUME NEW m \in Nat, NEW d \in Nat, d > 0
    PROVE  m \div d \in Nat /\ d * (m \div d) <= m /\ m < d * (m \div d) + d
  BY SMTT(30)

\* A product is as large as its first factor says.
LEMMA Monotone ==
    ASSUME NEW a \in Nat, NEW b \in Nat, NEW d \in Nat, a <= b
    PROVE  a * d <= b * d
  BY SMTT(30)

\* Every item has exactly one worker, and what is not an item has none.
LEMMA SharesCover ==
    ASSUME NEW n \in Nat, NEW k \in Nat
    PROVE  (\E w \in Tids : Remaining(n, w + 1) <= k /\ k < Remaining(n, w)) <=> k < n
  <1> DEFINE d == Share(n)
  <1>1. d \in Nat /\ d >= 1 /\ Workers * d > n /\ Workers \in Nat /\ Workers > 0
    BY ShareEnough, DeviceAssumption
  <1> HIDE DEF d
  <1>2. ASSUME NEW w \in Tids, k < Remaining(n, w) PROVE k < n
    <2>1. Remaining(n, w) \in Nat /\ Remaining(n, w) <= n
      BY RemainingType, Constants
    <2> QED BY <1>2, <2>1
  <1>3. ASSUME k < n PROVE \E w \in Tids : Remaining(n, w + 1) <= k /\ k < Remaining(n, w)
    <2>1. PICK m \in Nat : m = n - 1 - k
      BY <1>3
    <2>2. PICK w : w = m \div d
      OBVIOUS
    <2>3. w \in Nat /\ d * w <= m /\ m < d * w + d
      BY <1>1, <2>1, <2>2, DivFloor
    <2>4. PICK p \in Int : p = w * d
      BY <1>1, <2>3
    <2>5. d * w = p /\ (w + 1) * d = p + d
      BY <1>1, <2>3, <2>4, SMTT(30)
    <2>6. p <= m /\ m < p + d
      BY <2>3, <2>5
    <2>7. ASSUME w >= Workers PROVE FALSE
      <3>1. Workers * d <= w * d
        BY <1>1, <2>3, <2>7, Monotone
      <3>2. PICK t \in Int : t = Workers * d
        BY <1>1
      <3> QED BY <3>1, <3>2, <1>1, <1>3, <2>1, <2>4, <2>6
    <2>8. w \in Tids
      BY <1>1, <2>3, <2>7 DEF Tids
    <2>9. k < Remaining(n, w)
      <3>1. Remaining(n, w) = IF p >= n THEN 0 ELSE n - p
        BY <2>4 DEF Remaining, d
      <3> QED BY <3>1, <1>3, <2>1, <2>6
    <2>10. Remaining(n, w + 1) <= k
      <3>1. Remaining(n, w + 1) = IF p + d >= n THEN 0 ELSE n - (p + d)
        BY <2>5 DEF Remaining, d
      <3> QED BY <3>1, <1>1, <1>3, <2>1, <2>6
    <2> QED BY <2>8, <2>9, <2>10
  <1> QED BY <1>2, <1>3

LEMMA SharesDisjoint ==
    ASSUME NEW n \in Nat, NEW k \in Nat, NEW v \in Tids, NEW w \in Tids, v < w,
           Remaining(n, v + 1) <= k, k < Remaining(n, w)
    PROVE  FALSE
  <1> DEFINE d == Share(n)
  <1>1. d \in Nat /\ v \in Nat /\ w \in Nat /\ v + 1 \in Nat /\ v + 1 <= w
    BY ShareEnough, Constants
  <1> HIDE DEF d
  <1>2. (v + 1) * d <= w * d
    BY <1>1, Monotone
  <1>3. PICK p \in Int : p = (v + 1) * d
    BY <1>1
  <1>4. PICK q \in Int : q = w * d
    BY <1>1
  <1>5. Remaining(n, v + 1) = IF p >= n THEN 0 ELSE n - p
    BY <1>3 DEF Remaining, d
  <1>6. Remaining(n, w) = IF q >= n THEN 0 ELSE n - q
    BY <1>4 DEF Remaining, d
  <1> QED BY <1>2, <1>3, <1>4, <1>5, <1>6

\* The same of the work that was given out for a slot.
LEMMA WorkShares ==
    ASSUME NEW s, item[s] \in Nat, work[s] = SplitOf(item[s])
    PROVE  /\ \A k \in ItemIds : (\E w \in Tids : Has(s, w, k)) <=> k < item[s]
           /\ \A k \in ItemIds : \A v, w \in Tids : Has(s, v, k) /\ Has(s, w, k) => v = w
  <1> DEFINE n == item[s]
  <1>1. \A k \in ItemIds, w \in Tids :
            Has(s, w, k) <=> Remaining(n, w + 1) <= k /\ k < Remaining(n, w)
    <2> TAKE k \in ItemIds, w \in Tids
    <2>1. w \in Nat /\ w + 1 \in Nat
      BY Constants
    <2>2. Remaining(n, w) \in Nat
      BY <2>1, RemainingType
    <2>3. Remaining(n, w + 1) \in Nat
      BY <2>1, RemainingType
    <2>4. /\ work[s][w].begin = Remaining(n, w + 1)
          /\ work[s][w].num = Remaining(n, w) - Remaining(n, w + 1)
      BY DEF SplitOf
    <2>5. Remaining(n, w + 1) + (Remaining(n, w) - Remaining(n, w + 1)) = Remaining(n, w)
      BY <2>2, <2>3
    <2> QED BY <2>4, <2>5 DEF Has
  <1>2. \A k \in ItemIds : (\E w \in Tids : Has(s, w, k)) <=> k < n
    <2> TAKE k \in ItemIds
    <2>1. k \in Nat
      BY ItemIdsNat
    <2>2. (\E w \in Tids : Remaining(n, w + 1) <= k /\ k < Remaining(n, w)) <=> k < n
      BY <2>1, SharesCover
    <2> QED BY <1>1, <2>2
  <1>3. \A k \in ItemIds : \A v, w \in Tids : Has(s, v, k) /\ Has(s, w, k) => v = w
    <2> SUFFICES ASSUME NEW k \in ItemIds, NEW v \in Tids, NEW w \in Tids,
                        Has(s, v, k), Has(s, w, k), v # w
                 PROVE  FALSE
      OBVIOUS
    <2>1. k \in Nat /\ v \in Nat /\ w \in Nat
      BY ItemIdsNat, Constants
    <2>2. /\ Remaining(n, v + 1) <= k /\ k < Remaining(n, v)
          /\ Remaining(n, w + 1) <= k /\ k < Remaining(n, w)
      BY <1>1
    <2>3. CASE v < w
      BY <2>1, <2>2, <2>3, SharesDisjoint
    <2>4. CASE w < v
      BY <2>1, <2>2, <2>4, SharesDisjoint
    <2> QED BY <2>1, <2>3, <2>4
  <1> QED BY <1>2, <1>3

-----------------------------------------------------------------------------
(* The results                                                             *)

Computed(s) == \A k \in ItemIds : hits[s][k] = Bit(k < item[s])
Notifying(s) == mpc = "notify" /\ mcur = s

\* What is so of a slot that is not shared: the host's status is that of the task, the items
\* are untouched until the workers have them, each was processed once when its worker ran,
\* and all of them when the completion is on its way or has arrived.
StatusOf(s) == B(s) > 0 \/ C(s) \/ D(s) \/ E(s) > 0 => hring[s] = "h2d"
ResultsOf(s) == E(s) > 0 \/ (hring[s] = "d2h" /\ A(s) = 0) => Computed(s)
ItemsOf(s) ==
    /\ A(s) > 0 \/ B(s) > 0 \/ C(s) => hits[s] = Untouched
    /\ D(s) => \A k \in ItemIds : hits[s][k] = Bit(\E w \in Tids : Ran(w, s) /\ Has(s, w, k))
WorkOf(s) == Notifying(s) \/ D(s) => work[s] = SplitOf(item[s])

SlotOk(s) == StatusOf(s) /\ ResultsOf(s) /\ ItemsOf(s) /\ WorkOf(s)

HitsInv == \A s \in Slots \ shared : SlotOk(s)

LEMMA AtWork ==
    ASSUME BarrierInv
    PROVE  /\ Gathering => \A w \in Followers : pc[w] \in {"spin_done", "top", "arrive_ready", "spin_ready"}
           /\ ~Gathering => \A w \in Followers : pc[w] \in {"spin_ready", "run", "arrive_done", "spin_done"}
           /\ ~Gathering => pc[0] \in {"advance", "run", "lead_done"}
           /\ pc[0] \notin {"arrive_done", "spin_done"}
  BY DEF BarrierInv, LeaderInv, GatherInv, WorkInv, Gathering

\* The other steps of a worker leave it where it counts as having run, or as not.
LEMMA RanSame ==
    ASSUME TypeInv, BarrierInv, NEW w \in Tids, Worker(w), ~Run(w), ~SignalHost,
           NEW v \in Tids, NEW s
    PROVE  Ran(v, s)' <=> Ran(v, s)
  <1>1. /\ pc \in [Tids -> Pcs] /\ 0 \in Tids /\ Followers \subseteq Tids
        /\ v # 0 => v \in Followers
        /\ w # 0 => w \in Followers
    BY Constants DEF TypeInv, WorkerTypes, Followers
  <1>2. CASE w # 0
    <2>1. /\ pc'[0] = pc[0] /\ cur_task_id' = cur_task_id /\ (Gathering' <=> Gathering)
          /\ v # w => pc'[v] = pc[v]
      BY <1>1, <1>2 DEF Worker, Top, ArriveReady, LeaveReady, ArriveDone, LeaveDone, Gathering
    <2>2. BarrierInv'
      BY <1>2, BarrierFollower
    <2>3. ~Gathering' => pc'[w] \in {"spin_ready", "run", "arrive_done", "spin_done"}
      BY <1>1, <1>2, <2>2 DEF BarrierInv, WorkInv, Followers
    <2>4. ~Gathering => pc[w] \in {"spin_ready", "run", "arrive_done", "spin_done"}
      BY <1>1, <1>2, AtWork
    <2>5. ~Gathering => \/ pc[w] = "spin_ready" /\ pc'[w] = "run"
                        \/ pc[w] = "arrive_done" /\ pc'[w] = "spin_done"
      BY <1>1, <1>2, <2>1, <2>3, <2>4 DEF Worker, Top, ArriveReady, LeaveReady, ArriveDone, LeaveDone
    <2>6. CASE Gathering
      BY <2>1, <2>6 DEF Ran
    <2>7. CASE ~Gathering
      BY <2>1, <2>5, <2>7 DEF Ran
    <2> QED BY <2>6, <2>7
  <1>3. CASE w = 0
    <2>1. \A u \in Followers : pc'[u] = pc[u] /\ u # 0
      BY <1>1, <1>3 DEF Followers, Worker, Top, PollReady, LeadReady, Advance, LeadDone
    <2>2. CASE Top(0) \/ PollReady
      <3>1. pc[0] \in {"top", "poll"} /\ pc'[0] \in {"poll", "lead_ready"}
        BY <1>1, <2>2 DEF Top, PollReady
      <3> QED BY <3>1 DEF Ran, Gathering
    <2>3. CASE LeadReady
      <3>1. pc[0] = "lead_ready" /\ pc'[0] = "advance"
        BY <1>1, <2>3 DEF LeadReady
      <3>2. v # 0 => pc'[v] = "spin_ready"
        BY <1>1, <2>1, <2>3, AllReady
      <3> QED BY <3>1, <3>2 DEF Ran, Gathering
    <2>4. CASE Advance
      <3>1. pc[0] = "advance" /\ pc'[0] = "run" /\ cur_task_id' = cur_task_id
        BY <1>1, <2>4 DEF Advance
      <3>2. v # 0 => pc'[v] = pc[v]
        BY <1>1, <2>1
      <3> QED BY <3>1, <3>2 DEF Ran, Gathering
    <2>5. CASE LeadDone
      <3>1. pc[0] = "lead_done" /\ pc'[0] = "post" /\ cur_task_id' = cur_task_id
        BY <1>1, <2>5 DEF LeadDone
      <3>2. v # 0 => pc[v] = "spin_done"
        BY <1>1, <2>5, AllDone
      <3> QED BY <3>1, <3>2 DEF Ran, Gathering
    <2> QED BY <1>3, <2>2, <2>3, <2>4, <2>5 DEF Worker
  <1> QED BY <1>2, <1>3

\* Who has run has the task of the slot.
LEMMA RanLeading ==
    ASSUME TypeInv, BarrierInv, NEW w \in Tids, NEW s, Ran(w, s) PROVE Leading(s) /\ D(s)
  <1>1. pc[0] \in {"advance", "run", "lead_done", "post"}
    BY AtWork DEF Ran
  <1>2. slot[0] = s
    BY <1>1, LeaderSlot DEF Ran
  <1> QED BY <1>1, <1>2 DEF Leading, D

\* A slot that is not shared has a task at one place only.
LEMMA OnePlace ==
    ASSUME TypeInv, AloneInv, NEW s \in Slots \ shared
    PROVE  /\ A(s) \in Nat /\ B(s) \in Nat /\ E(s) \in Nat
           /\ A(s) > 0 => A(s) = 1 /\ B(s) = 0 /\ ~C(s) /\ ~D(s) /\ E(s) = 0
           /\ B(s) > 0 => A(s) = 0 /\ B(s) = 1 /\ ~C(s) /\ ~D(s) /\ E(s) = 0
           /\ C(s) => A(s) = 0 /\ B(s) = 0 /\ ~D(s) /\ E(s) = 0
           /\ D(s) => A(s) = 0 /\ B(s) = 0 /\ ~C(s) /\ E(s) = 0
           /\ E(s) > 0 => A(s) = 0 /\ B(s) = 0 /\ ~C(s) /\ ~D(s) /\ E(s) = 1
  <1>1. /\ A(s) \in Nat /\ B(s) \in Nat /\ E(s) \in Nat /\ C(s) \in BOOLEAN /\ D(s) \in BOOLEAN
        /\ A(s) + B(s) + Bit(C(s)) + Bit(D(s)) + E(s) <= 1
    BY OwedParts DEF AloneInv
  <1> QED BY <1>1 DEF Bit

\* A task that the workers do not have.
LEMMA OkQuiet ==
    ASSUME NEW s, ~D(s)', StatusOf(s)', ResultsOf(s)', WorkOf(s)',
           A(s)' > 0 \/ B(s)' > 0 \/ C(s)' => hits'[s] = Untouched
    PROVE  SlotOk(s)'
  <1>1. ItemsOf(s)'
    BY Zenon DEF ItemsOf
  <1> QED BY <1>1 DEF SlotOk

\* A step that is about other slots.
LEMMA OkKept ==
    ASSUME NEW s, SlotOk(s),
           A(s)' = A(s), B(s)' = B(s), C(s)' = C(s), D(s)' = D(s), E(s)' = E(s),
           hring'[s] = hring[s], hits'[s] = hits[s], item'[s] = item[s], work'[s] = work[s],
           Notifying(s)' => Notifying(s), \A w \in Tids : Ran(w, s)' <=> Ran(w, s)
    PROVE  SlotOk(s)'
  <1>1. Computed(s)' <=> Computed(s)
    BY DEF Computed
  <1>2. \A w \in Tids, k \in ItemIds : Has(s, w, k)' <=> Has(s, w, k)
    BY DEF Has
  <1>3. StatusOf(s)' /\ ResultsOf(s)' /\ WorkOf(s)'
    BY <1>1 DEF SlotOk, StatusOf, ResultsOf, WorkOf
  <1>4. ItemsOf(s)'
    BY <1>2 DEF SlotOk, ItemsOf
  <1> QED BY <1>3, <1>4 DEF SlotOk

ranVars == <<pc, cur_task_id>>
LEMMA RanKept == ASSUME UNCHANGED ranVars, NEW w, NEW s PROVE Ran(w, s)' <=> Ran(w, s)
  BY DEF ranVars, Ran, Gathering

LEMMA HitsInit == ASSUME Init PROVE HitsInv
  <1>1. \A s \in Slots : Owed[s] = 0
    BY AloneInit
  <1>2. TypeInv /\ AloneInv
    BY TypesInit, AloneInit
  <1> SUFFICES ASSUME NEW s \in Slots PROVE SlotOk(s)
    BY DEF HitsInv
  <1>3. A(s) = 0 /\ B(s) = 0 /\ ~C(s) /\ ~D(s) /\ E(s) = 0
    BY <1>1, <1>2, OwedParts DEF Bit
  <1>4. hring[s] = "none" /\ mpc = "wait"
    BY DEF Init
  <1>5. StatusOf(s) /\ ResultsOf(s) /\ WorkOf(s)
    BY <1>3, <1>4 DEF StatusOf, ResultsOf, WorkOf, Notifying
  <1>6. ItemsOf(s)
    <2>1. ~(A(s) > 0 \/ B(s) > 0 \/ C(s))
      BY <1>3
    <2> QED BY <1>3, <2>1, Zenon DEF ItemsOf
  <1> QED BY <1>5, <1>6 DEF SlotOk

\* A task that is executed: its slot is shared, or owes nothing else.
LEMMA HitsExecute ==
    ASSUME TypeInv, AloneInv, HitsInv, NEW id \in Slots, NEW n \in Items, ioRing # <<>>, Execute(id, n),
           next_id' \in Slots, waiting' \in Seq(Slots)
    PROVE  HitsInv'
  <1>1. /\ hits \in [Slots -> [ItemIds -> Int]] /\ hits' = [hits EXCEPT ![id] = Untouched]
        /\ item \in [Slots -> Nat] /\ item' = [item EXCEPT ![id] = n]
        /\ shared' = IF Owed[id] = 0 THEN shared \ {id} ELSE shared \cup {id}
        /\ UNCHANGED <<hring, mring, work, mcur, mpc, pc, slot, cur_task_id>>
    BY DEF Execute, TypeInv, WorkerTypes, MasterTypes, masterVars
  <1> SUFFICES ASSUME NEW s \in Slots, s \notin shared' PROVE SlotOk(s)'
    BY DEF HitsInv
  <1>2. A(s)' = A(s) + One(id, s) /\ B(s)' = B(s) /\ E(s)' = E(s) /\ C(s)' = C(s) /\ D(s)' = D(s)
    BY PartsExecute
  <1>3. A(s) \in Nat /\ B(s) \in Nat /\ E(s) \in Nat
    BY OwedParts
  <1>4. CASE s = id
    <2>1. Owed[s] = 0
      BY <1>1, <1>4
    <2>2. A(s) = 0 /\ B(s) = 0 /\ ~C(s) /\ ~D(s) /\ E(s) = 0
      <3>1. /\ A(s) \in Nat /\ B(s) \in Nat /\ E(s) \in Nat /\ C(s) \in BOOLEAN /\ D(s) \in BOOLEAN
            /\ A(s) + B(s) + Bit(C(s)) + Bit(D(s)) + E(s) = 0
        BY <2>1, OwedParts
      <3> QED BY <3>1 DEF Bit
    <2>3. A(s)' = 1 /\ B(s)' = 0 /\ ~C(s)' /\ ~D(s)' /\ E(s)' = 0
      BY <1>2, <1>4, <2>2 DEF One
    <2>4. hits'[s] = Untouched /\ ~Notifying(s)'
      BY <1>1, <1>4, <2>3 DEF Notifying, C
    <2>5. StatusOf(s)' /\ ResultsOf(s)' /\ WorkOf(s)'
      BY <2>3, <2>4 DEF StatusOf, ResultsOf, WorkOf
    <2> QED BY <2>3, <2>4, <2>5, OkQuiet
  <1>5. CASE s # id
    <2>1. SlotOk(s)
      BY <1>1, <1>5 DEF HitsInv
    <2>2. A(s)' = A(s)
      BY <1>2, <1>3, <1>5 DEF One
    <2>3. \A w \in Tids : Ran(w, s)' <=> Ran(w, s)
      BY <1>1, RanKept DEF ranVars
    <2>4. Notifying(s)' => Notifying(s)
      BY <1>1 DEF Notifying
    <2>5. hits'[s] = hits[s] /\ item'[s] = item[s] /\ hring'[s] = hring[s] /\ work'[s] = work[s]
      BY <1>1, <1>5
    <2> QED BY <1>2, <2>1, <2>2, <2>3, <2>4, <2>5, OkKept
  <1> QED BY <1>4, <1>5

LEMMA HitsSignalMic ==
    ASSUME TypeInv, AloneInv, HitsInv, SignalMic PROVE HitsInv'
  <1>1. PICK id : id = Head(launched).id
    OBVIOUS
  <1>2. /\ hring \in [Slots -> Statuses] /\ hring' = [hring EXCEPT ![id] = "h2d"]
        /\ UNCHANGED <<mring, item, work, mcur, mpc, pc, slot, cur_task_id, hits, shared>>
    BY <1>1 DEF SignalMic, TypeInv, HostTypes, masterVars, workerVars
  <1> SUFFICES ASSUME NEW s \in Slots, s \notin shared' PROVE SlotOk(s)'
    BY DEF HitsInv
  <1>3. /\ A(s)' = A(s) - One(id, s) /\ B(s)' = B(s) + One(id, s) /\ E(s)' = E(s)
        /\ C(s)' = C(s) /\ D(s)' = D(s) /\ A(id) > 0
    BY <1>1, PartsSignalMic
  <1>4. A(s) \in Nat /\ B(s) \in Nat /\ E(s) \in Nat /\ SlotOk(s)
    BY <1>2, OwedParts DEF HitsInv
  <1>5. CASE s = id
    <2>1. A(s) = 1 /\ B(s) = 0 /\ ~C(s) /\ ~D(s) /\ E(s) = 0
      BY <1>2, <1>3, <1>5, OnePlace
    <2>2. B(s)' = 1 /\ ~C(s)' /\ ~D(s)' /\ E(s)' = 0
      BY <1>3, <1>5, <2>1 DEF One
    <2>3. hits'[s] = Untouched /\ hring'[s] = "h2d" /\ ~Notifying(s)'
      BY <1>2, <1>4, <1>5, <2>1, <2>2 DEF SlotOk, ItemsOf, Notifying, C
    <2>4. StatusOf(s)' /\ ResultsOf(s)' /\ WorkOf(s)'
      BY <2>2, <2>3 DEF StatusOf, ResultsOf, WorkOf
    <2> QED BY <2>2, <2>3, <2>4, OkQuiet
  <1>6. CASE s # id
    <2>1. A(s)' = A(s) /\ B(s)' = B(s)
      BY <1>3, <1>4, <1>6 DEF One
    <2>2. \A w \in Tids : Ran(w, s)' <=> Ran(w, s)
      BY <1>2, RanKept DEF ranVars
    <2>3. Notifying(s)' => Notifying(s)
      BY <1>2 DEF Notifying
    <2>4. hits'[s] = hits[s] /\ item'[s] = item[s] /\ hring'[s] = hring[s] /\ work'[s] = work[s]
      BY <1>2, <1>6
    <2> QED BY <1>3, <1>4, <2>1, <2>2, <2>3, <2>4, OkKept
  <1> QED BY <1>5, <1>6

LEMMA HitsArriveMic ==
    ASSUME TypeInv, NotifyInv, AloneInv, HitsInv, ArriveMic PROVE HitsInv'
  <1>1. PICK h : h = Head(toMic)
    OBVIOUS
  <1>2. UNCHANGED <<hring, item, work, mcur, mpc, pc, slot, cur_task_id, hits, shared>>
    BY DEF ArriveMic, hostVars, masterVars, workerVars
  <1> SUFFICES ASSUME NEW s \in Slots, s \notin shared' PROVE SlotOk(s)'
    BY DEF HitsInv
  <1>3. /\ A(s)' = A(s) /\ B(s)' = B(s) - One(h, s) /\ E(s)' = E(s)
        /\ s # h => C(s)' = C(s) /\ D(s)' = D(s)
        /\ B(h) > 0 /\ C(h)' /\ (D(h)' => D(h))
    BY <1>1, PartsArriveMic
  <1>4. A(s) \in Nat /\ B(s) \in Nat /\ E(s) \in Nat /\ SlotOk(s)
    BY <1>2, OwedParts DEF HitsInv
  <1>5. \A w \in Tids : Ran(w, s)' <=> Ran(w, s)
    BY <1>2, RanKept DEF ranVars
  <1>6. CASE s = h
    <2>1. A(s) = 0 /\ B(s) = 1 /\ ~C(s) /\ ~D(s) /\ E(s) = 0
      BY <1>2, <1>3, <1>6, OnePlace
    <2>2. A(s)' = 0 /\ B(s)' = 0 /\ C(s)' /\ ~D(s)' /\ E(s)' = 0
      BY <1>3, <1>6, <2>1 DEF One
    <2>3. hits'[s] = Untouched /\ hring'[s] = "h2d"
      BY <1>2, <1>4, <1>6, <2>1 DEF SlotOk, ItemsOf, StatusOf
    <2>4. ~Notifying(s)'
      BY <1>2, <2>1 DEF Notifying, C
    <2>5. StatusOf(s)' /\ ResultsOf(s)' /\ WorkOf(s)'
      BY <2>2, <2>3, <2>4 DEF StatusOf, ResultsOf, WorkOf
    <2> QED BY <2>2, <2>3, <2>5, OkQuiet
  <1>7. CASE s # h
    <2>1. B(s)' = B(s)
      BY <1>3, <1>4, <1>7 DEF One
    <2>2. Notifying(s)' => Notifying(s)
      BY <1>2 DEF Notifying
    <2> QED BY <1>2, <1>3, <1>4, <1>5, <1>7, <2>1, <2>2, OkKept
  <1> QED BY <1>6, <1>7

LEMMA HitsArriveHost ==
    ASSUME TypeInv, AloneInv, HitsInv, ArriveHost PROVE HitsInv'
  <1>1. PICK h : h = Head(toHost)
    OBVIOUS
  <1>2. /\ hring \in [Slots -> Statuses] /\ hring' = [hring EXCEPT ![h] = "d2h"]
        /\ UNCHANGED <<item, work, mcur, mpc, pc, slot, cur_task_id, hits, shared>>
    BY <1>1 DEF ArriveHost, TypeInv, HostTypes, masterVars, workerVars
  <1> SUFFICES ASSUME NEW s \in Slots, s \notin shared' PROVE SlotOk(s)'
    BY DEF HitsInv
  <1>3. /\ A(s)' = A(s) /\ B(s)' = B(s) /\ E(s)' = E(s) - One(h, s)
        /\ C(s)' = C(s) /\ D(s)' = D(s) /\ E(h) > 0
    BY <1>1, PartsArriveHost
  <1>4. A(s) \in Nat /\ B(s) \in Nat /\ E(s) \in Nat /\ SlotOk(s)
    BY <1>2, OwedParts DEF HitsInv
  <1>5. CASE s = h
    <2>1. A(s) = 0 /\ B(s) = 0 /\ ~C(s) /\ ~D(s) /\ E(s) = 1
      BY <1>2, <1>3, <1>5, OnePlace
    <2>2. A(s)' = 0 /\ B(s)' = 0 /\ ~C(s)' /\ ~D(s)' /\ E(s)' = 0
      BY <1>3, <1>5, <2>1 DEF One
    <2>3. Computed(s)
      BY <1>4, <2>1 DEF SlotOk, ResultsOf
    <2>4. Computed(s)' /\ ~Notifying(s)'
      BY <1>2, <2>1, <2>3 DEF Computed, Notifying, C
    <2>5. A(s)' \in Nat /\ B(s)' \in Nat /\ E(s)' \in Nat
      BY <2>2
    <2>6. StatusOf(s)' /\ ResultsOf(s)' /\ WorkOf(s)'
      BY <2>2, <2>4 DEF StatusOf, ResultsOf, WorkOf
    <2> QED BY <2>2, <2>6, OkQuiet
  <1>6. CASE s # h
    <2>1. E(s)' = E(s)
      BY <1>3, <1>4, <1>6 DEF One
    <2>2. \A w \in Tids : Ran(w, s)' <=> Ran(w, s)
      BY <1>2, RanKept DEF ranVars
    <2>3. Notifying(s)' => Notifying(s)
      BY <1>2 DEF Notifying
    <2>4. hits'[s] = hits[s] /\ item'[s] = item[s] /\ hring'[s] = hring[s] /\ work'[s] = work[s]
      BY <1>2, <1>6
    <2> QED BY <1>3, <1>4, <2>1, <2>2, <2>3, <2>4, OkKept
  <1> QED BY <1>5, <1>6

LEMMA HitsSplit ==
    ASSUME TypeInv, AloneInv, HitsInv, MasterSplit PROVE HitsInv'
  <1>1. PICK m : m = mcur
    OBVIOUS
  <1>2. /\ work \in [Slots -> [Tids -> [begin : Int, num : Int]]]
        /\ work' = [work EXCEPT ![m] = SplitOf(item[m])] /\ mcur' = m
        /\ UNCHANGED <<hring, item, pc, slot, cur_task_id, hits, shared>>
    BY <1>1 DEF MasterSplit, SplitOf, TypeInv, MasterTypes, hostVars, workerVars
  <1> SUFFICES ASSUME NEW s \in Slots, s \notin shared' PROVE SlotOk(s)'
    BY DEF HitsInv
  <1>3. /\ A(s)' = A(s) /\ B(s)' = B(s) /\ C(s)' = C(s) /\ D(s)' = D(s) /\ E(s)' = E(s) /\ C(m)
    BY <1>1, PartsSplit
  <1>4. SlotOk(s)
    BY <1>2 DEF HitsInv
  <1>5. \A w \in Tids : Ran(w, s)' <=> Ran(w, s)
    BY <1>2, RanKept DEF ranVars
  <1>6. CASE s = m
    <2>1. A(s) = 0 /\ B(s) = 0 /\ ~D(s) /\ E(s) = 0
      BY <1>2, <1>3, <1>6, OnePlace
    <2>2. A(s)' = 0 /\ B(s)' = 0 /\ ~D(s)' /\ E(s)' = 0 /\ C(s)'
      BY <1>3, <1>6, <2>1
    <2>3. hits'[s] = Untouched /\ hring'[s] = "h2d"
      BY <1>2, <1>3, <1>4, <1>6 DEF SlotOk, ItemsOf, StatusOf
    <2>4. work'[s] = SplitOf(item'[s])
      BY <1>2, <1>6
    <2>5. StatusOf(s)' /\ ResultsOf(s)' /\ WorkOf(s)'
      BY <2>2, <2>3, <2>4 DEF StatusOf, ResultsOf, WorkOf
    <2> QED BY <2>2, <2>3, <2>5, OkQuiet
  <1>7. CASE s # m
    <2>1. work'[s] = work[s] /\ hring'[s] = hring[s] /\ hits'[s] = hits[s] /\ item'[s] = item[s]
      BY <1>2, <1>7
    <2>2. ~Notifying(s)'
      BY <1>2, <1>7 DEF Notifying
    <2> QED BY <1>3, <1>4, <1>5, <2>1, <2>2, OkKept
  <1> QED BY <1>6, <1>7

LEMMA HitsNotify ==
    ASSUME TypeInv, BarrierInv, NotifyInv, AloneInv, HitsInv, MasterNotify PROVE HitsInv'
  <1>1. PICK m : m = mcur
    OBVIOUS
  <1>2. /\ mpc = "notify" /\ mpc' = "wait" /\ mcur = m
        /\ UNCHANGED <<hring, item, work, pc, slot, cur_task_id, hits, shared>>
    BY <1>1 DEF MasterNotify, hostVars, workerVars
  <1> SUFFICES ASSUME NEW s \in Slots, s \notin shared' PROVE SlotOk(s)'
    BY DEF HitsInv
  <1>3. /\ A(s)' = A(s) /\ B(s)' = B(s) /\ E(s)' = E(s)
        /\ s # m => C(s)' = C(s) /\ D(s)' = D(s)
        /\ C(m) /\ ~C(m)' /\ D(m)'
    BY <1>1, PartsNotify
  <1>4. SlotOk(s) /\ ~Notifying(s)'
    BY <1>2 DEF HitsInv, Notifying
  <1>5. \A w \in Tids : Ran(w, s)' <=> Ran(w, s)
    BY <1>2, RanKept DEF ranVars
  <1>6. CASE s = m
    <2>1. A(s) = 0 /\ B(s) = 0 /\ C(s) /\ ~D(s) /\ E(s) = 0
      BY <1>2, <1>3, <1>6, OnePlace
    <2>2. A(s)' = 0 /\ B(s)' = 0 /\ ~C(s)' /\ E(s)' = 0
      BY <1>3, <1>6, <2>1
    <2>3. hits'[s] = Untouched /\ hring'[s] = "h2d"
      BY <1>2, <1>4, <2>1 DEF SlotOk, ItemsOf, StatusOf
    <2>4. work'[s] = SplitOf(item'[s])
      BY <1>2, <1>4, <1>6 DEF SlotOk, WorkOf, Notifying
    <2>5. \A w \in Tids : ~Ran(w, s)'
      BY <1>5, <2>1, RanLeading
    <2>6. \A k \in ItemIds : hits'[s][k] = 0
      BY <2>3 DEF Untouched, ItemIds
    <2>7. ItemsOf(s)'
      BY <2>2, <2>5, <2>6 DEF ItemsOf, Bit
    <2> QED BY <1>4, <2>2, <2>3, <2>4, <2>7 DEF SlotOk, StatusOf, ResultsOf, WorkOf
  <1>7. CASE s # m
    BY <1>2, <1>3, <1>4, <1>5, <1>7, OkKept
  <1> QED BY <1>6, <1>7

\* A worker processes its share of the task, which nobody did before.
LEMMA HitsRun ==
    ASSUME TypeInv, BarrierInv, AloneInv, HitsInv, NEW w \in Tids, Run(w) PROVE HitsInv'
  <1>0. PICK c : c = cur_task_id
    OBVIOUS
  <1>1. /\ pc \in [Tids -> Pcs] /\ c \in Slots /\ pc[w] = "run"
        /\ pc' = [pc EXCEPT ![w] = IF w = 0 THEN "lead_done" ELSE "arrive_done"]
        /\ hits \in [Slots -> [ItemIds -> Int]]
        /\ UNCHANGED <<hring, item, mcur, mpc, work, cur_task_id, shared>>
    BY <1>0 DEF TypeInv, WorkerTypes, Run, others, masterVars
  <1> DEFINE h == [i \in ItemIds |-> hits[c][i] + Bit(c \notin shared /\ Has(c, w, i))]
  <1>2. hits' = [hits EXCEPT ![c] = h]
    <2>1. DOMAIN hits[c] = ItemIds
      BY <1>1
    <2> QED BY <1>0, <1>1, <2>1 DEF Run, Has
  <1>3. ~Gathering /\ pc[0] \in {"advance", "run", "lead_done"}
    <2>1. w # 0 => w \in Followers
      BY DEF Followers
    <2>2. w = 0 => ~Gathering
      BY <1>1 DEF Gathering
    <2> QED BY <1>1, <2>1, <2>2, AtWork
  <1>4. D(c)
    BY <1>0, <1>3, LeaderSlot DEF D, Leading
  <1> HIDE DEF h
  <1>5. \A s \in Slots : hits'[s] = IF s = c THEN h ELSE hits[s]
    BY <1>1, <1>2
  <1> SUFFICES ASSUME NEW s \in Slots, s \notin shared' PROVE SlotOk(s)'
    BY DEF HitsInv
  <1>6. A(s)' = A(s) /\ B(s)' = B(s) /\ C(s)' = C(s) /\ D(s)' = D(s) /\ E(s)' = E(s)
    <2>1. Worker(w) /\ ~SignalHost
      <3>1. SignalHost => w # 0
        BY <1>1, Constants DEF SignalHost
      <3>2. SignalHost => pc[0] = "post"
        BY DEF SignalHost
      <3> QED BY <1>3, <3>2 DEF Worker
    <2> QED BY <2>1, PartsWorker
  <1>7. SlotOk(s)
    BY <1>1 DEF HitsInv
  <1>8. CASE s # c
    <2>1. \A v \in Tids : ~Ran(v, s) /\ ~Ran(v, s)'
      BY <1>0, <1>1, <1>8 DEF Ran
    <2>2. Notifying(s)' => Notifying(s)
      BY <1>1 DEF Notifying
    <2>3. hits'[s] = hits[s] /\ item'[s] = item[s] /\ hring'[s] = hring[s] /\ work'[s] = work[s]
      BY <1>1, <1>5, <1>8
    <2> QED BY <1>6, <1>7, <2>1, <2>2, <2>3, OkKept
  <1>9. CASE s = c
    <2>1. A(c) = 0 /\ B(c) = 0 /\ ~C(c) /\ E(c) = 0 /\ c \notin shared
      BY <1>1, <1>4, <1>9, OnePlace
    <2>2. /\ work[c] = SplitOf(item[c]) /\ item[c] \in Nat /\ hring[c] = "h2d"
          /\ \A k \in ItemIds : hits[c][k] = Bit(\E v \in Tids : Ran(v, c) /\ Has(c, v, k))
      BY <1>1, <1>4, <1>7, <1>9 DEF SlotOk, WorkOf, StatusOf, ItemsOf, TypeInv, MasterTypes
    <2>3. \A k \in ItemIds : \A u, v \in Tids : Has(c, u, k) /\ Has(c, v, k) => u = v
      BY <2>2, WorkShares
    <2>4. /\ ~Ran(w, c) /\ Ran(w, c)'
          /\ \A v \in Tids \ {w} : Ran(v, c)' <=> Ran(v, c)
      <3>1. 0 \in Tids /\ pc'[0] \in {"advance", "run", "lead_done"} /\ ~Gathering'
        BY <1>1, <1>3, Constants DEF Gathering
      <3> QED BY <3>1, <1>0, <1>1, <1>3 DEF Ran
    <2>5. \A v \in Tids, k \in ItemIds : Has(c, v, k)' <=> Has(c, v, k)
      BY <1>1 DEF Has
    <2>6. ASSUME NEW k \in ItemIds
          PROVE  hits'[c][k] = Bit(\E v \in Tids : Ran(v, c)' /\ Has(c, v, k)')
      <3>1. hits'[c][k] = hits[c][k] + Bit(Has(c, w, k))
        <4>1. hits'[c][k] = h[k]
          BY <1>1, <1>5
        <4>2. h[k] = hits[c][k] + Bit(c \notin shared /\ Has(c, w, k))
          BY DEF h
        <4> QED BY <2>1, <4>1, <4>2 DEF Bit
      <3>2. CASE Has(c, w, k)
        <4>1. ~\E v \in Tids : Ran(v, c) /\ Has(c, v, k)
          BY <3>2, <2>3, <2>4
        <4>2. hits[c][k] = 0
          BY <4>1, <2>2 DEF Bit
        <4>3. Ran(w, c)' /\ Has(c, w, k)'
          BY <3>2, <2>4, <2>5
        <4> QED BY <3>1, <3>2, <4>2, <4>3 DEF Bit
      <3>3. CASE ~Has(c, w, k)
        <4>1. (\E v \in Tids : Ran(v, c)' /\ Has(c, v, k)') <=> (\E v \in Tids : Ran(v, c) /\ Has(c, v, k))
          BY <3>3, <2>4, <2>5
        <4>2. hits'[c][k] = hits[c][k]
          BY <1>1, <3>1, <3>3 DEF Bit
        <4> QED BY <4>1, <4>2, <2>2 DEF Bit
      <3> QED BY <3>2, <3>3
    <2>7. A(s)' = 0 /\ B(s)' = 0 /\ ~C(s)' /\ E(s)' = 0 /\ D(s)'
      BY <1>4, <1>6, <1>9, <2>1
    <2>8. ItemsOf(s)'
      <3>1. ~(A(s)' > 0 \/ B(s)' > 0 \/ C(s)')
        BY <2>7
      <3>2. \A k \in ItemIds : hits'[s][k] = Bit(\E v \in Tids : Ran(v, s)' /\ Has(s, v, k)')
        BY <1>9, <2>6
      <3> QED BY <3>1, <3>2, Zenon DEF ItemsOf
    <2>9. hring'[s] = "h2d" /\ work'[s] = SplitOf(item'[s])
      BY <1>1, <1>9, <2>2
    <2> QED BY <2>7, <2>8, <2>9 DEF SlotOk, StatusOf, ResultsOf, WorkOf
  <1> QED BY <1>8, <1>9

LEMMA HitsWorker ==
    ASSUME TypeInv, BarrierInv, HitsInv, NEW w \in Tids, Worker(w), ~Run(w), ~SignalHost
    PROVE  HitsInv'
  <1>1. UNCHANGED <<hring, item, mcur, mpc, work, hits, shared>>
    BY DEF Worker, Top, PollReady, LeadReady, LeadDone, Advance, ArriveReady, ArriveDone, LeaveReady,
           LeaveDone, others, masterVars
  <1> SUFFICES ASSUME NEW s \in Slots, s \notin shared' PROVE SlotOk(s)'
    BY DEF HitsInv
  <1>2. A(s)' = A(s) /\ B(s)' = B(s) /\ C(s)' = C(s) /\ D(s)' = D(s) /\ E(s)' = E(s)
    BY PartsWorker
  <1>3. \A v \in Tids : Ran(v, s)' <=> Ran(v, s)
    BY RanSame
  <1>4. SlotOk(s) /\ (Notifying(s)' => Notifying(s))
    BY <1>1 DEF HitsInv, Notifying
  <1> QED BY <1>1, <1>2, <1>3, <1>4, OkKept

\* All workers have run when the host is signalled.
LEMMA HitsPost ==
    ASSUME TypeInv, BarrierInv, AloneInv, HitsInv, SignalHost PROVE HitsInv'
  <1>1. PICK p : p = slot[0]
    OBVIOUS
  <1>2. /\ pc[0] = "post" /\ p = cur_task_id /\ p \in Slots
        /\ UNCHANGED <<hring, item, mcur, mpc, work, hits, shared, cur_task_id>>
    BY <1>1, LeaderSlot DEF SignalHost, masterVars
  <1> SUFFICES ASSUME NEW s \in Slots, s \notin shared' PROVE SlotOk(s)'
    BY DEF HitsInv
  <1>3. /\ A(s)' = A(s) /\ B(s)' = B(s) /\ E(s)' = E(s) + One(p, s)
        /\ s # p => C(s)' = C(s) /\ D(s)' = D(s)
        /\ D(p) /\ ~D(p)' /\ (C(p)' => C(p))
    BY <1>1, PartsPost
  <1>4. SlotOk(s) /\ E(s) \in Nat
    BY <1>2, OwedParts DEF HitsInv
  <1>5. CASE s = p
    <2>1. A(s) = 0 /\ B(s) = 0 /\ ~C(s) /\ E(s) = 0 /\ D(s)
      BY <1>2, <1>3, <1>5, OnePlace
    <2>2. A(s)' = 0 /\ B(s)' = 0 /\ ~C(s)' /\ ~D(s)' /\ E(s)' = 1
      BY <1>3, <1>5, <2>1 DEF One
    <2>3. /\ work[s] = SplitOf(item[s]) /\ item[s] \in Nat /\ hring[s] = "h2d"
          /\ \A k \in ItemIds : hits[s][k] = Bit(\E v \in Tids : Ran(v, s) /\ Has(s, v, k))
      BY <1>4, <2>1 DEF SlotOk, WorkOf, StatusOf, ItemsOf, TypeInv, MasterTypes
    <2>4. \A v \in Tids : Ran(v, s)
      BY <1>2, <1>5 DEF Ran
    <2>5. \A k \in ItemIds : (\E v \in Tids : Has(s, v, k)) <=> k < item[s]
      BY <2>3, WorkShares
    <2>6. Computed(s)'
      <3>1. ASSUME NEW k \in ItemIds PROVE hits'[s][k] = Bit(k < item'[s])
        <4>1. (\E v \in Tids : Ran(v, s) /\ Has(s, v, k)) <=> k < item[s]
          BY <2>4, <2>5
        <4>2. hits'[s] = hits[s] /\ item'[s] = item[s]
          BY <1>2
        <4> QED BY <2>3, <4>1, <4>2 DEF Bit
      <3> QED BY <3>1 DEF Computed
    <2>7. hring'[s] = "h2d" /\ ~Notifying(s)'
      BY <1>2, <2>1, <2>3 DEF Notifying, C
    <2>8. StatusOf(s)' /\ ResultsOf(s)' /\ WorkOf(s)'
      BY <2>2, <2>6, <2>7 DEF StatusOf, ResultsOf, WorkOf
    <2> QED BY <2>2, <2>8, OkQuiet
  <1>6. CASE s # p
    <2>1. E(s)' = E(s)
      BY <1>3, <1>4, <1>6 DEF One
    <2>2. \A v \in Tids : ~Ran(v, s) /\ ~Ran(v, s)'
      BY <1>2, <1>6 DEF Ran
    <2>3. Notifying(s)' => Notifying(s)
      BY <1>2 DEF Notifying
    <2> QED BY <1>2, <1>3, <1>4, <1>6, <2>1, <2>2, <2>3, OkKept
  <1> QED BY <1>5, <1>6

LEMMA HitsStep ==
    ASSUME TypeInv, BarrierInv, NotifyInv, AloneInv, HitsInv, [Next]_vars PROVE HitsInv'
  <1>1. ASSUME NEW n \in Items, Offload(n) \/ Resume(n) PROVE HitsInv'
    <2>1. PICK id \in Slots : /\ Execute(id, n) /\ ioRing # <<>>
                              /\ next_id' \in Slots /\ waiting' \in Seq(Slots)
      BY <1>1, Executed
    <2> QED BY <2>1, HitsExecute
  <1>2. CASE Wait \/ Poll \/ UNCHANGED vars
    <2>1. UNCHANGED <<partVars, ranVars, hring, hits, item, work, shared>>
      BY <1>2 DEF Wait, Poll, TakeBack, Requeue, vars, hostVars, masterVars, workerVars, partVars, ranVars
    <2> SUFFICES ASSUME NEW s \in Slots, s \notin shared' PROVE SlotOk(s)'
      BY DEF HitsInv
    <2>2. A(s)' = A(s) /\ B(s)' = B(s) /\ C(s)' = C(s) /\ D(s)' = D(s) /\ E(s)' = E(s)
      BY <2>1, PartsSame
    <2>3. \A w \in Tids : Ran(w, s)' <=> Ran(w, s)
      BY <2>1, RanKept
    <2>4. SlotOk(s) /\ (Notifying(s)' => Notifying(s))
      BY <2>1 DEF HitsInv, Notifying, partVars
    <2> QED BY <2>1, <2>2, <2>3, <2>4, OkKept
  <1>3. ASSUME NEW w \in Tids, Worker(w) PROVE HitsInv'
    BY <1>3, HitsRun, HitsPost, HitsWorker
  <1>4. CASE SignalMic \/ ArriveMic \/ ArriveHost \/ Master
    BY <1>4, HitsSignalMic, HitsArriveMic, HitsArriveHost, HitsSplit, HitsNotify DEF Master
  <1> QED BY <1>1, <1>2, <1>3, <1>4 DEF Next, Host

-----------------------------------------------------------------------------
(* Theorems                                                                *)

DeviceInv == TypeInv /\ BarrierInv /\ NotifyInv /\ OrderInv /\ AloneInv /\ HitsInv

LEMMA DeviceAlways == Spec => []DeviceInv
  <1>1. Init => DeviceInv
    BY TypesInit, BarrierInit, NotifyInit, OrderInit, AloneInit, HitsInit DEF DeviceInv
  <1>2. DeviceInv /\ [Next]_vars => DeviceInv'
    BY TypesStep, BarrierStep, NotifyStep, OrderStep, AloneStep, HitsStep DEF DeviceInv
  <1> QED BY <1>1, <1>2, PTL DEF Spec

LEMMA ReleasedAtWork ==
    ASSUME TypeInv, BarrierInv, NEW w \in Tids, Released(w)
    PROVE  slot[w] = cur_task_id /\ pc[0] \in {"advance", "run", "lead_done"}
  <1>1. CASE w = 0
    BY <1>1, AtWork DEF Released, BarrierInv, LeaderInv
  <1>2. CASE w # 0
    <2>1. w \in Followers
      BY <1>2 DEF Followers
    <2>2. ~Gathering
      <3>1. SUFFICES ASSUME Gathering PROVE FALSE
        OBVIOUS
      <3>2. pc[w] = "spin_ready" /\ ready[slot[w]] = 0
        BY <2>1, <3>1, AtWork DEF Released
      <3>3. slot[w] = next_task_id /\ ready[slot[w]] = Cardinality(At("spin_ready"))
        BY <2>1, <3>1, <3>2 DEF BarrierInv, GatherInv, TypeInv, WorkerTypes
      <3>4. Cardinality(At("spin_ready")) > 0 /\ Cardinality(At("spin_ready")) \in Nat
        BY <2>1, <3>2, AtFacts
      <3> QED BY <3>2, <3>3, <3>4
    <2> QED BY <2>1, <2>2, AtWork DEF BarrierInv, WorkInv
  <1> QED BY <1>1, <1>2

SameTask == \A w \in Tids : Released(w) => slot[w] = cur_task_id

\* The barriers alone: a worker that a barrier released, however
\* late it notices, is at the slot that all others read from cur_task_id.
THEOREM ReleasedTogether == Spec => []SameTask
  <1>1. TypeInv /\ BarrierInv => SameTask
    BY ReleasedAtWork DEF SameTask
  <1> QED BY <1>1, DeviceAlways, PTL DEF DeviceInv

\* The workers between the barriers are at one task, and the master splits another one into
\* its slot only when the host gave two tasks the slot.
THEOREM OneTaskOnly == Spec => []OneTaskAtATime
  <1>1. DeviceInv => OneTaskAtATime
    <2> SUFFICES ASSUME DeviceInv, NEW w \in Tids, Released(w)
                 PROVE  slot[w] = cur_task_id
                        /\ (mpc = "notify" /\ mcur = cur_task_id => cur_task_id \in shared)
      BY DEF OneTaskAtATime
    <2>1. slot[w] = cur_task_id /\ pc[0] \in {"advance", "run", "lead_done"}
      BY ReleasedAtWork DEF DeviceInv
    <2>2. D(cur_task_id) /\ cur_task_id \in Slots
      BY <2>1, LeaderSlot DEF DeviceInv, D, Leading
    <2>3. ASSUME mpc = "notify" /\ mcur = cur_task_id, cur_task_id \notin shared PROVE FALSE
      <3>1. C(cur_task_id)
        BY <2>3 DEF C
      <3> QED BY <2>2, <2>3, <3>1, OnePlace DEF DeviceInv
    <2> QED BY <2>1, <2>3
  <1> QED BY <1>1, DeviceAlways, PTL

\* When the host sees the slot of a task complete, every item of the task was processed by
\* exactly one worker, for all numbers of items, workers and slots, unless the slot was
\* given to two tasks at a time.
THEOREM AllResults == Spec => []ResultsComplete
  <1>1. DeviceInv => ResultsComplete
    <2> SUFFICES ASSUME DeviceInv, NEW s \in Slots \ shared, hring[s] = "d2h",
                        Count(Ids(launched), s) = 0, NEW k \in DOMAIN Untouched
                 PROVE  hits[s][k] = Bit(k < item[s])
      BY DEF ResultsComplete
    <2>1. Computed(s)
      BY DEF DeviceInv, HitsInv, SlotOk, ResultsOf, A
    <2> QED BY <2>1 DEF Computed, ItemIds
  <1> QED BY <1>1, DeviceAlways, PTL

\* The device implements SlotServer: the completions arrive in the order of the slots, each
\* for a slot that owes one, and a task is dropped only at a slot that several tasks share,
\* whatever the interleaving of the host, the signals, the master and the workers.
THEOREM ServerRefined == Spec => ServerSpec
  <1>1. Init => DeviceInv /\ Server!Init
    <2> SUFFICES ASSUME Init PROVE DeviceInv /\ Server!Init
      OBVIOUS
    <2>1. DeviceInv
      BY TypesInit, BarrierInit, NotifyInit, OrderInit, AloneInit, HitsInit DEF DeviceInv
    <2>2. Owed = [s \in Slots |-> 0] /\ Turn = 0
      BY AloneInit, OrderInit
    <2> QED BY <2>1, <2>2 DEF Server!Init, Server!Slots, Slots
  <1>2. DeviceInv /\ [Next]_vars => DeviceInv'
    BY TypesStep, BarrierStep, NotifyStep, OrderStep, AloneStep, HitsStep DEF DeviceInv
  <1>3. DeviceInv /\ DeviceInv' /\ [Next]_vars => [Server!Next]_<<Owed, Turn>>
    BY ServerStep DEF DeviceInv
  <1> QED BY <1>1, <1>2, <1>3, PTL DEF Spec, ServerSpec, Server!Spec

=============================================================================
