----------------------- MODULE OffloadPipeline_proofs -----------------------
(***************************************************************************)
(* Theorems about OffloadPipeline, for every number of batches, tasks and  *)
(* io_bases, every chain, and every capacity of the rings: the types, the  *)
(* watchers, who owns the tasks and the io_bases, and what becomes of the  *)
(* batches, of their trackers and of the finished lists.                   *)
(***************************************************************************)
EXTENDS OffloadPipeline, Counting_proofs

-----------------------------------------------------------------------------
(* Sequences: what the queue operations of the code do to a type.           *)

LEMMA PushFrontType ==
    ASSUME NEW S, NEW s \in Seq(S), NEW x \in S
    PROVE  /\ <<x>> \o s \in Seq(S)
           /\ Len(<<x>> \o s) = Len(s) + 1
           /\ \A i \in 1..Len(s) + 1 : (<<x>> \o s)[i] = IF i = 1 THEN x ELSE s[i - 1]
  <1>1. <<x>> \in Seq(S) /\ Len(<<x>>) = 1 /\ <<x>>[1] = x
    OBVIOUS
  <1> QED BY <1>1, ConcatProperties, LenProperties

LEMMA PushBackType ==
    ASSUME NEW S, NEW s \in Seq(S), NEW x \in S
    PROVE  Append(s, x) \in Seq(S) /\ Append(s, x) # s /\ Append(s, x) # <<>>
  <1>1. Len(Append(s, x)) = Len(s) + 1 /\ Len(s) \in Nat
    BY LenProperties
  <1> QED BY <1>1, EmptySeq

LEMMA PopFrontType ==
    ASSUME NEW S, NEW s \in Seq(S), s # <<>>
    PROVE  Head(s) \in S /\ Tail(s) \in Seq(S)
  BY HeadTailProperties

-----------------------------------------------------------------------------
(* Type correctness.                                                        *)

BatchType == [elem : 0..NElems, has : BOOLEAN, dev : BOOLEAN, db : BOOLEAN]
TaskType  == [elem : Elems, batches : Seq(Batches), state : TaskStates,
              io : IoBases \cup {NoIo}]

DataTypes ==
    /\ pool \subseteq Batches
    /\ batch \in [Batches -> BatchType]
    /\ queue \in Seq(Batches \cup Tasks)
    /\ finished \in [Elems -> Seq(Batches)]
    /\ acc \in [Elems -> Tasks \cup {NoTask}]
    /\ taskPool \subseteq Tasks
    /\ task \in [Tasks -> TaskType]
    /\ ioFree \in Seq(IoBases \cup {NoIo})
    /\ dbFree \in Int

Pcs == {"rx", "getBatch", "invoke", "poll", "complete", "flush", "scan",
        "alloc", "enqueue", "notify", "stopped"}
FrameType == [kind : {"nowait", "polled", "rx", "send"}, task : Tasks \cup {NoTask}]

ControlTypes ==
    /\ pc \in Pcs
    /\ cur \in Tasks \cup {NoTask}
    /\ stack \in Seq(FrameType)
    /\ pend \subseteq {"completion", "terminate", "check"}
    /\ burst \in Seq(Tasks)

FlagTypes == loopDone \in BOOLEAN /\ broken \in BOOLEAN /\ coBroken \in BOOLEAN

RingTypes ==
    /\ async \subseteq {"completion", "terminate"}
    /\ coAsync \subseteq {"input", "terminate"}
    /\ inRing \in Seq(Tasks) /\ compRing \in Seq(Tasks)

CoprocTypes ==
    /\ d2hQ \in Seq(Tasks) /\ doneQ \in Seq(Tasks)
    /\ coPend \subseteq {"input", "d2h", "done", "terminate"}
    /\ coPc \in {"loop", "refeed", "notify", "aborted"}
    /\ dev \in [Tasks -> {"idle", "kernel", "executed", "copying", "copied"}]

\* The computation thread is inside an ev_run() whenever it runs a callback; a
\* wait for an io_base is never the outermost one and knows the task it is for.
Frames1 ==
    /\ pc \notin {"rx", "getBatch", "stopped"} => stack # <<>>
    /\ \A i \in 1..Len(stack) :
          stack[i].kind = "send" => i < Len(stack) /\ stack[i].task \in Tasks
    /\ pc \in {"alloc", "enqueue", "notify"} => cur \in Tasks

TypeInv == DataTypes /\ ControlTypes /\ FlagTypes /\ RingTypes /\ CoprocTypes /\ Frames1

LEMMA TypeInvImpliesTypeOK == TypeInv => TypeOK
  BY DEF TypeInv, TypeOK, DataTypes, ControlTypes, FlagTypes, RingTypes, CoprocTypes,
         Pcs, FrameType, BatchType, TaskType

LEMMA FreshTypes == FreshBatch \in BatchType /\ FreshTask \in TaskType
  <1>1. FreshBatch \in BatchType
    BY ChainAssumption DEF FreshBatch, BatchType
  <1>2. FreshTask \in TaskType
    BY ChainAssumption DEF FreshTask, TaskType, Elems, TaskStates
  <1> QED BY <1>1, <1>2

LEMMA InitTypeInv == Init => TypeInv
  <1> SUFFICES ASSUME Init PROVE TypeInv
    OBVIOUS
  <1>3. Cardinality(IoBases) \in Nat /\ Cardinality(Batches) \in Nat
    BY PoolAssumption, FS_CardinalityType
  <1>4. ioFree \in Seq(IoBases \cup {NoIo})
    BY <1>3 DEF Init
  <1>5. DataTypes
    BY FreshTypes, <1>3, <1>4 DEF Init, DataTypes
  <1>6. ControlTypes
    BY DEF Init, ControlTypes, Pcs
  <1>7. RingTypes
    BY DEF Init, RingTypes
  <1>8. CoprocTypes
    BY DEF Init, CoprocTypes
  <1>9. FlagTypes
    BY DEF Init, FlagTypes
  <1>10. Frames1
    BY DEF Init, Frames1
  <1> QED BY <1>5, <1>6, <1>7, <1>8, <1>9, <1>10 DEF TypeInv

\* A group of variables that a step leaves alone keeps its types.
LEMMA SameData == DataTypes /\ UNCHANGED dataVars => DataTypes'
  BY DEF DataTypes, dataVars

LEMMA SameControl == ControlTypes /\ FlagTypes /\ Frames1 /\ UNCHANGED <<ctlVars, coBroken>>
                       => ControlTypes' /\ FlagTypes' /\ Frames1'
  BY DEF ControlTypes, FlagTypes, Frames1, ctlVars

LEMMA SameRings == RingTypes /\ UNCHANGED ringVars => RingTypes'
  BY DEF RingTypes, ringVars

LEMMA SameCoproc == CoprocTypes /\ UNCHANGED <<coPend, coPc, d2hQ, doneQ, dev>> => CoprocTypes'
  BY DEF CoprocTypes

\* A new frame on top of the stack: only a wait inside another ev_run() is a
\* "send", and it is for a task.
LEMMA EvRunTypes ==
    ASSUME TypeInv, NEW kind \in {"nowait", "rx", "send"}, NEW t \in Tasks \cup {NoTask},
           EvRun(kind, t),
           kind = "send" => stack # <<>> /\ t \in Tasks
    PROVE  stack' \in Seq(FrameType) /\ Frames1' /\ pc' = "invoke" /\ loopDone' = FALSE
  <1> DEFINE f == [kind |-> kind, task |-> t]
  <1>1. f \in FrameType
    BY DEF FrameType
  <1>2. stack \in Seq(FrameType) /\ Len(stack) \in Nat
    BY LenProperties DEF TypeInv, ControlTypes
  <1>3. /\ stack' = <<f>> \o stack /\ pc' = "invoke" /\ loopDone' = FALSE
    BY DEF EvRun
  <1> HIDE DEF f
  <1>4. /\ stack' \in Seq(FrameType)
        /\ Len(stack') = Len(stack) + 1
        /\ \A i \in 1..Len(stack') : stack'[i] = IF i = 1 THEN f ELSE stack[i - 1]
    BY <1>1, <1>2, <1>3, PushFrontType
  <1>5. stack' # <<>>
    BY <1>2, <1>4
  <1>6. ASSUME NEW i \in 1..Len(stack'), stack'[i].kind = "send"
        PROVE  i < Len(stack') /\ stack'[i].task \in Tasks
    <2>1. CASE i = 1
      <3>1. kind = "send" /\ stack'[i].task = t
        BY <1>4, <1>6, <2>1 DEF f
      <3>2. Len(stack) # 0
        BY <1>2, <3>1, EmptySeq
      <3> QED BY <1>2, <1>4, <2>1, <3>1, <3>2
    <2>2. CASE i # 1
      <3>1. i - 1 \in 1..Len(stack) /\ stack'[i] = stack[i - 1]
        BY <1>2, <1>4, <2>2
      <3>2. i - 1 < Len(stack) /\ stack[i - 1].task \in Tasks
        BY <1>6, <3>1 DEF TypeInv, Frames1
      <3> QED BY <1>2, <1>4, <3>1, <3>2
    <2> QED BY <2>1, <2>2
  <1> QED BY <1>3, <1>4, <1>5, <1>6 DEF Frames1

\* The rounds of ev_run() and the calls of io_loop() that begin and end it.
LEMMA LoopTypes ==
    ASSUME TypeInv, LoopRound \/ Wake \/ ReceiveChunk \/ RunLoop \/ StopIoLoop \/ WaitBatch
    PROVE  TypeInv'
  <1> USE DEF TypeInv
  <1>0. stack \in Seq(FrameType) /\ Len(stack) \in Nat
    BY LenProperties DEF ControlTypes
  <1>1. CASE LoopRound
    <2>1. DataTypes' /\ RingTypes' /\ CoprocTypes'
      BY <1>1, SameData, SameRings, SameCoproc DEF LoopRound, coVars
    <2>2. FlagTypes' /\ pend' = pend /\ burst' = burst
      BY <1>1 DEF LoopRound, FlagTypes, coVars
    <2>3. stack # <<>>
      BY <1>1 DEF LoopRound, Frames1
    <2>4. /\ Head(stack) = stack[1] /\ Head(stack) \in FrameType
          /\ Tail(stack) \in Seq(FrameType)
          /\ Len(Tail(stack)) = Len(stack) - 1
          /\ \A i \in 1..Len(Tail(stack)) : Tail(stack)[i] = stack[i + 1]
      BY <1>0, <2>3, HeadTailProperties
    <2>5. CASE loopDone \/ Head(stack).kind = "polled"
      <3>1. /\ stack' = Tail(stack) /\ cur' = Head(stack).task
            /\ pc' = CASE Head(stack).kind = "rx"   -> "getBatch"
                       [] Head(stack).kind = "send" -> "alloc"
                       [] OTHER                     -> "rx"
        BY <1>1, <2>5 DEF LoopRound
      <3>2. pc' \in {"getBatch", "alloc", "rx"} /\ cur' \in Tasks \cup {NoTask}
        BY <2>4, <3>1 DEF FrameType
      <3>3. ControlTypes'
        BY <2>2, <2>4, <3>1, <3>2 DEF ControlTypes, Pcs
      <3>4. \A i \in 1..Len(stack') :
               stack'[i].kind = "send" => i < Len(stack') /\ stack'[i].task \in Tasks
        BY <1>0, <2>4, <3>1 DEF Frames1
      <3>5. ASSUME pc' = "alloc" PROVE cur' \in Tasks /\ stack' # <<>>
        <4>1. stack[1].kind = "send"
          BY <2>4, <3>1, <3>5
        <4>2. 1 < Len(stack) /\ stack[1].task \in Tasks
          BY <1>0, <2>3, <4>1, EmptySeq DEF Frames1
        <4>3. cur' = stack[1].task
          BY <2>4, <3>1
        <4>4. Len(stack') # 0
          BY <1>0, <2>4, <3>1, <4>2
        <4> QED BY <4>2, <4>3, <4>4, EmptySeq
      <3>6. Frames1'
        BY <3>2, <3>4, <3>5 DEF Frames1
      <3> QED BY <2>1, <2>2, <3>3, <3>6
    <2>6. CASE ~(loopDone \/ Head(stack).kind = "polled")
      <3>1. stack' = stack /\ cur' = cur /\ pc' = "poll"
        BY <1>1, <2>6 DEF LoopRound
      <3>2. ControlTypes' /\ Frames1'
        BY <2>2, <2>3, <3>1 DEF ControlTypes, Pcs, Frames1
      <3> QED BY <2>1, <2>2, <3>2
    <2> QED BY <2>5, <2>6
  <1>2. CASE Wake
    <2>1. DataTypes' /\ CoprocTypes'
      BY <1>2, SameData, SameCoproc DEF Wake, coVars
    <2>2. RingTypes'
      BY <1>2 DEF Wake, RingTypes
    <2>3. FlagTypes'
      BY <1>2 DEF Wake, FlagTypes, coVars
    <2>4. pend' \subseteq {"completion", "terminate", "check"}
      BY <1>2 DEF Wake, RingTypes
    <2>5. stack # <<>>
      BY <1>2 DEF Wake, Frames1
    <2>6. stack' \in Seq(FrameType) /\ Len(stack') = Len(stack)
          /\ \A i \in 1..Len(stack') : stack'[i].kind = "send" => stack'[i] = stack[i]
      <3>1. CASE Head(stack).kind # "nowait"
        <4>1. stack' = stack
          BY <1>2, <3>1 DEF Wake
        <4> QED BY <1>0, <4>1
      <3>2. CASE Head(stack).kind = "nowait"
        <4> DEFINE f == [Head(stack) EXCEPT !.kind = "polled"]
        <4>1. f \in FrameType /\ f.kind = "polled"
          <5>1. Head(stack) \in FrameType
            BY <1>0, <2>5, HeadTailProperties
          <5> QED BY <5>1 DEF FrameType
        <4>2. /\ Tail(stack) \in Seq(FrameType) /\ Len(Tail(stack)) = Len(stack) - 1
              /\ \A i \in 1..Len(Tail(stack)) : Tail(stack)[i] = stack[i + 1]
          BY <1>0, <2>5, HeadTailProperties
        <4>3. stack' = <<f>> \o Tail(stack)
          BY <1>2, <3>2 DEF Wake
        <4> HIDE DEF f
        <4>4. /\ stack' \in Seq(FrameType) /\ Len(stack') = Len(Tail(stack)) + 1
              /\ \A i \in 1..Len(stack') :
                    stack'[i] = IF i = 1 THEN f ELSE Tail(stack)[i - 1]
          BY <4>1, <4>2, <4>3, PushFrontType
        <4>5. ASSUME NEW i \in 1..Len(stack'), stack'[i].kind = "send"
              PROVE  stack'[i] = stack[i]
          <5>1. i # 1
            BY <4>1, <4>4, <4>5
          <5>2. i - 1 \in 1..Len(Tail(stack))
            BY <1>0, <4>2, <4>4, <5>1
          <5> QED BY <1>0, <4>2, <4>4, <5>1, <5>2
        <4> QED BY <1>0, <4>2, <4>4, <4>5
      <3> QED BY <3>1, <3>2
    <2>7. pc' = "invoke" /\ cur' = cur /\ burst' = burst
      BY <1>2 DEF Wake
    <2>8. ControlTypes'
      BY <2>4, <2>6, <2>7 DEF ControlTypes, Pcs
    <2>9. stack' # <<>>
      BY <1>0, <2>5, <2>6, EmptySeq
    <2>10. Frames1'
      BY <1>0, <2>6, <2>7, <2>9 DEF Frames1
    <2> QED BY <2>1, <2>2, <2>3, <2>8, <2>10
  <1>3. CASE ReceiveChunk \/ StopIoLoop
    <2>1. DataTypes' /\ RingTypes' /\ CoprocTypes'
      BY <1>3, SameData, SameRings, SameCoproc DEF ReceiveChunk, StopIoLoop, coVars
    <2>2. FlagTypes'
      BY <1>3 DEF ReceiveChunk, StopIoLoop, FlagTypes, coVars
    <2>3. ControlTypes' /\ Frames1'
      BY <1>3 DEF ReceiveChunk, StopIoLoop, ControlTypes, Pcs, Frames1
    <2> QED BY <2>1, <2>2, <2>3
  <1>4. CASE RunLoop \/ WaitBatch
    <2>1. /\ DataTypes' /\ RingTypes' /\ CoprocTypes'
          /\ cur' = cur /\ pend' = pend /\ burst' = burst /\ broken' = broken /\ coBroken' = coBroken
      BY <1>4, SameData, SameRings, SameCoproc DEF RunLoop, WaitBatch, coVars
    <2>2. stack' \in Seq(FrameType) /\ Frames1' /\ pc' = "invoke" /\ loopDone' = FALSE
      <3>1. EvRun("nowait", NoTask) \/ EvRun("rx", NoTask)
        BY <1>4 DEF RunLoop, WaitBatch
      <3> QED BY <3>1, EvRunTypes
    <2>3. ControlTypes'
      BY <2>1, <2>2 DEF ControlTypes, Pcs
    <2>4. FlagTypes'
      BY <2>1, <2>2 DEF FlagTypes
    <2> QED BY <2>1, <2>2, <2>3, <2>4
  <1> QED BY <1>1, <1>2, <1>3, <1>4

\* The callbacks of the I/O loop.
LEMMA CallbackTypes ==
    ASSUME TypeInv,
           CompletionCb \/ CompleteTask \/ CompletionDone \/ TerminateCb \/ CheckCb
    PROVE  TypeInv'
  <1> USE DEF TypeInv
  <1>1. CASE CompletionCb
    <2>1. DataTypes' /\ CoprocTypes'
      BY <1>1, SameData, SameCoproc DEF CompletionCb, coVars
    <2>2. RingTypes'
      BY <1>1 DEF CompletionCb, RingTypes
    <2>3. FlagTypes'
      BY <1>1 DEF CompletionCb, FlagTypes, coVars
    <2>4. ControlTypes'
      BY <1>1 DEF CompletionCb, ControlTypes, RingTypes, Pcs
    <2>5. Frames1'
      BY <1>1 DEF CompletionCb, Frames1
    <2> QED BY <2>1, <2>2, <2>3, <2>4, <2>5
  <1>2. CASE CompleteTask
    <2> DEFINE t == Head(burst)
               e == task[t].elem
               members == {task[t].batches[i] : i \in DOMAIN task[t].batches}
               held == {b \in members : batch[b].db}
    <2>1. burst # <<>> /\ burst \in Seq(Tasks)
      BY <1>2 DEF CompleteTask, ControlTypes
    <2>2. t \in Tasks /\ Tail(burst) \in Seq(Tasks)
      BY <2>1, PopFrontType
    <2>3. /\ e \in Elems /\ task[t].batches \in Seq(Batches)
          /\ task[t].io \in IoBases \cup {NoIo}
      <3>1. task[t] \in TaskType
        BY <2>2 DEF DataTypes
      <3> QED BY <3>1 DEF TaskType
    <2>4. IsFiniteSet(held) /\ Cardinality(held) \in Nat
      <3>1. \A i \in DOMAIN task[t].batches : task[t].batches[i] \in Batches
        BY <2>3, ElementOfSeq, LenProperties
      <3>2. held \subseteq Batches
        BY <3>1
      <3> QED BY <3>2, FS_Subset, FS_CardinalityType, PoolAssumption
    <2>5. batch' \in [Batches -> BatchType]
      <3>1. \/ batch' = [b \in Batches |->
                           IF b \in held THEN [batch[b] EXCEPT !.db = FALSE] ELSE batch[b]]
            \/ batch' = batch
        BY <1>2 DEF CompleteTask
      <3>2. \A r \in BatchType : [r EXCEPT !.db = FALSE] \in BatchType
        BY DEF BatchType
      <3> HIDE DEF t, e, members, held
      <3> QED BY <3>1, <3>2 DEF DataTypes
    <2>6. dbFree' \in Int
      <3>1. dbFree' = dbFree + Cardinality(held) \/ dbFree' = dbFree
        BY <1>2 DEF CompleteTask
      <3> HIDE DEF t, e, members, held
      <3> QED BY <2>4, <3>1 DEF DataTypes
    <2>7. ioFree' \in Seq(IoBases \cup {NoIo})
      <3>1. ioFree' = Append(ioFree, task[t].io) \/ ioFree' = ioFree
        BY <1>2 DEF CompleteTask
      <3> HIDE DEF t, e, members, held
      <3>2. ioFree \in Seq(IoBases \cup {NoIo})
        BY DEF DataTypes
      <3>3. Append(ioFree, task[t].io) \in Seq(IoBases \cup {NoIo})
        BY <2>3, <3>2, PushBackType
      <3> QED BY <3>1, <3>2, <3>3
    <2>8. task' \in [Tasks -> TaskType]
      <3>1. \/ /\ e + 1 \in Offloadable
               /\ task' = [task EXCEPT ![t].state = "INITIALIZED", ![t].elem = e + 1]
            \/ task' = [task EXCEPT ![t] = FreshTask]
        BY <1>2 DEF CompleteTask, NextOffloadable
      <3>2. \A r \in TaskType, f \in Elems :
               [r EXCEPT !.state = "INITIALIZED", !.elem = f] \in TaskType
        BY DEF TaskType, TaskStates
      <3>3. e + 1 \in Offloadable => e + 1 \in Elems
        BY ChainAssumption
      <3> HIDE DEF t, e, members, held
      <3>4. CASE task' = [task EXCEPT ![t] = FreshTask]
        BY <2>2, <3>4, FreshTypes DEF DataTypes
      <3>5. CASE /\ e + 1 \in Offloadable
                 /\ task' = [task EXCEPT ![t].state = "INITIALIZED", ![t].elem = e + 1]
        <4>1. task[t] \in TaskType
          BY <2>2 DEF DataTypes
        <4>2. task' = [task EXCEPT ![t] = [task[t] EXCEPT !.state = "INITIALIZED",
                                                          !.elem = e + 1]]
          BY <3>5
        <4>3. [task[t] EXCEPT !.state = "INITIALIZED", !.elem = e + 1] \in TaskType
          BY <3>2, <3>3, <3>5, <4>1
        <4> QED BY <2>2, <4>2, <4>3 DEF DataTypes
      <3> QED BY <3>1, <3>4, <3>5
    <2>9. queue' \in Seq(Batches \cup Tasks)
      <3>1. queue' = <<t>> \o queue \/ queue' = queue
        BY <1>2 DEF CompleteTask
      <3> HIDE DEF t, e, members, held
      <3>2. queue \in Seq(Batches \cup Tasks) /\ t \in Batches \cup Tasks
        BY <2>2 DEF DataTypes
      <3>3. <<t>> \o queue \in Seq(Batches \cup Tasks)
        BY <3>2, PushFrontType
      <3> QED BY <3>1, <3>2, <3>3
    <2>10. finished' \in [Elems -> Seq(Batches)] /\ taskPool' \subseteq Tasks
      <3>1. finished[e] \o task[t].batches \in Seq(Batches)
        BY <2>3, ConcatProperties DEF DataTypes
      <3>2. /\ finished' = [finished EXCEPT ![e] = @ \o task[t].batches] \/ finished' = finished
            /\ taskPool' = taskPool \cup {t} \/ taskPool' = taskPool
        BY <1>2 DEF CompleteTask
      <3> HIDE DEF t, e, members, held
      <3> QED BY <2>2, <2>3, <3>1, <3>2 DEF DataTypes
    <2>11. DataTypes'
      <3>1. pool' = pool /\ acc' = acc
        BY <1>2 DEF CompleteTask
      <3> QED BY <2>5, <2>6, <2>7, <2>8, <2>9, <2>10, <3>1 DEF DataTypes
    <2>12. RingTypes'
      BY <1>2, SameRings DEF CompleteTask
    <2>13. CoprocTypes'
      <3>1. /\ dev' = [dev EXCEPT ![t] = "idle"]
            /\ UNCHANGED <<coPend, coPc, d2hQ, doneQ>>
        BY <1>2 DEF CompleteTask
      <3> HIDE DEF t, e, members, held
      <3> QED BY <2>2, <3>1 DEF CoprocTypes
    <2>14. FlagTypes'
      BY <1>2 DEF CompleteTask, FlagTypes
    <2>15. burst' = Tail(burst) /\ UNCHANGED <<pc, cur, stack, pend>>
      BY <1>2 DEF CompleteTask
    <2>16. ControlTypes' /\ Frames1'
      BY <2>2, <2>15 DEF ControlTypes, Frames1
    <2> QED BY <2>11, <2>12, <2>13, <2>14, <2>16
  <1>3. CASE CompletionDone
    <2>1. DataTypes' /\ RingTypes' /\ CoprocTypes'
      BY <1>3, SameData, SameRings, SameCoproc DEF CompletionDone, coVars
    <2>2. FlagTypes'
      BY <1>3 DEF CompletionDone, FlagTypes, coVars
    <2>3. ControlTypes'
      BY <1>3 DEF CompletionDone, ControlTypes, Pcs
    <2>4. Frames1'
      BY <1>3 DEF CompletionDone, Frames1
    <2> QED BY <2>1, <2>2, <2>3, <2>4
  <1>4. CASE TerminateCb \/ CheckCb
    <2>1. DataTypes' /\ RingTypes' /\ CoprocTypes'
      BY <1>4, SameData, SameRings, SameCoproc DEF TerminateCb, CheckCb, coVars
    <2>2. FlagTypes'
      BY <1>4 DEF TerminateCb, CheckCb, FlagTypes, coVars
    <2>3. ControlTypes'
      BY <1>4 DEF TerminateCb, CheckCb, ControlTypes, Pcs
    <2>4. Frames1'
      BY <1>4 DEF TerminateCb, CheckCb, Frames1
    <2> QED BY <2>1, <2>2, <2>3, <2>4
  <1> QED BY <1>1, <1>2, <1>3, <1>4

\* Batches: received, scanned, delayed, forwarded or transmitted.
LEMMA BatchTypes ==
    ASSUME TypeInv,
           \/ GetBatch \/ AbandonChunk \/ FlushDone \/ ScanDone
           \/ \E e \in Elems : ScanBatch(e)
           \/ \E b \in Batches : DelayBatch(b) \/ ForwardBatch(b)
    PROVE  TypeInv'
  <1> USE DEF TypeInv
  <1> DEFINE Q == Seq(Batches \cup Tasks)
  <1>0. /\ queue \in Q
        /\ \A b \in Batches : Append(queue, b) \in Q
        /\ queue # <<>> => Tail(queue) \in Q /\ \A b \in Batches : Append(Tail(queue), b) \in Q
    <2>1. queue \in Q
      BY DEF DataTypes
    <2>2. queue # <<>> => Tail(queue) \in Q
      BY <2>1, PopFrontType
    <2>3. ASSUME NEW b \in Batches, NEW q \in Q PROVE Append(q, b) \in Q
      BY <2>3, PushBackType
    <2> QED BY <2>1, <2>2, <2>3
  <1> HIDE DEF Q
  <1>1. CASE GetBatch
    <2>1. PICK b \in pool, d \in BOOLEAN :
             /\ pool' = pool \ {b}
             /\ batch' = [batch EXCEPT ![b] = [FreshBatch EXCEPT !.dev = d]]
             /\ queue' = Append(queue, b)
      BY <1>1 DEF GetBatch
    <2>2. [FreshBatch EXCEPT !.dev = d] \in BatchType
      BY FreshTypes DEF BatchType
    <2>3. batch' \in [Batches -> BatchType]
      BY <2>1, <2>2 DEF DataTypes
    <2>4. pool' \subseteq Batches /\ queue' \in Q
      BY <1>0, <2>1 DEF DataTypes
    <2>5. UNCHANGED <<finished, acc, taskPool, task, ioFree, dbFree>>
      BY <1>1 DEF GetBatch
    <2>6. DataTypes'
      BY <2>3, <2>4, <2>5 DEF DataTypes, Q
    <2>7. RingTypes' /\ CoprocTypes'
      BY <1>1, SameRings, SameCoproc DEF GetBatch, coVars
    <2>8. FlagTypes'
      BY <1>1 DEF GetBatch, FlagTypes, coVars
    <2>9. ControlTypes' /\ Frames1'
      <3>1. pc' = "rx" /\ UNCHANGED <<cur, stack, pend, burst>>
        BY <1>1 DEF GetBatch
      <3> QED BY <3>1 DEF ControlTypes, Pcs, Frames1
    <2> QED BY <2>6, <2>7, <2>8, <2>9
  <1>2. CASE AbandonChunk
    <2>1. pool' \subseteq Batches
      BY <1>2 DEF AbandonChunk, DataTypes
    <2>2. UNCHANGED <<batch, queue, finished, acc, taskPool, task, ioFree, dbFree>>
      BY <1>2 DEF AbandonChunk
    <2>3. DataTypes'
      BY <2>1, <2>2 DEF DataTypes
    <2>4. RingTypes' /\ CoprocTypes'
      BY <1>2, SameRings, SameCoproc DEF AbandonChunk, coVars
    <2>5. FlagTypes'
      BY <1>2 DEF AbandonChunk, FlagTypes, coVars
    <2>6. ControlTypes' /\ Frames1'
      <3>1. pc' = "rx" /\ UNCHANGED <<cur, stack, pend, burst>>
        BY <1>2 DEF AbandonChunk
      <3> QED BY <3>1 DEF ControlTypes, Pcs, Frames1
    <2> QED BY <2>3, <2>4, <2>5, <2>6
  <1>3. CASE FlushDone \/ ScanDone
    <2>1. DataTypes' /\ RingTypes' /\ CoprocTypes'
      BY <1>3, SameData, SameRings, SameCoproc DEF FlushDone, ScanDone, coVars
    <2>2. FlagTypes'
      BY <1>3 DEF FlushDone, ScanDone, FlagTypes, coVars
    <2>3. /\ pc' \in {"scan", "invoke"} /\ UNCHANGED <<cur, stack, pend, burst>>
          /\ pc \in {"flush", "scan"}
      BY <1>3 DEF FlushDone, ScanDone
    <2>4. ControlTypes' /\ Frames1'
      BY <2>3 DEF ControlTypes, Pcs, Frames1
    <2> QED BY <2>1, <2>2, <2>4
  <1>4. ASSUME NEW e \in Elems, ScanBatch(e) PROVE TypeInv'
    <2> DEFINE b == Head(finished[e])
    <2>1. finished[e] \in Seq(Batches) /\ finished[e] # <<>>
      BY <1>4 DEF ScanBatch, DataTypes
    <2>2. b \in Batches /\ Tail(finished[e]) \in Seq(Batches)
      BY <2>1, PopFrontType
    <2>3. /\ batch' = [batch EXCEPT ![b].elem = e, ![b].has = TRUE]
          /\ queue' = Append(queue, b)
          /\ finished' = [finished EXCEPT ![e] = Tail(@)]
          /\ UNCHANGED <<pool, acc, taskPool, task, ioFree, dbFree>>
      BY <1>4 DEF ScanBatch
    <2> HIDE DEF b
    <2>4. batch' \in [Batches -> BatchType]
      <3>1. ASSUME NEW r \in BatchType PROVE [r EXCEPT !.elem = e, !.has = TRUE] \in BatchType
        <4>1. e \in 0..NElems
          BY ChainAssumption DEF Elems
        <4> QED BY <4>1 DEF BatchType
      <3>2. batch' = [batch EXCEPT ![b] = [batch[b] EXCEPT !.elem = e, !.has = TRUE]]
        BY <2>3
      <3>3. batch[b] \in BatchType
        BY <2>2 DEF DataTypes
      <3>4. [batch[b] EXCEPT !.elem = e, !.has = TRUE] \in BatchType
        BY <3>1, <3>3
      <3>5. batch \in [Batches -> BatchType]
        BY DEF DataTypes
      <3> QED BY <3>2, <3>4, <3>5
    <2>5. finished' \in [Elems -> Seq(Batches)] /\ queue' \in Q
      BY <1>0, <2>2, <2>3 DEF DataTypes
    <2>6. DataTypes'
      BY <2>3, <2>4, <2>5 DEF DataTypes, Q
    <2> QED BY <1>4, <2>6, SameControl, SameRings, SameCoproc DEF ScanBatch, coVars
  <1>5. ASSUME NEW b \in Batches, DelayBatch(b) PROVE TypeInv'
    <2>1. queue' \in Q
      BY <1>0, <1>5 DEF DelayBatch, Flushing
    <2>2. UNCHANGED <<pool, batch, finished, acc, taskPool, task, ioFree, dbFree>>
      BY <1>5 DEF DelayBatch
    <2>3. DataTypes'
      BY <2>1, <2>2 DEF DataTypes, Q
    <2> QED BY <1>5, <2>3, SameControl, SameRings, SameCoproc DEF DelayBatch, coVars
  <1>6. ASSUME NEW b \in Batches, ForwardBatch(b) PROVE TypeInv'
    <2>1. batch[b] \in BatchType /\ batch[b].elem \in 0..NElems /\ batch[b].db \in BOOLEAN
      BY DEF DataTypes, BatchType
    <2>2. batch' \in [Batches -> BatchType]
      <3>1. CASE AtOutput(b)
        <4>1. batch' = [batch EXCEPT ![b] = [FreshBatch EXCEPT !.db = batch[b].db]]
          BY <1>6, <3>1 DEF ForwardBatch
        <4>2. [FreshBatch EXCEPT !.db = batch[b].db] \in BatchType
          BY <2>1, FreshTypes DEF BatchType
        <4> QED BY <4>1, <4>2 DEF DataTypes
      <3>2. CASE ~AtOutput(b)
        <4>1. batch' = [batch EXCEPT ![b] = [batch[b] EXCEPT !.elem = batch[b].elem + 1,
                                                             !.has = FALSE]]
          BY <1>6, <3>2 DEF ForwardBatch
        <4>2. batch[b].elem + 1 \in 0..NElems
          BY <2>1, <3>2, ChainAssumption DEF AtOutput
        <4>3. [batch[b] EXCEPT !.elem = batch[b].elem + 1, !.has = FALSE] \in BatchType
          BY <2>1, <4>2 DEF BatchType
        <4> QED BY <4>1, <4>3 DEF DataTypes
      <3> QED BY <3>1, <3>2
    <2>3. pool' \subseteq Batches /\ queue' \in Q
      BY <1>0, <1>6 DEF ForwardBatch, Flushing, DataTypes
    <2>4. UNCHANGED <<finished, acc, taskPool, task, ioFree, dbFree>>
      BY <1>6 DEF ForwardBatch
    <2>5. DataTypes'
      BY <2>2, <2>3, <2>4 DEF DataTypes, Q
    <2>6. UNCHANGED <<pc, cur, stack, pend, burst>>
      BY <1>6 DEF ForwardBatch
    <2>7. ControlTypes' /\ Frames1'
      BY <2>6 DEF ControlTypes, Frames1
    <2>8. FlagTypes'
      BY <1>6 DEF ForwardBatch, FlagTypes, coVars
    <2>9. RingTypes' /\ CoprocTypes'
      BY <1>6, SameRings, SameCoproc DEF ForwardBatch, coVars
    <2> QED BY <2>5, <2>7, <2>8, <2>9
  <1> QED BY <1>1, <1>2, <1>3, <1>4, <1>5, <1>6

\* Tasks: filled, prepared, sent, delayed or dropped by the computation thread.
LEMMA SendTypes ==
    ASSUME TypeInv,
           \/ \E b \in Batches, t \in Tasks : OffloadBatch(b, t)
           \/ \E t \in Tasks : StartSend(t)
           \/ AllocIoBase \/ WaitIoBase \/ DropTask
           \/ EnqueueInput \/ DelayTask \/ NotifyInput
    PROVE  TypeInv'
  <1> USE DEF TypeInv
  <1> DEFINE Q == Seq(Batches \cup Tasks)
  <1>0. /\ queue \in Q
        /\ \A t \in Tasks : <<t>> \o queue \in Q
        /\ queue # <<>> => Tail(queue) \in Q /\ \A t \in Tasks : <<t>> \o Tail(queue) \in Q
    <2>1. queue \in Q
      BY DEF DataTypes
    <2>2. queue # <<>> => Tail(queue) \in Q
      BY <2>1, PopFrontType
    <2>3. ASSUME NEW t \in Tasks, NEW q \in Q PROVE <<t>> \o q \in Q
      BY <2>3, PushFrontType
    <2> QED BY <2>1, <2>2, <2>3
  <1> HIDE DEF Q
  <1>1. ASSUME NEW b \in Batches, NEW t \in Tasks, OffloadBatch(b, t) PROVE TypeInv'
    <2> DEFINE e == batch[b].elem
               bs == Append(task[t].batches, b)
               st == IF Len(bs) = PpDepth THEN "INITIALIZED" ELSE "INITIALIZING"
    <2>1. task[t] \in TaskType /\ e \in Elems
      BY <1>1, ChainAssumption DEF OffloadBatch, ShouldOffload, DataTypes
    <2>2. bs \in Seq(Batches)
      BY <2>1, PushBackType DEF TaskType
    <2>3. /\ taskPool' = taskPool \ {t}
          /\ task' = [task EXCEPT ![t] = [task[t] EXCEPT !.elem = e, !.batches = bs,
                                                         !.state = st]]
          /\ acc' = [acc EXCEPT ![e] = NoTask] \/ acc' = [acc EXCEPT ![e] = t]
          /\ queue' = <<t>> \o Tail(queue) \/ queue' = Tail(queue)
          /\ UNCHANGED <<pool, batch, finished, ioFree, dbFree>>
      BY <1>1 DEF OffloadBatch
    <2>4. queue' \in Q
      BY <1>0, <1>1, <2>3 DEF OffloadBatch, Flushing
    <2>5. st \in TaskStates
      BY DEF TaskStates
    <2> HIDE DEF e, bs, st
    <2>6. [task[t] EXCEPT !.elem = e, !.batches = bs, !.state = st] \in TaskType
      BY <2>1, <2>2, <2>5 DEF TaskType
    <2>7. task' \in [Tasks -> TaskType]
      BY <2>3, <2>6 DEF DataTypes
    <2>8. acc' \in [Elems -> Tasks \cup {NoTask}] /\ taskPool' \subseteq Tasks
      BY <2>1, <2>3 DEF DataTypes
    <2>9. DataTypes'
      BY <2>3, <2>4, <2>7, <2>8 DEF DataTypes, Q
    <2> QED BY <1>1, <2>9, SameControl, SameRings, SameCoproc DEF OffloadBatch, coVars
  <1>2. ASSUME NEW t \in Tasks, StartSend(t) PROVE TypeInv'
    <2> DEFINE bs == task[t].batches
               members == {bs[i] : i \in DOMAIN bs}
    <2>1. bs \in Seq(Batches) /\ Len(bs) \in Nat
      <3>1. task[t] \in TaskType
        BY DEF DataTypes
      <3> QED BY <3>1, LenProperties DEF TaskType
    <2>2. \/ /\ batch' = [b \in Batches |->
                            IF b \in members THEN [batch[b] EXCEPT !.db = TRUE] ELSE batch[b]]
             /\ dbFree' = dbFree - Len(bs)
          \/ batch' = batch /\ dbFree' = dbFree
      BY <1>2 DEF StartSend
    <2> HIDE DEF bs, members
    <2>3. dbFree' \in Int
      BY <2>1, <2>2 DEF DataTypes
    <2>4. batch' \in [Batches -> BatchType]
      <3>1. \A r \in BatchType : [r EXCEPT !.db = TRUE] \in BatchType
        BY DEF BatchType
      <3> QED BY <2>2, <3>1 DEF DataTypes
    <2>5. queue' \in Q
      BY <1>0, <1>2 DEF StartSend, Flushing
    <2>6. UNCHANGED <<pool, finished, acc, taskPool, task, ioFree>>
      BY <1>2 DEF StartSend
    <2>7. DataTypes'
      BY <2>3, <2>4, <2>5, <2>6 DEF DataTypes, Q
    <2>8. /\ cur' = t /\ pc' \in {"enqueue", "alloc"} /\ pc = "flush"
          /\ UNCHANGED <<stack, pend, burst>>
      BY <1>2 DEF StartSend, Flushing
    <2>9. ControlTypes' /\ Frames1'
      BY <2>8 DEF ControlTypes, Pcs, Frames1
    <2>10. FlagTypes'
      BY <1>2 DEF StartSend, FlagTypes, coVars
    <2>11. RingTypes' /\ CoprocTypes'
      BY <1>2, SameRings, SameCoproc DEF StartSend, coVars
    <2> QED BY <2>7, <2>9, <2>10, <2>11
  <1>3. CASE AllocIoBase
    <2>1. cur \in Tasks
      BY <1>3 DEF AllocIoBase, Frames1
    <2>2. task[cur] \in TaskType /\ ioFree \in Seq(IoBases \cup {NoIo})
      BY <2>1 DEF DataTypes
    <2>3. \/ /\ task' = [task EXCEPT ![cur] = [task[cur] EXCEPT !.state = "PREPARED"]]
             /\ ioFree' = ioFree
          \/ /\ task' = [task EXCEPT ![cur] = [task[cur] EXCEPT !.state = "PREPARED",
                                                                !.io = Head(ioFree)]]
             /\ ioFree # <<>> /\ ioFree' = Tail(ioFree)
      BY <1>3 DEF AllocIoBase
    <2>4. ioFree # <<>> => /\ Head(ioFree) \in IoBases \cup {NoIo}
                           /\ Tail(ioFree) \in Seq(IoBases \cup {NoIo})
      BY <2>2, PopFrontType
    <2>5. /\ [task[cur] EXCEPT !.state = "PREPARED"] \in TaskType
          /\ ioFree # <<>> =>
               [task[cur] EXCEPT !.state = "PREPARED", !.io = Head(ioFree)] \in TaskType
      BY <2>2, <2>4 DEF TaskType, TaskStates
    <2>6. task' \in [Tasks -> TaskType] /\ ioFree' \in Seq(IoBases \cup {NoIo})
      BY <2>2, <2>3, <2>4, <2>5 DEF DataTypes
    <2>7. UNCHANGED <<pool, batch, queue, finished, acc, taskPool, dbFree>>
      BY <1>3 DEF AllocIoBase
    <2>8. DataTypes'
      BY <2>6, <2>7 DEF DataTypes
    <2>9. pc = "alloc" /\ pc' = "enqueue" /\ UNCHANGED <<cur, stack, pend, burst>>
      BY <1>3 DEF AllocIoBase
    <2>10. ControlTypes' /\ Frames1'
      BY <2>9 DEF ControlTypes, Pcs, Frames1
    <2>11. FlagTypes'
      BY <1>3 DEF AllocIoBase, FlagTypes, coVars
    <2>12. RingTypes' /\ CoprocTypes'
      BY <1>3, SameRings, SameCoproc DEF AllocIoBase, coVars
    <2> QED BY <2>8, <2>10, <2>11, <2>12
  <1>4. CASE WaitIoBase
    <2>1. DataTypes' /\ RingTypes' /\ CoprocTypes'
      BY <1>4, SameData, SameRings, SameCoproc DEF WaitIoBase, coVars
    <2>2. cur \in Tasks /\ stack # <<>> /\ EvRun("send", cur)
      BY <1>4 DEF WaitIoBase, Frames1
    <2>3. stack' \in Seq(FrameType) /\ Frames1' /\ pc' = "invoke" /\ loopDone' = FALSE
      BY <2>2, EvRunTypes
    <2>4. cur' = NoTask /\ UNCHANGED <<pend, burst, broken, coBroken>>
      BY <1>4 DEF WaitIoBase, coVars
    <2>5. ControlTypes'
      BY <2>3, <2>4 DEF ControlTypes, Pcs
    <2>6. FlagTypes'
      BY <2>3, <2>4 DEF FlagTypes
    <2> QED BY <2>1, <2>3, <2>5, <2>6
  <1>5. CASE DropTask \/ EnqueueInput \/ DelayTask \/ NotifyInput
    <2>1. cur \in Tasks /\ stack # <<>>
      BY <1>5 DEF DropTask, EnqueueInput, DelayTask, NotifyInput, Frames1
    <2>2. /\ pc' \in {"flush", "notify"} /\ cur' \in {cur, NoTask}
          /\ pc' = "notify" => cur' = cur
          /\ UNCHANGED <<stack, pend, burst>>
      BY <1>5 DEF DropTask, EnqueueInput, DelayTask, NotifyInput
    <2>3. ControlTypes' /\ Frames1'
      BY <2>1, <2>2 DEF ControlTypes, Pcs, Frames1
    <2>4. FlagTypes'
      BY <1>5 DEF DropTask, EnqueueInput, DelayTask, NotifyInput, FlagTypes, coVars
    <2>5. CoprocTypes'
      BY <1>5, SameCoproc DEF DropTask, EnqueueInput, DelayTask, NotifyInput, coVars
    <2>6. DataTypes'
      <3>1. queue' \in Q
        BY <1>0, <1>5, <2>1 DEF DropTask, EnqueueInput, DelayTask, NotifyInput, dataVars
      <3>2. UNCHANGED <<pool, batch, finished, acc, taskPool, task, ioFree, dbFree>>
        BY <1>5 DEF DropTask, EnqueueInput, DelayTask, NotifyInput, dataVars
      <3> QED BY <3>1, <3>2 DEF DataTypes, Q
    <2>7. RingTypes'
      <3>1. /\ async' = async /\ compRing' = compRing
            /\ coAsync' \in {coAsync, coAsync \cup {"input"}}
            /\ inRing' \in {inRing, Append(inRing, cur)}
        BY <1>5 DEF DropTask, EnqueueInput, DelayTask, NotifyInput, ringVars
      <3>2. inRing \in Seq(Tasks) /\ Append(inRing, cur) \in Seq(Tasks)
        BY <2>1, PushBackType DEF RingTypes
      <3> QED BY <3>1, <3>2 DEF RingTypes
    <2> QED BY <2>3, <2>4, <2>5, <2>6, <2>7
  <1> QED BY <1>1, <1>2, <1>3, <1>4, <1>5

\* The coprocessor thread, the device and the signal.
LEMMA CoprocStepTypes ==
    ASSUME TypeInv, CoprocStep \/ Signal \/ \E t \in Tasks : DeviceStep(t)
    PROVE  TypeInv'
  <1> USE DEF TypeInv
  <1>1. CASE CoPoll \/ CoTerminateCb
    <2>1. DataTypes' /\ ControlTypes' /\ Frames1'
      BY <1>1, SameData DEF CoPoll, CoTerminateCb, ctlVars, ControlTypes, Frames1
    <2>2. FlagTypes'
      BY <1>1 DEF CoPoll, CoTerminateCb, ctlVars, FlagTypes
    <2>3. RingTypes'
      BY <1>1 DEF CoPoll, CoTerminateCb, RingTypes, ringVars
    <2>4. CoprocTypes'
      BY <1>1 DEF CoPoll, CoTerminateCb, CoprocTypes, RingTypes
    <2> QED BY <2>1, <2>2, <2>3, <2>4
  <1>2. CASE InputCb
    <2>1. UNCHANGED <<coCtl, async, coAsync, compRing, doneQ, coBroken>> /\ coPc' = "refeed"
      BY <1>2 DEF InputCb
    <2>2. ControlTypes' /\ Frames1'
      BY <2>1 DEF coCtl, ctlVars, ControlTypes, Frames1
    <2>3. FlagTypes'
      BY <2>1 DEF coCtl, ctlVars, FlagTypes
    <2>4. CASE inRing = <<>>
      <3>1. coPend' = coPend \ {"input"} /\ UNCHANGED <<inRing, task, d2hQ, dev>>
        BY <1>2, <2>4 DEF InputCb
      <3>2. DataTypes' /\ RingTypes'
        BY <2>1, <3>1 DEF coCtl, DataTypes, RingTypes
      <3>3. CoprocTypes'
        BY <2>1, <3>1 DEF CoprocTypes
      <3> QED BY <2>2, <2>3, <3>2, <3>3
    <2>5. CASE inRing # <<>>
      <3> DEFINE t == Head(inRing)
      <3>1. inRing \in Seq(Tasks) /\ d2hQ \in Seq(Tasks)
        BY DEF RingTypes, CoprocTypes
      <3>2. t \in Tasks /\ Tail(inRing) \in Seq(Tasks)
        BY <2>5, <3>1, PopFrontType
      <3>3. Append(d2hQ, t) \in Seq(Tasks)
        BY <3>1, <3>2, PushBackType
      <3>4. /\ \/ task' = [task EXCEPT ![t] = [task[t] EXCEPT !.state = "EXECUTING"]]
               \/ task' = [task EXCEPT ![t] = [task[t] EXCEPT !.state = "H2D_COPYING"]]
            /\ dev' = [dev EXCEPT ![t] = "kernel"] \/ dev' = [dev EXCEPT ![t] = "executed"]
            /\ inRing' = Tail(inRing) /\ d2hQ' = Append(d2hQ, t)
            /\ coPend' = (coPend \ {"input"}) \cup {"d2h"}
        BY <1>2, <2>5 DEF InputCb
      <3> HIDE DEF t
      <3>5. /\ [task[t] EXCEPT !.state = "EXECUTING"] \in TaskType
            /\ [task[t] EXCEPT !.state = "H2D_COPYING"] \in TaskType
        <4>1. task[t] \in TaskType
          BY <3>2 DEF DataTypes
        <4> QED BY <4>1 DEF TaskType, TaskStates
      <3>6. task' \in [Tasks -> TaskType]
        BY <3>4, <3>5 DEF DataTypes
      <3>7. DataTypes'
        BY <2>1, <3>6 DEF coCtl, DataTypes
      <3>8. RingTypes'
        BY <2>1, <3>2, <3>4 DEF RingTypes
      <3>9. dev' \in [Tasks -> {"idle", "kernel", "executed", "copying", "copied"}]
        BY <3>4 DEF CoprocTypes
      <3>10. CoprocTypes'
        BY <2>1, <3>3, <3>4, <3>9 DEF CoprocTypes
      <3> QED BY <2>2, <2>3, <3>7, <3>8, <3>10
    <2> QED BY <2>4, <2>5
  <1>3. CASE InputRefeed \/ NotifyCompletion
    <2>1. DataTypes' /\ ControlTypes' /\ Frames1'
      BY <1>3, SameData DEF InputRefeed, NotifyCompletion, ctlVars, ControlTypes, Frames1
    <2>2. FlagTypes'
      BY <1>3 DEF InputRefeed, NotifyCompletion, ctlVars, FlagTypes
    <2>3. RingTypes'
      BY <1>3 DEF InputRefeed, NotifyCompletion, RingTypes, ringVars
    <2>4. CoprocTypes'
      BY <1>3 DEF InputRefeed, NotifyCompletion, CoprocTypes, Refeed
    <2> QED BY <2>1, <2>2, <2>3, <2>4
  <1>4. CASE D2hCb
    <2> DEFINE t == Head(d2hQ)
    <2>1. UNCHANGED <<coCtl, ringVars, coPc, coBroken>>
      BY <1>4 DEF D2hCb
    <2>2. ControlTypes' /\ Frames1' /\ RingTypes'
      BY <2>1, SameRings DEF coCtl, ctlVars, ControlTypes, Frames1
    <2>3. FlagTypes'
      BY <2>1 DEF coCtl, ctlVars, FlagTypes
    <2>4. d2hQ \in Seq(Tasks) /\ doneQ \in Seq(Tasks) /\ d2hQ # <<>>
      BY <1>4 DEF D2hCb, CoprocTypes
    <2>5. t \in Tasks /\ Tail(d2hQ) \in Seq(Tasks)
      BY <2>4, PopFrontType
    <2>6. Append(doneQ, t) \in Seq(Tasks) /\ Append(Tail(d2hQ), t) \in Seq(Tasks)
      BY <2>4, <2>5, PushBackType
    <2>7. coPend' \subseteq {"input", "d2h", "done", "terminate"}
      BY <1>4 DEF D2hCb, Refeed, CoprocTypes
    <2>8. \/ /\ task' = [task EXCEPT ![t] = [task[t] EXCEPT !.state = "D2H_COPYING"]]
             /\ dev' = [dev EXCEPT ![t] = "copying"]
             /\ d2hQ' = Tail(d2hQ) /\ doneQ' = Append(doneQ, t)
          \/ /\ d2hQ' = Append(Tail(d2hQ), t)
             /\ UNCHANGED <<task, dev, doneQ>>
      BY <1>4 DEF D2hCb
    <2> HIDE DEF t
    <2>9. [task[t] EXCEPT !.state = "D2H_COPYING"] \in TaskType
      <3>1. task[t] \in TaskType
        BY <2>5 DEF DataTypes
      <3> QED BY <3>1 DEF TaskType, TaskStates
    <2>10. DataTypes'
      <3>1. task' \in [Tasks -> TaskType]
        BY <2>8, <2>9 DEF DataTypes
      <3> QED BY <2>1, <3>1 DEF coCtl, DataTypes
    <2>11. CoprocTypes'
      <3>1. dev' \in [Tasks -> {"idle", "kernel", "executed", "copying", "copied"}]
        BY <2>8 DEF CoprocTypes
      <3>2. d2hQ' \in Seq(Tasks) /\ doneQ' \in Seq(Tasks)
        BY <2>4, <2>5, <2>6, <2>8
      <3> QED BY <2>1, <2>7, <3>1, <3>2 DEF CoprocTypes
    <2> QED BY <2>2, <2>3, <2>10, <2>11
  <1>5. CASE DoneCb
    <2> DEFINE t == Head(doneQ)
    <2>1. UNCHANGED <<coCtl, async, coAsync, inRing, d2hQ, coBroken, dev>>
      BY <1>5 DEF DoneCb
    <2>2. ControlTypes' /\ Frames1'
      BY <2>1 DEF coCtl, ctlVars, ControlTypes, Frames1
    <2>3. FlagTypes'
      BY <2>1 DEF coCtl, ctlVars, FlagTypes
    <2>4. doneQ \in Seq(Tasks) /\ compRing \in Seq(Tasks) /\ doneQ # <<>>
      BY <1>5 DEF DoneCb, CoprocTypes, RingTypes
    <2>5. t \in Tasks /\ Tail(doneQ) \in Seq(Tasks)
      BY <2>4, PopFrontType
    <2>6. Append(compRing, t) \in Seq(Tasks) /\ Append(Tail(doneQ), t) \in Seq(Tasks)
      BY <2>4, <2>5, PushBackType
    <2>7. coPend' \subseteq {"input", "d2h", "done", "terminate"}
      BY <1>5 DEF DoneCb, Refeed, CoprocTypes
    <2>8. \/ /\ task' = [task EXCEPT ![t] = [task[t] EXCEPT !.state = "FINISHED"]]
             /\ compRing' = Append(compRing, t) /\ doneQ' = Tail(doneQ)
             /\ coPc' \in {"notify", "aborted"}
          \/ /\ doneQ' = Append(Tail(doneQ), t)
             /\ UNCHANGED <<task, compRing, coPc>>
      BY <1>5 DEF DoneCb
    <2> HIDE DEF t
    <2>9. [task[t] EXCEPT !.state = "FINISHED"] \in TaskType
      <3>1. task[t] \in TaskType
        BY <2>5 DEF DataTypes
      <3> QED BY <3>1 DEF TaskType, TaskStates
    <2>10. DataTypes'
      <3>1. task' \in [Tasks -> TaskType]
        BY <2>8, <2>9 DEF DataTypes
      <3> QED BY <2>1, <3>1 DEF coCtl, DataTypes
    <2>11. RingTypes'
      BY <2>1, <2>4, <2>6, <2>8 DEF RingTypes
    <2>12. CoprocTypes'
      <3>1. doneQ' \in Seq(Tasks) /\ coPc' \in {"loop", "refeed", "notify", "aborted"}
        BY <2>4, <2>5, <2>6, <2>8 DEF CoprocTypes
      <3> QED BY <2>1, <2>7, <3>1 DEF CoprocTypes
    <2> QED BY <2>2, <2>3, <2>10, <2>11, <2>12
  <1>6. CASE Signal
    <2>1. DataTypes' /\ CoprocTypes'
      BY <1>6, SameData, SameCoproc DEF Signal, coVars
    <2>2. RingTypes'
      BY <1>6 DEF Signal, RingTypes
    <2>3. ControlTypes' /\ Frames1'
      BY <1>6 DEF Signal, ControlTypes, Frames1
    <2>4. FlagTypes'
      BY <1>6 DEF Signal, FlagTypes, coVars
    <2> QED BY <2>1, <2>2, <2>3, <2>4
  <1>7. ASSUME NEW t \in Tasks, DeviceStep(t) PROVE TypeInv'
    <2>1. DataTypes' /\ RingTypes' /\ ControlTypes' /\ Frames1'
      BY <1>7, SameData, SameRings
      DEF DeviceStep, KernelFinishes, CopyFinishes, ctlVars, ControlTypes, Frames1
    <2>2. FlagTypes'
      BY <1>7 DEF DeviceStep, KernelFinishes, CopyFinishes, ctlVars, FlagTypes
    <2>3. CoprocTypes'
      BY <1>7 DEF DeviceStep, KernelFinishes, CopyFinishes, CoprocTypes
    <2> QED BY <2>1, <2>2, <2>3
  <1> QED BY <1>1, <1>2, <1>3, <1>4, <1>5, <1>6, <1>7 DEF CoprocStep

LEMMA StepTypeInv == TypeInv /\ [Next]_vars => TypeInv'
  <1> SUFFICES ASSUME TypeInv, [Next]_vars PROVE TypeInv'
    OBVIOUS
  <1>1. CASE CompStep \/ PollTimer
    <2>1. CASE Flush
      BY <2>1, BatchTypes, SendTypes DEF Flush
    <2>2. CASE ~Flush
      BY <1>1, <2>2, LoopTypes, CallbackTypes, BatchTypes DEF CompStep, Poll, PollTimer
    <2> QED BY <2>1, <2>2
  <1>2. CASE CoprocStep \/ Signal \/ \E t \in Tasks : DeviceStep(t)
    BY <1>2, CoprocStepTypes
  <1>3. CASE UNCHANGED vars
    BY <1>3, SameData, SameControl, SameRings, SameCoproc DEF vars, coVars, TypeInv
  <1> QED BY <1>1, <1>2, <1>3 DEF Next

\* Every variable keeps its type, whatever the two threads, the device and a
\* signal do, and however deeply ev_run() is nested.
THEOREM TypeCorrect == Spec => []TypeOK
  <1>1. Spec => []TypeInv
    BY InitTypeInv, StepTypeInv, PTL DEF Spec
  <1> QED BY <1>1, TypeInvImpliesTypeOK, PTL

-----------------------------------------------------------------------------
(* Wakeups.  NoLostWakeup is inductive once three facts are added: a loop    *)
(* that polls has nothing pending (Wake overwrites pend), a broken           *)
(* coprocessor loop has neither pending events nor a callback under way, and *)
(* then it owes nothing to the device.                                       *)

WakeInv ==
    /\ NoLostWakeup
    /\ pc = "poll" => pend = {}
    /\ coBroken => coPend = {} /\ coPc = "loop" /\ d2hQ = <<>> /\ doneQ = <<>>

LEMMA InitWakeInv == Init => WakeInv
  BY DEF Init, WakeInv, NoLostWakeup

\* A step that touches no ring, no watcher and no coprocessor variable, and that
\* neither is the pending NotifyInput nor starts a poll.
LEMMA WakeSame ==
    ASSUME WakeInv, UNCHANGED <<ringVars, coPend, coPc, d2hQ, doneQ, coBroken>>,
           pend' = pend, pc # "notify", pc' # "poll"
    PROVE  WakeInv'
  BY DEF WakeInv, NoLostWakeup, ringVars

LEMMA CompWakeInv ==
    ASSUME WakeInv, CompStep \/ PollTimer \/ Signal
    PROVE  WakeInv'
  <1>1. CASE LoopRound
    <2>1. pc = "invoke" /\ pend = {} /\ UNCHANGED <<pend, ringVars, coVars>>
      BY <1>1 DEF LoopRound
    <2> QED BY <2>1 DEF WakeInv, NoLostWakeup, ringVars, coVars
  <1>2. CASE Wake
    BY <1>2 DEF Wake, WakeInv, NoLostWakeup, coVars
  <1>3. CASE CompletionCb
    BY <1>3 DEF CompletionCb, WakeInv, NoLostWakeup, coVars
  <1>4. CASE TerminateCb \/ CheckCb
    BY <1>4 DEF TerminateCb, CheckCb, WakeInv, NoLostWakeup, ringVars, coVars
  <1>5. CASE EnqueueInput
    BY <1>5 DEF EnqueueInput, WakeInv, NoLostWakeup, coVars
  <1>6. CASE NotifyInput
    BY <1>6 DEF NotifyInput, WakeInv, NoLostWakeup, coVars
  <1>7. CASE Signal
    BY <1>7 DEF Signal, WakeInv, NoLostWakeup, coVars
  <1>8. CASE CompleteTask \/ CompletionDone \/ ReceiveChunk \/ RunLoop \/ StopIoLoop
    BY <1>8, WakeSame
    DEF CompleteTask, CompletionDone, ReceiveChunk, RunLoop, StopIoLoop, EvRun, coVars
  <1>9. CASE GetBatch \/ WaitBatch \/ AbandonChunk \/ FlushDone \/ ScanDone
    BY <1>9, WakeSame DEF GetBatch, WaitBatch, AbandonChunk, FlushDone, ScanDone, EvRun, coVars
  <1>10. CASE AllocIoBase \/ WaitIoBase \/ DropTask \/ DelayTask
    BY <1>10, WakeSame DEF AllocIoBase, WaitIoBase, DropTask, DelayTask, EvRun, coVars
  <1>11. ASSUME NEW e \in Elems, ScanBatch(e) PROVE WakeInv'
    BY <1>11, WakeSame DEF ScanBatch, ctlVars, coVars
  <1>12. ASSUME NEW b \in Batches, DelayBatch(b) \/ ForwardBatch(b) PROVE WakeInv'
    BY <1>12, WakeSame DEF DelayBatch, ForwardBatch, Flushing, ctlVars, coVars
  <1>13. ASSUME NEW b \in Batches, NEW t \in Tasks, OffloadBatch(b, t) PROVE WakeInv'
    BY <1>13, WakeSame DEF OffloadBatch, Flushing, ctlVars, coVars
  <1>14. ASSUME NEW t \in Tasks, StartSend(t) PROVE WakeInv'
    BY <1>14, WakeSame DEF StartSend, Flushing, coVars
  <1> QED BY <1>1, <1>2, <1>3, <1>4, <1>5, <1>6, <1>7, <1>8, <1>9, <1>10, <1>11, <1>12,
             <1>13, <1>14 DEF CompStep, Flush, Poll, PollTimer

LEMMA CoprocWakeInv ==
    ASSUME TypeInv, WakeInv, CoprocStep \/ \E t \in Tasks : DeviceStep(t)
    PROVE  WakeInv'
  <1>0. /\ coPend \subseteq {"input", "d2h", "done", "terminate"}
        /\ d2hQ \in Seq(Tasks) /\ doneQ \in Seq(Tasks) /\ inRing \in Seq(Tasks)
    BY DEF TypeInv, CoprocTypes, RingTypes
  <1>1. CASE CoPoll
    BY <1>1 DEF CoPoll, WakeInv, NoLostWakeup, ctlVars
  <1>2. CASE InputCb
    <2>1. ~coBroken
      BY <1>2 DEF InputCb, Invokable, WakeInv
    <2>2. /\ UNCHANGED <<pc, pend, async, coAsync, compRing, doneQ, coBroken>>
          /\ coPc = "loop" /\ coPc' = "refeed"
      BY <1>2 DEF InputCb, Invokable, coCtl, ctlVars
    <2>3. \/ coPend' = coPend \ {"input"} /\ d2hQ' = d2hQ
          \/ coPend' = (coPend \ {"input"}) \cup {"d2h"}
      BY <1>2 DEF InputCb
    <2> QED BY <2>1, <2>2, <2>3 DEF WakeInv, NoLostWakeup
  <1>3. CASE InputRefeed
    <2>1. ~coBroken
      BY <1>3 DEF InputRefeed, WakeInv
    <2>2. inRing # <<>> => "input" \in Refeed("input", inRing)
      BY <1>0, EmptySeq DEF Refeed
    <2> QED BY <1>3, <2>1, <2>2 DEF InputRefeed, WakeInv, NoLostWakeup, ctlVars, ringVars
  <1>4. CASE D2hCb
    <2>1. ~coBroken /\ "input" \notin coPend /\ coPc = "loop"
      BY <1>4 DEF D2hCb, Invokable, Priority, WakeInv
    <2>2. UNCHANGED <<pc, pend, async, coAsync, inRing, compRing, coPc, coBroken>>
      BY <1>4 DEF D2hCb, coCtl, ctlVars, ringVars
    <2>3. coPend' = (coPend \ {"d2h"})
                      \cup (IF doneQ' # doneQ /\ (Len(doneQ') >= 8 \/ "input" \notin coPend)
                              THEN {"done"} ELSE {})
                      \cup Refeed("d2h", d2hQ')
      BY <1>4 DEF D2hCb
    <2>4. d2hQ' \in Seq(Tasks)
      BY <1>4, CoprocStepTypes DEF CoprocStep, TypeInv, CoprocTypes
    <2>5. d2hQ' # <<>> => "d2h" \in Refeed("d2h", d2hQ')
      BY <2>4, EmptySeq DEF Refeed
    <2>6. d2hQ' # <<>> => "d2h" \in coPend'
      BY <2>3, <2>5
    <2>7. doneQ' # <<>> => "done" \in coPend'
      BY <2>1, <2>3 DEF WakeInv, NoLostWakeup
    <2>8. inRing' # <<>> /\ ~coBroken' =>
            "input" \in coAsync' \/ pc' = "notify"
      BY <2>1, <2>2 DEF WakeInv, NoLostWakeup
    <2> QED BY <2>1, <2>2, <2>6, <2>7, <2>8 DEF WakeInv, NoLostWakeup
  <1>5. CASE DoneCb
    <2>1. ~coBroken /\ coPc = "loop"
      BY <1>5 DEF DoneCb, Invokable, WakeInv
    <2>2. UNCHANGED <<pc, pend, async, coAsync, inRing, d2hQ, coBroken>>
      BY <1>5 DEF DoneCb, coCtl, ctlVars
    <2>3. coPend' = (coPend \ {"done"}) \cup Refeed("done", doneQ')
      BY <1>5 DEF DoneCb
    <2>4. doneQ' \in Seq(Tasks)
      BY <1>5, CoprocStepTypes DEF CoprocStep, TypeInv, CoprocTypes
    <2>5. doneQ' # <<>> => "done" \in Refeed("done", doneQ')
      BY <2>4, EmptySeq DEF Refeed
    <2>6. coPc' \in {"notify", "aborted"} \/ compRing' = compRing
      BY <1>5 DEF DoneCb
    <2> QED BY <2>1, <2>2, <2>3, <2>5, <2>6 DEF WakeInv, NoLostWakeup
  <1>6. CASE NotifyCompletion
    BY <1>6 DEF NotifyCompletion, WakeInv, NoLostWakeup, ctlVars
  <1>7. CASE CoTerminateCb
    <2>1. coPend = {"terminate"} /\ coPc = "loop"
      <3>1. /\ "terminate" \in coPend /\ coPc = "loop"
            /\ \A v \in coPend : Priority[v] <= Priority["terminate"]
        BY <1>7 DEF CoTerminateCb, Invokable
      <3>2. "input" \notin coPend /\ "d2h" \notin coPend /\ "done" \notin coPend
        BY <3>1 DEF Priority
      <3> QED BY <1>0, <3>1, <3>2
    <2>2. d2hQ = <<>> /\ doneQ = <<>>
      BY <2>1 DEF WakeInv, NoLostWakeup
    <2> QED BY <1>7, <2>1, <2>2 DEF CoTerminateCb, WakeInv, NoLostWakeup, ctlVars, ringVars
  <1>8. ASSUME NEW t \in Tasks, DeviceStep(t) PROVE WakeInv'
    BY <1>8 DEF DeviceStep, KernelFinishes, CopyFinishes, WakeInv, NoLostWakeup, ctlVars, ringVars
  <1> QED BY <1>1, <1>2, <1>3, <1>4, <1>5, <1>6, <1>7, <1>8 DEF CoprocStep

LEMMA SpecWakeInv == Spec => []WakeInv
  <1>1. TypeInv /\ WakeInv /\ [Next]_vars => WakeInv'
    <2>1. UNCHANGED vars => (WakeInv => WakeInv')
      BY DEF vars, ringVars, ctlVars, coVars, WakeInv, NoLostWakeup
    <2> QED BY <2>1, CompWakeInv, CoprocWakeInv DEF Next
  <1> QED BY <1>1, InitTypeInv, StepTypeInv, InitWakeInv, PTL DEF Spec

\* No wakeup is lost between the threads or between the coprocessor's stages,
\* for rings of any capacity and any number of tasks.
THEOREM WakeupsCorrect == Spec => []NoLostWakeup
  <1>1. WakeInv => NoLostWakeup
    BY DEF WakeInv
  <1> QED BY <1>1, SpecWakeInv, PTL

\* A coprocessor thread that has left its loop has finished every task it took
\* from its input ring.
THEOREM DrainCorrect == Spec => []CoprocDrained
  <1>1. WakeInv => CoprocDrained
    BY DEF WakeInv, CoprocDrained
  <1> QED BY <1>1, SpecWakeInv, PTL

-----------------------------------------------------------------------------
(* Tasks.  TaskConservation is inductive with two more facts: only a wait    *)
(* for an io_base keeps a task in its frame, and the burst of completed      *)
(* tasks is empty outside of the completion callback.                        *)

WaitFrames ==
    \A i \in 1..Len(stack) : stack[i].kind # "send" => stack[i].task = NoTask

\* The burst of completed tasks is there only while it is processed.
BurstInv == pc # "complete" => burst = <<>>

TaskInv == TypeInv /\ TaskConservation /\ WaitFrames /\ BurstInv

\* The tasks of the active ev_run()s.
TasksOf(s) == [i \in DOMAIN s |-> s[i].task]

LEMMA TasksOfType ==
    ASSUME NEW s \in Seq(FrameType)
    PROVE  /\ TasksOf(s) \in Seq(Tasks \cup {NoTask}) /\ Len(TasksOf(s)) = Len(s)
           /\ Len(s) \in Nat
           /\ \A i \in 1..Len(s) : TasksOf(s)[i] = s[i].task
  <1>1. PICK n \in Nat : s \in [1..n -> FrameType] /\ n = Len(s)
    OBVIOUS
  <1>2. TasksOf(s) \in [1..n -> Tasks \cup {NoTask}] /\ \A i \in 1..n : TasksOf(s)[i] = s[i].task
    BY <1>1 DEF TasksOf, FrameType
  <1> HIDE DEF TasksOf
  <1> QED BY <1>1, <1>2

LEMMA TasksOfPush ==
    ASSUME NEW s \in Seq(FrameType), NEW f \in FrameType
    PROVE  TasksOf(<<f>> \o s) = <<f.task>> \o TasksOf(s)
  <1> DEFINE u == <<f>> \o s
             v == <<f.task>> \o TasksOf(s)
             T == Tasks \cup {NoTask}
  <1>1. /\ u \in Seq(FrameType) /\ Len(u) = Len(s) + 1
        /\ \A i \in 1..Len(s) + 1 : u[i] = IF i = 1 THEN f ELSE s[i - 1]
    BY PushFrontType
  <1>2. /\ TasksOf(s) \in Seq(T) /\ Len(TasksOf(s)) = Len(s) /\ Len(s) \in Nat
        /\ \A i \in 1..Len(s) : TasksOf(s)[i] = s[i].task
    BY TasksOfType
  <1>3. f.task \in T
    BY DEF FrameType
  <1> HIDE DEF T
  <1>4. /\ v \in Seq(T) /\ Len(v) = Len(s) + 1
        /\ \A i \in 1..Len(s) + 1 : v[i] = IF i = 1 THEN f.task ELSE TasksOf(s)[i - 1]
    BY <1>2, <1>3, PushFrontType
  <1> HIDE DEF u, v
  <1>5. /\ TasksOf(u) \in Seq(T) /\ Len(TasksOf(u)) = Len(s) + 1
        /\ \A i \in 1..Len(s) + 1 : TasksOf(u)[i] = u[i].task
    BY <1>1, TasksOfType DEF T
  <1>6. \A i \in 1..Len(s) + 1 : TasksOf(u)[i] = v[i]
    <2> TAKE i \in 1..Len(s) + 1
    <2>1. CASE i = 1
      BY <1>1, <1>4, <1>5, <2>1
    <2>2. CASE i # 1
      <3>1. i - 1 \in 1..Len(s)
        BY <1>2, <2>2
      <3> QED BY <1>1, <1>2, <1>4, <1>5, <2>2, <3>1
    <2> QED BY <2>1, <2>2
  <1>7. TasksOf(u) = v
    BY <1>4, <1>5, <1>6, SeqEqual
  <1> QED BY <1>7 DEF u, v

LEMMA TasksOfPop ==
    ASSUME NEW s \in Seq(FrameType), s # <<>>
    PROVE  /\ TasksOf(s) # <<>> /\ Head(TasksOf(s)) = Head(s).task
           /\ TasksOf(Tail(s)) = Tail(TasksOf(s))
  <1> DEFINE T == Tasks \cup {NoTask}
  <1>1. /\ Tail(s) \in Seq(FrameType) /\ Len(Tail(s)) = Len(s) - 1 /\ Len(s) \in Nat \ {0}
        /\ \A i \in 1..Len(s) - 1 : Tail(s)[i] = s[i + 1]
        /\ Head(s) = s[1]
    BY HeadTailProperties, EmptySeq
  <1>2. /\ TasksOf(s) \in Seq(T) /\ Len(TasksOf(s)) = Len(s) /\ Len(s) \in Nat
        /\ \A i \in 1..Len(s) : TasksOf(s)[i] = s[i].task
    BY TasksOfType
  <1> HIDE DEF T
  <1>3. TasksOf(s) # <<>>
    BY <1>1, <1>2, EmptySeq
  <1>4. /\ Tail(TasksOf(s)) \in Seq(T) /\ Len(Tail(TasksOf(s))) = Len(s) - 1
        /\ \A i \in 1..Len(s) - 1 : Tail(TasksOf(s))[i] = TasksOf(s)[i + 1]
        /\ Head(TasksOf(s)) = TasksOf(s)[1]
    BY <1>2, <1>3, HeadTailProperties
  <1>5. /\ TasksOf(Tail(s)) \in Seq(T) /\ Len(TasksOf(Tail(s))) = Len(s) - 1
        /\ \A i \in 1..Len(s) - 1 : TasksOf(Tail(s))[i] = Tail(s)[i].task
    BY <1>1, TasksOfType DEF T
  <1>6. \A i \in 1..Len(s) - 1 : TasksOf(Tail(s))[i] = Tail(TasksOf(s))[i]
    <2> TAKE i \in 1..Len(s) - 1
    <2>1. i + 1 \in 1..Len(s)
      BY <1>1
    <2> QED BY <1>1, <1>2, <1>4, <1>5, <2>1
  <1>7. TasksOf(Tail(s)) = Tail(TasksOf(s))
    BY <1>4, <1>5, <1>6, SeqEqual
  <1>8. Head(TasksOf(s)) = Head(s).task
    BY <1>1, <1>2, <1>4
  <1> QED BY <1>3, <1>7, <1>8

\* The places of a task are counted by numbers.
LEMMA TaskPlaces ==
    ASSUME TypeInv, NEW t \in Tasks
    PROVE  /\ Count(acc, t) \in Nat /\ Count(queue, t) \in Nat
           /\ Count(inRing, t) \in Nat /\ Count(d2hQ, t) \in Nat
           /\ Count(doneQ, t) \in Nat /\ Count(compRing, t) \in Nat
           /\ Count(burst, t) \in Nat
           /\ Frames(t) \in Nat /\ Frames(t) = Count(TasksOf(stack), t)
           /\ InHand(t) \in {0, 1} /\ OnDevice(t) \in Nat /\ TaskCopies(t) \in Nat
  <1>1. /\ queue \in Seq(Batches \cup Tasks) /\ inRing \in Seq(Tasks) /\ d2hQ \in Seq(Tasks)
        /\ doneQ \in Seq(Tasks) /\ compRing \in Seq(Tasks) /\ burst \in Seq(Tasks)
        /\ acc \in [Elems -> Tasks \cup {NoTask}] /\ stack \in Seq(FrameType)
    BY DEF TypeInv, DataTypes, RingTypes, CoprocTypes, ControlTypes
  <1>2. Count(queue, t) \in Nat
    BY <1>1, CountType
  <1>3. Count(inRing, t) \in Nat /\ Count(d2hQ, t) \in Nat /\ Count(doneQ, t) \in Nat
        /\ Count(compRing, t) \in Nat /\ Count(burst, t) \in Nat
    BY <1>1, CountType
  <1>4. acc \in Seq(Tasks \cup {NoTask})
    BY <1>1, ChainAssumption DEF Elems
  <1>5. Count(acc, t) \in Nat
    BY <1>4, CountType
  <1>6. TasksOf(stack) \in Seq(Tasks \cup {NoTask})
    BY <1>1, TasksOfType
  <1>7. Frames(t) = Count(TasksOf(stack), t)
    BY DEF Frames, TasksOf
  <1>8. Frames(t) \in Nat
    BY <1>6, <1>7, CountType
  <1>9. InHand(t) \in {0, 1}
    BY DEF InHand
  <1>10. OnDevice(t) \in Nat
    BY <1>3 DEF OnDevice
  <1>11. TaskCopies(t) \in Nat
    BY <1>2, <1>3, <1>5, <1>8, <1>9, <1>10 DEF TaskCopies
  <1> QED BY <1>2, <1>3, <1>5, <1>6, <1>7, <1>8, <1>9, <1>10, <1>11

\* A step neither duplicates a task nor loses it while the loop is not broken.
TaskMoves(t) ==
    /\ TaskCopies(t)' <= TaskCopies(t)
    /\ ~broken' => ~broken /\ TaskCopies(t)' = TaskCopies(t)

LEMMA TaskStays ==
    ASSUME TypeInv, NEW t \in Tasks, broken => broken',
           UNCHANGED <<taskPool, acc, queue, burst, inRing, d2hQ, doneQ, compRing>>,
           Frames(t)' = Frames(t), InHand(t)' = InHand(t)
    PROVE  TaskMoves(t)
  <1>1. OnDevice(t)' = OnDevice(t)
    BY DEF OnDevice
  <1>2. TaskCopies(t)' = TaskCopies(t)
    BY <1>1 DEF TaskCopies
  <1>3. TaskCopies(t) \in Nat
    BY TaskPlaces
  <1> QED BY <1>2, <1>3 DEF TaskMoves

\* A new ev_run(), the return of one, and the mark that one has polled.
LEMMA FramePushed ==
    ASSUME TypeInv, NEW kind \in {"nowait", "rx", "send"}, NEW t \in Tasks \cup {NoTask},
           EvRun(kind, t), NEW x \in Tasks
    PROVE  Frames(x)' = Frames(x) + One(t, x)
  <1> DEFINE f == [kind |-> kind, task |-> t]
  <1>1. f \in FrameType /\ f.task = t
    BY DEF FrameType
  <1>2. stack \in Seq(FrameType) /\ stack' = <<f>> \o stack
    BY DEF TypeInv, ControlTypes, EvRun
  <1> HIDE DEF f
  <1>3. TasksOf(stack') = <<t>> \o TasksOf(stack)
    BY <1>1, <1>2, TasksOfPush
  <1>4. TasksOf(stack) \in Seq(Tasks \cup {NoTask})
    BY <1>2, TasksOfType
  <1>5. Count(<<t>> \o TasksOf(stack), x) = Count(TasksOf(stack), x) + One(t, x)
    BY <1>4, CountPushFront, Zenon
  <1>6. Frames(x)' = Count(TasksOf(stack'), x) /\ Frames(x) = Count(TasksOf(stack), x)
    BY DEF Frames, TasksOf
  <1> QED BY <1>3, <1>5, <1>6

LEMMA FramePopped ==
    ASSUME TypeInv, stack # <<>>, stack' = Tail(stack), NEW x \in Tasks
    PROVE  Frames(x)' = Frames(x) - One(Head(stack).task, x)
  <1>1. stack \in Seq(FrameType)
    BY DEF TypeInv, ControlTypes
  <1>2. TasksOf(stack) \in Seq(Tasks \cup {NoTask})
    BY <1>1, TasksOfType
  <1>3. /\ TasksOf(stack) # <<>> /\ Head(TasksOf(stack)) = Head(stack).task
        /\ TasksOf(stack') = Tail(TasksOf(stack))
    BY <1>1, TasksOfPop
  <1>4. Count(Tail(TasksOf(stack)), x) = Count(TasksOf(stack), x) - One(Head(TasksOf(stack)), x)
    BY <1>2, <1>3, CountPop, Zenon
  <1>5. Frames(x)' = Count(TasksOf(stack'), x) /\ Frames(x) = Count(TasksOf(stack), x)
    BY DEF Frames, TasksOf
  <1> QED BY <1>3, <1>4, <1>5

LEMMA FrameMarked ==
    ASSUME TypeInv, stack # <<>>,
           stack' = <<[Head(stack) EXCEPT !.kind = "polled"]>> \o Tail(stack),
           NEW x \in Tasks
    PROVE  Frames(x)' = Frames(x)
  <1> DEFINE f == [Head(stack) EXCEPT !.kind = "polled"]
             T == Tasks \cup {NoTask}
  <1>1. stack \in Seq(FrameType) /\ Head(stack) \in FrameType /\ Tail(stack) \in Seq(FrameType)
    BY PopFrontType DEF TypeInv, ControlTypes
  <1>2. f \in FrameType /\ f.task = Head(stack).task /\ f.task \in T
    BY <1>1 DEF FrameType
  <1>3. TasksOf(stack) \in Seq(T) /\ TasksOf(Tail(stack)) \in Seq(T)
    BY <1>1, TasksOfType
  <1>4. stack' = <<f>> \o Tail(stack)
    OBVIOUS
  <1> HIDE DEF f, T
  <1>5. TasksOf(stack') = <<f.task>> \o TasksOf(Tail(stack))
    BY <1>1, <1>2, <1>4, TasksOfPush
  <1>6. /\ TasksOf(stack) # <<>> /\ Head(TasksOf(stack)) = Head(stack).task
        /\ TasksOf(Tail(stack)) = Tail(TasksOf(stack))
    BY <1>1, TasksOfPop
  <1>7. Count(Tail(TasksOf(stack)), x) = Count(TasksOf(stack), x) - One(Head(TasksOf(stack)), x)
    BY <1>3, <1>6, CountPop, Zenon
  <1>8. Count(<<f.task>> \o TasksOf(Tail(stack)), x)
          = Count(TasksOf(Tail(stack)), x) + One(f.task, x)
    BY <1>2, <1>3, CountPushFront, Zenon
  <1>9. /\ Count(TasksOf(stack), x) \in Nat /\ One(f.task, x) \in {0, 1}
    BY <1>3, CountType, OneType
  <1>10. Frames(x)' = Count(TasksOf(stack'), x) /\ Frames(x) = Count(TasksOf(stack), x)
    BY DEF Frames, TasksOf
  <1>11. One(Head(TasksOf(stack)), x) = One(f.task, x)
    BY <1>2, <1>6
  <1>12. Count(TasksOf(stack'), x) = (Count(TasksOf(stack), x) - One(f.task, x)) + One(f.task, x)
    BY <1>5, <1>6, <1>7, <1>8, <1>11
  <1> QED BY <1>9, <1>10, <1>12

-----------------------------------------------------------------------------
(* Where each step takes a task.                                            *)

\* A queue that gets or loses a batch has the same tasks.
LEMMA NoBatchIsTask ==
    ASSUME NEW b \in Batches, NEW t \in Tasks
    PROVE  One(b, t) = 0 /\ One(t, b) = 0
  BY PoolAssumption DEF One

LEMMA NoTaskIsNone == ASSUME NEW t \in Tasks PROVE One(NoTask, t) = 0
  BY PoolAssumption DEF One

\* The loop and its callbacks.
LEMMA LoopMoves ==
    ASSUME TaskInv, NEW x \in Tasks,
           \/ LoopRound \/ Wake \/ CompletionCb \/ CompletionDone \/ TerminateCb \/ CheckCb
           \/ FlushDone \/ ScanDone \/ ReceiveChunk \/ RunLoop \/ StopIoLoop \/ WaitBatch
           \/ AbandonChunk \/ Signal
    PROVE  TaskMoves(x)
  <1>1. /\ TypeInv /\ BurstInv /\ WaitFrames /\ x \in Tasks
        /\ Count(acc, x) \in Nat /\ Count(queue, x) \in Nat
        /\ Count(inRing, x) \in Nat /\ Count(d2hQ, x) \in Nat
        /\ Count(doneQ, x) \in Nat /\ Count(compRing, x) \in Nat /\ Count(burst, x) \in Nat
        /\ Frames(x) \in Nat /\ InHand(x) \in {0, 1}
        /\ OnDevice(x) \in Nat /\ TaskCopies(x) \in Nat
    BY TaskPlaces DEF TaskInv
  <1>2. CASE LoopRound
    <2>1. /\ UNCHANGED <<taskPool, acc, queue, burst, broken, inRing, d2hQ, doneQ, compRing>>
          /\ pc = "invoke"
      BY <1>2 DEF LoopRound, dataVars, ringVars, coVars
    <2>2. InHand(x) = 0
      BY <2>1 DEF InHand
    <2>3. CASE loopDone \/ Head(stack).kind = "polled"
      <3>1. stack # <<>> /\ stack' = Tail(stack) /\ cur' = Head(stack).task
        BY <1>1, <1>2, <2>1, <2>3 DEF LoopRound, TypeInv, Frames1
      <3>2. Frames(x)' = Frames(x) - One(Head(stack).task, x)
        BY <1>1, <3>1, FramePopped
      <3>3. InHand(x)' = One(Head(stack).task, x)
        <4>1. CASE Head(stack).kind = "send"
          <5>1. pc' = "alloc"
            BY <1>2, <2>3, <4>1 DEF LoopRound
          <5> QED BY <3>1, <5>1 DEF InHand, One
        <4>2. CASE Head(stack).kind # "send"
          <5>1. pc' \in {"getBatch", "rx"}
            BY <1>2, <2>3, <4>2 DEF LoopRound
          <5>2. Head(stack).task = NoTask
            <6>1. Len(stack) \in Nat /\ Len(stack) # 0 /\ Head(stack) = stack[1]
              BY <1>1, <3>1, HeadTailProperties, LenProperties, EmptySeq
              DEF TypeInv, ControlTypes
            <6> QED BY <1>1, <4>2, <6>1 DEF WaitFrames
          <5> QED BY <1>1, <5>1, <5>2, NoTaskIsNone DEF InHand
        <4> QED BY <4>1, <4>2
      <3>4. One(Head(stack).task, x) \in {0, 1}
        BY OneType
      <3>5. OnDevice(x)' = OnDevice(x)
        BY <2>1 DEF OnDevice
      <3>6. TaskCopies(x)' = TaskCopies(x)
        BY <1>1, <2>1, <2>2, <3>2, <3>3, <3>4, <3>5 DEF TaskCopies
      <3> QED BY <1>1, <2>1, <3>6 DEF TaskMoves
    <2>4. CASE ~(loopDone \/ Head(stack).kind = "polled")
      <3>1. UNCHANGED stack /\ pc' = "poll"
        BY <1>2, <2>4 DEF LoopRound
      <3> QED BY <1>1, <2>1, <2>2, <3>1, TaskStays DEF Frames, InHand
    <2> QED BY <2>3, <2>4
  <1>3. CASE Wake
    <2>1. /\ UNCHANGED <<taskPool, acc, queue, burst, broken, inRing, d2hQ, doneQ, compRing>>
          /\ InHand(x)' = InHand(x) /\ pc = "poll"
      BY <1>3 DEF Wake, dataVars, coVars, InHand
    <2>2. Frames(x)' = Frames(x)
      <3>1. CASE Head(stack).kind = "nowait"
        <4>1. stack # <<>> /\ stack' = <<[Head(stack) EXCEPT !.kind = "polled"]>> \o Tail(stack)
          BY <1>1, <1>3, <2>1, <3>1 DEF Wake, TypeInv, Frames1
        <4> QED BY <1>1, <4>1, FrameMarked
      <3>2. CASE Head(stack).kind # "nowait"
        BY <1>3, <3>2 DEF Wake, Frames
      <3> QED BY <3>1, <3>2
    <2> QED BY <1>1, <2>1, <2>2, TaskStays
  <1>4. CASE CompletionCb
    <2>1. /\ UNCHANGED <<taskPool, acc, queue, stack, broken, inRing, d2hQ, doneQ>>
          /\ InHand(x)' = InHand(x) /\ burst' = compRing /\ compRing' = <<>> /\ burst = <<>>
      BY <1>1, <1>4 DEF CompletionCb, dataVars, coVars, InHand, BurstInv
    <2>2. Count(burst, x) = 0 /\ Count(compRing', x) = 0 /\ Frames(x)' = Frames(x)
      BY <2>1, CountEmpty DEF Frames
    <2>3. Count(burst', x) = Count(compRing, x)
      BY <2>1
    <2>4. /\ OnDevice(x) = OnDevice(x)' + Count(compRing, x)
          /\ OnDevice(x)' \in Nat
      BY <1>1, <2>1, <2>2 DEF OnDevice
    <2>5. TaskCopies(x)' = TaskCopies(x)
      BY <1>1, <2>1, <2>2, <2>3, <2>4 DEF TaskCopies
    <2> QED BY <1>1, <2>1, <2>5 DEF TaskMoves
  <1>5. CASE CompletionDone
    <2>1. /\ UNCHANGED <<taskPool, acc, queue, stack, broken, inRing, d2hQ, doneQ, compRing>>
          /\ InHand(x)' = InHand(x) /\ burst' = <<>>
      BY <1>5 DEF CompletionDone, dataVars, coVars, ringVars, InHand
    <2>2. Count(burst', x) = 0 /\ Frames(x)' = Frames(x) /\ OnDevice(x)' = OnDevice(x)
      BY <2>1, CountEmpty DEF Frames, OnDevice
    <2>3. TaskCopies(x) = TaskCopies(x)' + Count(burst, x) /\ TaskCopies(x)' \in Int
      BY <1>1, <2>1, <2>2 DEF TaskCopies
    <2>4. burst = <<>> => Count(burst, x) = 0
      BY CountEmpty
    <2>5. burst = <<>> \/ broken
      BY <1>5 DEF CompletionDone
    <2> QED BY <1>1, <2>1, <2>3, <2>4, <2>5 DEF TaskMoves
  <1>6. CASE RunLoop
    <2>1. /\ UNCHANGED <<taskPool, acc, queue, burst, broken, inRing, d2hQ, doneQ, compRing>>
          /\ InHand(x)' = InHand(x) /\ EvRun("nowait", NoTask)
      BY <1>6 DEF RunLoop, EvRun, dataVars, ringVars, coVars, InHand
    <2>2. Frames(x)' = Frames(x) + One(NoTask, x)
      BY <1>1, <2>1, FramePushed
    <2> QED BY <1>1, <2>1, <2>2, NoTaskIsNone, TaskStays
  <1>7. CASE WaitBatch
    <2>1. /\ UNCHANGED <<taskPool, acc, queue, burst, broken, inRing, d2hQ, doneQ, compRing>>
          /\ InHand(x)' = InHand(x) /\ EvRun("rx", NoTask)
      BY <1>7 DEF WaitBatch, EvRun, dataVars, ringVars, coVars, InHand
    <2>2. Frames(x)' = Frames(x) + One(NoTask, x)
      BY <1>1, <2>1, FramePushed
    <2> QED BY <1>1, <2>1, <2>2, NoTaskIsNone, TaskStays
  <1>8. CASE TerminateCb \/ CheckCb \/ FlushDone \/ ScanDone \/ ReceiveChunk \/ StopIoLoop
    <2>1. /\ UNCHANGED <<taskPool, acc, queue, burst, stack, inRing, d2hQ, doneQ, compRing>>
          /\ InHand(x)' = InHand(x) /\ (broken => broken')
      BY <1>8 DEF TerminateCb, CheckCb, FlushDone, ScanDone, ReceiveChunk, StopIoLoop,
                  dataVars, ringVars, coVars, InHand
    <2>2. TaskCopies(x)' = TaskCopies(x)
      BY <2>1 DEF TaskCopies, OnDevice, Frames
    <2> QED BY <1>1, <2>1, <2>2 DEF TaskMoves
  <1>9. CASE AbandonChunk \/ Signal
    <2>1. /\ UNCHANGED <<taskPool, acc, queue, burst, stack, inRing, d2hQ, doneQ, compRing>>
          /\ InHand(x)' = InHand(x) /\ (broken => broken')
      BY <1>9 DEF AbandonChunk, Signal, dataVars, ringVars, coVars, InHand
    <2> QED BY <1>1, <2>1, TaskStays DEF Frames
  <1> QED BY <1>2, <1>3, <1>4, <1>5, <1>6, <1>7, <1>8, <1>9

\* The job queue, the elements and send_offload_task_to_device().
LEMMA FlushMoves ==
    ASSUME TaskInv, NEW x \in Tasks,
           \/ GetBatch \/ \E e \in Elems : ScanBatch(e)
           \/ \E b \in Batches : DelayBatch(b) \/ ForwardBatch(b)
           \/ \E t \in Tasks : StartSend(t)
           \/ AllocIoBase \/ WaitIoBase \/ DropTask \/ EnqueueInput \/ DelayTask \/ NotifyInput
    PROVE  TaskMoves(x)
  <1>1. /\ TypeInv /\ BurstInv /\ WaitFrames /\ x \in Tasks
        /\ Count(acc, x) \in Nat /\ Count(queue, x) \in Nat
        /\ Count(inRing, x) \in Nat /\ Count(d2hQ, x) \in Nat
        /\ Count(doneQ, x) \in Nat /\ Count(compRing, x) \in Nat /\ Count(burst, x) \in Nat
        /\ Frames(x) \in Nat /\ InHand(x) \in {0, 1}
        /\ OnDevice(x) \in Nat /\ TaskCopies(x) \in Nat
    BY TaskPlaces DEF TaskInv
  <1>2. /\ queue \in Seq(Batches \cup Tasks) /\ inRing \in Seq(Tasks)
        /\ finished \in [Elems -> Seq(Batches)] /\ pool \subseteq Batches
    BY <1>1 DEF TypeInv, DataTypes, RingTypes
  \* The queue changes by batches only.
  <1>3. ASSUME UNCHANGED <<taskPool, acc, burst, stack, broken, inRing, d2hQ, doneQ, compRing>>,
               InHand(x)' = InHand(x), Count(queue', x) = Count(queue, x)
        PROVE  TaskMoves(x)
    <2>1. OnDevice(x)' = OnDevice(x) /\ Frames(x)' = Frames(x)
      BY <1>3 DEF OnDevice, Frames
    <2>2. TaskCopies(x)' = TaskCopies(x)
      BY <1>1, <1>3, <2>1 DEF TaskCopies
    <2> QED BY <1>1, <1>3, <2>2 DEF TaskMoves
  <1>4. CASE GetBatch
    <2>1. PICK b \in pool : queue' = Append(queue, b)
      BY <1>4 DEF GetBatch
    <2>2. Count(queue', x) = Count(queue, x) + One(b, x) /\ One(b, x) = 0
      BY <1>2, <2>1, CountPushBack, NoBatchIsTask
    <2>3. /\ UNCHANGED <<taskPool, acc, burst, stack, broken, inRing, d2hQ, doneQ, compRing>>
          /\ InHand(x)' = InHand(x)
      BY <1>4 DEF GetBatch, ringVars, coVars, InHand
    <2> QED BY <1>1, <1>3, <2>2, <2>3
  <1>5. ASSUME NEW e \in Elems, ScanBatch(e) PROVE TaskMoves(x)
    <2>1. Head(finished[e]) \in Batches /\ queue' = Append(queue, Head(finished[e]))
      BY <1>2, <1>5, PopFrontType DEF ScanBatch
    <2>2. Count(queue', x) = Count(queue, x) + One(Head(finished[e]), x)
          /\ One(Head(finished[e]), x) = 0
      BY <1>2, <2>1, CountPushBack, NoBatchIsTask
    <2>3. /\ UNCHANGED <<taskPool, acc, burst, stack, broken, inRing, d2hQ, doneQ, compRing>>
          /\ InHand(x)' = InHand(x)
      BY <1>5 DEF ScanBatch, ctlVars, ringVars, coVars, InHand
    <2> QED BY <1>1, <1>3, <2>2, <2>3
  <1>6. ASSUME NEW b \in Batches, Flushing(b)
        PROVE  /\ Count(Tail(queue), x) = Count(queue, x)
               /\ Count(Append(Tail(queue), b), x) = Count(queue, x)
    <2>1. /\ queue # <<>> /\ b = Head(queue) /\ Tail(queue) \in Seq(Batches \cup Tasks)
          /\ b \in Batches \cup Tasks
      BY <1>2, <1>6, PopFrontType DEF Flushing
    <2>2. Count(Tail(queue), x) = Count(queue, x) - One(b, x)
      BY <1>2, <2>1, CountPop
    <2>3. Count(Append(Tail(queue), b), x) = Count(Tail(queue), x) + One(b, x)
      BY <2>1, CountPushBack
    <2> QED BY <1>1, <2>2, <2>3, NoBatchIsTask
  <1>7. ASSUME NEW b \in Batches, DelayBatch(b) PROVE TaskMoves(x)
    <2>1. Flushing(b) /\ queue' = Append(Tail(queue), b)
      BY <1>7 DEF DelayBatch
    <2>2. /\ UNCHANGED <<taskPool, acc, burst, stack, broken, inRing, d2hQ, doneQ, compRing>>
          /\ InHand(x)' = InHand(x)
      BY <1>7 DEF DelayBatch, ctlVars, ringVars, coVars, InHand
    <2> QED BY <1>3, <1>6, <2>1, <2>2
  <1>8. ASSUME NEW b \in Batches, ForwardBatch(b) PROVE TaskMoves(x)
    <2>1. Flushing(b) /\ queue' \in {Tail(queue), Append(Tail(queue), b)}
      BY <1>8 DEF ForwardBatch
    <2>2. /\ UNCHANGED <<taskPool, acc, burst, stack, broken, inRing, d2hQ, doneQ, compRing>>
          /\ InHand(x)' = InHand(x)
      BY <1>8 DEF ForwardBatch, ringVars, coVars, InHand
    <2> QED BY <1>3, <1>6, <2>1, <2>2
  <1>9. ASSUME NEW t \in Tasks, StartSend(t) PROVE TaskMoves(x)
    <2>1. /\ queue # <<>> /\ t = Head(queue) /\ queue' = Tail(queue)
          /\ pc = "flush" /\ pc' \in {"enqueue", "alloc"} /\ cur' = t
          /\ UNCHANGED <<taskPool, acc, burst, stack, broken, inRing, d2hQ, doneQ, compRing>>
      BY <1>9 DEF StartSend, Flushing, ringVars, coVars
    <2>2. Count(queue', x) = Count(queue, x) - One(t, x)
      BY <1>2, <2>1, CountPop
    <2>3. InHand(x) = 0 /\ InHand(x)' = One(t, x) /\ One(t, x) \in {0, 1}
      BY <2>1, OneType DEF InHand, One
    <2>4. OnDevice(x)' = OnDevice(x) /\ Frames(x)' = Frames(x)
      BY <2>1 DEF OnDevice, Frames
    <2>5. TaskCopies(x)' = TaskCopies(x)
      BY <1>1, <2>1, <2>2, <2>3, <2>4 DEF TaskCopies
    <2> QED BY <1>1, <2>1, <2>5 DEF TaskMoves
  <1>10. CASE AllocIoBase
    <2>1. /\ UNCHANGED <<taskPool, acc, queue, burst, stack, broken, inRing, d2hQ, doneQ, compRing>>
          /\ InHand(x)' = InHand(x)
      BY <1>10 DEF AllocIoBase, ringVars, coVars, InHand
    <2> QED BY <1>3, <2>1
  <1>11. CASE WaitIoBase
    <2>1. /\ UNCHANGED <<taskPool, acc, queue, burst, broken, inRing, d2hQ, doneQ, compRing>>
          /\ pc = "alloc" /\ pc' = "invoke" /\ EvRun("send", cur) /\ cur \in Tasks
      BY <1>1, <1>11 DEF WaitIoBase, EvRun, dataVars, ringVars, coVars, TypeInv, Frames1
    <2>2. Frames(x)' = Frames(x) + One(cur, x)
      BY <1>1, <2>1, FramePushed
    <2>3. InHand(x) = One(cur, x) /\ InHand(x)' = 0 /\ OnDevice(x)' = OnDevice(x)
      BY <2>1 DEF InHand, One, OnDevice
    <2>4. TaskCopies(x)' = TaskCopies(x)
      BY <1>1, <2>1, <2>2, <2>3 DEF TaskCopies
    <2> QED BY <1>1, <2>1, <2>4 DEF TaskMoves
  <1>12. CASE DropTask
    <2>1. /\ UNCHANGED <<taskPool, acc, queue, burst, stack, broken, inRing, d2hQ, doneQ, compRing>>
          /\ broken /\ InHand(x)' = 0
      BY <1>12 DEF DropTask, dataVars, ringVars, coVars, InHand
    <2>2. OnDevice(x)' = OnDevice(x) /\ Frames(x)' = Frames(x)
      BY <2>1 DEF OnDevice, Frames
    <2>3. TaskCopies(x)' <= TaskCopies(x)
      BY <1>1, <2>1, <2>2 DEF TaskCopies
    <2> QED BY <2>1, <2>3 DEF TaskMoves
  <1>13. CASE EnqueueInput
    <2>1. /\ UNCHANGED <<taskPool, acc, queue, burst, stack, broken, d2hQ, doneQ, compRing>>
          /\ pc = "enqueue" /\ pc' = "notify" /\ inRing' = Append(inRing, cur)
          /\ cur' = cur /\ cur \in Tasks
      BY <1>1, <1>13 DEF EnqueueInput, dataVars, coVars, TypeInv, Frames1
    <2>2. Count(inRing', x) = Count(inRing, x) + One(cur, x) /\ One(cur, x) \in {0, 1}
      BY <1>2, <2>1, CountPushBack, OneType
    <2>3. InHand(x) = One(cur, x) /\ InHand(x)' = 0 /\ Frames(x)' = Frames(x)
      BY <2>1 DEF InHand, One, Frames
    <2>4. OnDevice(x)' = OnDevice(x) + One(cur, x)
      BY <1>1, <2>1, <2>2 DEF OnDevice
    <2>5. TaskCopies(x)' = TaskCopies(x)
      BY <1>1, <2>1, <2>2, <2>3, <2>4 DEF TaskCopies
    <2> QED BY <1>1, <2>1, <2>5 DEF TaskMoves
  <1>14. CASE DelayTask
    <2>1. /\ UNCHANGED <<taskPool, acc, burst, stack, broken, inRing, d2hQ, doneQ, compRing>>
          /\ pc = "enqueue" /\ pc' = "flush" /\ queue' = <<cur>> \o queue /\ cur \in Tasks
      BY <1>1, <1>14 DEF DelayTask, ringVars, coVars, TypeInv, Frames1
    <2>2. Count(queue', x) = Count(queue, x) + One(cur, x)
      BY <1>2, <2>1, CountPushFront
    <2>3. InHand(x) = One(cur, x) /\ InHand(x)' = 0 /\ One(cur, x) \in {0, 1}
      BY <2>1, OneType DEF InHand, One
    <2>4. OnDevice(x)' = OnDevice(x) /\ Frames(x)' = Frames(x)
      BY <2>1 DEF OnDevice, Frames
    <2>5. /\ Count(queue', x) + InHand(x)' = Count(queue, x) + InHand(x)
          /\ Count(queue', x) \in Nat /\ InHand(x)' \in Nat
      BY <1>1, <2>2, <2>3
    <2>6. UNCHANGED <<taskPool, acc, burst>>
      BY <2>1
    <2>7. TaskCopies(x)' = TaskCopies(x)
      BY <1>1, <2>4, <2>5, <2>6 DEF TaskCopies
    <2> QED BY <1>1, <2>1, <2>7 DEF TaskMoves
  <1>15. CASE NotifyInput
    <2>1. /\ UNCHANGED <<taskPool, acc, queue, burst, stack, broken, inRing, d2hQ, doneQ, compRing>>
          /\ InHand(x)' = InHand(x)
      BY <1>15 DEF NotifyInput, dataVars, coVars, InHand
    <2> QED BY <1>3, <2>1
  <1> QED BY <1>4, <1>5, <1>7, <1>8, <1>9, <1>10, <1>11, <1>12, <1>13, <1>14, <1>15

\* A batch joins a task: of the pool or the one being filled; the task stays
\* with the element or, full, goes to the job queue.
LEMMA OffloadMoves ==
    ASSUME TaskInv, NEW x \in Tasks, NEW b \in Batches, NEW t \in Tasks, OffloadBatch(b, t)
    PROVE  TaskMoves(x)
  <1> DEFINE e == batch[b].elem
             full == Len(Append(task[t].batches, b)) = PpDepth
  <1>1. /\ TypeInv /\ x \in Tasks
        /\ Count(acc, x) \in Nat /\ Count(queue, x) \in Nat
        /\ Count(burst, x) \in Nat /\ Frames(x) \in Nat /\ InHand(x) \in {0, 1}
        /\ OnDevice(x) \in Nat /\ TaskCopies(x) \in Nat
    BY TaskPlaces DEF TaskInv
  <1>2. /\ queue \in Seq(Batches \cup Tasks) /\ acc \in [Elems -> Tasks \cup {NoTask}]
        /\ queue # <<>> /\ b = Head(queue) /\ Tail(queue) \in Seq(Batches \cup Tasks)
        /\ e \in Elems
    BY <1>1, PopFrontType, ChainAssumption
    DEF OffloadBatch, Flushing, ShouldOffload, TypeInv, DataTypes
  <1>3. /\ IF acc[e] = NoTask THEN t \in taskPool ELSE t = acc[e]
        /\ taskPool' = taskPool \ {t}
        /\ acc' = [acc EXCEPT ![e] = IF full THEN NoTask ELSE t]
        /\ queue' = IF full THEN <<t>> \o Tail(queue) ELSE Tail(queue)
        /\ UNCHANGED <<burst, stack, broken, inRing, d2hQ, doneQ, compRing, pc, cur>>
    BY DEF OffloadBatch, ctlVars, ringVars, coVars
  <1>4. /\ InHand(x)' = InHand(x) /\ Frames(x)' = Frames(x) /\ OnDevice(x)' = OnDevice(x)
    BY <1>3 DEF InHand, Frames, OnDevice
  <1> HIDE DEF e, full
  <1>5. Count(Tail(queue), x) = Count(queue, x)
    <2>1. Count(Tail(queue), x) = Count(queue, x) - One(b, x)
      BY <1>2, CountPop
    <2> QED BY <1>1, <2>1, NoBatchIsTask
  <1>6. Count(queue', x) = Count(queue, x) + (IF full THEN One(t, x) ELSE 0)
    <2>1. Count(<<t>> \o Tail(queue), x) = Count(Tail(queue), x) + One(t, x)
      <3>1. t \in Batches \cup Tasks
        OBVIOUS
      <3> QED BY <1>2, <3>1, CountPushFront
    <2> QED BY <1>1, <1>3, <1>5, <2>1
  <1>7. /\ Count(acc', x) \in Nat
        /\ Count(acc', x) = Count(acc, x) - One(acc[e], x) + One(acc'[e], x)
    <2>1. /\ DOMAIN acc = Elems /\ DOMAIN acc' = Elems
          /\ \A f \in Elems \ {e} : acc[f] = acc'[f]
      BY <1>2, <1>3
    <2>2. IsFiniteSet(Elems)
      BY ChainAssumption, FS_Interval DEF Elems
    <2> QED BY <1>2, <2>1, <2>2, CountChanged
  <1>8. acc'[e] = IF full THEN NoTask ELSE t
    BY <1>2, <1>3
  <1>9. One(acc'[e], x) = IF full THEN 0 ELSE One(t, x)
    BY <1>8, NoTaskIsNone
  <1>10. One(t, x) \in {0, 1}
    BY OneType
  <1>11. CASE acc[e] = NoTask
    <2>1. One(acc[e], x) = 0
      BY <1>11, NoTaskIsNone
    <2>2. In(x, taskPool') = In(x, taskPool) - One(t, x)
      BY <1>3, <1>11 DEF In, One
    <2>3. TaskCopies(x)' = TaskCopies(x)
      BY <1>1, <1>3, <1>4, <1>6, <1>7, <1>9, <1>10, <2>1, <2>2 DEF TaskCopies, In
    <2> QED BY <1>1, <1>3, <2>3 DEF TaskMoves
  <1>12. CASE acc[e] # NoTask
    <2>1. t = acc[e] /\ t \notin taskPool
      <3>1. t = acc[e] /\ TaskCopies(t) <= 1
        BY <1>3, <1>12 DEF TaskInv, TaskConservation
      <3>2. Count(acc, t) # 0
        <4>1. acc \in Seq(Tasks \cup {NoTask}) /\ e \in 1..Len(acc)
          BY <1>2, ChainAssumption DEF Elems
        <4> QED BY <3>1, <4>1, CountPositive
      <3>3. /\ Count(acc, t) \in Nat /\ Count(queue, t) \in Nat
            /\ Count(burst, t) \in Nat /\ Frames(t) \in Nat /\ InHand(t) \in {0, 1}
            /\ OnDevice(t) \in Nat
        BY <1>1, TaskPlaces
      <3> QED BY <3>1, <3>2, <3>3 DEF TaskCopies
    <2>2. taskPool' = taskPool
      BY <1>3, <2>1
    <2>3. Count(acc', x) + Count(queue', x) = Count(acc, x) + Count(queue, x)
      BY <1>1, <1>6, <1>7, <1>9, <1>10, <2>1
    <2>4. Count(queue', x) \in Nat
      BY <1>1, <1>6, <1>10
    <2>5. burst' = burst /\ Count(burst', x) \in Nat
      BY <1>1, <1>3
    <2>6. TaskCopies(x)' = TaskCopies(x)
      BY <1>1, <1>4, <1>7, <2>2, <2>3, <2>4, <2>5 DEF TaskCopies
    <2> QED BY <1>1, <1>3, <2>6 DEF TaskMoves
  <1> QED BY <1>11, <1>12

\* A task of the burst goes to the job queue or to the pool.
LEMMA CompleteMoves ==
    ASSUME TaskInv, NEW x \in Tasks, CompleteTask
    PROVE  TaskMoves(x)
  <1> DEFINE t == Head(burst)
  <1>1. /\ TypeInv /\ x \in Tasks
        /\ Count(acc, x) \in Nat /\ Count(queue, x) \in Nat
        /\ Count(burst, x) \in Nat /\ Frames(x) \in Nat /\ InHand(x) \in {0, 1}
        /\ OnDevice(x) \in Nat /\ TaskCopies(x) \in Nat
    BY TaskPlaces DEF TaskInv
  <1>2. /\ queue \in Seq(Batches \cup Tasks) /\ burst \in Seq(Tasks) /\ burst # <<>>
        /\ t \in Tasks /\ t \in Batches \cup Tasks /\ burst' = Tail(burst)
    BY <1>1, PopFrontType DEF CompleteTask, TypeInv, DataTypes, ControlTypes
  <1>3. UNCHANGED <<acc, stack, broken, inRing, d2hQ, doneQ, compRing, pc, cur>>
    BY DEF CompleteTask, ringVars
  <1>4. /\ InHand(x)' = InHand(x) /\ Frames(x)' = Frames(x) /\ OnDevice(x)' = OnDevice(x)
    BY <1>3 DEF InHand, Frames, OnDevice
  <1>5. t \notin taskPool
    <2>1. Count(burst, t) # 0
      <3>1. burst[1] = t /\ 1 \in 1..Len(burst)
        BY <1>2, HeadTailProperties, EmptySeq, LenProperties
      <3> QED BY <1>2, <3>1, CountPositive
    <2>2. /\ Count(acc, t) \in Nat /\ Count(queue, t) \in Nat
          /\ Count(burst, t) \in Nat /\ Frames(t) \in Nat /\ InHand(t) \in {0, 1}
          /\ OnDevice(t) \in Nat /\ TaskCopies(t) <= 1
      BY <1>1, <1>2, TaskPlaces DEF TaskInv, TaskConservation
    <2> QED BY <2>1, <2>2 DEF TaskCopies
  <1>6. \/ taskPool' = taskPool /\ queue' = <<t>> \o queue
        \/ taskPool' = taskPool \cup {t} /\ queue' = queue
    BY DEF CompleteTask
  <1> HIDE DEF t
  <1>7. Count(burst', x) = Count(burst, x) - One(t, x)
    BY <1>2, CountPop DEF t
  <1>8. Count(<<t>> \o queue, x) = Count(queue, x) + One(t, x) /\ One(t, x) \in {0, 1}
    BY <1>2, CountPushFront, OneType
  <1>9. /\ Count(queue', x) + In(x, taskPool') = Count(queue, x) + In(x, taskPool) + One(t, x)
        /\ Count(queue', x) \in Nat /\ Count(burst', x) \in Int
        /\ In(x, taskPool) \in {0, 1} /\ In(x, taskPool') \in {0, 1}
    <2>1. In(x, taskPool) \in {0, 1} /\ In(x, taskPool') \in {0, 1}
      BY DEF In
    <2>2. taskPool' = taskPool \cup {t} => In(x, taskPool') = In(x, taskPool) + One(t, x)
      BY <1>5 DEF In, One
    <2>3. CASE taskPool' = taskPool /\ queue' = <<t>> \o queue
      BY <1>1, <1>7, <1>8, <2>1, <2>3
    <2>4. CASE taskPool' = taskPool \cup {t} /\ queue' = queue
      BY <1>1, <1>7, <1>8, <2>1, <2>2, <2>4
    <2> QED BY <1>6, <2>3, <2>4
  <1>10. TaskCopies(x) = In(x, taskPool) + Count(acc, x) + Count(queue, x) + Frames(x)
                           + InHand(x) + OnDevice(x) + Count(burst, x)
    BY DEF TaskCopies, In
  <1>11. TaskCopies(x)' = In(x, taskPool') + Count(acc, x) + Count(queue', x) + Frames(x)
                            + InHand(x) + OnDevice(x) + Count(burst', x)
    BY <1>3, <1>4 DEF TaskCopies, In
  <1>12. TaskCopies(x)' = TaskCopies(x)
    BY <1>1, <1>7, <1>8, <1>9, <1>10, <1>11
  <1> QED BY <1>1, <1>3, <1>12 DEF TaskMoves

\* The coprocessor thread and the device keep a task among them.
LEMMA CoprocKeeps ==
    ASSUME TypeInv, NEW x \in Tasks, CoprocStep \/ \E t \in Tasks : DeviceStep(t)
    PROVE  OnDevice(x)' = OnDevice(x)
  <1>1. /\ TypeInv /\ x \in Tasks
        /\ Count(acc, x) \in Nat /\ Count(queue, x) \in Nat
        /\ Count(inRing, x) \in Nat /\ Count(d2hQ, x) \in Nat
        /\ Count(doneQ, x) \in Nat /\ Count(compRing, x) \in Nat /\ Count(burst, x) \in Nat
        /\ Frames(x) \in Nat /\ InHand(x) \in {0, 1}
        /\ OnDevice(x) \in Nat /\ TaskCopies(x) \in Nat
    BY TaskPlaces
  <1>2. /\ inRing \in Seq(Tasks) /\ d2hQ \in Seq(Tasks)
        /\ doneQ \in Seq(Tasks) /\ compRing \in Seq(Tasks)
    BY <1>1 DEF TypeInv, RingTypes, CoprocTypes
  <1>3. CASE InputCb
    <2>1. CASE inRing = <<>>
      BY <1>3, <2>1 DEF InputCb, OnDevice
    <2>2. CASE inRing # <<>>
      <3>1. /\ inRing' = Tail(inRing) /\ d2hQ' = Append(d2hQ, Head(inRing))
            /\ UNCHANGED <<doneQ, compRing>> /\ Head(inRing) \in Tasks
        BY <1>2, <1>3, <2>2, PopFrontType DEF InputCb
      <3>2. Count(inRing', x) = Count(inRing, x) - One(Head(inRing), x)
        BY <1>2, <2>2, <3>1, CountPop
      <3>3. Count(d2hQ', x) = Count(d2hQ, x) + One(Head(inRing), x)
        BY <1>2, <3>1, CountPushBack
      <3>4. One(Head(inRing), x) \in {0, 1}
        BY OneType
      <3>5. OnDevice(x)' = OnDevice(x)
        BY <1>1, <3>1, <3>2, <3>3, <3>4 DEF OnDevice
      <3> QED BY <3>5
    <2> QED BY <2>1, <2>2
  <1>4. CASE D2hCb
    <2>1. d2hQ # <<>> /\ Head(d2hQ) \in Tasks /\ UNCHANGED <<inRing, compRing>>
      BY <1>2, <1>4, PopFrontType DEF D2hCb, ringVars
    <2>2. Count(Tail(d2hQ), x) = Count(d2hQ, x) - One(Head(d2hQ), x)
      BY <1>2, <2>1, CountPop
    <2>3. Count(Append(doneQ, Head(d2hQ)), x) = Count(doneQ, x) + One(Head(d2hQ), x)
      BY <1>2, <2>1, CountPushBack
    <2>4. Count(Append(Tail(d2hQ), Head(d2hQ)), x) = Count(d2hQ, x)
      BY <1>2, <2>1, CountRotate
    <2>5. \/ d2hQ' = Tail(d2hQ) /\ doneQ' = Append(doneQ, Head(d2hQ))
          \/ d2hQ' = Append(Tail(d2hQ), Head(d2hQ)) /\ doneQ' = doneQ
      BY <1>4 DEF D2hCb
    <2>6. One(Head(d2hQ), x) \in {0, 1}
      BY OneType
    <2>7. \E k \in {0, 1} : /\ Count(d2hQ', x) = Count(d2hQ, x) - k
                           /\ Count(doneQ', x) = Count(doneQ, x) + k
      <3>1. CASE d2hQ' = Tail(d2hQ) /\ doneQ' = Append(doneQ, Head(d2hQ))
        <4>1. /\ Count(d2hQ', x) = Count(d2hQ, x) - One(Head(d2hQ), x)
              /\ Count(doneQ', x) = Count(doneQ, x) + One(Head(d2hQ), x)
          BY <2>2, <2>3, <3>1, Zenon
        <4> QED BY <2>6, <4>1
      <3>2. CASE d2hQ' = Append(Tail(d2hQ), Head(d2hQ)) /\ doneQ' = doneQ
        <4>1. Count(d2hQ', x) = Count(d2hQ, x) /\ Count(doneQ', x) = Count(doneQ, x)
          BY <2>4, <3>2, Zenon
        <4> QED BY <1>1, <4>1
      <3> QED BY <2>5, <3>1, <3>2
    <2>8. OnDevice(x)' = OnDevice(x)
      <3>1. PICK k \in {0, 1} : /\ Count(d2hQ', x) = Count(d2hQ, x) - k
                             /\ Count(doneQ', x) = Count(doneQ, x) + k
        BY <2>7
      <3> QED BY <1>1, <2>1, <3>1 DEF OnDevice
    <2> QED BY <2>8
  <1>5. CASE DoneCb
    <2>1. doneQ # <<>> /\ Head(doneQ) \in Tasks /\ UNCHANGED <<inRing, d2hQ>>
      BY <1>2, <1>5, PopFrontType DEF DoneCb
    <2>2. Count(Tail(doneQ), x) = Count(doneQ, x) - One(Head(doneQ), x)
      BY <1>2, <2>1, CountPop
    <2>3. Count(Append(compRing, Head(doneQ)), x) = Count(compRing, x) + One(Head(doneQ), x)
      BY <1>2, <2>1, CountPushBack
    <2>4. Count(Append(Tail(doneQ), Head(doneQ)), x) = Count(doneQ, x)
      BY <1>2, <2>1, CountRotate
    <2>5. \/ doneQ' = Tail(doneQ) /\ compRing' = Append(compRing, Head(doneQ))
          \/ doneQ' = Append(Tail(doneQ), Head(doneQ)) /\ compRing' = compRing
      BY <1>5 DEF DoneCb
    <2>6. One(Head(doneQ), x) \in {0, 1}
      BY OneType
    <2>7. \E k \in {0, 1} : /\ Count(doneQ', x) = Count(doneQ, x) - k
                           /\ Count(compRing', x) = Count(compRing, x) + k
      <3>1. CASE doneQ' = Tail(doneQ) /\ compRing' = Append(compRing, Head(doneQ))
        <4>1. /\ Count(doneQ', x) = Count(doneQ, x) - One(Head(doneQ), x)
              /\ Count(compRing', x) = Count(compRing, x) + One(Head(doneQ), x)
          BY <2>2, <2>3, <3>1, Zenon
        <4> QED BY <2>6, <4>1
      <3>2. CASE doneQ' = Append(Tail(doneQ), Head(doneQ)) /\ compRing' = compRing
        <4>1. Count(doneQ', x) = Count(doneQ, x) /\ Count(compRing', x) = Count(compRing, x)
          BY <2>4, <3>2, Zenon
        <4> QED BY <1>1, <4>1
      <3> QED BY <2>5, <3>1, <3>2
    <2>8. OnDevice(x)' = OnDevice(x)
      <3>1. PICK k \in {0, 1} : /\ Count(doneQ', x) = Count(doneQ, x) - k
                             /\ Count(compRing', x) = Count(compRing, x) + k
        BY <2>7
      <3> QED BY <1>1, <2>1, <3>1 DEF OnDevice
    <2> QED BY <2>8
  <1>6. CASE CoPoll \/ InputRefeed \/ NotifyCompletion \/ CoTerminateCb \/ \E t \in Tasks : DeviceStep(t)
    <2>1. UNCHANGED <<inRing, d2hQ, doneQ, compRing>>
      BY <1>6 DEF DeviceStep, CoPoll, InputRefeed, NotifyCompletion, CoTerminateCb,
                  KernelFinishes, CopyFinishes, ringVars
    <2> QED BY <2>1 DEF OnDevice
  <1> QED BY <1>3, <1>4, <1>5, <1>6 DEF CoprocStep

LEMMA CoprocMoves ==
    ASSUME TaskInv, NEW x \in Tasks, CoprocStep \/ \E t \in Tasks : DeviceStep(t)
    PROVE  TaskMoves(x)
  <1>1. OnDevice(x)' = OnDevice(x)
    BY CoprocKeeps DEF TaskInv
  <1>2. /\ UNCHANGED <<taskPool, acc, queue, burst, broken>>
        /\ Frames(x)' = Frames(x) /\ InHand(x)' = InHand(x)
    BY DEF CoprocStep, DeviceStep, CoPoll, InputCb, InputRefeed, D2hCb, DoneCb,
           NotifyCompletion, CoTerminateCb, KernelFinishes, CopyFinishes,
           dataVars, ctlVars, coCtl, Frames, InHand
  <1>3. TaskCopies(x)' = TaskCopies(x)
    BY <1>1, <1>2 DEF TaskCopies
  <1>4. TaskCopies(x) \in Nat
    BY TaskPlaces DEF TaskInv
  <1> QED BY <1>2, <1>3, <1>4 DEF TaskMoves

-----------------------------------------------------------------------------
(* The invariant on tasks.                                                  *)

LEMMA InitTaskInv == Init => TaskInv
  <1> SUFFICES ASSUME Init PROVE TaskInv
    OBVIOUS
  <1>1. TypeInv
    BY InitTypeInv
  <1>2. WaitFrames /\ BurstInv
    BY DEF Init, WaitFrames, BurstInv
  <1>3. ASSUME NEW t \in Tasks PROVE TaskCopies(t) = 1
    <2>1. Count(acc, t) = 0
      <3>1. acc \in Seq(Tasks \cup {NoTask})
        BY ChainAssumption DEF Init, Elems
      <3>2. ~ \E e \in 1..Len(acc) : acc[e] = t
        <4>1. Len(acc) = NElems /\ \A e \in 1..NElems : acc[e] = NoTask
          BY ChainAssumption DEF Init, Elems
        <4> QED BY <4>1, PoolAssumption
      <3> QED BY <3>1, <3>2, CountPositive
    <2>2. Frames(t) = 0
      <3>1. stack \in Seq(FrameType) /\ Len(stack) = 0
        BY DEF Init
      <3>2. TasksOf(stack) = <<>>
        BY <3>1, TasksOfType, EmptySeq
      <3> QED BY <1>1, <3>2, TaskPlaces, CountEmpty
    <2>3. Count(<<>>, t) = 0 /\ Count(queue, t) = 0 /\ Count(burst, t) = 0
      BY CountEmpty DEF Init
    <2>4. OnDevice(t) = 0 /\ InHand(t) = 0
      BY <2>3 DEF Init, OnDevice, InHand
    <2>5. t \in taskPool
      BY DEF Init
    <2> QED BY <2>1, <2>2, <2>3, <2>4, <2>5 DEF TaskCopies
  <1> QED BY <1>1, <1>2, <1>3 DEF TaskInv, TaskConservation

\* The steps of the computation thread.  (Poll and PollTimer are both Wake.)
LEMMA CompCases ==
    ASSUME CompStep \/ PollTimer
    PROVE  \/ LoopRound \/ Wake \/ CompletionCb \/ CompletionDone \/ TerminateCb \/ CheckCb
           \/ FlushDone \/ ScanDone \/ ReceiveChunk \/ RunLoop \/ StopIoLoop \/ WaitBatch
           \/ AbandonChunk \/ CompleteTask
           \/ GetBatch \/ (\E e \in Elems : ScanBatch(e))
           \/ (\E b \in Batches : DelayBatch(b) \/ ForwardBatch(b))
           \/ (\E b \in Batches, t \in Tasks : OffloadBatch(b, t))
           \/ (\E t \in Tasks : StartSend(t))
           \/ AllocIoBase \/ WaitIoBase \/ DropTask \/ EnqueueInput \/ DelayTask \/ NotifyInput
  BY DEF CompStep, PollTimer, Poll, Flush

LEMMA WaitFramesPushed ==
    ASSUME TypeInv, WaitFrames, NEW kind \in {"nowait", "rx", "send"},
           NEW t \in Tasks \cup {NoTask}, EvRun(kind, t), kind # "send" => t = NoTask
    PROVE  WaitFrames'
  <1> DEFINE f == [kind |-> kind, task |-> t]
  <1>1. f \in FrameType /\ f.task = t /\ f.kind = kind
    BY DEF FrameType
  <1>2. stack \in Seq(FrameType) /\ stack' = <<f>> \o stack
    BY DEF TypeInv, ControlTypes, EvRun
  <1> HIDE DEF f
  <1>3. /\ Len(stack') = Len(stack) + 1 /\ Len(stack) \in Nat
        /\ \A i \in 1..Len(stack) + 1 : stack'[i] = IF i = 1 THEN f ELSE stack[i - 1]
    BY <1>1, <1>2, PushFrontType, LenProperties
  <1>4. ASSUME NEW i \in 1..Len(stack'), stack'[i].kind # "send" PROVE stack'[i].task = NoTask
    <2>1. CASE i = 1
      BY <1>1, <1>3, <1>4, <2>1
    <2>2. CASE i # 1
      <3>1. i - 1 \in 1..Len(stack) /\ stack'[i] = stack[i - 1]
        BY <1>3, <2>2
      <3> QED BY <1>4, <3>1 DEF WaitFrames
    <2> QED BY <2>1, <2>2
  <1> QED BY <1>4 DEF WaitFrames

LEMMA StepWaitFrames ==
    ASSUME TypeInv, WaitFrames, [Next]_vars
    PROVE  WaitFrames'
  <1>1. stack \in Seq(FrameType) /\ Len(stack) \in Nat
    BY LenProperties DEF TypeInv, ControlTypes
  <1>2. ASSUME stack' = stack PROVE WaitFrames'
    BY <1>2 DEF WaitFrames
  <1>3. CASE LoopRound
    <2>1. CASE stack' = stack
      BY <1>2, <2>1
    <2>2. CASE stack' # stack
      <3>1. stack' = Tail(stack) /\ stack # <<>>
        BY <1>3, <2>2 DEF LoopRound, TypeInv, Frames1
      <3>2. Len(stack') = Len(stack) - 1 /\ \A i \in 1..Len(stack) - 1 : stack'[i] = stack[i + 1]
        BY <1>1, <3>1, HeadTailProperties
      <3>3. ASSUME NEW i \in 1..Len(stack') PROVE i + 1 \in 1..Len(stack) /\ stack'[i] = stack[i + 1]
        BY <1>1, <3>2
      <3> QED BY <3>3 DEF WaitFrames
    <2> QED BY <2>1, <2>2
  <1>4. CASE Wake
    <2>1. CASE Head(stack).kind # "nowait"
      BY <1>2, <1>4, <2>1 DEF Wake
    <2>2. CASE Head(stack).kind = "nowait"
      <3> DEFINE f == [Head(stack) EXCEPT !.kind = "polled"]
      <3>1. /\ stack # <<>> /\ stack' = <<f>> \o Tail(stack)
        BY <1>4, <2>2 DEF Wake, TypeInv, Frames1
      <3>2. /\ Head(stack) \in FrameType /\ Head(stack) = stack[1] /\ Len(stack) # 0
            /\ Tail(stack) \in Seq(FrameType) /\ Len(Tail(stack)) = Len(stack) - 1
            /\ \A i \in 1..Len(stack) - 1 : Tail(stack)[i] = stack[i + 1]
        BY <1>1, <3>1, HeadTailProperties, EmptySeq
      <3>3. f \in FrameType /\ f.task = NoTask
        <4>1. stack[1].task = NoTask
          BY <1>1, <2>2, <3>2 DEF WaitFrames
        <4> QED BY <3>2, <4>1 DEF FrameType
      <3> HIDE DEF f
      <3>4. /\ Len(stack') = Len(stack)
            /\ \A i \in 1..Len(stack) : stack'[i] = IF i = 1 THEN f ELSE Tail(stack)[i - 1]
        <4>1. /\ Len(stack') = Len(Tail(stack)) + 1
              /\ \A i \in 1..Len(Tail(stack)) + 1 :
                    stack'[i] = IF i = 1 THEN f ELSE Tail(stack)[i - 1]
          BY <3>1, <3>2, <3>3, PushFrontType
        <4> QED BY <1>1, <3>2, <4>1
      <3>5. ASSUME NEW i \in 1..Len(stack'), stack'[i].kind # "send"
            PROVE  stack'[i].task = NoTask
        <4>1. CASE i = 1
          BY <3>3, <3>4, <4>1
        <4>2. CASE i # 1
          <5>1. i - 1 \in 1..Len(stack) - 1 /\ (i - 1) + 1 = i /\ i \in 1..Len(stack)
            BY <1>1, <3>4, <4>2
          <5>2. stack'[i] = Tail(stack)[i - 1]
            BY <3>4, <4>2, <5>1
          <5>3. Tail(stack)[i - 1] = stack[(i - 1) + 1]
            BY <3>2, <5>1
          <5> QED BY <3>5, <5>1, <5>2, <5>3 DEF WaitFrames
        <4> QED BY <4>1, <4>2
      <3> QED BY <3>5 DEF WaitFrames
    <2> QED BY <2>1, <2>2
  <1>5. CASE RunLoop \/ WaitBatch
    BY <1>5, WaitFramesPushed DEF RunLoop, WaitBatch
  <1>6. CASE WaitIoBase
    <2>1. EvRun("send", cur) /\ cur \in Tasks \cup {NoTask}
      BY <1>6 DEF WaitIoBase, TypeInv, ControlTypes
    <2> QED BY <2>1, WaitFramesPushed
  <1>7. CASE CompStep \/ PollTimer
    <2>1. CASE CompletionCb \/ CompletionDone \/ TerminateCb \/ CheckCb \/ FlushDone \/ ScanDone
               \/ ReceiveChunk \/ StopIoLoop \/ AbandonChunk \/ CompleteTask \/ GetBatch
      BY <1>2, <2>1 DEF CompletionCb, CompletionDone, TerminateCb, CheckCb, FlushDone, ScanDone,
                        ReceiveChunk, StopIoLoop, AbandonChunk, CompleteTask, GetBatch
    <2>2. CASE (\E e \in Elems : ScanBatch(e)) \/ (\E b \in Batches : DelayBatch(b) \/ ForwardBatch(b))
               \/ (\E b \in Batches, t \in Tasks : OffloadBatch(b, t)) \/ (\E t \in Tasks : StartSend(t))
      BY <1>2, <2>2 DEF ScanBatch, DelayBatch, ForwardBatch, OffloadBatch, StartSend, ctlVars
    <2>3. CASE AllocIoBase \/ DropTask \/ EnqueueInput \/ DelayTask \/ NotifyInput
      BY <1>2, <2>3 DEF AllocIoBase, DropTask, EnqueueInput, DelayTask, NotifyInput
    <2> QED BY <1>3, <1>4, <1>5, <1>6, <1>7, <2>1, <2>2, <2>3, CompCases
  <1>8. CASE CoprocStep \/ Signal \/ (\E t \in Tasks : DeviceStep(t)) \/ UNCHANGED vars
    <2>1. stack' = stack
      BY <1>8 DEF CoprocStep, Signal, DeviceStep, CoPoll, InputCb, InputRefeed, D2hCb, DoneCb,
                  NotifyCompletion, CoTerminateCb, KernelFinishes, CopyFinishes, coCtl, ctlVars, vars
    <2> QED BY <1>2, <2>1
  <1> QED BY <1>7, <1>8 DEF Next

LEMMA StepBurstInv ==
    ASSUME BurstInv, [Next]_vars
    PROVE  BurstInv'
  <1>1. CASE CompStep \/ PollTimer
    <2>1. CASE LoopRound \/ Wake \/ CompletionCb \/ CompletionDone \/ TerminateCb \/ CheckCb
               \/ FlushDone \/ ScanDone \/ ReceiveChunk \/ RunLoop \/ StopIoLoop \/ WaitBatch
               \/ AbandonChunk \/ CompleteTask \/ GetBatch
      BY <2>1 DEF BurstInv, LoopRound, Wake, CompletionCb, CompletionDone, TerminateCb, CheckCb,
                  FlushDone, ScanDone, ReceiveChunk, RunLoop, StopIoLoop, WaitBatch, EvRun,
                  AbandonChunk, CompleteTask, GetBatch
    <2>2. CASE (\E e \in Elems : ScanBatch(e)) \/ (\E b \in Batches : DelayBatch(b) \/ ForwardBatch(b))
               \/ (\E b \in Batches, t \in Tasks : OffloadBatch(b, t)) \/ (\E t \in Tasks : StartSend(t))
      BY <2>2 DEF BurstInv, ScanBatch, DelayBatch, ForwardBatch, OffloadBatch, StartSend,
                  Flushing, ctlVars
    <2>3. CASE AllocIoBase \/ WaitIoBase \/ DropTask \/ EnqueueInput \/ DelayTask \/ NotifyInput
      BY <2>3 DEF BurstInv, AllocIoBase, WaitIoBase, DropTask, EnqueueInput, DelayTask,
                  NotifyInput, EvRun
    <2> QED BY <1>1, <2>1, <2>2, <2>3, CompCases
  <1>2. CASE CoprocStep \/ Signal \/ (\E t \in Tasks : DeviceStep(t)) \/ UNCHANGED vars
    BY <1>2 DEF BurstInv, CoprocStep, Signal, DeviceStep, CoPoll, InputCb, InputRefeed, D2hCb,
                DoneCb, NotifyCompletion, CoTerminateCb, KernelFinishes, CopyFinishes,
                coCtl, ctlVars, vars
  <1> QED BY <1>1, <1>2 DEF Next

LEMMA StepMoves ==
    ASSUME TaskInv, [Next]_vars, NEW x \in Tasks
    PROVE  TaskMoves(x)
  <1>1. CASE CompStep \/ PollTimer
    BY <1>1, CompCases, LoopMoves, FlushMoves, OffloadMoves, CompleteMoves
  <1>2. CASE CoprocStep \/ Signal \/ (\E t \in Tasks : DeviceStep(t))
    BY <1>2, LoopMoves, CoprocMoves
  <1>3. CASE UNCHANGED vars
    <2>1. /\ UNCHANGED <<taskPool, acc, queue, burst, broken, inRing, d2hQ, doneQ, compRing>>
          /\ Frames(x)' = Frames(x) /\ InHand(x)' = InHand(x)
      BY <1>3 DEF vars, dataVars, ctlVars, ringVars, coVars, Frames, InHand
    <2> QED BY <2>1, TaskStays DEF TaskInv
  <1> QED BY <1>1, <1>2, <1>3 DEF Next

\* TaskCopies is a number, before and after a step.
LEMMA CopiesNumber == TypeInv => \A t \in Tasks : TaskCopies(t) \in Nat
  BY TaskPlaces

LEMMA CopiesNumberNext == (TypeInv => \A t \in Tasks : TaskCopies(t) \in Nat)'
  BY CopiesNumber, PTL

LEMMA StepTaskInv == TaskInv /\ [Next]_vars => TaskInv'
  <1> SUFFICES ASSUME TaskInv, [Next]_vars PROVE TaskInv'
    OBVIOUS
  <1>1. TypeInv'
    BY StepTypeInv DEF TaskInv
  <1>2. WaitFrames' /\ BurstInv'
    BY StepWaitFrames, StepBurstInv DEF TaskInv
  <1>3. TaskConservation'
    <2> SUFFICES ASSUME NEW x \in Tasks
                 PROVE  TaskCopies(x)' <= 1 /\ (~broken' => TaskCopies(x)' = 1)
      BY DEF TaskConservation
    <2>1. TaskMoves(x)
      BY StepMoves
    <2>2. TaskCopies(x) \in Nat /\ TaskCopies(x)' \in Nat
      BY <1>1, CopiesNumber, CopiesNumberNext DEF TaskInv
    <2>3. TaskCopies(x) <= 1 /\ (~broken => TaskCopies(x) = 1)
      BY DEF TaskInv, TaskConservation
    <2> QED BY <2>1, <2>2, <2>3 DEF TaskMoves
  <1> QED BY <1>1, <1>2, <1>3 DEF TaskInv

LEMMA SpecTaskInv == Spec => []TaskInv
  BY InitTaskInv, StepTaskInv, PTL DEF Spec

\* A task object is in one place and, while the loop is not broken, in some
\* place: neither the retries, nor the nested waits, nor the reuse of a task by
\* the next element duplicates or loses one.
THEOREM TasksConserved == Spec => []TaskConservation
  <1>1. TaskInv => TaskConservation
    BY DEF TaskInv
  <1> QED BY <1>1, SpecTaskInv, PTL

\* A task that the device side, the burst or the computation thread's hand has
\* is nowhere else.
Elsewhere(t) ==
    /\ OnDevice(t) # 0 \/ Count(burst, t) # 0 \/ InHand(t) # 0
         => t \notin taskPool /\ Count(acc, t) = 0 /\ Count(queue, t) = 0
    /\ OnDevice(t) # 0 => Count(burst, t) = 0 /\ InHand(t) = 0
    /\ Count(burst, t) # 0 => Count(burst, t) = 1 /\ OnDevice(t) = 0 /\ InHand(t) = 0
    /\ Count(acc, t) # 0 \/ Count(queue, t) # 0 => t \notin taskPool
    /\ OnDevice(t) \in {0, 1}

LEMMA OnePlace == TaskInv => \A t \in Tasks : Elsewhere(t)
  <1> SUFFICES ASSUME TaskInv, NEW t \in Tasks PROVE Elsewhere(t)
    OBVIOUS
  <1>1. /\ Count(acc, t) \in Nat /\ Count(queue, t) \in Nat
        /\ Count(burst, t) \in Nat /\ Frames(t) \in Nat /\ InHand(t) \in {0, 1}
        /\ OnDevice(t) \in Nat
    BY TaskPlaces DEF TaskInv
  <1>2. TaskCopies(t) <= 1
    BY DEF TaskInv, TaskConservation
  <1> QED BY <1>1, <1>2 DEF TaskCopies, Elsewhere

LEMMA HeadOfBurst ==
    ASSUME TaskInv, burst # <<>>
    PROVE  Head(burst) \in Tasks /\ Count(burst, Head(burst)) # 0
  <1>1. burst \in Seq(Tasks)
    BY DEF TaskInv, TypeInv, ControlTypes
  <1>2. /\ Head(burst) \in Tasks /\ burst[1] = Head(burst) /\ 1 \in 1..Len(burst)
    BY <1>1, HeadTailProperties, EmptySeq, LenProperties
  <1> QED BY <1>1, <1>2, CountPositive

\* The task in hand.
LEMMA CurInHand ==
    ASSUME TaskInv, pc \in {"alloc", "enqueue"}
    PROVE  cur \in Tasks /\ InHand(cur) = 1
  BY DEF TaskInv, TypeInv, Frames1, InHand

-----------------------------------------------------------------------------
(* io_bases.  A task that was given to the device has one, also when it      *)
(* comes back from a full ring, and keeps it until it is completed; so what  *)
(* the completion releases is an io_base.  That the last task of a run of    *)
(* offloadable elements releases it, and no other, is where the derivation   *)
(* of the offload actions is used: the element of a task in use is           *)
(* offloadable.                                                              *)

TookIo(t) == OnDevice(t) # 0 \/ Count(burst, t) # 0 \/ (pc = "enqueue" /\ cur = t)

HasIo ==
    \A t \in Tasks :
       /\ t \notin taskPool => task[t].elem \in Offloadable
       /\ task[t].state = "PREPARED" => task[t].io # NoIo
       /\ TookIo(t) => task[t].io # NoIo

IoInv == IoBaseOwnership /\ ioFree \in Seq(IoBases) /\ HasIo

LEMMA InitIoInv == Init => IoInv
  <1> SUFFICES ASSUME Init PROVE IoInv
    OBVIOUS
  <1>1. Cardinality(IoBases) \in Nat /\ IsFiniteSet(IoBases) /\ IsFiniteSet(Tasks)
    BY PoolAssumption, FS_CardinalityType
  <1>2. PICK n \in Nat : n = Cardinality(IoBases)
    BY <1>1
  <1>3. /\ ioFree \in [1..n -> IoBases] /\ \A i, j \in 1..n : ioFree[i] = ioFree[j] => i = j
    BY <1>2 DEF Init
  <1>4. ioFree \in Seq(IoBases) /\ Len(ioFree) = n
    BY <1>3
  <1>5. HasIo
    <2>1. ASSUME NEW t \in Tasks PROVE ~TookIo(t)
      <3>1. Count(<<>>, t) = 0
        BY CountEmpty
      <3> QED BY <3>1 DEF Init, TookIo, OnDevice
    <2> QED BY <2>1 DEF Init, HasIo, FreshTask
  <1>6. ASSUME NEW i \in IoBases PROVE Count(ioFree, i) + Count(TaskIo, i) = 1
    <2>1. Count(TaskIo, i) = 0
      <3>1. {t \in DOMAIN TaskIo : TaskIo[t] = i} = {}
        BY PoolAssumption DEF Init, TaskIo, FreshTask
      <3> QED BY <3>1, FS_EmptySet DEF Count
    <2>2. Count(ioFree, i) = 1
      <3>1. ioFree \in Injection(1..n, IoBases)
        BY <1>3 DEF Injection, IsInjective
      <3>2. IsFiniteSet(1..n) /\ Cardinality(1..n) = n
        BY FS_Interval
      <3>3. ioFree \in Surjection(1..n, IoBases)
        BY <1>1, <1>2, <3>1, <3>2, FS_Injection
      <3>4. PICK j \in 1..n : ioFree[j] = i
        BY <3>3 DEF Surjection
      <3>5. {k \in DOMAIN ioFree : ioFree[k] = i} = {j}
        BY <1>3, <3>4
      <3> QED BY <3>5, FS_Singleton DEF Count
    <2> QED BY <2>1, <2>2
  <1> QED BY <1>4, <1>5, <1>6 DEF IoInv, IoBaseOwnership

\* One task gets another io_base, or none.
LEMMA TaskIoChanged ==
    ASSUME TypeInv, NEW t \in Tasks, NEW r, task' = [task EXCEPT ![t] = r], NEW i
    PROVE  /\ Count(TaskIo, i) \in Nat /\ Count(TaskIo', i) \in Nat
           /\ Count(TaskIo', i) = Count(TaskIo, i) - One(task[t].io, i) + One(r.io, i)
  <1>1. IsFiniteSet(Tasks) /\ DOMAIN task = Tasks
    BY PoolAssumption DEF TypeInv, DataTypes
  <1>2. /\ DOMAIN TaskIo = Tasks /\ DOMAIN TaskIo' = Tasks
        /\ \A u \in Tasks \ {t} : TaskIo[u] = TaskIo'[u]
        /\ TaskIo[t] = task[t].io /\ TaskIo'[t] = r.io
    BY <1>1 DEF TaskIo
  <1> QED BY <1>1, <1>2, CountChanged

\* A step that gives no task to the device side and leaves the tasks alone.
LEMMA IoKept ==
    ASSUME IoInv, UNCHANGED <<ioFree, task>>,
           \A t \in Tasks : t \notin taskPool' => t \notin taskPool,
           \A t \in Tasks : TookIo(t)' => TookIo(t) \/ task[t].state = "PREPARED"
    PROVE  IoInv'
  <1>1. HasIo'
    BY DEF IoInv, HasIo
  <1>2. IoBaseOwnership'
    BY DEF IoInv, IoBaseOwnership, TaskIo
  <1> QED BY <1>1, <1>2 DEF IoInv

LEMMA CompIoInv ==
    ASSUME TaskInv, IoInv, CompStep \/ PollTimer
    PROVE  IoInv'
  <1>0. TypeInv /\ task \in [Tasks -> TaskType] /\ burst \in Seq(Tasks)
    BY DEF TaskInv, TypeInv, DataTypes, ControlTypes
  \* No queue of the device side changes and pc does not become "enqueue".
  <1>1. ASSUME UNCHANGED <<ioFree, task, taskPool, burst, inRing, d2hQ, doneQ, compRing>>,
               pc' # "enqueue"
        PROVE  IoInv'
    <2>1. \A t \in Tasks : TookIo(t)' => TookIo(t)
      BY <1>1 DEF TookIo, OnDevice
    <2> QED BY <1>1, <2>1, IoKept
  <1>2. CASE LoopRound \/ Wake \/ TerminateCb \/ CheckCb \/ FlushDone \/ ScanDone \/ ReceiveChunk
             \/ RunLoop \/ StopIoLoop \/ WaitBatch \/ AbandonChunk \/ GetBatch
    BY <1>1, <1>2 DEF LoopRound, Wake, TerminateCb, CheckCb, FlushDone, ScanDone, ReceiveChunk,
                RunLoop, StopIoLoop, WaitBatch, EvRun, AbandonChunk, GetBatch,
                dataVars, ringVars, coVars
  <1>3. CASE (\E e \in Elems : ScanBatch(e)) \/ (\E b \in Batches : DelayBatch(b) \/ ForwardBatch(b))
    BY <1>1, <1>3 DEF ScanBatch, DelayBatch, ForwardBatch, Flushing, ctlVars, ringVars, coVars
  <1>4. CASE WaitIoBase \/ DropTask \/ DelayTask \/ NotifyInput
    BY <1>1, <1>4 DEF WaitIoBase, EvRun, DropTask, DelayTask, NotifyInput,
                dataVars, ringVars, coVars
  <1>5. CASE CompletionCb
    <2>1. /\ UNCHANGED <<ioFree, task, taskPool, inRing, d2hQ, doneQ>>
          /\ burst' = compRing /\ compRing' = <<>> /\ pc' = "complete"
      BY <1>5 DEF CompletionCb, dataVars, coVars
    <2>2. ASSUME NEW t \in Tasks, TookIo(t)' PROVE TookIo(t)
      <3>1. Count(compRing', t) = 0
        BY <2>1, CountEmpty
      <3>2. /\ Count(inRing, t) \in Nat /\ Count(d2hQ, t) \in Nat
            /\ Count(doneQ, t) \in Nat /\ Count(compRing, t) \in Nat
        BY <1>0, TaskPlaces
      <3>3. OnDevice(t)' # 0 \/ Count(compRing, t) # 0
        BY <2>1, <2>2 DEF TookIo
      <3>4. OnDevice(t)' = Count(inRing, t) + Count(d2hQ, t) + Count(doneQ, t)
        BY <2>1, <3>1, <3>2 DEF OnDevice
      <3>5. Count(inRing, t) + Count(d2hQ, t) + Count(doneQ, t) + Count(compRing, t) # 0
        <4>1. CASE Count(compRing, t) # 0
          BY <3>2, <4>1
        <4>2. CASE Count(inRing, t) + Count(d2hQ, t) + Count(doneQ, t) # 0
          BY <3>2, <4>2
        <4> QED BY <3>3, <3>4, <4>1, <4>2
      <3> QED BY <3>5 DEF TookIo, OnDevice
    <2> QED BY <2>1, <2>2, IoKept
  <1>6. CASE CompletionDone
    <2>1. /\ UNCHANGED <<ioFree, task, taskPool, inRing, d2hQ, doneQ, compRing>>
          /\ burst' = <<>> /\ pc' = "invoke"
      BY <1>6 DEF CompletionDone, dataVars, ringVars, coVars
    <2>2. \A t \in Tasks : Count(burst', t) = 0
      BY <2>1, CountEmpty
    <2>3. \A t \in Tasks : TookIo(t)' => TookIo(t)
      BY <2>1, <2>2 DEF TookIo, OnDevice
    <2> QED BY <2>1, <2>3, IoKept
  <1>7. ASSUME NEW t \in Tasks, StartSend(t) PROVE IoInv'
    <2>1. /\ UNCHANGED <<ioFree, task, taskPool, burst, inRing, d2hQ, doneQ, compRing>>
          /\ cur' = t /\ (pc' = "enqueue" => task[t].state = "PREPARED")
      BY <1>7 DEF StartSend, ringVars, coVars
    <2>2. \A u \in Tasks : TookIo(u)' => TookIo(u) \/ task[u].state = "PREPARED"
      BY <2>1 DEF TookIo, OnDevice
    <2> QED BY <2>1, <2>2, IoKept
  <1>8. CASE EnqueueInput
    <2>1. /\ UNCHANGED <<ioFree, task, taskPool, burst, d2hQ, doneQ, compRing>>
          /\ pc = "enqueue" /\ pc' = "notify" /\ inRing' = Append(inRing, cur) /\ cur \in Tasks
      BY <1>0, <1>8 DEF EnqueueInput, dataVars, coVars, TypeInv, Frames1
    <2>2. ASSUME NEW t \in Tasks, TookIo(t)' PROVE TookIo(t)
      <3>1. CASE t = cur
        BY <2>1, <3>1 DEF TookIo
      <3>2. CASE t # cur
        <4>1. Count(inRing', t) = Count(inRing, t) + One(cur, t) /\ Count(inRing, t) \in Nat
          BY <1>0, <2>1, CountPushBack, TaskPlaces DEF TypeInv, RingTypes
        <4>2. Count(inRing', t) = Count(inRing, t)
          BY <3>2, <4>1 DEF One
        <4> QED BY <2>1, <2>2, <4>2 DEF TookIo, OnDevice
      <3> QED BY <3>1, <3>2
    <2> QED BY <2>1, <2>2, IoKept
  <1>9. ASSUME NEW b \in Batches, NEW t \in Tasks, OffloadBatch(b, t) PROVE IoInv'
    <2>1. /\ UNCHANGED <<ioFree, burst, inRing, d2hQ, doneQ, compRing, pc>>
          /\ taskPool' = taskPool \ {t} /\ pc = "flush"
          /\ batch[b].elem \in Offloadable
      BY <1>9 DEF OffloadBatch, Flushing, ShouldOffload, ctlVars, ringVars, coVars
    <2>2. /\ \A u \in Tasks \ {t} : task'[u] = task[u]
          /\ task'[t].elem = batch[b].elem /\ task'[t].io = task[t].io
          /\ task'[t].state # "PREPARED"
      BY <1>0, <1>9 DEF OffloadBatch, TaskType
    <2>3. TaskIo' = TaskIo
      BY <2>2 DEF TaskIo
    <2>4. HasIo'
      <3> SUFFICES ASSUME NEW u \in Tasks
                   PROVE  /\ u \notin taskPool' => task'[u].elem \in Offloadable
                          /\ task'[u].state = "PREPARED" => task'[u].io # NoIo
                          /\ TookIo(u)' => task'[u].io # NoIo
        BY DEF HasIo
      <3>1. TookIo(u)' => TookIo(u)
        BY <2>1 DEF TookIo, OnDevice
      <3>2. CASE u = t
        BY <2>1, <2>2, <3>1, <3>2 DEF IoInv, HasIo
      <3>3. CASE u # t
        <4>1. task'[u] = task[u] /\ (u \notin taskPool' => u \notin taskPool)
          BY <2>1, <2>2, <3>3
        <4> QED BY <3>1, <4>1 DEF IoInv, HasIo
      <3> QED BY <3>2, <3>3
    <2> QED BY <2>1, <2>3, <2>4 DEF IoInv, IoBaseOwnership
  <1>10. CASE AllocIoBase
    <2>1. /\ UNCHANGED <<taskPool, burst, inRing, d2hQ, doneQ, compRing, cur>>
          /\ cur \in Tasks /\ pc = "alloc"
      BY <1>0, <1>10 DEF AllocIoBase, ringVars, coVars, TypeInv, Frames1
    <2>2. \/ /\ task[cur].io # NoIo /\ ioFree' = ioFree
             /\ task' = [task EXCEPT ![cur] = [@ EXCEPT !.state = "PREPARED"]]
          \/ /\ task[cur].io = NoIo /\ ioFree # <<>> /\ ioFree' = Tail(ioFree)
             /\ task' = [task EXCEPT ![cur] = [@ EXCEPT !.state = "PREPARED", !.io = Head(ioFree)]]
      BY <1>10 DEF AllocIoBase
    <2>3. ioFree # <<>> => /\ Head(ioFree) \in IoBases /\ Tail(ioFree) \in Seq(IoBases)
                           /\ \A i : Count(Tail(ioFree), i) = Count(ioFree, i) - One(Head(ioFree), i)
      BY PopFrontType, CountPop DEF IoInv
    <2>4. /\ \A u \in Tasks \ {cur} : task'[u] = task[u]
          /\ task'[cur].elem = task[cur].elem /\ task'[cur].io # NoIo
      <3>1. task[cur] \in TaskType
        BY <1>0, <2>1
      <3>2. CASE task' = [task EXCEPT ![cur] = [@ EXCEPT !.state = "PREPARED"]]
                 /\ task[cur].io # NoIo
        BY <1>0, <2>1, <3>1, <3>2 DEF TaskType
      <3>3. CASE /\ ioFree # <<>>
                 /\ task' = [task EXCEPT ![cur] = [@ EXCEPT !.state = "PREPARED", !.io = Head(ioFree)]]
        <4>1. Head(ioFree) # NoIo
          BY <2>3, <3>3, PoolAssumption
        <4> QED BY <1>0, <2>1, <3>1, <3>3, <4>1 DEF TaskType
      <3> QED BY <2>2, <3>2, <3>3
    <2>5. HasIo'
      <3> SUFFICES ASSUME NEW u \in Tasks
                   PROVE  /\ u \notin taskPool' => task'[u].elem \in Offloadable
                          /\ task'[u].state = "PREPARED" => task'[u].io # NoIo
                          /\ TookIo(u)' => task'[u].io # NoIo
        BY DEF HasIo
      <3>1. CASE u = cur
        BY <2>1, <2>4, <3>1 DEF IoInv, HasIo
      <3>2. CASE u # cur
        <4>1. task'[u] = task[u] /\ (TookIo(u)' => TookIo(u))
          BY <2>1, <2>4, <3>2 DEF TookIo, OnDevice
        <4> QED BY <2>1, <4>1 DEF IoInv, HasIo
      <3> QED BY <3>1, <3>2
    <2>6. ASSUME NEW i \in IoBases PROVE Count(ioFree', i) + Count(TaskIo', i) = 1
      <3>1. Count(ioFree, i) + Count(TaskIo, i) = 1 /\ Count(ioFree, i) \in Nat
        BY CountType DEF IoInv, IoBaseOwnership
      <3>2. CASE /\ task[cur].io # NoIo /\ ioFree' = ioFree
                 /\ task' = [task EXCEPT ![cur] = [@ EXCEPT !.state = "PREPARED"]]
        <4>1. TaskIo' = TaskIo
          BY <1>0, <2>1, <3>2 DEF TaskIo, TaskType
        <4> QED BY <3>1, <3>2, <4>1
      <3>3. CASE /\ task[cur].io = NoIo /\ ioFree # <<>> /\ ioFree' = Tail(ioFree)
                 /\ task' = [task EXCEPT ![cur] = [@ EXCEPT !.state = "PREPARED", !.io = Head(ioFree)]]
        <4> DEFINE r == [task[cur] EXCEPT !.state = "PREPARED", !.io = Head(ioFree)]
        <4>1. task' = [task EXCEPT ![cur] = r] /\ r.io = Head(ioFree)
          BY <1>0, <2>1, <3>3 DEF TaskType
        <4> HIDE DEF r
        <4>2. /\ Count(TaskIo', i) \in Nat /\ Count(TaskIo, i) \in Nat
              /\ Count(TaskIo', i) = Count(TaskIo, i) - One(task[cur].io, i) + One(r.io, i)
          BY <1>0, <2>1, <4>1, TaskIoChanged
        <4>3. One(task[cur].io, i) = 0
          BY <3>3, PoolAssumption DEF One
        <4>4. Count(ioFree', i) = Count(ioFree, i) - One(r.io, i)
          BY <2>3, <3>3, <4>1
        <4>5. One(r.io, i) \in {0, 1}
          BY OneType
        <4> QED BY <3>1, <4>2, <4>3, <4>4, <4>5
      <3> QED BY <2>2, <3>2, <3>3
    <2>7. ioFree' \in Seq(IoBases)
      BY <2>2, <2>3 DEF IoInv
    <2> QED BY <2>5, <2>6, <2>7 DEF IoInv, IoBaseOwnership
  <1>11. CASE CompleteTask
    <2> DEFINE t == Head(burst)
               e == task[t].elem
    <2>1. /\ t \in Tasks /\ burst # <<>> /\ Count(burst, t) # 0 /\ t \notin taskPool
          /\ Count(burst, t) = 1 /\ OnDevice(t) = 0
      BY <1>11, HeadOfBurst, OnePlace DEF CompleteTask, Elsewhere
    <2>2. task[t].io \in IoBases /\ e \in Offloadable /\ e \in Elems
      BY <1>0, <2>1, ChainAssumption DEF IoInv, HasIo, TookIo, TaskType
    <2>3. /\ UNCHANGED <<inRing, d2hQ, doneQ, compRing, pc, cur>> /\ pc = "complete"
          /\ burst' = Tail(burst)
      BY <1>11 DEF CompleteTask, ringVars
    <2>4. \A u \in Tasks : Count(burst', u) = Count(burst, u) - One(t, u)
      BY <1>0, <2>1, <2>3, CountPop
    <2>5. \A u \in Tasks : TookIo(u)' => TookIo(u) /\ u # t
      <3> SUFFICES ASSUME NEW u \in Tasks, TookIo(u)' PROVE TookIo(u) /\ u # t
        OBVIOUS
      <3>1. OnDevice(u)' = OnDevice(u)
        BY <2>3 DEF OnDevice
      <3>2. OnDevice(u) # 0 \/ Count(burst', u) # 0
        BY <2>3, <3>1 DEF TookIo
      <3>3. Count(burst', u) = Count(burst, u) - One(t, u) /\ Count(burst, u) \in Nat
        BY <1>0, <2>4, TaskPlaces
      <3>4. CASE u = t
        <4>1. One(t, u) = 1
          BY <3>4 DEF One
        <4> QED BY <2>1, <3>2, <3>3, <3>4, <4>1
      <3>5. CASE u # t
        <4>1. One(t, u) = 0
          BY <3>5 DEF One
        <4> QED BY <3>2, <3>3, <3>5, <4>1 DEF TookIo
      <3> QED BY <3>4, <3>5
    <2>6. CASE e + 1 \in Offloadable
      <3>1. e \notin Fin
        BY <2>6, ChainAssumption
      <3>2. UNCHANGED <<ioFree, taskPool>>
            /\ task' = [task EXCEPT ![t].state = "INITIALIZED", ![t].elem = e + 1]
        BY <1>11, <2>6, <3>1 DEF CompleteTask, PostprocAll, NextOffloadable
      <3> HIDE DEF t, e
      <3>3. /\ \A u \in Tasks \ {t} : task'[u] = task[u]
            /\ task'[t].elem = e + 1 /\ task'[t].io = task[t].io
            /\ task'[t].state # "PREPARED"
        BY <1>0, <2>1, <3>2 DEF TaskType
      <3>4. TaskIo' = TaskIo
        BY <3>3 DEF TaskIo
      <3>5. HasIo'
        <4> SUFFICES ASSUME NEW u \in Tasks
                     PROVE  /\ u \notin taskPool' => task'[u].elem \in Offloadable
                            /\ task'[u].state = "PREPARED" => task'[u].io # NoIo
                            /\ TookIo(u)' => task'[u].io # NoIo
          BY DEF HasIo
        <4>1. CASE u = t
          BY <2>5, <2>6, <3>3, <4>1
        <4>2. CASE u # t
          BY <2>5, <3>2, <3>3, <4>2 DEF IoInv, HasIo
        <4> QED BY <4>1, <4>2
      <3> QED BY <3>2, <3>4, <3>5 DEF IoInv, IoBaseOwnership
    <2>7. CASE e + 1 \notin Offloadable
      <3>1. e \in Fin
        BY <2>2, <2>7, ChainAssumption
      <3>2. /\ ioFree' = Append(ioFree, task[t].io) /\ taskPool' = taskPool \cup {t}
            /\ task' = [task EXCEPT ![t] = FreshTask]
        BY <1>11, <2>7, <3>1 DEF CompleteTask, PostprocAll, NextOffloadable
      <3> HIDE DEF t, e
      <3>3. /\ \A u \in Tasks \ {t} : task'[u] = task[u]
            /\ task'[t] = FreshTask
        BY <1>0, <2>1, <3>2
      <3>4. HasIo'
        <4> SUFFICES ASSUME NEW u \in Tasks
                     PROVE  /\ u \notin taskPool' => task'[u].elem \in Offloadable
                            /\ task'[u].state = "PREPARED" => task'[u].io # NoIo
                            /\ TookIo(u)' => task'[u].io # NoIo
          BY DEF HasIo
        <4>1. CASE u = t
          BY <2>5, <3>2, <3>3, <4>1 DEF FreshTask
        <4>2. CASE u # t
          BY <2>5, <3>2, <3>3, <4>2 DEF IoInv, HasIo
        <4> QED BY <4>1, <4>2
      <3>5. ASSUME NEW i \in IoBases PROVE Count(ioFree', i) + Count(TaskIo', i) = 1
        <4>1. Count(ioFree, i) + Count(TaskIo, i) = 1 /\ Count(ioFree, i) \in Nat
          BY CountType DEF IoInv, IoBaseOwnership
        <4>2. /\ Count(TaskIo', i) \in Nat /\ Count(TaskIo, i) \in Nat
              /\ Count(TaskIo', i) = Count(TaskIo, i) - One(task[t].io, i) + One(FreshTask.io, i)
          BY <1>0, <2>1, <3>2, TaskIoChanged
        <4>3. One(FreshTask.io, i) = 0
          BY PoolAssumption DEF One, FreshTask
        <4>4. Count(Append(ioFree, task[t].io), i) = Count(ioFree, i) + One(task[t].io, i)
          BY <2>2, CountPushBack DEF IoInv
        <4>5. One(task[t].io, i) \in {0, 1}
          BY OneType
        <4> QED BY <3>2, <4>1, <4>2, <4>3, <4>4, <4>5
      <3>6. ioFree' \in Seq(IoBases)
        BY <2>2, <3>2, PushBackType DEF IoInv
      <3> QED BY <3>4, <3>5, <3>6 DEF IoInv, IoBaseOwnership
    <2> QED BY <2>6, <2>7
  <1> QED BY <1>2, <1>3, <1>4, <1>5, <1>6, <1>7, <1>8, <1>9, <1>10, <1>11, CompCases

\* The tasks of the rings and queues are on the device.
LEMMA HeadOnDevice ==
    ASSUME TypeInv
    PROVE  /\ inRing # <<>> => Head(inRing) \in Tasks /\ OnDevice(Head(inRing)) # 0
           /\ d2hQ # <<>> => Head(d2hQ) \in Tasks /\ OnDevice(Head(d2hQ)) # 0
           /\ doneQ # <<>> => Head(doneQ) \in Tasks /\ OnDevice(Head(doneQ)) # 0
  <1>1. /\ inRing \in Seq(Tasks) /\ d2hQ \in Seq(Tasks)
        /\ doneQ \in Seq(Tasks) /\ compRing \in Seq(Tasks)
    BY DEF TypeInv, RingTypes, CoprocTypes
  <1>2. ASSUME NEW s \in Seq(Tasks), s # <<>>
        PROVE  Head(s) \in Tasks /\ Count(s, Head(s)) # 0
    <2>1. Head(s) \in Tasks /\ s[1] = Head(s) /\ 1 \in 1..Len(s)
      BY <1>2, HeadTailProperties, EmptySeq, LenProperties
    <2> QED BY <2>1, CountPositive
  <1>3. ASSUME NEW t \in Tasks,
               Count(inRing, t) # 0 \/ Count(d2hQ, t) # 0 \/ Count(doneQ, t) # 0
        PROVE  OnDevice(t) # 0
    <2>1. /\ Count(inRing, t) \in Nat /\ Count(d2hQ, t) \in Nat
          /\ Count(doneQ, t) \in Nat /\ Count(compRing, t) \in Nat
      BY TaskPlaces
    <2> QED BY <1>3, <2>1 DEF OnDevice
  <1> QED BY <1>1, <1>2, <1>3

LEMMA CoprocIoInv ==
    ASSUME TaskInv, IoInv, CoprocStep \/ Signal \/ (\E t \in Tasks : DeviceStep(t))
    PROVE  IoInv'
  <1>0. TypeInv /\ task \in [Tasks -> TaskType]
    BY DEF TaskInv, TypeInv, DataTypes
  <1>1. \A t \in Tasks : TookIo(t)' => TookIo(t)
    <2>1. /\ UNCHANGED <<burst, pc, cur>>
      BY DEF CoprocStep, Signal, DeviceStep, CoPoll, InputCb, InputRefeed, D2hCb, DoneCb,
             NotifyCompletion, CoTerminateCb, KernelFinishes, CopyFinishes, coCtl, ctlVars
    <2>2. \A t \in Tasks : OnDevice(t)' = OnDevice(t)
      <3>1. CASE Signal
        BY <3>1 DEF Signal, coVars, OnDevice
      <3> QED BY <1>0, <3>1, CoprocKeeps
    <2> QED BY <2>1, <2>2 DEF TookIo
  <1>2. UNCHANGED <<ioFree, taskPool>>
    BY DEF CoprocStep, Signal, DeviceStep, CoPoll, InputCb, InputRefeed, D2hCb, DoneCb,
           NotifyCompletion, CoTerminateCb, KernelFinishes, CopyFinishes, coCtl, dataVars
  \* Only the state of a task that is on the device changes.
  <1>3. ASSUME NEW u \in Tasks, NEW st, st # "PREPARED",
               task' = [task EXCEPT ![u].state = st]
        PROVE  IoInv'
    <2>1. \A t \in Tasks :
             /\ task'[t].io = task[t].io /\ task'[t].elem = task[t].elem
             /\ task'[t].state = "PREPARED" => task[t].state = "PREPARED"
      <3> TAKE t \in Tasks
      <3>1. CASE t = u
        BY <1>0, <1>3, <3>1 DEF TaskType
      <3>2. CASE t # u
        BY <1>0, <1>3, <3>2
      <3> QED BY <3>1, <3>2
    <2>2. TaskIo' = TaskIo
      BY <2>1 DEF TaskIo
    <2> QED BY <1>1, <1>2, <2>1, <2>2 DEF IoInv, IoBaseOwnership, HasIo
  <1>4. CASE UNCHANGED task
    BY <1>1, <1>2, <1>4, IoKept
  <1>5. CASE InputCb /\ task' # task
    <2>1. inRing # <<>>
      BY <1>5 DEF InputCb
    <2>2. \/ task' = [task EXCEPT ![Head(inRing)].state = "EXECUTING"]
          \/ task' = [task EXCEPT ![Head(inRing)].state = "H2D_COPYING"]
      BY <1>5, <2>1 DEF InputCb
    <2> QED BY <1>0, <1>3, <2>1, <2>2, HeadOnDevice
  <1>6. CASE D2hCb /\ task' # task
    <2>1. d2hQ # <<>> /\ task' = [task EXCEPT ![Head(d2hQ)].state = "D2H_COPYING"]
      BY <1>6 DEF D2hCb
    <2> QED BY <1>0, <1>3, <2>1, HeadOnDevice
  <1>7. CASE DoneCb /\ task' # task
    <2>1. doneQ # <<>> /\ task' = [task EXCEPT ![Head(doneQ)].state = "FINISHED"]
      BY <1>7 DEF DoneCb
    <2> QED BY <1>0, <1>3, <2>1, HeadOnDevice
  <1>8. ~(InputCb \/ D2hCb \/ DoneCb) => UNCHANGED task
    BY DEF CoprocStep, Signal, DeviceStep, CoPoll, InputRefeed,
           NotifyCompletion, CoTerminateCb, KernelFinishes, CopyFinishes, dataVars
  <1> QED BY <1>4, <1>5, <1>6, <1>7, <1>8

LEMMA StepIoInv == TaskInv /\ IoInv /\ [Next]_vars => IoInv'
  <1> SUFFICES ASSUME TaskInv, IoInv, [Next]_vars PROVE IoInv'
    OBVIOUS
  <1>1. CASE UNCHANGED vars
    <2>1. \A t \in Tasks : TookIo(t)' = TookIo(t)
      BY <1>1 DEF vars, dataVars, ctlVars, ringVars, coVars, TookIo, OnDevice
    <2> QED BY <1>1, <2>1, IoKept DEF vars, dataVars
  <1> QED BY <1>1, CompIoInv, CoprocIoInv DEF Next

LEMMA SpecIoInv == Spec => [](TaskInv /\ IoInv)
  BY InitTaskInv, StepTaskInv, InitIoInv, StepIoInv, PTL DEF Spec

\* No two tasks have the same device buffers, and no io_base is lost, however
\* tasks are reused along a run of offloadable elements.
THEOREM IoBasesOwned == Spec => []IoBaseOwnership
  <1>1. TaskInv /\ IoInv => IoBaseOwnership
    BY DEF IoInv
  <1> QED BY <1>1, SpecIoInv, PTL

-----------------------------------------------------------------------------
(* What the computation thread leaves alone.                                *)

\* The steps that change a task.
LEMMA TaskSteps ==
    ASSUME [Next]_vars
    PROVE  \/ task' = task \/ CompleteTask \/ AllocIoBase \/ InputCb \/ D2hCb \/ DoneCb
           \/ \E b \in Batches, u \in Tasks : OffloadBatch(b, u)
  <1>1. CASE LoopRound \/ Wake \/ CompletionCb \/ CompletionDone \/ TerminateCb \/ CheckCb
             \/ FlushDone \/ ScanDone \/ ReceiveChunk \/ RunLoop \/ StopIoLoop \/ WaitBatch
             \/ AbandonChunk \/ GetBatch
    BY <1>1 DEF LoopRound, Wake, CompletionCb, CompletionDone, TerminateCb, CheckCb,
                FlushDone, ScanDone, ReceiveChunk, RunLoop, StopIoLoop, WaitBatch,
                AbandonChunk, GetBatch, dataVars
  <1>2. CASE (\E e \in Elems : ScanBatch(e)) \/ (\E b \in Batches : DelayBatch(b) \/ ForwardBatch(b))
             \/ (\E u \in Tasks : StartSend(u))
    BY <1>2 DEF ScanBatch, DelayBatch, ForwardBatch, StartSend
  <1>3. CASE WaitIoBase \/ DropTask \/ EnqueueInput \/ DelayTask \/ NotifyInput
    BY <1>3 DEF WaitIoBase, DropTask, EnqueueInput, DelayTask, NotifyInput, dataVars
  <1>4. CASE Signal \/ (\E u \in Tasks : DeviceStep(u)) \/ UNCHANGED vars
             \/ CoPoll \/ InputRefeed \/ NotifyCompletion \/ CoTerminateCb
    BY <1>4 DEF Signal, DeviceStep, CoPoll, InputRefeed, NotifyCompletion, CoTerminateCb,
                KernelFinishes, CopyFinishes, vars, dataVars
  <1>5. CASE CompStep \/ PollTimer
    BY <1>1, <1>2, <1>3, <1>5, CompCases
  <1> QED BY <1>4, <1>5 DEF Next, CoprocStep

\* The batches and the io_base of a task change in the thread that fills,
\* prepares or completes it; the device side changes its state only.
LEMMA OnlyOwned ==
    ASSUME TaskInv, [Next]_vars, NEW t \in Tasks, OnDevice(t) # 0
    PROVE  task'[t].batches = task[t].batches /\ task'[t].io = task[t].io
  <1>0. TypeInv /\ task \in [Tasks -> TaskType] /\ task[t] \in TaskType
    BY DEF TaskInv, TypeInv, DataTypes
  <1>1. /\ Count(burst, t) = 0 /\ InHand(t) = 0 /\ t \notin taskPool /\ Count(acc, t) = 0
    BY OnePlace DEF Elsewhere
  <1>2. CASE task' = task
    BY <1>2
  <1>3. CASE CompleteTask
    <2>1. Head(burst) # t
      BY <1>1, <1>3, HeadOfBurst DEF CompleteTask
    <2>2. task'[t] = task[t]
      BY <1>0, <1>3, <2>1 DEF CompleteTask
    <2> QED BY <2>2
  <1>4. ASSUME NEW b \in Batches, NEW u \in Tasks, OffloadBatch(b, u)
        PROVE  task'[t] = task[t]
    <2>1. u # t
      <3>1. batch[b].elem \in Elems /\ acc \in [Elems -> Tasks \cup {NoTask}]
        BY <1>0, <1>4, ChainAssumption DEF OffloadBatch, ShouldOffload, TypeInv, DataTypes
      <3>2. acc \in Seq(Tasks \cup {NoTask}) /\ batch[b].elem \in 1..Len(acc)
        BY <3>1, ChainAssumption DEF Elems
      <3>3. acc[batch[b].elem] # t
        BY <1>1, <3>2, CountPositive
      <3>4. u \in taskPool \/ u = acc[batch[b].elem]
        BY <1>4 DEF OffloadBatch
      <3> QED BY <1>1, <3>3, <3>4
    <2> QED BY <1>0, <1>4, <2>1 DEF OffloadBatch
  <1>5. CASE AllocIoBase
    <2>1. cur # t
      <3>1. pc = "alloc"
        BY <1>5 DEF AllocIoBase
      <3> QED BY <1>1, <3>1, CurInHand
    <2>2. task'[t] = task[t]
      BY <1>0, <1>5, <2>1 DEF AllocIoBase
    <2> QED BY <2>2
  <1>6. ASSUME NEW u \in Tasks, NEW st, task' = [task EXCEPT ![u].state = st]
        PROVE  task'[t].batches = task[t].batches /\ task'[t].io = task[t].io
    <2>1. CASE t = u
      BY <1>0, <1>6, <2>1 DEF TaskType
    <2>2. CASE t # u
      BY <1>0, <1>6, <2>2
    <2> QED BY <2>1, <2>2
  <1>7. CASE InputCb /\ task' # task
    <2>1. inRing # <<>>
      BY <1>7 DEF InputCb
    <2>2. \/ task' = [task EXCEPT ![Head(inRing)].state = "EXECUTING"]
          \/ task' = [task EXCEPT ![Head(inRing)].state = "H2D_COPYING"]
      BY <1>7, <2>1 DEF InputCb
    <2> QED BY <1>0, <1>6, <2>1, <2>2, HeadOnDevice
  <1>8. CASE D2hCb /\ task' # task
    <2>1. d2hQ # <<>> /\ task' = [task EXCEPT ![Head(d2hQ)].state = "D2H_COPYING"]
      BY <1>8 DEF D2hCb
    <2> QED BY <1>0, <1>6, <2>1, HeadOnDevice
  <1>9. CASE DoneCb /\ task' # task
    <2>1. doneQ # <<>> /\ task' = [task EXCEPT ![Head(doneQ)].state = "FINISHED"]
      BY <1>9 DEF DoneCb
    <2> QED BY <1>0, <1>6, <2>1, HeadOnDevice
  <1> QED BY <1>2, <1>3, <1>4, <1>5, <1>7, <1>8, <1>9, TaskSteps

\* While a task is on the device, the computation thread neither adds a batch
\* to it nor gives its buffers away, whatever it does meanwhile.
THEOREM DeviceDataStable == Spec => StableOnDevice
  <1>1. ASSUME TaskInv, [Next]_vars, NEW t \in Tasks, OnDevice(t) > 0
        PROVE  task'[t].batches = task[t].batches /\ task'[t].io = task[t].io
    <2>1. OnDevice(t) # 0
      BY <1>1, TaskPlaces DEF TaskInv
    <2> QED BY <1>1, <2>1, OnlyOwned
  <1>2. TaskInv /\ [Next]_vars =>
          [\A t \in Tasks : OnDevice(t) > 0 /\ OnDevice(t)' > 0 =>
             task'[t].batches = task[t].batches /\ task'[t].io = task[t].io]_vars
    BY <1>1
  <1> QED BY <1>2, SpecTaskInv, PTL DEF Spec, StableOnDevice


-----------------------------------------------------------------------------
(* The places of a batch.                                                   *)

LEMMA BatchPlaces ==
    ASSUME TypeInv, NEW x \in Batches
    PROVE  /\ Count(queue, x) \in Nat
           /\ CountIn(finished, x) \in Nat /\ CountIn(TaskBatches, x) \in Nat
           /\ BatchCopies(x) \in Nat
           /\ BatchCopies(x) = In(x, pool) + Count(queue, x) + CountIn(finished, x)
                                 + CountIn(TaskBatches, x)
           /\ SeqTable(TaskBatches, Tasks, Batches) /\ SeqTable(finished, Elems, Batches)
  <1>1. IsFiniteSet(Tasks) /\ IsFiniteSet(Elems)
    BY PoolAssumption, ChainAssumption, FS_Interval DEF Elems
  <1>2. /\ finished \in [Elems -> Seq(Batches)] /\ queue \in Seq(Batches \cup Tasks)
        /\ task \in [Tasks -> TaskType]
    BY DEF TypeInv, DataTypes
  <1>3. TaskBatches \in [Tasks -> Seq(Batches)]
    BY <1>2 DEF TaskBatches, TaskType
  <1>4. Count(queue, x) \in Nat
    BY <1>2, CountType
  <1>9. SeqTable(TaskBatches, Tasks, Batches) /\ SeqTable(finished, Elems, Batches)
    BY <1>1, <1>2, <1>3 DEF SeqTable
  <1>5. CountIn(finished, x) \in Nat
    BY <1>9, CountInFinite
  <1>6. CountIn(TaskBatches, x) \in Nat
    BY <1>9, CountInFinite
  <1>7. BatchCopies(x) = In(x, pool) + Count(queue, x) + CountIn(finished, x)
                           + CountIn(TaskBatches, x)
    BY DEF BatchCopies, In
  <1>8. BatchCopies(x) \in Nat
    BY <1>4, <1>5, <1>6, <1>7 DEF In
  <1> QED BY <1>4, <1>5, <1>6, <1>7, <1>8, <1>9

\* A step neither duplicates a batch nor loses it while the loop is not broken.
BatchMoves(x) ==
    /\ BatchCopies(x)' <= BatchCopies(x)
    /\ ~broken' => ~broken /\ BatchCopies(x)' = BatchCopies(x)

\* Adding up what a step does to each place.
LEMMA BatchSum ==
    ASSUME TypeInv, NEW x \in Batches, NEW p \in Int, NEW q \in Int, NEW f \in Int, NEW k \in Int,
           In(x, pool') = In(x, pool) + p, Count(queue', x) = Count(queue, x) + q,
           CountIn(finished', x) = CountIn(finished, x) + f,
           CountIn(TaskBatches', x) = CountIn(TaskBatches, x) + k,
           p + q + f + k <= 0, broken => broken',
           ~broken' => p + q + f + k = 0
    PROVE  BatchMoves(x)
  <1>1. /\ Count(queue, x) \in Nat
        /\ CountIn(finished, x) \in Nat /\ CountIn(TaskBatches, x) \in Nat
        /\ BatchCopies(x) = In(x, pool) + Count(queue, x) + CountIn(finished, x)
                              + CountIn(TaskBatches, x)
        /\ In(x, pool) \in {0, 1}
    BY BatchPlaces DEF In
  <1>2. BatchCopies(x)' = In(x, pool') + Count(queue', x) + CountIn(finished', x)
                            + CountIn(TaskBatches', x)
    BY DEF BatchCopies, In
  <1>3. BatchCopies(x)' = BatchCopies(x) + (p + q + f + k)
    BY <1>1, <1>2
  <1>4. BatchCopies(x) \in Nat
    BY BatchPlaces
  <1> QED BY <1>3, <1>4 DEF BatchMoves

\* The batches of one task change.
LEMMA TaskBatchesChanged ==
    ASSUME TypeInv, TypeInv', NEW t \in Tasks, NEW x,
           \A u \in Tasks \ {t} : task'[u].batches = task[u].batches
    PROVE  CountIn(TaskBatches', x)
             = CountIn(TaskBatches, x) - Count(task[t].batches, x) + Count(task'[t].batches, x)
  <1>1. SeqTable(TaskBatches, Tasks, Batches)
    BY PoolAssumption DEF TypeInv, DataTypes, TaskBatches, TaskType, SeqTable
  <1>2. SeqTable(TaskBatches', Tasks, Batches)
    BY PoolAssumption DEF TypeInv, DataTypes, TaskBatches, TaskType, SeqTable
  <1>3. /\ \A u \in Tasks \ {t} : TaskBatches[u] = TaskBatches'[u]
        /\ TaskBatches[t] = task[t].batches /\ TaskBatches'[t] = task'[t].batches
    BY DEF TaskBatches
  <1> HIDE DEF TaskBatches
  <1>4. CountIn(TaskBatches', x)
             = CountIn(TaskBatches, x) - Count(TaskBatches[t], x) + Count(TaskBatches'[t], x)
    BY <1>1, <1>2, <1>3, CountInChanged
  <1> QED BY <1>3, <1>4

\* Only offload() and the completion change the batches or the
\* element of a task.
LEMMA TaskDataKept ==
    ASSUME TaskInv, [Next]_vars, ~CompleteTask,
           ~ \E b \in Batches, t \in Tasks : OffloadBatch(b, t)
    PROVE  /\ TaskBatches' = TaskBatches
           /\ \A u \in Tasks : task'[u].elem = task[u].elem
  <1> DEFINE Kept == /\ TaskBatches' = TaskBatches
                     /\ \A u \in Tasks : task'[u].elem = task[u].elem
  <1>0. TypeInv /\ task \in [Tasks -> TaskType]
    BY DEF TaskInv, TypeInv, DataTypes
  <1>1. ASSUME NEW u \in Tasks, \A t \in Tasks \ {u} : task'[t] = task[t],
               task'[u].batches = task[u].batches, task'[u].elem = task[u].elem
        PROVE  Kept
    <2>1. \A t \in Tasks : /\ task'[t].batches = task[t].batches
                           /\ task'[t].elem = task[t].elem
      BY <1>1
    <2> QED BY <2>1 DEF TaskBatches
  <1>2. CASE task' = task
    BY <1>2 DEF TaskBatches
  <1>3. CASE AllocIoBase
    <2>1. cur \in Tasks
      BY <1>3, CurInHand DEF AllocIoBase
    <2>2. /\ \A t \in Tasks \ {cur} : task'[t] = task[t]
          /\ task'[cur].batches = task[cur].batches /\ task'[cur].elem = task[cur].elem
      BY <1>0, <1>3, <2>1 DEF AllocIoBase, TaskType
    <2> QED BY <1>1, <2>1, <2>2
  <1>4. ASSUME NEW u \in Tasks, NEW st, task' = [task EXCEPT ![u].state = st]
        PROVE  Kept
    <2>1. /\ \A t \in Tasks \ {u} : task'[t] = task[t]
          /\ task'[u].batches = task[u].batches /\ task'[u].elem = task[u].elem
      BY <1>0, <1>4 DEF TaskType
    <2> QED BY <1>1, <2>1
  <1>5. CASE InputCb /\ task' # task
    <2>1. inRing # <<>>
      BY <1>5 DEF InputCb
    <2>2. \/ task' = [task EXCEPT ![Head(inRing)].state = "EXECUTING"]
          \/ task' = [task EXCEPT ![Head(inRing)].state = "H2D_COPYING"]
      BY <1>5, <2>1 DEF InputCb
    <2> QED BY <1>0, <1>4, <2>1, <2>2, HeadOnDevice
  <1>6. CASE D2hCb /\ task' # task
    <2>1. d2hQ # <<>> /\ task' = [task EXCEPT ![Head(d2hQ)].state = "D2H_COPYING"]
      BY <1>6 DEF D2hCb
    <2> QED BY <1>0, <1>4, <2>1, HeadOnDevice
  <1>7. CASE DoneCb /\ task' # task
    <2>1. doneQ # <<>> /\ task' = [task EXCEPT ![Head(doneQ)].state = "FINISHED"]
      BY <1>7 DEF DoneCb
    <2> QED BY <1>0, <1>4, <2>1, HeadOnDevice
  <1> QED BY <1>2, <1>3, <1>5, <1>6, <1>7, TaskSteps

LEMMA TaskBatchesKept ==
    ASSUME TaskInv, [Next]_vars, ~CompleteTask,
           ~ \E b \in Batches, t \in Tasks : OffloadBatch(b, t)
    PROVE  TaskBatches' = TaskBatches
  BY TaskDataKept

BatchInv == TaskInv /\ BatchConservation

\* A step that leaves every place of a batch alone.
LEMMA BatchStays ==
    ASSUME TypeInv, NEW x \in Batches, UNCHANGED <<pool, queue, finished, TaskBatches>>,
           broken => broken'
    PROVE  BatchMoves(x)
  <1>1. BatchCopies(x)' = BatchCopies(x)
    BY DEF BatchCopies
  <1>2. BatchCopies(x) \in Nat
    BY BatchPlaces
  <1> QED BY <1>1, <1>2 DEF BatchMoves

\* The job queue moves tasks, too.
LEMMA TaskNoBatch == ASSUME NEW t \in Tasks, NEW x \in Batches PROVE One(t, x) = 0
  BY PoolAssumption DEF One

\* The batch at the head of the job queue is not in the pool.
LEMMA HeadNotPooled ==
    ASSUME BatchInv, NEW b \in Batches, Flushing(b)
    PROVE  b \notin pool
  <1>1. /\ queue \in Seq(Batches \cup Tasks) /\ queue # <<>> /\ b = Head(queue)
        /\ TypeInv /\ BatchCopies(b) <= 1
    BY DEF BatchInv, TaskInv, TypeInv, DataTypes, Flushing, BatchConservation
  <1>2. queue[1] = b /\ 1 \in 1..Len(queue)
    BY <1>1, HeadTailProperties, EmptySeq, LenProperties
  <1>3. Count(queue, b) # 0
    BY <1>1, <1>2, CountPositive
  <1>4. /\ Count(queue, b) \in Nat
        /\ CountIn(finished, b) \in Nat /\ CountIn(TaskBatches, b) \in Nat
        /\ BatchCopies(b) = In(b, pool) + Count(queue, b) + CountIn(finished, b)
                              + CountIn(TaskBatches, b)
    BY <1>1, BatchPlaces
  <1>5. In(b, pool) # 1
    BY <1>1, <1>3, <1>4
  <1> QED BY <1>5 DEF In

\* The steps that change the places of batches, without those that change the
\* batches of a task.
LEMMA FlushBatchMoves ==
    ASSUME BatchInv, NEW x \in Batches, UNCHANGED TaskBatches,
           \/ GetBatch \/ AbandonChunk \/ \E e \in Elems : ScanBatch(e)
           \/ \E b \in Batches : DelayBatch(b) \/ ForwardBatch(b)
           \/ \E t \in Tasks : StartSend(t)
           \/ DelayTask
    PROVE  BatchMoves(x)
  <1>1. /\ TypeInv /\ TaskInv
        /\ Count(queue, x) \in Nat
        /\ CountIn(finished, x) \in Nat /\ CountIn(TaskBatches, x) \in Nat
        /\ BatchCopies(x) \in Nat
    BY BatchPlaces DEF BatchInv, TaskInv
  <1>2. /\ queue \in Seq(Batches \cup Tasks)
        /\ finished \in [Elems -> Seq(Batches)] /\ pool \subseteq Batches
    BY <1>1 DEF TypeInv, DataTypes
  \* The pool and the queue change.
  <1>3. ASSUME NEW p \in Int, NEW q \in Int, UNCHANGED <<finished, broken>>,
               In(x, pool') = In(x, pool) + p, Count(queue', x) = Count(queue, x) + q,
               p + q = 0 \/ (broken /\ p + q <= 0)
        PROVE  BatchMoves(x)
    <2>1. /\ CountIn(finished', x) = CountIn(finished, x) + 0
          /\ CountIn(TaskBatches', x) = CountIn(TaskBatches, x) + 0
      BY <1>1, <1>3
    <2>2. p + q + 0 + 0 <= 0 /\ (broken => broken') /\ (~broken' => p + q + 0 + 0 = 0)
      BY <1>3
    <2>3. 0 \in Int
      OBVIOUS
    <2> QED BY <1>1, <1>3, <2>1, <2>2, <2>3, BatchSum
  <1>4. ASSUME pool' = pool
        PROVE  In(x, pool') = In(x, pool) + 0 /\ 0 \in Int
    BY <1>4 DEF In
  <1>5. ASSUME NEW b \in pool, pool' = pool \ {b}
        PROVE  In(x, pool') = In(x, pool) + (-One(b, x)) /\ One(b, x) \in {0, 1}
    BY <1>5 DEF In, One
  <1>6. CASE GetBatch
    <2>1. PICK b \in pool : pool' = pool \ {b} /\ queue' = Append(queue, b)
      BY <1>6 DEF GetBatch
    <2>2. UNCHANGED <<finished, broken>>
      BY <1>6 DEF GetBatch
    <2>3. In(x, pool') = In(x, pool) + (-One(b, x)) /\ One(b, x) \in {0, 1}
      BY <1>5, <2>1
    <2>4. Count(queue', x) = Count(queue, x) + One(b, x)
      BY <1>2, <2>1, CountPushBack
    <2>5. -One(b, x) \in Int /\ One(b, x) \in Int /\ (-One(b, x)) + One(b, x) = 0
      BY <2>3
    <2> QED BY <1>3, <2>2, <2>3, <2>4, <2>5
  <1>7. CASE AbandonChunk
    <2>1. broken /\ UNCHANGED <<queue, finished, broken>>
      BY <1>7 DEF AbandonChunk
    <2>2. Count(queue', x) = Count(queue, x) + 0 /\ 0 \in Int
      BY <1>1, <2>1
    <2>3. CASE pool' = pool
      BY <1>3, <1>4, <2>1, <2>2, <2>3
    <2>4. CASE pool' # pool
      <3>1. PICK b \in pool : pool' = pool \ {b}
        BY <1>7, <2>4 DEF AbandonChunk
      <3>2. In(x, pool') = In(x, pool) + (-One(b, x)) /\ One(b, x) \in {0, 1}
        BY <1>5, <3>1
      <3>3. -One(b, x) \in Int /\ (-One(b, x)) + 0 <= 0
        BY <3>2
      <3> QED BY <1>3, <2>1, <2>2, <3>2, <3>3
    <2> QED BY <2>3, <2>4
  <1>8. ASSUME NEW e \in Elems, ScanBatch(e) PROVE BatchMoves(x)
    <2> DEFINE b == Head(finished[e])
    <2>1. /\ finished[e] # <<>> /\ finished[e] \in Seq(Batches) /\ Tail(finished[e]) \in Seq(Batches)
          /\ b \in Batches /\ b \in Batches \cup Tasks
          /\ queue' = Append(queue, b) /\ UNCHANGED <<pool, broken>>
      BY <1>2, <1>8, PopFrontType DEF ScanBatch, ctlVars
    <2>2. /\ finished'[e] = Tail(finished[e]) /\ \A f \in Elems \ {e} : finished[f] = finished'[f]
      BY <1>2, <1>8 DEF ScanBatch
    <2>3. SeqTable(finished, Elems, Batches) /\ SeqTable(finished', Elems, Batches)
      <3>1. finished' \in [Elems -> Seq(Batches)]
        BY <1>2, <1>8, <2>1 DEF ScanBatch
      <3>2. SeqTable(finished, Elems, Batches)
        BY <1>1, BatchPlaces
      <3> QED BY <3>1, <3>2 DEF SeqTable
    <2> HIDE DEF b
    <2>4. CountIn(finished', x) = CountIn(finished, x) - Count(finished[e], x) + Count(finished'[e], x)
      BY <2>2, <2>3, CountInChanged
    <2>5. Count(Tail(finished[e]), x) = Count(finished[e], x) - One(b, x)
      BY <2>1, CountPop DEF b
    <2>6. Count(queue', x) = Count(queue, x) + One(b, x)
      BY <1>2, <2>1, CountPushBack
    <2>7. One(b, x) \in {0, 1} /\ Count(finished[e], x) \in Nat
      BY <2>1, OneType, CountType
    <2>8. CountIn(finished', x) = CountIn(finished, x) + (-One(b, x))
      BY <1>1, <2>2, <2>4, <2>5, <2>7
    <2>9. CountIn(TaskBatches', x) = CountIn(TaskBatches, x) + 0
      BY <1>1
    <2>10. /\ 0 \in Int /\ One(b, x) \in Int /\ -One(b, x) \in Int
           /\ 0 + One(b, x) + (-One(b, x)) + 0 = 0
      BY <2>7
    <2>11. 0 + One(b, x) + (-One(b, x)) + 0 <= 0 /\ (broken => broken')
      BY <2>1, <2>10
    <2> QED BY <1>1, <1>4, <2>1, <2>6, <2>8, <2>9, <2>10, <2>11, BatchSum
  <1>9. ASSUME NEW b \in Batches, Flushing(b)
        PROVE  /\ Count(Tail(queue), x) = Count(queue, x) + (-One(b, x))
               /\ Count(Append(Tail(queue), b), x) = Count(queue, x) + 0
               /\ One(b, x) \in {0, 1}
    <2>1. /\ queue # <<>> /\ b = Head(queue) /\ Tail(queue) \in Seq(Batches \cup Tasks)
          /\ b \in Batches \cup Tasks
      BY <1>2, <1>9, PopFrontType DEF Flushing
    <2>2. Count(Tail(queue), x) = Count(queue, x) - One(b, x)
      BY <1>2, <2>1, CountPop
    <2>3. Count(Append(Tail(queue), b), x) = Count(Tail(queue), x) + One(b, x)
      BY <2>1, CountPushBack
    <2>4. One(b, x) \in {0, 1}
      BY OneType
    <2> QED BY <1>1, <2>2, <2>3, <2>4
  <1>10. ASSUME NEW b \in Batches, DelayBatch(b) PROVE BatchMoves(x)
    <2>1. /\ Flushing(b) /\ queue' = Append(Tail(queue), b) /\ UNCHANGED <<pool, finished, broken>>
      BY <1>10 DEF DelayBatch, ctlVars
    <2>2. Count(queue', x) = Count(queue, x) + 0
      BY <1>9, <2>1
    <2>3. 0 \in Int /\ 0 + 0 = 0
      OBVIOUS
    <2> QED BY <1>3, <1>4, <2>1, <2>2, <2>3
  <1>11. ASSUME NEW b \in Batches, ForwardBatch(b) PROVE BatchMoves(x)
    <2>1. Flushing(b) /\ UNCHANGED <<finished, broken>>
      BY <1>11 DEF ForwardBatch
    <2>2. CASE AtOutput(b)
      <3>1. pool' = pool \cup {b} /\ queue' = Tail(queue) /\ b \notin pool
        BY <1>11, <2>1, <2>2, HeadNotPooled DEF ForwardBatch
      <3>2. In(x, pool') = In(x, pool) + One(b, x)
        BY <3>1 DEF In, One
      <3>3. Count(queue', x) = Count(queue, x) + (-One(b, x)) /\ One(b, x) \in {0, 1}
        BY <1>9, <2>1, <3>1
      <3>4. -One(b, x) \in Int /\ One(b, x) \in Int /\ One(b, x) + (-One(b, x)) = 0
        BY <3>3
      <3> QED BY <1>3, <2>1, <3>2, <3>3, <3>4
    <2>3. CASE ~AtOutput(b)
      <3>1. pool' = pool /\ queue' = Append(Tail(queue), b)
        BY <1>11, <2>3 DEF ForwardBatch
      <3>2. Count(queue', x) = Count(queue, x) + 0
        BY <1>9, <2>1, <3>1
      <3>3. 0 \in Int /\ 0 + 0 = 0
        OBVIOUS
      <3> QED BY <1>3, <1>4, <2>1, <3>1, <3>2, <3>3
    <2> QED BY <2>2, <2>3
  <1>12. ASSUME NEW t \in Tasks, StartSend(t) PROVE BatchMoves(x)
    <2>1. /\ queue # <<>> /\ t = Head(queue) /\ queue' = Tail(queue)
          /\ UNCHANGED <<pool, finished, broken>>
      BY <1>12 DEF StartSend, Flushing
    <2>2. Count(queue', x) = Count(queue, x) - One(t, x)
      BY <1>2, <2>1, CountPop
    <2>3. Count(queue', x) = Count(queue, x) + 0
      BY <1>1, <2>2, TaskNoBatch
    <2>4. 0 \in Int /\ 0 + 0 = 0
      OBVIOUS
    <2> QED BY <1>3, <1>4, <2>1, <2>3, <2>4
  <1>13. CASE DelayTask
    <2>1. /\ queue' = <<cur>> \o queue /\ cur \in Tasks /\ cur \in Batches \cup Tasks
          /\ UNCHANGED <<pool, finished, broken>>
      BY <1>1, <1>13, CurInHand DEF DelayTask
    <2>2. Count(queue', x) = Count(queue, x) + One(cur, x)
      BY <1>2, <2>1, CountPushFront
    <2>3. Count(queue', x) = Count(queue, x) + 0
      BY <1>1, <2>1, <2>2, TaskNoBatch
    <2>4. 0 \in Int /\ 0 + 0 = 0
      OBVIOUS
    <2> QED BY <1>3, <1>4, <2>1, <2>3, <2>4
  <1> QED BY <1>6, <1>7, <1>8, <1>10, <1>11, <1>12, <1>13

\* The batch of the head of the queue joins a task.
LEMMA OffloadBatchMoves ==
    ASSUME BatchInv, TypeInv', NEW x \in Batches, NEW b \in Batches, NEW t \in Tasks,
           OffloadBatch(b, t)
    PROVE  BatchMoves(x)
  <1> DEFINE bs == Append(task[t].batches, b)
             full == Len(bs) = PpDepth
  <1>1. /\ TypeInv /\ TaskInv
        /\ Count(queue, x) \in Nat
        /\ CountIn(finished, x) \in Nat /\ CountIn(TaskBatches, x) \in Nat
    BY BatchPlaces DEF BatchInv, TaskInv
  <1>2. /\ queue \in Seq(Batches \cup Tasks) /\ queue # <<>> /\ b = Head(queue)
        /\ Tail(queue) \in Seq(Batches \cup Tasks)
        /\ task \in [Tasks -> TaskType] /\ task[t].batches \in Seq(Batches)
        /\ b \in Batches \cup Tasks /\ t \in Batches \cup Tasks
    BY <1>1, PopFrontType DEF OffloadBatch, Flushing, TypeInv, DataTypes, TaskType
  <1>3. /\ queue' = IF full THEN <<t>> \o Tail(queue) ELSE Tail(queue)
        /\ UNCHANGED <<pool, finished, broken>>
    BY DEF OffloadBatch, ctlVars
  <1>4. /\ task'[t].batches = bs
        /\ \A u \in Tasks \ {t} : task'[u].batches = task[u].batches
    BY <1>2 DEF OffloadBatch, TaskType
  <1>5. Count(bs, x) = Count(task[t].batches, x) + One(b, x)
    BY <1>2, CountPushBack
  <1>6. One(b, x) \in {0, 1} /\ Count(task[t].batches, x) \in Nat
    BY <1>2, OneType, CountType
  <1> HIDE DEF bs, full
  <1>7. CountIn(TaskBatches', x)
          = CountIn(TaskBatches, x) - Count(task[t].batches, x) + Count(task'[t].batches, x)
    BY <1>1, <1>4, TaskBatchesChanged
  <1>8. CountIn(TaskBatches', x) = CountIn(TaskBatches, x) + One(b, x)
    BY <1>1, <1>4, <1>5, <1>6, <1>7
  <1>9. Count(Tail(queue), x) = Count(queue, x) - One(b, x)
    BY <1>2, CountPop
  <1>10. Count(<<t>> \o Tail(queue), x) = Count(Tail(queue), x) + One(t, x)
    BY <1>2, CountPushFront
  <1>11. Count(queue', x) = Count(queue, x) + (-One(b, x))
    <2>1. CASE full
      BY <1>1, <1>3, <1>6, <1>9, <1>10, <2>1, TaskNoBatch
    <2>2. CASE ~full
      BY <1>1, <1>3, <1>6, <1>9, <2>2
    <2> QED BY <2>1, <2>2
  <1>12. In(x, pool') = In(x, pool) + 0 /\ CountIn(finished', x) = CountIn(finished, x) + 0
    BY <1>1, <1>3 DEF In
  <1>13. /\ 0 \in Int /\ One(b, x) \in Int /\ -One(b, x) \in Int
         /\ 0 + (-One(b, x)) + 0 + One(b, x) = 0
    BY <1>6
  <1>14. 0 + (-One(b, x)) + 0 + One(b, x) <= 0 /\ (broken => broken')
    BY <1>3, <1>13
  <1> QED BY <1>1, <1>8, <1>11, <1>12, <1>13, <1>14, BatchSum

\* The batches of a completed task go to the finished list of its element, or
\* they stay with the task that the next element reuses.
LEMMA CompleteBatchMoves ==
    ASSUME BatchInv, TypeInv', NEW x \in Batches, CompleteTask
    PROVE  BatchMoves(x)
  <1> DEFINE t == Head(burst)
             e == task[t].elem
             bs == task[t].batches
  <1>1. /\ TypeInv /\ TaskInv
        /\ Count(queue, x) \in Nat
        /\ CountIn(finished, x) \in Nat /\ CountIn(TaskBatches, x) \in Nat
    BY BatchPlaces DEF BatchInv, TaskInv
  <1>2. /\ queue \in Seq(Batches \cup Tasks) /\ finished \in [Elems -> Seq(Batches)]
        /\ task \in [Tasks -> TaskType] /\ t \in Tasks /\ e \in Elems
        /\ bs \in Seq(Batches) /\ t \in Batches \cup Tasks /\ finished[e] \in Seq(Batches)
    BY <1>1, HeadOfBurst DEF CompleteTask, TypeInv, DataTypes, TaskType
  <1>3. UNCHANGED <<pool, broken>>
    BY DEF CompleteTask
  <1>4. CASE NextOffloadable(e)
    <2>1. /\ task' = [task EXCEPT ![t].state = "INITIALIZED", ![t].elem = e + 1]
          /\ queue' = <<t>> \o queue /\ finished' = finished
      BY <1>4 DEF CompleteTask
    <2>2. \A u \in Tasks : task'[u].batches = task[u].batches
      BY <1>2, <2>1 DEF TaskType
    <2>3. TaskBatches' = TaskBatches
      BY <2>2 DEF TaskBatches
    <2>4. Count(queue', x) = Count(queue, x) + One(t, x)
      BY <1>2, <2>1, CountPushFront
    <2>5. Count(queue', x) = Count(queue, x) + 0
      BY <1>1, <1>2, <2>4, TaskNoBatch
    <2>6. /\ In(x, pool') = In(x, pool) + 0 /\ CountIn(finished', x) = CountIn(finished, x) + 0
          /\ CountIn(TaskBatches', x) = CountIn(TaskBatches, x) + 0
      BY <1>1, <1>3, <2>1, <2>3 DEF In
    <2>7. 0 \in Int /\ 0 + 0 + 0 + 0 = 0 /\ 0 + 0 + 0 + 0 <= 0
      OBVIOUS
    <2> QED BY <1>1, <1>3, <2>5, <2>6, <2>7, BatchSum
  <1>5. CASE ~NextOffloadable(e)
    <2>1. /\ finished' = [finished EXCEPT ![e] = @ \o bs]
          /\ task' = [task EXCEPT ![t] = FreshTask] /\ queue' = queue
      BY <1>5 DEF CompleteTask
    <2>2. task'[t].batches = <<>> /\ \A u \in Tasks \ {t} : task'[u].batches = task[u].batches
      BY <1>2, <2>1 DEF FreshTask
    <2>3. /\ finished'[e] = finished[e] \o bs
          /\ \A f \in Elems \ {e} : finished[f] = finished'[f]
      BY <1>2, <2>1
    <2>4. SeqTable(finished, Elems, Batches)
      BY <1>1, BatchPlaces
    <2>5. SeqTable(finished', Elems, Batches)
      BY <2>4 DEF SeqTable, TypeInv, DataTypes
    <2>6. Count(bs, x) \in Nat /\ Count(finished[e], x) \in Nat /\ Count(<<>>, x) = 0
      BY <1>2, CountType, CountEmpty
    <2> HIDE DEF bs, e, t
    <2>7. CountIn(TaskBatches', x)
            = CountIn(TaskBatches, x) - Count(task[t].batches, x) + Count(task'[t].batches, x)
      BY <1>1, <1>2, <2>2, TaskBatchesChanged
    <2>8. CountIn(TaskBatches', x) = CountIn(TaskBatches, x) + (-Count(bs, x))
      BY <1>1, <2>2, <2>6, <2>7 DEF bs
    <2>9. CountIn(finished', x) = CountIn(finished, x) - Count(finished[e], x) + Count(finished'[e], x)
      <3>1. e \in Elems /\ \A f \in Elems \ {e} : finished[f] = finished'[f]
        BY <1>2, <2>3
      <3> QED BY <2>4, <2>5, <3>1, CountInChanged
    <2>10. Count(finished[e] \o bs, x) = Count(finished[e], x) + Count(bs, x)
      BY <1>2, CountConcat
    <2>11. CountIn(finished', x) = CountIn(finished, x) + Count(bs, x)
      BY <1>1, <2>3, <2>6, <2>9, <2>10
    <2>12. In(x, pool') = In(x, pool) + 0 /\ Count(queue', x) = Count(queue, x) + 0
      BY <1>1, <1>3, <2>1 DEF In
    <2>13. /\ 0 \in Int /\ Count(bs, x) \in Int /\ -Count(bs, x) \in Int
           /\ 0 + 0 + Count(bs, x) + (-Count(bs, x)) = 0
      BY <2>6
    <2>14. 0 + 0 + Count(bs, x) + (-Count(bs, x)) <= 0 /\ (broken => broken')
      BY <1>3, <2>13
    <2> QED BY <1>1, <2>8, <2>11, <2>12, <2>13, <2>14, BatchSum
  <1> QED BY <1>4, <1>5

\* The other steps move no batch.
LEMMA OtherSteps ==
    ASSUME [Next]_vars
    PROVE  \/ UNCHANGED <<pool, queue, finished>> /\ (broken => broken')
           \/ GetBatch \/ AbandonChunk \/ (\E e \in Elems : ScanBatch(e))
           \/ (\E b \in Batches : DelayBatch(b) \/ ForwardBatch(b))
           \/ (\E t \in Tasks : StartSend(t))
           \/ DelayTask
           \/ CompleteTask \/ \E b \in Batches, t \in Tasks : OffloadBatch(b, t)
  <1>1. CASE LoopRound \/ Wake \/ CompletionCb \/ CompletionDone \/ TerminateCb \/ CheckCb
             \/ FlushDone \/ ScanDone \/ ReceiveChunk \/ RunLoop \/ StopIoLoop \/ WaitBatch
    BY <1>1 DEF LoopRound, Wake, CompletionCb, CompletionDone, TerminateCb, CheckCb,
                FlushDone, ScanDone, ReceiveChunk, RunLoop, StopIoLoop, WaitBatch, dataVars
  <1>2. CASE AllocIoBase \/ WaitIoBase \/ DropTask \/ EnqueueInput \/ NotifyInput
    BY <1>2 DEF AllocIoBase, WaitIoBase, DropTask, EnqueueInput, NotifyInput, dataVars
  <1>3. CASE Signal \/ CoprocStep \/ (\E u \in Tasks : DeviceStep(u)) \/ UNCHANGED vars
    BY <1>3 DEF Signal, CoprocStep, DeviceStep, CoPoll, InputCb, InputRefeed, D2hCb, DoneCb,
                NotifyCompletion, CoTerminateCb, KernelFinishes, CopyFinishes,
                vars, dataVars, coCtl, ctlVars
  <1>4. CASE CompStep \/ PollTimer
    BY <1>1, <1>2, <1>4, CompCases
  <1> QED BY <1>3, <1>4 DEF Next

LEMMA StepBatchMoves ==
    ASSUME BatchInv, [Next]_vars, NEW x \in Batches
    PROVE  BatchMoves(x)
  <1>1. TypeInv /\ TaskInv /\ TypeInv'
    BY StepTypeInv DEF BatchInv, TaskInv
  <1>2. CASE CompleteTask
    BY <1>1, <1>2, CompleteBatchMoves
  <1>3. ASSUME NEW b \in Batches, NEW t \in Tasks, OffloadBatch(b, t) PROVE BatchMoves(x)
    BY <1>1, <1>3, OffloadBatchMoves
  <1>4. CASE ~CompleteTask /\ ~ \E b \in Batches, t \in Tasks : OffloadBatch(b, t)
    <2>1. TaskBatches' = TaskBatches
      BY <1>1, <1>4, TaskBatchesKept
    <2>2. CASE UNCHANGED <<pool, queue, finished>> /\ (broken => broken')
      BY <1>1, <2>1, <2>2, BatchStays
    <2>3. CASE \/ GetBatch \/ AbandonChunk \/ (\E e \in Elems : ScanBatch(e))
               \/ (\E b \in Batches : DelayBatch(b) \/ ForwardBatch(b))
               \/ (\E t \in Tasks : StartSend(t))
               \/ DelayTask
      BY <2>1, <2>3, FlushBatchMoves
    <2> QED BY <1>4, <2>2, <2>3, OtherSteps
  <1> QED BY <1>2, <1>3, <1>4

-----------------------------------------------------------------------------
(* The invariant on batches.                                                *)

\* A table of empty sequences holds nothing.
LEMMA NoEntries ==
    ASSUME NEW D, NEW S, NEW f, SeqTable(f, D, S), \A d \in D : f[d] = <<>>, NEW x
    PROVE  CountIn(f, x) = 0
  <1>1. \A d \in D : ~ \E i \in 1..Len(f[d]) : f[d][i] = x
    OBVIOUS
  <1> QED BY <1>1, CountInPositive

LEMMA InitBatchInv == Init => BatchInv
  <1> SUFFICES ASSUME Init PROVE BatchInv
    OBVIOUS
  <1>1. TaskInv /\ TypeInv
    BY InitTaskInv DEF TaskInv
  <1>2. ASSUME NEW b \in Batches PROVE BatchCopies(b) = 1
    <2>1. /\ SeqTable(TaskBatches, Tasks, Batches) /\ SeqTable(finished, Elems, Batches)
          /\ BatchCopies(b) = In(b, pool) + Count(queue, b) + CountIn(finished, b)
                                + CountIn(TaskBatches, b)
      BY <1>1, BatchPlaces
    <2>2. /\ \A e \in Elems : finished[e] = <<>>
          /\ \A t \in Tasks : TaskBatches[t] = <<>>
      BY DEF Init, TaskBatches, FreshTask
    <2>3. CountIn(finished, b) = 0
      BY <2>1, <2>2, NoEntries
    <2>4. CountIn(TaskBatches, b) = 0
      BY <2>1, <2>2, NoEntries
    <2>5. Count(queue, b) = 0
      BY CountEmpty DEF Init
    <2>6. In(b, pool) = 1
      BY DEF Init, In
    <2> QED BY <2>1, <2>3, <2>4, <2>5, <2>6
  <1> QED BY <1>1, <1>2 DEF BatchInv, BatchConservation

LEMMA BatchNumber == TypeInv => \A b \in Batches : BatchCopies(b) \in Nat
  BY BatchPlaces

LEMMA BatchNumberNext == (TypeInv => \A b \in Batches : BatchCopies(b) \in Nat)'
  BY BatchNumber, PTL

LEMMA StepBatchInv == BatchInv /\ [Next]_vars => BatchInv'
  <1> SUFFICES ASSUME BatchInv, [Next]_vars PROVE BatchInv'
    OBVIOUS
  <1>1. TypeInv /\ TypeInv' /\ TaskInv'
    BY StepTaskInv DEF BatchInv, TaskInv
  <1>2. BatchConservation'
    <2> SUFFICES ASSUME NEW x \in Batches
                 PROVE  BatchCopies(x)' <= 1 /\ (~broken' => BatchCopies(x)' = 1)
      BY DEF BatchConservation
    <2>1. BatchMoves(x)
      BY StepBatchMoves
    <2>2. BatchCopies(x) \in Nat /\ BatchCopies(x)' \in Nat
      BY <1>1, BatchNumber, BatchNumberNext
    <2>3. BatchCopies(x) <= 1 /\ (~broken => BatchCopies(x) = 1)
      BY DEF BatchInv, BatchConservation
    <2> QED BY <2>1, <2>2, <2>3 DEF BatchMoves
  <1> QED BY <1>1, <1>2 DEF BatchInv

LEMMA SpecBatchInv == Spec => []BatchInv
  BY InitBatchInv, StepBatchInv, PTL DEF Spec

\* A packet batch is in one place and, while the loop is not broken, in some
\* place: it is transmitted and freed once, it never sits in two tasks, and no
\* retry of offload() or of the input ring leaves it behind.
THEOREM BatchesConserved == Spec => []BatchConservation
  <1>1. BatchInv => BatchConservation
    BY DEF BatchInv
  <1> QED BY <1>1, SpecBatchInv, PTL

-----------------------------------------------------------------------------
(* Datablock trackers.  A batch has one only while it is in a task, and the  *)
(* batches of a task get theirs, and give them back, together: at the first  *)
(* start of the task, and where its run of offloadable elements ends.  That  *)
(* the code looks only at the first batch of a task rests on it.             *)

Members(t) == {task[t].batches[i] : i \in DOMAIN task[t].batches}
Held == {b \in Batches : batch[b].db}

Tracked(t)   == \A b \in Members(t) : batch[b].db
Untracked(t) == \A b \in Members(t) : ~batch[b].db

\* The task was started and has not been completed.
InUse(t) == InHand(t) # 0 \/ Frames(t) # 0 \/ OnDevice(t) # 0 \/ Count(burst, t) # 0
\* The task is free or being filled.
Filling(t) == t \in taskPool \/ Count(acc, t) # 0

TrackersOf(t) ==
    /\ Tracked(t) \/ Untracked(t)
    /\ InUse(t) \/ task[t].state = "PREPARED" => Tracked(t)
    /\ Filling(t) => Untracked(t)
    /\ t \notin taskPool => task[t].batches # <<>>

TrackerInv ==
    /\ dbFree + Cardinality(Held) = Cardinality(Batches)
    /\ \A b \in Held : \E t \in Tasks : b \in Members(t)
    /\ \A t \in Tasks : TrackersOf(t)

\* A batch of a task is in no other place.
LEMMA MemberPlaces ==
    ASSUME BatchInv, NEW t \in Tasks, NEW b \in Members(t)
    PROVE  /\ b \in Batches /\ b \notin pool /\ Count(queue, b) = 0
           /\ \A u \in Tasks : b \in Members(u) => u = t
  <1>1. TypeInv /\ task \in [Tasks -> TaskType] /\ TaskInv
    BY DEF BatchInv, TaskInv, TypeInv, DataTypes
  <1>2. \A u \in Tasks : /\ task[u].batches \in Seq(Batches) /\ TaskBatches[u] = task[u].batches
                         /\ DOMAIN task[u].batches = 1..Len(task[u].batches)
    BY <1>1, LenProperties DEF TaskType, TaskBatches
  <1>3. PICK i \in 1..Len(TaskBatches[t]) : TaskBatches[t][i] = b
    BY <1>2 DEF Members
  <1>4. b \in Batches
    BY <1>2, <1>3, ElementOfSeq
  <1>5. /\ Count(queue, b) \in Nat
        /\ CountIn(finished, b) \in Nat /\ CountIn(TaskBatches, b) \in Nat
        /\ BatchCopies(b) = In(b, pool) + Count(queue, b) + CountIn(finished, b)
                              + CountIn(TaskBatches, b)
        /\ SeqTable(TaskBatches, Tasks, Batches)
        /\ BatchCopies(b) <= 1
    BY <1>1, <1>4, BatchPlaces DEF BatchInv, BatchConservation
  <1> HIDE DEF TaskBatches
  <1>6. CountIn(TaskBatches, b) # 0
    BY <1>3, <1>5, CountInPositive
  <1>7. In(b, pool) \in {0, 1}
    BY DEF In
  <1>8. In(b, pool) = 0 /\ Count(queue, b) = 0 /\ CountIn(TaskBatches, b) <= 1
    BY <1>5, <1>6, <1>7
  <1>9. ASSUME NEW u \in Tasks, b \in Members(u) PROVE u = t
    <2>1. PICK j \in 1..Len(TaskBatches[u]) : TaskBatches[u][j] = b
      BY <1>2, <1>9 DEF Members
    <2> QED BY <1>3, <1>5, <1>8, <2>1, CountInUnique
  <1> QED BY <1>4, <1>8, <1>9 DEF In

LEMMA MembersOf ==
    ASSUME BatchInv, NEW t \in Tasks
    PROVE  /\ task[t].batches \in Seq(Batches) /\ Members(t) \subseteq Batches
           /\ IsFiniteSet(Members(t)) /\ Cardinality(Members(t)) = Len(task[t].batches)
  <1>1. task[t].batches \in Seq(Batches)
    BY DEF BatchInv, TaskInv, TypeInv, DataTypes, TaskType
  <1>2. ASSUME NEW b \in Batches PROVE Count(task[t].batches, b) <= 1
    <2>1. /\ Count(queue, b) \in Nat
          /\ CountIn(finished, b) \in Nat /\ CountIn(TaskBatches, b) \in Nat
          /\ BatchCopies(b) = In(b, pool) + Count(queue, b) + CountIn(finished, b)
                                + CountIn(TaskBatches, b)
          /\ SeqTable(TaskBatches, Tasks, Batches)
          /\ BatchCopies(b) <= 1 /\ In(b, pool) \in {0, 1}
      BY BatchPlaces DEF BatchInv, TaskInv, BatchConservation, In
    <2>2. TaskBatches[t] = task[t].batches
      BY DEF TaskBatches
    <2> HIDE DEF TaskBatches
    <2>3. Count(TaskBatches[t], b) \in Nat /\ Count(TaskBatches[t], b) <= CountIn(TaskBatches, b)
      BY <2>1, CountInPositive
    <2> QED BY <2>1, <2>2, <2>3
  <1>3. Members(t) \subseteq Batches
    BY <1>1, ElementOfSeq, LenProperties DEF Members
  <1> QED BY <1>1, <1>2, <1>3, DistinctItems DEF Members

\* What is held is finite; a batch that is held is not in the pool.
LEMMA HeldFinite ==
    IsFiniteSet(Held) /\ Cardinality(Held) \in Nat /\ Cardinality(Held) <= Cardinality(Batches)
    /\ Cardinality(Batches) \in Nat
  <1>1. Held \in SUBSET Batches /\ IsFiniteSet(Batches)
    BY PoolAssumption DEF Held
  <1> QED BY <1>1, FS_Subset, FS_CardinalityType

LEMMA TrackerInvImplies == BatchInv /\ TrackerInv => TrackerAccounting /\ dbFree >= 0
  <1> SUFFICES ASSUME BatchInv, TrackerInv PROVE TrackerAccounting /\ dbFree >= 0
    OBVIOUS
  <1>1. dbFree + Cardinality(Held) = Cardinality(Batches)
    BY DEF TrackerInv
  <1>2. dbFree \in Int
    BY DEF BatchInv, TaskInv, TypeInv, DataTypes
  <1>3. dbFree >= 0
    BY <1>1, <1>2, HeldFinite
  <1>4. ASSUME NEW b \in pool PROVE ~batch[b].db
    <2>1. b \in Batches
      BY DEF BatchInv, TaskInv, TypeInv, DataTypes
    <2> QED BY <2>1, MemberPlaces DEF TrackerInv, Held
  <1>5. ASSUME NEW t \in Tasks, OnDevice(t) > 0, NEW i \in DOMAIN task[t].batches
        PROVE  batch[task[t].batches[i]].db
    <2>1. OnDevice(t) # 0
      BY <1>5, TaskPlaces DEF BatchInv, TaskInv
    <2>2. Tracked(t)
      BY <2>1 DEF TrackerInv, TrackersOf, InUse
    <2> QED BY <2>2 DEF Tracked, Members
  <1> QED BY <1>1, <1>3, <1>4, <1>5 DEF TrackerAccounting, Held

LEMMA InitTrackerInv == Init => TrackerInv
  <1> SUFFICES ASSUME Init PROVE TrackerInv
    OBVIOUS
  <1>1. Held = {} /\ Cardinality(Held) = 0
    <2>1. Held = {}
      BY DEF Init, Held, FreshBatch
    <2> QED BY <2>1, FS_EmptySet
  <1>2. dbFree = Cardinality(Batches) /\ Cardinality(Batches) \in Nat
    BY HeldFinite DEF Init
  <1>3. ASSUME NEW t \in Tasks PROVE TrackersOf(t)
    <2>1. Members(t) = {} /\ t \in taskPool
      BY DEF Init, Members, FreshTask
    <2> QED BY <2>1 DEF TrackersOf, Tracked, Untracked
  <1> QED BY <1>1, <1>2, <1>3 DEF TrackerInv

\* The places of a task are counted by numbers, before and after a step.
LEMMA UseNumbers ==
    TypeInv => \A t \in Tasks :
        /\ Frames(t) \in Nat /\ InHand(t) \in Nat /\ OnDevice(t) \in Nat
        /\ Count(burst, t) \in Nat /\ Count(acc, t) \in Nat /\ Count(queue, t) \in Nat
        /\ TaskCopies(t) = In(t, taskPool) + Count(acc, t) + Count(queue, t) + Frames(t)
                             + InHand(t) + OnDevice(t) + Count(burst, t)
        /\ In(t, taskPool) \in Nat
  <1> SUFFICES ASSUME TypeInv, NEW t \in Tasks
      PROVE /\ Frames(t) \in Nat /\ InHand(t) \in Nat /\ OnDevice(t) \in Nat
            /\ Count(burst, t) \in Nat /\ Count(acc, t) \in Nat /\ Count(queue, t) \in Nat
            /\ TaskCopies(t) = In(t, taskPool) + Count(acc, t) + Count(queue, t) + Frames(t)
                                 + InHand(t) + OnDevice(t) + Count(burst, t)
            /\ In(t, taskPool) \in Nat
    OBVIOUS
  <1>1. InHand(t) \in Nat /\ In(t, taskPool) \in Nat
    BY DEF InHand, In
  <1> QED BY <1>1, TaskPlaces DEF TaskCopies, In

LEMMA UseNumbersNext ==
    (TypeInv => \A t \in Tasks :
        /\ Frames(t) \in Nat /\ InHand(t) \in Nat /\ OnDevice(t) \in Nat
        /\ Count(burst, t) \in Nat /\ Count(acc, t) \in Nat /\ Count(queue, t) \in Nat
        /\ TaskCopies(t) = In(t, taskPool) + Count(acc, t) + Count(queue, t) + Frames(t)
                             + InHand(t) + OnDevice(t) + Count(burst, t)
        /\ In(t, taskPool) \in Nat)'
  BY UseNumbers, PTL

\* A task comes into use only by leaving the queue.
LEMMA UseKept ==
    ASSUME TaskInv, [Next]_vars, NEW t \in Tasks, UNCHANGED <<taskPool, acc>>,
           Count(queue', t) >= Count(queue, t)
    PROVE  InUse(t)' => InUse(t)
  <1>1. TaskMoves(t) /\ TypeInv /\ TypeInv'
    BY StepMoves, StepTaskInv DEF TaskInv
  <1>2. TaskCopies(t)' <= TaskCopies(t)
    BY <1>1 DEF TaskMoves
  <1>3. /\ Frames(t) \in Nat /\ InHand(t) \in Nat /\ OnDevice(t) \in Nat
        /\ Count(burst, t) \in Nat /\ Count(acc, t) \in Nat /\ Count(queue, t) \in Nat
        /\ TaskCopies(t) = In(t, taskPool) + Count(acc, t) + Count(queue, t) + Frames(t)
                             + InHand(t) + OnDevice(t) + Count(burst, t)
        /\ In(t, taskPool) \in Nat
    BY <1>1, UseNumbers
  <1>4. /\ Frames(t)' \in Nat /\ InHand(t)' \in Nat /\ OnDevice(t)' \in Nat
        /\ Count(burst', t) \in Nat /\ Count(queue', t) \in Nat
        /\ TaskCopies(t)' = In(t, taskPool) + Count(acc, t) + Count(queue', t) + Frames(t)'
                              + InHand(t)' + OnDevice(t)' + Count(burst', t)
    BY <1>1, UseNumbersNext
  <1>5. Frames(t)' + InHand(t)' + OnDevice(t)' + Count(burst', t)
          <= Frames(t) + InHand(t) + OnDevice(t) + Count(burst, t)
    BY <1>2, <1>3, <1>4
  <1>6. CASE InUse(t)
    BY <1>6
  <1>7. CASE ~InUse(t)
    <2>1. InHand(t) = 0 /\ Frames(t) = 0 /\ OnDevice(t) = 0 /\ Count(burst, t) = 0
      BY <1>7 DEF InUse
    <2>2. InHand(t)' = 0 /\ Frames(t)' = 0 /\ OnDevice(t)' = 0 /\ Count(burst', t) = 0
      BY <1>4, <1>5, <2>1
    <2> QED BY <2>2 DEF InUse
  <1> QED BY <1>6, <1>7

\* A step that changes neither the batches of a task nor who has a tracker.
LEMMA TrackerKept ==
    ASSUME TrackerInv, dbFree' = dbFree, taskPool' = taskPool, acc' = acc,
           \A b \in Batches : batch'[b].db = batch[b].db,
           \A t \in Tasks : /\ task'[t].batches = task[t].batches
                            /\ task'[t].state = "PREPARED" => task[t].state = "PREPARED" \/ InUse(t)
                            /\ InUse(t)' => InUse(t),
           \A t \in Tasks : Members(t) \subseteq Batches
    PROVE  TrackerInv'
  <1>1. Held' = Held
    BY DEF Held
  <1>2. \A t \in Tasks : Members(t)' = Members(t)
    BY DEF Members
  <1>3. ASSUME NEW t \in Tasks PROVE TrackersOf(t)'
    <2>1. TrackersOf(t)
      BY DEF TrackerInv
    <2>2. (Tracked(t)' <=> Tracked(t)) /\ (Untracked(t)' <=> Untracked(t))
      BY <1>2 DEF Tracked, Untracked
    <2>3. Filling(t)' <=> Filling(t)
      BY DEF Filling
    <2>4. /\ InUse(t)' => InUse(t)
          /\ task'[t].state = "PREPARED" => task[t].state = "PREPARED" \/ InUse(t)
          /\ task'[t].batches = task[t].batches
      OBVIOUS
    <2> HIDE DEF Members
    <2> QED BY <2>1, <2>2, <2>3, <2>4 DEF TrackersOf
  <1>4. dbFree' + Cardinality(Held') = Cardinality(Batches)
    BY <1>1 DEF TrackerInv
  <1>5. \A b \in Held' : \E t \in Tasks : b \in Members(t)'
    BY <1>1, <1>2 DEF TrackerInv
  <1> QED BY <1>3, <1>4, <1>5 DEF TrackerInv

\* The steps that change trackers, the queue, or who fills a task.
LEMMA TrackerSteps ==
    ASSUME [Next]_vars
    PROVE  \/ UNCHANGED <<batch, dbFree, taskPool, acc, queue>>
           \/ GetBatch \/ (\E e \in Elems : ScanBatch(e))
           \/ (\E b \in Batches : DelayBatch(b) \/ ForwardBatch(b)) \/ DelayTask
           \/ (\E t \in Tasks : StartSend(t))
           \/ CompleteTask \/ \E b \in Batches, t \in Tasks : OffloadBatch(b, t)
  <1>1. CASE LoopRound \/ Wake \/ CompletionCb \/ CompletionDone \/ TerminateCb \/ CheckCb
             \/ FlushDone \/ ScanDone \/ ReceiveChunk \/ RunLoop \/ StopIoLoop \/ WaitBatch
             \/ AbandonChunk
    BY <1>1 DEF LoopRound, Wake, CompletionCb, CompletionDone, TerminateCb, CheckCb, AbandonChunk,
                FlushDone, ScanDone, ReceiveChunk, RunLoop, StopIoLoop, WaitBatch, dataVars
  <1>2. CASE AllocIoBase \/ WaitIoBase \/ DropTask \/ EnqueueInput \/ NotifyInput
    BY <1>2 DEF AllocIoBase, WaitIoBase, DropTask, EnqueueInput, NotifyInput, dataVars
  <1>3. CASE Signal \/ CoprocStep \/ (\E u \in Tasks : DeviceStep(u)) \/ UNCHANGED vars
    BY <1>3 DEF Signal, CoprocStep, DeviceStep, CoPoll, InputCb, InputRefeed, D2hCb, DoneCb,
                NotifyCompletion, CoTerminateCb, KernelFinishes, CopyFinishes,
                vars, dataVars, coCtl
  <1>4. CASE CompStep \/ PollTimer
    BY <1>1, <1>2, <1>4, CompCases
  <1> QED BY <1>3, <1>4 DEF Next

\* A batch moves through the queue, or a task comes back from a full ring.
LEMMA QueueKeepsTasks ==
    ASSUME TaskInv, NEW x \in Tasks,
           \/ GetBatch \/ (\E e \in Elems : ScanBatch(e))
           \/ (\E b \in Batches : DelayBatch(b) \/ ForwardBatch(b)) \/ DelayTask
    PROVE  Count(queue', x) >= Count(queue, x)
  <1>1. /\ TypeInv /\ Count(queue, x) \in Nat /\ queue \in Seq(Batches \cup Tasks)
        /\ finished \in [Elems -> Seq(Batches)] /\ pool \subseteq Batches
    BY TaskPlaces DEF TaskInv, TypeInv, DataTypes
  <1>2. ASSUME NEW b \in Batches, queue' = Append(queue, b)
        PROVE  Count(queue', x) >= Count(queue, x)
    <2>1. b \in Batches \cup Tasks
      OBVIOUS
    <2>2. Count(queue', x) = Count(queue, x) + One(b, x)
      BY <1>1, <1>2, <2>1, CountPushBack
    <2> QED BY <1>1, <2>2, NoBatchIsTask
  <1>3. ASSUME NEW b \in Batches, Flushing(b), queue' \in {Tail(queue), Append(Tail(queue), b)}
        PROVE  Count(queue', x) >= Count(queue, x)
    <2>1. /\ queue # <<>> /\ b = Head(queue) /\ Tail(queue) \in Seq(Batches \cup Tasks)
          /\ b \in Batches \cup Tasks
      BY <1>1, <1>3, PopFrontType DEF Flushing
    <2>2. Count(Tail(queue), x) = Count(queue, x) - One(b, x)
      BY <1>1, <2>1, CountPop
    <2>3. Count(Append(Tail(queue), b), x) = Count(Tail(queue), x) + One(b, x)
      BY <2>1, CountPushBack
    <2>4. /\ Count(Tail(queue), x) = Count(queue, x)
          /\ Count(Append(Tail(queue), b), x) = Count(queue, x)
      BY <1>1, <2>2, <2>3, NoBatchIsTask
    <2>5. Count(queue', x) = Count(queue, x)
      BY <1>3, <2>4
    <2> QED BY <1>1, <2>5
  <1>4. CASE GetBatch
    BY <1>1, <1>2, <1>4 DEF GetBatch
  <1>5. ASSUME NEW e \in Elems, ScanBatch(e) PROVE Count(queue', x) >= Count(queue, x)
    <2>1. Head(finished[e]) \in Batches /\ queue' = Append(queue, Head(finished[e]))
      BY <1>1, <1>5, PopFrontType DEF ScanBatch
    <2> QED BY <1>2, <2>1
  <1>6. ASSUME NEW b \in Batches, DelayBatch(b) PROVE Count(queue', x) >= Count(queue, x)
    BY <1>3, <1>6 DEF DelayBatch
  <1>7. ASSUME NEW b \in Batches, ForwardBatch(b) PROVE Count(queue', x) >= Count(queue, x)
    BY <1>3, <1>7 DEF ForwardBatch
  <1>8. CASE DelayTask
    <2>1. queue' = <<cur>> \o queue /\ cur \in Batches \cup Tasks
      BY <1>8, CurInHand DEF DelayTask
    <2>2. Count(queue', x) = Count(queue, x) + One(cur, x) /\ One(cur, x) \in {0, 1}
      BY <1>1, <2>1, CountPushFront, OneType
    <2> QED BY <1>1, <2>2
  <1> QED BY <1>4, <1>5, <1>6, <1>7, <1>8

\* The steps that leave the trackers where they are.
LEMMA QuietTracker ==
    ASSUME BatchInv, TrackerInv, [Next]_vars, ~CompleteTask,
           ~ \E b \in Batches, t \in Tasks : OffloadBatch(b, t),
           ~ \E t \in Tasks : StartSend(t)
    PROVE  TrackerInv'
  <1>1. /\ TaskInv /\ TypeInv /\ task \in [Tasks -> TaskType] /\ pool \subseteq Batches
        /\ batch \in [Batches -> BatchType] /\ finished \in [Elems -> Seq(Batches)]
    BY DEF BatchInv, TaskInv, TypeInv, DataTypes
  <1>2. dbFree' = dbFree /\ taskPool' = taskPool /\ acc' = acc
    <2>1. CASE \/ GetBatch \/ (\E e \in Elems : ScanBatch(e))
               \/ (\E b \in Batches : DelayBatch(b) \/ ForwardBatch(b)) \/ DelayTask
      BY <2>1 DEF GetBatch, ScanBatch, DelayBatch, ForwardBatch, DelayTask
    <2> QED BY <2>1, TrackerSteps
  <1>3. ASSUME NEW b \in Batches PROVE batch'[b].db = batch[b].db
    <2>1. CASE UNCHANGED <<batch, dbFree, taskPool, acc, queue>>
      BY <2>1
    <2>2. CASE GetBatch
      <3>1. PICK c \in pool, d \in BOOLEAN :
               batch' = [batch EXCEPT ![c] = [FreshBatch EXCEPT !.dev = d]]
        BY <2>2 DEF GetBatch
      <3>2. c \in Batches /\ ~batch[c].db
        <4>1. c \in Batches
          BY <1>1
        <4> QED BY <4>1, MemberPlaces DEF TrackerInv, Held
      <3>3. CASE b = c
        BY <1>1, <3>1, <3>2, <3>3 DEF FreshBatch, BatchType
      <3>4. CASE b # c
        BY <1>1, <3>1, <3>4
      <3> QED BY <3>3, <3>4
    <2>3. ASSUME NEW e \in Elems, ScanBatch(e) PROVE batch'[b].db = batch[b].db
      BY <1>1, <2>3, PopFrontType DEF ScanBatch, BatchType
    <2>4. ASSUME NEW c \in Batches, DelayBatch(c) PROVE batch'[b].db = batch[b].db
      BY <2>4 DEF DelayBatch
    <2>5. ASSUME NEW c \in Batches, ForwardBatch(c) PROVE batch'[b].db = batch[b].db
      <3>1. \/ batch' = [batch EXCEPT ![c] = [FreshBatch EXCEPT !.db = batch[c].db]]
            \/ batch' = [batch EXCEPT ![c].elem = @ + 1, ![c].has = FALSE]
        BY <2>5 DEF ForwardBatch
      <3> QED BY <1>1, <3>1 DEF FreshBatch, BatchType
    <2>6. CASE DelayTask
      BY <2>6 DEF DelayTask
    <2> QED BY <2>1, <2>2, <2>3, <2>4, <2>5, <2>6, TrackerSteps
  <1>4. ASSUME NEW t \in Tasks
        PROVE  /\ task'[t].batches = task[t].batches
               /\ task'[t].state = "PREPARED" => task[t].state = "PREPARED" \/ InUse(t)
               /\ InUse(t)' => InUse(t)
    <2>1. task'[t].batches = task[t].batches
      <3>1. TaskBatches' = TaskBatches
        BY <1>1, TaskBatchesKept
      <3>2. TaskBatches'[t] = task'[t].batches /\ TaskBatches[t] = task[t].batches
        BY DEF TaskBatches
      <3> QED BY <3>1, <3>2
    <2>2. InUse(t)' => InUse(t)
      <3>1. Count(queue', t) >= Count(queue, t)
        <4>1. CASE UNCHANGED <<batch, dbFree, taskPool, acc, queue>>
          BY <1>1, <4>1, TaskPlaces
        <4> QED BY <1>1, <4>1, QueueKeepsTasks, TrackerSteps
      <3> QED BY <1>1, <1>2, <3>1, UseKept
    <2>3. task'[t].state = "PREPARED" => task[t].state = "PREPARED" \/ InUse(t)
      <3>1. CASE task' = task
        BY <3>1
      <3>2. CASE AllocIoBase
        <4>1. cur \in Tasks /\ InHand(cur) = 1
          BY <1>1, <3>2, CurInHand DEF AllocIoBase
        <4>2. CASE t = cur
          BY <4>1, <4>2 DEF InUse
        <4>3. CASE t # cur
          BY <1>1, <3>2, <4>3 DEF AllocIoBase
        <4> QED BY <4>2, <4>3
      <3>3. ASSUME NEW u, NEW st \in {"EXECUTING", "H2D_COPYING", "D2H_COPYING", "FINISHED"},
                   task' = [task EXCEPT ![u].state = st]
            PROVE  task'[t].state = "PREPARED" => task[t].state = "PREPARED"
        <4>1. CASE t = u
          BY <1>1, <3>3, <4>1 DEF TaskType
        <4>2. CASE t # u
          BY <1>1, <3>3, <4>2
        <4> QED BY <4>1, <4>2
      <3>4. CASE InputCb \/ D2hCb \/ DoneCb
        <4>1. \/ task' = task
              \/ task' = [task EXCEPT ![Head(inRing)].state = "EXECUTING"]
              \/ task' = [task EXCEPT ![Head(inRing)].state = "H2D_COPYING"]
              \/ task' = [task EXCEPT ![Head(d2hQ)].state = "D2H_COPYING"]
              \/ task' = [task EXCEPT ![Head(doneQ)].state = "FINISHED"]
          BY <3>4 DEF InputCb, D2hCb, DoneCb
        <4> QED BY <3>1, <3>3, <4>1
      <3> QED BY <3>1, <3>2, <3>4, TaskSteps
    <2> QED BY <2>1, <2>2, <2>3
  <1>5. \A t \in Tasks : Members(t) \subseteq Batches
    BY MembersOf
  <1> QED BY <1>2, <1>3, <1>4, <1>5, TrackerKept

\* A task that starts for the first time takes a tracker for each of its
\* batches; whether it does is decided on the first one.
LEMMA StartTracker ==
    ASSUME BatchInv, TrackerInv, NEW t \in Tasks, StartSend(t), [Next]_vars
    PROVE  TrackerInv'
  <1> DEFINE bs == task[t].batches
  <1>1. /\ TaskInv /\ TypeInv /\ task \in [Tasks -> TaskType] /\ dbFree \in Int
        /\ batch \in [Batches -> BatchType] /\ queue \in Seq(Batches \cup Tasks)
    BY DEF BatchInv, TaskInv, TypeInv, DataTypes
  <1>2. /\ queue # <<>> /\ t = Head(queue) /\ queue' = Tail(queue)
        /\ UNCHANGED <<taskPool, acc, task>> /\ pc = "flush"
    BY DEF StartSend, Flushing
  <1>3. /\ bs \in Seq(Batches) /\ Members(t) \subseteq Batches
        /\ IsFiniteSet(Members(t)) /\ Cardinality(Members(t)) = Len(bs)
    BY MembersOf
  <1>4. Count(queue, t) # 0
    <2>1. queue[1] = t /\ 1 \in 1..Len(queue)
      BY <1>1, <1>2, HeadTailProperties, EmptySeq, LenProperties
    <2> QED BY <1>1, <2>1, CountPositive
  <1>5. ~Filling(t) /\ t \notin taskPool
    <2>1. t \notin taskPool
      BY <1>1, <1>4, OnePlace DEF Elsewhere
    <2>2. /\ Count(acc, t) \in Nat /\ Count(queue, t) \in Nat
          /\ Count(burst, t) \in Nat /\ Frames(t) \in Nat /\ InHand(t) \in {0, 1}
          /\ OnDevice(t) \in Nat
      BY <1>1, TaskPlaces
    <2>3. TaskCopies(t) <= 1
      BY <1>1 DEF TaskInv, TaskConservation
    <2>4. Count(acc, t) = 0
      BY <1>4, <2>2, <2>3 DEF TaskCopies
    <2> QED BY <2>1, <2>4 DEF Filling
  <1>6. bs # <<>> /\ bs[1] \in Members(t)
    <2>1. bs # <<>>
      BY <1>5 DEF TrackerInv, TrackersOf
    <2>2. 1 \in DOMAIN bs
      BY <1>3, <2>1, EmptySeq, LenProperties
    <2> QED BY <2>1, <2>2 DEF Members
  \* The other tasks.
  <1>7. ASSUME NEW u \in Tasks, u # t PROVE InUse(u)' => InUse(u)
    <2>1. Count(queue', u) = Count(queue, u) - One(t, u)
      BY <1>1, <1>2, CountPop
    <2>2. One(t, u) = 0 /\ Count(queue, u) \in Nat
      BY <1>1, <1>7, TaskPlaces DEF One
    <2>3. Count(queue', u) >= Count(queue, u)
      BY <2>1, <2>2
    <2> QED BY <1>1, <1>2, <2>3, UseKept
  <1>8. \A u \in Tasks : Members(u)' = Members(u) /\ (Filling(u)' <=> Filling(u))
    BY <1>2 DEF Members, Filling
  <1>9. CASE task[t].state # "PREPARED" /\ NeedsTrackers(t)
    <2>1. /\ batch' = [b \in Batches |->
                          IF b \in Members(t) THEN [batch[b] EXCEPT !.db = TRUE] ELSE batch[b]]
          /\ dbFree' = dbFree - Len(bs)
      BY <1>9 DEF StartSend, Members
    <2>2. \A b \in Members(t) : b \in Batches /\ ~batch[b].db
      <3>1. ~Tracked(t)
        BY <1>6, <1>9 DEF NeedsTrackers, Tracked
      <3>2. Untracked(t)
        BY <3>1 DEF TrackerInv, TrackersOf
      <3> QED BY <1>3, <3>2 DEF Untracked
    <2>3. \A b \in Batches : batch'[b].db <=> batch[b].db \/ b \in Members(t)
      <3> TAKE b \in Batches
      <3>1. CASE b \in Members(t)
        BY <1>1, <2>1, <3>1 DEF BatchType
      <3>2. CASE b \notin Members(t)
        BY <2>1, <3>2
      <3> QED BY <3>1, <3>2
    <2> HIDE DEF bs, Members
    <2>4. Held' = Held \cup Members(t) /\ Held \cap Members(t) = {}
      BY <1>3, <2>2, <2>3 DEF Held
    <2>5. Cardinality(Held') = Cardinality(Held) + Cardinality(Members(t))
      BY <1>3, <2>4, HeldFinite, Parts
    <2>6. Len(bs) \in Nat
      BY <1>3, LenProperties
    <2>7. dbFree' + Cardinality(Held') = Cardinality(Batches)
      BY <1>1, <1>3, <2>1, <2>5, <2>6, HeldFinite DEF TrackerInv
    <2>8. \A b \in Held' : \E u \in Tasks : b \in Members(u)'
      BY <1>8, <2>4 DEF TrackerInv
    <2>9. ASSUME NEW u \in Tasks PROVE TrackersOf(u)'
      <3>1. CASE u = t
        <4>1. Tracked(t)'
          BY <1>3, <1>8, <2>3 DEF Tracked
        <4> QED BY <1>2, <1>5, <1>6, <1>8, <3>1, <4>1 DEF TrackersOf, bs
      <3>2. CASE u # t
        <4>1. \A b \in Members(u) : b \in Batches /\ b \notin Members(t)
          BY <3>2, MemberPlaces
        <4>2. (Tracked(u)' <=> Tracked(u)) /\ (Untracked(u)' <=> Untracked(u))
          BY <1>8, <2>3, <4>1 DEF Tracked, Untracked
        <4>3. TrackersOf(u) /\ (InUse(u)' => InUse(u)) /\ (Filling(u)' <=> Filling(u))
          BY <1>7, <1>8, <3>2 DEF TrackerInv
        <4>4. task' = task /\ taskPool' = taskPool
          BY <1>2
        <4> QED BY <4>2, <4>3, <4>4 DEF TrackersOf
      <3> QED BY <3>1, <3>2
    <2> QED BY <2>7, <2>8, <2>9 DEF TrackerInv
  <1>10. CASE ~(task[t].state # "PREPARED" /\ NeedsTrackers(t))
    <2>1. batch' = batch /\ dbFree' = dbFree
      BY <1>10 DEF StartSend
    <2>2. Tracked(t)
      <3>1. CASE task[t].state = "PREPARED"
        BY <3>1 DEF TrackerInv, TrackersOf
      <3>2. CASE ~NeedsTrackers(t)
        <4>1. ~Untracked(t)
          BY <1>6, <3>2 DEF NeedsTrackers, Untracked
        <4> QED BY <4>1 DEF TrackerInv, TrackersOf
      <3> QED BY <1>10, <3>1, <3>2
    <2> HIDE DEF bs, Members
    <2>3. Held' = Held
      BY <2>1 DEF Held
    <2>4. dbFree' + Cardinality(Held') = Cardinality(Batches)
      BY <2>1, <2>3 DEF TrackerInv
    <2>5. \A b \in Held' : \E u \in Tasks : b \in Members(u)'
      BY <1>8, <2>3 DEF TrackerInv
    <2>6. ASSUME NEW u \in Tasks PROVE TrackersOf(u)'
      <3>1. (Tracked(u)' <=> Tracked(u)) /\ (Untracked(u)' <=> Untracked(u))
        BY <1>8, <2>1 DEF Tracked, Untracked
      <3>2. TrackersOf(u) /\ (Filling(u)' <=> Filling(u)) /\ task' = task /\ taskPool' = taskPool
        BY <1>2, <1>8 DEF TrackerInv
      <3>3. CASE u = t
        BY <2>2, <3>1, <3>2, <3>3 DEF TrackersOf
      <3>4. CASE u # t
        <4>1. InUse(u)' => InUse(u)
          BY <1>7, <3>4
        <4> QED BY <3>1, <3>2, <4>1 DEF TrackersOf
      <3> QED BY <3>3, <3>4
    <2> QED BY <2>4, <2>5, <2>6 DEF TrackerInv
  <1> QED BY <1>9, <1>10

\* A batch joins a task that has not been started.
LEMMA OffloadTracker ==
    ASSUME BatchInv, TrackerInv, NEW b \in Batches, NEW t \in Tasks, OffloadBatch(b, t)
    PROVE  TrackerInv'
  <1> DEFINE e == batch[b].elem
             bs == Append(task[t].batches, b)
  <1>1. /\ TaskInv /\ TypeInv /\ task \in [Tasks -> TaskType]
        /\ queue \in Seq(Batches \cup Tasks) /\ acc \in [Elems -> Tasks \cup {NoTask}]
    BY DEF BatchInv, TaskInv, TypeInv, DataTypes
  <1>2. /\ queue # <<>> /\ b = Head(queue) /\ e \in Elems
        /\ IF acc[e] = NoTask THEN t \in taskPool ELSE t = acc[e]
        /\ taskPool' = taskPool \ {t}
        /\ acc' \in {[acc EXCEPT ![e] = NoTask], [acc EXCEPT ![e] = t]}
        /\ UNCHANGED <<batch, dbFree, stack, burst, pc, cur, inRing, d2hQ, doneQ, compRing>>
    BY ChainAssumption
    DEF OffloadBatch, Flushing, ShouldOffload, ctlVars, ringVars, coVars
  <1>3. /\ task'[t].batches = bs /\ task'[t].state # "PREPARED"
        /\ \A u \in Tasks \ {t} : task'[u] = task[u]
    BY <1>1 DEF OffloadBatch, TaskType
  <1>4. /\ task[t].batches \in Seq(Batches) /\ bs # <<>>
        /\ {bs[i] : i \in DOMAIN bs} = Members(t) \cup {b}
    <2>1. PICK n \in Nat : /\ task[t].batches \in Seq(Batches)
                           /\ n = Len(task[t].batches) /\ DOMAIN task[t].batches = 1..n
      BY MembersOf, LenProperties
    <2>2. /\ DOMAIN bs = 1..(n + 1) /\ bs[n + 1] = b
          /\ \A i \in 1..n : bs[i] = task[t].batches[i]
      BY <2>1
    <2>3. n + 1 \in 1..(n + 1) /\ \A i \in 1..(n + 1) : i \in 1..n \/ i = n + 1
      BY <2>1
    <2> HIDE DEF bs
    <2>4. bs # <<>>
      BY <2>2, <2>3
    <2>5. {bs[i] : i \in DOMAIN bs} = Members(t) \cup {b}
      BY <2>1, <2>2, <2>3 DEF Members
    <2> QED BY <2>1, <2>4, <2>5
  \* The batch has no tracker, nor have those it joins.
  <1>5. \A u \in Tasks : b \notin Members(u)
    <2>1. queue[1] = b /\ 1 \in 1..Len(queue)
      BY <1>1, <1>2, HeadTailProperties, EmptySeq, LenProperties
    <2>2. Count(queue, b) # 0
      BY <1>1, <2>1, CountPositive
    <2> QED BY <2>2, MemberPlaces
  <1>6. ~batch[b].db
    BY <1>5 DEF TrackerInv, Held
  <1>7. acc \in Seq(Tasks \cup {NoTask}) /\ Len(acc) = NElems
    BY <1>1, ChainAssumption DEF Elems
  <1>8. Filling(t)
    <2>1. CASE t \in taskPool
      BY <2>1 DEF Filling
    <2>2. CASE t = acc[e]
      <3>1. e \in 1..Len(acc)
        BY <1>2, <1>7 DEF Elems
      <3>2. Count(acc, t) # 0
        BY <1>7, <2>2, <3>1, CountPositive
      <3> QED BY <3>2 DEF Filling
    <2> QED BY <1>2, <2>1, <2>2
  <1>9. ~InUse(t)
    <2>1. /\ Count(acc, t) \in Nat /\ Count(queue, t) \in Nat
          /\ Count(burst, t) \in Nat /\ Frames(t) \in Nat /\ InHand(t) \in {0, 1}
          /\ OnDevice(t) \in Nat
      BY <1>1, TaskPlaces
    <2>2. TaskCopies(t) <= 1
      BY <1>1 DEF TaskInv, TaskConservation
    <2>3. InHand(t) = 0 /\ Frames(t) = 0 /\ OnDevice(t) = 0 /\ Count(burst, t) = 0
      BY <1>8, <2>1, <2>2 DEF TaskCopies, Filling
    <2> QED BY <2>3 DEF InUse
  <1>10. \A u \in Tasks : InUse(u)' <=> InUse(u)
    BY <1>2 DEF InUse, InHand, Frames, OnDevice
  <1>11. ASSUME NEW u \in Tasks, u # t PROVE Filling(u)' => Filling(u)
    <2>1. SUFFICES ASSUME Count(acc', u) # 0 PROVE Count(acc, u) # 0
      BY <1>2, <1>11 DEF Filling
    <2>2. acc' \in Seq(Tasks \cup {NoTask}) /\ Len(acc') = NElems
      <3>1. acc' \in [Elems -> Tasks \cup {NoTask}]
        BY <1>1, <1>2
      <3> QED BY <3>1, ChainAssumption DEF Elems
    <2>3. PICK f \in 1..Len(acc') : acc'[f] = u
      BY <2>1, <2>2, CountPositive
    <2>4. f \in Elems /\ f \in 1..Len(acc)
      BY <1>7, <2>2 DEF Elems
    <2>5. f # e
      BY <1>1, <1>2, <1>11, <2>3, <2>4, PoolAssumption
    <2>6. acc[f] = u
      BY <1>1, <1>2, <2>3, <2>4, <2>5
    <2> QED BY <1>7, <2>4, <2>6, CountPositive
  <1> HIDE DEF e, bs
  <1>12. /\ Members(t)' = Members(t) \cup {b}
         /\ \A u \in Tasks \ {t} : Members(u)' = Members(u)
    BY <1>3, <1>4 DEF Members
  <1> HIDE DEF Members
  <1>13. Held' = Held
    BY <1>2 DEF Held
  <1>14. dbFree' + Cardinality(Held') = Cardinality(Batches)
    BY <1>2, <1>13 DEF TrackerInv
  <1>15. \A c \in Held' : \E u \in Tasks : c \in Members(u)'
    BY <1>12, <1>13 DEF TrackerInv
  <1>16. ASSUME NEW u \in Tasks PROVE TrackersOf(u)'
    <2>1. CASE u = t
      <3>1. Untracked(t)
        BY <1>8 DEF TrackerInv, TrackersOf
      <3>2. Untracked(t)'
        BY <1>2, <1>6, <1>12, <3>1 DEF Untracked
      <3> QED BY <1>3, <1>4, <1>9, <1>10, <2>1, <3>2 DEF TrackersOf
    <2>2. CASE u # t
      <3>1. (Tracked(u)' <=> Tracked(u)) /\ (Untracked(u)' <=> Untracked(u))
        BY <1>2, <1>12, <2>2 DEF Tracked, Untracked
      <3>2. /\ TrackersOf(u) /\ task'[u] = task[u] /\ (u \notin taskPool' => u \notin taskPool)
            /\ (Filling(u)' => Filling(u))
        BY <1>2, <1>3, <1>11, <2>2 DEF TrackerInv
      <3> QED BY <1>10, <3>1, <3>2 DEF TrackersOf
    <2> QED BY <2>1, <2>2
  <1> QED BY <1>14, <1>15, <1>16 DEF TrackerInv

\* A completed task gives the trackers back where its run of elements ends,
\* and keeps them where the next element reuses it.
LEMMA CompleteTracker ==
    ASSUME BatchInv, IoInv, TrackerInv, CompleteTask
    PROVE  TrackerInv'
  <1>0. PICK t \in Tasks : t = Head(burst)
    BY HeadOfBurst DEF BatchInv, CompleteTask
  <1> DEFINE e == task[t].elem
  <1>1. /\ TaskInv /\ TypeInv /\ task \in [Tasks -> TaskType] /\ dbFree \in Int
        /\ batch \in [Batches -> BatchType] /\ burst \in Seq(Tasks)
    BY DEF BatchInv, TaskInv, TypeInv, DataTypes, ControlTypes
  <1>2. burst # <<>> /\ burst' = Tail(burst) /\ t \in Tasks /\ Count(burst, t) # 0
    BY <1>0, <1>1, HeadOfBurst DEF CompleteTask
  <1>3. t \notin taskPool /\ InUse(t) /\ Tracked(t) /\ Count(acc, t) = 0
    <2>1. t \notin taskPool /\ Count(acc, t) = 0
      BY <1>1, <1>2, OnePlace DEF Elsewhere
    <2>2. InUse(t)
      BY <1>2 DEF InUse
    <2> QED BY <1>2, <2>1, <2>2 DEF TrackerInv, TrackersOf
  <1>4. e \in Offloadable
    BY <1>2, <1>3 DEF IoInv, HasIo
  <1>5. ASSUME NEW u \in Tasks PROVE InUse(u)' => InUse(u)
    <2>1. UNCHANGED <<stack, pc, cur, inRing, d2hQ, doneQ, compRing>>
      BY DEF CompleteTask, ringVars
    <2>2. InHand(u)' = InHand(u) /\ Frames(u)' = Frames(u) /\ OnDevice(u)' = OnDevice(u)
      BY <2>1 DEF InHand, Frames, OnDevice
    <2>3. Count(burst', u) = Count(burst, u) - One(t, u)
      BY <1>0, <1>1, <1>2, CountPop
    <2>4. One(t, u) \in {0, 1} /\ Count(burst, u) \in Nat /\ Count(burst', u) \in Nat
      <3>1. burst' \in Seq(Tasks)
        BY <1>1, <1>2, PopFrontType
      <3> QED BY <1>1, <3>1, OneType, CountType
    <2>5. Count(burst', u) # 0 => Count(burst, u) # 0
      BY <2>3, <2>4
    <2> QED BY <2>2, <2>5 DEF InUse
  <1>6. acc' = acc
    BY DEF CompleteTask
  <1>7. CASE NextOffloadable(e)
    <2>1. /\ UNCHANGED <<batch, dbFree, taskPool>>
          /\ task' = [task EXCEPT ![t].state = "INITIALIZED", ![t].elem = e + 1]
      BY <1>0, <1>4, <1>7, ChainAssumption DEF CompleteTask, PostprocAll, NextOffloadable
    <2>2. \A u \in Tasks : /\ task'[u].batches = task[u].batches
                           /\ task'[u].state = "PREPARED" => task[u].state = "PREPARED"
      BY <1>1, <2>1 DEF TaskType
    <2>3. \A u \in Tasks : Members(u) \subseteq Batches
      BY MembersOf
    <2> QED BY <1>5, <1>6, <2>1, <2>2, <2>3, TrackerKept
  <1>8. CASE ~NextOffloadable(e)
    <2> DEFINE held == {b \in Members(t) : batch[b].db}
    <2>1. e \in Fin
      BY <1>4, <1>8, ChainAssumption DEF NextOffloadable
    <2>2. /\ batch' = [b \in Batches |->
                          IF b \in held THEN [batch[b] EXCEPT !.db = FALSE] ELSE batch[b]]
          /\ dbFree' = dbFree + Cardinality(held)
          /\ taskPool' = taskPool \cup {t} /\ task' = [task EXCEPT ![t] = FreshTask]
      BY <1>0, <1>8, <2>1 DEF CompleteTask, PostprocAll, Members
    <2>3. held = Members(t) /\ Members(t) \subseteq Held
      BY <1>2, <1>3, MembersOf DEF Tracked, Held
    <2>4. IsFiniteSet(Members(t)) /\ Cardinality(Members(t)) \in Nat
      BY <1>2, MembersOf, FS_CardinalityType
    <2>5. \A b \in Batches : batch'[b].db <=> batch[b].db /\ b \notin Members(t)
      <3> TAKE b \in Batches
      <3> HIDE DEF held, Members
      <3>1. CASE b \in Members(t)
        BY <1>1, <2>2, <2>3, <3>1 DEF BatchType
      <3>2. CASE b \notin Members(t)
        BY <2>2, <2>3, <3>2
      <3> QED BY <3>1, <3>2
    <2>6. /\ Members(t)' = {} /\ task'[t].batches = <<>> /\ t \in taskPool'
          /\ \A u \in Tasks \ {t} : task'[u] = task[u] /\ Members(u)' = Members(u)
      <3>1. /\ task'[t] = FreshTask /\ \A u \in Tasks \ {t} : task'[u] = task[u]
        BY <1>1, <1>2, <2>2
      <3> QED BY <2>2, <3>1 DEF Members, FreshTask
    <2> HIDE DEF held, Members, e
    <2>7. Held' = Held \ Members(t)
      BY <2>5 DEF Held
    <2>8. Cardinality(Held) = Cardinality(Held') + Cardinality(Members(t))
      <3>1. Held = Held' \cup Members(t) /\ Held' \cap Members(t) = {}
        BY <2>3, <2>7
      <3>2. IsFiniteSet(Held')
        BY <2>7, HeldFinite, FS_Subset
      <3> QED BY <2>4, <3>1, <3>2, Parts
    <2>9. Cardinality(Held') \in Nat
      BY <2>7, HeldFinite, FS_Subset, FS_CardinalityType
    <2>10. dbFree' + Cardinality(Held') = Cardinality(Batches)
      BY <1>1, <2>2, <2>3, <2>4, <2>8, <2>9 DEF TrackerInv
    <2>11. \A c \in Held' : \E u \in Tasks : c \in Members(u)'
      <3> SUFFICES ASSUME NEW c \in Held' PROVE \E u \in Tasks : c \in Members(u)'
        OBVIOUS
      <3>1. c \in Held /\ c \notin Members(t)
        BY <2>7
      <3>2. PICK u \in Tasks : c \in Members(u)
        BY <3>1 DEF TrackerInv
      <3> QED BY <2>6, <3>1, <3>2
    <2>12. ASSUME NEW u \in Tasks PROVE TrackersOf(u)'
      <3>1. CASE u = t
        <4>1. Tracked(t)' /\ Untracked(t)'
          BY <2>6 DEF Tracked, Untracked
        <4> QED BY <2>6, <3>1, <4>1 DEF TrackersOf
      <3>2. CASE u # t
        <4>1. \A b \in Members(u) : b \in Batches /\ b \notin Members(t)
          BY <1>2, <3>2, MemberPlaces
        <4>2. (Tracked(u)' <=> Tracked(u)) /\ (Untracked(u)' <=> Untracked(u))
          BY <2>5, <2>6, <3>2, <4>1 DEF Tracked, Untracked
        <4>3. /\ TrackersOf(u) /\ task'[u] = task[u] /\ (u \notin taskPool' => u \notin taskPool)
              /\ (Filling(u)' <=> Filling(u)) /\ (InUse(u)' => InUse(u))
          BY <1>5, <1>6, <2>2, <2>6, <3>2 DEF TrackerInv, Filling
        <4> QED BY <4>2, <4>3 DEF TrackersOf
      <3> QED BY <3>1, <3>2
    <2> QED BY <2>10, <2>11, <2>12 DEF TrackerInv
  <1> QED BY <1>7, <1>8

DataInv == BatchInv /\ IoInv /\ TrackerInv

LEMMA StepDataInv == DataInv /\ [Next]_vars => DataInv'
  <1> SUFFICES ASSUME DataInv, [Next]_vars PROVE DataInv'
    OBVIOUS
  <1>1. BatchInv /\ IoInv /\ TrackerInv /\ TaskInv
    BY DEF DataInv, BatchInv
  <1>2. BatchInv' /\ IoInv'
    BY <1>1, StepBatchInv, StepIoInv
  <1>3. TrackerInv'
    BY <1>1, QuietTracker, StartTracker, OffloadTracker, CompleteTracker
  <1> QED BY <1>2, <1>3 DEF DataInv

LEMMA SpecDataInv == Spec => []DataInv
  <1>1. Init => DataInv
    BY InitBatchInv, InitIoInv, InitTrackerInv DEF DataInv
  <1> QED BY <1>1, StepDataInv, PTL DEF Spec

\* The entries of dbstate_pool are accounted for: a batch in the pool has given
\* its tracker back, and every batch of a task on the device side has one,
\* though start and release of a task look at its first batch or its element only.
THEOREM TrackersAccounted == Spec => []TrackerAccounting
  <1>1. DataInv => TrackerAccounting
    BY TrackerInvImplies DEF DataInv
  <1> QED BY <1>1, SpecDataInv, PTL

-----------------------------------------------------------------------------
(* The assertion of notify_completion().  A task on its way through the      *)
(* device side has an io_base of its own, so there are never more of them    *)
(* than io_bases, and the completion ring is as long as those.               *)

LEMMA RoomForCompletion ==
    ASSUME TaskInv, IoInv, doneQ # <<>>
    PROVE  Len(compRing) < CompQCap
  <1>1. /\ TypeInv /\ compRing \in Seq(Tasks) /\ doneQ \in Seq(Tasks)
        /\ task \in [Tasks -> TaskType]
    BY DEF TaskInv, TypeInv, RingTypes, CoprocTypes, DataTypes
  <1>2. PICK t \in Tasks : t = Head(doneQ) /\ Count(doneQ, t) # 0
    <2>1. Head(doneQ) \in Tasks /\ doneQ[1] = Head(doneQ) /\ 1 \in 1..Len(doneQ)
      BY <1>1, HeadTailProperties, EmptySeq, LenProperties
    <2> QED BY <1>1, <2>1, CountPositive
  <1> DEFINE s == Append(compRing, t)
  <1>3. s \in Seq(Tasks) /\ Len(s) = Len(compRing) + 1
    BY <1>1
  \* The tasks in the ring, and the one to come, are different ones.
  <1>4. ASSUME NEW x \in Tasks
        PROVE  /\ Count(s, x) <= 1
               /\ Count(s, x) # 0 => OnDevice(x) # 0
    <2>1. Count(s, x) = Count(compRing, x) + One(t, x)
      BY <1>1, CountPushBack
    <2>2. OnDevice(x) = Count(inRing, x) + Count(d2hQ, x) + Count(doneQ, x) + Count(compRing, x)
      BY DEF OnDevice
    <2>3. /\ Count(inRing, x) \in Nat /\ Count(d2hQ, x) \in Nat
          /\ Count(doneQ, x) \in Nat /\ Count(compRing, x) \in Nat
      BY <1>1, TaskPlaces
    <2>4. OnDevice(x) \in {0, 1}
      BY OnePlace DEF Elsewhere
    <2>5. One(t, x) \in {0, 1} /\ One(t, x) <= Count(doneQ, x)
      <3>1. CASE x = t
        BY <1>2, <2>3, <3>1 DEF One
      <3>2. CASE x # t
        BY <2>3, <3>2 DEF One
      <3> QED BY <3>1, <3>2
    <2> QED BY <2>1, <2>2, <2>3, <2>4, <2>5
  <1>5. PICK n \in Nat : n = Len(s) /\ DOMAIN s = 1..n
    BY <1>3, LenProperties
  <1> HIDE DEF s
  <1>6. ASSUME NEW i \in 1..n PROVE s[i] \in Tasks /\ task[s[i]].io \in IoBases
    <2>1. s[i] \in Tasks /\ Count(s, s[i]) # 0
      BY <1>3, <1>5, <1>6, ElementOfSeq, CountPositive
    <2>2. OnDevice(s[i]) # 0
      BY <1>4, <2>1
    <2>3. task[s[i]].io # NoIo
      BY <2>1, <2>2 DEF IoInv, HasIo, TookIo
    <2> QED BY <1>1, <2>1, <2>3 DEF TaskType
  <1>7. ASSUME NEW i \in 1..n, NEW j \in 1..n, task[s[i]].io = task[s[j]].io
        PROVE  i = j
    <2>1. /\ s[i] \in Tasks /\ s[j] \in Tasks /\ task[s[i]].io \in IoBases
      BY <1>6
    <2>2. /\ Count(TaskIo, task[s[i]].io) <= 1 /\ Count(TaskIo, task[s[i]].io) \in Nat
      <3>1. Count(ioFree, task[s[i]].io) + Count(TaskIo, task[s[i]].io) = 1
        BY <2>1 DEF IoInv, IoBaseOwnership
      <3>2. Count(ioFree, task[s[i]].io) \in Nat
        BY CountType DEF IoInv
      <3>3. Count(TaskIo, task[s[i]].io) \in Nat
        <4>1. IsFiniteSet(Tasks)
          BY PoolAssumption
        <4>2. {u \in DOMAIN TaskIo : TaskIo[u] = task[s[i]].io} \in SUBSET Tasks
          BY DEF TaskIo
        <4> QED BY <4>1, <4>2, FS_Subset, FS_CardinalityType DEF Count
      <3> QED BY <3>1, <3>2, <3>3
    <2>3. s[i] = s[j]
      <3> DEFINE A == {u \in Tasks : task[u].io = task[s[i]].io}
      <3>1. Count(TaskIo, task[s[i]].io) = Cardinality(A)
        <4>1. {u \in DOMAIN TaskIo : TaskIo[u] = task[s[i]].io} = A
          BY DEF TaskIo
        <4> QED BY <4>1 DEF Count
      <3>2. IsFiniteSet(A)
        BY PoolAssumption, FS_Subset
      <3>3. s[i] \in A /\ s[j] \in A
        BY <1>7, <2>1
      <3> HIDE DEF A
      <3>4. Cardinality(A) = 1
        BY <2>2, <3>1, <3>2, <3>3, FS_EmptySet
      <3>5. PICK u : A = {u}
        BY <3>2, <3>4, FS_Singleton
      <3> QED BY <3>3, <3>5
    <2> QED BY <1>3, <1>4, <1>5, <2>1, <2>3, CountUnique
  <1> DEFINE f == [i \in 1..n |-> task[s[i]].io]
  <1>8. f \in Injection(1..n, IoBases)
    BY <1>6, <1>7 DEF Injection, IsInjective
  <1> HIDE DEF f
  <1>9. IsFiniteSet(1..n) /\ Cardinality(1..n) = n
    BY FS_Interval
  <1>10. n <= Cardinality(IoBases)
    BY <1>8, <1>9, PoolAssumption, FS_Injection
  <1>11. Cardinality(IoBases) \in Nat
    BY PoolAssumption, FS_CardinalityType
  <1> QED BY <1>1, <1>3, <1>5, <1>10, <1>11, PoolAssumption, LenProperties

Running == coPc # "aborted"

LEMMA StepNotAborted ==
    ASSUME DataInv, coPc # "aborted", [Next]_vars
    PROVE  coPc' # "aborted"
  <1>1. TaskInv /\ IoInv
    BY DEF DataInv, BatchInv
  <1>2. CASE DoneCb
    <2>1. doneQ # <<>>
      BY <1>2 DEF DoneCb
    <2>2. Len(compRing) < CompQCap
      BY <1>1, <2>1, RoomForCompletion
    <2> QED BY <1>2, <2>2 DEF DoneCb
  <1>3. CASE CoPoll \/ InputCb \/ InputRefeed \/ D2hCb \/ NotifyCompletion \/ CoTerminateCb
    BY <1>3 DEF CoPoll, InputCb, InputRefeed, D2hCb, NotifyCompletion, CoTerminateCb
  <1>4. CASE Signal \/ (\E t \in Tasks : DeviceStep(t)) \/ UNCHANGED vars
    BY <1>4 DEF Signal, DeviceStep, KernelFinishes, CopyFinishes, vars, coVars
  <1>5. CASE CompStep \/ PollTimer
    <2>1. CASE LoopRound \/ Wake \/ CompletionCb \/ CompletionDone \/ TerminateCb \/ CheckCb
               \/ FlushDone \/ ScanDone \/ ReceiveChunk \/ RunLoop \/ StopIoLoop \/ WaitBatch
               \/ AbandonChunk \/ CompleteTask \/ GetBatch
      BY <2>1 DEF LoopRound, Wake, CompletionCb, CompletionDone, TerminateCb, CheckCb, coVars,
                  FlushDone, ScanDone, ReceiveChunk, RunLoop, StopIoLoop, WaitBatch,
                  AbandonChunk, CompleteTask, GetBatch
    <2>2. CASE (\E e \in Elems : ScanBatch(e)) \/ (\E b \in Batches : DelayBatch(b) \/ ForwardBatch(b))
               \/ (\E b \in Batches, t \in Tasks : OffloadBatch(b, t)) \/ (\E t \in Tasks : StartSend(t))
      BY <2>2 DEF ScanBatch, DelayBatch, ForwardBatch, OffloadBatch, StartSend, coVars
    <2>3. CASE AllocIoBase \/ WaitIoBase \/ DropTask \/ EnqueueInput \/ DelayTask \/ NotifyInput
      BY <2>3 DEF AllocIoBase, WaitIoBase, DropTask, EnqueueInput, DelayTask, NotifyInput, coVars
    <2> QED BY <1>5, <2>1, <2>2, <2>3, CompCases
  <1> QED BY <1>2, <1>3, <1>4, <1>5 DEF Next, CoprocStep

\* Neither assertion fails: the completion ring has room for every task that
\* is under way, and dbstate_pool an entry for every batch of a task.
THEOREM NoAbort == Spec => []NeverAborts
  <1>1. Init => Running
    BY DEF Init, Running
  <1>2. DataInv /\ Running => NeverAborts
    BY TrackerInvImplies DEF DataInv, NeverAborts, Running
  <1>3. DataInv /\ Running /\ [Next]_vars => Running'
    BY StepNotAborted DEF Running
  <1> QED BY <1>1, <1>2, <1>3, SpecDataInv, PTL DEF Spec

-----------------------------------------------------------------------------
(* The scan of finished batches.  The check watcher is queued in every round *)
(* of the loop and runs last, so whoever fills a finished list does so while *)
(* a scan is still to come in the same round.  A nested ev_run() of          *)
(* send_offload_task_to_device() is the exception: it returns into the flush *)
(* that precedes the scan.                                                   *)

AllScanned == \A e \in Elems : finished[e] = <<>>

ScanInv ==
    /\ pend # {} \/ pc = "complete" => "check" \in pend
    /\ pc \in {"rx", "getBatch"} => AllScanned
    /\ pc = "invoke" /\ pend = {} /\ Head(stack).kind # "send" => AllScanned

LEMMA InitScanInv == Init => ScanInv
  BY DEF Init, ScanInv, AllScanned

\* Steps that leave what ScanInv speaks about alone, and steps to a place of
\* the program that it says nothing about.
LEMMA ScanSame ==
    ASSUME ScanInv, UNCHANGED <<pend, finished>>,
           \/ UNCHANGED <<pc, stack>>
           \/ pc # "complete" /\ pc' \in {"poll", "flush", "scan", "alloc", "enqueue", "notify", "stopped"}
    PROVE  ScanInv'
  <1>1. AllScanned' <=> AllScanned
    BY DEF AllScanned
  <1> QED BY <1>1 DEF ScanInv

LEMMA StepScanInv ==
    ASSUME TypeInv, ScanInv, [Next]_vars
    PROVE  ScanInv'
  <1>0. stack \in Seq(FrameType)
    BY DEF TypeInv, ControlTypes
  <1>1. UNCHANGED finished => (AllScanned' <=> AllScanned)
    BY DEF AllScanned
  <1>2. CASE LoopRound
    <2>1. pc = "invoke" /\ pend = {} /\ UNCHANGED <<pend, finished>>
      BY <1>2 DEF LoopRound, dataVars
    <2>2. CASE pc' = "poll"
      BY <2>1, <2>2, ScanSame
    <2>3. CASE pc' = "alloc"
      BY <2>1, <2>3, ScanSame
    <2>4. CASE pc' \in {"rx", "getBatch"}
      <3>1. Head(stack).kind # "send"
        BY <1>2, <2>4 DEF LoopRound
      <3> QED BY <1>1, <2>1, <2>4, <3>1 DEF ScanInv
    <2> QED BY <1>2, <2>2, <2>3, <2>4 DEF LoopRound
  <1>3. CASE Wake
    <2>1. "check" \in pend' /\ pc' = "invoke"
      BY <1>3 DEF Wake
    <2> QED BY <2>1 DEF ScanInv
  <1>4. CASE CompletionCb
    BY <1>4 DEF CompletionCb, ScanInv
  <1>5. CASE CompletionDone
    BY <1>5 DEF CompletionDone, ScanInv
  <1>6. CASE TerminateCb
    BY <1>6 DEF TerminateCb, ScanInv
  <1>7. CASE CompleteTask
    BY <1>7 DEF CompleteTask, ScanInv
  <1>8. CASE CheckCb
    BY <1>8 DEF CheckCb, ScanInv
  <1>9. CASE ScanDone
    <2>1. AllScanned' /\ pc' = "invoke" /\ UNCHANGED pend /\ pc = "scan"
      BY <1>9 DEF ScanDone, AllScanned, dataVars
    <2> QED BY <2>1 DEF ScanInv
  <1>10. CASE RunLoop \/ WaitBatch
    <2>1. AllScanned' /\ pc' = "invoke" /\ UNCHANGED pend
      BY <1>1, <1>10 DEF RunLoop, WaitBatch, EvRun, ScanInv, dataVars
    <2> QED BY <2>1 DEF ScanInv
  <1>11. CASE WaitIoBase
    <2>1. /\ pc' = "invoke" /\ UNCHANGED pend /\ pc = "alloc"
          /\ stack' = <<[kind |-> "send", task |-> cur]>> \o stack
      BY <1>11 DEF WaitIoBase, EvRun
    <2>2. Head(stack') = [kind |-> "send", task |-> cur]
      BY <1>0, <2>1
    <2> QED BY <2>1, <2>2 DEF ScanInv
  <1>12. CASE ReceiveChunk \/ GetBatch \/ AbandonChunk
    <2>1. UNCHANGED <<pend, finished>> /\ pc \in {"rx", "getBatch"} /\ pc' \in {"rx", "getBatch"}
      BY <1>12 DEF ReceiveChunk, GetBatch, AbandonChunk, dataVars
    <2> QED BY <1>1, <2>1 DEF ScanInv
  <1>13. CASE FlushDone \/ StopIoLoop
    BY <1>13, ScanSame DEF FlushDone, StopIoLoop, dataVars
  <1>14. ASSUME NEW e \in Elems, ScanBatch(e) PROVE ScanInv'
    BY <1>14 DEF ScanBatch, ScanInv, ctlVars
  <1>15. CASE \E b \in Batches : DelayBatch(b) \/ ForwardBatch(b)
    <2>1. UNCHANGED <<pend, finished, pc, stack>>
      BY <1>15 DEF DelayBatch, ForwardBatch, ctlVars
    <2> QED BY <2>1, ScanSame
  <1>16. CASE \E b \in Batches, t \in Tasks : OffloadBatch(b, t)
    <2>1. UNCHANGED <<pend, finished, pc, stack>>
      BY <1>16 DEF OffloadBatch, ctlVars
    <2> QED BY <2>1, ScanSame
  <1>17. CASE \E t \in Tasks : StartSend(t)
    <2>1. UNCHANGED <<pend, finished>> /\ pc = "flush" /\ pc' \in {"enqueue", "alloc"}
      BY <1>17 DEF StartSend, Flushing
    <2> QED BY <2>1, ScanSame
  <1>18. CASE AllocIoBase \/ DropTask \/ EnqueueInput \/ DelayTask \/ NotifyInput
    <2>1. /\ UNCHANGED <<pend, finished>> /\ pc \in {"alloc", "enqueue", "notify"}
          /\ pc' \in {"enqueue", "flush", "notify"}
      BY <1>18 DEF AllocIoBase, DropTask, EnqueueInput, DelayTask, NotifyInput, dataVars
    <2> QED BY <2>1, ScanSame
  <1>19. CASE Signal \/ CoprocStep \/ (\E t \in Tasks : DeviceStep(t)) \/ UNCHANGED vars
    <2>1. UNCHANGED <<pend, finished, pc, stack>>
      BY <1>19 DEF Signal, CoprocStep, DeviceStep, CoPoll, InputCb, InputRefeed, D2hCb, DoneCb,
                   NotifyCompletion, CoTerminateCb, KernelFinishes, CopyFinishes,
                   vars, dataVars, ctlVars, coCtl
    <2> QED BY <2>1, ScanSame
  <1>20. CASE CompStep \/ PollTimer
    BY <1>2, <1>3, <1>4, <1>5, <1>6, <1>7, <1>8, <1>9, <1>10, <1>11, <1>12, <1>13, <1>14,
       <1>15, <1>16, <1>17, <1>18, <1>20, CompCases
  <1> QED BY <1>19, <1>20 DEF Next

\* Whenever io_loop is back from its ev_run(), or a wait for a batch has ended,
\* no finished batch is left waiting for a scan.
THEOREM ScanComplete == Spec => []NothingLeftToScan
  <1>1. TypeInv /\ ScanInv /\ [Next]_vars => TypeInv' /\ ScanInv'
    BY StepTypeInv, StepScanInv
  <1>2. ScanInv => NothingLeftToScan
    BY DEF ScanInv, AllScanned, NothingLeftToScan
  <1> QED BY <1>1, <1>2, InitTypeInv, InitScanInv, PTL DEF Spec

-----------------------------------------------------------------------------
(* The pipeline implements ElementPath.  What a batch has been through is    *)
(* read off the place where it is, so a step advances exactly the batches    *)
(* that it moves to a place further down the chain.                          *)

DoneAt(e) == {finished[e][i] : i \in DOMAIN finished[e]}

\* Where a batch is neither free nor in a task or a finished list.
Loose(b) == /\ b \notin pool
            /\ \A t \in Tasks : b \notin Members(t)
            /\ \A e \in Elems : b \notin DoneAt(e)

Reached(b) == IF batch[b].has THEN batch[b].elem ELSE batch[b].elem - 1

StageOf(b) ==
    /\ b \in pool => Stage(b) = -1
    /\ \A t \in Tasks : b \in Members(t) => Stage(b) = task[t].elem - 1
    /\ \A e \in Elems : b \in DoneAt(e) => Stage(b) = e
    /\ Loose(b) => Stage(b) = Reached(b)

\* A batch of a finished list is in no other list and no other place.
LEMMA DonePlaces ==
    ASSUME BatchInv, NEW e \in Elems, NEW b \in DoneAt(e)
    PROVE  /\ b \in Batches /\ b \notin pool /\ Count(finished[e], b) = 1
           /\ Count(queue, b) = 0
           /\ \A t \in Tasks : b \notin Members(t)
           /\ \A f \in Elems : b \in DoneAt(f) => f = e
  <1>1. TypeInv /\ finished \in [Elems -> Seq(Batches)]
    BY DEF BatchInv, TaskInv, TypeInv, DataTypes
  <1>2. \A f \in Elems : finished[f] \in Seq(Batches) /\ DOMAIN finished[f] = 1..Len(finished[f])
    BY <1>1, LenProperties
  <1>3. PICK i \in 1..Len(finished[e]) : finished[e][i] = b
    BY <1>2 DEF DoneAt
  <1>4. b \in Batches
    BY <1>2, <1>3, ElementOfSeq
  <1>5. /\ Count(queue, b) \in Nat
        /\ CountIn(finished, b) \in Nat /\ CountIn(TaskBatches, b) \in Nat
        /\ BatchCopies(b) = In(b, pool) + Count(queue, b) + CountIn(finished, b)
                              + CountIn(TaskBatches, b)
        /\ SeqTable(finished, Elems, Batches)
        /\ BatchCopies(b) <= 1 /\ In(b, pool) \in {0, 1}
    BY <1>1, <1>4, BatchPlaces DEF BatchInv, BatchConservation, In
  <1>6. CountIn(finished, b) # 0
    BY <1>3, <1>5, CountInPositive
  <1>7. In(b, pool) = 0 /\ CountIn(finished, b) = 1 /\ Count(queue, b) = 0
    BY <1>5, <1>6
  <1>8. ASSUME NEW f \in Elems, b \in DoneAt(f) PROVE f = e
    <2>1. PICK j \in 1..Len(finished[f]) : finished[f][j] = b
      BY <1>2, <1>8 DEF DoneAt
    <2> QED BY <1>3, <1>5, <1>7, <2>1, CountInUnique
  <1>9. Count(finished[e], b) = 1
    <2>1. Count(finished[e], b) \in Nat /\ Count(finished[e], b) <= CountIn(finished, b)
      BY <1>5, CountInPositive
    <2>2. Count(finished[e], b) # 0
      BY <1>2, <1>3, CountPositive
    <2> QED BY <1>7, <2>1, <2>2
  <1>10. ASSUME NEW t \in Tasks PROVE b \notin Members(t)
    <2>1. CountIn(TaskBatches, b) = 0
      BY <1>5, <1>6
    <2>2. SeqTable(TaskBatches, Tasks, Batches) /\ TaskBatches[t] = task[t].batches
      BY <1>1, <1>4, BatchPlaces DEF TaskBatches
    <2>3. DOMAIN task[t].batches = 1..Len(task[t].batches)
      BY MembersOf, LenProperties
    <2> HIDE DEF TaskBatches
    <2>4. \A k \in 1..Len(TaskBatches[t]) : TaskBatches[t][k] # b
      BY <2>1, <2>2, CountInPositive
    <2> QED BY <2>2, <2>3, <2>4 DEF Members
  <1> QED BY <1>4, <1>7, <1>8, <1>9, <1>10 DEF In

LEMMA StageCases == BatchInv => \A b \in Batches : StageOf(b)
  <1> SUFFICES ASSUME BatchInv, NEW b \in Batches PROVE StageOf(b)
    OBVIOUS
  <1>1. Holders(b) = {t \in Tasks : b \in Members(t)}
    BY DEF Holders, Members
  <1>2. FinishedAt(b) = {e \in Elems : b \in DoneAt(e)}
    BY DEF FinishedAt, DoneAt
  <1>3. CASE b \in pool
    <2>1. Stage(b) = -1
      BY <1>3 DEF Stage
    <2> QED BY <1>3, <2>1, MemberPlaces, DonePlaces DEF StageOf, Loose
  <1>4. ASSUME NEW t \in Tasks, b \in Members(t) PROVE StageOf(b)
    <2>1. b \notin pool /\ \A u \in Tasks : b \in Members(u) => u = t
      BY <1>4, MemberPlaces
    <2>2. Holders(b) = {t}
      BY <1>1, <1>4, <2>1
    <2>3. Stage(b) = task[t].elem - 1
      BY <2>1, <2>2 DEF Stage
    <2>4. \A e \in Elems : b \notin DoneAt(e)
      BY <1>4, DonePlaces
    <2> QED BY <1>4, <2>1, <2>3, <2>4 DEF StageOf, Loose
  <1>5. ASSUME NEW e \in Elems, b \in DoneAt(e) PROVE StageOf(b)
    <2>1. /\ b \notin pool /\ \A t \in Tasks : b \notin Members(t)
          /\ \A f \in Elems : b \in DoneAt(f) => f = e
      BY <1>5, DonePlaces
    <2>2. Holders(b) = {} /\ FinishedAt(b) = {e}
      BY <1>1, <1>2, <1>5, <2>1
    <2>3. Stage(b) = e
      BY <2>1, <2>2 DEF Stage
    <2> QED BY <1>5, <2>1, <2>3 DEF StageOf, Loose
  <1>6. CASE Loose(b)
    <2>1. Holders(b) = {} /\ FinishedAt(b) = {} /\ b \notin pool
      BY <1>1, <1>2, <1>6 DEF Loose
    <2>2. Stage(b) = Reached(b)
      BY <2>1 DEF Stage, Reached
    <2> QED BY <1>6, <2>2 DEF StageOf, Loose
  <1> QED BY <1>3, <1>4, <1>5, <1>6 DEF Loose

LEMMA StageCasesNext == (BatchInv => \A b \in Batches : StageOf(b))'
  BY StageCases, PTL

\* A batch that stays where it is, or in a queue, keeps its stage.
StaysAt(b) ==
    /\ b \in pool' <=> b \in pool
    /\ \A t \in Tasks : /\ b \in Members(t)' <=> b \in Members(t)
                        /\ b \in Members(t) => task'[t].elem = task[t].elem
    /\ \A e \in Elems : b \in DoneAt(e)' <=> b \in DoneAt(e)
    /\ Reached(b)' = Reached(b)

LEMMA StageKept ==
    ASSUME BatchInv, BatchInv', NEW b \in Batches, StaysAt(b)
    PROVE  Stage(b)' = Stage(b)
  <1>1. StageOf(b) /\ StageOf(b)'
    BY StageCases, StageCasesNext
  <1>2. /\ b \in pool' => Stage(b)' = -1
        /\ \A t \in Tasks : b \in Members(t)' => Stage(b)' = task'[t].elem - 1
        /\ \A e \in Elems : b \in DoneAt(e)' => Stage(b)' = e
        /\ Loose(b)' => Stage(b)' = Reached(b)'
    BY <1>1 DEF StageOf
  <1>3. CASE b \in pool
    BY <1>1, <1>2, <1>3 DEF StageOf, StaysAt
  <1>4. ASSUME NEW t \in Tasks, b \in Members(t) PROVE Stage(b)' = Stage(b)
    BY <1>1, <1>2, <1>4 DEF StageOf, StaysAt
  <1>5. ASSUME NEW e \in Elems, b \in DoneAt(e) PROVE Stage(b)' = Stage(b)
    BY <1>1, <1>2, <1>5 DEF StageOf, StaysAt
  <1>6. CASE Loose(b)
    <2>1. Loose(b)'
      BY <1>6 DEF Loose, StaysAt
    <2> QED BY <1>1, <1>2, <1>6, <2>1 DEF StageOf, StaysAt
  <1> QED BY <1>3, <1>4, <1>5, <1>6 DEF Loose

\* What a free batch and a free task look like, and that a task being filled is
\* the one of its element.
PooledFresh == \A b \in pool : batch[b].elem = 0 /\ batch[b].has
Entered     == \A b \in Batches : ~batch[b].has => batch[b].elem # 0
PooledEmpty == \A t \in taskPool : task[t].batches = <<>>
AccElem     == \A e \in Elems : acc[e] # NoTask => task[acc[e]].elem = e

PathInv == PooledFresh /\ Entered /\ PooledEmpty /\ AccElem

LEMMA InitPathInv == Init => PathInv
  BY DEF Init, PathInv, PooledFresh, Entered, PooledEmpty, AccElem, FreshBatch, FreshTask

\* The steps that change a batch or the pool.
LEMMA BatchSteps ==
    ASSUME [Next]_vars
    PROVE  \/ UNCHANGED <<pool, batch>> \/ GetBatch \/ AbandonChunk
           \/ (\E e \in Elems : ScanBatch(e)) \/ (\E b \in Batches : ForwardBatch(b))
           \/ (\E t \in Tasks : StartSend(t)) \/ CompleteTask
  <1>1. CASE LoopRound \/ Wake \/ CompletionCb \/ CompletionDone \/ TerminateCb \/ CheckCb
             \/ FlushDone \/ ScanDone \/ ReceiveChunk \/ RunLoop \/ StopIoLoop \/ WaitBatch
    BY <1>1 DEF LoopRound, Wake, CompletionCb, CompletionDone, TerminateCb, CheckCb,
                FlushDone, ScanDone, ReceiveChunk, RunLoop, StopIoLoop, WaitBatch, dataVars
  <1>2. CASE \/ AllocIoBase \/ WaitIoBase \/ DropTask \/ EnqueueInput \/ NotifyInput \/ DelayTask
             \/ \E b \in Batches : DelayBatch(b) \/ \E t \in Tasks : OffloadBatch(b, t)
    BY <1>2 DEF AllocIoBase, WaitIoBase, DropTask, EnqueueInput, NotifyInput, DelayTask,
                DelayBatch, OffloadBatch, dataVars
  <1>3. CASE Signal \/ CoprocStep \/ (\E u \in Tasks : DeviceStep(u)) \/ UNCHANGED vars
    BY <1>3 DEF Signal, CoprocStep, DeviceStep, CoPoll, InputCb, InputRefeed, D2hCb, DoneCb,
                NotifyCompletion, CoTerminateCb, KernelFinishes, CopyFinishes,
                vars, dataVars, coCtl
  <1>4. CASE CompStep \/ PollTimer
    BY <1>1, <1>2, <1>4, CompCases
  <1> QED BY <1>3, <1>4 DEF Next

\* Trackers come and go; where a batch is and what it has stays.
LEMMA TrackersOnly ==
    ASSUME TypeInv, (\E t \in Tasks : StartSend(t)) \/ CompleteTask
    PROVE  /\ pool' = pool
           /\ \A b \in Batches : batch'[b].elem = batch[b].elem /\ batch'[b].has = batch[b].has
  <1>1. batch \in [Batches -> BatchType]
    BY DEF TypeInv, DataTypes
  <1>2. ASSUME NEW S, NEW d \in BOOLEAN,
               batch' = [b \in Batches |-> IF b \in S THEN [batch[b] EXCEPT !.db = d] ELSE batch[b]]
        PROVE  \A b \in Batches : batch'[b].elem = batch[b].elem /\ batch'[b].has = batch[b].has
    BY <1>1, <1>2 DEF BatchType
  <1>3. ASSUME NEW t \in Tasks, StartSend(t)
        PROVE  /\ pool' = pool
               /\ \A b \in Batches : batch'[b].elem = batch[b].elem /\ batch'[b].has = batch[b].has
    BY <1>2, <1>3 DEF StartSend
  <1>4. CASE CompleteTask
    BY <1>2, <1>4 DEF CompleteTask
  <1> QED BY <1>3, <1>4

LEMMA StepPooledFresh ==
    ASSUME BatchInv, PathInv, [Next]_vars
    PROVE  PooledFresh' /\ Entered'
  <1>1. /\ batch \in [Batches -> BatchType] /\ pool \subseteq Batches /\ TypeInv
        /\ finished \in [Elems -> Seq(Batches)] /\ 0 \notin Elems
    BY DEF BatchInv, TaskInv, TypeInv, DataTypes, Elems
  <1>2. PooledFresh /\ Entered
    BY DEF PathInv
  <1>3. CASE UNCHANGED <<pool, batch>>
    BY <1>2, <1>3 DEF PooledFresh, Entered
  <1>4. CASE GetBatch
    BY <1>1, <1>2, <1>4 DEF GetBatch, PooledFresh, Entered, FreshBatch
  <1>5. CASE AbandonChunk
    BY <1>1, <1>2, <1>5 DEF AbandonChunk, PooledFresh, Entered
  <1>6. ASSUME NEW e \in Elems, ScanBatch(e) PROVE PooledFresh' /\ Entered'
    <2> DEFINE b == Head(finished[e])
    <2>1. finished[e] # <<>> /\ finished[e] \in Seq(Batches)
      BY <1>1, <1>6 DEF ScanBatch
    <2>2. b \in DoneAt(e) /\ b \in Batches
      BY <2>1, HeadTailProperties, EmptySeq, LenProperties DEF DoneAt
    <2>3. b \notin pool
      BY <2>2, DonePlaces
    <2>4. pool' = pool /\ batch' = [batch EXCEPT ![b].elem = e, ![b].has = TRUE]
      BY <1>6 DEF ScanBatch
    <2> HIDE DEF b
    <2> QED BY <1>1, <1>2, <2>2, <2>3, <2>4 DEF PooledFresh, Entered, BatchType
  <1>7. ASSUME NEW b \in Batches, ForwardBatch(b) PROVE PooledFresh' /\ Entered'
    <2>1. CASE AtOutput(b)
      <3>1. pool' = pool \cup {b} /\ batch' = [batch EXCEPT ![b] = [FreshBatch EXCEPT !.db = batch[b].db]]
        BY <1>7, <2>1 DEF ForwardBatch
      <3> QED BY <1>1, <1>2, <3>1 DEF PooledFresh, Entered, FreshBatch
    <2>2. CASE ~AtOutput(b)
      <3>1. pool' = pool /\ batch' = [batch EXCEPT ![b].elem = @ + 1, ![b].has = FALSE]
        BY <1>7, <2>2 DEF ForwardBatch
      <3>2. b \notin pool
        BY <1>7, HeadNotPooled DEF ForwardBatch
      <3>3. batch[b].elem + 1 # 0
        BY <1>1 DEF BatchType
      <3> QED BY <1>1, <1>2, <3>1, <3>2, <3>3 DEF PooledFresh, Entered, BatchType
    <2> QED BY <2>1, <2>2
  <1>8. CASE (\E t \in Tasks : StartSend(t)) \/ CompleteTask
    BY <1>1, <1>2, <1>8, TrackersOnly DEF PooledFresh, Entered
  <1> QED BY <1>3, <1>4, <1>5, <1>6, <1>7, <1>8, BatchSteps

\* Only offload() and the completion take a task or give it back.
LEMMA PoolSteps ==
    ASSUME [Next]_vars
    PROVE  \/ UNCHANGED <<taskPool, acc>> \/ CompleteTask
           \/ \E b \in Batches, t \in Tasks : OffloadBatch(b, t)
  <1>1. CASE LoopRound \/ Wake \/ CompletionCb \/ CompletionDone \/ TerminateCb \/ CheckCb
             \/ FlushDone \/ ScanDone \/ ReceiveChunk \/ RunLoop \/ StopIoLoop \/ WaitBatch
    BY <1>1 DEF LoopRound, Wake, CompletionCb, CompletionDone, TerminateCb, CheckCb,
                FlushDone, ScanDone, ReceiveChunk, RunLoop, StopIoLoop, WaitBatch, dataVars
  <1>2. CASE \/ AllocIoBase \/ WaitIoBase \/ DropTask \/ EnqueueInput \/ NotifyInput \/ DelayTask
             \/ GetBatch \/ AbandonChunk \/ (\E e \in Elems : ScanBatch(e))
             \/ (\E b \in Batches : DelayBatch(b) \/ ForwardBatch(b))
             \/ (\E t \in Tasks : StartSend(t))
    BY <1>2 DEF AllocIoBase, WaitIoBase, DropTask, EnqueueInput, NotifyInput, DelayTask,
                GetBatch, AbandonChunk, ScanBatch, DelayBatch, ForwardBatch, StartSend, dataVars
  <1>3. CASE Signal \/ CoprocStep \/ (\E u \in Tasks : DeviceStep(u)) \/ UNCHANGED vars
    BY <1>3 DEF Signal, CoprocStep, DeviceStep, CoPoll, InputCb, InputRefeed, D2hCb, DoneCb,
                NotifyCompletion, CoTerminateCb, KernelFinishes, CopyFinishes,
                vars, dataVars, coCtl
  <1>4. CASE CompStep \/ PollTimer
    BY <1>1, <1>2, <1>4, CompCases
  <1> QED BY <1>3, <1>4 DEF Next

\* The task an element fills is not free.
LEMMA AccNotPooled ==
    ASSUME TaskInv, NEW e \in Elems, acc[e] # NoTask
    PROVE  acc[e] \in Tasks /\ acc[e] \notin taskPool /\ Count(acc, acc[e]) # 0
  <1>1. acc \in [Elems -> Tasks \cup {NoTask}]
    BY DEF TaskInv, TypeInv, DataTypes
  <1>2. acc \in Seq(Tasks \cup {NoTask}) /\ Len(acc) = NElems
    BY <1>1, ChainAssumption, SeqDef, LenProperties DEF Elems
  <1>3. acc[e] \in Tasks /\ e \in 1..Len(acc)
    BY <1>1, <1>2 DEF Elems
  <1>4. Count(acc, acc[e]) # 0
    BY <1>2, <1>3, CountPositive
  <1> QED BY <1>3, <1>4, OnePlace DEF Elsewhere

LEMMA StepPooledEmpty ==
    ASSUME BatchInv, PathInv, [Next]_vars
    PROVE  PooledEmpty' /\ AccElem'
  <1>1. /\ TaskInv /\ task \in [Tasks -> TaskType] /\ taskPool \subseteq Tasks
        /\ acc \in [Elems -> Tasks \cup {NoTask}]
    BY DEF BatchInv, TaskInv, TypeInv, DataTypes
  <1>2. PooledEmpty /\ AccElem
    BY DEF PathInv
  <1>3. ASSUME NEW b \in Batches, NEW t \in Tasks, OffloadBatch(b, t)
        PROVE  PooledEmpty' /\ AccElem'
    <2> DEFINE e == batch[b].elem
    <2>1. e \in Elems /\ taskPool' = taskPool \ {t}
      BY <1>3, ChainAssumption DEF OffloadBatch, ShouldOffload
    <2>2. /\ task'[t].elem = e
          /\ \A u \in Tasks \ {t} : task'[u] = task[u]
      BY <1>1, <1>3 DEF OffloadBatch, TaskType
    <2>3. /\ acc'[e] \in {NoTask, t}
          /\ \A f \in Elems \ {e} : acc'[f] = acc[f]
          /\ t \in taskPool \/ (t = acc[e] /\ acc[e] # NoTask)
      BY <1>1, <1>3, <2>1 DEF OffloadBatch
    <2>4. PooledEmpty'
      BY <1>1, <1>2, <2>1, <2>2 DEF PooledEmpty
    <2> HIDE DEF e
    <2>5. ASSUME NEW f \in Elems, acc'[f] # NoTask PROVE task'[acc'[f]].elem = f
      <3>1. CASE f = e
        BY <2>2, <2>3, <2>5, <3>1
      <3>2. CASE f # e
        <4>1. acc'[f] = acc[f] /\ acc[f] # NoTask
          BY <2>3, <2>5, <3>2
        <4>2. task[acc[f]].elem = f /\ acc[f] \in Tasks /\ acc[f] \notin taskPool
          BY <1>1, <1>2, <4>1, AccNotPooled DEF AccElem
        <4>3. acc[f] # t
          <5>1. CASE t \in taskPool
            BY <4>2, <5>1
          <5>2. CASE t = acc[e] /\ acc[e] # NoTask
            <6>1. task[t].elem = e
              BY <1>2, <2>1, <5>2 DEF AccElem
            <6> QED BY <3>2, <4>2, <6>1
          <5> QED BY <2>3, <5>1, <5>2
        <4> QED BY <2>2, <4>1, <4>2, <4>3
      <3> QED BY <3>1, <3>2
    <2> QED BY <2>4, <2>5 DEF AccElem
  <1>4. CASE CompleteTask
    <2>0. PICK t \in Tasks : t = Head(burst)
      BY <1>1, <1>4, HeadOfBurst DEF CompleteTask
    <2>1. /\ Count(acc, t) = 0 /\ t \notin taskPool
      BY <1>1, <1>4, <2>0, HeadOfBurst, OnePlace DEF CompleteTask, Elsewhere
    <2>2. /\ acc' = acc /\ \A u \in Tasks \ {t} : task'[u] = task[u]
          /\ \/ taskPool' = taskPool
             \/ taskPool' = taskPool \cup {t} /\ task'[t] = FreshTask
      BY <1>1, <1>4, <2>0 DEF CompleteTask
    <2>3. PooledEmpty'
      BY <1>1, <1>2, <2>1, <2>2 DEF PooledEmpty, FreshTask
    <2>4. ASSUME NEW f \in Elems, acc[f] # NoTask PROVE task'[acc[f]].elem = f
      <3>1. acc[f] \in Tasks /\ acc[f] # t /\ task[acc[f]].elem = f
        BY <1>1, <1>2, <2>1, <2>4, AccNotPooled DEF AccElem
      <3> QED BY <2>2, <3>1
    <2> QED BY <2>2, <2>3, <2>4 DEF AccElem
  <1>5. CASE ~CompleteTask /\ ~ \E b \in Batches, t \in Tasks : OffloadBatch(b, t)
    <2>1. /\ TaskBatches' = TaskBatches
          /\ \A u \in Tasks : task'[u].elem = task[u].elem
      BY <1>1, <1>5, TaskDataKept
    <2>2. \A u \in Tasks : task'[u].batches = task[u].batches
      <3>1. \A u \in Tasks : TaskBatches'[u] = task'[u].batches /\ TaskBatches[u] = task[u].batches
        BY DEF TaskBatches
      <3> HIDE DEF TaskBatches
      <3> QED BY <2>1, <3>1
    <2>3. UNCHANGED <<taskPool, acc>>
      BY <1>5, PoolSteps
    <2>4. PooledEmpty'
      BY <1>1, <1>2, <2>2, <2>3 DEF PooledEmpty
    <2>5. \A f \in Elems : acc[f] # NoTask => acc[f] \in Tasks
      BY <1>1
    <2> QED BY <1>2, <2>1, <2>3, <2>4, <2>5 DEF AccElem
  <1> QED BY <1>3, <1>4, <1>5

PipelineInv == DataInv /\ PathInv

LEMMA StepPipelineInv == PipelineInv /\ [Next]_vars => PipelineInv'
  <1> SUFFICES ASSUME PipelineInv, [Next]_vars PROVE PipelineInv'
    OBVIOUS
  <1>1. DataInv /\ BatchInv /\ PathInv
    BY DEF PipelineInv, DataInv
  <1>2. DataInv'
    BY <1>1, StepDataInv
  <1>3. PathInv'
    BY <1>1, StepPooledFresh, StepPooledEmpty DEF PathInv
  <1> QED BY <1>2, <1>3 DEF PipelineInv

\* The batch at the head of the job queue is in no task and in no list.
LEMMA QueuedLoose ==
    ASSUME BatchInv, NEW b \in Batches, Flushing(b)
    PROVE  Loose(b)
  <1>1. queue \in Seq(Batches \cup Tasks) /\ queue # <<>> /\ b = Head(queue)
    BY DEF BatchInv, TaskInv, TypeInv, DataTypes, Flushing
  <1>2. queue[1] = b /\ 1 \in 1..Len(queue)
    BY <1>1, HeadTailProperties, EmptySeq, LenProperties
  <1>3. Count(queue, b) # 0
    BY <1>1, <1>2, CountPositive
  <1>4. \A t \in Tasks : b \notin Members(t)
    BY <1>3, MemberPlaces
  <1>5. \A e \in Elems : b \notin DoneAt(e)
    BY <1>3, DonePlaces
  <1> QED BY <1>4, <1>5, HeadNotPooled DEF Loose

\* The three kinds of progress ElementPath knows, and none.
Others(S) == \A c \in Batches \ S : Stage(c)' = Stage(c)

LEMMA Received ==
    ASSUME NEW b \in Batches, Stage(b) = -1, Stage(b)' = 0, Others({b})
    PROVE  Path!Next
  <1>1. Path!Receive(b)
    BY DEF Path!Receive, Path!Idle, Others
  <1> QED BY <1>1 DEF Path!Next

LEMMA Transmitted ==
    ASSUME NEW b \in Batches, Stage(b) \in {NElems - 1, NElems}, Stage(b)' = -1, Others({b})
    PROVE  Path!Next
  <1>1. Path!Transmit(b)
    BY DEF Path!Transmit, Path!Idle, Others
  <1> QED BY <1>1 DEF Path!Next

LEMMA Computed ==
    ASSUME NEW S \in SUBSET Batches, NEW k \in 0..NElems - 1,
           \A b \in S : Stage(b) = k /\ Stage(b)' = k + 1, Others(S)
    PROVE  Path!Next
  <1>1. Path!Compute(S, k)
    BY DEF Path!Compute, Others
  <1> QED BY <1>1 DEF Path!Next

Stages == [b \in Batches |-> Stage(b)]

PathStep == [Path!Next]_Stages

LEMMA Stuttered ==
    ASSUME \A b \in Batches : Stage(b)' = Stage(b)
    PROVE  PathStep
  BY DEF PathStep, Stages

\* A step that moves no task's batches and touches no finished list.
LEMMA MembersSame ==
    ASSUME UNCHANGED TaskBatches
    PROVE  \A t \in Tasks : Members(t)' = Members(t)
  <1>1. \A t \in Tasks : TaskBatches[t] = task[t].batches /\ TaskBatches'[t] = task'[t].batches
    BY DEF TaskBatches
  <1> HIDE DEF TaskBatches
  <1>2. \A t \in Tasks : task'[t].batches = task[t].batches
    BY <1>1
  <1> QED BY <1>2 DEF Members

\* A received batch enters the graph, or is lost because the loop is broken.
LEMMA GetBatchPath ==
    ASSUME BatchInv, BatchInv', PathInv, GetBatch \/ AbandonChunk,
           UNCHANGED TaskBatches, \A t \in Tasks : task'[t].elem = task[t].elem
    PROVE  PathStep
  <1>1. batch \in [Batches -> BatchType] /\ pool \subseteq Batches
    BY DEF BatchInv, TaskInv, TypeInv, DataTypes
  <1>2. \A t \in Tasks : Members(t)' = Members(t)
    BY MembersSame
  <1>3. \A e \in Elems : DoneAt(e)' = DoneAt(e)
    BY DEF GetBatch, AbandonChunk, DoneAt
  <1>4. \A c \in Batches : StageOf(c) /\ StageOf(c)'
    BY StageCases, StageCasesNext
  <1>5. ASSUME NEW b \in pool, pool' = pool \ {b}, batch'[b].elem = 0, batch'[b].has,
               \A c \in Batches \ {b} : batch'[c] = batch[c]
        PROVE  Path!Next
    <2>1. b \in Batches /\ Stage(b) = -1
      BY <1>1, <1>4, <1>5 DEF StageOf
    <2>2. (\A t \in Tasks : b \notin Members(t)) /\ (\A e \in Elems : b \notin DoneAt(e))
      BY <1>5, MemberPlaces, DonePlaces
    <2>3. Loose(b)'
      BY <1>2, <1>3, <1>5, <2>2 DEF Loose
    <2>4. Reached(b)' = 0
      BY <1>5 DEF Reached
    <2>5. Stage(b)' = 0
      <3>1. StageOf(b)'
        BY <1>4, <2>1
      <3> QED BY <2>3, <2>4, <3>1 DEF StageOf
    <2>6. ASSUME NEW c \in Batches \ {b} PROVE Stage(c)' = Stage(c)
      <3>1. StaysAt(c)
        BY <1>2, <1>3, <1>5, <2>6 DEF StaysAt, Reached
      <3> QED BY <2>6, <3>1, StageKept
    <2> QED BY <2>1, <2>5, <2>6, Received DEF Others
  <1>6. CASE GetBatch
    <2>1. PICK b \in pool, d \in BOOLEAN :
             pool' = pool \ {b} /\ batch' = [batch EXCEPT ![b] = [FreshBatch EXCEPT !.dev = d]]
      BY <1>6 DEF GetBatch
    <2>2. b \in Batches
      BY <1>1
    <2>3. Path!Next
      BY <1>1, <1>5, <2>1, <2>2 DEF FreshBatch
    <2> QED BY <2>3 DEF PathStep
  <1>7. CASE AbandonChunk
    <2>1. batch' = batch
      BY <1>7 DEF AbandonChunk
    <2>2. CASE pool' = pool
      <3>1. \A c \in Batches : StaysAt(c)
        BY <1>2, <1>3, <2>1, <2>2 DEF StaysAt, Reached
      <3> QED BY <3>1, StageKept, Stuttered
    <2>3. CASE \E b \in pool : pool' = pool \ {b}
      <3>1. PICK b \in pool : pool' = pool \ {b}
        BY <2>3
      <3>2. batch'[b].elem = 0 /\ batch'[b].has
        BY <2>1 DEF PathInv, PooledFresh
      <3>3. Path!Next
        BY <1>5, <2>1, <3>1, <3>2
      <3> QED BY <3>3 DEF PathStep
    <2> QED BY <1>7, <2>2, <2>3 DEF AbandonChunk
  <1> QED BY <1>6, <1>7

\* A batch is computed by the CPU, moves on with its results, or leaves.
LEMMA ForwardPath ==
    ASSUME BatchInv, BatchInv', PathInv, NEW b \in Batches, ForwardBatch(b),
           UNCHANGED TaskBatches, \A t \in Tasks : task'[t].elem = task[t].elem
    PROVE  PathStep
  <1>1. batch \in [Batches -> BatchType] /\ NElems \in Nat
    BY ChainAssumption DEF BatchInv, TaskInv, TypeInv, DataTypes
  <1>2. \A t \in Tasks : Members(t)' = Members(t)
    BY MembersSame
  <1>3. \A e \in Elems : DoneAt(e)' = DoneAt(e)
    BY DEF ForwardBatch, DoneAt
  <1>4. StageOf(b) /\ StageOf(b)'
    BY StageCases, StageCasesNext
  <1>5. Loose(b) /\ Stage(b) = Reached(b)
    BY <1>4, QueuedLoose DEF ForwardBatch, StageOf
  <1>6. batch[b].elem \in 0..NElems /\ batch[b].has \in BOOLEAN
    BY <1>1 DEF BatchType
  <1>7. ASSUME \A c \in Batches \ {b} : batch'[c] = batch[c] /\ (c \in pool' <=> c \in pool)
        PROVE  Others({b})
    <2> SUFFICES ASSUME NEW c \in Batches \ {b} PROVE Stage(c)' = Stage(c)
      BY DEF Others
    <2>1. StaysAt(c)
      BY <1>2, <1>3, <1>7 DEF StaysAt, Reached
    <2> QED BY <2>1, StageKept
  <1>8. CASE AtOutput(b)
    <2>1. /\ pool' = pool \cup {b}
          /\ batch' = [batch EXCEPT ![b] = [FreshBatch EXCEPT !.db = batch[b].db]]
      BY <1>8 DEF ForwardBatch
    <2>2. Stage(b) \in {NElems - 1, NElems}
      BY <1>5, <1>6, <1>8 DEF Reached, AtOutput
    <2>3. Stage(b)' = -1
      BY <1>4, <2>1 DEF StageOf
    <2>4. Others({b})
      BY <1>1, <1>7, <2>1
    <2>5. Path!Next
      BY <2>2, <2>3, <2>4, Transmitted
    <2> QED BY <2>5 DEF PathStep
  <1>9. CASE ~AtOutput(b)
    <2>1. pool' = pool /\ batch' = [batch EXCEPT ![b].elem = @ + 1, ![b].has = FALSE]
      BY <1>9 DEF ForwardBatch
    <2>2. batch'[b].elem = batch[b].elem + 1 /\ ~batch'[b].has
      BY <1>1, <2>1 DEF BatchType
    <2>3. Loose(b)'
      BY <1>2, <1>3, <1>5, <2>1 DEF Loose
    <2>4. Stage(b)' = batch[b].elem
      <3>1. Reached(b)' = batch[b].elem
        BY <1>6, <2>2 DEF Reached
      <3> QED BY <1>4, <2>3, <3>1 DEF StageOf
    <2>5. Others({b})
      BY <1>1, <1>7, <2>1
    <2>6. CASE batch[b].has
      <3>1. Stage(b)' = Stage(b)
        BY <1>5, <2>4, <2>6 DEF Reached
      <3>2. \A c \in Batches : Stage(c)' = Stage(c)
        BY <2>5, <3>1 DEF Others
      <3> QED BY <3>2, Stuttered
    <2>7. CASE ~batch[b].has
      <3>1. batch[b].elem # 0 /\ batch[b].elem # NElems
        BY <1>9, <2>7 DEF PathInv, Entered, AtOutput
      <3>2. PICK k \in 0..NElems - 1 : k = batch[b].elem - 1
        BY <1>1, <1>6, <3>1
      <3>3. Stage(b) = k /\ Stage(b)' = k + 1
        BY <1>5, <1>6, <2>4, <2>7, <3>2 DEF Reached
      <3>4. {b} \in SUBSET Batches /\ \A c \in {b} : Stage(c) = k /\ Stage(c)' = k + 1
        BY <3>3
      <3>5. Path!Next
        BY <2>5, <3>4, Computed
      <3> QED BY <3>5 DEF PathStep
    <2> QED BY <1>6, <2>6, <2>7
  <1> QED BY <1>8, <1>9

\* A batch that joins a task is as far as it was in the queue.
LEMMA OffloadPath ==
    ASSUME BatchInv, BatchInv', PathInv, NEW b \in Batches, NEW t \in Tasks, OffloadBatch(b, t)
    PROVE  PathStep
  <1> DEFINE e == batch[b].elem
  <1>1. /\ TaskInv /\ task \in [Tasks -> TaskType] /\ task[t].batches \in Seq(Batches)
        /\ acc \in [Elems -> Tasks \cup {NoTask}]
    BY DEF BatchInv, TaskInv, TypeInv, DataTypes, TaskType
  <1>2. e \in Elems /\ ~batch[b].has
    BY ChainAssumption DEF OffloadBatch, ShouldOffload
  <1>3. /\ task'[t].elem = e /\ task'[t].batches = Append(task[t].batches, b)
        /\ \A u \in Tasks \ {t} : task'[u] = task[u]
    BY <1>1 DEF OffloadBatch, TaskType
  <1>4. Members(t)' = Members(t) \cup {b}
    BY <1>1, <1>3, AppendProperties, LenProperties DEF Members
  <1>5. \A u \in Tasks \ {t} : Members(u)' = Members(u)
    BY <1>3 DEF Members
  <1>6. \A f \in Elems : DoneAt(f)' = DoneAt(f)
    BY DEF OffloadBatch, DoneAt
  <1>7. UNCHANGED <<pool, batch>>
    BY DEF OffloadBatch
  <1>8. Members(t) = {} \/ task[t].elem = e
    <2>1. CASE t \in taskPool
      <3>1. task[t].batches = <<>>
        BY <2>1 DEF PathInv, PooledEmpty
      <3> QED BY <3>1 DEF Members
    <2>2. CASE t = acc[e] /\ acc[e] # NoTask
      BY <1>2, <2>2 DEF PathInv, AccElem
    <2> QED BY <2>1, <2>2 DEF OffloadBatch
  <1> HIDE DEF Members
  <1>9. Stage(b)' = Stage(b)
    <2>1. StageOf(b) /\ StageOf(b)'
      BY StageCases, StageCasesNext
    <2>2. Stage(b) = Reached(b)
      BY <2>1, QueuedLoose DEF OffloadBatch, StageOf
    <2>3. Stage(b) = e - 1
      BY <1>2, <2>2 DEF Reached
    <2>4. b \in Members(t)'
      BY <1>4
    <2>5. Stage(b)' = task'[t].elem - 1
      BY <2>1, <2>4 DEF StageOf
    <2> QED BY <1>3, <2>3, <2>5
  <1>10. ASSUME NEW c \in Batches \ {b} PROVE Stage(c)' = Stage(c)
    <2>1. ASSUME NEW u \in Tasks
          PROVE  /\ c \in Members(u)' <=> c \in Members(u)
                 /\ c \in Members(u) => task'[u].elem = task[u].elem
      BY <1>3, <1>4, <1>5, <1>8, <1>10
    <2>2. StaysAt(c)
      BY <1>6, <1>7, <2>1 DEF StaysAt, Reached
    <2> QED BY <1>10, <2>2, StageKept
  <1>11. \A c \in Batches : Stage(c)' = Stage(c)
    BY <1>9, <1>10
  <1> QED BY <1>11, Stuttered

\* A finished batch goes on to the next element with the results it has.
LEMMA ScanPath ==
    ASSUME BatchInv, BatchInv', NEW e \in Elems, ScanBatch(e),
           UNCHANGED TaskBatches, \A t \in Tasks : task'[t].elem = task[t].elem
    PROVE  PathStep
  <1>1. /\ batch \in [Batches -> BatchType] /\ finished \in [Elems -> Seq(Batches)]
        /\ finished[e] \in Seq(Batches) /\ finished[e] # <<>>
    BY DEF BatchInv, TaskInv, TypeInv, DataTypes, ScanBatch
  <1>2. \A t \in Tasks : Members(t)' = Members(t)
    BY MembersSame
  <1>3. PICK b \in Batches : b = Head(finished[e])
    BY <1>1, PopFrontType
  <1>4. /\ finished[e][1] = b /\ 1 \in 1..Len(finished[e]) /\ b \in DoneAt(e)
    BY <1>1, <1>3, HeadTailProperties, EmptySeq, LenProperties DEF DoneAt
  <1>5. /\ pool' = pool /\ finished' = [finished EXCEPT ![e] = Tail(@)]
        /\ batch' = [batch EXCEPT ![b].elem = e, ![b].has = TRUE]
    BY <1>3 DEF ScanBatch
  <1>6. /\ b \notin pool /\ Count(finished[e], b) = 1
        /\ \A t \in Tasks : b \notin Members(t)
        /\ \A f \in Elems : b \in DoneAt(f) => f = e
    BY <1>4, DonePlaces
  <1>7. /\ finished'[e] = Tail(finished[e]) /\ Tail(finished[e]) \in Seq(Batches)
        /\ \A f \in Elems \ {e} : finished'[f] = finished[f]
    BY <1>1, <1>5, PopFrontType
  <1>8. Len(Tail(finished[e])) = Len(finished[e]) - 1 /\ Len(finished[e]) \in Nat
    BY <1>1, HeadTailProperties, LenProperties
  <1>9. \A i \in 1..Len(Tail(finished[e])) : Tail(finished[e])[i] = finished[e][i + 1]
    BY <1>1, HeadTailProperties
  <1>10. DOMAIN finished[e] = 1..Len(finished[e])
    BY <1>1, LenProperties
  <1>11. DOMAIN Tail(finished[e]) = 1..Len(Tail(finished[e]))
    BY <1>7, LenProperties
  <1>12. b \notin DoneAt(e)'
    <2>1. Count(Tail(finished[e]), b) = Count(finished[e], b) - One(b, b)
      BY <1>1, <1>3, CountPop
    <2>2. Count(Tail(finished[e]), b) = 0
      BY <1>6, <2>1 DEF One
    <2>3. \A i \in 1..Len(Tail(finished[e])) : Tail(finished[e])[i] # b
      BY <1>7, <2>2, CountPositive
    <2> QED BY <1>7, <1>11, <2>3 DEF DoneAt
  <1>13. \A f \in Elems \ {e} : DoneAt(f)' = DoneAt(f)
    BY <1>7 DEF DoneAt
  <1>14. DoneAt(e) = DoneAt(e)' \cup {b}
    <2> DEFINE s == finished[e]
               r == Tail(finished[e])
    <2>1. DoneAt(e) = {s[i] : i \in 1..Len(s)} /\ DoneAt(e)' = {r[i] : i \in 1..Len(r)}
      BY <1>7, <1>10, <1>11 DEF DoneAt
    <2> HIDE DEF s, r
    <2>2. /\ Len(r) = Len(s) - 1 /\ Len(s) \in Nat /\ s[1] = b /\ 1 \in 1..Len(s)
          /\ \A i \in 1..Len(r) : r[i] = s[i + 1]
      BY <1>4, <1>8, <1>9 DEF s, r
    <2>3. \A i \in 1..Len(r) : i + 1 \in 1..Len(s)
      BY <2>2
    <2>4. \A j \in 1..Len(s) : j = 1 \/ (j - 1 \in 1..Len(r) /\ (j - 1) + 1 = j)
      BY <2>2
    <2>5. ASSUME NEW j \in 1..Len(s) PROVE s[j] = b \/ \E i \in 1..Len(r) : r[i] = s[j]
      BY <2>2, <2>4
    <2> QED BY <2>1, <2>2, <2>3, <2>5
  <1>15. Stage(b)' = Stage(b)
    <2>1. StageOf(b) /\ StageOf(b)'
      BY StageCases, StageCasesNext
    <2>2. Stage(b) = e
      BY <1>4, <2>1 DEF StageOf
    <2>3. Loose(b)'
      BY <1>2, <1>5, <1>6, <1>12, <1>13 DEF Loose
    <2>4. Reached(b)' = e
      BY <1>1, <1>5 DEF Reached, BatchType
    <2> QED BY <2>1, <2>2, <2>3, <2>4 DEF StageOf
  <1>16. ASSUME NEW c \in Batches \ {b} PROVE Stage(c)' = Stage(c)
    <2>1. \A f \in Elems : c \in DoneAt(f)' <=> c \in DoneAt(f)
      BY <1>13, <1>14, <1>16
    <2>2. batch'[c] = batch[c]
      BY <1>1, <1>5, <1>16
    <2>3. StaysAt(c)
      BY <1>2, <1>5, <2>1, <2>2 DEF StaysAt, Reached
    <2> QED BY <1>16, <2>3, StageKept
  <1>17. \A c \in Batches : Stage(c)' = Stage(c)
    BY <1>15, <1>16
  <1> QED BY <1>17, Stuttered

\* The batches of a completed task advance together, whether the task is reused
\* by the next element or gives them back to its own.
LEMMA CompletePath ==
    ASSUME BatchInv, BatchInv', CompleteTask
    PROVE  PathStep
  <1>0. PICK t \in Tasks : t = Head(burst) /\ Count(burst, t) # 0
    BY HeadOfBurst DEF BatchInv, CompleteTask
  <1>1. /\ TypeInv /\ TaskInv /\ task \in [Tasks -> TaskType] /\ task[t].batches \in Seq(Batches)
        /\ finished \in [Elems -> Seq(Batches)] /\ task[t].elem \in Elems /\ NElems \in Nat
    BY ChainAssumption DEF BatchInv, TaskInv, TypeInv, DataTypes, TaskType
  <1>2. PICK e \in Elems : e = task[t].elem
    BY <1>1
  <1>3. /\ pool' = pool
        /\ \A b \in Batches : Reached(b)' = Reached(b)
    BY <1>1, TrackersOnly DEF Reached
  <1>4. \A b \in Batches : StageOf(b) /\ StageOf(b)'
    BY StageCases, StageCasesNext
  <1>5. Members(t) \subseteq Batches
    BY MembersOf
  <1>6. PICK k \in 0..NElems - 1 : k = e - 1
    BY <1>1, <1>2 DEF Elems
  <1>7. \A b \in Members(t) : Stage(b) = k
    BY <1>2, <1>4, <1>5, <1>6 DEF StageOf
  <1>8. \A u \in Tasks \ {t} : task'[u] = task[u]
    BY <1>0, <1>1 DEF CompleteTask
  <1>9. \A u \in Tasks \ {t} : Members(u)' = Members(u)
    BY <1>8 DEF Members
  <1>10. CASE NextOffloadable(e)
    <2>1. task' = [task EXCEPT ![t].state = "INITIALIZED", ![t].elem = e + 1] /\ finished' = finished
      BY <1>0, <1>2, <1>10 DEF CompleteTask
    <2>2. task'[t].batches = task[t].batches /\ task'[t].elem = e + 1
      BY <1>1, <1>2, <2>1 DEF TaskType
    <2>3. Members(t)' = Members(t)
      BY <2>2 DEF Members
    <2>4. \A f \in Elems : DoneAt(f)' = DoneAt(f)
      BY <2>1 DEF DoneAt
    <2> HIDE DEF Members
    <2>5. ASSUME NEW b \in Members(t) PROVE Stage(b)' = k + 1
      <3>1. StageOf(b)' /\ b \in Members(t)'
        BY <1>4, <1>5, <2>3
      <3>2. Stage(b)' = task'[t].elem - 1
        BY <3>1 DEF StageOf
      <3>3. e \in Int
        BY <1>1 DEF Elems
      <3> QED BY <1>6, <2>2, <3>2, <3>3
    <2>6. ASSUME NEW c \in Batches \ Members(t) PROVE Stage(c)' = Stage(c)
      <3>1. ASSUME NEW u \in Tasks
            PROVE  /\ c \in Members(u)' <=> c \in Members(u)
                   /\ c \in Members(u) => task'[u].elem = task[u].elem
        BY <1>8, <1>9, <2>3, <2>6
      <3>2. StaysAt(c)
        BY <1>3, <2>4, <3>1 DEF StaysAt
      <3> QED BY <2>6, <3>2, StageKept
    <2>7. /\ \A b \in Members(t) : Stage(b) = k /\ Stage(b)' = k + 1
          /\ Others(Members(t)) /\ Members(t) \in SUBSET Batches
      BY <1>5, <1>7, <2>5, <2>6 DEF Others
    <2>8. Path!Next
      BY <2>7, Computed
    <2> QED BY <2>8 DEF PathStep
  <1>11. CASE ~NextOffloadable(e)
    <2>1. /\ finished' = [finished EXCEPT ![e] = @ \o task[t].batches]
          /\ task' = [task EXCEPT ![t] = FreshTask]
      BY <1>0, <1>2, <1>11 DEF CompleteTask
    <2>2. task'[t].batches = <<>>
      BY <1>1, <2>1 DEF FreshTask
    <2>3. Members(t)' = {}
      BY <2>2 DEF Members
    <2>4. \A f \in Elems \ {e} : DoneAt(f)' = DoneAt(f)
      BY <1>1, <2>1 DEF DoneAt
    <2>5. DoneAt(e)' = DoneAt(e) \cup Members(t)
      <3> DEFINE s == finished[e]
                 r == task[t].batches
      <3>1. finished'[e] = s \o r /\ s \in Seq(Batches) /\ r \in Seq(Batches)
        BY <1>1, <2>1
      <3>2. /\ s \o r \in Seq(Batches) /\ Len(s \o r) = Len(s) + Len(r)
            /\ \A i \in 1..Len(s) + Len(r) :
                  (s \o r)[i] = IF i <= Len(s) THEN s[i] ELSE r[i - Len(s)]
        BY <3>1, ConcatProperties
      <3>3. /\ DOMAIN s = 1..Len(s) /\ DOMAIN r = 1..Len(r) /\ DOMAIN (s \o r) = 1..Len(s) + Len(r)
            /\ Len(s) \in Nat /\ Len(r) \in Nat
        BY <3>1, <3>2, LenProperties
      <3>4. /\ DoneAt(e) = {s[i] : i \in 1..Len(s)} /\ Members(t) = {r[i] : i \in 1..Len(r)}
            /\ DoneAt(e)' = {(s \o r)[i] : i \in 1..Len(s) + Len(r)}
        BY <3>1, <3>3 DEF DoneAt, Members
      <3> HIDE DEF s, r
      <3>5. \A i \in 1..Len(s) : i \in 1..Len(s) + Len(r) /\ (s \o r)[i] = s[i]
        BY <3>2, <3>3
      <3>6. \A i \in 1..Len(r) : /\ Len(s) + i \in 1..Len(s) + Len(r)
                                 /\ (s \o r)[Len(s) + i] = r[i]
        <4> TAKE i \in 1..Len(r)
        <4>1. Len(s) + i \in 1..Len(s) + Len(r) /\ ~(Len(s) + i <= Len(s)) /\ (Len(s) + i) - Len(s) = i
          BY <3>3
        <4> QED BY <3>2, <4>1
      <3>7. \A i \in 1..Len(s) + Len(r) : \/ i \in 1..Len(s) /\ (s \o r)[i] = s[i]
                                          \/ /\ i - Len(s) \in 1..Len(r)
                                             /\ (s \o r)[i] = r[i - Len(s)]
        BY <3>2, <3>3
      <3> QED BY <3>4, <3>5, <3>6, <3>7
    <2> HIDE DEF Members, DoneAt
    <2>6. ASSUME NEW b \in Members(t) PROVE Stage(b)' = k + 1
      <3>1. StageOf(b)' /\ b \in DoneAt(e)'
        BY <1>4, <1>5, <2>5
      <3>2. Stage(b)' = e
        BY <1>1, <3>1 DEF StageOf
      <3>3. e \in Int
        BY <1>1 DEF Elems
      <3> QED BY <1>6, <3>2, <3>3
    <2>7. ASSUME NEW c \in Batches \ Members(t) PROVE Stage(c)' = Stage(c)
      <3>1. ASSUME NEW u \in Tasks
            PROVE  /\ c \in Members(u)' <=> c \in Members(u)
                   /\ c \in Members(u) => task'[u].elem = task[u].elem
        BY <1>8, <1>9, <2>3, <2>7
      <3>2. \A f \in Elems : c \in DoneAt(f)' <=> c \in DoneAt(f)
        BY <2>4, <2>5, <2>7
      <3>3. StaysAt(c)
        BY <1>3, <3>1, <3>2 DEF StaysAt
      <3> QED BY <2>7, <3>3, StageKept
    <2>8. /\ \A b \in Members(t) : Stage(b) = k /\ Stage(b)' = k + 1
          /\ Others(Members(t)) /\ Members(t) \in SUBSET Batches
      BY <1>5, <1>7, <2>6, <2>7 DEF Others
    <2>9. Path!Next
      BY <2>8, Computed
    <2> QED BY <2>9 DEF PathStep
  <1> QED BY <1>10, <1>11

\* The steps that touch finished lists.
LEMMA FinishedSteps ==
    ASSUME [Next]_vars
    PROVE  UNCHANGED finished \/ CompleteTask \/ \E e \in Elems : ScanBatch(e)
  BY OtherSteps DEF GetBatch, AbandonChunk, DelayBatch, ForwardBatch, StartSend, DelayTask,
                    OffloadBatch

LEMMA StepPath ==
    ASSUME PipelineInv, PipelineInv', [Next]_vars
    PROVE  PathStep
  <1>1. BatchInv /\ BatchInv' /\ TaskInv /\ TypeInv /\ PathInv
    BY DEF PipelineInv, DataInv, BatchInv, TaskInv
  <1>2. CASE CompleteTask
    BY <1>1, <1>2, CompletePath
  <1>3. ASSUME NEW b \in Batches, NEW t \in Tasks, OffloadBatch(b, t) PROVE PathStep
    BY <1>1, <1>3, OffloadPath
  <1>4. CASE ~CompleteTask /\ ~ \E b \in Batches, t \in Tasks : OffloadBatch(b, t)
    <2>1. UNCHANGED TaskBatches /\ \A u \in Tasks : task'[u].elem = task[u].elem
      BY <1>1, <1>4, TaskDataKept
    <2>2. CASE GetBatch \/ AbandonChunk
      BY <1>1, <2>1, <2>2, GetBatchPath
    <2>3. ASSUME NEW e \in Elems, ScanBatch(e) PROVE PathStep
      BY <1>1, <2>1, <2>3, ScanPath
    <2>4. ASSUME NEW b \in Batches, ForwardBatch(b) PROVE PathStep
      BY <1>1, <2>1, <2>4, ForwardPath
    <2>5. CASE /\ ~ GetBatch /\ ~ AbandonChunk /\ ~ \E e \in Elems : ScanBatch(e)
               /\ ~ \E b \in Batches : ForwardBatch(b)
      <3>1. finished' = finished
        BY <1>4, <2>5, FinishedSteps
      <3>2. pool' = pool /\ \A b \in Batches : Reached(b)' = Reached(b)
        <4>1. CASE UNCHANGED <<pool, batch>>
          BY <4>1 DEF Reached
        <4>2. CASE \E t \in Tasks : StartSend(t)
          BY <1>1, <4>2, TrackersOnly DEF Reached
        <4> QED BY <1>4, <2>5, <4>1, <4>2, BatchSteps
      <3>3. \A t \in Tasks : Members(t)' = Members(t)
        BY <2>1, MembersSame
      <3>4. \A e \in Elems : DoneAt(e)' = DoneAt(e)
        BY <3>1 DEF DoneAt
      <3>5. \A b \in Batches : StaysAt(b)
        BY <2>1, <3>2, <3>3, <3>4 DEF StaysAt
      <3> QED BY <1>1, <3>5, StageKept, Stuttered
    <2> QED BY <2>2, <2>3, <2>4, <2>5
  <1> QED BY <1>2, <1>3, <1>4

\* The pipeline implements ElementPath: whatever the threads, the device and
\* nested event loops do, a batch passes the elements of the chain one after
\* the other, each once, on the CPU or in the task of that element, and its
\* object is free again only when it has passed them all (PathSpec).
THEOREM PathsFollowed == Spec => PathSpec
  <1>1. Init => PipelineInv
    BY InitBatchInv, InitTaskInv, InitIoInv, InitTrackerInv, InitPathInv DEF PipelineInv, DataInv
  <1>2. Init => Path!Init
    BY DEF Init, Path!Init, Path!Idle, Stage
  <1>3. PipelineInv /\ PipelineInv' /\ [Next]_vars => [Path!Next]_([b \in Batches |-> Stage(b)])
    BY StepPath DEF PathStep, Stages
  <1> QED BY <1>1, <1>2, <1>3, StepPipelineInv, PTL DEF Spec, PathSpec, Path!Spec

=============================================================================
