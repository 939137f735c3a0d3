------------------------- MODULE PackPipelineProofs -------------------------
(* Theorems about PackPipeline, for every value of its constants. *)
EXTENDS PackPipeline, SequenceTheorems, TLAPS

USE DEF Tensors, Kinds

(* What a thread never touches. *)
LEMMA ProducerFrame ==
  Producer => UNCHANGED <<main, writer, finalizer, tasks, handed, published>>
  BY DEF Producer, ScanDense, ScanUnlisted, ScanCandidate, ScanEnd, Reserve,
     PutCandidate, ProducerFail

(* The main thread releases no bytes and never touches the writer's or the *)
(* finalizer's side of a queue.                                             *)
LEMMA MainFrame == Main => UNCHANGED <<producer, writer, finalizer, outstanding>>
  BY DEF Main, CheckLoop, TakeCandidate, GetTimeout, SkipSaturated,
     SubmitCodebook, SubmitIndices, SubmitReassignment, RefineScales,
     SubmitBarrier, HandOff, MainFail, JoinProducer, WriteDense,
     WriteDenseFail, StopFinalizer, DrainFinalizer, FlushWriter, OpenManifest,
     WriteManifest

(* The background writer only takes tasks. *)
LEMMA WriterFrame ==
  Writer => UNCHANGED <<producer, main, finalizer, outstanding, tasks, handed,
                        published>>
  BY DEF Writer, StartTask, FinishCodebook, FinishIndices, FinishBarrier,
     FailTask

(* The finalize worker only takes items, and gives bytes back. *)
LEMMA FinalizerFrame ==
  Finalizer => UNCHANGED <<producer, main, writer, tasks, handed, published>>
  BY DEF Finalizer, StartItem, FinalizeItem, FailItem, StopItem

-----------------------------------------------------------------------------
(* Type correctness. *)

(* Every step of _prefetch_worker, and what the others do to its queue and  *)
(* to the budget (reserve, release), keeps the producer's part typed.        *)
LEMMA ProducerTypeStep ==
  ASSUME TypeOK, [Next]_vars
  PROVE  ProducerTypeOK'
<1> USE PackAssumption DEF TypeOK, ProducerTypeOK
<1>1. CASE ScanDense
  BY <1>1 DEF ScanDense, main
<1>2. CASE ScanUnlisted
  BY <1>2 DEF ScanUnlisted, main
<1>3. CASE ScanCandidate
  BY <1>3 DEF ScanCandidate, main
<1>4. CASE ScanEnd
  BY <1>4 DEF ScanEnd, main
<1>5. CASE Reserve
  BY <1>5 DEF Reserve, Est, main
<1>6. CASE PutCandidate
  BY <1>6 DEF PutCandidate, main
<1>7. CASE ProducerFail
  BY <1>7 DEF ProducerFail, main
<1>8. CASE TakeCandidate
  BY <1>8 DEF TakeCandidate, producer
<1>9. CASE Main /\ ~TakeCandidate
  BY <1>9 DEF Main, CheckLoop, GetTimeout, SkipSaturated, SubmitCodebook,
     SubmitIndices, SubmitReassignment, RefineScales, SubmitBarrier, HandOff,
     MainFail, JoinProducer, WriteDense, WriteDenseFail, StopFinalizer,
     DrainFinalizer, FlushWriter, OpenManifest, WriteManifest, producer
<1>10. CASE Writer
  BY <1>10, WriterFrame DEF producer, main
<1>11. CASE Finalizer
  <2>1. CASE FinalizeItem
    <3>1. Item \in Tensors
      BY <2>1 DEF FinalizeItem, Finalizing, Item, Stop, FinalizerTypeOK
    <3> QED
      BY <2>1, <3>1 DEF FinalizeItem, Released, Est, producer, main
  <2>2. CASE outstanding' = outstanding
    BY <1>11, <2>2, FinalizerFrame DEF producer, main
  <2> QED
    BY <1>11, <2>1, <2>2 DEF Finalizer, StartItem, FailItem, StopItem
<1>12. CASE UNCHANGED vars
  BY <1>12 DEF vars, producer, main
<1> QED
  BY <1>1, <1>2, <1>3, <1>4, <1>5, <1>6, <1>7, <1>8, <1>9, <1>10, <1>11, <1>12
  DEF Next, Producer, Finished

(* The candidate main works on is a tensor, and stays the same while the    *)
(* prefetch log grows.                                                      *)
LEMMA CurType ==
  ASSUME TypeOK, taken > 0
  PROVE  Cur \in Tensors /\ Stages[Cur] \in Nat \ {0}
  BY PackAssumption DEF TypeOK, ProducerTypeOK, Cur

(* A put of the producer does not change what main has taken. *)
LEMMA CurStable ==
  ASSUME TypeOK, taken > 0, taken' = taken,
         prefetched' = prefetched \/ PutCandidate
  PROVE  Cur' = Cur
  BY DEF TypeOK, ProducerTypeOK, Cur, PutCandidate

(* The stage loop and the EM-AQ passes stay within the candidate's stages.  *)
LEMMA CursorStep ==
  ASSUME TypeOK, [Next]_vars
  PROVE  CursorOK'
<1> USE DEF TypeOK, CursorOK, Working
<1>1. CASE TakeCandidate
  <2>1. taken' > 0 /\ stage' = 1 /\ prefetched' = prefetched
    BY <1>1 DEF TakeCandidate, producer, ProducerTypeOK
  <2>2. Cur' = prefetched[taken + 1] /\ taken + 1 \in 1..Len(prefetched)
    BY <1>1, <2>1 DEF TakeCandidate, ProducerTypeOK, Cur
  <2>3. Cur' \in Tensors
    BY <2>2, ElementOfSeq DEF ProducerTypeOK
  <2> QED
    BY <2>1, <2>3, PackAssumption
<1>2. CASE mpc \in {"codebook", "indices", "reassign"} /\ Main
  <2>1. taken' = taken /\ taken > 0 /\ stage <= Stages[Cur] /\ Cur' = Cur
    <3>1. taken > 0 /\ stage <= Stages[Cur]
      BY <1>2
    <3>2. taken' = taken
      BY <1>2 DEF Main, CheckLoop, TakeCandidate, GetTimeout, SkipSaturated,
         SubmitCodebook, SubmitIndices, SubmitReassignment, RefineScales,
         SubmitBarrier, HandOff, MainFail, JoinProducer, WriteDense,
         WriteDenseFail, StopFinalizer, DrainFinalizer, FlushWriter,
         OpenManifest, WriteManifest
    <3> QED
      BY <1>2, <3>1, <3>2, CurStable, MainFrame DEF producer
  <2>2. Stages[Cur] \in Nat \ {0} /\ stage \in Nat
    BY <2>1, CurType DEF MainTypeOK
  <2>3. stage' \in {stage, 1} \/ (stage # Stages[Cur] /\ stage' = stage + 1)
    BY <1>2 DEF Main, CheckLoop, TakeCandidate, GetTimeout, SkipSaturated,
       SubmitCodebook, SubmitIndices, SubmitReassignment, RefineScales,
       SubmitBarrier, HandOff, MainFail, JoinProducer, WriteDense,
       WriteDenseFail, StopFinalizer, DrainFinalizer, FlushWriter,
       OpenManifest, WriteManifest, NextStage, LastStage
  <2> QED
    BY <2>1, <2>2, <2>3
<1>3. CASE /\ Main /\ ~TakeCandidate
           /\ mpc \notin {"codebook", "indices", "reassign"}
  <2>1. taken' = taken /\ stage' = stage /\ (Working' => Working)
    BY <1>3 DEF Main, CheckLoop, GetTimeout, SkipSaturated,
       SubmitCodebook, SubmitIndices, SubmitReassignment, RefineScales,
       SubmitBarrier, HandOff, MainFail, JoinProducer, WriteDense,
       WriteDenseFail, StopFinalizer, DrainFinalizer, FlushWriter,
       OpenManifest, WriteManifest
  <2> QED
    BY <1>3, <2>1, CurStable, MainFrame DEF producer
<1>4. CASE Producer
  <2>1. prefetched' = prefetched \/ PutCandidate
    BY <1>4 DEF Producer, ScanDense, ScanUnlisted, ScanCandidate, ScanEnd,
       Reserve, ProducerFail
  <2> QED
    BY <1>4, <2>1, CurStable, ProducerFrame DEF main
<1>5. CASE Writer \/ Finalizer \/ UNCHANGED vars
  BY <1>5, CurStable, WriterFrame, FinalizerFrame DEF vars, producer, main
<1> QED
  BY <1>1, <1>2, <1>3, <1>4, <1>5 DEF Next, Finished

(* The consumer loop, the strategies and the commit keep main's part typed. *)
LEMMA MainTypeStep ==
  ASSUME TypeOK, [Next]_vars
  PROVE  MainTypeOK'
<1> USE DEF TypeOK, MainTypeOK, MainStates
<1>1. CASE TakeCandidate
  BY <1>1, PackAssumption DEF TakeCandidate
<1>2. CASE mpc \in {"codebook", "indices", "reassign"} /\ Main
  <2> USE DEF Main, CheckLoop, TakeCandidate, GetTimeout, SkipSaturated,
         SubmitCodebook, SubmitIndices, SubmitReassignment, RefineScales,
         SubmitBarrier, HandOff, MainFail, JoinProducer, WriteDense,
         WriteDenseFail, StopFinalizer, DrainFinalizer, FlushWriter,
         OpenManifest, WriteManifest
  <2>1. UNCHANGED <<fit, dense, published>>
    BY <1>2
  <2>2. stage' \in {stage, 1, stage + 1}
    BY <1>2 DEF NextStage
  <2>3. pass' \in {pass, 1} \/ (pass < EmPasses /\ pass' = pass + 1)
    BY <1>2 DEF NextStage, NextPhase
  <2>4. mpc' \in MainStates
    BY <1>2 DEF NextStage, NextPhase, AfterStrategies
  <2> QED
    BY <2>1, <2>2, <2>3, <2>4, PackAssumption
<1>3. CASE RefineScales
  BY <1>3 DEF RefineScales
<1>4. CASE SubmitBarrier \/ CheckLoop \/ GetTimeout \/ HandOff \/ JoinProducer
           \/ WriteDenseFail \/ StopFinalizer \/ DrainFinalizer \/ FlushWriter
  BY <1>4 DEF SubmitBarrier, CheckLoop, GetTimeout, HandOff, JoinProducer,
     WriteDenseFail, StopFinalizer, DrainFinalizer, FlushWriter
<1>5. CASE WriteDense
  BY <1>5 DEF WriteDense, ProducerTypeOK
<1>6. CASE OpenManifest \/ WriteManifest
  <2>1. PICK st \in {"torn", "complete"}, es \in Seq(Entries) :
          published' = [state |-> st, entries |-> es]
    <3>1. <<>> \in Seq(Entries) /\ manifest \in Seq(Entries)
      BY EmptySeq DEF FinalizerTypeOK
    <3> QED
      BY <1>6, <3>1 DEF OpenManifest, WriteManifest
  <2> QED
    BY <1>6, <2>1 DEF OpenManifest, WriteManifest
<1>7. CASE Producer \/ Writer \/ Finalizer \/ UNCHANGED vars
  BY <1>7, ProducerFrame, WriterFrame, FinalizerFrame DEF vars, main
<1> QED
  BY <1>1, <1>2, <1>3, <1>4, <1>5, <1>6, <1>7
  DEF Next, Main, Finished, SkipSaturated, SubmitCodebook, SubmitIndices,
      SubmitReassignment, MainFail

(* What main may add to the writer's queue. *)
LEMMA WriteType ==
  ASSUME TypeOK, Working, NEW k \in FileKinds
  PROVE  Write(k) \in Writes
<1>1. taken > 0 /\ Cur \in Tensors /\ Stages[Cur] \in Nat \ {0}
  BY CurType DEF TypeOK, CursorOK
<1>2. stage \in 1..Stages[Cur]
  BY <1>1 DEF TypeOK, CursorOK, MainTypeOK
<1>3. <<Cur, stage>> \in {Cur} \X (1..Stages[Cur])
  BY <1>2
<1>4. <<Cur, stage>> \in StageIds
  BY <1>1, <1>3 DEF StageIds
<1>5. pass \in Versions
  BY PackAssumption DEF TypeOK, MainTypeOK, Versions, Absent
<1> QED
  BY <1>4, <1>5 DEF Write, Writes

(* What the writer may find in its queue. *)
LEMMA TaskType ==
  ASSUME TypeOK, NEW k \in 1..Len(tasks)
  PROVE  /\ tasks[k].kind \in {"codebook", "indices", "barrier"}
         /\ tasks[k].kind = "barrier" => tasks[k].tensor \in Tensors
         /\ tasks[k].kind # "barrier" =>
              /\ tasks[k].sid \in StageIds /\ tasks[k].ver \in Versions
              /\ <<tasks[k].sid, tasks[k].kind>> \in Files
<1>1. tasks[k] \in Writes \cup Barriers
  BY ElementOfSeq DEF TypeOK, WriterTypeOK
<1> QED
  BY <1>1 DEF Writes, Barriers, FileKinds, Files

(* Submissions of main and the tasks of the writer keep the writer's queue  *)
(* within its maxsize and its files and encodings typed.                    *)
LEMMA WriterTypeStep ==
  ASSUME TypeOK, [Next]_vars
  PROVE  WriterTypeOK'
<1> USE PackAssumption DEF WriterTypeOK
<1>0. WriterTypeOK
  BY DEF TypeOK
<1>1. ASSUME NEW t \in Writes \cup Barriers, Submit(t), UNCHANGED writer
      PROVE  WriterTypeOK'
  BY <1>0, <1>1 DEF Submit, writer
<1>2. CASE SubmitCodebook
  BY <1>1, <1>2, WriteType DEF SubmitCodebook, Working, FileKinds
<1>3. CASE SubmitIndices
  BY <1>1, <1>3, WriteType DEF SubmitIndices, Working, FileKinds
<1>4. CASE SubmitReassignment
  BY <1>1, <1>4, WriteType DEF SubmitReassignment, Working, FileKinds
<1>5. CASE SubmitBarrier
  <2>1. [kind |-> "barrier", tensor |-> Cur] \in Barriers
    BY <1>5, CurType DEF SubmitBarrier, TypeOK, CursorOK, Working, Barriers
  <2> QED
    BY <1>1, <1>5, <2>1 DEF SubmitBarrier
<1>6. CASE /\ Main
           /\ ~(SubmitCodebook \/ SubmitIndices \/ SubmitReassignment
                                \/ SubmitBarrier)
  <2>1. UNCHANGED <<tasks, writer>>
    BY <1>6, MainFrame DEF Main, CheckLoop, TakeCandidate, GetTimeout,
       SkipSaturated, RefineScales, HandOff, MainFail, JoinProducer, WriteDense,
       WriteDenseFail, StopFinalizer, DrainFinalizer, FlushWriter, OpenManifest,
       WriteManifest
  <2> QED
    BY <1>0, <2>1 DEF writer
<1>7. CASE StartTask
  <2>1. got + 1 \in 1..Len(tasks)
    BY <1>0, <1>7 DEF StartTask
  <2>2. disk' \in [Files -> Versions]
    BY <1>0, <1>7, <2>1, TaskType DEF StartTask, Versions, Torn, Absent
  <2> QED
    BY <1>0, <1>7, <2>2 DEF StartTask, Writing
<1>8. CASE FinishCodebook \/ FinishIndices \/ FinishBarrier \/ FailTask
  <2>1. got \in 1..Len(tasks) /\ written' = got /\ UNCHANGED <<got, tasks>>
    BY <1>0, <1>8 DEF FinishCodebook, FinishIndices, FinishBarrier, FailTask,
       Writing
  <2>2. disk' \in [Files -> Versions]
    BY <1>0, <1>8, <2>1, TaskType DEF FinishCodebook, FinishIndices,
       FinishBarrier, FailTask, Task
  <2>3. codec' \in [StageIds -> Codecs] /\ meta' \in [StageIds -> Codecs]
    <3>1. CASE FinishIndices
      <4>1. Task.sid \in StageIds
        BY <1>8, <2>1, <3>1, TaskType DEF FinishIndices, Task
      <4>2. PickCodec(Task.sid) \subseteq Codecs
        BY <1>0, <4>1 DEF PickCodec, Codecs
      <4>3. PICK e \in Codecs : /\ codec' = [codec EXCEPT ![Task.sid] = e]
                                /\ meta' = [meta EXCEPT ![Task.sid] = e]
        BY <3>1, <4>2 DEF FinishIndices
      <4> QED
        BY <1>0, <4>3
    <3>2. CASE ~FinishIndices
      BY <1>0, <1>8, <3>2 DEF FinishCodebook, FinishBarrier, FailTask
    <3> QED
      BY <3>1, <3>2
  <2>4. barriers' \subseteq Tensors /\ writeErrors' \in BOOLEAN
    BY <1>0, <1>8, <2>1, TaskType DEF FinishCodebook, FinishIndices,
       FinishBarrier, FailTask, Task
  <2> QED
    BY <1>0, <2>1, <2>2, <2>3, <2>4
<1>9. CASE Producer \/ Finalizer \/ UNCHANGED vars
  BY <1>0, <1>9, ProducerFrame, FinalizerFrame DEF vars, writer
<1> QED
  BY <1>2, <1>3, <1>4, <1>5, <1>6, <1>7, <1>8, <1>9 DEF Next, Writer, Finished

(* A manifest entry reads files and encodings of its own tensor. *)
LEMMA EntryType ==
  ASSUME WriterTypeOK, NEW t \in Tensors
  PROVE  Entry(t) \in Entries
<1> DEFINE Row(i) == [bytes |-> disk[<<<<t, i>>, "indices">>],
                      encoding |-> meta[<<t, i>>]]
           Rows == [i \in 1..Stages[t] |-> Row(i)]
<1>1. Stages[t] \in Nat
  BY PackAssumption
<1>2. ASSUME NEW i \in 1..Stages[t]
      PROVE  Row(i) \in [bytes : Versions, encoding : Codecs]
  <2>1. <<t, i>> \in StageIds
    <3>1. <<t, i>> \in {t} \X (1..Stages[t])
      BY <1>2
    <3> QED
      BY <3>1 DEF StageIds
  <2>2. <<<<t, i>>, "indices">> \in Files
    BY <2>1 DEF Files, FileKinds
  <2> QED
    BY <2>1, <2>2 DEF WriterTypeOK
<1>3. Rows \in [1..Stages[t] -> [bytes : Versions, encoding : Codecs]]
  <2> HIDE DEF Row
  <2> QED
    BY <1>2
<1>4. Rows \in Seq([bytes : Versions, encoding : Codecs])
  BY <1>1, <1>3, SeqDef
<1> QED
  BY <1>4 DEF Entry, Entries

(* Hand-overs, the sentinel and the finalizer's items keep the finalize     *)
(* queue within its maxsize and the manifest typed.                         *)
LEMMA FinalizerTypeStep ==
  ASSUME TypeOK, [Next]_vars
  PROVE  FinalizerTypeOK'
<1> USE PackAssumption DEF FinalizerTypeOK
<1>0. FinalizerTypeOK
  BY DEF TypeOK
<1>1. CASE HandOff
  <2>1. Cur \in Tensors
    BY <1>1, CurType DEF HandOff, TypeOK, CursorOK, Working
  <2> QED
    BY <1>0, <1>1, <2>1 DEF HandOff, FinalizeSlotFree, finalizer
<1>2. CASE StopFinalizer
  BY <1>0, <1>2 DEF StopFinalizer, FinalizeSlotFree, Stop, finalizer
<1>3. CASE Main /\ ~HandOff /\ ~StopFinalizer
  <2>1. UNCHANGED <<handed, finalizer>>
    BY <1>3, MainFrame DEF Main, CheckLoop, TakeCandidate, GetTimeout,
       SkipSaturated, SubmitCodebook, SubmitIndices, SubmitReassignment,
       RefineScales, SubmitBarrier, MainFail, JoinProducer, WriteDense,
       WriteDenseFail, DrainFinalizer, FlushWriter, OpenManifest, WriteManifest
  <2> QED
    BY <1>0, <2>1 DEF finalizer
<1>4. CASE StartItem
  BY <1>0, <1>4 DEF StartItem, Finalizing
<1>5. CASE FinalizeItem
  <2>1. fgot \in 1..Len(handed) /\ fdone' = fgot /\ UNCHANGED <<fgot, handed>>
    BY <1>0, <1>5 DEF FinalizeItem, Finalizing
  <2>2. Item \in Tensors
    BY <1>0, <1>5, <2>1 DEF FinalizeItem, Item
  <2>3. Entry(Item) \in Entries
    BY <2>2, EntryType DEF TypeOK
  <2> QED
    BY <1>0, <1>5, <2>1, <2>3 DEF FinalizeItem
<1>6. CASE FailItem \/ StopItem
  <2>1. UNCHANGED <<fgot, handed, manifest>>
    BY <1>6 DEF FailItem, StopItem
  <2>2. fdone' = fgot
    BY <1>0, <1>6 DEF FailItem, StopItem, Finalizing
  <2>3. fErrors' \in BOOLEAN
    BY <1>0, <1>6, Zenon DEF FailItem, StopItem
  <2> QED
    BY <1>0, <2>1, <2>2, <2>3
<1>7. CASE Producer \/ Writer \/ UNCHANGED vars
  BY <1>0, <1>7, ProducerFrame, WriterFrame DEF vars, finalizer
<1> QED
  BY <1>1, <1>2, <1>3, <1>4, <1>5, <1>6, <1>7 DEF Next, Finalizer, Finished

(* The state pack_checkpoint sets up before it starts its threads. *)
LEMMA TypeInit == Init => TypeOK
<1> SUFFICES ASSUME Init PROVE TypeOK
  OBVIOUS
<1> USE PackAssumption DEF Init
<1>0. \A S : <<>> \in Seq(S) /\ Len(<<>>) = 0
  BY EmptySeq
<1>1. ProducerTypeOK
  <2>1. prefetched \in Seq(Tensors) /\ Len(prefetched) = 0 /\ taken = 0
    BY <1>0
  <2>2. ppc = "scan" /\ pos = 1 /\ candidates = 0 /\ outstanding = 0
        /\ passthrough = {}
    OBVIOUS
  <2>3. exc \in BOOLEAN
    BY Zenon
  <2> HIDE DEF Init
  <2> QED
    BY <2>1, <2>2, <2>3 DEF ProducerTypeOK
<1>2. MainTypeOK /\ CursorOK
  <2>1. published \in [state : {"absent", "torn", "complete"},
                       entries : Seq(Entries)]
    BY <1>0
  <2> QED
    BY <2>1 DEF MainTypeOK, MainStates, CursorOK, Working
<1>3. WriterTypeOK
  <2>1. disk \in [Files -> Versions]
    BY DEF Versions, Absent
  <2>2. codec \in [StageIds -> Codecs] /\ meta \in [StageIds -> Codecs]
    BY DEF Codecs
  <2>3. tasks \in Seq(Writes \cup Barriers) /\ Len(tasks) = 0
    BY <1>0
  <2>4. got = 0 /\ written = 0 /\ barriers = {}
    OBVIOUS
  <2>5. writeErrors \in BOOLEAN
    BY Zenon
  <2> HIDE DEF Init
  <2> QED
    BY <2>1, <2>2, <2>3, <2>4, <2>5 DEF WriterTypeOK
<1>4. FinalizerTypeOK
  <2>1. /\ handed \in Seq(Tensors \cup {Stop}) /\ Len(handed) = 0
        /\ manifest \in Seq(Entries)
    BY <1>0
  <2>2. fgot = 0 /\ fdone = 0
    OBVIOUS
  <2>3. fErrors \in BOOLEAN
    BY Zenon
  <2> HIDE DEF Init
  <2> QED
    BY <2>1, <2>2, <2>3 DEF FinalizerTypeOK
<1> QED
  BY <1>1, <1>2, <1>3, <1>4 DEF TypeOK

(* Every step of the four threads keeps the state typed. *)
LEMMA TypeStep ==
  ASSUME TypeOK, [Next]_vars
  PROVE  TypeOK'
  BY ProducerTypeStep, MainTypeStep, CursorStep, WriterTypeStep,
     FinalizerTypeStep DEF TypeOK

(* Every state of every run is well typed: the three queues never exceed    *)
(* their maxsize, no queue is read past its end, a worker holds one item at *)
(* a time, and main never indexes a stage beyond those of its candidate.    *)
THEOREM TypeCorrect == Spec => []TypeOK
<1>1. TypeOK /\ [Next]_vars => TypeOK'
  BY TypeStep
<1> QED
  BY <1>1, TypeInit, PTL DEF Spec

-----------------------------------------------------------------------------
(* No error is lost.  A thread that has ended, or has nothing left to do,   *)
(* cannot record an error any more: main looks at each thread's errors      *)
(* after it has waited for it, and submits it nothing afterwards.           *)

PastJoin  == {"dense", "sentinel", "drain", "flush", "commit", "committing",
              "returned"}
PastDrain == {"flush", "commit", "committing", "returned"}
PastFlush == {"commit", "committing", "returned"}

ErrorsInv ==
  /\ mpc \in PastJoin  => ppc = "done" /\ ~exc
  /\ mpc \in PastDrain => fdone = Len(handed) /\ ~fErrors
  /\ mpc \in PastFlush => written = Len(tasks) /\ ~writeErrors

(* Induction step for ErrorsInv, one case per thread. *)
LEMMA ErrorsStep ==
  ASSUME TypeOK, ErrorsInv, [Next]_vars
  PROVE  ErrorsInv'
<1> USE DEF ErrorsInv, PastJoin, PastDrain, PastFlush
<1>1. CASE Producer
  <2>1. ppc # "done"
    BY <1>1 DEF Producer, ScanDense, ScanUnlisted, ScanCandidate, ScanEnd,
       Reserve, PutCandidate, ProducerFail
  <2> QED
    BY <1>1, <2>1, ProducerFrame DEF main, writer, finalizer
<1>2. CASE Writer
  <2>1. mpc \notin PastFlush
    BY <1>2 DEF Writer, StartTask, FinishCodebook, FinishIndices,
       FinishBarrier, FailTask, Writing, TypeOK, WriterTypeOK
  <2> QED
    BY <1>2, <2>1, WriterFrame DEF producer, main, finalizer
<1>3. CASE Finalizer
  <2>1. mpc \notin PastDrain
    BY <1>3 DEF Finalizer, StartItem, FinalizeItem, FailItem, StopItem,
       Finalizing, TypeOK, FinalizerTypeOK
  <2> QED
    BY <1>3, <2>1, FinalizerFrame DEF producer, main
<1>4. CASE JoinProducer
  BY <1>4 DEF JoinProducer, producer
<1>5. CASE WriteDense \/ WriteDenseFail \/ StopFinalizer
  BY <1>5 DEF WriteDense, WriteDenseFail, StopFinalizer, producer
<1>6. CASE DrainFinalizer
  BY <1>6 DEF DrainFinalizer, producer, finalizer
<1>7. CASE FlushWriter
  BY <1>7 DEF FlushWriter, WriterIdle, producer, finalizer, writer
<1>8. CASE OpenManifest \/ WriteManifest
  BY <1>8 DEF OpenManifest, WriteManifest, producer, finalizer, writer
<1>9. CASE CheckLoop \/ TakeCandidate \/ GetTimeout \/ SkipSaturated
           \/ SubmitCodebook \/ SubmitIndices \/ SubmitReassignment
           \/ RefineScales \/ SubmitBarrier \/ HandOff \/ MainFail
  <2>1. mpc' \notin PastJoin
    BY <1>9 DEF CheckLoop, TakeCandidate, GetTimeout, SkipSaturated,
       SubmitCodebook, SubmitIndices, SubmitReassignment, RefineScales,
       SubmitBarrier, HandOff, MainFail, NextStage, NextPhase, AfterStrategies
  <2> QED
    BY <2>1
<1>10. CASE UNCHANGED vars
  BY <1>10 DEF vars, producer, main, writer, finalizer
<1> QED
  BY <1>1, <1>2, <1>3, <1>4, <1>5, <1>6, <1>7, <1>8, <1>9, <1>10
  DEF Next, Main, Finished

(* Main has looked at what it has waited for. *)
LEMMA ErrorsInvariant == Spec => []ErrorsInv
<1>1. Init => ErrorsInv
  BY DEF Init, ErrorsInv, PastJoin, PastDrain, PastFlush
<1>2. TypeOK /\ ErrorsInv /\ [Next]_vars => ErrorsInv'
  BY ErrorsStep
<1> QED
  BY <1>1, <1>2, TypeCorrect, PTL DEF Spec

(* pack_checkpoint never writes a manifest, nor returns, once the producer, *)
(* the background writer or the finalize worker has recorded an error.      *)
THEOREM ErrorsAlwaysSurface == Spec => []ErrorsSurface
<1>1. ErrorsInv => ErrorsSurface
  BY DEF ErrorsInv, ErrorsSurface, PastJoin, PastDrain, PastFlush
<1> QED
  BY <1>1, ErrorsInvariant, PTL

-----------------------------------------------------------------------------
(* Backpressure. *)

(* Between two candidates main has handed over all it took. *)
HandOverInv ==
  /\ taken <= Len(handed) + 1
  /\ mpc \notin {"codebook", "indices", "reassign", "scale", "barrier",
                 "handoff", "raised"} => taken <= Len(handed)

(* Main is at most FinalizeDepth + 2 candidates ahead of the finalizer: one *)
(* in its hands, the queue, and one being finalized.  The payloads alive    *)
(* behind the GPU thread are bounded whatever the speed of the finalizer.   *)
THEOREM TakenAlwaysBounded == Spec => []TakenBounded
<1> USE DEF HandOverInv
<1>1. Init => HandOverInv
  BY EmptySeq DEF Init
<1>2. ASSUME TypeOK, HandOverInv, [Next]_vars
      PROVE  HandOverInv'
  <2> USE <1>2 DEF TypeOK, ProducerTypeOK, FinalizerTypeOK
  <2>0. taken \in Nat /\ Len(handed) \in Nat
    OBVIOUS
  <2>1. CASE TakeCandidate
    BY <2>0, <2>1 DEF TakeCandidate
  <2>2. CASE HandOff
    <3>1. Len(handed') = Len(handed) + 1 /\ taken' = taken
      BY <2>2, CurType DEF HandOff, CursorOK, Working
    <3> QED
      BY <2>0, <2>2, <3>1
  <2>3. CASE StopFinalizer
    <3>1. Len(handed') = Len(handed) + 1 /\ taken' = taken
      BY <2>3 DEF StopFinalizer
    <3> QED
      BY <2>0, <2>3, <3>1
  <2>4. CASE Main /\ ~TakeCandidate /\ ~HandOff /\ ~StopFinalizer
    <3>1. UNCHANGED <<taken, handed>>
      BY <2>4 DEF Main, CheckLoop, GetTimeout, SkipSaturated, SubmitCodebook,
         SubmitIndices, SubmitReassignment, RefineScales, SubmitBarrier,
         MainFail, JoinProducer, WriteDense, WriteDenseFail, DrainFinalizer,
         FlushWriter, OpenManifest, WriteManifest
    <3>2. mpc \in {"codebook", "indices", "reassign", "scale", "barrier",
                   "handoff", "raised"} =>
            mpc' \in {"codebook", "indices", "reassign", "scale", "barrier",
                      "handoff", "raised"}
      BY <2>4 DEF Main, CheckLoop, GetTimeout, SkipSaturated, SubmitCodebook,
         SubmitIndices, SubmitReassignment, RefineScales, SubmitBarrier,
         MainFail, JoinProducer, WriteDense, WriteDenseFail, DrainFinalizer,
         FlushWriter, OpenManifest, WriteManifest, NextStage, NextPhase,
         AfterStrategies
    <3> QED
      BY <3>1, <3>2
  <2>5. CASE Producer \/ Writer \/ Finalizer \/ UNCHANGED vars
    <3>1. UNCHANGED <<mpc, taken, handed>>
      BY <2>5, ProducerFrame, WriterFrame, FinalizerFrame DEF vars, main
    <3> QED
      BY <3>1
  <2> QED
    BY <2>1, <2>2, <2>3, <2>4, <2>5 DEF Next, Finished
<1>3. TypeOK /\ HandOverInv => TakenBounded
  BY PackAssumption DEF TypeOK, ProducerTypeOK, FinalizerTypeOK, TakenBounded
<1> QED
  BY <1>1, <1>2, <1>3, TypeCorrect, PTL DEF Spec

(* A rewrite is forced to the encoding _write_stage_indices recorded with   *)
(* the first write.                                                         *)
LEMMA CodecPinned ==
  ASSUME TypeOK, [Next]_vars, NEW s \in StageIds, meta[s] # None
  PROVE  meta'[s] = meta[s]
<1>1. CASE FinishIndices
  BY <1>1 DEF FinishIndices, PickCodec, TypeOK, WriterTypeOK
<1>2. CASE ~FinishIndices
  BY <1>2, ProducerFrame, MainFrame, FinalizerFrame
  DEF Next, Finished, Writer, StartTask, FinishCodebook, FinishBarrier,
      FailTask, writer, vars
<1> QED
  BY <1>1, <1>2

-----------------------------------------------------------------------------
(* The files of a tensor.  Main queues writes and barriers, the writer      *)
(* works them off in order; what a reader of a file finds is told from the  *)
(* log `tasks' alone, as long as no write has failed.                       *)

(* A task of the writer's log that writes file f. *)
Hits(task, f) == task.kind # "barrier" /\ <<task.sid, task.kind>> = f

(* The last write of f in a log leaves version v. *)
LastIn(log, f, v) ==
  \E k \in 1..Len(log) :
    /\ Hits(log[k], f) /\ log[k].ver = v
    /\ \A j \in (k + 1)..Len(log) : ~Hits(log[j], f)

(* Main may still rewrite files of its candidate, or has yet to queue the   *)
(* barrier behind them.                                                     *)
Open == mpc \in {"codebook", "indices", "reassign", "scale", "barrier"}

(* What the gates of the strategies guarantee while they run. *)
PhaseOK ==
  /\ (mpc \in {"codebook", "indices"} /\ pass > 0) =>
       (Refined(Cur) /\ pass <= EmPasses)
  /\ mpc = "reassign" => (Compensated(Cur) /\ pass = 1)
  /\ mpc = "indices" => ~SkipStage

(* The file has been written in the pass that is going on. *)
Seen(f) ==
  \/ f[1][2] < stage
  \/ f[1][2] = stage /\ mpc = "indices" /\ f[2] = "codebook"

(* The version the log leaves in a file of main's candidate (negative: the  *)
(* file has not been written yet).                                          *)
QueuedVersion(f) ==
  IF mpc \in {"scale", "barrier"} THEN FinalVersion(f)
  ELSE IF mpc = "reassign"
    THEN IF f[2] = "indices" /\ f[1][2] < stage THEN 1 ELSE 0
  ELSE IF pass > 0 /\ f[1] \in Saturated THEN 0
  ELSE IF Seen(f) THEN pass ELSE pass - 1

CurInv ==
  Open => /\ PhaseOK
          /\ \A f \in FilesOf(Cur) :
               QueuedVersion(f) >= 0 => LastIn(tasks, f, QueuedVersion(f))

(* The candidates enter in checkpoint order, each once. *)
OrderInv ==
  /\ \A m, n \in 1..Len(prefetched) : m < n => prefetched[m] < prefetched[n]
  /\ \A n \in 1..Len(prefetched) : prefetched[n] < pos

(* A barrier in the log is behind the last write of its tensor. *)
BarrierInv ==
  \A b \in 1..Len(tasks) : tasks[b].kind = "barrier" =>
    /\ \E n \in 1..taken : prefetched[n] = tasks[b].tensor
    /\ Open => tasks[b].tensor # Cur
    /\ \A f \in FilesOf(tasks[b].tensor) :
         /\ LastIn(tasks, f, FinalVersion(f))
         /\ \A j \in (b + 1)..Len(tasks) : ~Hits(tasks[j], f)

(* A task that has been done is visible on disk until a later one that      *)
(* writes the same file has been started.                                   *)
DiskInv ==
  ~writeErrors =>
    \A k \in 1..written : tasks[k].kind # "barrier" =>
      \/ disk[<<tasks[k].sid, tasks[k].kind>>] = tasks[k].ver
      \/ \E j \in (k + 1)..got :
           Hits(tasks[j], <<tasks[k].sid, tasks[k].kind>>)

(* An Event is set by a barrier task that has been done. *)
SetInv ==
  \A t \in barriers : \E b \in 1..written :
    tasks[b].kind = "barrier" /\ tasks[b].tensor = t

(* The encoding a stream has is the recorded one; a stream that has been    *)
(* written has one.                                                         *)
CodecInv ==
  /\ codec = meta
  /\ ~writeErrors =>
       \A k \in 1..written :
         tasks[k].kind = "indices" => meta[tasks[k].sid] # None

(* A manifest entry was read behind the tensor's barrier. *)
EntryInv ==
  \A k \in 1..Len(manifest) :
    /\ manifest[k].name \in barriers
    /\ DOMAIN manifest[k].index = 1..Stages[manifest[k].name]
    /\ ~writeErrors =>
         \A i \in 1..Stages[manifest[k].name] :
           LET sid == <<manifest[k].name, i>> IN
           /\ manifest[k].index[i].bytes = FinalVersion(<<sid, "indices">>)
           /\ manifest[k].index[i].encoding = meta[sid]

(* Each file of a tensor is named by a stage and a kind. *)
LEMMA FileForm ==
  ASSUME NEW t \in Tensors, NEW f \in FilesOf(t)
  PROVE  /\ f \in Files /\ f[1] \in StageIds /\ f[2] \in FileKinds
         /\ f[1][2] \in 1..Stages[t] /\ f[1] = <<t, f[1][2]>>
         /\ f = <<<<t, f[1][2]>>, f[2]>>
<1>1. f \in Files /\ f[1][1] = t
  BY DEF FilesOf
<1>2. f[1] \in StageIds /\ f[2] \in FileKinds /\ f = <<f[1], f[2]>>
  BY <1>1 DEF Files
<1>3. PICK u \in Tensors : f[1] \in {u} \X (1..Stages[u])
  BY <1>2 DEF StageIds
<1>4. u = t /\ f[1][2] \in 1..Stages[t] /\ f[1] = <<t, f[1][2]>>
  BY <1>1, <1>3
<1> QED
  BY <1>1, <1>2, <1>4

(* And each stage of a tensor has its two files. *)
LEMMA FileOfStage ==
  ASSUME NEW t \in Tensors, NEW i \in 1..Stages[t], NEW k \in FileKinds
  PROVE  /\ <<t, i>> \in StageIds
         /\ <<<<t, i>>, k>> \in FilesOf(t) /\ <<<<t, i>>, k>> \in Files
<1>1. <<t, i>> \in {t} \X (1..Stages[t])
  OBVIOUS
<1>2. <<t, i>> \in StageIds
  BY <1>1 DEF StageIds
<1> QED
  BY <1>2 DEF Files, FilesOf

(* BackgroundWriter.submit appends to the log and changes nothing in it. *)
LEMMA LogGrows ==
  ASSUME TypeOK, NEW task, Submit(task)
  PROVE  /\ Len(tasks') = Len(tasks) + 1
         /\ \A k \in 1..Len(tasks) : tasks'[k] = tasks[k]
         /\ tasks'[Len(tasks) + 1] = task
         /\ Len(tasks) \in Nat
  BY AppendProperties DEF TypeOK, WriterTypeOK, Submit

(* A submitted write is the last of its file. *)
LEMMA LastSubmitted ==
  ASSUME TypeOK, NEW task, Submit(task), task.kind # "barrier"
  PROVE  LastIn(tasks', <<task.sid, task.kind>>, task.ver)
  BY LogGrows DEF LastIn, Hits

(* It leaves the last write of every other file the last. *)
LEMMA LastStays ==
  ASSUME TypeOK, NEW task, Submit(task), NEW f, NEW v, LastIn(tasks, f, v),
         ~Hits(task, f)
  PROVE  LastIn(tasks', f, v)
<1>1. PICK k \in 1..Len(tasks) :
        /\ Hits(tasks[k], f) /\ tasks[k].ver = v
        /\ \A j \in (k + 1)..Len(tasks) : ~Hits(tasks[j], f)
  BY DEF LastIn
<1>2. k \in 1..Len(tasks') /\ Hits(tasks'[k], f) /\ tasks'[k].ver = v
  BY <1>1, LogGrows
<1>3. ASSUME NEW j \in (k + 1)..Len(tasks')
      PROVE  ~Hits(tasks'[j], f)
  <2>1. \/ j \in 1..Len(tasks) /\ j \in (k + 1)..Len(tasks)
        \/ j = Len(tasks) + 1
    BY <1>1, <1>3, LogGrows
  <2> QED
    BY <1>1, <2>1, LogGrows
<1> QED
  BY <1>2, <1>3 DEF LastIn

(* What the prefetch queue holds are tensors. *)
LEMMA PrefetchType ==
  ASSUME TypeOK
  PROVE  /\ Len(prefetched) \in Nat
         /\ \A n \in 1..Len(prefetched) :
              prefetched[n] \in Tensors /\ prefetched[n] \in Nat
         /\ taken \in 0..Len(prefetched) /\ pos \in Nat
<1>1. prefetched \in Seq(Tensors) /\ taken \in 0..Len(prefetched) /\ pos \in Nat
  BY PackAssumption DEF TypeOK, ProducerTypeOK
<1>2. \A n \in 1..Len(prefetched) : prefetched[n] \in Tensors
  BY <1>1, ElementOfSeq
<1> QED
  BY <1>1, <1>2, PackAssumption

(* The put of _prefetch_worker keeps the order of the checkpoint. *)
LEMMA OrderStep ==
  ASSUME TypeOK, OrderInv, [Next]_vars
  PROVE  OrderInv'
<1> USE DEF TypeOK, ProducerTypeOK, OrderInv
<1>1. CASE PutCandidate
  <2>1. /\ Len(prefetched') = Len(prefetched) + 1 /\ Len(prefetched) \in Nat
        /\ \A n \in 1..Len(prefetched) : /\ prefetched'[n] = prefetched[n]
                                         /\ prefetched[n] \in Nat
        /\ prefetched'[Len(prefetched) + 1] = pos /\ pos' = pos + 1
        /\ pos \in Nat
    BY <1>1, AppendProperties, PrefetchType DEF PutCandidate
  <2>2. ASSUME NEW n \in 1..Len(prefetched')
        PROVE  prefetched'[n] < pos'
    BY <2>1, <2>2
  <2>3. ASSUME NEW m \in 1..Len(prefetched'), NEW n \in 1..Len(prefetched'),
               m < n
        PROVE  prefetched'[m] < prefetched'[n]
    <3>1. m \in 1..Len(prefetched)
      BY <2>1, <2>3
    <3>2. CASE n \in 1..Len(prefetched)
      <4>1. prefetched[m] < prefetched[n]
        BY <2>3, <3>1, <3>2
      <4> QED
        BY <2>1, <3>1, <3>2, <4>1
    <3>3. CASE n = Len(prefetched) + 1
      BY <2>1, <3>1, <3>3
    <3> QED
      BY <2>1, <2>3, <3>2, <3>3
  <2> QED
    BY <2>2, <2>3
<1>2. CASE Producer /\ ~PutCandidate
  <2>1. prefetched' = prefetched /\ pos' \in {pos, pos + 1}
    BY <1>2 DEF Producer, ScanDense, ScanUnlisted, ScanCandidate, ScanEnd,
       Reserve, ProducerFail
  <2>2. \A n \in 1..Len(prefetched) : prefetched[n] \in Nat
    BY PrefetchType
  <2>3. \A n \in 1..Len(prefetched) : prefetched[n] < pos'
    BY <2>1, <2>2, PrefetchType
  <2> QED
    BY <2>1, <2>3
<1>3. CASE UNCHANGED <<prefetched, pos>>
  BY <1>3
<1> QED
  BY <1>1, <1>2, <1>3, MainFrame, WriterFrame, FinalizerFrame
  DEF Next, Finished, producer, vars

(* The candidate main takes next is a tensor, and none of those before it. *)
LEMMA CurNext ==
  ASSUME TypeOK, OrderInv, TakeCandidate
  PROVE  Cur' \in Tensors /\ \A n \in 1..taken : prefetched[n] # Cur'
<1>1. /\ taken' = taken + 1 /\ prefetched' = prefetched
      /\ taken < Len(prefetched)
  BY DEF TakeCandidate, producer
<1>2. taken + 1 \in 1..Len(prefetched) /\ Cur' = prefetched[taken + 1]
  BY <1>1, PrefetchType DEF Cur
<1>3. ASSUME NEW n \in 1..taken
      PROVE  prefetched[n] # Cur'
  <2>1. n \in 1..Len(prefetched) /\ n < taken + 1
    BY <1>1, PrefetchType
  <2>2. prefetched[n] < prefetched[taken + 1]
    BY <1>2, <2>1 DEF OrderInv
  <2> QED
    BY <1>2, <2>1, <2>2, PrefetchType
<1> QED
  BY <1>2, <1>3, PrefetchType

(* What leaves main where it is leaves its candidate, its stage and its     *)
(* part of the log alone.                                                   *)
LEMMA MainStill ==
  ASSUME TypeOK, Producer \/ Writer \/ Finalizer \/ UNCHANGED vars
  PROVE  /\ UNCHANGED <<mpc, taken, stage, pass, tasks>>
         /\ taken > 0 => Cur' = Cur
<1>1. UNCHANGED <<mpc, taken, stage, pass, tasks>>
  BY ProducerFrame, WriterFrame, FinalizerFrame DEF main, vars
<1>2. prefetched' = prefetched \/ PutCandidate
  BY WriterFrame, FinalizerFrame
  DEF Producer, ScanDense, ScanUnlisted, ScanCandidate, ScanEnd,
      Reserve, ProducerFail, producer, vars
<1> QED
  BY <1>1, <1>2, CurStable

(* The candidate main works on, its stages, and the files it has. *)
LEMMA OpenCur ==
  ASSUME TypeOK, Open
  PROVE  /\ taken > 0 /\ Cur \in Tensors /\ Stages[Cur] \in Nat \ {0}
         /\ stage \in 1..Stages[Cur] /\ pass \in Nat
  BY CurType, PackAssumption DEF TypeOK, CursorOK, MainTypeOK, Open, Working

(* SubmitCodebook queues the codebook of the stage in the version of the    *)
(* pass, and nothing else changes.                                          *)
LEMMA CurCodebook ==
  ASSUME TypeOK, CurInv, SubmitCodebook
  PROVE  CurInv'
<1> DEFINE new == <<<<Cur, stage>>, "codebook">>
           task == Write("codebook")
<1>1. /\ Open /\ Open' /\ mpc = "codebook" /\ mpc' = "indices" /\ ~SkipStage
      /\ UNCHANGED <<taken, stage, pass, prefetched>>
      /\ Submit(task)
  BY DEF SubmitCodebook, Open, producer
<1>2. Cur' = Cur
  BY <1>1 DEF Cur
<1>3. PhaseOK'
  BY <1>1, <1>2 DEF CurInv, PhaseOK, SkipStage, Refined, Compensated
<1>4. task.kind = "codebook" /\ task.sid = <<Cur, stage>> /\ task.ver = pass
  BY DEF Write
<1>5. ASSUME NEW f \in FilesOf(Cur), QueuedVersion(f)' >= 0
      PROVE  LastIn(tasks', f, QueuedVersion(f)')
  <2>0. /\ f[1] = <<Cur, f[1][2]>> /\ f = <<f[1], f[2]>> /\ f[2] \in FileKinds
        /\ f[1][2] \in 1..Stages[Cur]
    BY <1>1, FileForm, OpenCur
  <2>1. CASE f = new
    <3>1. QueuedVersion(f)' = pass
      BY <1>1, <2>1 DEF QueuedVersion, Seen, SkipStage
    <3> QED
      BY <1>1, <1>4, <2>1, <3>1, LastSubmitted
  <2>2. CASE f # new
    <3>1. ~(f[1][2] = stage /\ f[2] = "codebook")
      BY <2>0, <2>2
    <3>2. QueuedVersion(f)' = QueuedVersion(f)
      BY <1>1, <3>1 DEF QueuedVersion, Seen
    <3>3. LastIn(tasks, f, QueuedVersion(f))
      BY <1>1, <1>5, <3>2 DEF CurInv
    <3>4. ~Hits(task, f)
      BY <1>4, <2>2 DEF Hits
    <3> HIDE DEF task
    <3> QED
      BY <1>1, <3>2, <3>3, <3>4, LastStays
  <2> QED
    BY <2>1, <2>2
<1> QED
  BY <1>2, <1>3, <1>5 DEF CurInv

(* The version the log leaves in a file of the candidate when a stage of    *)
(* the greedy loop, or of an EM-AQ pass, is done.                           *)
DoneVersion(f) ==
  IF pass > 0 /\ f[1] \in Saturated THEN 0
  ELSE IF f[1][2] <= stage THEN pass ELSE pass - 1

(* After the last stage main goes on to the next pass, to a strategy, or to *)
(* the barrier, and each of them finds the versions it expects: EM-AQ those *)
(* of the pass before, compensation the greedy ones, the rest the final     *)
(* ones.                                                                    *)
LEMMA CurNextStage ==
  ASSUME TypeOK, Open, PhaseOK, mpc \in {"codebook", "indices"}, NextStage,
         UNCHANGED <<taken, prefetched>>,
         \A f \in FilesOf(Cur) :
           DoneVersion(f) >= 0 => LastIn(tasks', f, DoneVersion(f))
  PROVE  CurInv'
<1>1. Cur' = Cur
  BY DEF Cur
<1>2. /\ Cur \in Tensors /\ stage \in 1..Stages[Cur] /\ Stages[Cur] \in Nat
      /\ pass \in Nat /\ EmPasses \in Nat
  BY OpenCur, PackAssumption
<1>3. SUFFICES /\ PhaseOK'
               /\ \A f \in FilesOf(Cur) :
                    QueuedVersion(f)' >= 0 =>
                      QueuedVersion(f)' = DoneVersion(f)
  BY <1>1 DEF CurInv
<1>4. \A f \in FilesOf(Cur) : f[1][2] \in 1..Stages[Cur]
  BY <1>2, FileForm
<1>5. CASE ~LastStage
  <2>1. /\ mpc' = "codebook" /\ stage' = stage + 1 /\ pass' = pass
    BY <1>5 DEF NextStage
  <2>2. PhaseOK'
    BY <1>1, <2>1 DEF PhaseOK, Refined, Compensated
  <2>3. ASSUME NEW f \in FilesOf(Cur)
        PROVE  QueuedVersion(f)' = DoneVersion(f)
    <3>1. f[1][2] \in Nat /\ stage \in Nat
      BY <1>2, <1>4
    <3>2. Seen(f)' <=> f[1][2] <= stage
      BY <2>1, <3>1 DEF Seen
    <3> QED
      BY <2>1, <3>2 DEF QueuedVersion, DoneVersion
  <2> QED
    BY <2>2, <2>3
<1>6. CASE LastStage
  <2>0. /\ stage' = 1 /\ mpc' = NextPhase.pc /\ pass' = NextPhase.pass
        /\ stage = Stages[Cur]
    BY <1>6 DEF NextStage, LastStage
  <2>1. \A f \in FilesOf(Cur) :
          DoneVersion(f) = IF pass > 0 /\ f[1] \in Saturated THEN 0 ELSE pass
    BY <1>2, <1>4, <2>0 DEF DoneVersion
  <2>2. CASE pass = 0 /\ Compensated(Cur)
    <3>1. mpc' = "reassign" /\ pass' = 1
      BY <2>0, <2>2 DEF NextPhase
    <3>2. PhaseOK'
      BY <1>1, <2>2, <3>1 DEF PhaseOK, Compensated
    <3>3. \A f \in FilesOf(Cur) : QueuedVersion(f)' = 0
      BY <1>4, <2>0, <3>1 DEF QueuedVersion
    <3> QED
      BY <2>1, <2>2, <3>2, <3>3
  <2>3. CASE ~(pass = 0 /\ Compensated(Cur)) /\ Refined(Cur) /\ pass < EmPasses
    <3>1. mpc' = "codebook" /\ pass' = pass + 1
      BY <2>0, <2>3 DEF NextPhase
    <3>2. PhaseOK'
      BY <1>1, <1>2, <2>3, <3>1 DEF PhaseOK, Refined, Compensated
    <3>3. \A f \in FilesOf(Cur) : ~Seen(f)'
      BY <1>4, <2>0, <3>1 DEF Seen
    <3>4. \A f \in FilesOf(Cur) :
            QueuedVersion(f)' = IF f[1] \in Saturated THEN 0 ELSE pass
      BY <1>2, <3>1, <3>3 DEF QueuedVersion
    <3>5. \A f \in FilesOf(Cur) : QueuedVersion(f)' = DoneVersion(f)
      BY <1>2, <2>1, <3>4
    <3> QED
      BY <3>2, <3>5
  <2>4. CASE /\ ~(pass = 0 /\ Compensated(Cur))
             /\ ~(Refined(Cur) /\ pass < EmPasses)
    <3>1. mpc' \in {"scale", "barrier"}
      BY <2>0, <2>4 DEF NextPhase, AfterStrategies
    <3>2. PhaseOK'
      BY <3>1 DEF PhaseOK
    <3>3. \A f \in FilesOf(Cur) : QueuedVersion(f)' = FinalVersion(f)
      BY <3>1 DEF QueuedVersion, FinalVersion
    <3>4. ASSUME NEW f \in FilesOf(Cur)
          PROVE  FinalVersion(f) = DoneVersion(f)
      <4>1. f[1][1] = Cur
        BY <3>4 DEF FilesOf
      <4>2. CASE pass > 0
        <5>1. Refined(Cur) /\ pass = EmPasses /\ ~Compensated(Cur)
          BY <1>2, <2>4, <4>2 DEF PhaseOK, Refined
        <5> QED
          BY <2>1, <4>1, <4>2, <5>1 DEF FinalVersion
      <4>3. CASE pass = 0
        <5>1. ~Compensated(Cur) /\ ~Refined(Cur)
          BY <1>2, <2>4, <4>3 DEF Refined
        <5> QED
          BY <2>1, <4>1, <4>3, <5>1 DEF FinalVersion
      <4> QED
        BY <1>2, <4>2, <4>3
    <3> QED
      BY <3>2, <3>3, <3>4
  <2> QED
    BY <2>2, <2>3, <2>4
<1> QED
  BY <1>5, <1>6

(* SubmitIndices queues the stream of the stage behind its codebook. *)
LEMMA CurIndices ==
  ASSUME TypeOK, CurInv, SubmitIndices
  PROVE  CurInv'
<1> DEFINE new == <<<<Cur, stage>>, "indices">>
           task == Write("indices")
<1>1. /\ Open /\ mpc = "indices" /\ NextStage /\ PhaseOK /\ ~SkipStage
      /\ UNCHANGED <<taken, prefetched>> /\ Submit(task)
  BY DEF SubmitIndices, Open, producer, CurInv, PhaseOK
<1>2. task.kind = "indices" /\ task.sid = <<Cur, stage>> /\ task.ver = pass
  BY DEF Write
<1>3. ASSUME NEW f \in FilesOf(Cur), DoneVersion(f) >= 0
      PROVE  LastIn(tasks', f, DoneVersion(f))
  <2>0. /\ f[1] = <<Cur, f[1][2]>> /\ f = <<f[1], f[2]>> /\ f[2] \in FileKinds
        /\ f[1][2] \in 1..Stages[Cur] /\ stage \in Nat
    BY <1>1, FileForm, OpenCur
  <2>1. CASE f = new
    <3>1. DoneVersion(f) = pass
      BY <1>1, <2>0, <2>1 DEF DoneVersion, SkipStage
    <3> HIDE DEF task
    <3> QED
      BY <1>1, <1>2, <2>1, <3>1, LastSubmitted
  <2>2. CASE f # new
    <3>1. ~(f[1][2] = stage /\ f[2] = "indices")
      BY <2>0, <2>2
    <3>2. DoneVersion(f) = QueuedVersion(f)
      BY <1>1, <2>0, <3>1 DEF QueuedVersion, DoneVersion, Seen, FileKinds
    <3>3. LastIn(tasks, f, QueuedVersion(f))
      BY <1>1, <1>3, <3>2 DEF CurInv
    <3>4. ~Hits(task, f)
      BY <1>2, <2>2 DEF Hits
    <3> HIDE DEF task
    <3> QED
      BY <1>1, <3>2, <3>3, <3>4, LastStays
  <2> QED
    BY <2>1, <2>2
<1> QED
  BY <1>1, <1>3, CurNextStage

(* A saturated stage keeps its greedy files. *)
LEMMA CurSkip ==
  ASSUME TypeOK, CurInv, SkipSaturated
  PROVE  CurInv'
<1>1. /\ Open /\ mpc = "codebook" /\ NextStage /\ PhaseOK /\ SkipStage
      /\ UNCHANGED <<taken, prefetched, tasks>>
  BY DEF SkipSaturated, Open, producer, CurInv, PhaseOK
<1>2. ASSUME NEW f \in FilesOf(Cur), DoneVersion(f) >= 0
      PROVE  LastIn(tasks', f, DoneVersion(f))
  <2>0. /\ f[1] = <<Cur, f[1][2]>> /\ f[1][2] \in 1..Stages[Cur]
        /\ stage \in Nat
    BY <1>1, FileForm, OpenCur
  <2>1. f[1][2] = stage => f[1] \in Saturated
    BY <1>1, <2>0 DEF SkipStage
  <2>2. DoneVersion(f) = QueuedVersion(f)
    BY <1>1, <2>0, <2>1 DEF QueuedVersion, DoneVersion, Seen, SkipStage
  <2> QED
    BY <1>1, <1>2, <2>2 DEF CurInv
<1> QED
  BY <1>1, <1>2, CurNextStage

(* Error compensation rewrites the streams of the candidate one by one and  *)
(* leaves its codebooks as the greedy loop wrote them.                      *)
LEMMA CurReassignment ==
  ASSUME TypeOK, CurInv, SubmitReassignment
  PROVE  CurInv'
<1> DEFINE new == <<<<Cur, stage>>, "indices">>
           task == Write("indices")
<1>1. /\ Open /\ mpc = "reassign" /\ pass = 1 /\ Compensated(Cur)
      /\ UNCHANGED <<taken, pass, prefetched>> /\ Submit(task)
  BY DEF SubmitReassignment, Open, producer, CurInv, PhaseOK
<1>2. Cur' = Cur
  BY <1>1 DEF Cur
<1>3. task.kind = "indices" /\ task.sid = <<Cur, stage>> /\ task.ver = 1
  BY <1>1 DEF Write
<1>4. PhaseOK'
  BY <1>1, <1>2 DEF SubmitReassignment, AfterStrategies, PhaseOK, Compensated
<1>5. ASSUME NEW f \in FilesOf(Cur)
      PROVE  LastIn(tasks', f, QueuedVersion(f)')
  <2>0. /\ f[1] = <<Cur, f[1][2]>> /\ f = <<f[1], f[2]>> /\ f[2] \in FileKinds
        /\ f[1][2] \in 1..Stages[Cur] /\ stage \in 1..Stages[Cur]
        /\ Stages[Cur] \in Nat
    BY <1>1, FileForm, OpenCur
  <2>1. QueuedVersion(f)' =
          IF f[2] = "indices" /\ f[1][2] <= stage THEN 1 ELSE 0
    <3>1. CASE ~LastStage
      BY <1>1, <2>0, <3>1 DEF SubmitReassignment, QueuedVersion
    <3>2. CASE LastStage
      <4>1. mpc' \in {"scale", "barrier"} /\ stage = Stages[Cur]
        BY <1>1, <3>2 DEF SubmitReassignment, AfterStrategies, LastStage
      <4>2. f[1][1] = Cur
        BY DEF FilesOf
      <4>3. FinalVersion(f) = IF f[2] = "indices" THEN 1 ELSE 0
        BY <1>1, <4>2 DEF FinalVersion, Refined
      <4> QED
        BY <2>0, <4>1, <4>3 DEF QueuedVersion, FinalVersion
    <3> QED
      BY <3>1, <3>2
  <2>2. CASE f = new
    <3>1. QueuedVersion(f)' = 1
      BY <2>0, <2>1, <2>2
    <3> HIDE DEF task
    <3> QED
      BY <1>1, <1>3, <2>2, <3>1, LastSubmitted
  <2>3. CASE f # new
    <3>1. ~(f[1][2] = stage /\ f[2] = "indices")
      BY <2>0, <2>3
    <3>2. QueuedVersion(f)' = QueuedVersion(f) /\ QueuedVersion(f) >= 0
      BY <1>1, <2>0, <2>1, <3>1 DEF QueuedVersion
    <3>3. LastIn(tasks, f, QueuedVersion(f))
      BY <1>1, <3>2 DEF CurInv
    <3>4. ~Hits(task, f)
      BY <1>3, <2>3 DEF Hits
    <3> HIDE DEF task
    <3> QED
      BY <1>1, <3>2, <3>3, <3>4, LastStays
  <2> QED
    BY <2>2, <2>3
<1> QED
  BY <1>2, <1>4, <1>5 DEF CurInv

(* The stage loop and the strategies, one case per step of main. *)
LEMMA CurStep ==
  ASSUME TypeOK, OrderInv, CurInv, [Next]_vars
  PROVE  CurInv'
<1>1. CASE TakeCandidate
  <2>1. mpc' = "codebook" /\ stage' = 1 /\ pass' = 0
    BY <1>1 DEF TakeCandidate
  <2>2. PhaseOK'
    BY <2>1 DEF PhaseOK
  <2>3. ASSUME NEW f \in FilesOf(Cur')
        PROVE  QueuedVersion(f)' = -1
    <3>1. f[1][2] \in 1..Stages[Cur'] /\ Stages[Cur'] \in Nat
      BY <1>1, CurNext, FileForm, PackAssumption
    <3>2. ~Seen(f)'
      BY <2>1, <3>1 DEF Seen
    <3> QED
      BY <2>1, <3>2 DEF QueuedVersion
  <2> QED
    BY <2>2, <2>3 DEF CurInv
<1>2. CASE SubmitCodebook
  BY <1>2, CurCodebook
<1>3. CASE SubmitIndices
  BY <1>3, CurIndices
<1>4. CASE SkipSaturated
  BY <1>4, CurSkip
<1>5. CASE SubmitReassignment
  BY <1>5, CurReassignment
<1>6. CASE RefineScales /\ mpc' = "barrier"
  <2>1. /\ mpc = "scale" /\ UNCHANGED <<taken, stage, pass, tasks, prefetched>>
    BY <1>6 DEF RefineScales, producer
  <2>2. Cur' = Cur
    BY <2>1 DEF Cur
  <2>3. PhaseOK'
    BY <1>6 DEF PhaseOK
  <2>4. \A f \in FilesOf(Cur) : QueuedVersion(f)' = QueuedVersion(f)
    BY <1>6, <2>1 DEF QueuedVersion, FinalVersion
  <2> QED
    BY <2>1, <2>2, <2>3, <2>4 DEF CurInv, Open
<1>7. CASE /\ Main
           /\ ~(TakeCandidate \/ SubmitCodebook \/ SubmitIndices
                \/ SkipSaturated \/ SubmitReassignment)
           /\ ~(RefineScales /\ mpc' = "barrier")
  <2>1. ~Open'
    BY <1>7 DEF Main, CheckLoop, GetTimeout, RefineScales, SubmitBarrier,
       HandOff, MainFail, JoinProducer, WriteDense, WriteDenseFail,
       StopFinalizer, DrainFinalizer, FlushWriter, OpenManifest, WriteManifest,
       Open
  <2> QED
    BY <2>1 DEF CurInv
<1>8. CASE Producer \/ Writer \/ Finalizer \/ UNCHANGED vars
  <2>1. CASE Open
    <3>1. UNCHANGED <<mpc, stage, pass, tasks>> /\ Cur' = Cur
      BY <1>8, <2>1, MainStill, OpenCur
    <3>2. PhaseOK'
      BY <2>1, <3>1 DEF CurInv, PhaseOK, SkipStage, Refined, Compensated
    <3>3. \A f \in FilesOf(Cur) : QueuedVersion(f)' = QueuedVersion(f)
      BY <3>1 DEF QueuedVersion, Seen, FinalVersion
    <3> QED
      BY <2>1, <3>1, <3>2, <3>3 DEF CurInv
  <2>2. CASE ~Open
    BY <1>8, <2>2, MainStill DEF CurInv, Open
  <2> QED
    BY <2>1, <2>2
<1> QED
  BY <1>1, <1>2, <1>3, <1>4, <1>5, <1>6, <1>7, <1>8 DEF Next, Main, Finished

(* What main queues: a write of the candidate's stage, or the barrier of    *)
(* _FinalizeWorker.submit.                                                  *)
LEMMA MainSubmits ==
  ASSUME TypeOK, Main, tasks' # tasks
  PROVE  /\ Open /\ UNCHANGED <<taken, prefetched>> /\ Cur' = Cur
         /\ \/ SubmitBarrier
            \/ \E k \in FileKinds : Submit(Write(k))
<1>1. SubmitCodebook \/ SubmitIndices \/ SubmitReassignment \/ SubmitBarrier
  BY DEF Main, CheckLoop, TakeCandidate, GetTimeout, SkipSaturated,
     RefineScales, HandOff, MainFail, JoinProducer, WriteDense, WriteDenseFail,
     StopFinalizer, DrainFinalizer, FlushWriter, OpenManifest, WriteManifest
<1>2. Open /\ UNCHANGED <<taken, prefetched>>
  BY <1>1 DEF SubmitCodebook, SubmitIndices, SubmitReassignment, SubmitBarrier,
     Open, producer
<1>3. Cur' = Cur
  BY <1>2 DEF Cur
<1>4. SubmitBarrier \/ \E k \in FileKinds : Submit(Write(k))
  BY <1>1 DEF SubmitCodebook, SubmitIndices, SubmitReassignment, FileKinds
<1> QED
  BY <1>2, <1>3, <1>4

(* Where main goes without queuing anything. *)
LEMMA MainIdles ==
  ASSUME TypeOK, Main, tasks' = tasks, ~TakeCandidate
  PROVE  /\ taken' = taken /\ prefetched' = prefetched /\ Cur' = Cur
         /\ Open' => Open
<1>1. taken' = taken /\ (Open' => Open)
  BY DEF Main, CheckLoop, TakeCandidate, GetTimeout, SkipSaturated,
     SubmitCodebook, SubmitIndices, SubmitReassignment, RefineScales,
     SubmitBarrier, HandOff, MainFail, JoinProducer, WriteDense, WriteDenseFail,
     StopFinalizer, DrainFinalizer, FlushWriter, OpenManifest, WriteManifest,
     Open
<1>2. prefetched' = prefetched
  BY MainFrame DEF producer
<1> QED
  BY <1>1, <1>2 DEF Cur

(* The versions of the assignments are natural numbers. *)
LEMMA FinalNat == \A f : FinalVersion(f) \in Nat /\ FinalVersion(f) >= 0
  BY PackAssumption DEF FinalVersion, Refined

(* A tensor whose barrier is queued is not written again: main leaves it    *)
(* and never comes back, because a candidate enters once.                   *)
LEMMA BarrierStep ==
  ASSUME TypeOK, OrderInv, CurInv, BarrierInv, [Next]_vars
  PROVE  BarrierInv'
<1>0. Len(tasks) \in Nat /\ taken \in Nat
  BY PrefetchType DEF TypeOK, WriterTypeOK
<1>1. CASE \E k \in FileKinds : Main /\ tasks' # tasks /\ Submit(Write(k))
  <2>1. PICK k \in FileKinds : Main /\ tasks' # tasks /\ Submit(Write(k))
    BY <1>1
  <2> DEFINE task == Write(k)
  <2>2. task.kind = k /\ k # "barrier" /\ task.sid = <<Cur, stage>>
    BY DEF Write, FileKinds
  <2>3. Submit(task) /\ Open /\ UNCHANGED <<taken, prefetched>> /\ Cur' = Cur
    BY <2>1, MainSubmits
  <2> HIDE DEF task
  <2>4. ASSUME NEW b \in 1..Len(tasks'), tasks'[b].kind = "barrier"
        PROVE  /\ \E n \in 1..taken' : prefetched'[n] = tasks'[b].tensor
               /\ tasks'[b].tensor # Cur'
               /\ \A f \in FilesOf(tasks'[b].tensor) :
                    /\ LastIn(tasks', f, FinalVersion(f))
                    /\ \A j \in (b + 1)..Len(tasks') : ~Hits(tasks'[j], f)
    <3>1. b \in 1..Len(tasks) /\ tasks'[b] = tasks[b]
      BY <2>2, <2>3, <2>4, LogGrows
    <3>2. tasks[b].tensor # Cur
      BY <2>3, <2>4, <3>1 DEF BarrierInv
    <3>3. ASSUME NEW f \in FilesOf(tasks[b].tensor)
          PROVE  /\ LastIn(tasks', f, FinalVersion(f))
                 /\ \A j \in (b + 1)..Len(tasks') : ~Hits(tasks'[j], f)
      <4>1. f[1][1] # Cur
        BY <3>2 DEF FilesOf
      <4>2. ~Hits(task, f)
        BY <2>2, <4>1 DEF Hits
      <4>3. LastIn(tasks, f, FinalVersion(f))
            /\ \A j \in (b + 1)..Len(tasks) : ~Hits(tasks[j], f)
        BY <2>4, <3>1 DEF BarrierInv
      <4>4. LastIn(tasks', f, FinalVersion(f))
        BY <2>3, <4>2, <4>3, LastStays
      <4>5. ASSUME NEW j \in (b + 1)..Len(tasks')
            PROVE  ~Hits(tasks'[j], f)
        <5>1. \/ j \in (b + 1)..Len(tasks) /\ j \in 1..Len(tasks)
              \/ j = Len(tasks) + 1
          BY <2>3, <3>1, LogGrows
        <5> QED
          BY <2>3, <4>2, <4>3, <5>1, LogGrows
      <4> QED
        BY <4>4, <4>5
    <3>4. \E n \in 1..taken' : prefetched'[n] = tasks'[b].tensor
      BY <2>3, <2>4, <3>1 DEF BarrierInv
    <3> QED
      BY <2>3, <3>1, <3>2, <3>3, <3>4
  <2> QED
    BY <2>4 DEF BarrierInv
<1>2. CASE SubmitBarrier
  <2> DEFINE task == [kind |-> "barrier", tensor |-> Cur]
  <2>1. /\ Submit(task) /\ mpc = "barrier" /\ ~Open'
        /\ UNCHANGED <<taken, prefetched>> /\ task.kind = "barrier"
        /\ task.tensor = Cur
    BY <1>2 DEF SubmitBarrier, Open, producer
  <2> HIDE DEF task
  <2>2. ASSUME NEW f
        PROVE  ~Hits(task, f)
    BY <2>1 DEF Hits
  <2>3. ASSUME NEW b \in 1..Len(tasks'), tasks'[b].kind = "barrier"
        PROVE  /\ \E n \in 1..taken' : prefetched'[n] = tasks'[b].tensor
               /\ \A f \in FilesOf(tasks'[b].tensor) :
                    /\ LastIn(tasks', f, FinalVersion(f))
                    /\ \A j \in (b + 1)..Len(tasks') : ~Hits(tasks'[j], f)
    <3>1. CASE b \in 1..Len(tasks)
      <4>1. tasks'[b] = tasks[b]
        BY <2>1, <3>1, LogGrows
      <4>2. ASSUME NEW f \in FilesOf(tasks[b].tensor)
            PROVE  /\ LastIn(tasks', f, FinalVersion(f))
                   /\ \A j \in (b + 1)..Len(tasks') : ~Hits(tasks'[j], f)
        <5>1. LastIn(tasks, f, FinalVersion(f))
              /\ \A j \in (b + 1)..Len(tasks) : ~Hits(tasks[j], f)
          BY <2>3, <3>1, <4>1 DEF BarrierInv
        <5>2. LastIn(tasks', f, FinalVersion(f))
          BY <2>1, <2>2, <5>1, LastStays
        <5>3. ASSUME NEW j \in (b + 1)..Len(tasks')
              PROVE  ~Hits(tasks'[j], f)
          <6>1. \/ j \in (b + 1)..Len(tasks) /\ j \in 1..Len(tasks)
                \/ j = Len(tasks) + 1
            BY <2>1, <3>1, LogGrows
          <6> QED
            BY <2>1, <2>2, <5>1, <6>1, LogGrows
        <5> QED
          BY <5>2, <5>3
      <4>3. \E n \in 1..taken' : prefetched'[n] = tasks'[b].tensor
        BY <2>1, <2>3, <3>1, <4>1 DEF BarrierInv
      <4> QED
        BY <4>1, <4>2, <4>3
    <3>2. CASE b = Len(tasks) + 1
      <4>1. tasks'[b] = task
        BY <2>1, <3>2, LogGrows
      <4>2. taken \in 1..taken' /\ prefetched'[taken] = Cur
        BY <1>0, <2>1, OpenCur DEF Open, Cur
      <4>3. ASSUME NEW f \in FilesOf(Cur)
            PROVE  LastIn(tasks', f, FinalVersion(f))
        <5>1. QueuedVersion(f) = FinalVersion(f)
          BY <2>1 DEF QueuedVersion
        <5>2. LastIn(tasks, f, FinalVersion(f))
          BY <2>1, <5>1, FinalNat DEF CurInv, Open
        <5> QED
          BY <2>1, <2>2, <5>2, LastStays
      <4>4. (b + 1)..Len(tasks') = {}
        BY <1>0, <2>1, <3>2, LogGrows
      <4> QED
        BY <2>1, <4>1, <4>2, <4>3, <4>4
    <3> QED
      BY <2>1, <3>1, <3>2, LogGrows
  <2> QED
    BY <2>1, <2>3 DEF BarrierInv
<1>3. CASE TakeCandidate
  <2>1. taken' = taken + 1 /\ UNCHANGED <<tasks, prefetched>>
    BY <1>3 DEF TakeCandidate, producer
  <2>2. \A n \in 1..taken : prefetched[n] # Cur' /\ n \in 1..taken'
    BY <1>0, <1>3, <2>1, CurNext
  <2> QED
    BY <2>1, <2>2 DEF BarrierInv
<1>4. CASE Main /\ tasks' = tasks /\ ~TakeCandidate
  BY <1>4, MainIdles DEF BarrierInv
<1>5. CASE Producer \/ Writer \/ Finalizer \/ UNCHANGED vars
  <2>1. UNCHANGED <<taken, tasks>> /\ (Open' => Open /\ Cur' = Cur)
    BY <1>5, MainStill, OpenCur DEF Open
  <2>2. \A n \in 1..taken : prefetched'[n] = prefetched[n]
    <3>1. CASE PutCandidate
      BY <3>1, AppendProperties, PrefetchType
      DEF PutCandidate, TypeOK, ProducerTypeOK
    <3>2. CASE ~PutCandidate
      BY <1>5, <3>2, WriterFrame, FinalizerFrame
      DEF Producer, ScanDense, ScanUnlisted, ScanCandidate, ScanEnd, Reserve,
          ProducerFail, producer, vars
    <3> QED
      BY <3>1, <3>2
  <2> QED
    BY <2>1, <2>2 DEF BarrierInv
<1> QED
  BY <1>1, <1>2, <1>3, <1>4, <1>5, MainSubmits DEF Next, Finished

(* A log only grows. *)
LEMMA LogKept ==
  ASSUME TypeOK, [Next]_vars
  PROVE  /\ Len(tasks) \in Nat /\ Len(tasks') \in Nat
         /\ Len(tasks) <= Len(tasks')
         /\ \A k \in 1..Len(tasks) : tasks'[k] = tasks[k]
         /\ written \in 0..got /\ got \in 0..Len(tasks) /\ got <= written + 1
<1>1. written \in 0..got /\ got \in 0..Len(tasks) /\ Len(tasks) \in Nat
      /\ got <= written + 1
  BY DEF TypeOK, WriterTypeOK
<1>2. CASE tasks' = tasks
  BY <1>1, <1>2
<1>3. CASE tasks' # tasks
  <2>1. PICK task : Submit(task)
    BY <1>3, MainSubmits, MainStill DEF Next, Finished, SubmitBarrier
  <2> QED
    BY <1>1, <2>1, LogGrows
<1> QED
  BY <1>2, <1>3

(* The writer's part stays as it is while the other threads run. *)
LEMMA WriterStill ==
  ASSUME [Next]_vars, ~Writer
  PROVE  UNCHANGED writer
  BY ProducerFrame, MainFrame, FinalizerFrame DEF Next, Finished, vars, writer

(* A started task tears its file; finishing it leaves its version, and a    *)
(* task that is already done is overwritten only by a later one.            *)
LEMMA DiskStep ==
  ASSUME TypeOK, DiskInv, [Next]_vars
  PROVE  DiskInv'
<1>0. /\ Len(tasks) \in Nat /\ written \in 0..got /\ got \in 0..Len(tasks)
      /\ \A k \in 1..Len(tasks) : tasks'[k] = tasks[k]
  BY LogKept
<1>1. CASE ~Writer
  <2>1. UNCHANGED writer
    BY <1>1, WriterStill
  <2>2. \A k \in 1..written : k \in 1..Len(tasks)
    BY <1>0
  <2>3. \A k \in 1..written : \A j \in (k + 1)..got : j \in 1..Len(tasks)
    BY <1>0
  <2> QED
    BY <1>0, <2>1, <2>2, <2>3 DEF DiskInv, writer
<1>2. CASE StartTask
  <2>1. /\ got' = got + 1 /\ UNCHANGED <<written, writeErrors, tasks>>
        /\ got + 1 \in 1..Len(tasks)
    BY <1>0, <1>2 DEF StartTask
  <2> DEFINE w == tasks[got + 1]
             h == <<w.sid, w.kind>>
  <2>2. /\ w.kind = "barrier" => disk' = disk
        /\ w.kind # "barrier" => disk' = [disk EXCEPT ![h] = Torn]
    BY <1>2 DEF StartTask
  <2>3. ASSUME NEW k \in 1..written, tasks[k].kind # "barrier", ~writeErrors
        PROVE  \/ disk'[<<tasks[k].sid, tasks[k].kind>>] = tasks[k].ver
               \/ \E j \in (k + 1)..got' :
                    Hits(tasks[j], <<tasks[k].sid, tasks[k].kind>>)
    <3> DEFINE g == <<tasks[k].sid, tasks[k].kind>>
    <3>1. CASE w.kind # "barrier" /\ g = h
      <4>1. Hits(w, g)
        BY <3>1 DEF Hits
      <4>2. got + 1 \in (k + 1)..got'
        BY <1>0, <2>1, <2>3
      <4> QED
        BY <4>1, <4>2
    <3>2. CASE ~(w.kind # "barrier" /\ g = h)
      <4>1. g \in Files
        BY <1>0, <2>3, TaskType
      <4>2. disk'[g] = disk[g]
        <5> HIDE DEF g, h, w
        <5> QED
          BY <2>2, <3>2, <4>1 DEF TypeOK, WriterTypeOK
      <4>3. \A j \in (k + 1)..got : j \in (k + 1)..got'
        BY <1>0, <2>1
      <4> QED
        BY <2>3, <4>2, <4>3 DEF DiskInv
    <3> QED
      BY <3>1, <3>2
  <2> HIDE DEF w, h
  <2> QED
    BY <2>1, <2>3 DEF DiskInv
<1>3. CASE FinishCodebook \/ FinishIndices
  <2>1. /\ got > written /\ written' = got /\ UNCHANGED <<got, writeErrors, tasks>>
        /\ got \in 1..Len(tasks) /\ written = got - 1
        /\ tasks[got].kind # "barrier"
        /\ disk' = [disk EXCEPT ![<<tasks[got].sid, tasks[got].kind>>]
                                  = tasks[got].ver]
    <3>1. /\ got > written /\ written' = written + 1
          /\ UNCHANGED <<got, writeErrors, tasks>>
          /\ tasks[got].kind # "barrier"
          /\ disk' = [disk EXCEPT ![<<tasks[got].sid, tasks[got].kind>>]
                                    = tasks[got].ver]
      BY <1>3 DEF FinishCodebook, FinishIndices, Writing, Task
    <3>2. written \in {got, got - 1}
      BY DEF TypeOK, WriterTypeOK
    <3> QED
      BY <1>0, <3>1, <3>2
  <2>2. ASSUME NEW k \in 1..got, tasks[k].kind # "barrier", ~writeErrors
        PROVE  \/ disk'[<<tasks[k].sid, tasks[k].kind>>] = tasks[k].ver
               \/ \E j \in (k + 1)..got :
                    Hits(tasks[j], <<tasks[k].sid, tasks[k].kind>>)
    <3> DEFINE g == <<tasks[k].sid, tasks[k].kind>>
               h == <<tasks[got].sid, tasks[got].kind>>
    <3>0. g \in Files /\ h \in Files /\ disk \in [Files -> Versions]
      BY <2>1, <2>2, TaskType DEF TypeOK, WriterTypeOK
    <3>1. CASE k = got
      BY <2>1, <3>0, <3>1
    <3>2. CASE k # got /\ g = h
      <4>1. got \in (k + 1)..got /\ Hits(tasks[got], g)
        BY <1>0, <2>1, <3>2 DEF Hits
      <4> QED
        BY <4>1
    <3>3. CASE k # got /\ g # h
      <4>1. disk'[g] = disk[g]
        BY <2>1, <3>0, <3>3
      <4>2. k \in 1..written
        BY <2>1, <3>3
      <4> QED
        BY <2>2, <4>1, <4>2 DEF DiskInv
    <3> QED
      BY <3>1, <3>2, <3>3
  <2> QED
    BY <2>1, <2>2 DEF DiskInv
<1>4. CASE FinishBarrier
  <2>1. /\ written' = got /\ UNCHANGED <<got, writeErrors, disk, tasks>>
        /\ written = got - 1 /\ tasks[got].kind = "barrier"
    BY <1>0, <1>4 DEF FinishBarrier, Writing, Task, TypeOK, WriterTypeOK
  <2>2. \A k \in 1..got : k \in 1..written \/ k = got
    BY <1>0, <2>1
  <2> QED
    BY <2>1, <2>2 DEF DiskInv
<1>5. CASE FailTask
  BY <1>5 DEF FailTask, DiskInv
<1> QED
  BY <1>1, <1>2, <1>3, <1>4, <1>5 DEF Writer

(* barrier.set runs in the writer, after everything queued before it. *)
LEMMA SetStep ==
  ASSUME TypeOK, SetInv, [Next]_vars
  PROVE  SetInv'
<1>0. /\ Len(tasks) \in Nat /\ written \in 0..got /\ got \in 0..Len(tasks)
      /\ \A k \in 1..Len(tasks) : tasks'[k] = tasks[k]
  BY LogKept
<1>1. \A b \in 1..written : tasks'[b] = tasks[b]
  BY <1>0
<1>2. CASE FinishBarrier
  <2>1. /\ written' = got /\ barriers' = barriers \cup {tasks[got].tensor}
        /\ tasks[got].kind = "barrier" /\ tasks' = tasks /\ got \in 1..got
        /\ \A b \in 1..written : b \in 1..got
    BY <1>0, <1>2 DEF FinishBarrier, Writing, Task, TypeOK, WriterTypeOK
  <2> QED
    BY <2>1 DEF SetInv
<1>3. CASE ~FinishBarrier
  <2>1. barriers' = barriers
    BY <1>3, WriterStill DEF Writer, StartTask, FinishCodebook, FinishIndices,
       FailTask, writer
  <2>2. written' \in {written, written + 1}
    BY <1>3, WriterStill DEF Writer, StartTask, FinishCodebook, FinishIndices,
       FailTask, writer
  <2>3. \A b \in 1..written : b \in 1..written'
    BY <1>0, <2>2
  <2> QED
    BY <1>1, <2>1, <2>3 DEF SetInv
<1> QED
  BY <1>2, <1>3

(* The encoding is recorded with the first write of a stream. *)
LEMMA CodecStep ==
  ASSUME TypeOK, CodecInv, [Next]_vars
  PROVE  CodecInv'
<1>0. /\ Len(tasks) \in Nat /\ written \in 0..got /\ got \in 0..Len(tasks)
      /\ \A k \in 1..Len(tasks) : tasks'[k] = tasks[k]
  BY LogKept
<1>1. \A k \in 1..written : tasks'[k] = tasks[k] /\ k \in 1..Len(tasks)
  BY <1>0
<1>2. CASE FinishIndices
  <2>1. /\ got > written /\ written' = got /\ UNCHANGED <<writeErrors, tasks>>
        /\ got \in 1..Len(tasks) /\ written = got - 1
        /\ tasks[got].kind = "indices" /\ tasks[got].sid \in StageIds
    <3>1. /\ got \in 1..Len(tasks) /\ written' = got /\ written = got - 1
          /\ got > written /\ UNCHANGED <<writeErrors, tasks>>
          /\ tasks[got].kind = "indices"
      BY <1>0, <1>2 DEF FinishIndices, Writing, Task, TypeOK, WriterTypeOK
    <3> QED
      BY <3>1, TaskType
  <2>2. PICK e \in PickCodec(tasks[got].sid) :
          /\ codec' = [codec EXCEPT ![tasks[got].sid] = e]
          /\ meta' = [meta EXCEPT ![tasks[got].sid] = e]
    BY <1>2 DEF FinishIndices, Task
  <2>3. codec' = meta'
    BY <2>2 DEF CodecInv
  <2>4. e # None
    BY <2>2 DEF PickCodec, None
  <2>5. ASSUME ~writeErrors', NEW k \in 1..written', tasks'[k].kind = "indices"
        PROVE  meta'[tasks'[k].sid] # None
    <3>1. tasks' = tasks /\ k \in 1..Len(tasks) /\ (k \in 1..written \/ k = got)
      BY <2>1, <2>5
    <3>2. tasks[k].sid \in StageIds
      BY <2>5, <3>1, TaskType
    <3>3. k = got \/ meta[tasks[k].sid] # None
      BY <2>1, <2>5, <3>1 DEF CodecInv
    <3> QED
      BY <2>1, <2>2, <2>4, <3>1, <3>2, <3>3 DEF TypeOK, WriterTypeOK
  <2> QED
    BY <2>3, <2>5 DEF CodecInv
<1>3. CASE FailTask
  BY <1>3 DEF FailTask, CodecInv
<1>4. CASE FinishCodebook \/ FinishBarrier
  <2>1. /\ written' = got /\ UNCHANGED <<writeErrors, codec, meta, tasks>>
        /\ tasks[got].kind # "indices" /\ written = got - 1
    BY <1>0, <1>4 DEF FinishCodebook, FinishBarrier, Writing, Task, TypeOK,
       WriterTypeOK
  <2>2. \A k \in 1..got : k \in 1..written \/ k = got
    BY <1>0, <2>1
  <2> QED
    BY <2>1, <2>2 DEF CodecInv
<1>5. CASE ~Writer \/ StartTask
  <2>1. UNCHANGED <<written, writeErrors, codec, meta>>
    BY <1>5, WriterStill DEF StartTask, writer
  <2> QED
    BY <1>1, <2>1 DEF CodecInv
<1> QED
  BY <1>2, <1>3, <1>4, <1>5 DEF Writer

(* When the barrier of a tensor is set, its files hold the final versions,  *)
(* unless a write has failed, and its streams have their encodings.         *)
LEMMA FilesAreFinal ==
  ASSUME TypeOK, BarrierInv, DiskInv, SetInv, CodecInv, ~writeErrors,
         NEW t \in barriers, NEW f \in FilesOf(t)
  PROVE  /\ disk[f] = FinalVersion(f)
         /\ f[2] = "indices" => meta[f[1]] # None
<1>0. Len(tasks) \in Nat /\ written \in 0..got /\ got \in 0..Len(tasks)
  BY DEF TypeOK, WriterTypeOK
<1>1. PICK b \in 1..written : tasks[b].kind = "barrier" /\ tasks[b].tensor = t
  BY DEF SetInv
<1>2. b \in 1..Len(tasks)
  BY <1>0
<1>3. /\ LastIn(tasks, f, FinalVersion(f))
      /\ \A j \in (b + 1)..Len(tasks) : ~Hits(tasks[j], f)
  BY <1>1, <1>2 DEF BarrierInv
<1>4. PICK k \in 1..Len(tasks) :
        /\ Hits(tasks[k], f) /\ tasks[k].ver = FinalVersion(f)
        /\ \A j \in (k + 1)..Len(tasks) : ~Hits(tasks[j], f)
  BY <1>3 DEF LastIn
<1>5. k \in 1..written
  BY <1>0, <1>3, <1>4
<1>6. tasks[k].kind # "barrier" /\ f = <<tasks[k].sid, tasks[k].kind>>
  BY <1>4 DEF Hits
<1>7. disk[f] = FinalVersion(f)
  <2>1. \A j \in (k + 1)..got : j \in (k + 1)..Len(tasks)
    BY <1>0
  <2> QED
    BY <1>4, <1>5, <1>6, <2>1 DEF DiskInv
<1>8. f[2] = "indices" => meta[f[1]] # None
  BY <1>5, <1>6 DEF CodecInv
<1> QED
  BY <1>7, <1>8

(* What the finalize worker read when it appended an entry still holds: the *)
(* streams are final and their encodings pinned.                            *)
LEMMA EntryStep ==
  ASSUME TypeOK, BarrierInv, DiskInv, SetInv, CodecInv, EntryInv, [Next]_vars
  PROVE  EntryInv'
<1>1. ~writeErrors' => ~writeErrors
  BY WriterStill DEF Writer, StartTask, FinishCodebook, FinishIndices,
     FinishBarrier, FailTask, writer
<1>2. barriers \subseteq barriers'
  BY WriterStill DEF Writer, StartTask, FinishCodebook, FinishIndices,
     FinishBarrier, FailTask, writer
<1>3. barriers \subseteq Tensors
  BY DEF TypeOK, WriterTypeOK
<1>4. ASSUME NEW t \in barriers, NEW i \in 1..Stages[t], ~writeErrors
      PROVE  /\ meta'[<<t, i>>] = meta[<<t, i>>]
             /\ disk[<<<<t, i>>, "indices">>] =
                  FinalVersion(<<<<t, i>>, "indices">>)
  <2>1. <<t, i>> \in StageIds /\ <<<<t, i>>, "indices">> \in FilesOf(t)
    BY <1>3, FileOfStage DEF FileKinds
  <2>2. /\ disk[<<<<t, i>>, "indices">>] = FinalVersion(<<<<t, i>>, "indices">>)
        /\ meta[<<t, i>>] # None
    BY <1>4, <2>1, FilesAreFinal
  <2> QED
    BY <2>1, <2>2, CodecPinned
<1>5. CASE manifest' = manifest
  <2> USE DEF EntryInv
  <2>1. ASSUME NEW k \in 1..Len(manifest)
        PROVE  /\ manifest[k].name \in barriers'
               /\ DOMAIN manifest[k].index = 1..Stages[manifest[k].name]
    BY <1>2
  <2>2. ASSUME NEW k \in 1..Len(manifest), ~writeErrors',
               NEW i \in 1..Stages[manifest[k].name]
        PROVE  LET sid == <<manifest[k].name, i>> IN
               /\ manifest[k].index[i].bytes =
                    FinalVersion(<<sid, "indices">>)
               /\ manifest[k].index[i].encoding = meta'[sid]
    BY <1>1, <1>4, <2>2
  <2> QED
    BY <1>5, <2>1, <2>2
<1>6. CASE FinalizeItem
  <2> DEFINE t == Item
  <2>1. /\ t \in barriers /\ t \in Tensors
        /\ manifest' = Append(manifest, Entry(t)) /\ UNCHANGED writer
    BY <1>3, <1>6 DEF FinalizeItem, WritesDone
  <2>2. /\ Len(manifest') = Len(manifest) + 1 /\ Len(manifest) \in Nat
        /\ \A k \in 1..Len(manifest) : manifest'[k] = manifest[k]
        /\ manifest'[Len(manifest) + 1] = Entry(t)
    BY <2>1, AppendProperties DEF TypeOK, FinalizerTypeOK
  <2>3. /\ Entry(t).name = t /\ DOMAIN Entry(t).index = 1..Stages[t]
        /\ \A i \in 1..Stages[t] :
             /\ Entry(t).index[i].bytes = disk[<<<<t, i>>, "indices">>]
             /\ Entry(t).index[i].encoding = meta[<<t, i>>]
    BY DEF Entry
  <2> HIDE DEF t
  <2>4. ASSUME NEW k \in 1..Len(manifest')
        PROVE  /\ manifest'[k].name \in barriers'
               /\ DOMAIN manifest'[k].index = 1..Stages[manifest'[k].name]
               /\ ~writeErrors' =>
                    \A i \in 1..Stages[manifest'[k].name] :
                      LET sid == <<manifest'[k].name, i>> IN
                      /\ manifest'[k].index[i].bytes =
                           FinalVersion(<<sid, "indices">>)
                      /\ manifest'[k].index[i].encoding = meta'[sid]
    <3>1. CASE k \in 1..Len(manifest)
      BY <2>1, <2>2, <3>1 DEF EntryInv, writer
    <3>2. CASE k = Len(manifest) + 1
      <4>1. manifest'[k] = Entry(t)
        BY <2>2, <3>2
      <4>2. ASSUME ~writeErrors', NEW j \in 1..Stages[t]
            PROVE  /\ Entry(t).index[j].bytes =
                        FinalVersion(<<<<t, j>>, "indices">>)
                   /\ Entry(t).index[j].encoding = meta'[<<t, j>>]
        <5>1. ~writeErrors
          BY <1>1, <4>2
        <5> QED
          BY <1>4, <2>1, <2>3, <4>2, <5>1
      <4> QED
        BY <1>2, <2>1, <2>3, <4>1, <4>2
    <3>3. k \in 1..Len(manifest) \/ k = Len(manifest) + 1
      BY <2>2
    <3> QED
      BY <3>1, <3>2, <3>3
  <2> QED
    BY <2>4 DEF EntryInv
<1> QED
  BY <1>5, <1>6, ProducerFrame, MainFrame, WriterFrame
  DEF Next, Finished, Finalizer, StartItem, FailItem, StopItem, finalizer, vars

-----------------------------------------------------------------------------
(* The inductive invariant about files. *)
FilesInv ==
  OrderInv /\ CurInv /\ BarrierInv /\ DiskInv /\ SetInv /\ CodecInv /\ EntryInv

(* Log, disk and manifest of pack_checkpoint stay consistent, whichever     *)
(* thread runs when and whatever fails.                                     *)
THEOREM FilesInvariant == Spec => []FilesInv
<1>1. Init => FilesInv
  <2> SUFFICES ASSUME Init PROVE FilesInv
    OBVIOUS
  <2>1. /\ prefetched = <<>> /\ tasks = <<>> /\ manifest = <<>>
        /\ Len(<<>>) = 0 /\ written = 0 /\ barriers = {} /\ mpc = "poll"
        /\ codec = meta
    BY EmptySeq DEF Init
  <2> QED
    BY <2>1 DEF FilesInv, OrderInv, CurInv, Open, BarrierInv, DiskInv, SetInv,
       CodecInv, EntryInv
<1>2. TypeOK /\ FilesInv /\ [Next]_vars => FilesInv'
  BY OrderStep, CurStep, BarrierStep, DiskStep, SetStep, CodecStep, EntryStep
  DEF FilesInv
<1> QED
  BY <1>1, <1>2, TypeCorrect, PTL DEF Spec

(* The sizes and the encodings of every manifest entry are those of the     *)
(* streams on disk, although strategies rewrite streams behind the          *)
(* finalizer: nothing is written to a tensor behind its barrier.            *)
THEOREM EntriesAlwaysMatch == Spec => []EntriesMatchDisk
<1>1. TypeOK /\ FilesInv => EntriesMatchDisk
  <2> SUFFICES ASSUME TypeOK, FilesInv, ~writeErrors,
                      NEW k \in DOMAIN manifest,
                      NEW i \in DOMAIN manifest[k].index
               PROVE  LET sid == <<manifest[k].name, i>> IN
                      /\ manifest[k].index[i].bytes =
                           FinalVersion(<<sid, "indices">>)
                      /\ manifest[k].index[i].bytes = disk[<<sid, "indices">>]
                      /\ manifest[k].index[i].encoding = codec[sid]
    BY DEF EntriesMatchDisk
  <2> DEFINE t == manifest[k].name
  <2>1. k \in 1..Len(manifest)
    BY DEF TypeOK, FinalizerTypeOK
  <2>2. /\ t \in barriers /\ t \in Tensors /\ i \in 1..Stages[t]
        /\ manifest[k].index[i].bytes = FinalVersion(<<<<t, i>>, "indices">>)
        /\ manifest[k].index[i].encoding = meta[<<t, i>>]
    BY <2>1 DEF FilesInv, EntryInv, TypeOK, WriterTypeOK
  <2> HIDE DEF t
  <2>3. <<<<t, i>>, "indices">> \in FilesOf(t)
    BY <2>2, FileOfStage DEF FileKinds
  <2>4. disk[<<<<t, i>>, "indices">>] = FinalVersion(<<<<t, i>>, "indices">>)
    BY <2>2, <2>3, FilesAreFinal DEF FilesInv
  <2> QED
    BY <2>2, <2>4 DEF FilesInv, CodecInv, t
<1> QED
  BY <1>1, TypeCorrect, FilesInvariant, PTL

(* mse_scale, which flushes the writer before it reads the tensor's files   *)
(* back, reads their final versions: after the flush the last write of each *)
(* file is on disk.                                                         *)
THEOREM ScalesAlwaysFit == Spec => []ScalesFitFinal
<1>1. Init => ScalesFitFinal
  BY DEF Init, ScalesFitFinal, None
<1>2. ASSUME TypeOK, FilesInv, ScalesFitFinal, [Next]_vars
      PROVE  ScalesFitFinal'
  <2>1. CASE RefineScales /\ ~writeErrors
    <3>1. /\ mpc = "scale" /\ Open /\ written = Len(tasks)
      BY <2>1 DEF RefineScales, WriterIdle, Open
    <3>2. ASSUME NEW f \in FilesOf(Cur)
          PROVE  disk[f] = FinalVersion(f)
      <4>1. QueuedVersion(f) = FinalVersion(f)
        BY <3>1 DEF QueuedVersion
      <4>2. LastIn(tasks, f, FinalVersion(f))
        BY <1>2, <3>1, <4>1, FinalNat DEF FilesInv, CurInv
      <4>3. PICK k \in 1..Len(tasks) :
              /\ Hits(tasks[k], f) /\ tasks[k].ver = FinalVersion(f)
              /\ \A j \in (k + 1)..Len(tasks) : ~Hits(tasks[j], f)
        BY <4>2 DEF LastIn
      <4>4. tasks[k].kind # "barrier" /\ f = <<tasks[k].sid, tasks[k].kind>>
        BY <4>3 DEF Hits
      <4>5. \A j \in (k + 1)..got : j \in (k + 1)..Len(tasks)
        BY <1>2 DEF TypeOK, WriterTypeOK
      <4> QED
        BY <1>2, <2>1, <3>1, <4>3, <4>4, <4>5 DEF FilesInv, DiskInv
    <3>3. fit' = [fit EXCEPT ![Cur] = "final"]
      BY <2>1, <3>2 DEF RefineScales
    <3> QED
      BY <1>2, <3>3 DEF ScalesFitFinal, TypeOK, MainTypeOK
  <2>2. CASE ~(RefineScales /\ ~writeErrors)
    <3>1. fit' = fit
      BY <1>2, <2>2, ProducerFrame, WriterFrame, FinalizerFrame
      DEF Next, Finished, Main, CheckLoop, TakeCandidate, GetTimeout,
          SkipSaturated, SubmitCodebook, SubmitIndices, SubmitReassignment,
          RefineScales, SubmitBarrier, HandOff, MainFail, JoinProducer,
          WriteDense, WriteDenseFail, StopFinalizer, DrainFinalizer,
          FlushWriter, OpenManifest, WriteManifest, main, vars
    <3> QED
      BY <1>2, <3>1 DEF ScalesFitFinal
  <2> QED
    BY <2>1, <2>2
<1> QED
  BY <1>1, <1>2, TypeCorrect, FilesInvariant, PTL DEF Spec
=============================================================================
