---------------------------- MODULE PackPipeline ----------------------------
(***************************************************************************)
(* One run of pack_checkpoint in per-tensor (streamed) mode: the four      *)
(* threads of orka/pipeline/pack.py and orka/pipeline/pack_pipeline.py.    *)
(*                                                                         *)
(*   producer   _prefetch_worker: scans the checkpoint, preps candidates   *)
(*   main       the GPU thread: stage loop, strategies, then the commit    *)
(*   writer     BackgroundWriter: runs queued file writes in FIFO order    *)
(*   finalizer  _FinalizeWorker: sidecars, manifest entry, payload release *)
(*                                                                         *)
(* A FIFO queue is an append-only log with a cursor: `prefetched' with     *)
(* `taken', `tasks' with `got' and `written', `handed' with `fgot' and     *)
(* `fdone'.  The queue's occupancy is the distance from log end to cursor. *)
(*                                                                         *)
(* Tensor values are abstracted to the version of the assignment a file    *)
(* holds: 0 after the greedy stage loop, p after pass p of EM-AQ, 1 after  *)
(* error compensation.                                                     *)
(*                                                                         *)
(* An operator commented "Mutant of X" is a plausible bug in the code of   *)
(* X; no specification uses it.                                            *)
(***************************************************************************)
EXTENDS Integers, Sequences, FiniteSets

CONSTANTS
  N,                    \* tensors the checkpoint yields, in _load_tensors order
  Kind,                 \* what the producer's filters say of each tensor
  UnlistedPassthrough,  \* only_tensors_passthrough
  MaxTensors,           \* max_tensors (N or more: no limit)
  PartCount, PartIndex, \* tensor partition; PartCount = 0: not partitioned
  Bytes,                \* estimated retained bytes of each tensor (8 * numel)
  Budget,               \* prefetch budget in bytes; 0: no budget object
  Stages,               \* RVQ stages of each tensor
  Compensable,          \* tensors error compensation applies to
  Giants,               \* tensors EM-AQ skips for their size
  Saturated,            \* stages EM-AQ skips: codebook_size >= sample_vectors
  EmPasses,             \* em_aq_passes
  Rescaled,             \* tensors whose block scales mse_scale refits
  PrefetchDepth,        \* PREFETCH_QUEUE_DEPTH
  WriterDepth,          \* maxsize of the BackgroundWriter queue
  FinalizeDepth,        \* maxsize of the finalize queue
  Failures              \* the kinds of failure the environment may cause

Tensors == 1..N

(* What the filters of the producer decide from the name and shape alone. *)
Kinds == {"dense", "unlisted", "skipped", "candidate"}

FailureKinds == {"load", "gpu", "write", "finalize"}

ASSUME PackAssumption ==
  /\ N \in Nat
  /\ Kind \in [Tensors -> Kinds]
  /\ UnlistedPassthrough \in BOOLEAN
  /\ MaxTensors \in Nat
  /\ PartCount \in Nat /\ PartIndex \in Nat
  /\ PartCount # 0 => PartIndex < PartCount
  /\ Bytes \in [Tensors -> Nat \ {0}]
  /\ Budget \in Nat
  /\ Stages \in [Tensors -> Nat \ {0}]
  /\ Compensable \subseteq Tensors
  /\ Giants \subseteq Tensors
  /\ Saturated \subseteq Tensors \X Nat
  /\ EmPasses \in Nat
  /\ Rescaled \subseteq Tensors
  /\ PrefetchDepth \in Nat \ {0}
  /\ WriterDepth \in Nat \ {0}
  /\ FinalizeDepth \in Nat \ {0}
  /\ Failures \subseteq FailureKinds

-----------------------------------------------------------------------------
VARIABLES
  ppc,          \* producer: scan, reserve, put, done (prefetch_done is set)
  pos,          \* the tensor the producer looks at
  candidates,   \* _prefetch_state["candidate_count"]
  passthrough,  \* _passthrough: tensors stored dense
  prefetched,   \* every candidate put on the prefetch queue
  exc,          \* _prefetch_exc is non-empty
  outstanding,  \* PrefetchBudget.outstanding
  mpc,          \* where the main thread is
  taken,        \* candidates main has taken from the prefetch queue
  stage, pass,  \* main: the stage and the EM-AQ pass in progress
  fit,          \* what the refitted scales of a tensor were fitted on
  dense,        \* the tensors passthrough.safetensors holds
  tasks,        \* every task submitted to the BackgroundWriter
  got, written, \* tasks the writer has started, tasks it has finished
  writeErrors,  \* BackgroundWriter.errors is non-empty
  disk,         \* version held by each codebook and index file
  codec,        \* encoding of each index stream on disk
  meta,         \* stage_meta["encoding"] of each stage
  barriers,     \* tensors whose barrier Event is set
  handed,       \* every item put on the finalize queue
  fgot, fdone,  \* items the finalizer has started, items it has finished
  fErrors,      \* _FinalizeWorker.errors is non-empty
  manifest,     \* manifest["tensors"]
  published     \* manifest.json: its state and the entries it holds

producer  == <<ppc, pos, candidates, passthrough, prefetched, exc>>
main      == <<mpc, taken, stage, pass, fit, dense>>
writer    == <<got, written, writeErrors, disk, codec, meta, barriers>>
finalizer == <<fgot, fdone, fErrors, manifest>>
vars == <<producer, main, writer, finalizer,
          outstanding, tasks, handed, published>>

None   == "none" \* Python's None
Absent == -2     \* the version of a file that does not exist
Torn   == -1     \* the version of a file a write has truncated, not completed
Stop   == 0      \* the None sentinel of the finalize queue

(* The files of stage i of a tensor: .s{i}.codebook.f32 and .s{i}.indices *)
StageIds == UNION {{t} \X (1..Stages[t]) : t \in Tensors}
FileKinds == {"codebook", "indices"}
Files == StageIds \X FileKinds
FilesOf(t) == {f \in Files : f[1][1] = t}

Versions == Absent..(EmPasses + 1)

Writes == [kind : FileKinds, sid : StageIds, ver : Versions]
Barriers == [kind : {"barrier"}, tensor : Tensors]

Cur == prefetched[taken]   \* the candidate main works on

Est(t) == IF Budget > 0 THEN Bytes[t] ELSE 0

(* The strategies that run on a tensor after the greedy stage loop:         *)
(* ErrorCompensationStrategy with its preconditions, and EMAQStrategy with  *)
(* the early exits of _run_em_aq_refinement; EM-AQ never follows a          *)
(* compensation.                                                            *)
Compensated(t) == t \in Compensable
Refined(t) ==
  /\ EmPasses > 0
  /\ ~Compensated(t)
  /\ t \notin Giants
  /\ Stages[t] > 1

Init ==
  /\ ppc = "scan" /\ pos = 1 /\ candidates = 0
  /\ passthrough = {} /\ prefetched = <<>> /\ exc = FALSE
  /\ outstanding = 0
  /\ mpc = "poll" /\ taken = 0 /\ stage = 1 /\ pass = 0
  /\ fit = [t \in Tensors |-> None] /\ dense = {}
  /\ tasks = <<>> /\ got = 0 /\ written = 0 /\ writeErrors = FALSE
  /\ disk = [f \in Files |-> Absent]
  /\ codec = [s \in StageIds |-> None]
  /\ meta = [s \in StageIds |-> None]
  /\ barriers = {}
  /\ handed = <<>> /\ fgot = 0 /\ fdone = 0 /\ fErrors = FALSE
  /\ manifest = <<>>
  /\ published = [state |-> "absent", entries |-> <<>>]

-----------------------------------------------------------------------------
(* The producer thread: _prefetch_worker. *)

(* max_tensors is tested before the skip list and the partition, and ends   *)
(* the scan.                                                                *)
AtLimit == Len(prefetched) >= MaxTensors

(* A tensor the filters keep dense is recorded in _passthrough. *)
ScanDense ==
  /\ ppc = "scan" /\ pos <= N
  /\ \/ Kind[pos] = "dense"
     \/ Kind[pos] = "unlisted" /\ UnlistedPassthrough
     \/ Kind[pos] = "skipped" /\ ~AtLimit
  /\ passthrough' = passthrough \cup {pos}
  /\ pos' = pos + 1
  /\ UNCHANGED <<ppc, candidates, prefetched, exc, main, writer, finalizer,
                 outstanding, tasks, handed, published>>

ScanUnlisted ==
  /\ ppc = "scan" /\ pos <= N
  /\ Kind[pos] = "unlisted" /\ ~UnlistedPassthrough
  /\ pos' = pos + 1
  /\ UNCHANGED <<ppc, candidates, passthrough, prefetched, exc, main, writer,
                 finalizer, outstanding, tasks, handed, published>>

InPartition == PartCount = 0 \/ candidates % PartCount = PartIndex

(* A candidate outside this run's partition is counted and dropped. *)
ScanCandidate ==
  /\ ppc = "scan" /\ pos <= N
  /\ Kind[pos] = "candidate" /\ ~AtLimit
  /\ candidates' = candidates + 1
  /\ IF InPartition
       THEN ppc' = "reserve" /\ pos' = pos
       ELSE ppc' = "scan" /\ pos' = pos + 1
  /\ UNCHANGED <<passthrough, prefetched, exc, main, writer, finalizer,
                 outstanding, tasks, handed, published>>

ScanEnd ==
  /\ ppc = "scan"
  /\ \/ pos > N
     \/ pos <= N /\ Kind[pos] \in {"skipped", "candidate"} /\ AtLimit
  /\ ppc' = "done"
  /\ UNCHANGED <<pos, candidates, passthrough, prefetched, exc, main, writer,
                 finalizer, outstanding, tasks, handed, published>>

(* Mutant of CanReserve: admits while the budget is not yet exceeded. *)
CanReserveBelow(n) == outstanding <= Budget

(* PrefetchBudget.reserve: wait until nothing is outstanding or the bytes   *)
(* fit.  The wait has a timeout, so a missed notify only delays it.         *)
CanReserve(n) == outstanding = 0 \/ outstanding + n <= Budget

Reserve ==
  /\ ppc = "reserve"
  /\ CanReserve(Est(pos))
  /\ outstanding' = outstanding + Est(pos)
  /\ ppc' = "put"
  /\ UNCHANGED <<pos, candidates, passthrough, prefetched, exc, main, writer,
                 finalizer, tasks, handed, published>>

(* Normalize, rotate, vectorize, then the blocking put. *)
PutCandidate ==
  /\ ppc = "put"
  /\ Len(prefetched) - taken < PrefetchDepth
  /\ prefetched' = Append(prefetched, pos)
  /\ pos' = pos + 1
  /\ ppc' = "scan"
  /\ UNCHANGED <<candidates, passthrough, exc, main, writer, finalizer,
                 outstanding, tasks, handed, published>>

(* Any exception of the body (the RAM cap, a load or a prep error) is kept  *)
(* for the main thread, and the finally clause sets prefetch_done.          *)
ProducerFail ==
  /\ "load" \in Failures
  /\ ppc \in {"scan", "put"}
  /\ exc' = TRUE
  /\ ppc' = "done"
  /\ UNCHANGED <<pos, candidates, passthrough, prefetched, main, writer,
                 finalizer, outstanding, tasks, handed, published>>

-----------------------------------------------------------------------------
(* The main thread: the consumer loop of pack_checkpoint and               *)
(* process_streamed_per_tensor_candidate.                                  *)

(* Mutant of CheckLoop: reads the queue first and prefetch_done last. *)
CheckLoopSwapped ==
  /\ \/ mpc = "poll"
        /\ mpc' = IF taken = Len(prefetched) THEN "recheck" ELSE "get"
     \/ mpc = "recheck"
        /\ mpc' = IF ppc = "done" \/ exc THEN "join" ELSE "get"
  /\ UNCHANGED <<taken, stage, pass, fit, dense, producer, writer, finalizer,
                 outstanding, tasks, handed, published>>

(* not prefetch_done.is_set() or not prefetch_queue.empty(): two reads, and *)
(* the producer may step in between.  _prefetch_exc, which the body of the  *)
(* loop tests before the get, is set before prefetch_done.                  *)
CheckLoop ==
  /\ \/ mpc = "poll"
        /\ mpc' = IF ppc = "done" THEN "recheck" ELSE "get"
     \/ mpc = "recheck"
        /\ mpc' = IF taken = Len(prefetched) \/ exc THEN "join" ELSE "get"
  /\ UNCHANGED <<taken, stage, pass, fit, dense, producer, writer, finalizer,
                 outstanding, tasks, handed, published>>

(* prefetch_queue.get(timeout): the producer may have failed meanwhile. *)
TakeCandidate ==
  /\ mpc = "get"
  /\ taken < Len(prefetched)
  /\ taken' = taken + 1
  /\ stage' = 1 /\ pass' = 0
  /\ mpc' = "codebook"
  /\ UNCHANGED <<fit, dense, producer, writer, finalizer,
                 outstanding, tasks, handed, published>>

GetTimeout ==
  /\ mpc = "get"
  /\ taken = Len(prefetched)
  /\ mpc' = "poll"
  /\ UNCHANGED <<taken, stage, pass, fit, dense, producer, writer, finalizer,
                 outstanding, tasks, handed, published>>

(* BackgroundWriter.submit: a blocking put on a bounded queue. *)
Submit(task) ==
  /\ Len(tasks) - got < WriterDepth
  /\ tasks' = Append(tasks, task)

Write(kind) == [kind |-> kind, sid |-> <<Cur, stage>>, ver |-> pass]

(* Mutant of LastStage: one turn too many. *)
PastLastStage == stage > Stages[Cur]

LastStage == stage = Stages[Cur]

AfterStrategies == IF Cur \in Rescaled THEN "scale" ELSE "barrier"

(* Where main goes after the last stage of the greedy loop or of a pass:    *)
(* the next pass, the first strategy whose gate opens, or the hand-over.    *)
NextPhase ==
  IF pass = 0 /\ Compensated(Cur) THEN [pc |-> "reassign", pass |-> 1]
  ELSE IF Refined(Cur) /\ pass < EmPasses
    THEN [pc |-> "codebook", pass |-> pass + 1]
    ELSE [pc |-> AfterStrategies, pass |-> pass]

NextStage ==
  IF ~LastStage
    THEN stage' = stage + 1 /\ mpc' = "codebook" /\ pass' = pass
    ELSE stage' = 1 /\ mpc' = NextPhase.pc /\ pass' = NextPhase.pass

SkipStage == pass > 0 /\ <<Cur, stage>> \in Saturated

(* EM-AQ leaves a stage whose codebook is as large as the sample. *)
SkipSaturated ==
  /\ mpc = "codebook" /\ SkipStage
  /\ NextStage
  /\ UNCHANGED <<taken, fit, dense, producer, writer, finalizer,
                 outstanding, tasks, handed, published>>

(* Learn (or load from the cache) the stage's codebook and queue its write. *)
SubmitCodebook ==
  /\ mpc = "codebook" /\ ~SkipStage
  /\ Submit(Write("codebook"))
  /\ mpc' = "indices"
  /\ UNCHANGED <<taken, stage, pass, fit, dense, producer, writer, finalizer,
                 outstanding, handed, published>>

(* Assign the stage's indices against that codebook and queue their write. *)
SubmitIndices ==
  /\ mpc = "indices"
  /\ Submit(Write("indices"))
  /\ NextStage
  /\ UNCHANGED <<taken, fit, dense, producer, writer, finalizer,
                 outstanding, handed, published>>

(* Error compensation: new indices for every stage, frozen codebooks. *)
SubmitReassignment ==
  /\ mpc = "reassign"
  /\ Submit(Write("indices"))
  /\ IF ~LastStage
       THEN stage' = stage + 1 /\ mpc' = "reassign"
       ELSE stage' = 1 /\ mpc' = AfterStrategies
  /\ UNCHANGED <<taken, pass, fit, dense, producer, writer, finalizer,
                 outstanding, handed, published>>

(* Mutant of WriterIdle: the queue is empty, its last task may be running. *)
WriterQueueEmpty == got = Len(tasks)

(* BackgroundWriter.wait: queue.join; the caller then looks at errors. *)
WriterIdle == written = Len(tasks)

(* The version of each file once main is through with its tensor: the       *)
(* assignment the manifest's metrics are measured on.                       *)
FinalVersion(f) ==
  LET t == f[1][1] IN
  IF Refined(t) /\ f[1] \notin Saturated THEN EmPasses
  ELSE IF Compensated(t) /\ f[2] = "indices" THEN 1 ELSE 0

(* MSEScaleStrategy: flush the writer, then read every codebook and index   *)
(* stream of the tensor back from disk and refit the block scales.          *)
RefineScales ==
  /\ mpc = "scale"
  /\ WriterIdle
  /\ IF writeErrors
       THEN mpc' = "raised" /\ fit' = fit
       ELSE /\ mpc' = "barrier"
            /\ fit' = [fit EXCEPT ![Cur] =
                 IF \A f \in FilesOf(Cur) : disk[f] = FinalVersion(f)
                 THEN "final" ELSE "stale"]
  /\ UNCHANGED <<taken, stage, pass, dense, producer, writer, finalizer,
                 outstanding, tasks, handed, published>>

(* _FinalizeWorker.submit: queue barrier.set behind the tensor's writes,    *)
(* then hand the candidate over.                                            *)
SubmitBarrier ==
  /\ mpc = "barrier"
  /\ Submit([kind |-> "barrier", tensor |-> Cur])
  /\ mpc' = "handoff"
  /\ UNCHANGED <<taken, stage, pass, fit, dense, producer, writer, finalizer,
                 outstanding, handed, published>>

(* Mutant of FinalizeSlotFree: room for one item more. *)
FinalizeSlotWide == Len(handed) - fgot <= FinalizeDepth

(* The finalize queue has room: the blocking put may proceed. *)
FinalizeSlotFree == Len(handed) - fgot < FinalizeDepth

HandOff ==
  /\ mpc = "handoff"
  /\ FinalizeSlotFree
  /\ handed' = Append(handed, Cur)
  /\ mpc' = "poll"
  /\ UNCHANGED <<taken, stage, pass, fit, dense, producer, writer, finalizer,
                 outstanding, tasks, published>>

(* An exception of the GPU work (the RAM cap, CUDA OOM) leaves              *)
(* pack_checkpoint at once; the daemon threads are left where they are.     *)
MainFail ==
  /\ "gpu" \in Failures
  /\ mpc \in {"codebook", "indices", "reassign"}
  /\ mpc' = "raised"
  /\ UNCHANGED <<taken, stage, pass, fit, dense, producer, writer, finalizer,
                 outstanding, tasks, handed, published>>

(* The "0 candidates" tests. *)
NothingFound ==
  /\ prefetched = <<>>
  /\ IF PartCount = 0 THEN passthrough = {} ELSE candidates = 0

(* Mutant of JoinProducer: the producer's exception is not re-raised. *)
JoinProducerSilently ==
  /\ mpc = "join" /\ ppc = "done"
  /\ mpc' = IF NothingFound THEN "raised" ELSE "dense"
  /\ UNCHANGED <<taken, stage, pass, fit, dense, producer, writer, finalizer,
                 outstanding, tasks, handed, published>>

(* prefetch_thread.join(), then the producer's exception or the empty pack  *)
(* is raised.                                                               *)
JoinProducer ==
  /\ mpc = "join" /\ ppc = "done"
  /\ mpc' = IF exc \/ NothingFound THEN "raised" ELSE "dense"
  /\ UNCHANGED <<taken, stage, pass, fit, dense, producer, writer, finalizer,
                 outstanding, tasks, handed, published>>

(* passthrough.safetensors is written by the main thread itself, so its     *)
(* failure is raised there.  An empty dict writes no file.                  *)
WriteDense ==
  /\ mpc = "dense"
  /\ dense' = passthrough
  /\ mpc' = "sentinel"
  /\ UNCHANGED <<taken, stage, pass, fit, producer, writer, finalizer,
                 outstanding, tasks, handed, published>>

WriteDenseFail ==
  /\ mpc = "dense"
  /\ "write" \in Failures /\ passthrough # {}
  /\ mpc' = "raised"
  /\ UNCHANGED <<taken, stage, pass, fit, dense, producer, writer, finalizer,
                 outstanding, tasks, handed, published>>

(* _FinalizeWorker.wait_and_stop: the sentinel, queue.join, then errors. *)
StopFinalizer ==
  /\ mpc = "sentinel"
  /\ FinalizeSlotFree
  /\ handed' = Append(handed, Stop)
  /\ mpc' = "drain"
  /\ UNCHANGED <<taken, stage, pass, fit, dense, producer, writer, finalizer,
                 outstanding, tasks, published>>

DrainFinalizer ==
  /\ mpc = "drain" /\ fdone = Len(handed)
  /\ mpc' = IF fErrors THEN "raised" ELSE "flush"
  /\ UNCHANGED <<taken, stage, pass, fit, dense, producer, writer, finalizer,
                 outstanding, tasks, handed, published>>

(* Mutant of FlushWriter: joins the queue but never looks at its errors. *)
FlushWriterSilently ==
  /\ mpc = "flush" /\ WriterIdle
  /\ mpc' = "commit"
  /\ UNCHANGED <<taken, stage, pass, fit, dense, producer, writer, finalizer,
                 outstanding, tasks, handed, published>>

(* _BG_WRITER.wait() before the manifest. *)
FlushWriter ==
  /\ mpc = "flush" /\ WriterIdle
  /\ mpc' = IF writeErrors THEN "raised" ELSE "commit"
  /\ UNCHANGED <<taken, stage, pass, fit, dense, producer, writer, finalizer,
                 outstanding, tasks, handed, published>>

(* manifest.json is written in place: opening it truncates it. *)
OpenManifest ==
  /\ mpc = "commit"
  /\ published' = [state |-> "torn", entries |-> <<>>]
  /\ mpc' = "committing"
  /\ UNCHANGED <<taken, stage, pass, fit, dense, producer, writer, finalizer,
                 outstanding, tasks, handed>>

WriteManifest ==
  /\ mpc = "committing"
  /\ published' = [state |-> "complete", entries |-> manifest]
  /\ mpc' = "returned"
  /\ UNCHANGED <<taken, stage, pass, fit, dense, producer, writer, finalizer,
                 outstanding, tasks, handed>>

-----------------------------------------------------------------------------
(* The writer thread: BackgroundWriter._worker. *)

Task == tasks[got]     \* the task in the writer's hands
Writing == got > written

(* queue.get, then the start of the task: a file write truncates its file. *)
StartTask ==
  /\ ~Writing /\ got < Len(tasks)
  /\ got' = got + 1
  /\ LET w == tasks[got + 1] IN
       disk' = IF w.kind = "barrier" THEN disk
               ELSE [disk EXCEPT ![<<w.sid, w.kind>>] = Torn]
  /\ UNCHANGED <<written, writeErrors, codec, meta, barriers, producer, main,
                 finalizer, outstanding, tasks, handed, published>>

FinishCodebook ==
  /\ Writing /\ Task.kind = "codebook"
  /\ written' = written + 1
  /\ disk' = [disk EXCEPT ![<<Task.sid, "codebook">>] = Task.ver]
  /\ UNCHANGED <<got, writeErrors, codec, meta, barriers, producer, main,
                 finalizer, outstanding, tasks, handed, published>>

(* _write_stage_indices: the first write of a stream picks zlib or raw,     *)
(* whichever is smaller, and records the choice; a rewrite is forced to it. *)
PickCodec(sid) ==
  IF meta[sid] = None THEN {"zlib", "raw"} ELSE {meta[sid]}

FinishIndices ==
  /\ Writing /\ Task.kind = "indices"
  /\ written' = written + 1
  /\ disk' = [disk EXCEPT ![<<Task.sid, "indices">>] = Task.ver]
  /\ \E e \in PickCodec(Task.sid) :
       /\ codec' = [codec EXCEPT ![Task.sid] = e]
       /\ meta' = [meta EXCEPT ![Task.sid] = e]
  /\ UNCHANGED <<got, writeErrors, barriers, producer, main, finalizer,
                 outstanding, tasks, handed, published>>

FinishBarrier ==
  /\ Writing /\ Task.kind = "barrier"
  /\ written' = written + 1
  /\ barriers' = barriers \cup {Task.tensor}
  /\ UNCHANGED <<got, writeErrors, disk, codec, meta, producer, main,
                 finalizer, outstanding, tasks, handed, published>>

(* A failed write is recorded and the worker goes on with the next task. *)
FailTask ==
  /\ "write" \in Failures
  /\ Writing /\ Task.kind # "barrier"
  /\ written' = written + 1
  /\ writeErrors' = TRUE
  /\ UNCHANGED <<got, disk, codec, meta, barriers, producer, main, finalizer,
                 outstanding, tasks, handed, published>>

-----------------------------------------------------------------------------
(* The finalize worker: _FinalizeWorker._run. *)

Item == handed[fgot]
Finalizing == fgot > fdone

StartItem ==
  /\ ~Finalizing /\ fgot < Len(handed)
  /\ fgot' = fgot + 1
  /\ UNCHANGED <<fdone, fErrors, manifest, producer, main, writer,
                 outstanding, tasks, handed, published>>

(* The manifest entry: per stage the recorded encoding and index_bytes, the *)
(* size of the stream at that moment (its version stands for it).           *)
Entry(t) ==
  [name |-> t,
   index |-> [i \in 1..Stages[t] |->
               [bytes |-> disk[<<<<t, i>>, "indices">>],
                encoding |-> meta[<<t, i>>]]]]

(* Mutant of Released: nothing is given back. *)
NotReleased(n) == outstanding

(* PrefetchBudget.release *)
Released(n) == IF outstanding > n THEN outstanding - n ELSE 0

(* Mutant of WritesDone: does not wait for the tensor's writes. *)
NoWait(t) == TRUE

(* barrier.wait() *)
WritesDone(t) == t \in barriers

(* Mutant of FinalizeItem: the newest entry is put first. *)
FinalizeItemFirst ==
  /\ Finalizing /\ Item # Stop
  /\ WritesDone(Item)
  /\ manifest' = <<Entry(Item)>> \o manifest
  /\ outstanding' = Released(Est(Item))
  /\ fdone' = fdone + 1
  /\ UNCHANGED <<fgot, fErrors, producer, main, writer,
                 tasks, handed, published>>

(* The refreshed sizes, the sidecars and the entry; then                    *)
(* _release_candidate_payload and manifest["tensors"].append.               *)
FinalizeItem ==
  /\ Finalizing /\ Item # Stop
  /\ WritesDone(Item)
  /\ manifest' = Append(manifest, Entry(Item))
  /\ outstanding' = Released(Est(Item))
  /\ fdone' = fdone + 1
  /\ UNCHANGED <<fgot, fErrors, producer, main, writer,
                 tasks, handed, published>>

(* An exception in the CPU tail (a sidecar write, the metrics): no entry is *)
(* appended and the payload's bytes are not released.                       *)
FailItem ==
  /\ "finalize" \in Failures
  /\ Finalizing /\ Item # Stop
  /\ WritesDone(Item)
  /\ fErrors' = TRUE
  /\ fdone' = fdone + 1
  /\ UNCHANGED <<fgot, manifest, producer, main, writer,
                 outstanding, tasks, handed, published>>

(* Mutant of StopItem: leaves the loop without task_done. *)
StopItemUnmarked ==
  /\ Finalizing /\ Item = Stop
  /\ UNCHANGED vars

StopItem ==
  /\ Finalizing /\ Item = Stop
  /\ fdone' = fdone + 1
  /\ UNCHANGED <<fgot, fErrors, manifest, producer, main, writer,
                 outstanding, tasks, handed, published>>

-----------------------------------------------------------------------------
Producer ==
  \/ ScanDense \/ ScanUnlisted \/ ScanCandidate \/ ScanEnd
  \/ Reserve \/ PutCandidate \/ ProducerFail

Main ==
  \/ CheckLoop \/ TakeCandidate \/ GetTimeout
  \/ SkipSaturated \/ SubmitCodebook \/ SubmitIndices \/ SubmitReassignment
  \/ RefineScales \/ SubmitBarrier \/ HandOff \/ MainFail
  \/ JoinProducer \/ WriteDense \/ WriteDenseFail
  \/ StopFinalizer \/ DrainFinalizer \/ FlushWriter
  \/ OpenManifest \/ WriteManifest

Writer ==
  StartTask \/ FinishCodebook \/ FinishIndices \/ FinishBarrier \/ FailTask

Finalizer == StartItem \/ FinalizeItem \/ FailItem \/ StopItem

Ended == mpc \in {"returned", "raised"}

(* pack_checkpoint has returned or raised; its daemon threads may be idle. *)
Finished == Ended /\ UNCHANGED vars

Next == Producer \/ Main \/ Writer \/ Finalizer \/ Finished

Spec == Init /\ [][Next]_vars

(* Every thread is scheduled by the operating system, and the blocking      *)
(* calls poll (reserve, the consumer's get) or are woken by the queues.     *)
FairSpec ==
  Spec /\ WF_vars(Producer) /\ WF_vars(Main)
       /\ WF_vars(Writer) /\ WF_vars(Finalizer)

-----------------------------------------------------------------------------
(* Properties. *)

MainStates ==
  {"poll", "recheck", "get", "codebook", "indices", "reassign", "scale", "barrier",
   "handoff", "join", "dense", "sentinel", "drain", "flush", "commit",
   "committing", "returned", "raised"}

Codecs == {"zlib", "raw", None}

Entries ==
  [name : Tensors, index : Seq([bytes : Versions, encoding : Codecs])]

ProducerTypeOK ==
  /\ ppc \in {"scan", "reserve", "put", "done"}
  /\ pos \in 1..(N + 1) /\ (ppc \in {"reserve", "put"} => pos <= N)
  /\ candidates \in Nat
  /\ passthrough \subseteq Tensors
  /\ prefetched \in Seq(Tensors) /\ exc \in BOOLEAN
  /\ outstanding \in Nat
  /\ taken \in 0..Len(prefetched) /\ Len(prefetched) - taken <= PrefetchDepth

Working ==
  mpc \in {"codebook", "indices", "reassign", "scale", "barrier", "handoff"}

MainTypeOK ==
  /\ mpc \in MainStates
  /\ pass \in 0..(EmPasses + 1) /\ stage \in Nat \ {0}
  /\ fit \in [Tensors -> {None, "final", "stale"}]
  /\ dense \subseteq Tensors
  /\ published \in [state : {"absent", "torn", "complete"},
                    entries : Seq(Entries)]

CursorOK == Working => taken > 0 /\ stage <= Stages[Cur]

WriterTypeOK ==
  /\ tasks \in Seq(Writes \cup Barriers)
  /\ got \in 0..Len(tasks) /\ Len(tasks) - got <= WriterDepth
  /\ written \in {got, got - 1} \cap Nat /\ writeErrors \in BOOLEAN
  /\ disk \in [Files -> Versions]
  /\ codec \in [StageIds -> Codecs] /\ meta \in [StageIds -> Codecs]
  /\ barriers \subseteq Tensors

FinalizerTypeOK ==
  /\ handed \in Seq(Tensors \cup {Stop})
  /\ fgot \in 0..Len(handed) /\ Len(handed) - fgot <= FinalizeDepth
  /\ fdone \in {fgot, fgot - 1} \cap Nat /\ fErrors \in BOOLEAN
  /\ manifest \in Seq(Entries)

(* Types, and no cursor of a queue passes another: the queues are bounded   *)
(* by their maxsize and each worker holds one item at a time.               *)
TypeOK ==
  ProducerTypeOK /\ MainTypeOK /\ CursorOK /\ WriterTypeOK /\ FinalizerTypeOK

Committed == published.state = "complete"

CommittedNames == [k \in 1..Len(published.entries) |-> published.entries[k].name]

(* What the run selects, told from the arguments alone: of the candidates   *)
(* the k-th, when k falls in the partition, until max_tensors are taken;    *)
(* the scan is cut short at the first tensor that meets the limit.          *)
Rank(t) == Cardinality({u \in 1..(t - 1) : Kind[u] = "candidate"})
Eligible(t) ==
  Kind[t] = "candidate" /\ (PartCount = 0 \/ Rank(t) % PartCount = PartIndex)
LimitHit(t) ==
  /\ Kind[t] \in {"skipped", "candidate"}
  /\ Cardinality({u \in 1..(t - 1) : Eligible(u)}) >= MaxTensors
Scanned == {t \in Tensors : \A u \in 1..t : ~LimitHit(u)}
Selected == {t \in Scanned : Eligible(t)}
KeptDense == {t \in Scanned : \/ Kind[t] \in {"dense", "skipped"}
                              \/ Kind[t] = "unlisted" /\ UnlistedPassthrough}

(* A complete manifest.json lists every selected tensor once, in checkpoint *)
(* order ("One worker + FIFO queue keeps manifest order identical to inline *)
(* execution"), next to exactly the tensors the filters keep dense: no      *)
(* candidate is lost between the four threads, and none is dropped with an  *)
(* error nobody looked at.                                                  *)
CommitComplete ==
  Committed =>
    /\ {CommittedNames[k] : k \in DOMAIN CommittedNames} = Selected
    /\ \A j, k \in DOMAIN CommittedNames :
         j < k => CommittedNames[j] < CommittedNames[k]
    /\ dense = KeptDense

(* Whenever manifest.json exists, complete or torn, each file of a selected *)
(* tensor holds its last version, so a reader (or a process restarted after *)
(* a crash) that finds a manifest finds the streams it describes.           *)
CommittedIsDecodable ==
  published.state # "absent" =>
    \A f \in Files : f[1][1] \in Selected => disk[f] = FinalVersion(f)

(* The index_bytes and the encoding of a manifest entry are those of the    *)
(* stream on disk, although EM-AQ and compensation rewrite streams behind   *)
(* the finalizer's back; a failed write is the only exception.              *)
EntriesMatchDisk ==
  ~writeErrors =>
    \A k \in DOMAIN manifest : \A i \in DOMAIN manifest[k].index :
      LET sid == <<manifest[k].name, i>> IN
      /\ manifest[k].index[i].bytes = FinalVersion(<<sid, "indices">>)
      /\ manifest[k].index[i].bytes = disk[<<sid, "indices">>]
      /\ manifest[k].index[i].encoding = codec[sid]

(* The pack commits only when no thread has recorded an error: the          *)
(* producer's, the writer's and the finalizer's all reach the caller.       *)
ErrorsSurface ==
  mpc \in {"commit", "committing", "returned"} =>
    ~exc /\ ~writeErrors /\ ~fErrors

(* mse_scale never fits scales on a stream that is still queued: the        *)
(* READ-AFTER-WRITE comment of MSEScaleStrategy.apply.                      *)
ScalesFitFinal == \A t \in Tensors : fit[t] # "stale"

(* Payload bytes reserved: candidates being prepped, queued, packed or      *)
(* finalized.                                                               *)
Prefetched == {prefetched[k] : k \in DOMAIN prefetched}
Retired == {manifest[k].name : k \in DOMAIN manifest}
Resident ==
  (Prefetched \ Retired) \cup (IF ppc = "put" THEN {pos} ELSE {})

(* Their bytes among the first t tensors. *)
ResidentBytes[t \in 0..N] ==
  IF t = 0 THEN 0
  ELSE ResidentBytes[t - 1] + (IF t \in Resident THEN Est(t) ELSE 0)

(* The budget counts exactly the resident payloads, while the producer has  *)
(* not failed (its last reservation is then never given back).              *)
BudgetCountsResident == ~exc => outstanding = ResidentBytes[N]

(* A candidate larger than the whole budget is admitted alone. *)
OverBudgetAlone ==
  Budget > 0 /\ ~exc /\ outstanding > Budget => Cardinality(Resident) = 1

(* "maxsize=1 bounds RAM: at most one candidate queued + one finalizing +   *)
(* one on the GPU thread".                                                  *)
TakenBounded == taken - fdone <= FinalizeDepth + 2

(* The pack ends: it returns or raises, whichever of the producer, the      *)
(* writer and the main thread fails.                                        *)
Terminates == <>Ended
=============================================================================
