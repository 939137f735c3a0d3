# orka: a TLA+ verification project

orka compresses the weights of a language model: each 2-D tensor is cut into
short vectors, every vector is replaced by an index into a few small codebooks
(residual vector quantization), and the result is a directory `.orka` with a
`manifest.json`, one pair of files per stage of each tensor, and the tensors
that are kept dense. Around this stand a UI server that runs such jobs on one
GPU, tools that split a pack over processes, and readers of the artifact.

The numerics are floating-point and are tested by the repository's own tests.
What those tests hardly reach is the *control*: threads and queues, writes that
overtake one another, errors that surface late or never, jobs that outlive
their supervisor. That is what is modelled here.

## Inventory

| part | state it keeps | operations | what is hard about it | what makes it correct |
|---|---|---|---|---|
| **Checkpoint pack** `pipeline/pack.py`, `pack_pipeline.py`, `pack_manifest.py` | prefetch queue and its done event, byte budget, finalize queue, `_passthrough`, the manifest | scan, prep, stage loop, strategies, hand-over, finalize, commit | four threads on three bounded queues and a budget, failure in any of them | the manifest lists every selected tensor once and in order; it matches the files; errors reach the caller; the pack ends |
| **Refinement strategies** `pipeline/strategies/` | none of their own; rewrite files of the tensor | error compensation, EM-AQ passes, scale refit | rewrites go through the same queue as first writes; scale refit reads files back | the last version wins, recorded and actual encoding agree, scales are fitted on the final streams |
| **Background writer** `_runtime/io.py` | queue of 128 tasks, `errors` | submit, worker, wait, stop | errors surface only at `wait`; the list is process-wide | FIFO; no failed write behind a committed manifest |
| **Format of a tensor** `core/_format.py` | files, `stage_meta["encoding"]` | write codebook, indices, sidecars | in-place writes; raw or deflated is decided in the writer thread | a stream and its recorded encoding agree |
| **Limits** `_runtime/limits.py` | monitor thread, `_RAM_EXCEEDED_MSG` | apply, check, stop | process-wide flag consumed by the first reader | no pack raises when nothing failed and no cap was exceeded |
| **UI job queue** `ui/backend/jobs.py`, `live.py`, `app.py` | pending list, wake event, worker task, per-job log and subscribers | submit, start, stop, run, emit, subscribe, settle | event loop, GPU threads that cannot be cancelled, pool threads, restarts | one GPU job at a time, every job settles with a verdict, every stream ends and is exact |
| **UI fetch memo** `ui/backend/fetch.py` | two dicts of about 32 entries | memoised fetch | test, evict, build, store and read in pool threads, no lock | the memo stays bounded |
| **Merge, sequential, parallel** `artifact/merge.py`, `pipeline/sequential.py`, `tools/orka_parallel.py`, `deploy/kaggle.py` | part directories, output directory | split, pack parts, merge, clean up | a crash between any two steps, retries, workers left running | a published manifest covers every tensor and matches the streams beside it; what an attempt packed survives its failures; a finished artifact is not merged over |
| **Container, codebook cache** `artifact/container.py`, `codebook/cache.py` | one file per key / artifact | write temporary, rename, read | two processes with one temporary name | a reader sees a whole file |
| **AutoQuant** `autoquant/` | `HarnessState` (candidate, allocation, quality, verification), three counters of money, the report | bounded loop of tools a reasoner picks | the state keeps results of earlier artifacts; a run can end on many paths | spending and steps are bounded, success only with an artifact, every run ends |
| **Entropy coder, trellis** `quant/ans.py`, `quant/trellis.py` | none | encode, decode | renormalisation bounds, back pointers | decode inverts encode; the path is the best one the trellis has |
| **Bit allocation** `quant/allocate.py`, `curvature.py`, `spec.py` | none | greedy water-filling, Lagrangian search, comparison | codebook taxes, exhausted budgets | the budget holds when it can and no affordable upgrade is left |
| **Codebooks, transforms, metrics, inference, QAT, exports, integrations** | weights | numerics and conversion | floating point | tested numerically; not modelled |

The pack is called by the CLI, the sequential and parallel drivers, AutoQuant
and the UI's live job; the readers (decode, reconstruct, verify, inference,
exports) meet it only through the artifact directory.

## Modules

| module | models | role |
|---|---|---|
| `PackPipeline` | one call of `pack_checkpoint` in per-tensor mode | four threads, one action per step between two visible effects |
| `PackOrder` | nothing in the code: the promise | what a pack owes its caller: tensors enter and leave in order, a bounded number is inside, all or nothing is published |
| `PackRefinement` | - | the mapping from `PackPipeline` to `PackOrder` |
| `MCPackPipeline` | - | the finite instances |
| `JobQueue` | `JobQueue`, `_Job`, `run_live`, `job_stream` | event loop, GPU threads, clients, restarts; small enough to be checked without an MC module |
| `ArtifactMerge` | `merge_orka_artifacts` and its three drivers | directories, processes, crashes, retries |
| `AutoQuant` | `run_autoquant`, its tools, `GratisClient` | a loop whose next step an unreliable reasoner picks |
| `PackSession` | `BackgroundWriter`, the RAM monitor | what one pack of a process leaves to the next |
| `SharedFiles` | `_codebook_cache_save`, `pack_container` | several processes and one temporary name |
| `FetchMemo` | `_memo_get` | threads between two statements |
| `RansCoder` | `quant/ans.py` | encoder and decoder, one loop iteration per step |
| `IndexPacking` | bit packing and bit planes of `core/_format.py` | symbolic bits in chunks |
| `TrellisQuantizer` | `quant/trellis.py` | Viterbi search and traceback |
| `BitAllocation` | the search of `quant/allocate.py` | greedy and Lagrangian candidates |
| `Arithmetic` | - | the sum of a table and `1 << k`, used by the three modules above |
| `MCSideBySide` | - | the instances of seven modules that share no variable, `PackSession` to `BitAllocation` |

Eight modules hold theorems and nothing that a run checks:

| module | about |
|---|---|
| `PackPipelineProofs` | `PackPipeline`: types, errors, queues, files and entries |
| `PackOrderProofs` | `PackPipeline` from the scan to the commit, its budget, and `PackRefinement` |
| `BackendProofs` | `JobQueue`, `FetchMemo` |
| `ArtifactMergeProofs` | `ArtifactMerge` |
| `AcrossPacksProofs` | `AutoQuant`, `PackSession`, `SharedFiles` |
| `CoderProofs` | `IndexPacking`, `RansCoder` |
| `SearchProofs` | `BitAllocation`, `TrellisQuantizer` |
| `ArithmeticTheorems` | sums over finite sets, least elements, powers of two |

### PackPipeline and the code

* **Queues.** A `queue.Queue` is an append-only log and a cursor, so `taken`,
  `got`, `fgot` count the `get`s and `written`, `fdone` the `task_done`s;
  `queue.join()` is the equality of a cursor and the length of the log. The
  whole history stays visible to the properties.
* **Producer** (`_prefetch_worker`): `ScanDense`, `ScanUnlisted`,
  `ScanCandidate`, `ScanEnd` are the branches of its loop; `Reserve` is
  `PrefetchBudget.reserve`; `PutCandidate` is the prep and the blocking put;
  `ProducerFail` its `except` and `finally`.
* **Main**: `CheckLoop`, `TakeCandidate`, `GetTimeout` are the consumer loop.
  `CheckLoop` is two steps, because its condition is two reads (`prefetch_done`,
  then the queue) and the producer may act in between; the mutant reads them the
  other way round and loses a candidate.
  `SubmitCodebook`, `SubmitIndices`, `NextStage`, `NextPhase` the stage loop and
  the order of the strategies; `RefineScales` flushes the writer and reads the
  tensor's streams back; `SubmitBarrier`, `HandOff` are
  `_FinalizeWorker.submit`; the rest is the end of `pack_checkpoint` in the
  order of the code, with every early raise.
* **Writer** and **finalizer**: one action to take an item (a write truncates
  its file there), one for each way to finish it.
* **Data.** Tensor values are a version number: 0 for the greedy assignment, `p`
  for EM-AQ pass `p`, 1 for compensation. `FinalVersion` is the version the
  metrics of the manifest are measured on. `index_bytes` of an entry is
  represented by the version found on disk.
* **Environment.** `Failures` names what may go wrong: loading or prepping a
  tensor, the GPU work, a file write, the CPU tail in the finalizer. A
  failed write leaves a torn file. Filters of the producer depend on name and
  shape alone and are the constant `Kind`.

### JobQueue and the code

An action is what the event loop does between two awaits; the worker settles a
job and starts the next one in the same action because the code awaits nothing
in between. `subscribe` is two actions, since a GPU thread (which `emit`s in
two actions: the log, the fan-out) can run between the copy of the log and the
enrolment; the loop does nothing else meanwhile (`LoopFree`). So is the end of a
drain that takes too long: `StopExpires` is the timer, which cancels the wait, and
`StopTimeout` the turn in which `stop` resumes. Between the two the worker may still
settle the job, and the except clause (`jobs.py:111-114`) does not look at `done`
again: it fails and settles a job that is done. A thread started
by `asyncio.to_thread` keeps running after its worker is cancelled. A cancelled
worker is a *zombie* until its `finally` clause has run; asyncio's ready queue is
FIFO, so this is before the first step of a worker created later
(`WorkerReady`). Submission from a pool thread is the append and, later, the
signal. `Start` can follow `Stop` in one process; this is what the class's
docstring describes ("a second app startup, or a second TestClient").

### ArtifactMerge and the code

The state is what survives a process: the part directories, the output directory
and the processes that run. A directory has streams and manifest entries, both
stamped with the attempt that wrote them, so that bytes of two attempts can be
told apart. `Begin` to `Reflag` are the lines of a driver in the order of the
code: the refusals before anything is touched (too few devices, no candidate), the
up-front check of the output directory (which `orka_parallel.py` does
not have), the number of workers (`kaggle.py`'s is an argument), the removal of old parts (`kaggle.py` at the start, `sequential.py`
per part, `orka_parallel.py` never), the batches, the awaited exit codes, the one
part that is moved instead of merged, and the merge read, copied, listed and
written. With fewer than two devices `orka_parallel.py` has nothing to merge: it packs
the whole checkpoint into the output directory itself (`Direct`), over what is
there, and ends with that pack. `Crash` ends the driver between any two of them; workers in processes of
their own may live on. A pack of a part is three steps: its streams, its manifest,
or a failure in either. A worker that outlives its driver can write into a
directory that has meanwhile been moved; the model lets it write to the place
instead, and marks that a worker of an earlier attempt wrote (`overlap`); the
properties that speak of bytes exclude it.

### AutoQuant and the code

`Loop`, `Reasoner` and `Tool` are the three parts of an iteration: the limits, the
call of the reasoner, the execution of its choice. Every tool ends in `Record`,
which is `record` followed by the gate, because the code does both after every
tool. Evidence carries the number of the pack it was obtained from, which the code
does not keep; this is what `AcceptsWhatItEmits` looks at. Money is counted three
times, as in the code: what the provider charged, `GratisClient.spent_usd`, and
`state.spent_usd`. An exception that is neither a `ValueError` nor a `GratisError`
ends the run without a report (`Escape`): `ToolRaises` from a tool, and `AskRaises`
from the client, which lets some through before the call is charged (a body cut off),
and some after it has booked the cost (an answer whose `tool_calls` or `message` is null,
`gratis.py:41-46`), so that the state misses the last call.

### The components side by side

* `FetchMemo`: one action per statement of `_memo_get`, since any two may be
  separated by another thread. The errors of a lost race (a key popped twice, an
  iterator of a dict that changed size, a key evicted before it is read) are its
  outcomes `error`.
* `SharedFiles`: a name refers to an inode, and so does an open handle: two
  savers can write one file and rename it under each other. np.save and the
  container are a few regions written in order, the container's digest last. Two
  savers of one name write the same bytes.
* `PackSession`: a pack is reduced to its writes, its checkpoints, its join and its
  look at the errors; join and look are two steps, as in `wait`.
* `RansCoder`: word and interval have `RenormBits` bits (16 in the code). `trail`
  remembers what the encoder went through, so that the decoder can be compared with
  it at every symbol and not only at the end. A table has at least as many slots as
  the stream has symbols, as `ans.py:204` chooses it.
* `IndexPacking`: a bit is the pair of its index and its weight, so one check covers
  all values of the indices.
* `TrellisQuantizer`: levels are odd integers; a cost saturates at `INF` as in the
  code, where it is 1e30. `TrellisAssumption` says that no row costs as much: a
  state reached at that price could not be told from one never reached. The
  reference enumerates all routes of the trellis.
* `BitAllocation`: bits and distortions are small integers; the binary search over
  the multiplier may end at any feasible multiplier of `Lambdas`, which is weaker
  than the code's search and thus covers it.

## Runs

| run | question | result |
|---|---|---|
| `pack_budgeted` | four tensors under a byte budget, one refined by EM-AQ and rescaled, one compensated and over the budget; load, GPU and write failures | holds: files, entries, scales and budget agree, the pack ends |
| `pack_failures` | partition, `max_tensors`, a saturated stage, all four failures, no budget | holds: a manifest lists exactly the selected tensors and is written only when no error is recorded; the pack ends |
| `pack_order` | does the pipeline implement `PackOrder` | holds |
| `pack_finalize_hang` | the budget together with a failing finalizer | **violated**: see findings |
| `job_queue` | two jobs, two lifecycles, a client, submissions on and off the loop | holds: jobs are served and settled, only a stop that timed out overturns a verdict, streams end |
| `job_left_running`, `job_overlap`, `job_stream` | what comments in `jobs.py` say | **violated**: see findings |
| `artifact_merge` | the three drivers, two attempts, one to three devices, one or two workers at a time, a failing part, workers that survive | holds: what is published covers all tensors and matches its streams, what an attempt packed survives its failures, no merge writes over a reported success, an attempt ends if its packs do |
| `autoquant` | every sequence of tools, costs and failures | holds: money and steps are bounded, a call that is not booked is the last, success has an artifact, every run ends |
| `autoquant_stale` | the design's promise of a verified and measured artifact | **violated**: see findings |
| `side_by_side` | seven components that share no state | holds: the memo is bounded, published files are whole, packs judge only what failed, the rANS decoder retraces its encoder, unpacking restores the indices, the path is the best, the budget is kept |

*Bounds.* `pack_budgeted` has four tensors: one of two stages that one EM-AQ pass
rewrites and whose scales are refitted, one kept dense, one of two stages that is
compensated and larger than the whole budget, and one of a single stage; so a
stream is written twice, a barrier waits behind a rewrite, and a reservation
both waits and is admitted alone. `pack_failures` has seven tensors to meet every
branch of the filters: the other partition, the limit, the skip list and the
allow-list, and two EM-AQ passes with a saturated stage. `pack_order` has one
candidate more than the window of `PackOrder` lets in. Queue depths are 1 and 2,
which gives every queue a full, an empty and a waiting state; the code's writer
queue holds 128 tasks, a shorter one only blocks more, and the theorems hold for
every depth. The jobs need one in flight, one waiting and a restart; two events
make order visible. Deadlock is checked in the pack (a finished pack stutters
explicitly); it is not checked for the others, which really may rest: a queue
nobody submits to, a driver that is not run again, a finished algorithm.

`artifact_merge` has one or three tensors, one to three devices or blocks (one
stands for fewer than two), one or two workers at a time for `kaggle.py`, two
attempts and one failing pack: enough for a retry that splits the tensors
otherwise than the attempt whose shards it finds, for a batch that is not the
last, and for a pack in place over a finished artifact. `autoquant` has seven steps:
the shortest way to an artifact with evidence takes five, so that evidence can
precede a second pack and packs can fail on the way; with a ceiling of two and calls
of up to two, a call can be free, meet the ceiling, exceed it, or be the last.
In `side_by_side` exactly one component moves in each
behaviour: the variable `focus` chooses it and the others stay in one initial
state. Since no two of them share a variable this loses no state of any of them,
and one run asks one question of each. Three threads meet at a memo of one entry
(one to hold the bound, two to pass it together); three savers; three packs of one
write, one of them with a RAM cap, so that a pack can suffer from the one before
it and the one beside it; the rANS streams include one whose table falls back to
the peaked one and one that lacks symbol 0, at precisions up to the word size;
index widths on both sides of 8 and counts on both sides of a chunk; trellis rows
of up to four samples at one and two bits; three tensors and three specs, one
with a codebook tax that makes the lowest rate not the cheapest.

*Fairness.* `PackPipeline!FairSpec` is weak fairness of each of the four threads:
they are scheduled by the operating system, and every blocking call either
polls with a timeout (`reserve`, the consumer's `get`) or is woken by its queue.
No fairness is asked of a particular failure or branch. `JobQueue!FairSpec` asks
that the loop runs what is ready, that a begun `emit` or `submit` goes on,
that a GPU job ends and that the drain timer fires; submitting, connecting,
starting and stopping are left to the environment. "The timer fires" is the
disjunction of the two ends of the wait, so it does not prefer one.
`ArtifactMerge!FairSpec` asks that the driver runs on, and nothing of the workers:
the drivers wait for them without a timeout and finding 1 is a pack that never ends,
so `AttemptsEnd` says that an attempt ends *if* no pack of its machine runs for ever; `AutoQuant!FairSpec` that the loop turns, that a call of the reasoner
returns (`urlopen` has a timeout) and that a tool returns or raises. Crashes,
failures, further attempts and the deadline are never forced.

## Findings

1. **A failed finalize can hang the pack** (`pack_pipeline.py:203-216`). The
   reserved bytes of the candidate are released at the end of the CPU tail, so
   an exception before that keeps them. If the rest does not fit, the producer
   waits in `reserve` for ever, the main thread polls for ever and the recorded
   error is never raised. Without a budget the same failure is reported
   (`pack_failures`).
2. **A job is left "running" by stop** (`jobs.py:115`). While `stop` waits for
   job A, the worker settles A and starts B before `stop` resumes; B is cancelled
   without a verdict.
3. **Two GPU jobs can run at once** after a stop that timed out (or case 2)
   followed by a start in the same process: the thread of the first cannot be
   cancelled and nobody waits for it.
4. **A stream may repeat or lose an event**: `emit` runs on the GPU thread while
   `subscribe` runs on the loop.
5. **AutoQuant accepts evidence of another artifact** (`runner.py:35`,
   `harness_schema.py:71-87`). Packing again does not reset `quality` and
   `verification`, and a measurement taken before any pack of the run counts too;
   the design says the harness "cannot publish an artifact unless deterministic
   validation and measured quality gates succeed". From the command line the
   measurement is a constant: no `pulse_fn` is injected (`commands.py:432`) and the
   proxy answers `kl = 0` (`tools.py:152`).

Seen while modelling, without a run of its own:

* A job that is done can be turned into a failed one: the worker settles it after the
  drain timer has fired and before `stop` resumes (`jobs.py:111-114`). `VerdictStands`
  has this as its one exception, and says that nothing else overturns a verdict.
* `run_autoquant` turns a `GratisError`, a `StopIteration` and the `ValueError`s of its
  tools into a verdict. Any other exception leaves it with status "running" and without
  a report, or with that of an earlier run in the same directory; `SpendBounded` names
  the call such a run may miss in its books.
* `orka_parallel.py` on a machine with one device packs over a finished `--out`. Until
  the last step the old manifest describes streams that are being replaced, and when
  that pack fails it stays so (`Overwritten` in `PublishedMatches`).
* A retry of `kaggle.py` or `sequential.py` deletes packed parts of the attempt before
  and packs them again (`kaggle.py:249-251`, `sequential.py:177-178`).
* A partitioned merge that fails leaves a non-empty output directory, and every
  retry refuses it. `orka_parallel.py` notices only after packing everything again,
  does not remove shards of an earlier attempt, and moves a single shard *into* an
  output directory that exists. `sequential.py:225` rewrites a finished manifest
  in place when its parts are already gone: a crash there loses the only manifest.
* The memo may hold up to `_MEMO_MAX - 1` entries plus one per pool thread, and it
  never shrinks back; a lost race is answered 404 or 500.
* Two savers of one codebook can publish a file whose length is right and whose
  middle is a hole of zeros; `np.load` accepts it. When the other saver goes on to
  its end the file becomes whole; when it dies it stays.
* The errors of the background writer are never cleared: a process in which one
  write failed cannot pack any more.
* `_NEXT` of the trellis sends two branches with the same subset to the same
  successors: states 0 and 2, and 1 and 3, are equivalent, so the "4-state" trellis
  has two states' worth of memory.
* With codebook taxes the specs of the lowest index rate may exceed the budget
  although cheaper ones fit, and may be chosen for their lower distortion.
* `refine()` returns the escalated configuration of a round that did not improve
  together with the quality of the round before.

## What is proved

Every safety property that a passing run checks is also a theorem for all values of the
constants, and so is the safety part of the refinement. Each argument has the same
shape: an inductive invariant, one lemma per action (or group of actions that leave the
same state alone), and the property as a consequence. The assumptions are those the
modules state about their constants; what they exclude is named below.

**`PackPipelineProofs`**, from `PackAssumption` (queues hold at least one item, sizes are
positive, the partition index is below the count).

* `TypeCorrect`: `TypeOK` carries the bounds of all queues and the fact that a worker
  holds at most one item. It is inductive as stated; one lemma per thread's state,
  resting on frame lemmas (what a thread never touches).
* `ErrorsAlwaysSurface`: no commit with a recorded error. An error could be recorded
  after main has looked; `ErrorsInv` adds why it is not: past `join` the producer has
  ended, past `drain` the finalizer has nothing left, past `flush` neither has the
  writer, and main gives them nothing more.
* `TakenAlwaysBounded`: backpressure, from `HandOverInv` (between two candidates main
  has handed over all it took) and the queue bound of `TypeOK`.
* `FilesInvariant`, and from it `EntriesAlwaysMatch` and `ScalesAlwaysFit`. A file is
  rewritten through the same FIFO log, so what matters is the *last* entry of the log
  for it. `CurInv` says which version that is at each point of the strategies,
  `BarrierInv` that a barrier lies behind the last write of its tensor, `DiskInv` that a
  task that was done is on disk until a later one that writes the same file has started,
  `SetInv` that an event is set by a barrier that was done, `CodecInv` that recorded
  and actual encoding agree, `EntryInv` that a manifest entry was read behind its
  barrier. `OrderInv` (candidates enter once, in checkpoint order) is what keeps the files
  of two tensors apart.

**`PackOrderProofs`**, from the same assumption.

* `ResultInvariant`: `ScanInv` (what was put and what was set aside is the selection up
  to the producer's position), `HandInv` (what main handed over is a prefix of it, the
  sentinel behind), `ManifestInv` (the finalizer keeps what it does not fail on, in
  order) and `CommitInv` (main leaves its loop only when nothing is left).
* `CommitsAreComplete` from these, and `CommitsAreDecodable` from these and
  `FilesInv`: a complete manifest lists the selection in order, and every file it names
  holds its last version.
* `PackKeepsPromise`: each step of the four threads is a step of `PackOrder` or changes
  nothing its caller sees. A put is `Enter`, because the tensor's rank in the selection
  (`Place`) is its place in the log and the three queue bounds leave room for it;
  finalizing is `Leave`; the commit is the publication; every error spoils, and only a
  spoilt pack raises.
* `BudgetAlwaysCounts` and `OverBudgetIsAlone`: `BudgetInv` keeps a table of prefix sums
  over the resident candidates, changed at one place by each reservation and release;
  `SumIsBytes` shows that it is the sum the property names.

**`BackendProofs`**, from `QueueAssumption` and `MemoAssumption` (finitely many threads,
at least one entry).

* `QueueInvariant`, and from it `TypeCorrect`, `ThreadsAreSerial`, `ClientsEnd`,
  `StreamsInOrder` and `VerdictsStand`. `LifeInv` says when a worker exists and that a
  cancelled one is gone before the next takes a job; `PendingInv` that the list is what
  is left of the jobs submitted, in their order; `ThreadInv` that the thread of the
  present lifecycle is that of the worker's job; `StreamInv` that a client's queue is a
  part of the log it streams, with one `END` exactly when the job has settled.
  `VerdictsStand` rests on two parts: a worker settles only the job it runs, and
  between the timer and the turn of `stop` the target is the job that was waited for.
  The properties that comments of the code state and that do not hold are the violated
  runs; the theorems say what remains true across a restart.
* `MemoTypeCorrect`, `MemoStaysBounded`: `Len(memo)` plus the number of threads that
  will store a key without looking again is at most
  `MemoMax - 1 + Cardinality(Threads)`. Counting these threads makes the bound
  inductive: `Room` admits one more only below the limit, `Pop` exchanges a key for
  one, `Store` turns one into a key.

**`ArtifactMergeProofs`**, from `MergeAssumption` (a machine has a greatest number of
devices).

* `MergeInvariant`, and from it `TypeCorrect`, `ManifestMatches`, `ManifestCovers`,
  `SuccessReadable`, `NothingPackedIsLost`, and the action property `FinishedStays`.
  The invariant follows the lines of a driver: what the packs of the present attempt
  left in their parts (`Packed`) or in the output itself (`InPlace`), how far the merge
  has filled the output (`Merging`), what a manifest that is there lists (`Published`),
  that only an attempt whose parts are all packed reports success (`Earned`), who may
  work beside an output that is not empty (`Guarded`) and where there is some manifest
  (`Filled`), and that a packed tensor and the manifest that lists it are in its part
  until they are in the output (`Kept`). `FinishedStays` needs no word about overlapping
  workers: a part is packed in its own directory, so only a pack in place writes to
  the output once a driver has reported success. `Split` shows that the chunks of
  each driver cover all tensors with at most as many parts as there are devices, and
  `DirectSplit` that fewer than two devices get one chunk with all of them: arithmetic
  with `//` and `ceil`. What is said of bytes excludes attempts whose workers
  overlap, as the properties do.

**`AcrossPacksProofs`**, from `HarnessAssumption`, `SessionAssumption` and
`SaversAssumption` (finitely many savers).

* `TypeCorrect`, `SpendingBounded`, `SuccessLeavesArtifact`: nearly inductive together;
  `StepsInv` and `VerdictInv` add that a step gets through only at the head of the loop,
  that only the end of a run sets the verdict, and that a manifest found in a directory
  is not taken away. `SpendingBounded` covers the runs that an exception ends: what they
  fail to book is the cost of the call that raised.
* `SessionTypeCorrect`, `SessionsAreHonest`: `Ledger` (a write that was submitted
  waits, has landed or has left its pack among the errors for good) and `Drained` (a
  pack submits nothing once it joins, so once the queue was seen empty none of its
  writes waits, whatever the others submit).
* `FilesTypeCorrect`, `PublicationIsWhole`: until two savers meet, the one that writes
  has the temporary name for itself (`AloneInv`); after that, as long as none dies,
  each region of a file that is published or may be is whole or a saver that has it open
  will still write it (`TogetherInv`).

**`CoderProofs`**, from `PackingAssumption` (chunks are multiples of 8, as the code's
comment asks) and `RansAssumption` (a table has as many slots as symbols, which is how
`ans.py:204` chooses the precision for up to 2^16 of them).

* `IndicesRestored`, `PackTypeCorrect`: between two chunks both sides stop at a multiple
  of eight indices, hence at a byte whatever the width, so that the bits of a chunk land
  where they would in one pass and the rounded sizes add up to the size of the whole.
* `StreamsRestored`, `RansTypeCorrect`: `FreqTable` gives every used symbol at least one
  slot and fills the table exactly; the interval bound `x_max` makes one word at most
  leave per symbol; and the states of the encoder form a chain of links (`Retraced`),
  each of which the decoder undoes. Stated for all streams, precisions and word sizes.

**`SearchProofs`**, from `AllocationAssumption` and `TrellisAssumption` (no row costs
`INF`).

* `SearchSpends`, `AllocTypeCorrect`: the heap has every upgrade of the present
  choice that could still fit, and nothing but upgrades of it (`HeapInv`): an
  upgrade skipped once does not fit later, because the spending never falls.
  `PhaseInv` carries what the first fill found to the comparison at the end.
* `PathIsOptimal`, `TrellisTypeCorrect`: the invariant keeps the columns of costs of all
  samples, which the code overwrites. No branch into a state is cheaper than its cost
  (`NoCheaper`), so a column is a lower bound along every route (`LowerBound`); a state
  that was reached is reached by its back pointer at exactly its cost (`Reached`), so the
  traceback follows a route whose cost is the minimum of the last column (`Traced`).

**`ArithmeticTheorems`** has the lemmas about data that the others cite: a sum over
a finite set does not depend on the order, is changed at one place by an update, is
monotonic; a set of integers bounded below has its least element; `1 << k` exists
and doubles. The induction principles of the library take an operator as a
parameter, which the provers cannot instantiate, so induction is stated here over
sets: a property of all natural numbers as a set that contains 0 and successors
(`AllNaturals`), one of all finite sets by a smallest counterexample
(`SmallestSubset`).

*Model-checked only.* Liveness under fairness: `Terminates` of the pack and of
AutoQuant, `Served`, `RunningSettles`, `AttemptsEnd`, and the fairness part of
`KeepsPromise`; the proof system here has no rules for `ENABLED`. The violated runs
are counterexamples and need no proof. The types of the components that run side by
side are no longer checked by a run of their own: each is a theorem
(`MemoTypeCorrect`, `FilesTypeCorrect`, `SessionTypeCorrect`, `PackTypeCorrect`,
`RansTypeCorrect`, `TrellisTypeCorrect`, `AllocTypeCorrect`).

## Plan

The modules planned are written and their safety properties proved. What could follow:

1. The pooled and per-family modes of the pack, as a second main thread over the same
   producer, writer and commit: `FilesInv` would have to speak of all tensors at once
   instead of the current one.
2. Sharper forms of theorems that hold: how many threads of earlier lifecycles can be
   alive (`ThreadsAreSerial` bounds those of one), and by how much the memo of
   `_memo_get` exceeds its limit at a given number of concurrent misses.
3. The interleaved GPU form of the rANS coder, as K copies of `RansCoder` that share
   one output, on top of the one-word bound of `RansTypeCorrect`.

## Not modelled

The pooled global and per-family modes of the pack: they collect all tensors first and
then fit, write and finalize on the GPU thread alone; what is concurrent in them, the
producer, the writer and the commit, is what the model has. Everything numeric (k-means,
transforms, metrics, kernels, training) is out of reach of TLC; the probing, the policy and
`refine()` of AutoQuant are decisions on measured numbers; readers
(`unpack_container`, `verify_container`, decode, reconstruct) change no state that
another part reads; exports and integrations, which convert
a finished artifact; the CLI; the vendored code under `research/`. `put_nowait`
on an `asyncio.Queue` from the GPU thread does not wake the loop by itself, so
an event may reach its client only when the loop next turns; streams are
modelled by what is put on them, not by when it is read.
