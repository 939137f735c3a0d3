------------------------------ MODULE JobQueue ------------------------------
(***************************************************************************)
(* The live GPU queue of the UI server: JobQueue and _Job of               *)
(* ui/backend/jobs.py, the runner of live.py and the streams of app.py.    *)
(*                                                                         *)
(* Three kinds of threads meet here.  The event loop runs the worker, the  *)
(* start and stop of the application and the HTTP clients: what it does    *)
(* between two awaits is one action, except subscribe, which a GPU thread  *)
(* can interleave with.  Each running job has a thread of asyncio.to_thread *)
(* that emits progress and that nothing can cancel.  A job may also be     *)
(* submitted from a thread of the pool.                                    *)
(*                                                                         *)
(* A job is numbered by its place in the pending list, an event by its     *)
(* place in the job's log; 0 is END.                                       *)
(*                                                                         *)
(* An operator commented "Mutant of X" is a plausible bug in the code of   *)
(* X; no specification uses it.                                            *)
(***************************************************************************)
EXTENDS Integers, Sequences, FiniteSets

CONSTANTS
  J,          \* jobs that are submitted
  MaxStarts,  \* times the application starts
  MaxEvents,  \* progress events a job may emit
  Clients     \* streams that are opened

ASSUME QueueAssumption ==
  J \in Nat /\ MaxStarts \in Nat /\ MaxEvents \in Nat

VARIABLES
  starts,     \* start() calls so far: the lifecycle we are in
  life,       \* down, up, draining (stop awaits the job in flight),
              \* expired (its timer has fired, it has not resumed)
  target,     \* the job stop waits for
  wake,       \* the value of the Event _wake
  signaled,   \* a wake.set is scheduled by call_soon_threadsafe
  worker,     \* the _run task: where it is and the job it runs
  zombies,    \* workers stop has cancelled, that have not noticed yet
  current,    \* _current
  pending,    \* _pending
  born,       \* jobs submitted so far
  unsignaled, \* jobs appended off the loop whose _signal is still to come
  status,     \* _Job.status
  done,       \* _Job.done is set
  thread,     \* the lifecycle that started the job's running thread, or 0
  returned,   \* the thread has ended: its future is ready
  log,        \* length of _Job.log
  fanning,    \* the thread is inside emit: logged, not yet fanned out
  subs,       \* _Job._subscribers
  phase,      \* of a client: away, copied (inside subscribe), joined, left
  watching,   \* the job a client streams
  queue       \* what has been put on the client's queue

lifecycle == <<starts, life, target>>
loop      == <<wake, signaled, worker, zombies, current>>
jobs      == <<pending, born, unsignaled>>
gpu       == <<thread, returned, log, fanning>>
streams   == <<subs, queue>>
clients   == <<phase, watching>>
vars == <<lifecycle, loop, jobs, status, done, gpu, streams, clients>>

JobIds == 1..J
NoJob == 0
END == 0

NoWorker == [at |-> "none", job |-> NoJob]

Init ==
  /\ starts = 0 /\ life = "down" /\ target = NoJob
  /\ wake = FALSE /\ signaled = FALSE
  /\ worker = NoWorker /\ zombies = <<>> /\ current = NoJob
  /\ pending = <<>> /\ born = 0 /\ unsignaled = {}
  /\ status = [j \in JobIds |-> "queued"]
  /\ done = [j \in JobIds |-> FALSE]
  /\ thread = [j \in JobIds |-> 0]
  /\ returned = [j \in JobIds |-> FALSE]
  /\ log = [j \in JobIds |-> 0]
  /\ fanning = [j \in JobIds |-> FALSE]
  /\ subs = [j \in JobIds |-> {}]
  /\ phase = [c \in Clients |-> "away"]
  /\ watching = [c \in Clients |-> NoJob]
  /\ queue = [c \in Clients |-> <<>>]

(* The event loop is not inside subscribe. *)
LoopFree == \A c \in Clients : phase[c] # "copied"

-----------------------------------------------------------------------------
(* submit *)

(* From the loop: _signal sets the Event itself, unless the queue is down. *)
SubmitOnLoop ==
  /\ LoopFree /\ born < J
  /\ born' = born + 1
  /\ pending' = Append(pending, born + 1)
  /\ wake' = (wake \/ life # "down")
  /\ UNCHANGED <<unsignaled, lifecycle, signaled, worker, zombies, current,
                 status, done, gpu, streams, clients>>

(* From another thread: the append, then (a step later) the signal. *)
SubmitOffLoop ==
  /\ born < J
  /\ born' = born + 1
  /\ pending' = Append(pending, born + 1)
  /\ unsignaled' = unsignaled \cup {born + 1}
  /\ UNCHANGED <<lifecycle, loop, status, done, gpu, streams, clients>>

(* Mutant of SignalOffLoop: wakes an Event of an earlier lifecycle. *)
SignalDeadLoop(j) ==
  /\ j \in unsignaled
  /\ unsignaled' = unsignaled \ {j}
  /\ UNCHANGED <<pending, born, wake, signaled, worker, zombies, current,
                 lifecycle, status, done, gpu, streams, clients>>

SignalOffLoop(j) ==
  /\ j \in unsignaled
  /\ unsignaled' = unsignaled \ {j}
  /\ signaled' = (signaled \/ life # "down")
  /\ UNCHANGED <<pending, born, wake, worker, zombies, current,
                 lifecycle, status, done, gpu, streams, clients>>

(* The loop runs the scheduled wake.set. *)
SetWake ==
  /\ LoopFree /\ signaled
  /\ wake' = TRUE /\ signaled' = FALSE
  /\ UNCHANGED <<worker, zombies, current, lifecycle, jobs, status, done, gpu,
                 streams, clients>>

-----------------------------------------------------------------------------
(* The worker: _run. *)

(* What settle puts on the queues of the job's subscribers. *)
Settled(j) ==
  [c \in Clients |-> IF c \in subs[j] THEN Append(queue[c], END) ELSE queue[c]]

Settle(j) ==
  /\ queue' = Settled(j)
  /\ subs' = [subs EXCEPT ![j] = {}]
  /\ done' = [done EXCEPT ![j] = TRUE]

(* The top of the loop, up to the next await: the head of the pending list  *)
(* is started (its thread belongs to this lifecycle), or the Event is       *)
(* cleared and awaited.  `st' is the status of the jobs at this point.      *)
NextJob(st) ==
  IF pending # <<>>
    THEN LET j == Head(pending) IN
         /\ pending' = Tail(pending)
         /\ worker' = [at |-> "run", job |-> j]
         /\ current' = j
         /\ status' = [st EXCEPT ![j] = "running"]
         /\ thread' = [thread EXCEPT ![j] = starts]
         /\ wake' = wake
    ELSE /\ worker' = [at |-> "wait", job |-> NoJob]
         /\ wake' = FALSE
         /\ current' = NoJob
         /\ status' = st
         /\ UNCHANGED <<pending, thread>>

(* The ready queue of asyncio is FIFO: a cancelled worker runs its finally  *)
(* clause before a worker created after the cancel takes its first step.    *)
WorkerReady == LoopFree /\ zombies = <<>>

(* Mutant of WorkerWakes: a job is started without waiting for the last. *)
WorkerWakesAnyway ==
  /\ WorkerReady
  /\ \/ worker.at \in {"new", "run"}
     \/ worker.at = "wait" /\ wake
  /\ pending # <<>> /\ NextJob(status)
  /\ UNCHANGED <<signaled, zombies, born, unsignaled, lifecycle, done, returned,
                 log, fanning, streams, clients>>

WorkerWakes ==
  /\ WorkerReady
  /\ \/ worker.at = "new"
     \/ worker.at = "wait" /\ wake
  /\ NextJob(status)
  /\ UNCHANGED <<signaled, zombies, born, unsignaled, lifecycle, done, returned,
                 log, fanning, streams, clients>>

(* The runner returns or raises an Exception; the worker settles the job    *)
(* and goes straight on to the next one.                                    *)
WorkerReturns ==
  /\ WorkerReady
  /\ worker.at = "run" /\ returned[worker.job]
  /\ Settle(worker.job)
  /\ \E verdict \in {"done", "failed"} :
       NextJob([status EXCEPT ![worker.job] = verdict])
  /\ UNCHANGED <<signaled, zombies, born, unsignaled, lifecycle, returned,
                 log, fanning, clients>>

(* Mutant of WorkerCancelled: no finally clause. *)
WorkerCancelledAbruptly ==
  /\ LoopFree /\ zombies # <<>>
  /\ zombies' = Tail(zombies)
  /\ UNCHANGED <<wake, signaled, worker, current, lifecycle, jobs, status, done,
                 gpu, streams, clients>>

(* CancelledError is no Exception: the status stays what it was; finally    *)
(* settles the job and resets _current.                                     *)
WorkerCancelled ==
  /\ LoopFree /\ zombies # <<>>
  /\ zombies' = Tail(zombies)
  /\ IF Head(zombies).at = "run"
       THEN Settle(Head(zombies).job) /\ current' = NoJob
       ELSE UNCHANGED <<streams, done, current>>
  /\ UNCHANGED <<wake, signaled, worker, lifecycle, jobs, status, gpu, clients>>

-----------------------------------------------------------------------------
(* The application's lifespan: start, stop. *)

Start ==
  /\ LoopFree /\ life = "down" /\ starts < MaxStarts
  /\ starts' = starts + 1 /\ life' = "up"
  /\ wake' = (pending # <<>>)
  /\ worker' = [at |-> "new", job |-> NoJob]
  /\ UNCHANGED <<target, signaled, zombies, current, jobs, status, done, gpu,
                 streams, clients>>

(* Mutant of Cancel: _current is kept. *)
CancelKeeping ==
  /\ zombies' = Append(zombies, worker) /\ worker' = NoWorker
  /\ current' = current
  /\ wake' = FALSE /\ signaled' = FALSE
  /\ life' = "down"
  /\ target' = NoJob

(* The end of stop: the supervising task is cancelled, the Event dropped. *)
Cancel ==
  /\ zombies' = Append(zombies, worker) /\ worker' = NoWorker
  /\ current' = NoJob
  /\ wake' = FALSE /\ signaled' = FALSE
  /\ life' = "down"
  /\ target' = NoJob

InFlight == current # NoJob /\ ~done[current]

StopIdle ==
  /\ LoopFree /\ life = "up" /\ ~InFlight
  /\ Cancel
  /\ UNCHANGED <<starts, jobs, status, done, gpu, streams, clients>>

StopDrains ==
  /\ LoopFree /\ life = "up" /\ InFlight
  /\ life' = "draining" /\ target' = current
  /\ UNCHANGED <<starts, loop, jobs, status, done, gpu, streams, clients>>

StopDrained ==
  /\ LoopFree /\ life = "draining" /\ done[target]
  /\ Cancel
  /\ UNCHANGED <<starts, jobs, status, done, gpu, streams, clients>>

(* drain_timeout passes: wait_for is cancelled.  Stop itself resumes in a   *)
(* later turn of the loop, even if the job settles in between or has just   *)
(* settled.                                                                 *)
StopExpires ==
  /\ LoopFree /\ life = "draining"
  /\ life' = "expired"
  /\ UNCHANGED <<starts, target, loop, jobs, status, done, gpu, streams, clients>>

(* Mutant of StopTimeout: the supervising task is not cancelled. *)
StopTimeoutUncancelled ==
  /\ LoopFree /\ life = "expired"
  /\ status' = [status EXCEPT ![target] = "failed"]
  /\ Settle(target)
  /\ life' = "down" /\ target' = NoJob
  /\ UNCHANGED <<starts, loop, jobs, gpu, clients>>

(* The except clause: the job is failed and settled on its behalf, without  *)
(* another look at done.                                                    *)
StopTimeout ==
  /\ LoopFree /\ life = "expired"
  /\ status' = [status EXCEPT ![target] = "failed"]
  /\ Settle(target)
  /\ Cancel
  /\ UNCHANGED <<starts, jobs, gpu, clients>>

-----------------------------------------------------------------------------
(* The thread of a job: _pack_and_eval. *)

(* emit: the append to the log, then the puts to the subscribers. *)
EmitLog(j) ==
  /\ thread[j] # 0 /\ ~fanning[j] /\ log[j] < MaxEvents
  /\ log' = [log EXCEPT ![j] = @ + 1]
  /\ fanning' = [fanning EXCEPT ![j] = TRUE]
  /\ UNCHANGED <<thread, returned, lifecycle, loop, jobs, status, done, streams,
                 clients>>

EmitFan(j) ==
  /\ fanning[j]
  /\ fanning' = [fanning EXCEPT ![j] = FALSE]
  /\ queue' = [c \in Clients |->
       IF c \in subs[j] THEN Append(queue[c], log[j]) ELSE queue[c]]
  /\ UNCHANGED <<subs, thread, returned, log, lifecycle, loop, jobs, status,
                 done, clients>>

ThreadEnds(j) ==
  /\ thread[j] # 0 /\ ~fanning[j]
  /\ thread' = [thread EXCEPT ![j] = 0]
  /\ returned' = [returned EXCEPT ![j] = TRUE]
  /\ UNCHANGED <<log, fanning, lifecycle, loop, jobs, status, done, streams,
                 clients>>

-----------------------------------------------------------------------------
(* The clients of /jobs/{id}/stream. *)

(* subscribe: the copy of the log, then (a GPU thread may emit in between)  *)
(* END or the enrolment.                                                    *)
Subscribe(c, j) ==
  /\ LoopFree /\ phase[c] = "away" /\ j <= born
  /\ phase' = [phase EXCEPT ![c] = "copied"]
  /\ watching' = [watching EXCEPT ![c] = j]
  /\ queue' = [queue EXCEPT ![c] = [i \in 1..log[j] |-> i]]
  /\ UNCHANGED <<subs, lifecycle, loop, jobs, status, done, gpu>>

(* Mutant of Enrol: enrols without looking whether the job has settled. *)
EnrolBlindly(c) ==
  /\ phase[c] = "copied"
  /\ phase' = [phase EXCEPT ![c] = "joined"]
  /\ subs' = [subs EXCEPT ![watching[c]] = @ \cup {c}]
  /\ UNCHANGED <<queue, watching, lifecycle, loop, jobs, status, done, gpu>>

(* Mutant of Enrol: copies the log once more before it enrols. *)
EnrolAgain(c) ==
  /\ phase[c] = "copied"
  /\ phase' = [phase EXCEPT ![c] = "joined"]
  /\ subs' = [subs EXCEPT ![watching[c]] = @ \cup {c}]
  /\ queue' = [queue EXCEPT ![c] = @ \o [i \in 1..log[watching[c]] |-> i]]
  /\ UNCHANGED <<watching, lifecycle, loop, jobs, status, done, gpu>>

Enrol(c) ==
  /\ phase[c] = "copied"
  /\ phase' = [phase EXCEPT ![c] = "joined"]
  /\ IF done[watching[c]]
       THEN queue' = [queue EXCEPT ![c] = Append(@, END)] /\ subs' = subs
       ELSE /\ subs' = [subs EXCEPT ![watching[c]] = @ \cup {c}]
            /\ queue' = queue
  /\ UNCHANGED <<watching, lifecycle, loop, jobs, status, done, gpu>>

(* The client disconnects: the generator's finally clause. *)
Unsubscribe(c) ==
  /\ LoopFree /\ phase[c] = "joined"
  /\ phase' = [phase EXCEPT ![c] = "left"]
  /\ subs' = [subs EXCEPT ![watching[c]] = @ \ {c}]
  /\ UNCHANGED <<queue, watching, lifecycle, loop, jobs, status, done, gpu>>

-----------------------------------------------------------------------------
Worker == WorkerWakes \/ WorkerReturns \/ WorkerCancelled
Stop == StopIdle \/ StopDrains \/ StopDrained \/ StopExpires \/ StopTimeout
Thread(j) == EmitLog(j) \/ EmitFan(j) \/ ThreadEnds(j)
Client(c) == (\E j \in JobIds : Subscribe(c, j)) \/ Enrol(c) \/ Unsubscribe(c)

Next ==
  \/ SubmitOnLoop \/ SubmitOffLoop
  \/ \E j \in JobIds : SignalOffLoop(j)
  \/ SetWake \/ Worker \/ Start \/ Stop
  \/ \E j \in JobIds : Thread(j)
  \/ \E c \in Clients : Client(c)

Spec == Init /\ [][Next]_vars

(* The event loop runs what is ready, a thread that has begun an emit or a  *)
(* submit goes on, a GPU job ends, and the drain timer fires.  Nobody has   *)
(* to submit, to connect, to start or to stop.                              *)
FairSpec ==
  /\ Spec
  /\ WF_vars(SetWake) /\ WF_vars(Worker) /\ WF_vars(StopDrained \/ StopExpires \/ StopTimeout)
  /\ \A j \in JobIds : /\ WF_vars(SignalOffLoop(j))
                       /\ WF_vars(EmitFan(j)) /\ WF_vars(ThreadEnds(j))
  /\ \A c \in Clients : WF_vars(Enrol(c))

-----------------------------------------------------------------------------
(* Properties. *)

Workers ==
  [at : {"none", "new", "wait"}, job : {NoJob}] \cup [at : {"run"}, job : JobIds]

(* Types; and _current is the job the worker runs, although a cancelled     *)
(* worker resets it behind the new one's back.                              *)
TypeOK ==
  /\ starts \in 0..MaxStarts /\ life \in {"down", "up", "draining", "expired"}
  /\ target \in 0..J
  /\ wake \in BOOLEAN /\ signaled \in BOOLEAN
  /\ worker \in Workers /\ zombies \in Seq(Workers)
  /\ pending \in Seq(JobIds) /\ born \in 0..J /\ unsignaled \subseteq JobIds
  /\ status \in [JobIds -> {"queued", "running", "done", "failed"}]
  /\ done \in [JobIds -> BOOLEAN]
  /\ thread \in [JobIds -> 0..MaxStarts]
  /\ returned \in [JobIds -> BOOLEAN]
  /\ log \in [JobIds -> 0..MaxEvents] /\ fanning \in [JobIds -> BOOLEAN]
  /\ subs \in [JobIds -> SUBSET Clients]
  /\ phase \in [Clients -> {"away", "copied", "joined", "left"}]
  /\ watching \in [Clients -> 0..J]
  /\ queue \in [Clients -> Seq(0..MaxEvents)]
  /\ current = worker.job

Ends(q) == {i \in DOMAIN q : q[i] = END}

(* "A job that already settled yields its history plus END, so a late or    *)
(* reconnecting client terminates instead of hanging": a client of a        *)
(* settled job has END exactly once, a client of any other job has none.    *)
ClientsTerminate ==
  \A c \in Clients :
    phase[c] = "joined" =>
      Cardinality(Ends(queue[c])) = IF done[watching[c]] THEN 1 ELSE 0

(* Events of a stream never go backwards, and none is invented. *)
StreamInOrder ==
  \A c \in Clients : \A i, k \in DOMAIN queue[c] \ Ends(queue[c]) :
    i < k => queue[c][i] <= queue[c][k] /\ queue[c][k] <= log[watching[c]]

(* Within one lifecycle two GPU jobs never run at once. *)
SerialPerLifecycle ==
  \A j, k \in JobIds : j # k /\ thread[j] # 0 => thread[j] # thread[k]

(* A verdict is overturned once at most, and by stop alone: a failed job    *)
(* stays failed, a job that is done can only be failed by the stop that     *)
(* waited for it and whose timer had fired, and no job starts twice.        *)
VerdictStands ==
  [][\A j \in JobIds :
       /\ status[j] = "failed" => status'[j] = "failed"
       /\ status[j] = "done" =>
            \/ status'[j] = "done"
            \/ status'[j] = "failed" /\ life = "expired" /\ target = j
       /\ thread[j] = 0 /\ thread'[j] # 0 => status[j] = "queued"]_vars

(* A submitted job is served while the queue is up, whatever thread it came *)
(* from: no wake-up is lost.                                                *)
Served == \A j \in JobIds : (j <= born) ~> (done[j] \/ life # "up")

(* A running job is settled, by the worker, by stop or by the finally       *)
(* clause of a cancelled worker: whoever waits for it or streams it ends.   *)
RunningSettles == \A j \in JobIds : (status[j] = "running") ~> done[j]

(* What the code's comments say and the code does not do.                   *)

(* "otherwise the job silently stays 'running' forever": a settled job has  *)
(* a verdict.                                                               *)
NoneLeftRunning == \A j \in JobIds : done[j] => status[j] # "running"

(* "One worker drains a FIFO so two GPU jobs never run at once". *)
OneGpuJob == Cardinality({j \in JobIds : thread[j] # 0}) <= 1

(* "A queue replaying everything emitted so far, then tailing live events": *)
(* before END a stream is the log without gap or repetition.                *)
StreamExact ==
  \A c \in Clients : \A i \in DOMAIN queue[c] :
    (\A k \in 1..i : queue[c][k] # END) => queue[c][i] = i
=============================================================================
