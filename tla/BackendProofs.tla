--------------------------- MODULE BackendProofs ---------------------------
(***************************************************************************)
(* The UI backend: the job queue, for every number of jobs, of starts, of  *)
(* events and every set of clients, and the memos, for every number of     *)
(* threads, models and entries.                                            *)
(***************************************************************************)
EXTENDS JobQueue, FetchMemo, SequenceTheorems, FiniteSetTheorems, TLAPS

(* The job queue. *)
\* A job whose turn has not come.
Fresh(j) == status[j] = "queued" /\ thread[j] = 0 /\ ~returned[j] /\ ~done[j]

\* The worker exists until stop cancels it, and a cancelled one is gone before
\* the next one takes a job; the job stop waits for has started, and it is the
\* worker's or settled.
LifeInv ==
  /\ worker.at = "none" <=> life = "down"
  /\ life # "down" => starts # 0
  /\ zombies # <<>> => worker.at \in {"none", "new"}
  /\ \A i \in 1 .. Len(zombies) : zombies[i].at = "run" => status[zombies[i].job] # "queued"
  /\ life \in {"draining", "expired"} =>
       /\ target \in JobIds /\ status[target] # "queued"
       /\ done[target] \/ worker.job = target

\* The pending list is what is left of the jobs submitted, in their order.
PendingInv ==
  /\ Len(pending) <= born
  /\ \A i \in 1 .. Len(pending) : pending[i] = (born - Len(pending)) + i
  /\ \A j \in JobIds : j > born - Len(pending) => Fresh(j)

\* The thread of this lifecycle runs the worker's job, until the worker is
\* cancelled; the threads of earlier lifecycles may still run.
ThreadInv ==
  /\ worker.at = "run" => status[worker.job] = "running" /\ ~done[worker.job]
  /\ \A j \in JobIds :
       /\ thread[j] <= starts
       /\ thread[j] # 0 /\ thread[j] = starts => worker.at = "none" \/ worker.job = j
       /\ returned[j] => thread[j] = 0
       /\ fanning[j] => log[j] # 0

\* What is on a client's queue: events of the job's log in their order.
Ordered(q, n) ==
  /\ \A i \in 1 .. Len(q) : q[i] <= n
  /\ \A i, k \in 1 .. Len(q) : i < k /\ q[i] # END /\ q[k] # END => q[i] <= q[k]

\* A client's queue is a part of the log of the job it streams; it ends when
\* the client has joined and the job has settled, and the client of a job that
\* has not is subscribed.
Streaming(c) ==
  /\ phase[c] = "away" => queue[c] = <<>>
  /\ phase[c] # "away" => watching[c] \in JobIds /\ Ordered(queue[c], log[watching[c]])
  /\ phase[c] = "copied" => Ends(queue[c]) = {}
  /\ phase[c] = "joined" =>
       IF done[watching[c]]
         THEN \E i : Ends(queue[c]) = {i}
         ELSE Ends(queue[c]) = {} /\ c \in subs[watching[c]]

\* Only clients that have joined a job that has not settled are subscribed.
StreamInv ==
  /\ \A j \in JobIds : \A c \in subs[j] : phase[c] = "joined" /\ watching[c] = j /\ ~done[j]
  /\ \A c \in Clients : Streaming(c)

IInv == TypeOK /\ LifeInv /\ PendingInv /\ ThreadInv /\ SerialPerLifecycle /\ StreamInv
-----------------------------------------------------------------------------
(***************************************************************************)
(* The pending list.                                                       *)
(***************************************************************************)
\* submit (jobs.py): the new job is the last of the list, and its number is
\* its place among all the jobs submitted.
LEMMA AppendPending ==
  ASSUME TypeOK, PendingInv, born < J,
         pending' = Append(pending, born + 1), born' = born + 1,
         UNCHANGED <<status, thread, returned, done>>
  PROVE  /\ pending' \in Seq(JobIds) /\ born' \in 0 .. J /\ born + 1 \in JobIds
         /\ PendingInv'
<1> USE QueueAssumption
<1>1. born \in Nat /\ born + 1 \in JobIds /\ pending \in Seq(JobIds) /\ Len(pending) \in Nat
  BY LenProperties DEF TypeOK, JobIds
<1>2. /\ pending' \in Seq(JobIds) /\ Len(pending') = Len(pending) + 1
      /\ \A i \in 1 .. Len(pending) : pending'[i] = pending[i]
      /\ pending'[Len(pending) + 1] = born + 1
  BY <1>1, AppendProperties
<1>3. born' - Len(pending') = born - Len(pending)
  BY <1>1, <1>2
<1>4. \A i \in 1 .. Len(pending') : pending'[i] = (born' - Len(pending')) + i
  <2> SUFFICES ASSUME NEW i \in 1 .. Len(pending') PROVE pending'[i] = (born' - Len(pending')) + i
    OBVIOUS
  <2>1. CASE i \in 1 .. Len(pending)
    BY <1>2, <1>3, <2>1 DEF PendingInv
  <2>2. CASE i = Len(pending) + 1
    BY <1>1, <1>2, <1>3, <2>2
  <2>3. QED
    BY <1>1, <1>2, <2>1, <2>2
<1>5. \A j \in JobIds : Fresh(j) => Fresh(j)'
  BY DEF Fresh
<1>6. PendingInv'
  BY <1>1, <1>2, <1>3, <1>4, <1>5 DEF PendingInv
<1>7. QED
  BY <1>1, <1>2, <1>6 DEF TypeOK

\* The head of the list is a job nobody has started, and the rest follows it.
LEMMA HeadPending ==
  ASSUME TypeOK, PendingInv, pending # <<>>
  PROVE  /\ Head(pending) \in JobIds /\ Fresh(Head(pending))
         /\ Tail(pending) \in Seq(JobIds) /\ Len(Tail(pending)) = Len(pending) - 1
         /\ Len(pending) \in Nat /\ Head(pending) = (born - Len(pending)) + 1
         /\ \A i \in 1 .. Len(Tail(pending)) : Tail(pending)[i] = Head(pending) + i
<1>1. /\ Head(pending) \in JobIds /\ Tail(pending) \in Seq(JobIds)
      /\ Len(pending) \in Nat \ {0} /\ Len(Tail(pending)) = Len(pending) - 1
      /\ Head(pending) = pending[1]
      /\ \A i \in 1 .. Len(Tail(pending)) : Tail(pending)[i] = pending[i + 1]
  BY HeadTailProperties, EmptySeq DEF TypeOK
<1>2. born \in Int
  BY QueueAssumption DEF TypeOK
<1>3. Head(pending) = (born - Len(pending)) + 1
  BY <1>1 DEF PendingInv
<1>4. Fresh(Head(pending))
  BY <1>1, <1>2, <1>3 DEF PendingInv, JobIds
<1>5. \A i \in 1 .. Len(Tail(pending)) : Tail(pending)[i] = Head(pending) + i
  BY <1>1, <1>2, <1>3 DEF PendingInv
<1>6. QED
  BY <1>1, <1>3, <1>4, <1>5

\* The parts of TypeOK that a thread of the pool or of a job can change.
ClientTypes ==
  /\ subs \in [JobIds -> SUBSET Clients]
  /\ phase \in [Clients -> {"away", "copied", "joined", "left"}]
  /\ watching \in [Clients -> 0 .. J]
  /\ queue \in [Clients -> Seq(0 .. MaxEvents)]

\* The next turn of _run: a job that is started is a fresh one, and no thread
\* of this lifecycle is running when it is.
LEMMA Dispatch ==
  ASSUME TypeOK, LifeInv, PendingInv, ThreadInv, SerialPerLifecycle,
         zombies = <<>>, worker.at # "none",
         \A k \in JobIds : thread[k] # 0 => thread[k] # starts,
         NEW st \in [JobIds -> {"queued", "running", "done", "failed"}],
         \A j \in JobIds : Fresh(j) => st[j] = "queued" /\ ~done'[j],
         done' \in [JobIds -> BOOLEAN],
         life \in {"draining", "expired"} => done'[target] /\ st[target] # "queued",
         NextJob(st),
         UNCHANGED <<starts, life, target, signaled, zombies, born, unsignaled, returned, log, fanning>>,
         ClientTypes'
  PROVE  TypeOK' /\ LifeInv' /\ PendingInv' /\ ThreadInv' /\ SerialPerLifecycle'
<1> USE QueueAssumption
<1>0. /\ starts \in Nat \ {0} /\ starts <= MaxStarts /\ life # "down"
      /\ born \in Nat /\ born <= J /\ Len(pending) \in Nat
  BY LenProperties DEF TypeOK, LifeInv
<1>1. CASE pending # <<>>
  <2> DEFINE j == Head(pending)
  <2>1. /\ pending' = Tail(pending) /\ worker' = [at |-> "run", job |-> j]
        /\ current' = j /\ wake' = wake
        /\ status' = [st EXCEPT ![j] = "running"] /\ thread' = [thread EXCEPT ![j] = starts]
    BY <1>1 DEF NextJob
  <2>2. /\ j \in JobIds /\ Fresh(j)
        /\ Tail(pending) \in Seq(JobIds) /\ Len(Tail(pending)) = Len(pending) - 1
        /\ j = (born - Len(pending)) + 1
        /\ \A i \in 1 .. Len(Tail(pending)) : Tail(pending)[i] = j + i
    BY <1>1, HeadPending
  <2> HIDE DEF j
  <2>3. /\ status' \in [JobIds -> {"queued", "running", "done", "failed"}]
        /\ \A k \in JobIds : status'[k] = IF k = j THEN "running" ELSE st[k]
        /\ thread' \in [JobIds -> 0 .. MaxStarts]
        /\ \A k \in JobIds : thread'[k] = IF k = j THEN starts ELSE thread[k]
    BY <1>0, <2>1, <2>2 DEF TypeOK
  <2>4. TypeOK'
    <3>1. worker' \in Workers /\ current' = worker'.job
      BY <2>1, <2>2 DEF Workers
    <3>2. wake' \in BOOLEAN
      BY <2>1, Zenon DEF TypeOK
    <3>3. /\ starts' \in 0 .. MaxStarts /\ life' \in {"down", "up", "draining", "expired"} /\ target' \in 0 .. J
          /\ zombies' \in Seq(Workers) /\ born' \in 0 .. J /\ unsignaled' \subseteq JobIds
          /\ returned' \in [JobIds -> BOOLEAN]
          /\ log' \in [JobIds -> 0 .. MaxEvents] /\ fanning' \in [JobIds -> BOOLEAN]
      BY DEF TypeOK
    <3>4. signaled' \in BOOLEAN
      BY Zenon DEF TypeOK
    <3>5. pending' \in Seq(JobIds)
      BY <2>1, <2>2
    <3>6. QED
      BY <2>3, <3>1, <3>2, <3>3, <3>4, <3>5 DEF TypeOK, ClientTypes
  <2>5. LifeInv'
    <3>1. worker'.at = "run" /\ life' # "down" /\ starts' # 0
      BY <1>0, <2>1
    <3>2. zombies' = <<>> /\ Len(zombies') = 0
      BY EmptySeq
    <3>3. life' \in {"draining", "expired"} =>
            target' \in JobIds /\ done'[target'] /\ status'[target'] # "queued"
      BY <2>3 DEF LifeInv
    <3>4. QED
      BY <3>1, <3>2, <3>3 DEF LifeInv
  <2>6. PendingInv'
    <3>1. born' = born /\ Len(pending') = Len(pending) - 1
      BY <2>1, <2>2
    <3>2. Len(pending') <= born' /\ \A i \in 1 .. Len(pending') : pending'[i] = (born' - Len(pending')) + i
      BY <1>0, <2>1, <2>2, <3>1 DEF PendingInv
    <3>3. ASSUME NEW k \in JobIds, k > born' - Len(pending') PROVE Fresh(k)'
      <4>1. k > born - Len(pending) /\ k # j
        BY <1>0, <2>2, <3>1, <3>3 DEF JobIds
      <4>2. Fresh(k)
        BY <4>1 DEF PendingInv
      <4>3. QED
        BY <2>3, <4>1, <4>2 DEF Fresh
    <3>4. QED
      BY <3>2, <3>3 DEF PendingInv
  <2>7. ThreadInv'
    <3>1. worker'.at = "run" /\ worker'.job = j /\ status'[j] = "running" /\ ~done'[j]
      BY <2>1, <2>2, <2>3
    <3>2. ASSUME NEW k \in JobIds
          PROVE  /\ thread'[k] <= starts'
                 /\ thread'[k] # 0 /\ thread'[k] = starts' => worker'.job = k
                 /\ returned'[k] => thread'[k] = 0
                 /\ fanning'[k] => log'[k] # 0
      <4>1. /\ thread[k] <= starts
            /\ thread[k] # 0 => thread[k] # starts
            /\ returned[k] => thread[k] = 0
            /\ fanning[k] => log[k] # 0
            /\ ~returned[j]
        BY <2>2 DEF ThreadInv, Fresh
      <4>2. thread'[k] = IF k = j THEN starts ELSE thread[k]
        BY <2>3
      <4>3. QED
        BY <1>0, <3>1, <4>1, <4>2
    <3>3. QED
      BY <3>1, <3>2 DEF ThreadInv
  <2>8. SerialPerLifecycle'
    BY <1>0, <2>2, <2>3 DEF SerialPerLifecycle
  <2>9. QED
    BY <2>4, <2>5, <2>6, <2>7, <2>8
<1>2. CASE pending = <<>>
  <2>1. /\ worker' = [at |-> "wait", job |-> NoJob] /\ wake' = FALSE /\ current' = NoJob
        /\ status' = st /\ UNCHANGED <<pending, thread>>
    BY <1>2 DEF NextJob
  <2>2. TypeOK'
    <3>1. worker' \in Workers /\ current' = worker'.job
      BY <2>1 DEF Workers
    <3>2. wake' \in BOOLEAN
      BY <2>1
    <3>3. signaled' \in BOOLEAN
      BY Zenon DEF TypeOK
    <3>4. QED
      BY <2>1, <3>1, <3>2, <3>3 DEF TypeOK, ClientTypes
  <2>3. LifeInv'
    <3>1. worker'.at = "wait" /\ life' # "down" /\ starts' # 0
      BY <1>0, <2>1
    <3>2. zombies' = <<>> /\ Len(zombies') = 0
      BY EmptySeq
    <3>3. life' \in {"draining", "expired"} =>
            target' \in JobIds /\ done'[target'] /\ status'[target'] # "queued"
      BY <2>1 DEF LifeInv
    <3>4. QED
      BY <3>1, <3>2, <3>3 DEF LifeInv
  <2>4. PendingInv'
    BY <2>1 DEF PendingInv, Fresh
  <2>5. ThreadInv' /\ SerialPerLifecycle'
    BY <2>1 DEF ThreadInv, SerialPerLifecycle
  <2>6. QED
    BY <2>2, <2>3, <2>4, <2>5
<1>3. QED
  BY <1>1, <1>2
-----------------------------------------------------------------------------
(***************************************************************************)
(* The queue of a client.                                                  *)
(***************************************************************************)
\* put_nowait: one more element, which is an END or is not.
LEMMA AppendEnds ==
  ASSUME NEW S, NEW q \in Seq(S), NEW e \in S
  PROVE  Ends(Append(q, e)) = IF e = END THEN Ends(q) \cup {Len(q) + 1} ELSE Ends(q)
<1>1. /\ Len(q) \in Nat /\ DOMAIN q = 1 .. Len(q) /\ Append(q, e) \in Seq(S)
      /\ Len(Append(q, e)) = Len(q) + 1 /\ DOMAIN Append(q, e) = 1 .. Len(Append(q, e))
      /\ \A i \in 1 .. Len(q) : Append(q, e)[i] = q[i]
      /\ Append(q, e)[Len(q) + 1] = e
  BY LenProperties, AppendProperties
<1>2. QED
  BY <1>1 DEF Ends

\* The latest event of the log, or END, keeps a client's queue in order.
LEMMA AppendOrdered ==
  ASSUME NEW n \in Nat, NEW m \in Nat, NEW q \in Seq(0 .. m), Ordered(q, n), NEW e \in {END, n},
         n <= m
  PROVE  Append(q, e) \in Seq(0 .. m) /\ Ordered(Append(q, e), n)
<1>0. e \in 0 .. m /\ e <= n
  BY DEF END
<1>1. /\ Len(q) \in Nat /\ Append(q, e) \in Seq(0 .. m)
      /\ Len(Append(q, e)) = Len(q) + 1
      /\ \A i \in 1 .. Len(q) : Append(q, e)[i] = q[i]
      /\ Append(q, e)[Len(q) + 1] = e
  BY <1>0, LenProperties, AppendProperties
<1>2. \A i \in 1 .. Len(Append(q, e)) : Append(q, e)[i] <= n
  BY <1>0, <1>1 DEF Ordered
<1>3. ASSUME NEW i \in 1 .. Len(q) + 1, NEW k \in 1 .. Len(q) + 1, i < k,
             Append(q, e)[i] # END, Append(q, e)[k] # END
      PROVE  Append(q, e)[i] <= Append(q, e)[k]
  <2>1. i \in 1 .. Len(q) /\ Append(q, e)[i] = q[i] /\ q[i] <= n
    BY <1>1, <1>3 DEF Ordered
  <2>2. CASE k = Len(q) + 1
    BY <1>0, <1>1, <1>3, <2>1, <2>2
  <2>3. CASE k \in 1 .. Len(q)
    BY <1>1, <1>3, <2>1, <2>3 DEF Ordered
  <2>4. QED
    BY <1>1, <2>2, <2>3
<1>4. QED
  BY <1>1, <1>2, <1>3 DEF Ordered

\* settle: every subscriber of the job gets its END, and nobody is subscribed
\* to it from then on.
LEMMA SettleStreams ==
  ASSUME TypeOK, StreamInv, NEW j \in JobIds, Settle(j), UNCHANGED <<phase, watching, log>>
  PROVE  /\ ClientTypes' /\ StreamInv'
         /\ done' \in [JobIds -> BOOLEAN]
         /\ \A k \in JobIds : done'[k] <=> (k = j \/ done[k])
<1> USE QueueAssumption
<1>1. /\ done' = [done EXCEPT ![j] = TRUE] /\ subs' = [subs EXCEPT ![j] = {}]
      /\ queue' = Settled(j)
  BY DEF Settle
<1>2. /\ done' \in [JobIds -> BOOLEAN]
      /\ \A k \in JobIds : done'[k] = IF k = j THEN TRUE ELSE done[k]
  BY <1>1 DEF TypeOK
<1>3. /\ subs' \in [JobIds -> SUBSET Clients]
      /\ \A k \in JobIds : subs'[k] = IF k = j THEN {} ELSE subs[k]
  BY <1>1 DEF TypeOK
<1>4. /\ queue \in [Clients -> Seq(0 .. MaxEvents)] /\ END \in 0 .. MaxEvents
      /\ log \in [JobIds -> 0 .. MaxEvents]
  BY DEF TypeOK, END
<1>5. \A c \in Clients :
        queue'[c] = IF c \in subs[j] THEN Append(queue[c], END) ELSE queue[c]
  BY <1>1 DEF Settled
<1>6. queue' \in [Clients -> Seq(0 .. MaxEvents)]
  <2>1. \A c \in Clients : Append(queue[c], END) \in Seq(0 .. MaxEvents)
    BY <1>4, AppendProperties
  <2>2. QED
    BY <1>1, <1>4, <2>1 DEF Settled
<1>7. ClientTypes'
  BY <1>3, <1>6 DEF ClientTypes, TypeOK
<1>8. StreamInv'
  <2>1. \A k \in JobIds : \A c \in subs'[k] : phase[c] = "joined" /\ watching[c] = k /\ ~done'[k]
    BY <1>2, <1>3 DEF StreamInv, Streaming
  <2>2. ASSUME NEW c \in Clients, c \in subs[j]
        PROVE  /\ phase[c] = "joined" /\ watching[c] = j
               /\ Ordered(queue'[c], log[watching[c]])
               /\ \E i : Ends(queue'[c]) = {i}
    <3>1. phase[c] = "joined" /\ watching[c] = j /\ ~done[j]
      BY <2>2 DEF StreamInv, Streaming
    <3>2. Ends(queue[c]) = {} /\ Ordered(queue[c], log[j])
      BY <3>1 DEF StreamInv, Streaming
    <3>3. Ends(queue'[c]) = {Len(queue[c]) + 1}
      BY <1>4, <1>5, <2>2, <3>2, AppendEnds
    <3>4. Ordered(queue'[c], log[j])
      <4>1. log[j] \in Nat /\ log[j] <= MaxEvents /\ MaxEvents \in Nat /\ queue[c] \in Seq(0 .. MaxEvents)
        BY <1>4
      <4>2. Ordered(Append(queue[c], END), log[j])
        BY <3>2, <4>1, AppendOrdered
      <4>3. QED
        BY <1>5, <2>2, <4>2
    <3>5. QED
      BY <3>1, <3>3, <3>4
  <2>3. ASSUME NEW c \in Clients, c \notin subs[j]
        PROVE  /\ phase[c] = "away" => queue'[c] = <<>>
               /\ phase[c] # "away" => watching[c] \in JobIds /\ Ordered(queue'[c], log[watching[c]])
               /\ phase[c] = "copied" => Ends(queue'[c]) = {}
               /\ phase[c] = "joined" =>
                    IF done'[watching[c]]
                      THEN \E i : Ends(queue'[c]) = {i}
                      ELSE Ends(queue'[c]) = {} /\ c \in subs'[watching[c]]
    <3>1. queue'[c] = queue[c]
      BY <1>5, <2>3
    <3>2. /\ phase[c] = "away" => queue[c] = <<>>
          /\ phase[c] # "away" => watching[c] \in JobIds /\ Ordered(queue[c], log[watching[c]])
          /\ phase[c] = "copied" => Ends(queue[c]) = {}
          /\ phase[c] = "joined" =>
                IF done[watching[c]]
                  THEN \E i : Ends(queue[c]) = {i}
                  ELSE Ends(queue[c]) = {} /\ c \in subs[watching[c]]
      BY DEF StreamInv, Streaming
    <3>3. phase[c] = "joined" => watching[c] \in JobIds /\ (done[watching[c]] \/ watching[c] # j)
      BY <2>3, <3>2
    <3>4. QED
      BY <1>2, <1>3, <3>1, <3>2, <3>3
  <2>4. \A c \in Clients :
          /\ phase[c] = "away" => queue'[c] = <<>>
          /\ phase[c] # "away" => watching[c] \in JobIds /\ Ordered(queue'[c], log[watching[c]])
          /\ phase[c] = "copied" => Ends(queue'[c]) = {}
          /\ phase[c] = "joined" =>
                IF done'[watching[c]]
                  THEN \E i : Ends(queue'[c]) = {i}
                  ELSE Ends(queue'[c]) = {} /\ c \in subs'[watching[c]]
    BY <1>2, <2>2, <2>3
  <2>5. QED
    BY <2>1, <2>4 DEF StreamInv, Streaming
<1>9. QED
  BY <1>2, <1>7, <1>8
-----------------------------------------------------------------------------
(***************************************************************************)
(* Frames: what a group of threads does not touch keeps its invariant.     *)
(***************************************************************************)
\* The streams are only changed by their clients, by emit and by settle.
LEMMA StreamFrame ==
  ASSUME StreamInv, UNCHANGED <<subs, queue, phase, watching, log, done>>
  PROVE  StreamInv'
BY DEF StreamInv, Streaming

\* A client only changes its stream.
LEMMA LoopFrame ==
  ASSUME TypeOK, LifeInv, PendingInv, ThreadInv, SerialPerLifecycle, ClientTypes',
         UNCHANGED <<lifecycle, loop, jobs, status, done, gpu>>
  PROVE  TypeOK' /\ LifeInv' /\ PendingInv' /\ ThreadInv' /\ SerialPerLifecycle'
<1> USE DEF lifecycle, loop, jobs, gpu
<1>1. wake' \in BOOLEAN /\ signaled' \in BOOLEAN
  BY Zenon DEF TypeOK
<1>2. TypeOK'
  BY <1>1 DEF TypeOK, ClientTypes
<1>3. LifeInv' /\ PendingInv'
  BY DEF LifeInv, PendingInv, Fresh
<1>4. ThreadInv' /\ SerialPerLifecycle'
  BY DEF ThreadInv, SerialPerLifecycle
<1>5. QED
  BY <1>2, <1>3, <1>4
-----------------------------------------------------------------------------
(***************************************************************************)
(* The steps of submit and of the wake-up.                                 *)
(***************************************************************************)
\* submit, on the event loop or off it.
LEMMA SubmitInv == ASSUME IInv, SubmitOnLoop \/ SubmitOffLoop PROVE IInv'
<1> USE DEF IInv
<1>1. /\ born < J /\ born' = born + 1 /\ pending' = Append(pending, born + 1)
      /\ UNCHANGED <<lifecycle, signaled, worker, zombies, current, status, done, gpu, streams, clients>>
      /\ unsignaled' \in {unsignaled, unsignaled \cup {born + 1}}
  BY DEF SubmitOnLoop, SubmitOffLoop, loop
<1>2. /\ pending' \in Seq(JobIds) /\ born' \in 0 .. J /\ born + 1 \in JobIds /\ PendingInv'
  BY <1>1, AppendPending DEF gpu
<1>3. wake' \in BOOLEAN
  <2>1. CASE SubmitOnLoop
    <3>1. wake' = (wake \/ life # "down")
      BY <2>1 DEF SubmitOnLoop
    <3>2. QED
      BY <3>1
  <2>2. CASE SubmitOffLoop
    BY <2>2, Zenon DEF SubmitOffLoop, loop, TypeOK
  <2>3. QED
    BY <2>1, <2>2
<1>4. signaled' \in BOOLEAN
  BY <1>1, Zenon DEF TypeOK
<1>5. TypeOK'
  BY <1>1, <1>2, <1>3, <1>4 DEF TypeOK, lifecycle, gpu, streams, clients
<1>6. LifeInv' /\ ThreadInv' /\ SerialPerLifecycle'
  BY <1>1 DEF LifeInv, ThreadInv, SerialPerLifecycle, lifecycle, gpu
<1>7. StreamInv'
  BY <1>1, StreamFrame DEF streams, clients, gpu
<1>8. QED
  BY <1>2, <1>5, <1>6, <1>7

\* _signal from a thread of the pool, and the wake.set it schedules.
LEMMA SignalInv ==
  ASSUME IInv, SetWake \/ \E j \in JobIds : SignalOffLoop(j)
  PROVE  IInv'
<1> USE DEF IInv
<1>1. /\ UNCHANGED <<lifecycle, worker, zombies, current, pending, born, status, done, gpu, streams, clients>>
      /\ unsignaled' \subseteq unsignaled
  BY DEF SetWake, SignalOffLoop, jobs
<1>2. wake' \in BOOLEAN /\ signaled' \in BOOLEAN
  <2>1. CASE SetWake
    BY <2>1 DEF SetWake
  <2>2. CASE \E j \in JobIds : SignalOffLoop(j)
    <3>1. wake' = wake /\ signaled' = (signaled \/ life # "down")
      BY <2>2 DEF SignalOffLoop
    <3>2. wake' \in BOOLEAN
      BY <3>1, Zenon DEF TypeOK
    <3>3. QED
      BY <3>1, <3>2
  <2>3. QED
    BY <2>1, <2>2
<1>3. TypeOK'
  BY <1>1, <1>2 DEF TypeOK, lifecycle, gpu, streams, clients
<1>4. LifeInv' /\ PendingInv'
  BY <1>1 DEF LifeInv, PendingInv, Fresh, lifecycle, gpu
<1>5. ThreadInv' /\ SerialPerLifecycle'
  BY <1>1 DEF ThreadInv, SerialPerLifecycle, lifecycle, gpu
<1>6. StreamInv'
  BY <1>1, StreamFrame DEF streams, clients, gpu
<1>7. QED
  BY <1>3, <1>4, <1>5, <1>6
-----------------------------------------------------------------------------
(***************************************************************************)
(* The steps of the worker.                                                *)
(***************************************************************************)
\* TypeOK says it of the streams, too.
LEMMA ClientTypesHold == TypeOK => ClientTypes
BY DEF TypeOK, ClientTypes

\* _run wakes up: there is no thread of this lifecycle.
LEMMA WakesInv == ASSUME IInv, WorkerWakes PROVE IInv'
<1> USE DEF IInv
<1>1. /\ zombies = <<>> /\ worker.at \in {"new", "wait"} /\ NextJob(status)
      /\ UNCHANGED <<signaled, zombies, born, unsignaled, lifecycle, done, returned, log, fanning, streams, clients>>
  BY DEF WorkerWakes, WorkerReady
<1>2. worker.job \notin JobIds
  BY <1>1, QueueAssumption DEF TypeOK, Workers, NoJob, JobIds
<1>3. \A k \in JobIds : thread[k] # 0 => thread[k] # starts
  BY <1>1, <1>2 DEF ThreadInv
<1>4. status \in [JobIds -> {"queued", "running", "done", "failed"}] /\ done' \in [JobIds -> BOOLEAN]
  BY <1>1 DEF TypeOK
<1>5. \A j \in JobIds : Fresh(j) => status[j] = "queued" /\ ~done'[j]
  BY <1>1 DEF Fresh
<1>6. life \in {"draining", "expired"} => done'[target] /\ status[target] # "queued"
  BY <1>1, <1>2 DEF LifeInv
<1>7. ClientTypes'
  BY <1>1, ClientTypesHold DEF ClientTypes, streams, clients
<1>8. TypeOK' /\ LifeInv' /\ PendingInv' /\ ThreadInv' /\ SerialPerLifecycle'
  BY <1>1, <1>3, <1>4, <1>5, <1>6, <1>7, Dispatch DEF lifecycle
<1>9. StreamInv'
  BY <1>1, StreamFrame DEF streams, clients
<1>10. QED
  BY <1>8, <1>9

\* _run has its job's verdict: it settles the job and goes on; the job's own
\* thread, the only one of this lifecycle, has ended.
LEMMA ReturnsInv == ASSUME IInv, WorkerReturns PROVE IInv'
<1> USE DEF IInv
<1> DEFINE j == worker.job
<1>1. /\ zombies = <<>> /\ worker.at = "run" /\ returned[j] /\ Settle(j)
      /\ UNCHANGED <<signaled, zombies, born, unsignaled, lifecycle, returned, log, fanning, clients>>
  BY DEF WorkerReturns, WorkerReady
<1>2. PICK verdict \in {"done", "failed"} : NextJob([status EXCEPT ![j] = verdict])
  BY DEF WorkerReturns
<1>3. j \in JobIds
  BY <1>1 DEF TypeOK, Workers
<1> HIDE DEF j
<1>4. /\ ClientTypes' /\ StreamInv' /\ done' \in [JobIds -> BOOLEAN]
      /\ \A k \in JobIds : done'[k] <=> (k = j \/ done[k])
  BY <1>1, <1>3, SettleStreams DEF clients
<1>5. /\ [status EXCEPT ![j] = verdict] \in [JobIds -> {"queued", "running", "done", "failed"}]
      /\ \A k \in JobIds : k # j => [status EXCEPT ![j] = verdict][k] = status[k]
  BY <1>2, <1>3 DEF TypeOK
<1>6. status[j] = "running" /\ thread[j] = 0
  BY <1>1, <1>3 DEF ThreadInv, j
<1>7. \A k \in JobIds : thread[k] # 0 => thread[k] # starts
  BY <1>1, <1>6 DEF ThreadInv, j
<1>8. \A k \in JobIds : Fresh(k) => [status EXCEPT ![j] = verdict][k] = "queued" /\ ~done'[k]
  BY <1>4, <1>5, <1>6 DEF Fresh
<1>9. ASSUME life \in {"draining", "expired"}
      PROVE  done'[target] /\ [status EXCEPT ![j] = verdict][target] # "queued"
  <2>1. target \in JobIds /\ status[target] # "queued" /\ done'[target]
    BY <1>4, <1>9 DEF LifeInv, j
  <2>2. [status EXCEPT ![j] = verdict][target] \in {verdict, status[target]}
    BY <1>2, <2>1 DEF TypeOK
  <2>3. QED
    BY <1>2, <2>1, <2>2
<1>10. TypeOK' /\ LifeInv' /\ PendingInv' /\ ThreadInv' /\ SerialPerLifecycle'
  BY <1>1, <1>2, <1>4, <1>5, <1>7, <1>8, <1>9, Dispatch DEF lifecycle
<1>11. QED
  BY <1>4, <1>10

\* A cancelled worker notices: its finally clause settles its job and resets
\* _current, which no newer worker has set yet.
LEMMA CancelledInv == ASSUME IInv, WorkerCancelled PROVE IInv'
<1> USE DEF IInv
<1> DEFINE z == Head(zombies)
<1>1. /\ zombies # <<>> /\ zombies' = Tail(zombies)
      /\ UNCHANGED <<wake, signaled, worker, lifecycle, jobs, status, gpu, clients>>
      /\ \/ z.at = "run" /\ Settle(z.job) /\ current' = NoJob
         \/ z.at # "run" /\ UNCHANGED <<streams, done, current>>
  BY DEF WorkerCancelled
<1>2. /\ z \in Workers /\ zombies' \in Seq(Workers) /\ z = zombies[1]
      /\ Len(zombies) \in Nat \ {0} /\ Len(zombies') = Len(zombies) - 1
      /\ \A i \in 1 .. Len(zombies') : zombies'[i] = zombies[i + 1]
  BY <1>1, HeadTailProperties, EmptySeq DEF TypeOK
<1>3. worker.job = NoJob /\ worker.at # "run"
  BY <1>1 DEF LifeInv, TypeOK, Workers
<1>4. z.at = "run" => z.job \in JobIds /\ status[z.job] # "queued"
  BY <1>2 DEF LifeInv, Workers
<1> HIDE DEF z
<1>5. /\ ClientTypes' /\ StreamInv' /\ done' \in [JobIds -> BOOLEAN] /\ current' = NoJob
      /\ \A k \in JobIds : done[k] => done'[k]
      /\ \A k \in JobIds : status[k] = "queued" /\ ~done[k] => ~done'[k]
  <2>1. CASE z.at = "run" /\ Settle(z.job) /\ current' = NoJob
    <3>1. /\ ClientTypes' /\ StreamInv' /\ done' \in [JobIds -> BOOLEAN]
          /\ \A k \in JobIds : done'[k] <=> (k = z.job \/ done[k])
      BY <1>1, <1>4, <2>1, SettleStreams DEF gpu, clients
    <3>2. QED
      BY <1>4, <2>1, <3>1
  <2>2. CASE UNCHANGED <<streams, done, current>>
    <3>1. StreamInv'
      BY <1>1, <2>2, StreamFrame DEF streams, clients, gpu
    <3>2. ClientTypes'
      BY <1>1, <2>2, ClientTypesHold DEF ClientTypes, streams, clients
    <3>3. QED
      BY <1>3, <2>2, <3>1, <3>2 DEF TypeOK
  <2>3. QED
    BY <1>1, <2>1, <2>2
<1>6. TypeOK'
  <2>1. wake' \in BOOLEAN /\ signaled' \in BOOLEAN
    BY <1>1, Zenon DEF TypeOK
  <2>2. QED
    BY <1>1, <1>2, <1>3, <1>5, <2>1 DEF TypeOK, ClientTypes, lifecycle, jobs, gpu
<1>7. LifeInv'
  <2>1. \A i \in 1 .. Len(zombies') : zombies'[i].at = "run" => status[zombies'[i].job] # "queued"
    BY <1>2 DEF LifeInv
  <2>2. worker.at \in {"none", "new"}
    BY <1>1 DEF LifeInv
  <2>3. QED
    BY <1>1, <1>5, <2>1, <2>2 DEF LifeInv, lifecycle
<1>8. PendingInv'
  BY <1>1, <1>5 DEF PendingInv, Fresh, jobs, gpu
<1>9. ThreadInv' /\ SerialPerLifecycle'
  BY <1>1, <1>3 DEF ThreadInv, SerialPerLifecycle, lifecycle, gpu
<1>10. QED
  BY <1>5, <1>6, <1>7, <1>8, <1>9
-----------------------------------------------------------------------------
(***************************************************************************)
(* The steps of the application's start and stop.                          *)
(***************************************************************************)
\* start: a new lifecycle has no thread yet.
LEMMA StartInv == ASSUME IInv, Start PROVE IInv'
<1> USE QueueAssumption DEF IInv
<1>1. /\ life = "down" /\ starts < MaxStarts /\ starts' = starts + 1 /\ life' = "up"
      /\ wake' = (pending # <<>>) /\ worker' = [at |-> "new", job |-> NoJob]
      /\ UNCHANGED <<target, signaled, zombies, current, jobs, status, done, gpu, streams, clients>>
  BY DEF Start
<1>2. starts \in Nat /\ starts' \in 0 .. MaxStarts /\ starts' # 0 /\ starts' > starts
  BY <1>1 DEF TypeOK
<1>3. worker.job = NoJob
  BY <1>1 DEF LifeInv, TypeOK, Workers
<1>4. worker' \in Workers /\ current' = worker'.job
  BY <1>1, <1>3 DEF Workers, TypeOK
<1>5. TypeOK'
  <2>1. signaled' \in BOOLEAN
    BY <1>1, Zenon DEF TypeOK
  <2>2. wake' \in BOOLEAN
    BY <1>1
  <2>3. QED
    BY <1>1, <1>2, <1>4, <2>1, <2>2 DEF TypeOK, jobs, gpu, streams, clients
<1>6. LifeInv'
  <2>1. worker'.at = "new" /\ life' = "up"
    BY <1>1
  <2>2. QED
    BY <1>1, <1>2, <2>1 DEF LifeInv
<1>7. PendingInv'
  BY <1>1 DEF PendingInv, Fresh, jobs, gpu
<1>8. ThreadInv'
  <2>1. worker'.at = "new"
    BY <1>1
  <2>2. ASSUME NEW k \in JobIds
        PROVE  /\ thread'[k] <= starts' /\ thread'[k] # starts'
               /\ returned'[k] => thread'[k] = 0
               /\ fanning'[k] => log'[k] # 0
    <3>1. thread[k] \in 0 .. MaxStarts /\ thread[k] <= starts
      BY DEF TypeOK, ThreadInv
    <3>2. QED
      BY <1>1, <1>2, <3>1 DEF ThreadInv, gpu
  <2>3. QED
    BY <2>1, <2>2 DEF ThreadInv
<1>9. SerialPerLifecycle'
  BY <1>1 DEF SerialPerLifecycle, gpu
<1>10. StreamInv'
  BY <1>1, StreamFrame DEF streams, clients, gpu
<1>11. QED
  BY <1>5, <1>6, <1>7, <1>8, <1>9, <1>10

\* stop begins to wait for the job in flight, which is the worker's.
LEMMA DrainsInv == ASSUME IInv, StopDrains PROVE IInv'
<1> USE DEF IInv
<1>1. /\ life = "up" /\ life' = "draining" /\ target' = current /\ current # NoJob
      /\ UNCHANGED <<starts, loop, jobs, status, done, gpu, streams, clients>>
  BY DEF StopDrains, InFlight
<1>2. current = worker.job /\ worker.job \in JobIds /\ current \in 0 .. J
  <2>1. worker.job \in JobIds \cup {NoJob}
    BY DEF TypeOK, Workers
  <2>2. QED
    BY <1>1, <2>1, QueueAssumption DEF TypeOK, JobIds
<1>3. TypeOK'
  <2>1. signaled' \in BOOLEAN /\ wake' \in BOOLEAN
    BY <1>1, Zenon DEF TypeOK, loop
  <2>2. QED
    BY <1>1, <1>2, <2>1 DEF TypeOK, loop, jobs, gpu, streams, clients
<1>4. LifeInv' /\ PendingInv'
  <2>1. status[worker.job] = "running"
    BY <1>2, QueueAssumption DEF ThreadInv, TypeOK, Workers, NoJob, JobIds
  <2>2. QED
    BY <1>1, <1>2, <2>1 DEF LifeInv, PendingInv, Fresh, loop, jobs, gpu
<1>5. ThreadInv' /\ SerialPerLifecycle'
  BY <1>1 DEF ThreadInv, SerialPerLifecycle, loop, gpu
<1>6. StreamInv'
  BY <1>1, StreamFrame DEF streams, clients, gpu
<1>7. QED
  BY <1>3, <1>4, <1>5, <1>6

\* The drain timer fires: stop has yet to resume.
LEMMA ExpiresInv == ASSUME IInv, StopExpires PROVE IInv'
<1> USE DEF IInv
<1>1. /\ life = "draining" /\ life' = "expired"
      /\ UNCHANGED <<starts, target, loop, jobs, status, done, gpu, streams, clients>>
  BY DEF StopExpires
<1>2. TypeOK'
  <2>1. signaled' \in BOOLEAN /\ wake' \in BOOLEAN
    BY <1>1, Zenon DEF TypeOK, loop
  <2>2. QED
    BY <1>1, <2>1 DEF TypeOK, loop, jobs, gpu, streams, clients
<1>3. LifeInv' /\ PendingInv'
  BY <1>1 DEF LifeInv, PendingInv, Fresh, loop, jobs, gpu
<1>4. ThreadInv' /\ SerialPerLifecycle'
  BY <1>1 DEF ThreadInv, SerialPerLifecycle, loop, gpu
<1>5. StreamInv'
  BY <1>1, StreamFrame DEF streams, clients, gpu
<1>6. QED
  BY <1>2, <1>3, <1>4, <1>5

\* The end of stop: the worker joins the cancelled ones.  Stop may have failed
\* the job it waited for before that; no job that is queued gets a verdict.
LEMMA CancelInv ==
  ASSUME IInv, life # "down", Cancel, UNCHANGED <<starts, jobs, gpu, clients>>,
         ClientTypes', StreamInv',
         status' \in [JobIds -> {"queued", "running", "done", "failed"}],
         done' \in [JobIds -> BOOLEAN],
         \A k \in JobIds : status[k] = "queued" <=> status'[k] = "queued",
         \A k \in JobIds : Fresh(k) => ~done'[k]
  PROVE  IInv'
<1> USE QueueAssumption DEF IInv
<1>1. /\ zombies' = Append(zombies, worker) /\ worker' = [at |-> "none", job |-> NoJob]
      /\ current' = NoJob /\ wake' = FALSE /\ signaled' = FALSE /\ life' = "down" /\ target' = NoJob
  BY DEF Cancel, NoWorker
<1>2. /\ zombies' \in Seq(Workers) /\ Len(zombies) \in Nat /\ Len(zombies') = Len(zombies) + 1
      /\ \A i \in 1 .. Len(zombies) : zombies'[i] = zombies[i]
      /\ zombies'[Len(zombies) + 1] = worker
  BY <1>1, AppendProperties, LenProperties DEF TypeOK
<1>3. worker' \in Workers /\ worker'.at = "none" /\ worker'.job = NoJob
  BY <1>1 DEF Workers
<1>4. TypeOK'
  <2>1. NoJob \in 0 .. J
    BY DEF NoJob
  <2>2. wake' \in BOOLEAN /\ signaled' \in BOOLEAN
    BY <1>1
  <2>3. QED
    BY <1>1, <1>2, <1>3, <2>1, <2>2 DEF TypeOK, ClientTypes, jobs, gpu
<1>5. LifeInv'
  <2>1. ASSUME NEW i \in 1 .. Len(zombies'), zombies'[i].at = "run"
        PROVE  status'[zombies'[i].job] # "queued"
    <3>1. CASE i \in 1 .. Len(zombies)
      <4>1. zombies[i] \in Workers /\ zombies[i].at = "run"
        BY <1>2, <2>1, <3>1, ElementOfSeq DEF TypeOK
      <4>2. zombies[i].job \in JobIds /\ status[zombies[i].job] # "queued"
        BY <3>1, <4>1 DEF LifeInv, Workers
      <4>3. QED
        BY <1>2, <3>1, <4>2
    <3>2. CASE i = Len(zombies) + 1
      <4>1. worker.at = "run" /\ worker.job \in JobIds
        BY <1>2, <2>1, <3>2 DEF TypeOK, Workers
      <4>2. status[worker.job] # "queued"
        BY <4>1 DEF ThreadInv
      <4>3. QED
        BY <1>2, <3>2, <4>1, <4>2
    <3>3. QED
      BY <1>2, <3>1, <3>2
  <2>2. QED
    BY <1>1, <1>3, <2>1 DEF LifeInv
<1>6. PendingInv'
  BY DEF PendingInv, Fresh, jobs, gpu
<1>7. ThreadInv' /\ SerialPerLifecycle'
  BY <1>3 DEF ThreadInv, SerialPerLifecycle, gpu
<1>8. QED
  BY <1>4, <1>5, <1>6, <1>7

\* stop, when nothing is in flight or the job in flight has settled.
LEMMA StopInv == ASSUME IInv, StopIdle \/ StopDrained PROVE IInv'
<1>1. /\ life # "down" /\ Cancel
      /\ UNCHANGED <<starts, jobs, status, done, gpu, streams, clients>>
  BY DEF StopIdle, StopDrained
<1>2. ClientTypes'
  BY <1>1, ClientTypesHold DEF ClientTypes, streams, clients, IInv
<1>3. StreamInv'
  BY <1>1, StreamFrame DEF streams, clients, gpu, IInv
<1>4. /\ status' \in [JobIds -> {"queued", "running", "done", "failed"}]
      /\ done' \in [JobIds -> BOOLEAN]
      /\ \A k \in JobIds : status[k] = "queued" <=> status'[k] = "queued"
      /\ \A k \in JobIds : Fresh(k) => ~done'[k]
  BY <1>1 DEF IInv, TypeOK, Fresh
<1>5. QED
  BY <1>1, <1>2, <1>3, <1>4, CancelInv

\* stop resumes after the timer fired: it fails the job it waited for, settled
\* by now or not, and cancels the worker, whichever job that runs.
LEMMA TimeoutInv == ASSUME IInv, StopTimeout PROVE IInv'
<1>1. /\ life = "expired" /\ status' = [status EXCEPT ![target] = "failed"]
      /\ Settle(target) /\ Cancel /\ UNCHANGED <<starts, jobs, gpu, clients>>
  BY DEF StopTimeout
<1>2. target \in JobIds /\ status[target] # "queued"
  BY <1>1 DEF IInv, LifeInv
<1>3. /\ ClientTypes' /\ StreamInv' /\ done' \in [JobIds -> BOOLEAN]
      /\ \A k \in JobIds : done'[k] <=> (k = target \/ done[k])
  BY <1>1, <1>2, SettleStreams DEF IInv, gpu, clients
<1>4. /\ status' \in [JobIds -> {"queued", "running", "done", "failed"}]
      /\ \A k \in JobIds : status'[k] = IF k = target THEN "failed" ELSE status[k]
  BY <1>1, <1>2 DEF IInv, TypeOK
<1>5. \A k \in JobIds : status[k] = "queued" <=> status'[k] = "queued"
  BY <1>2, <1>4
<1>6. \A k \in JobIds : Fresh(k) => ~done'[k]
  BY <1>2, <1>3 DEF Fresh
<1>7. QED
  BY <1>1, <1>3, <1>4, <1>5, <1>6, CancelInv
-----------------------------------------------------------------------------
(***************************************************************************)
(* The steps of a job's thread.                                            *)
(***************************************************************************)
\* emit, first half: the log grows, and with it the bound on what a stream of
\* the job may hold.
LEMMA EmitLogInv == ASSUME IInv, NEW j \in JobIds, EmitLog(j) PROVE IInv'
<1> USE QueueAssumption DEF IInv
<1>1. /\ thread[j] # 0 /\ log[j] < MaxEvents
      /\ log' = [log EXCEPT ![j] = @ + 1] /\ fanning' = [fanning EXCEPT ![j] = TRUE]
      /\ UNCHANGED <<thread, returned, lifecycle, loop, jobs, status, done, streams, clients>>
  BY DEF EmitLog
<1>2. /\ log' \in [JobIds -> 0 .. MaxEvents] /\ fanning' \in [JobIds -> BOOLEAN]
      /\ \A k \in JobIds : log[k] \in Nat /\ log'[k] \in Nat /\ log[k] <= log'[k]
      /\ log'[j] # 0 /\ \A k \in JobIds : fanning'[k] => k = j \/ fanning[k]
  <2>1. \A k \in JobIds : log[k] \in 0 .. MaxEvents
    BY DEF TypeOK
  <2>2. /\ log' \in [JobIds -> 0 .. MaxEvents]
        /\ \A k \in JobIds : log'[k] = IF k = j THEN log[k] + 1 ELSE log[k]
    BY <1>1, <2>1 DEF TypeOK
  <2>3. /\ fanning' \in [JobIds -> BOOLEAN]
        /\ \A k \in JobIds : fanning'[k] => k = j \/ fanning[k]
    BY <1>1 DEF TypeOK
  <2>4. QED
    BY <2>1, <2>2, <2>3
<1>3. TypeOK'
  <2>1. wake' \in BOOLEAN /\ signaled' \in BOOLEAN
    BY <1>1, Zenon DEF TypeOK, loop
  <2>2. QED
    BY <1>1, <1>2, <2>1 DEF TypeOK, lifecycle, loop, jobs, streams, clients
<1>4. LifeInv' /\ PendingInv' /\ SerialPerLifecycle'
  BY <1>1 DEF LifeInv, PendingInv, Fresh, SerialPerLifecycle, lifecycle, loop, jobs
<1>5. ThreadInv'
  <2>1. \A k \in JobIds : fanning'[k] => log'[k] # 0
    BY <1>2 DEF ThreadInv
  <2>2. QED
    BY <1>1, <2>1 DEF ThreadInv, lifecycle, loop
<1>6. StreamInv'
  <2>1. \A c \in Clients : phase[c] # "away" => Ordered(queue[c], log'[watching[c]])
    <3> SUFFICES ASSUME NEW c \in Clients, phase[c] # "away"
                 PROVE  Ordered(queue[c], log'[watching[c]])
      OBVIOUS
    <3>1. watching[c] \in JobIds /\ Ordered(queue[c], log[watching[c]])
      BY DEF StreamInv, Streaming
    <3>2. \A i \in 1 .. Len(queue[c]) : queue[c][i] \in 0 .. MaxEvents
      BY ElementOfSeq DEF TypeOK
    <3>3. \A i \in 1 .. Len(queue[c]) : queue[c][i] <= log'[watching[c]]
      <4> SUFFICES ASSUME NEW i \in 1 .. Len(queue[c]) PROVE queue[c][i] <= log'[watching[c]]
        OBVIOUS
      <4>1. queue[c][i] \in Nat /\ queue[c][i] <= log[watching[c]]
        BY <3>1, <3>2 DEF Ordered
      <4>2. QED
        BY <1>2, <3>1, <4>1
    <3>4. QED
      BY <3>1, <3>3 DEF Ordered
  <2>2. QED
    BY <1>1, <2>1 DEF StreamInv, Streaming, streams, clients
<1>7. QED
  BY <1>3, <1>4, <1>5, <1>6

\* emit, second half: the latest event goes to whoever is subscribed by now; it
\* is none of their queues' END.
LEMMA EmitFanInv == ASSUME IInv, NEW j \in JobIds, EmitFan(j) PROVE IInv'
<1> USE QueueAssumption DEF IInv
<1>1. /\ fanning[j] /\ fanning' = [fanning EXCEPT ![j] = FALSE]
      /\ queue' = [c \in Clients |->
           IF c \in subs[j] THEN Append(queue[c], log[j]) ELSE queue[c]]
      /\ UNCHANGED <<subs, thread, returned, log, lifecycle, loop, jobs, status, done, clients>>
  BY DEF EmitFan
<1>2. /\ fanning' \in [JobIds -> BOOLEAN]
      /\ \A k \in JobIds : fanning'[k] => fanning[k]
  BY <1>1 DEF TypeOK
<1>3. /\ log[j] \in 0 .. MaxEvents /\ log[j] \in Nat /\ log[j] <= MaxEvents /\ log[j] # END
  <2>1. log[j] \in 0 .. MaxEvents
    BY DEF TypeOK
  <2>2. QED
    BY <1>1, <2>1 DEF ThreadInv, END
<1>4. \A c \in Clients :
        queue[c] \in Seq(0 .. MaxEvents) /\ Append(queue[c], log[j]) \in Seq(0 .. MaxEvents)
  BY <1>3, AppendProperties DEF TypeOK
<1>5. queue' \in [Clients -> Seq(0 .. MaxEvents)]
  BY <1>1, <1>4
<1>6. TypeOK'
  <2>1. wake' \in BOOLEAN /\ signaled' \in BOOLEAN
    BY <1>1, Zenon DEF TypeOK, loop
  <2>2. QED
    BY <1>1, <1>2, <1>5, <2>1 DEF TypeOK, lifecycle, loop, jobs, clients
<1>7. LifeInv' /\ PendingInv' /\ SerialPerLifecycle' /\ ThreadInv'
  BY <1>1, <1>2 DEF LifeInv, PendingInv, Fresh, SerialPerLifecycle, ThreadInv, lifecycle, loop, jobs
<1>8. ASSUME NEW c \in Clients PROVE Streaming(c)'
  <2>1. CASE c \in subs[j]
    <3>1. phase[c] = "joined" /\ watching[c] = j /\ ~done[j]
      BY <2>1 DEF StreamInv
    <3>2. Ends(queue[c]) = {} /\ Ordered(queue[c], log[j])
      BY <3>1 DEF StreamInv, Streaming
    <3>3. queue'[c] = Append(queue[c], log[j])
      BY <1>1, <2>1
    <3>4. Ends(queue'[c]) = {}
      BY <1>3, <1>4, <3>2, <3>3, AppendEnds
    <3>5. Ordered(queue'[c], log[j])
      BY <1>3, <1>4, <3>2, <3>3, AppendOrdered
    <3>6. QED
      BY <1>1, <2>1, <3>1, <3>4, <3>5 DEF Streaming, clients
  <2>2. CASE c \notin subs[j]
    <3>1. queue'[c] = queue[c] /\ Streaming(c)
      BY <1>1, <2>2 DEF StreamInv
    <3>2. QED
      BY <1>1, <3>1 DEF Streaming, clients
  <2>3. QED
    BY <2>1, <2>2
<1>9. StreamInv'
  BY <1>1, <1>8 DEF StreamInv, clients
<1>10. QED
  BY <1>6, <1>7, <1>9

\* The thread's future is ready; its job was not waiting for its turn.
LEMMA ThreadEndsInv == ASSUME IInv, NEW j \in JobIds, ThreadEnds(j) PROVE IInv'
<1> USE QueueAssumption DEF IInv
<1>1. /\ thread[j] # 0
      /\ thread' = [thread EXCEPT ![j] = 0] /\ returned' = [returned EXCEPT ![j] = TRUE]
      /\ UNCHANGED <<log, fanning, lifecycle, loop, jobs, status, done, streams, clients>>
  BY DEF ThreadEnds
<1>2. /\ thread' \in [JobIds -> 0 .. MaxStarts] /\ returned' \in [JobIds -> BOOLEAN]
      /\ \A k \in JobIds : thread'[k] = IF k = j THEN 0 ELSE thread[k]
      /\ \A k \in JobIds : returned'[k] <=> (k = j \/ returned[k])
  BY <1>1 DEF TypeOK
<1>3. TypeOK'
  <2>1. wake' \in BOOLEAN /\ signaled' \in BOOLEAN
    BY <1>1, Zenon DEF TypeOK, loop
  <2>2. QED
    BY <1>1, <1>2, <2>1 DEF TypeOK, lifecycle, loop, jobs, streams, clients
<1>4. LifeInv'
  BY <1>1 DEF LifeInv, lifecycle, loop
<1>5. PendingInv'
  <2>1. \A k \in JobIds : Fresh(k) => Fresh(k)'
    BY <1>1, <1>2 DEF Fresh
  <2>2. QED
    BY <1>1, <2>1 DEF PendingInv, jobs
<1>6. ThreadInv'
  <2>1. starts \in Nat /\ \A k \in JobIds : thread[k] <= starts
    BY DEF ThreadInv, TypeOK
  <2>2. \A k \in JobIds : thread'[k] <= starts
    BY <1>2, <2>1
  <2>3. \A k \in JobIds : thread'[k] # 0 => thread'[k] = thread[k]
    BY <1>2
  <2>4. \A k \in JobIds : returned'[k] => thread'[k] = 0
    BY <1>2 DEF ThreadInv
  <2>5. QED
    BY <1>1, <2>2, <2>3, <2>4 DEF ThreadInv, lifecycle, loop
<1>7. SerialPerLifecycle'
  BY <1>2 DEF SerialPerLifecycle
<1>8. StreamInv'
  BY <1>1, StreamFrame DEF streams, clients
<1>9. QED
  BY <1>3, <1>4, <1>5, <1>6, <1>7, <1>8
-----------------------------------------------------------------------------
(***************************************************************************)
(* The steps of a client.                                                  *)
(***************************************************************************)
\* subscribe, first half: the copy of the log has its events in order and no
\* END, and the client is not subscribed yet.
LEMMA SubscribeInv ==
  ASSUME IInv, NEW c \in Clients, NEW j \in JobIds, Subscribe(c, j) PROVE IInv'
<1> USE QueueAssumption DEF IInv
<1> DEFINE copy == [i \in 1 .. log[j] |-> i]
<1>1. /\ phase[c] = "away"
      /\ phase' = [phase EXCEPT ![c] = "copied"] /\ watching' = [watching EXCEPT ![c] = j]
      /\ queue' = [queue EXCEPT ![c] = copy]
      /\ UNCHANGED <<subs, lifecycle, loop, jobs, status, done, gpu>>
  BY DEF Subscribe
<1>2. log[j] \in Nat /\ log[j] <= MaxEvents
  BY DEF TypeOK
<1>3. /\ copy \in Seq(0 .. MaxEvents) /\ Len(copy) = log[j]
      /\ \A i \in 1 .. log[j] : copy[i] = i
      /\ DOMAIN copy = 1 .. log[j]
  BY <1>2
<1>4. Ends(copy) = {} /\ Ordered(copy, log[j])
  BY <1>2, <1>3 DEF Ends, END, Ordered
<1> HIDE DEF copy
<1>5. /\ phase' \in [Clients -> {"away", "copied", "joined", "left"}]
      /\ watching' \in [Clients -> 0 .. J] /\ queue' \in [Clients -> Seq(0 .. MaxEvents)]
      /\ phase'[c] = "copied" /\ watching'[c] = j /\ queue'[c] = copy
      /\ \A d \in Clients : d # c =>
           phase'[d] = phase[d] /\ watching'[d] = watching[d] /\ queue'[d] = queue[d]
  BY <1>1, <1>3 DEF TypeOK, JobIds
<1>6. ClientTypes'
  BY <1>1, <1>5 DEF TypeOK, ClientTypes
<1>7. TypeOK' /\ LifeInv' /\ PendingInv' /\ ThreadInv' /\ SerialPerLifecycle'
  BY <1>1, <1>6, LoopFrame
<1>8. \A k \in JobIds : c \notin subs[k]
  BY <1>1 DEF StreamInv
<1>9. ASSUME NEW d \in Clients PROVE Streaming(d)'
  <2>1. CASE d = c
    BY <1>1, <1>4, <1>5, <2>1 DEF Streaming, gpu
  <2>2. CASE d # c
    <3>1. Streaming(d)
      BY DEF StreamInv
    <3>2. QED
      BY <1>1, <1>5, <2>2, <3>1 DEF Streaming, gpu
  <2>3. QED
    BY <2>1, <2>2
<1>10. \A k \in JobIds : \A d \in subs'[k] : phase'[d] = "joined" /\ watching'[d] = k /\ ~done'[k]
  <2> SUFFICES ASSUME NEW k \in JobIds, NEW d \in subs[k]
               PROVE  phase'[d] = "joined" /\ watching'[d] = k /\ ~done[k]
    BY <1>1
  <2>1. d \in Clients /\ d # c
    BY <1>8 DEF TypeOK
  <2>2. QED
    BY <1>5, <2>1 DEF StreamInv
<1>11. QED
  BY <1>7, <1>9, <1>10 DEF StreamInv

\* subscribe, second half: a job that has settled ends the queue at once, any
\* other will when it settles.
LEMMA EnrolInv == ASSUME IInv, NEW c \in Clients, Enrol(c) PROVE IInv'
<1> USE QueueAssumption DEF IInv
<1> DEFINE j == watching[c]
<1>1. /\ phase[c] = "copied" /\ phase' = [phase EXCEPT ![c] = "joined"]
      /\ \/ done[j] /\ queue' = [queue EXCEPT ![c] = Append(@, END)] /\ subs' = subs
         \/ ~done[j] /\ subs' = [subs EXCEPT ![j] = @ \cup {c}] /\ queue' = queue
      /\ UNCHANGED <<watching, lifecycle, loop, jobs, status, done, gpu>>
  BY DEF Enrol
<1>2. j \in JobIds /\ Ordered(queue[c], log[j]) /\ Ends(queue[c]) = {}
  BY <1>1 DEF StreamInv, Streaming
<1>3. /\ phase' \in [Clients -> {"away", "copied", "joined", "left"}]
      /\ phase'[c] = "joined" /\ watching'[c] = j
      /\ \A d \in Clients : d # c => phase'[d] = phase[d]
  BY <1>1 DEF TypeOK
<1>4. \A d \in Clients : Streaming(d)
  BY DEF StreamInv
<1> HIDE DEF j
<1>5. CASE done[j] /\ queue' = [queue EXCEPT ![c] = Append(@, END)] /\ subs' = subs
  <2>1. /\ queue[c] \in Seq(0 .. MaxEvents) /\ END \in 0 .. MaxEvents
        /\ log[j] \in Nat /\ log[j] <= MaxEvents
    BY <1>2 DEF TypeOK, END
  <2>2. /\ Append(queue[c], END) \in Seq(0 .. MaxEvents)
        /\ Ordered(Append(queue[c], END), log[j])
    BY <1>2, <2>1, AppendOrdered
  <2>3. Ends(Append(queue[c], END)) = {Len(queue[c]) + 1}
    BY <1>2, <2>1, AppendEnds
  <2>4. /\ queue' \in [Clients -> Seq(0 .. MaxEvents)]
        /\ queue'[c] = Append(queue[c], END)
        /\ \A d \in Clients : d # c => queue'[d] = queue[d]
    BY <1>5, <2>2 DEF TypeOK
  <2>5. ClientTypes'
    BY <1>1, <1>3, <1>5, <2>4 DEF TypeOK, ClientTypes
  <2>6. TypeOK' /\ LifeInv' /\ PendingInv' /\ ThreadInv' /\ SerialPerLifecycle'
    BY <1>1, <2>5, LoopFrame
  <2>7. ASSUME NEW d \in Clients PROVE Streaming(d)'
    <3>1. CASE d = c
      BY <1>1, <1>2, <1>3, <1>5, <2>2, <2>3, <2>4, <3>1 DEF Streaming, gpu
    <3>2. CASE d # c
      BY <1>1, <1>3, <1>4, <1>5, <2>4, <3>2 DEF Streaming, gpu
    <3>3. QED
      BY <3>1, <3>2
  <2>8. \A k \in JobIds : \A d \in subs'[k] : phase'[d] = "joined" /\ watching'[d] = k /\ ~done'[k]
    <3> SUFFICES ASSUME NEW k \in JobIds, NEW d \in subs[k]
                 PROVE  phase'[d] = "joined" /\ watching[d] = k /\ ~done[k]
      BY <1>1, <1>5
    <3>1. d \in Clients /\ phase[d] = "joined" /\ watching[d] = k /\ ~done[k]
      BY DEF TypeOK, StreamInv
    <3>2. QED
      BY <1>1, <1>3, <3>1
  <2>9. QED
    BY <2>6, <2>7, <2>8 DEF StreamInv
<1>6. CASE ~done[j] /\ subs' = [subs EXCEPT ![j] = @ \cup {c}] /\ queue' = queue
  <2>1. /\ subs' \in [JobIds -> SUBSET Clients]
        /\ \A k \in JobIds : subs'[k] = IF k = j THEN subs[k] \cup {c} ELSE subs[k]
    BY <1>2, <1>6 DEF TypeOK
  <2>2. ClientTypes'
    BY <1>1, <1>3, <1>6, <2>1 DEF TypeOK, ClientTypes
  <2>3. TypeOK' /\ LifeInv' /\ PendingInv' /\ ThreadInv' /\ SerialPerLifecycle'
    BY <1>1, <2>2, LoopFrame
  <2>4. ASSUME NEW d \in Clients PROVE Streaming(d)'
    <3>1. CASE d = c
      BY <1>1, <1>2, <1>3, <1>6, <2>1, <3>1 DEF Streaming, gpu
    <3>2. CASE d # c
      <4>1. Streaming(d) /\ phase'[d] = phase[d]
        BY <1>3, <1>4, <3>2
      <4>2. \A k \in JobIds : subs[k] \subseteq subs'[k]
        BY <2>1
      <4>3. QED
        BY <1>1, <1>6, <4>1, <4>2 DEF Streaming, gpu
    <3>3. QED
      BY <3>1, <3>2
  <2>5. \A k \in JobIds : \A d \in subs'[k] : phase'[d] = "joined" /\ watching'[d] = k /\ ~done'[k]
    <3> SUFFICES ASSUME NEW k \in JobIds, NEW d \in subs'[k]
                 PROVE  phase'[d] = "joined" /\ watching[d] = k /\ ~done[k]
      BY <1>1
    <3>1. CASE d = c
      <4>1. \A i \in JobIds : c \notin subs[i]
        BY <1>1 DEF StreamInv
      <4>2. k = j
        BY <2>1, <3>1, <4>1
      <4>3. QED
        BY <1>1, <1>3, <1>6, <3>1, <4>2
    <3>2. CASE d # c
      <4>1. d \in subs[k] /\ d \in Clients
        BY <2>1, <3>2
      <4>2. QED
        BY <1>3, <3>2, <4>1 DEF StreamInv
    <3>3. QED
      BY <3>1, <3>2
  <2>6. QED
    BY <2>3, <2>4, <2>5 DEF StreamInv
<1>7. QED
  BY <1>1, <1>5, <1>6

\* The generator's finally clause: the client's queue gets nothing more.
LEMMA UnsubscribeInv == ASSUME IInv, NEW c \in Clients, Unsubscribe(c) PROVE IInv'
<1> USE QueueAssumption DEF IInv
<1> DEFINE j == watching[c]
<1>1. /\ phase[c] = "joined" /\ phase' = [phase EXCEPT ![c] = "left"]
      /\ subs' = [subs EXCEPT ![j] = @ \ {c}]
      /\ UNCHANGED <<queue, watching, lifecycle, loop, jobs, status, done, gpu>>
  BY DEF Unsubscribe
<1>2. j \in JobIds /\ Ordered(queue[c], log[j])
  BY <1>1 DEF StreamInv, Streaming
<1>3. /\ phase' \in [Clients -> {"away", "copied", "joined", "left"}]
      /\ phase'[c] = "left" /\ \A d \in Clients : d # c => phase'[d] = phase[d]
  BY <1>1 DEF TypeOK
<1>4. /\ subs' \in [JobIds -> SUBSET Clients]
      /\ \A k \in JobIds : subs'[k] = IF k = j THEN subs[k] \ {c} ELSE subs[k]
  BY <1>1, <1>2 DEF TypeOK
<1>5. ClientTypes'
  BY <1>1, <1>3, <1>4 DEF TypeOK, ClientTypes
<1>6. TypeOK' /\ LifeInv' /\ PendingInv' /\ ThreadInv' /\ SerialPerLifecycle'
  BY <1>1, <1>5, LoopFrame
<1>7. ASSUME NEW d \in Clients PROVE Streaming(d)'
  <2>1. CASE d = c
    BY <1>1, <1>2, <1>3, <2>1 DEF Streaming, gpu
  <2>2. CASE d # c
    <3>1. Streaming(d) /\ phase'[d] = phase[d]
      BY <1>3, <2>2 DEF StreamInv
    <3>2. \A k \in JobIds : d \in subs[k] => d \in subs'[k]
      BY <1>4, <2>2
    <3>3. QED
      BY <1>1, <3>1, <3>2 DEF Streaming, gpu
  <2>3. QED
    BY <2>1, <2>2
<1>8. \A k \in JobIds : \A d \in subs'[k] : phase'[d] = "joined" /\ watching'[d] = k /\ ~done'[k]
  <2> SUFFICES ASSUME NEW k \in JobIds, NEW d \in subs'[k]
               PROVE  phase'[d] = "joined" /\ watching[d] = k /\ ~done[k]
    BY <1>1
  <2>1. d \in subs[k] /\ d \in Clients
    BY <1>4
  <2>2. phase[d] = "joined" /\ watching[d] = k /\ ~done[k]
    BY <2>1 DEF StreamInv
  <2>3. d # c
    BY <1>4, <2>2
  <2>4. QED
    BY <1>3, <2>1, <2>2, <2>3
<1>9. QED
  BY <1>6, <1>7, <1>8 DEF StreamInv
-----------------------------------------------------------------------------
(***************************************************************************)
(* The invariant of the queue, and what it says of its users.              *)
(***************************************************************************)
\* The server before its first start.
LEMMA InitInv == ASSUME Init PROVE IInv
<1> USE QueueAssumption
<1>1. /\ pending = <<>> /\ zombies = <<>> /\ Len(pending) = 0 /\ Len(zombies) = 0
      /\ \A c \in Clients : queue[c] = <<>>
  BY EmptySeq DEF Init
<1>2. TypeOK
  <2>1. worker \in Workers /\ current = worker.job
    BY DEF Init, NoWorker, Workers
  <2>2. pending \in Seq(JobIds) /\ zombies \in Seq(Workers) /\ \A c \in Clients : queue[c] \in Seq(0 .. MaxEvents)
    BY <1>1, EmptySeq
  <2>3. queue \in [Clients -> Seq(0 .. MaxEvents)]
    BY <2>2 DEF Init
  <2>4. wake \in BOOLEAN /\ signaled \in BOOLEAN
    BY DEF Init
  <2>5. QED
    BY <2>1, <2>2, <2>3, <2>4 DEF Init, TypeOK, NoJob
<1>3. LifeInv
  BY <1>1 DEF Init, LifeInv, NoWorker
<1>4. PendingInv
  BY <1>1 DEF Init, PendingInv, Fresh
<1>5. ThreadInv /\ SerialPerLifecycle
  BY DEF Init, ThreadInv, SerialPerLifecycle, NoWorker
<1>6. StreamInv
  BY DEF Init, StreamInv, Streaming
<1>7. QED
  BY <1>2, <1>3, <1>4, <1>5, <1>6 DEF IInv

\* A step that leaves the variables alone.
LEMMA StutterInv == ASSUME IInv, UNCHANGED vars PROVE IInv'
<1>1. UNCHANGED <<lifecycle, loop, jobs, status, done, gpu, streams, clients>>
  BY DEF vars
<1>2. ClientTypes'
  BY <1>1, ClientTypesHold DEF ClientTypes, streams, clients, IInv
<1>3. StreamInv'
  BY <1>1, StreamFrame DEF streams, clients, gpu, IInv
<1>4. QED
  BY <1>1, <1>2, <1>3, LoopFrame DEF IInv

\* Every step of every thread keeps the invariant.
LEMMA NextInv == ASSUME IInv, [Next]_vars PROVE IInv'
<1>1. CASE SubmitOnLoop \/ SubmitOffLoop
  BY <1>1, SubmitInv
<1>2. CASE SetWake \/ \E j \in JobIds : SignalOffLoop(j)
  BY <1>2, SignalInv
<1>3. CASE Worker
  BY <1>3, WakesInv, ReturnsInv, CancelledInv DEF Worker
<1>4. CASE Start
  BY <1>4, StartInv
<1>5. CASE Stop
  BY <1>5, StopInv, DrainsInv, ExpiresInv, TimeoutInv DEF Stop
<1>6. CASE \E j \in JobIds : Thread(j)
  BY <1>6, EmitLogInv, EmitFanInv, ThreadEndsInv DEF Thread
<1>7. CASE \E c \in Clients : Client(c)
  BY <1>7, SubscribeInv, EnrolInv, UnsubscribeInv DEF Client
<1>8. CASE UNCHANGED vars
  BY <1>8, StutterInv
<1>9. QED
  BY <1>1, <1>2, <1>3, <1>4, <1>5, <1>6, <1>7, <1>8 DEF Next

\* What start, stop, the worker, the job threads and the clients keep together.
THEOREM QueueInvariant == Spec => []IInv
<1>1. Init => IInv
  BY InitInv
<1>2. IInv /\ [Next]_vars => IInv'
  BY NextInv
<1>3. QED
  BY <1>1, <1>2, PTL DEF Spec

\* _current is the job of the worker, although a cancelled worker resets it
\* from its finally clause; and every variable has its type.
THEOREM TypeCorrect == Spec => []TypeOK
<1>1. IInv => TypeOK
  BY DEF IInv
<1>2. QED
  BY <1>1, QueueInvariant, PTL

\* Of one lifecycle of the application, two GPU jobs never run at once: _run
\* takes a job only when the thread of the one before has ended.
THEOREM ThreadsAreSerial == Spec => []SerialPerLifecycle
<1>1. IInv => SerialPerLifecycle
  BY DEF IInv
<1>2. QED
  BY <1>1, QueueInvariant, PTL

\* A client that has joined gets END exactly once when its job has settled, and
\* none before: subscribe and settle agree in every interleaving.
THEOREM ClientsEnd == Spec => []ClientsTerminate
<1>1. ASSUME IInv PROVE ClientsTerminate
  <2> SUFFICES ASSUME NEW c \in Clients, phase[c] = "joined"
               PROVE  Cardinality(Ends(queue[c])) = IF done[watching[c]] THEN 1 ELSE 0
    BY DEF ClientsTerminate
  <2>1. Streaming(c)
    BY <1>1 DEF IInv, StreamInv
  <2>2. CASE done[watching[c]]
    <3>1. PICK i : Ends(queue[c]) = {i}
      BY <2>1, <2>2 DEF Streaming
    <3>2. Cardinality({i}) = 1
      BY FS_Singleton
    <3>3. QED
      BY <2>2, <3>1, <3>2
  <2>3. CASE ~done[watching[c]]
    <3>1. Ends(queue[c]) = {}
      BY <2>1, <2>3 DEF Streaming
    <3>2. QED
      BY <2>3, <3>1, FS_EmptySet
  <2>4. QED
    BY <2>2, <2>3
<1>2. QED
  BY <1>1, QueueInvariant, PTL

\* emit and the copy of subscribe interleave, and a stream may repeat an event;
\* it never goes back, and holds nothing the job has not logged.
THEOREM StreamsInOrder == Spec => []StreamInOrder
<1>1. ASSUME IInv PROVE StreamInOrder
  <2> SUFFICES ASSUME NEW c \in Clients,
                      NEW i \in DOMAIN queue[c] \ Ends(queue[c]),
                      NEW k \in DOMAIN queue[c] \ Ends(queue[c]), i < k
               PROVE  queue[c][i] <= queue[c][k] /\ queue[c][k] <= log[watching[c]]
    BY DEF StreamInOrder
  <2>1. queue[c] \in Seq(0 .. MaxEvents) /\ Streaming(c)
    BY <1>1 DEF IInv, TypeOK, StreamInv
  <2>2. DOMAIN queue[c] = 1 .. Len(queue[c])
    BY <2>1, LenProperties
  <2>3. i \in 1 .. Len(queue[c]) /\ k \in 1 .. Len(queue[c]) /\ queue[c][i] # END /\ queue[c][k] # END
    BY <2>2 DEF Ends
  <2>4. phase[c] # "away"
    BY <2>1, <2>3, EmptySeq DEF Streaming
  <2>5. Ordered(queue[c], log[watching[c]])
    BY <2>1, <2>4 DEF Streaming
  <2>6. QED
    BY <2>3, <2>5 DEF Ordered
<1>2. QED
  BY <1>1, QueueInvariant, PTL

\* The jobs and verdicts one step can change, which VerdictStands is about.
VerdictStep ==
  \A j \in JobIds :
    /\ status[j] = "failed" => status'[j] = "failed"
    /\ status[j] = "done" =>
         \/ status'[j] = "done"
         \/ status'[j] = "failed" /\ life = "expired" /\ target = j
    /\ thread[j] = 0 /\ thread'[j] # 0 => status[j] = "queued"

\* The next turn of _run starts the head of the list, which is fresh, and leaves
\* the other verdicts alone.
LEMMA NextJobKeeps ==
  ASSUME IInv, NEW st \in [JobIds -> {"queued", "running", "done", "failed"}], NextJob(st)
  PROVE  \A j \in JobIds :
           /\ status[j] # "queued" => status'[j] = st[j]
           /\ thread[j] = 0 /\ thread'[j] # 0 => status[j] = "queued"
<1> DEFINE h == Head(pending)
<1>1. CASE pending # <<>>
  <2>1. h \in JobIds /\ status[h] = "queued"
    BY <1>1, HeadPending DEF IInv, Fresh
  <2>2. /\ status' = [st EXCEPT ![h] = "running"] /\ thread' = [thread EXCEPT ![h] = starts]
    BY <1>1 DEF NextJob
  <2> HIDE DEF h
  <2>3. QED
    BY <2>1, <2>2 DEF IInv, TypeOK
<1>2. CASE pending = <<>>
  BY <1>2 DEF NextJob
<1>3. QED
  BY <1>1, <1>2

\* No step starts a job again, and none but stop overturns a verdict.
LEMMA NextVerdict == ASSUME IInv, [Next]_vars PROVE VerdictStep
<1>1. CASE WorkerWakes
  <2>1. NextJob(status) /\ status \in [JobIds -> {"queued", "running", "done", "failed"}]
    BY <1>1 DEF WorkerWakes, IInv, TypeOK
  <2>2. QED
    BY <2>1, NextJobKeeps DEF VerdictStep
<1>2. CASE WorkerReturns
  <2> DEFINE w == worker.job
  <2>1. w \in JobIds /\ status[w] = "running"
    BY <1>2 DEF WorkerReturns, IInv, TypeOK, Workers, ThreadInv
  <2>2. PICK verdict \in {"done", "failed"} : NextJob([status EXCEPT ![w] = verdict])
    BY <1>2 DEF WorkerReturns
  <2> HIDE DEF w
  <2>3. /\ [status EXCEPT ![w] = verdict] \in [JobIds -> {"queued", "running", "done", "failed"}]
        /\ \A j \in JobIds : j # w => [status EXCEPT ![w] = verdict][j] = status[j]
    BY <2>1, <2>2 DEF IInv, TypeOK
  <2>4. QED
    BY <2>1, <2>2, <2>3, NextJobKeeps DEF VerdictStep
<1>3. CASE StopTimeout
  <2>1. life = "expired" /\ target \in JobIds
    BY <1>3 DEF StopTimeout, IInv, LifeInv
  <2>2. status' = [status EXCEPT ![target] = "failed"] /\ UNCHANGED thread
    BY <1>3 DEF StopTimeout, gpu
  <2>3. QED
    BY <2>1, <2>2 DEF VerdictStep, IInv, TypeOK
<1>4. CASE \E j \in JobIds : ThreadEnds(j)
  <2>1. PICK j \in JobIds : thread' = [thread EXCEPT ![j] = 0] /\ UNCHANGED status
    BY <1>4 DEF ThreadEnds
  <2>2. QED
    BY <2>1 DEF VerdictStep, IInv, TypeOK
<1>5. ASSUME UNCHANGED <<status, thread>> PROVE VerdictStep
  BY <1>5 DEF VerdictStep
<1>6. CASE \/ SubmitOnLoop \/ SubmitOffLoop \/ SetWake
           \/ \E j \in JobIds : SignalOffLoop(j)
  BY <1>5, <1>6 DEF SubmitOnLoop, SubmitOffLoop, SetWake, SignalOffLoop, gpu
<1>7. CASE WorkerCancelled \/ Start \/ StopIdle \/ StopDrains \/ StopDrained \/ StopExpires
  BY <1>5, <1>7 DEF WorkerCancelled, Start, StopIdle, StopDrains, StopDrained, StopExpires, gpu
<1>8. CASE \E j \in JobIds : EmitLog(j) \/ EmitFan(j)
  BY <1>5, <1>8 DEF EmitLog, EmitFan, gpu
<1>9. CASE \E c \in Clients : Client(c)
  BY <1>5, <1>9 DEF Client, Subscribe, Enrol, Unsubscribe, gpu
<1>10. CASE UNCHANGED vars
  BY <1>5, <1>10 DEF vars, gpu
<1>11. QED
  BY <1>1, <1>2, <1>3, <1>4, <1>6, <1>7, <1>8, <1>9, <1>10 DEF Next, Worker, Stop, Thread

\* A job starts once, and its verdict is overturned by stop alone: what stop has
\* failed, the thread it could not cancel does not turn to done, and a job that
\* is done is failed only by the stop that waited for it and timed out.
THEOREM VerdictsStand == Spec => VerdictStands
<1>1. IInv /\ [Next]_vars => [VerdictStep]_vars
  BY NextVerdict
<1>2. Spec => [][VerdictStep]_vars
  BY <1>1, QueueInvariant, PTL DEF Spec
<1>3. QED
  BY <1>2 DEF VerdictStands, VerdictStep

-----------------------------------------------------------------------------
(* The memos. *)
\* How a step of one thread changes the number of those that are building.
LEMMA Enters ==
  ASSUME IsFiniteSet(Threads), MemoTypeOK, NEW t \in Threads,
         NEW to \in {"build", "store"}, mpc[t] \notin {"build", "store"}, Goes(t, to)
  PROVE  /\ Cardinality(Building') = Cardinality(Building) + 1
         /\ Cardinality(Building) <= Cardinality(Threads) - 1
<1>1. Building' = Building \cup {t} /\ t \notin Building /\ Building \subseteq Threads \ {t}
  BY DEF Building, Goes, MemoTypeOK
<1>2. IsFiniteSet(Threads \ {t}) /\ Cardinality(Threads \ {t}) = Cardinality(Threads) - 1
  BY FS_RemoveElement
<1>3. IsFiniteSet(Building) /\ Cardinality(Building) <= Cardinality(Threads \ {t})
  BY <1>1, <1>2, FS_Subset
<1>4. Cardinality(Building') = Cardinality(Building) + 1
  BY <1>1, <1>3, FS_AddElement
<1>. QED  BY <1>2, <1>3, <1>4

\* A thread that stores its key, or answers, is no longer building.
LEMMA Exits ==
  ASSUME IsFiniteSet(Threads), MemoTypeOK, NEW t \in Threads,
         NEW to, to \notin {"build", "store"}, Goes(t, to)
  PROVE  /\ Cardinality(Building') <= Cardinality(Building)
         /\ mpc[t] \in {"build", "store"} => Cardinality(Building') = Cardinality(Building) - 1
<1>1. Building' = Building \ {t}
  BY DEF Building, Goes, MemoTypeOK
<1>2. IsFiniteSet(Building)
  BY FS_Subset DEF Building
<1>3. Cardinality(Building') <= Cardinality(Building)
  BY <1>1, <1>2, FS_Subset
<1>4. ASSUME mpc[t] \in {"build", "store"}
      PROVE  Cardinality(Building') = Cardinality(Building) - 1
  <2>1. t \in Building
    BY <1>4 DEF Building
  <2>. QED  BY <1>1, <1>2, <2>1, FS_RemoveElement
<1>. QED  BY <1>3, <1>4

\* A thread that has built a value and is about to store it is still building.
LEMMA Stays ==
  ASSUME MemoTypeOK, NEW t \in Threads, NEW to \in {"build", "store"},
         mpc[t] \in {"build", "store"}, Goes(t, to)
  PROVE  Building' = Building
BY DEF Building, Goes, MemoTypeOK

\* pop takes one key out of a memo that has it.
LEMMA PopShortens ==
  ASSUME memo \in Seq(Models), NEW m \in Held
  PROVE  Without(m) \in Seq(Models) /\ Len(Without(m)) = Len(memo) - 1
<1>1. Place(m) \in 1 .. Len(memo)
  BY DEF Place, Held
<1>. QED  BY <1>1 DEF Without

\* Before the first request the memo is empty and every thread is idle.
LEMMA MemoTypeInit == MemoInit => MemoTypeOK
BY DEF MemoInit, MemoTypeOK

\* Each step of _memo_get leaves every thread at a step of it.
LEMMA MemoTypeStep == MemoTypeOK /\ [MemoNext]_memoVars => MemoTypeOK'
<1>. SUFFICES ASSUME MemoTypeOK, [MemoNext]_memoVars PROVE MemoTypeOK'
  OBVIOUS
<1>1. CASE UNCHANGED memoVars
  BY <1>1 DEF MemoTypeOK, memoVars
<1>2. ASSUME NEW t \in Threads, MemoStep(t) PROVE MemoTypeOK'
  <2>1. CASE Lookup(t)
    BY <2>1 DEF Lookup, Goes, MemoTypeOK
  <2>2. CASE Room(t)
    BY <2>2 DEF Room, Goes, MemoTypeOK
  <2>3. CASE Iterate(t)
    BY <2>3 DEF Iterate, Goes, MemoTypeOK
  <2>4. CASE Oldest(t)
    <3>1. CASE memo = <<>> \/ Len(memo) # size[t]
      BY <2>4, <3>1 DEF Oldest, Goes, MemoTypeOK
    <3>2. CASE ~(memo = <<>> \/ Len(memo) # size[t])
      <4>1. Head(memo) \in Models
        BY <3>2 DEF MemoTypeOK
      <4>. QED  BY <2>4, <3>2, <4>1 DEF Oldest, Goes, MemoTypeOK
    <3>. QED  BY <3>1, <3>2
  <2>5. CASE Pop(t)
    <3>1. memo' \in Seq(Models)
      BY <2>5, PopShortens DEF Pop, MemoTypeOK
    <3>. QED  BY <2>5, <3>1 DEF Pop, Goes, MemoTypeOK
  <2>6. CASE Build(t)
    BY <2>6 DEF Build, Goes, MemoTypeOK
  <2>7. CASE Store(t)
    <3>1. key[t] \in Models
      BY <2>7 DEF Store, MemoTypeOK
    <3>2. memo' \in Seq(Models)
      BY <2>7, <3>1 DEF Store, MemoTypeOK
    <3>. QED  BY <2>7, <3>2 DEF Store, Goes, MemoTypeOK
  <2>8. CASE Read(t)
    BY <2>8 DEF Read, Goes, MemoTypeOK
  <2>9. CASE Respond(t)
    BY <2>9 DEF Respond, Goes, MemoTypeOK
  <2>. QED  BY <1>2, <2>1, <2>2, <2>3, <2>4, <2>5, <2>6, <2>7, <2>8, <2>9 DEF MemoStep
<1>. QED  BY <1>1, <1>2 DEF MemoNext

\* The bound is kept by every step: Room lets a thread build only below the
\* limit and Pop only after taking a key out; Store turns a thread that was
\* counted as building into a key.
LEMMA MemoBoundedStep ==
  MemoTypeOK /\ MemoBounded /\ [MemoNext]_memoVars => MemoBounded'
<1>. SUFFICES ASSUME MemoTypeOK, MemoBounded, [MemoNext]_memoVars PROVE MemoBounded'
  OBVIOUS
<1>1. /\ IsFiniteSet(Threads) /\ Cardinality(Threads) \in Nat /\ MemoMax \in Nat \ {0}
      /\ Len(memo) \in Nat
  <2>1. IsFiniteSet(Threads) /\ MemoMax \in Nat \ {0}
    BY MemoAssumption
  <2>2. Cardinality(Threads) \in Nat
    BY <2>1, FS_CardinalityType
  <2>3. Len(memo) \in Nat
    BY DEF MemoTypeOK
  <2>. QED  BY <2>1, <2>2, <2>3
<1>2. IsFiniteSet(Building) /\ Cardinality(Building) \in Nat
  BY <1>1, FS_Subset, FS_CardinalityType DEF Building
<1>3. /\ MemoTypeOK'
      /\ Len(memo') \in Nat
      /\ IsFiniteSet(Building') /\ Cardinality(Building') \in Nat
  <2>1. MemoTypeOK'
    BY MemoTypeStep
  <2>2. Building' \subseteq Threads
    BY DEF Building
  <2>. QED  BY <2>1, <2>2, <1>1, FS_Subset, FS_CardinalityType DEF MemoTypeOK
<1>4. CASE UNCHANGED memoVars
  BY <1>4 DEF MemoBounded, Building, memoVars
<1>5. ASSUME NEW t \in Threads, MemoStep(t) PROVE MemoBounded'
  <2>1. ASSUME NEW to, to \notin {"build", "store"}, Goes(t, to), memo' = memo
        PROVE  MemoBounded'
    <3>1. Cardinality(Building') <= Cardinality(Building)
      BY <1>1, <2>1, Exits
    <3>. QED  BY <1>1, <1>2, <1>3, <2>1, <3>1 DEF MemoBounded
  <2>2. CASE Lookup(t)
    BY <2>1, <2>2 DEF Lookup
  <2>3. CASE Room(t)
    <3>1. CASE Len(memo) >= MemoMax
      BY <2>1, <2>3, <3>1 DEF Room
    <3>2. CASE ~(Len(memo) >= MemoMax)
      <4>1. Goes(t, "build") /\ memo' = memo /\ mpc[t] = "room"
        BY <2>3, <3>2 DEF Room
      <4>2. /\ Cardinality(Building') = Cardinality(Building) + 1
            /\ Cardinality(Building) <= Cardinality(Threads) - 1
        BY <1>1, <4>1, Enters
      <4>. QED  BY <1>1, <1>2, <3>2, <4>1, <4>2 DEF MemoBounded
    <3>. QED  BY <3>1, <3>2
  <2>4. CASE Iterate(t)
    BY <2>1, <2>4 DEF Iterate
  <2>5. CASE Oldest(t)
    BY <2>1, <2>5 DEF Oldest
  <2>6. CASE Pop(t)
    <3>1. CASE victim[t] \in Held
      <4>1. Goes(t, "build") /\ memo' = Without(victim[t]) /\ mpc[t] = "pop"
        BY <2>6, <3>1 DEF Pop
      <4>2. Len(memo') = Len(memo) - 1
        BY <3>1, <4>1, PopShortens DEF MemoTypeOK
      <4>3. Cardinality(Building') = Cardinality(Building) + 1
        BY <1>1, <4>1, Enters
      <4>. QED  BY <1>1, <1>2, <4>2, <4>3 DEF MemoBounded
    <3>2. CASE victim[t] \notin Held
      BY <2>1, <2>6, <3>2 DEF Pop
    <3>. QED  BY <3>1, <3>2
  <2>7. CASE Build(t)
    <3>1. CASE Goes(t, "refused")
      BY <2>1, <2>7, <3>1 DEF Build
    <3>2. CASE Goes(t, "store")
      <4>1. Building' = Building
        BY <1>1, <2>7, <3>2, Stays DEF Build
      <4>. QED  BY <2>7, <4>1 DEF Build, MemoBounded
    <3>. QED  BY <2>7, <3>1, <3>2 DEF Build
  <2>8. CASE Store(t)
    <3>1. Goes(t, "read") /\ mpc[t] = "store"
      BY <2>8 DEF Store
    <3>2. Cardinality(Building') = Cardinality(Building) - 1
      BY <1>1, <3>1, Exits
    <3>3. Len(memo') <= Len(memo) + 1
      <4>1. CASE key[t] \in Held
        BY <1>1, <2>8, <4>1 DEF Store
      <4>2. CASE key[t] \notin Held
        <5>1. memo' = Append(memo, key[t])
          BY <2>8, <4>2 DEF Store
        <5>2. memo \in Seq(Models) /\ key[t] \in Models
          BY <3>1 DEF MemoTypeOK
        <5>. QED  BY <1>1, <5>1, <5>2
      <4>. QED  BY <4>1, <4>2
    <3>. QED  BY <1>1, <1>2, <1>3, <3>2, <3>3 DEF MemoBounded
  <2>9. CASE Read(t)
    BY <2>1, <2>9 DEF Read
  <2>10. CASE Respond(t)
    BY <2>1, <2>10 DEF Respond
  <2>. QED  BY <1>5, <2>2, <2>3, <2>4, <2>5, <2>6, <2>7, <2>8, <2>9, <2>10 DEF MemoStep
<1>. QED  BY <1>4, <1>5 DEF MemoNext

\* However the threads of the pool interleave in _memo_get, every thread is
\* at a step of it and every cached key is one that was asked for.
THEOREM MemoTypeCorrect == MemoSpec => []MemoTypeOK
<1>. QED  BY MemoTypeInit, MemoTypeStep, PTL DEF MemoSpec

\* _MEMO_MAX bounds the memo whatever the interleaving: by MemoMax - 1 plus
\* the number of threads, not by MemoMax.
THEOREM MemoStaysBounded == MemoSpec => []MemoBounded
<1>1. MemoInit => MemoTypeOK /\ MemoBounded
  <2>. SUFFICES ASSUME MemoInit PROVE MemoTypeOK /\ MemoBounded
    OBVIOUS
  <2>1. Building = {} /\ Len(memo) = 0
    BY DEF MemoInit, Building
  <2>. QED  BY <2>1, MemoTypeInit, MemoAssumption, FS_EmptySet, FS_CardinalityType
            DEF MemoBounded
<1>2. MemoTypeOK /\ MemoBounded /\ [MemoNext]_memoVars => (MemoTypeOK /\ MemoBounded)'
  BY MemoTypeStep, MemoBoundedStep
<1>. QED  BY <1>1, <1>2, PTL DEF MemoSpec
=============================================================================
