---------------------------- MODULE ArtifactMerge ----------------------------
(***************************************************************************)
(* One checkpoint packed as several partial artifacts and merged into one: *)
(* the three drivers pack_checkpoint_sequential (pipeline/sequential.py),  *)
(* _run_partitioned_pack (deploy/kaggle.py) and tools/orka_parallel.py,    *)
(* around merge_orka_artifacts (artifact/merge.py).                        *)
(*                                                                         *)
(* The state is what is on disk and which processes are alive.  A driver   *)
(* may fail or be killed between any two steps and be run again with       *)
(* another number of partitions; its worker processes may survive it.      *)
(* Files are stamped with the attempt that wrote them.                     *)
(*                                                                         *)
(* An operator commented "Mutant of X" is a plausible bug in the code of   *)
(* X; no specification uses it.                                            *)
(***************************************************************************)
EXTENDS Integers, FiniteSets, FiniteSetsExt

CONSTANTS
  Drivers,      \* of "sequential", "kaggle", "parallel"
  Sizes,        \* how many quantizable tensors the checkpoint may have
  Gpus,         \* how many devices, partitions or blocks an attempt may find;
                \* 1 stands for fewer than two devices
  Widths,       \* how many workers kaggle may be told to run at a time
  MaxAttempts,  \* how often a driver is run
  MaxFailures   \* how many packs of a part may fail by themselves

ASSUME MergeAssumption ==
  /\ Drivers \subseteq {"sequential", "kaggle", "parallel"}
  /\ Sizes \subseteq Nat \ {0} /\ Gpus \subseteq Nat \ {0}
  /\ Widths \subseteq Nat \ {0}
  /\ \E g \in Gpus : \A h \in Gpus : h <= g   \* the devices of the machine
  /\ MaxAttempts \in Nat /\ MaxFailures \in Nat

VARIABLES
  driver, n,        \* fixed: the driver and how many tensors there are
  width,            \* the number of workers asked for, fixed in an attempt
  attempt,          \* the present or last attempt
  gpus,             \* attempt -> the number of devices it found
  pc, at,           \* where the driver is, and its loop index
  worker,           \* attempt -> shard -> the pack of that shard
  part,             \* shard -> the partial artifact in its directory
  out, nested,      \* the output directory; a part was moved into it
  read,             \* the manifests as merge_orka_artifacts has read them
  finished,         \* attempts that reported success
  overlap           \* a worker wrote after its driver's next attempt began

fixed == <<driver, n, width>>
work  == <<worker, part>>
dest  == <<out, nested>>
vars  == <<fixed, attempt, gpus, pc, at, work, dest, read, finished, overlap>>

Tensors  == 1 .. n
Attempts == 1 .. MaxAttempts
Stamps   == 0 .. MaxAttempts   \* 0: no such file or entry
MaxShards == Max(Gpus)
Shards   == 1 .. MaxShards

\* A directory: its streams, the tensors its manifest lists, its passthrough.
NoFiles == [t \in Tensors |-> 0]
NoDir == [there |-> FALSE, stream |-> NoFiles, manifest |-> "none",
          listed |-> NoFiles, passed |-> {}]
Empty == [NoDir EXCEPT !.there = TRUE]

NothingRead == [s \in Shards |-> NoFiles]

Init ==
  /\ driver \in Drivers /\ n \in Sizes /\ width = 1
  /\ attempt = 0 /\ gpus = [a \in Attempts |-> 0]
  /\ pc = "idle" /\ at = 0
  /\ worker = [a \in Attempts |-> [s \in Shards |-> "none"]]
  /\ part = [s \in Shards |-> NoDir]
  /\ out \in {NoDir, Empty} /\ nested = FALSE
  /\ read = NothingRead
  /\ finished = {} /\ overlap = FALSE

(***************************************************************************)
(* How the tensors are split.  kaggle deals them out by the partition      *)
(* modulus, the other two cut consecutive blocks.                          *)
(***************************************************************************)
Ceil(x, y) == (x + y - 1) \div y
BlockSize(a) == Ceil(n, gpus[a])
Parts(a) == IF driver = "kaggle" THEN gpus[a] ELSE Ceil(n, BlockSize(a))
Chunk(a, s) ==
  IF driver = "kaggle"
    THEN {t \in Tensors : (t - 1) % gpus[a] = s - 1}
    ELSE {t \in Tensors : (t - 1) \div BlockSize(a) = s - 1}
\* orka_parallel does not turn only_tensors_passthrough off.
Passed(a, s) == IF driver = "parallel" THEN Tensors \ Chunk(a, s) ELSE {}

\* With fewer than two devices orka_parallel packs the whole checkpoint, and
\* packs it into the output directory itself.
Direct(a) == driver = "parallel" /\ gpus[a] < 2

\* Workers started together, and those whose end is awaited together.
Width == IF driver = "parallel" THEN MaxShards ELSE width
Batch == at .. Min({at + Width - 1, Parts(attempt)})

\* Mutant of Awaited: the end of every device's worker, launched or not.
EveryShard == Shards

Awaited == IF driver = "parallel" THEN {at} ELSE Batch

Contents(d) == d.stream # NoFiles \/ d.manifest # "none" \/ d.passed # {}
\* Mutant of OutIsClear: what is in the way is merged over.
OutIsNoMatter == TRUE

OutIsClear == ~out.there \/ (~Contents(out) /\ ~nested)

Leave   == pc' = "idle" /\ at' = 0 /\ read' = NothingRead
EndAttempt == Leave /\ UNCHANGED finished

\* Mutant of Raise: a failed merge removes its parts.
RaiseCleaning ==
  /\ EndAttempt /\ UNCHANGED <<worker, dest>>
  /\ part' = [s \in Shards |-> IF s <= Parts(attempt) THEN NoDir ELSE part[s]]

Raise   == EndAttempt /\ UNCHANGED <<work, dest>>
Succeed == Leave /\ finished' = finished \cup {attempt}
Go(to, i) == pc' = to /\ at' = i /\ UNCHANGED <<read, finished>>

(***************************************************************************)
(* The driver.                                                             *)
(***************************************************************************)
\* An attempt may end before it touches a file (no device for each partition,
\* no tensor to quantize).  The two drivers that look at out_dir first go on
\* only when it is clear; kaggle also removes what an earlier attempt left in
\* its part directories.
Begin ==
  /\ pc = "idle" /\ attempt < MaxAttempts
  /\ attempt' = attempt + 1
  /\ width' \in IF driver = "kaggle" THEN Widths ELSE {1}
  /\ \E g \in Gpus :
       /\ driver = "sequential" /\ attempt > 0 => g = gpus[attempt]
       /\ driver = "kaggle" => g >= 2
       /\ gpus' = [gpus EXCEPT ![attempt + 1] = g]
  /\ \/ EndAttempt /\ UNCHANGED part
     \/ /\ driver = "parallel" \/ OutIsClear
        /\ Go("pack", 1)
        /\ part' = IF driver = "kaggle" THEN [s \in Shards |-> IF s <= gpus'[attempt + 1] THEN NoDir ELSE part[s]] ELSE part
  /\ UNCHANGED <<driver, n, worker, dest, overlap>>

Launch ==
  /\ pc = "pack"
  /\ worker' = [worker EXCEPT ![attempt] = [s \in Shards |-> IF s \in Batch THEN "streams" ELSE @[s]]]
  /\ part' = IF driver = "sequential" THEN [part EXCEPT ![at] = NoDir] ELSE part
  /\ Go("wait", at)
  /\ UNCHANGED <<fixed, attempt, gpus, dest, overlap>>

Ended(s) == worker[attempt][s] \in {"ok", "failed"}

\* Mutant of Wait: nobody looks at the exit codes.
WaitOnly ==
  /\ pc = "wait" /\ \A s \in Awaited : Ended(s)
  /\ LET next == Max(Awaited) + 1 IN
     IF next > Parts(attempt)
       THEN IF Direct(attempt) THEN Succeed ELSE Go("merge", 1)
     ELSE Go(IF driver = "parallel" THEN "wait" ELSE "pack", next)
  /\ UNCHANGED <<fixed, attempt, gpus, work, dest, overlap>>

Wait ==
  /\ pc = "wait" /\ \A s \in Awaited : Ended(s)
  /\ IF \E s \in Awaited : worker[attempt][s] = "failed"
       THEN EndAttempt
       ELSE LET next == Max(Awaited) + 1 IN
            IF next > Parts(attempt)
              THEN IF Direct(attempt) THEN Succeed ELSE Go("merge", 1)
            ELSE Go(IF driver = "parallel" THEN "wait" ELSE "pack", next)
  /\ UNCHANGED <<fixed, attempt, gpus, work, dest, overlap>>

\* One part is not merged but moved; into out_dir when that exists.
Single == Parts(attempt) = 1 /\ driver # "kaggle"

Move ==
  /\ pc = "merge" /\ Single
  /\ IF out.there /\ nested THEN Raise   \* shutil.Error: destination exists
     ELSE /\ part' = [part EXCEPT ![1] = NoDir]
          /\ IF out.there THEN nested' = TRUE /\ UNCHANGED out
                          ELSE out' = part[1] /\ UNCHANGED nested
          /\ UNCHANGED worker
          /\ IF driver = "parallel" THEN Succeed
             ELSE IF out'.manifest = "none" THEN EndAttempt ELSE Go("flag", 1)
  /\ UNCHANGED <<fixed, attempt, gpus, overlap>>

Sources == 1 .. Parts(attempt)

MergeStart ==
  /\ pc = "merge" /\ ~Single
  /\ IF ~OutIsClear \/ \E s \in Sources : part[s].manifest # "whole"
       THEN Raise
       ELSE /\ read' = [s \in Shards |-> IF s \in Sources THEN part[s].listed ELSE NoFiles]
            /\ out' = [out EXCEPT !.there = TRUE]
            /\ UNCHANGED <<work, nested>>
            /\ pc' = "copy" /\ at' = 1 /\ UNCHANGED finished
  /\ UNCHANGED <<fixed, attempt, gpus, overlap>>

\* Mutant of Copied: a file that is already there is skipped unread.
CopiedUnread(source) ==
  [out EXCEPT !.stream = [t \in Tensors |-> IF @[t] = 0 THEN source.stream[t] ELSE @[t]]]

\* Two attempts may or may not produce the same bytes for a tensor.  Where
\* _files_equal finds them equal, the file may bear either stamp.
Copied(source) ==
  [out EXCEPT !.stream = [t \in Tensors |-> Max({@[t], source.stream[t]})]]

MayDiffer(source) == \E t \in Tensors : 0 \notin {source.stream[t], out.stream[t]} /\ source.stream[t] # out.stream[t]

Copy ==
  /\ pc = "copy" /\ at \in Sources
  /\ \/ MayDiffer(part[at]) /\ Raise   \* merge conflict
     \/ /\ out' = Copied(part[at])
        /\ Go("copy", at + 1)
        /\ UNCHANGED <<work, nested>>
  /\ UNCHANGED <<fixed, attempt, gpus, overlap>>

Duplicate == \E s1, s2 \in Sources, t \in Tensors : s1 # s2 /\ read[s1][t] # 0 /\ read[s2][t] # 0
Merged == [t \in Tensors |-> Max({read[s][t] : s \in Sources})]
\* Mutant of Leftover: a tensor that some part passes through stays passed.
AnyLeftover(t) == TRUE

Leftover(t) == Merged[t] = 0

List ==
  /\ pc = "copy" /\ at > Parts(attempt)
  /\ IF Duplicate THEN Raise
     ELSE /\ out' = [out EXCEPT !.passed =
                       {t \in UNION {part[s].passed : s \in Sources} : Leftover(t)}]
          /\ Go("commit", 1)
          /\ UNCHANGED <<work, nested>>
  /\ UNCHANGED <<fixed, attempt, gpus, overlap>>

\* write_text truncates manifest.json before it is whole again.
Truncate ==
  /\ pc \in {"commit", "flag"}
  /\ out' = [out EXCEPT !.manifest = "torn"]
  /\ Go(IF pc = "commit" THEN "publish" ELSE "reflag", at)
  /\ UNCHANGED <<fixed, attempt, gpus, work, nested, overlap>>

Publish ==
  /\ pc = "publish"
  /\ out' = [out EXCEPT !.manifest = "whole", !.listed = Merged]
  /\ IF driver = "kaggle" THEN Succeed ELSE Go("clean", 1)
  /\ UNCHANGED <<fixed, attempt, gpus, work, nested, overlap>>

Clean ==
  /\ pc = "clean"
  /\ part' = [s \in Shards |-> IF s \in Sources THEN NoDir ELSE part[s]]
  /\ IF driver = "parallel" THEN Succeed ELSE Go("flag", 1)
  /\ UNCHANGED <<fixed, attempt, gpus, worker, dest, overlap>>

Reflag ==
  /\ pc = "reflag"
  /\ out' = [out EXCEPT !.manifest = "whole"]
  /\ Succeed
  /\ UNCHANGED <<fixed, attempt, gpus, work, nested, overlap>>

(***************************************************************************)
(* The packs of the parts: pack_checkpoint, in the driver's own process    *)
(* (sequential) or in one of its own.  Streams and passthrough first, the  *)
(* manifest last, over whatever the directory holds.                       *)
(***************************************************************************)
Running(a, s) == worker[a][s] \in {"streams", "manifest"}
Becomes(a, s, state) == worker' = [worker EXCEPT ![a][s] = state]
Late(a) == overlap' = (overlap \/ a < attempt)
Elsewhere == UNCHANGED <<fixed, attempt, gpus, pc, at, nested, read, finished>>

\* The directory a pack writes to.
Target(a, s) == IF Direct(a) THEN out ELSE part[s]
Puts(a, s, d) ==
  IF Direct(a) THEN out' = d /\ UNCHANGED part
               ELSE part' = [part EXCEPT ![s] = d] /\ UNCHANGED out

\* Mutant of Streamed: the directory is not created.
StreamedNowhere(d, a, ts) ==
  [d EXCEPT !.stream = [t \in Tensors |-> IF t \in ts THEN a ELSE @[t]]]

Streamed(d, a, ts) ==
  [d EXCEPT !.there = TRUE, !.stream = [t \in Tensors |-> IF t \in ts THEN a ELSE @[t]]]

WriteStreams(a, s) ==
  /\ worker[a][s] = "streams"
  /\ Puts(a, s, [Streamed(Target(a, s), a, Chunk(a, s)) EXCEPT !.passed = Passed(a, s)])
  /\ Becomes(a, s, "manifest") /\ Late(a) /\ Elsewhere

Listing(a, s) == [t \in Tensors |-> IF t \in Chunk(a, s) THEN a ELSE 0]

WriteManifest(a, s) ==
  /\ worker[a][s] = "manifest"
  /\ Puts(a, s, [Target(a, s) EXCEPT !.there = TRUE, !.manifest = "whole", !.listed = Listing(a, s)])
  /\ Becomes(a, s, "ok") /\ Late(a) /\ Elsewhere

\* An exception or the death of the process, before the streams are complete
\* or inside the write of the manifest.
Failures == {p \in Attempts \X Shards : worker[p[1]][p[2]] = "failed"}

WorkerFails(a, s) ==
  /\ Running(a, s) /\ Cardinality(Failures) < MaxFailures
  /\ \/ /\ worker[a][s] = "streams"
        /\ \E ts \in SUBSET Chunk(a, s) : Puts(a, s, Streamed(Target(a, s), a, ts))
     \/ /\ worker[a][s] = "manifest"
        /\ Puts(a, s, [Target(a, s) EXCEPT !.there = TRUE, !.manifest = "torn"])
  /\ Becomes(a, s, "failed") /\ Late(a) /\ Elsewhere

Worker(a, s) ==
  WriteStreams(a, s) \/ WriteManifest(a, s) \/ WorkerFails(a, s)

\* The driver is killed; a pack in its own process may live on.
Crash ==
  /\ pc # "idle" /\ EndAttempt
  /\ \/ driver # "sequential" /\ UNCHANGED worker
     \/ worker' = [worker EXCEPT ![attempt] =
                     [s \in Shards |-> IF Running(attempt, s) THEN "failed" ELSE @[s]]]
  /\ UNCHANGED <<fixed, attempt, gpus, part, dest, overlap>>

Driver ==
  \/ Launch \/ Wait \/ Move \/ MergeStart \/ Copy \/ List
  \/ Truncate \/ Publish \/ Clean \/ Reflag

Workers == \E a \in Attempts, s \in Shards : Worker(a, s)

Next == Begin \/ Driver \/ Crash \/ Workers

Spec == Init /\ [][Next]_vars

\* A driver runs on until it ends; nothing forces a pack to end, or a crash, a
\* failure or another attempt.
FairSpec == Spec /\ WF_vars(Driver)
-----------------------------------------------------------------------------
Dir == [there : BOOLEAN, stream : [Tensors -> Stamps], manifest : {"none", "torn", "whole"},
        listed : [Tensors -> Stamps], passed : SUBSET Tensors]

Types ==
  /\ attempt \in 0 .. MaxAttempts /\ gpus \in [Attempts -> Gpus \cup {0}]
  /\ width \in Widths \cup {1}
  /\ pc \in {"idle", "pack", "wait", "merge", "copy", "commit", "publish", "clean", "flag", "reflag"}
  /\ pc # "idle" => at \in 1 .. Parts(attempt) + 1
  /\ worker \in [Attempts -> [Shards -> {"none", "streams", "manifest", "ok", "failed"}]]
  /\ part \in [Shards -> Dir] /\ out \in Dir /\ nested \in BOOLEAN
  /\ \A d \in {out} \cup {part[s] : s \in Shards} : Contents(d) => d.there
  /\ read \in [Shards -> [Tensors -> Stamps]]
  /\ finished \subseteq 1 .. attempt /\ overlap \in BOOLEAN

\* Only launched packs run, and none of an attempt still to come.
Launched ==
  \A a \in Attempts, s \in Shards : worker[a][s] # "none" => a <= attempt /\ s <= Parts(a)

\* The type invariant: no directory has files without existing, and a pack
\* that was ever started is that of a part of an attempt that was begun.
TypeOK == Types /\ Launched

\* The stream is that of a pack into the output directory itself which has
\* not ended well.
Overwritten(t) ==
  LET a == out.stream[t] IN a # 0 /\ Direct(a) /\ worker[a][1] # "ok"

\* Whatever stale streams the directories held, a published manifest
\* describes the bytes beside it: a tensor it lists has its stream, and the
\* stream of the pack that wrote the entry.  The exception is a checkpoint
\* packed again in place (orka_parallel with fewer than two devices): until
\* that pack ends, and for good when it fails, its streams lie under the
\* manifest of the earlier one.  No worker of an earlier attempt may still be
\* writing (hazards).
PublishedMatches ==
  out.manifest = "whole" /\ ~overlap =>
    \A t \in Tensors : out.listed[t] # 0 => out.stream[t] = out.listed[t] \/ Overwritten(t)

\* However the tensors were split, a published artifact has each of them
\* exactly once: quantized or passed through.
PublishedCovers ==
  out.manifest = "whole" /\ ~overlap => out.passed = {t \in Tensors : out.listed[t] = 0}

\* A driver that reports success has published a readable artifact, unless
\* its single part was moved into an existing directory.  It stays readable
\* until a later attempt packs in place and fails.
SuccessIsReadable ==
  finished # {} /\ ~overlap =>
    \/ out.manifest = "whole" \/ nested
    \/ \E a \in Attempts : Direct(a) /\ worker[a][1] = "failed" /\ \A f \in finished : f < a

\* Once all parts of an attempt are packed, no failure of the merge and no
\* crash loses them, until the next attempt begins: each tensor has the stream
\* of this attempt in its part or in the output directory, and the manifests
\* that describe them are whole in the parts or in the output directory.  The
\* exception is the sequential driver's rewrite of a manifest that was whole,
\* after it has removed the parts (hazards).
PackedSurvives ==
  attempt > 0 /\ (\A s \in 1 .. Parts(attempt) : worker[attempt][s] = "ok") /\ ~nested /\ ~overlap =>
    /\ \A t \in Tensors : \E d \in {out} \cup {part[s] : s \in Shards} : d.stream[t] = attempt
    /\ \/ out.manifest = "whole"
       \/ \A s \in 1 .. Parts(attempt) : part[s].manifest = "whole"
       \/ driver = "sequential" /\ out.listed # NoFiles

\* Once a driver has reported success, sequential and kaggle turn every later
\* attempt away without touching the output directory.  orka_parallel looks
\* only when it merges: with two devices or more it may move its single part
\* into the directory but writes no file of the artifact, and only a pack in
\* place, with fewer than two, writes those.
FinishedIsFinal ==
  [][finished # {} =>
       IF driver = "parallel"
         THEN out' = out \/ \E a \in Attempts : Direct(a) /\ worker'[a][1] # worker[a][1]
         ELSE UNCHANGED dest]_vars

\* If no pack runs for ever, every attempt ends: the driver waits for no pack
\* that was not started, and a failed part or merge leaves it nowhere.
AttemptsEnd ==
  (\A a \in Attempts, s \in Shards : []<>~Running(a, s)) => []<>(pc = "idle")
=============================================================================
