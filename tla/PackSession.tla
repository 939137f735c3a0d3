----------------------------- MODULE PackSession -----------------------------
(***************************************************************************)
(* Several packs in one process: what outlives a pack is the background    *)
(* writer _BG_WRITER with its queue and its errors (_runtime/io.py) and    *)
(* the RAM flag with its monitor (_runtime/limits.py).  PackPipeline       *)
(* models the threads of one pack; here a pack submits its writes, passes  *)
(* checkpoints and waits for the writer.  A cap is set by cmd_pack around  *)
(* its pack; the UI's packs have none.  Two packs may run at once, as      *)
(* the UI's queue lets them after a restart (JobQueue, OneGpuJob).         *)
(*                                                                         *)
(* An operator commented "Mutant of X" is a plausible bug in the code of   *)
(* X; no specification uses it.                                            *)
(***************************************************************************)
EXTENDS Integers, Sequences

CONSTANTS
  PackIds,       \* the packs of the session
  Capped,        \* those started with max_ram_gb
  PackWrites     \* writes a pack submits

ASSUME SessionAssumption == Capped \subseteq PackIds /\ PackWrites \in Nat \ {0}

VARIABLES
  pack,        \* pack -> waiting, running, joining, joined, done or raised
  submitted,   \* pack -> writes submitted
  landed,      \* pack -> writes that succeeded
  tasks,       \* queue: the pack of each unfinished task; the first is at work
  errors,      \* BackgroundWriter.errors: the packs of the failed writes
  stopped,     \* _MONITOR_STOP_EVENT
  monitors,    \* the packs whose monitor threads are alive
  exceeded,    \* _RAM_EXCEEDED_MSG: the packs whose monitor set it, last only
  overran,     \* some monitor has seen an overage
  broke        \* packs that raised an exception of their own

sessionVars == <<pack, submitted, landed, tasks, errors, stopped, monitors, exceeded, overran, broke>>
writer == <<landed, tasks, errors>>
ram    == <<stopped, monitors, exceeded, overran>>

SessionInit ==
  /\ pack = [p \in PackIds |-> "waiting"]
  /\ submitted = [p \in PackIds |-> 0] /\ landed = [p \in PackIds |-> 0]
  /\ tasks = <<>> /\ errors = {}
  /\ stopped = FALSE /\ monitors = {} /\ exceeded = {} /\ overran = FALSE
  /\ broke = {}

Moves(p, to) == pack' = [pack EXCEPT ![p] = to]

\* _apply_system_ram_cap, for a pack that has a cap
BeginPack(p) ==
  /\ pack[p] = "waiting" /\ Moves(p, "running")
  /\ IF p \in Capped
       THEN stopped' = FALSE /\ monitors' = monitors \cup {p}
       ELSE UNCHANGED <<stopped, monitors>>
  /\ UNCHANGED <<submitted, writer, exceeded, overran, broke>>

\* Over: the pack's caller goes on, through _stop_ram_monitor if there is a cap.
Ends(p, how) ==
  /\ Moves(p, how)
  /\ stopped' = (stopped \/ p \in Capped)

SubmitWrite(p) ==
  /\ pack[p] = "running" /\ submitted[p] < PackWrites
  /\ submitted' = [submitted EXCEPT ![p] = @ + 1]
  /\ tasks' = Append(tasks, p)
  /\ UNCHANGED <<pack, landed, errors, ram, broke>>

WriterDoes ==
  /\ tasks # <<>>
  /\ \/ landed' = [landed EXCEPT ![Head(tasks)] = @ + 1] /\ UNCHANGED errors
     \/ errors' = errors \cup {Head(tasks)} /\ UNCHANGED landed
  /\ tasks' = Tail(tasks)
  /\ UNCHANGED <<pack, submitted, ram, broke>>

\* _check_ram_cap: whichever pack comes first takes the flag and raises.
Checkpoint(p) ==
  /\ pack[p] = "running" /\ exceeded # {}
  /\ exceeded' = {}
  /\ Ends(p, "raised")
  /\ UNCHANGED <<submitted, writer, monitors, overran, broke>>

Break(p) ==
  /\ pack[p] = "running"
  /\ broke' = broke \cup {p}
  /\ Ends(p, "raised")
  /\ UNCHANGED <<submitted, writer, monitors, exceeded, overran>>

\* wait: queue.join(), and then a look at the errors.
StartJoin(p) ==
  /\ pack[p] = "running" /\ submitted[p] = PackWrites
  /\ Moves(p, "joining")
  /\ UNCHANGED <<submitted, writer, ram, broke>>

Join(p) ==
  /\ pack[p] = "joining" /\ tasks = <<>>
  /\ Moves(p, "joined")
  /\ UNCHANGED <<submitted, writer, ram, broke>>

\* Mutant of Judge: the errors are reported once.
JudgeOnce(p) ==
  /\ pack[p] = "joined"
  /\ Ends(p, IF errors = {} THEN "done" ELSE "raised")
  /\ errors' = {}
  /\ UNCHANGED <<submitted, landed, tasks, monitors, exceeded, overran, broke>>

Judge(p) ==
  /\ pack[p] = "joined"
  /\ Ends(p, IF errors = {} THEN "done" ELSE "raised")
  /\ UNCHANGED <<submitted, writer, monitors, exceeded, overran, broke>>

\* _monitor_ram_task: the poll may find the event set or an overage.
Poll(p) ==
  /\ p \in monitors
  /\ \/ stopped /\ monitors' = monitors \ {p} /\ UNCHANGED <<exceeded, overran>>
     \/ exceeded' = {p} /\ overran' = TRUE /\ UNCHANGED monitors
  /\ UNCHANGED <<pack, submitted, writer, stopped, broke>>

SessionStep(p) ==
  \/ BeginPack(p) \/ SubmitWrite(p) \/ Checkpoint(p) \/ Break(p)
  \/ StartJoin(p) \/ Join(p) \/ Judge(p) \/ Poll(p)

SessionNext == WriterDoes \/ \E p \in PackIds : SessionStep(p)

SessionSpec == SessionInit /\ [][SessionNext]_sessionVars
-----------------------------------------------------------------------------
SessionTypeOK ==
  /\ pack \in [PackIds -> {"waiting", "running", "joining", "joined", "done", "raised"}]
  /\ \A p \in PackIds : landed[p] <= submitted[p] /\ submitted[p] <= PackWrites
  /\ errors \subseteq PackIds /\ monitors \subseteq Capped /\ exceeded \subseteq Capped

\* However many packs share the writer, and whatever an earlier one left in
\* its queue, its errors or the RAM flag: a pack returns a manifest only
\* when every write of its own is on disk, and one that broke nothing itself
\* raises only when a write or a RAM cap of some pack did fail.
SessionHonest ==
  \A p \in PackIds :
    /\ pack[p] = "done" => landed[p] = PackWrites
    /\ pack[p] = "raised" => p \in broke \/ errors # {} \/ overran
=============================================================================
