------------------------------ MODULE AutoQuant ------------------------------
(***************************************************************************)
(* The autonomous AutoQuant loop: run_autoquant of autoquant/runner.py,    *)
(* the tools of autoquant/tools.py, HarnessState of harness_schema.py and  *)
(* the spending of GratisClient in gratis.py.                              *)
(*                                                                         *)
(* A reasoner picks one registered tool per step.  Each tool answers with  *)
(* a result, record copies the result's fields into the state, and the     *)
(* acceptance gate reads the state.  Evidence (quality, verification) is   *)
(* tagged with the pack it was measured on; the code keeps no such tag.    *)
(*                                                                         *)
(* An operator commented "Mutant of X" is a plausible bug in the code of   *)
(* X; no specification uses it.                                            *)
(***************************************************************************)
EXTENDS Integers

CONSTANTS
  MaxSteps,  \* RunConfig.max_steps
  MaxUsd,    \* RunConfig.max_usd
  MaxCost    \* the dearest call of the reasoner

ASSUME HarnessAssumption ==
  MaxSteps \in Nat \ {0} /\ MaxUsd \in Nat \ {0} /\ MaxCost \in Nat

VARIABLES
  pc,            \* loop, ask, act; returned or raised when the run is over
  expired,       \* timeout_seconds have passed
  billed,        \* what the provider has charged
  client,        \* GratisClient.spent_usd
  inspectFits,   \* the roles that inspect finds accept the derived candidate
  artifact,      \* what is at artifact_path: kind, manifest, its last pack
  step, spent, candidate, roles, allocation, quality, verification,
  status, reason,   \* the fields of HarnessState
  report         \* autoquant-report.json

money    == <<billed, client, spent>>
evidence == <<candidate, roles, allocation, quality, verification>>
verdict  == <<status, reason, report>>
vars == <<pc, expired, money, inspectFits, artifact, step, evidence, verdict>>

None == [ok |-> FALSE, of |-> -1]   \* a field that is None: no evidence
Evidence(ok, of) == [ok |-> ok, of |-> of]

Packs == 0 .. MaxSteps   \* 0: packed by an earlier run
Reasons == {"none", "timeout_exceeded", "step_limit_exceeded",
            "unregistered_tool", "gratis_budget_exhausted", "gratis_unavailable"}
Absent == [kind |-> "absent", manifest |-> FALSE, pack |-> 0]

ReportOf(st, why, n, usd, q, v) ==
  [status |-> st, reason |-> why, steps |-> n, usd |-> usd, quality |-> q, verification |-> v]

Init ==
  /\ pc = "loop" /\ expired = FALSE
  /\ billed = 0 /\ client = 0 /\ spent = 0
  /\ inspectFits \in BOOLEAN
  /\ artifact \in {Absent, [kind |-> "file", manifest |-> FALSE, pack |-> 0]}
                  \cup [kind : {"dir"}, manifest : BOOLEAN, pack : {0}]
  /\ step = 0
  /\ candidate = FALSE /\ roles = "none" /\ allocation = FALSE
  /\ quality = None /\ verification = None
  /\ status = "running" /\ reason = "none"
  \* none, or the report of an earlier run in the same output_dir
  /\ \E st \in {"absent", "succeeded"} : report = ReportOf(st, "none", 0, 0, None, None)

(***************************************************************************)
(* The ends of a run.  _finish writes the report of the final state.       *)
(***************************************************************************)
Finish(st, why) ==
  /\ pc' = "returned" /\ status' = st /\ reason' = why
  /\ report' = ReportOf(st, why, step', spent', quality', verification')

Fail(why) == Finish("failed", why)

\* An exception that run_autoquant does not handle: no verdict, no report.
Escape ==
  /\ pc' = "raised"
  /\ UNCHANGED <<expired, spent, inspectFits, step, evidence, verdict>>

Deadline ==
  /\ pc \in {"loop", "ask", "act"} /\ ~expired
  /\ expired' = TRUE
  /\ UNCHANGED <<pc, money, inspectFits, artifact, step, evidence, verdict>>

\* Mutant of Loop: one step more than max_steps.
LoopPast ==
  /\ pc = "loop"
  /\ UNCHANGED <<expired, money, inspectFits, artifact, step, evidence>>
  /\ \/ step > MaxSteps /\ Fail("step_limit_exceeded")
     \/ step <= MaxSteps /\ expired /\ Fail("timeout_exceeded")
     \/ step <= MaxSteps /\ ~expired /\ pc' = "ask" /\ UNCHANGED verdict

Loop ==
  /\ pc = "loop"
  /\ UNCHANGED <<expired, money, inspectFits, artifact, step, evidence>>
  /\ \/ step >= MaxSteps /\ Fail("step_limit_exceeded")
     \/ step < MaxSteps /\ expired /\ Fail("timeout_exceeded")
     \/ step < MaxSteps /\ ~expired /\ pc' = "ask" /\ UNCHANGED verdict

(***************************************************************************)
(* GratisClient.next_action.  The call is charged before the ceiling is    *)
(* compared; state.spent_usd follows only when the call returns an action. *)
(***************************************************************************)
\* Mutant of Affordable: the ceiling is compared before the cost is known.
AffordableBefore(cost) == client <= MaxUsd

Affordable(cost) == client + cost <= MaxUsd

Ask ==
  /\ pc = "ask"
  /\ \E cost \in 0 .. MaxCost :
       /\ Affordable(cost)
       /\ billed' = billed + cost /\ client' = client + cost /\ spent' = client'
  /\ pc' = "act"
  /\ UNCHANGED <<expired, inspectFits, artifact, step, evidence, verdict>>

AskOverBudget ==
  /\ pc = "ask"
  /\ \E cost \in 0 .. MaxCost : ~Affordable(cost) /\ billed' = billed + cost
  /\ UNCHANGED <<expired, client, spent, inspectFits, artifact, step, evidence>>
  /\ Fail("gratis_budget_exhausted")

\* Not exactly one tool call in the answer: the cost is booked, then raised.
AskMalformed ==
  /\ pc = "ask"
  /\ \E cost \in 0 .. MaxCost :
       Affordable(cost) /\ billed' = billed + cost /\ client' = client + cost
  /\ UNCHANGED <<expired, spent, inspectFits, artifact, step, evidence>>
  /\ Fail("gratis_unavailable")

\* The request fails or its answer is no JSON; the provider may have charged.
AskUnavailable ==
  /\ pc = "ask"
  /\ \E cost \in 0 .. MaxCost : billed' = billed + cost
  /\ UNCHANGED <<expired, client, spent, inspectFits, artifact, step, evidence>>
  /\ Fail("gratis_unavailable")

\* An answer of another shape than the code reads: a body cut off or no
\* object, a cost that is no number (nothing is booked yet), a null message
\* or null tool_calls (the cost is booked).
AskRaises ==
  /\ pc = "ask"
  /\ \E cost \in 0 .. MaxCost :
       /\ billed' = billed + cost
       /\ \/ client' = client
          \/ Affordable(cost) /\ client' = client + cost
  /\ UNCHANGED artifact
  /\ Escape

(***************************************************************************)
(* record and the gate.  A tool passes the values it answers; a field it   *)
(* does not answer keeps its value.                                        *)
(***************************************************************************)
Gate(v, q) == v.ok /\ q.ok

Record ==
  /\ step' = step + 1
  /\ UNCHANGED <<expired, money, inspectFits>>
  /\ IF Gate(verification', quality')
       THEN Finish("succeeded", "none")
       ELSE pc' = "loop" /\ UNCHANGED verdict

\* Mutant of Complain: only a result counts as a step.
ComplainFreely ==
  /\ pc' = "loop"
  /\ UNCHANGED <<expired, money, inspectFits, artifact, step, evidence, verdict>>

\* A ValueError of the arguments or of a tool is answered to the reasoner.
Complain == UNCHANGED <<evidence, artifact>> /\ Record

Unregistered ==
  /\ pc = "act"
  /\ UNCHANGED <<expired, money, inspectFits, artifact, step, evidence>>
  /\ Fail("unregistered_tool")

BadArguments == pc = "act" /\ Complain

\* validate_configs(cfgs, state.roles)
Valid == roles = "inspect" => inspectFits

Inspect ==
  /\ pc = "act"
  /\ roles' = "inspect"
  /\ UNCHANGED <<candidate, allocation, quality, verification, artifact>>
  /\ Record

Derive ==
  /\ pc = "act" /\ Valid
  /\ candidate' = TRUE
  /\ roles' = IF roles = "none" THEN "derive" ELSE roles
  /\ UNCHANGED <<allocation, quality, verification, artifact>>
  /\ Record

Allocate ==
  /\ pc = "act" /\ candidate /\ Valid
  /\ allocation' = TRUE
  /\ UNCHANGED <<candidate, roles, quality, verification, artifact>>
  /\ Record

Refine ==
  /\ pc = "act" /\ candidate /\ Valid
  /\ UNCHANGED <<evidence, artifact>>   \* a candidate replaces the candidate
  /\ Record

Refused ==
  /\ pc = "act"
  /\ \/ ~Valid                  \* derive, allocate, refine
     \/ ~candidate              \* allocate, refine
     \/ ~allocation             \* pack
     \/ artifact.kind = "absent"   \* verify
  /\ Complain

\* pack_tool unlinks a file in the way, then packs in place: streams first,
\* the manifest last.
NextPack == artifact.pack + 1
Packed  == [kind |-> "dir", manifest |-> TRUE, pack |-> NextPack]
HalfPacked ==
  {[artifact EXCEPT !.kind = IF artifact.kind = "file" THEN "absent" ELSE artifact.kind]}
    \cup {[kind |-> "dir", manifest |-> artifact.manifest, pack |-> NextPack]}

Pack ==
  /\ pc = "act" /\ allocation
  /\ artifact' = Packed
  /\ UNCHANGED evidence
  /\ Record

PackComplains ==
  /\ pc = "act" /\ allocation
  /\ artifact' \in HalfPacked
  /\ UNCHANGED evidence
  /\ Record

\* Any other exception of a tool, or the death of the process.
ToolRaises ==
  /\ pc = "act"
  /\ \/ UNCHANGED artifact
     \/ allocation /\ artifact' \in HalfPacked
  /\ UNCHANGED <<billed, client>>
  /\ Escape

\* pulse_fn(state) measures what is at artifact_path.  Without pulse_fn the
\* tool answers kl = 0 and objective_met is TRUE.
PulseCheck ==
  /\ pc = "act"
  /\ \E met \in BOOLEAN : quality' = Evidence(met, artifact.pack)
  /\ UNCHANGED <<candidate, roles, allocation, verification, artifact>>
  /\ Record

\* Mutant of MayVerify: a directory without a manifest has no problems.
MayVerifyEmpty(ok) == ok \in BOOLEAN

\* verify_artifact answers ok = FALSE when there is no manifest.
MayVerify(ok) == ok => artifact.manifest

Verify ==
  /\ pc = "act" /\ artifact.kind # "absent"
  /\ \E ok \in BOOLEAN : MayVerify(ok) /\ verification' = Evidence(ok, artifact.pack)
  /\ UNCHANGED <<candidate, roles, allocation, quality, artifact>>
  /\ Record

\* What the reasoner's choice leads to: one call of execute_validated.
Tool ==
  \/ Unregistered \/ BadArguments \/ Refused \/ ToolRaises
  \/ Inspect \/ Derive \/ Allocate \/ Refine
  \/ Pack \/ PackComplains \/ PulseCheck \/ Verify

Reasoner == Ask \/ AskOverBudget \/ AskMalformed \/ AskUnavailable \/ AskRaises

Next == Deadline \/ Loop \/ Reasoner \/ Tool

Spec == Init /\ [][Next]_vars

\* The reasoner answers or its call times out (urlopen, 60 s), and a tool
\* returns or raises.  Nothing forces the deadline to pass.
FairSpec == Spec /\ WF_vars(Loop) /\ WF_vars(Reasoner) /\ WF_vars(Tool)
-----------------------------------------------------------------------------
Over == pc \in {"returned", "raised"}

\* The type invariant of the harness: no run takes more than max_steps
\* steps, and every verdict comes with its reason.
TypeOK ==
  /\ pc \in {"loop", "ask", "act", "returned", "raised"}
  /\ expired \in BOOLEAN /\ inspectFits \in BOOLEAN
  /\ {billed, client, spent} \subseteq 0 .. MaxUsd + MaxCost
  /\ artifact \in [kind : {"absent", "file", "dir"}, manifest : BOOLEAN, pack : Packs]
  /\ step \in 0 .. MaxSteps
  /\ candidate \in BOOLEAN /\ allocation \in BOOLEAN
  /\ roles \in {"none", "inspect", "derive"}
  /\ {quality, verification} \subseteq {None} \cup [ok : BOOLEAN, of : Packs]
  /\ status \in {"running", "succeeded", "failed"} /\ reason \in Reasons
  /\ status = "failed" <=> reason # "none"

\* The ceiling --max-usd over the three counters of a run: what is booked
\* never exceeds it, the provider's bill exceeds it by the last call at most,
\* that call ends the run, by a failure or by an exception of the client, and
\* the state's spent_usd misses no other call.
SpendBounded ==
  /\ spent <= client /\ client <= billed
  /\ client <= MaxUsd
  /\ billed - spent <= MaxCost
  /\ billed > spent => (pc = "returned" /\ status = "failed") \/ pc = "raised"

\* A run that succeeded leaves a directory with a manifest at artifact_path,
\* whatever was there before and however many packs failed half-way.
SuccessHasArtifact == status = "succeeded" => artifact.kind = "dir" /\ artifact.manifest

\* "Unbounded agent loops" is a non-goal: every run ends.
Terminates == <>Over

\* The design's promise of a verified artifact and of a measured objective:
\* what an accepted run emits is what it verified and measured.  The code
\* keeps the evidence of earlier packs (findings).
AcceptsWhatItEmits ==
  status = "succeeded" => verification.of = artifact.pack /\ quality.of = artifact.pack
=============================================================================
