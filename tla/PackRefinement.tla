--------------------------- MODULE PackRefinement ---------------------------
(* The four threads of PackPipeline implement the promise of PackOrder.      *)
EXTENDS PackPipeline

(* The selected tensors in checkpoint order. *)
InputSeq ==
  CHOOSE s \in [1..Cardinality(Selected) -> Selected] :
    \A j, k \in DOMAIN s : j < k => s[j] < s[k]

(* The prefetch queue, a candidate on the GPU thread, the finalize queue    *)
(* and a candidate in the finalizer's hands.                                *)
InFlight == PrefetchDepth + FinalizeDepth + 2

LeftCount ==
  IF fdone > 0 /\ handed[fdone] = Stop THEN fdone - 1 ELSE fdone

KeptNames == [k \in DOMAIN manifest |-> manifest[k].name]

HasFailed == exc \/ writeErrors \/ fErrors \/ mpc = "raised"

Outcome ==
  IF Committed THEN "published"
  ELSE IF mpc = "raised" THEN "raised" ELSE "running"

Promise == INSTANCE PackOrder WITH
  Input   <- InputSeq,
  Window  <- InFlight,
  MayFail <- Failures # {},
  entered <- Len(prefetched),
  left    <- LeftCount,
  kept    <- KeptNames,
  failed  <- HasFailed,
  outcome <- Outcome

(* Every run of the threads is a run of PackOrder: tensors leave in the     *)
(* order they entered, the pack publishes all or nothing, raises only with  *)
(* a cause, and ends.                                                       *)
KeepsPromise == Promise!OSpec
=============================================================================
