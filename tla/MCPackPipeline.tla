--------------------------- MODULE MCPackPipeline ---------------------------
(* Instances of PackPipeline for TLC. *)
EXTENDS PackRefinement

(* Budgeted: tensor 1 is refined by EM-AQ and has its scales refitted,      *)
(* tensor 3 is larger than the whole budget and compensated, tensor 4 has   *)
(* one stage.                                                               *)
BudgetedKind   == <<"candidate", "dense", "candidate", "candidate">>
BudgetedBytes  == <<1, 1, 3, 2>>
BudgetedStages == <<2, 1, 2, 1>>

(* Failures, in the first of two partitions: tensor 3 belongs to the other  *)
(* one, 2 and 4 stay dense or are dropped, 1 is refined but for a saturated *)
(* stage, 5 is the second tensor packed, and max_tensors ends the scan at   *)
(* 7, after one more dense tensor.                                          *)
FailuresKind   == <<"candidate", "skipped", "candidate", "unlisted",
                    "candidate", "dense", "skipped">>
FailuresBytes  == [t \in 1..7 |-> 1]
FailuresStages == <<2, 1, 1, 1, 1, 1, 1>>
FailuresSaturated == {<<1, 1>>}

(* Order: one candidate more than the window of PackOrder. *)
OrderKind   == [t \in 1..5 |-> "candidate"]
OrderBytes  == [t \in 1..5 |-> 1]
OrderStages == [t \in 1..5 |-> 1]

(* Two tensors that do not fit the budget together. *)
TightKind   == [t \in 1..2 |-> "candidate"]
TightBytes  == [t \in 1..2 |-> 2]
TightStages == [t \in 1..2 |-> 1]
=============================================================================
