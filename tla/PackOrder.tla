----------------------------- MODULE PackOrder ------------------------------
(***************************************************************************)
(* What pack_checkpoint promises its caller, without threads, queues or    *)
(* files: the selected tensors enter in checkpoint order, at most Window   *)
(* of them are in flight, they leave in the order they entered, and the    *)
(* pack ends by publishing all of them or by raising.                      *)
(***************************************************************************)
EXTENDS Naturals, Sequences

CONSTANTS
  Input,    \* the selected tensors, in checkpoint order
  Window,   \* most tensors in flight
  MayFail   \* something in the environment may fail

VARIABLES
  entered,  \* tensors that have entered
  left,     \* tensors that have left, kept or spoilt
  kept,     \* the tensors that left with a manifest entry
  failed,   \* something has failed
  outcome   \* running, published, raised

ovars == <<entered, left, kept, failed, outcome>>

OInit ==
  entered = 0 /\ left = 0 /\ kept = <<>> /\ failed = FALSE /\ outcome = "running"

Enter ==
  /\ entered < Len(Input) /\ entered - left < Window
  /\ entered' = entered + 1
  /\ UNCHANGED <<left, kept, failed, outcome>>

Leave ==
  /\ left < entered /\ outcome # "published"
  /\ left' = left + 1
  /\ kept' = Append(kept, Input[left + 1])
  /\ UNCHANGED <<entered, failed, outcome>>

Spoil ==
  /\ MayFail
  /\ left < entered /\ outcome # "published"
  /\ left' = left + 1
  /\ failed' = TRUE
  /\ UNCHANGED <<entered, kept, outcome>>

Fail ==
  /\ MayFail /\ outcome # "published"
  /\ failed' = TRUE
  /\ UNCHANGED <<entered, left, kept, outcome>>

(* All of the input or nothing: a pack in which anything failed does not    *)
(* publish.                                                                 *)
Publish ==
  /\ outcome = "running" /\ ~failed
  /\ left = Len(Input)
  /\ outcome' = "published"
  /\ UNCHANGED <<entered, left, kept, failed>>

(* Raising needs a cause; an empty selection may be one. *)
Raise ==
  /\ outcome = "running"
  /\ failed \/ MayFail \/ Input = <<>>
  /\ failed' = TRUE /\ outcome' = "raised"
  /\ UNCHANGED <<entered, left, kept>>

ONext == Enter \/ Leave \/ Spoil \/ Fail \/ Publish \/ Raise

OSafe == OInit /\ [][ONext]_ovars

(* A running pack keeps moving. *)
OFair == WF_ovars(outcome = "running" /\ ONext)

OSpec == OSafe /\ OFair
=============================================================================
