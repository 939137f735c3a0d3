----------------------------- MODULE Arithmetic -----------------------------
(***************************************************************************)
(* The sum of a function over a finite set and the shift of one to the     *)
(* left, written once for the frequency tables of RansCoder, the levels    *)
(* and costs of TrellisQuantizer and the bits of BitAllocation.            *)
(***************************************************************************)
EXTENDS Integers, FiniteSetsExt

\* The sum of the values f has on S.
Total(f, S) == MapThenSumSet(LAMBDA s : f[s], S)

\* 1 << k
Shift[k \in Nat] == IF k = 0 THEN 1 ELSE 2 * Shift[k - 1]
=============================================================================
