---------------------------- MODULE BitAllocation ----------------------------
(***************************************************************************)
(* The search of quant/allocate.py for one spec per tensor: the heap of    *)
(* _greedy_fill, one pop per step, run from the cheapest specs and again   *)
(* from a Lagrangian choice, and the better of the two.                    *)
(*                                                                         *)
(* An operator commented "Mutant of X" is a plausible bug in the code of   *)
(* X; no specification uses it.                                            *)
(***************************************************************************)
EXTENDS Integers, Sequences, FiniteSetsExt, Arithmetic

CONSTANTS
  NTensors,   \* len(rows)
  Specs,      \* spec, by rising index rate -> [rate, tax]: bits, codebook bits
  Numels,     \* what the size of a tensor may be, in groups
  Curves,     \* what the distortions of a tensor may be
  Budgets,    \* what budget_bits may be
  Lambdas     \* the multipliers the binary search may end with

ASSUME AllocationAssumption ==
  /\ NTensors \in Nat \ {0}
  /\ Specs \in Seq([rate : Nat, tax : Nat]) /\ Specs # <<>>
  /\ \A s, u \in DOMAIN Specs : s <= u => Specs[s].rate <= Specs[u].rate
  /\ Curves \subseteq [DOMAIN Specs -> Int]
  /\ Numels \subseteq Nat \ {0} /\ Budgets \subseteq Nat /\ Lambdas \subseteq Nat

VARIABLES
  numel, distortion, budget,   \* fixed: the arguments
  search,         \* greedy, lagrange, fill, compare, chosen
  choice, spent,  \* of _greedy_fill: the specs and the bits they cost
  heap,           \* of _greedy_fill: the upgrades to try
  greedy          \* cand_greedy, once it is known

allocVars == <<numel, distortion, budget, search, choice, spent, heap, greedy>>
allocArgs == <<numel, distortion, budget>>

AllRows    == 1 .. NTensors
SpecIds  == DOMAIN Specs
Cheapest == [r \in AllRows |-> 1]

BitsOf(r, s) == numel[r] * Specs[s].rate + Specs[s].tax
BitsIn(c) == Total([r \in AllRows |-> BitsOf(r, c[r])], AllRows)
TotalDistortion(c) == Total([r \in AllRows |-> distortion[r][c[r]]], AllRows)

\* step: the upgrade of a tensor to its next spec, when that gains something
\* and costs something.
Extra(r, s) == BitsOf(r, s + 1) - BitsOf(r, s)
Gain(r, s)  == distortion[r][s] - distortion[r][s + 1]
Upgrade(r, s) ==
  IF s + 1 \in SpecIds /\ Gain(r, s) > 0 /\ Extra(r, s) > 0
    THEN {[row |-> r, to |-> s + 1, gain |-> Gain(r, s), extra |-> Extra(r, s)]}
    ELSE {}

Upgrades(c) == UNION {Upgrade(r, c[r]) : r \in AllRows}

\* The order of the heap: gain per bit, then the tensor.
Precedes(u, v) ==
  \/ u.gain * v.extra > v.gain * u.extra
  \/ u.gain * v.extra = v.gain * u.extra /\ u.row <= v.row

Top == CHOOSE u \in heap : \A v \in heap : Precedes(u, v)

StartFill(c) == choice' = c /\ spent' = BitsIn(c) /\ heap' = Upgrades(c)

AllocInit ==
  /\ numel \in [AllRows -> Numels] /\ distortion \in [AllRows -> Curves] /\ budget \in Budgets
  /\ search = "greedy"
  /\ choice = Cheapest /\ spent = BitsIn(Cheapest) /\ heap = Upgrades(Cheapest)
  /\ greedy = Cheapest

Filling == search \in {"greedy", "fill"} /\ heap # {}

\* Mutant of Fits: the upgrade is compared with the whole budget.
FitsAlone(u) == u.extra <= budget

Fits(u) == spent + u.extra <= budget

Take ==
  /\ Filling /\ Fits(Top)
  /\ choice' = [choice EXCEPT ![Top.row] = Top.to]
  /\ spent' = spent + Top.extra
  /\ heap' = (heap \ {Top}) \cup Upgrade(Top.row, Top.to)
  /\ UNCHANGED <<allocArgs, search, greedy>>

Skip ==
  /\ Filling /\ ~Fits(Top)
  /\ heap' = heap \ {Top}
  /\ UNCHANGED <<allocArgs, search, choice, spent, greedy>>

GreedyDone ==
  /\ search = "greedy" /\ heap = {}
  /\ greedy' = choice /\ search' = "lagrange"
  /\ UNCHANGED <<allocArgs, choice, spent, heap>>

\* _lagrangian_choice: the first spec of least distortion + lam * bits.
Penalised(r, s, lam) == distortion[r][s] + lam * BitsOf(r, s)
LagrangianChoice(lam) ==
  [r \in AllRows |->
     Min({s \in SpecIds : \A u \in SpecIds : Penalised(r, s, lam) <= Penalised(r, u, lam)})]

\* lam = 1e25: the distortions drown in the bits.
FewestBits == [r \in AllRows |-> Min({s \in SpecIds : \A u \in SpecIds : BitsOf(r, s) <= BitsOf(r, u)})]

\* The binary search keeps the choice of the last multiplier that fits.
Feasible == {LagrangianChoice(lam) : lam \in {l \in Lambdas : BitsIn(LagrangianChoice(l)) <= budget}}

Lagrange ==
  /\ search = "lagrange"
  /\ \E c \in IF Feasible = {} THEN {FewestBits} ELSE Feasible : StartFill(c)
  /\ search' = "fill"
  /\ UNCHANGED <<allocArgs, greedy>>

FillDone ==
  /\ search = "fill" /\ heap = {}
  /\ search' = "compare"
  /\ UNCHANGED <<allocArgs, choice, spent, heap, greedy>>

Compare ==
  /\ search = "compare"
  /\ choice' = IF TotalDistortion(greedy) <= TotalDistortion(choice) THEN greedy ELSE choice
  /\ spent' = BitsIn(choice')
  /\ search' = "chosen"
  /\ UNCHANGED <<allocArgs, heap, greedy>>

AllocNext == Take \/ Skip \/ GreedyDone \/ Lagrange \/ FillDone \/ Compare

AllocSpec == AllocInit /\ [][AllocNext]_allocVars
-----------------------------------------------------------------------------
AllocTypeOK ==
  /\ choice \in [AllRows -> SpecIds] /\ greedy \in [AllRows -> SpecIds]
  /\ \A u \in heap : u.row \in AllRows /\ u.to = choice[u.row] + 1
  /\ search \in {"greedy", "lagrange", "fill", "compare", "chosen"}

\* The running total of _greedy_fill is that of its choice; the allocation
\* exceeds the budget only when the specs of the lowest index rate do, which
\* with codebook taxes need not be the fewest bits; and it is maximal: no
\* tensor has an upgrade left that gains something and fits.  "Provably never
\* worse than greedy", and so never worse than those specs.
AllocationSpends ==
  /\ spent = BitsIn(choice)
  /\ search = "chosen" =>
       /\ spent <= budget \/ BitsIn(Cheapest) > budget
       /\ BitsIn(FewestBits) > budget => choice \in {Cheapest, FewestBits}
       /\ \A u \in Upgrades(choice) : ~Fits(u)
       /\ TotalDistortion(choice) <= TotalDistortion(Cheapest)
=============================================================================
