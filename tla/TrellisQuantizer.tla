-------------------------- MODULE TrellisQuantizer --------------------------
(***************************************************************************)
(* tcq_encode of quant/trellis.py: the Viterbi search for one row of       *)
(* weights, one sample per step forward and one per step of the traceback. *)
(* Weights and levels are integers, on a scale where both are exact; the   *)
(* rows of a tensor do not touch each other.                               *)
(*                                                                         *)
(* An operator commented "Mutant of X" is a plausible bug in the code of   *)
(* X; no specification uses it.                                            *)
(***************************************************************************)
EXTENDS Integers, Sequences, FiniteSetsExt, Arithmetic

CONSTANTS
  Rates,     \* what R may be
  Weights,   \* what a weight may be
  Rows       \* what the length of a row may be

INF == 10000000

\* _levels: 2^(r + 1) levels around zero, one step apart; two units a step.
Levels(r) == Shift[r + 1]
LevelAt(r, k) == 2 * k - (Levels(r) - 1)
Square(d) == d * d

ASSUME TrellisAssumption ==
  /\ Rates \subseteq Nat \ {0} /\ Weights \subseteq Int /\ Rows \subseteq Nat \ {0}
  \* no row is so long, or so far from the levels, that it costs _INF
  /\ \A r \in Rates, w \in Weights, l \in Rows, k \in 0 .. 3 : l * Square(w - LevelAt(r, k)) < INF

VARIABLES
  R, W,         \* fixed: the arguments
  tpc,          \* forward, trace or coded
  t,            \* the sample
  pc,           \* state -> the cost of the best path to it
  back,         \* sample -> state -> the state and subset it was reached by
  st,           \* the state of the traceback
  path          \* the level indices chosen, from sample t + 1 on

trellisVars == <<R, W, tpc, t, pc, back, st, path>>

States == 0 .. 3
\* _SUBSET and _NEXT: state -> branch -> subset, next state
SUBSETS == << <<0, 2>>, <<1, 3>>, <<2, 0>>, <<3, 1>> >>
NEXTS   == << <<0, 1>>, <<2, 3>>, <<1, 0>>, <<3, 2>> >>
SubsetOf(s, b) == SUBSETS[s + 1][b + 1]
NextOf(s, b)   == NEXTS[s + 1][b + 1]

LevelIds == 0 .. Levels(R) - 1
Dist(w, k) == Square(w - LevelAt(R, k))

\* The first of the nearest levels of a subset, and its squared distance.
Members(u) == {k \in LevelIds : k % 4 = u}
Cost(u, w) == Min({Dist(w, k) : k \in Members(u)})
Nearest(u, w) == Min({k \in Members(u) : Dist(w, k) = Cost(u, w)})

TrellisInit ==
  /\ R \in Rates /\ W \in UNION {[1 .. k -> Weights] : k \in Rows}
  /\ tpc = "forward" /\ t = 1
  /\ pc = [s \in States |-> IF s = 0 THEN 0 ELSE INF]
  /\ back = <<>>
  /\ st = 0 /\ path = <<>>

\* The branches into a state in the order of the loops: by state, then by
\* branch.
Branches(ns) == {sb \in States \X {0, 1} : NextOf(sb[1], sb[2]) = ns}
Via(sb, w) == pc[sb[1]] + Cost(SubsetOf(sb[1], sb[2]), w)
Earlier(a, b) == 2 * a[1] + a[2] <= 2 * b[1] + b[2]

\* A strict "<": the first of the cheapest branches wins.
Best(ns, w) ==
  CHOOSE a \in Branches(ns) :
    \A b \in Branches(ns) : Via(a, w) < Via(b, w) \/ (Via(a, w) = Via(b, w) /\ Earlier(a, b))

Forward ==
  /\ tpc = "forward" /\ t <= Len(W)
  /\ LET best == [ns \in States |-> Best(ns, W[t])] IN
     /\ pc' = [ns \in States |-> Min({INF, Via(best[ns], W[t])})]
     /\ back' = Append(back, [ns \in States |->
          \* nothing is better than INF: the zeros of the allocation stay
          IF Via(best[ns], W[t]) < INF
            THEN [from |-> best[ns][1], in |-> SubsetOf(best[ns][1], best[ns][2])]
            ELSE [from |-> 0, in |-> 0]])
  /\ t' = t + 1
  /\ UNCHANGED <<R, W, tpc, st, path>>

\* Mutant of LastState: the traceback starts where the search started.
LastStateZero == 0

\* pc.argmin(0)
LastState == Min({s \in States : \A u \in States : pc[s] <= pc[u]})

StartTrace ==
  /\ tpc = "forward" /\ t > Len(W)
  /\ tpc' = "trace" /\ t' = Len(W)
  /\ st' = LastState
  /\ UNCHANGED <<R, W, pc, back, path>>

Trace ==
  /\ tpc = "trace" /\ t > 0
  /\ path' = <<Nearest(back[t][st].in, W[t])>> \o path
  /\ st' = back[t][st].from
  /\ t' = t - 1
  /\ UNCHANGED <<R, W, tpc, pc, back>>

Coded ==
  /\ tpc = "trace" /\ t = 0
  /\ tpc' = "coded"
  /\ UNCHANGED <<R, W, t, pc, back, st, path>>

TrellisNext == Forward \/ StartTrace \/ Trace \/ Coded

TrellisSpec == TrellisInit /\ [][TrellisNext]_trellisVars
-----------------------------------------------------------------------------
TrellisTypeOK ==
  /\ t \in 0 .. Len(W) + 1 /\ st \in States
  /\ Len(back) <= Len(W) /\ Len(path) <= Len(W)
  /\ \A s \in States : pc[s] \in 0 .. INF
  /\ \A k \in DOMAIN path : path[k] \in LevelIds

(***************************************************************************)
(* The reference: the sequences of branches from state 0, and the cheapest *)
(* levels on each.                                                         *)
(***************************************************************************)
Routes == [DOMAIN W -> {0, 1}]

StatesOn(bs) ==
  LET s[k \in 0 .. Len(W)] == IF k = 0 THEN 0 ELSE NextOf(s[k - 1], bs[k]) IN s

SubsetsOn(bs) == LET s == StatesOn(bs) IN [k \in DOMAIN W |-> SubsetOf(s[k - 1], bs[k])]

RouteCost(bs) ==
  LET us == SubsetsOn(bs) IN Total([k \in DOMAIN W |-> Cost(us[k], W[k])], DOMAIN W)

PathCost == Total([k \in DOMAIN W |-> Dist(W[k], path[k])], DOMAIN W)

\* "Viterbi-optimal trellis encode": the level indices lie on one route of
\* the trellis, so that R bits a sample can code them, and no route has
\* levels that are nearer to the row; the traceback ends where the search
\* started.
TrellisOptimal ==
  tpc = "coded" =>
    /\ st = 0
    /\ \E bs \in Routes : \A k \in DOMAIN W : path[k] % 4 = SubsetsOn(bs)[k]
    /\ PathCost = Min({RouteCost(bs) : bs \in Routes})
=============================================================================
