---------------------------- MODULE SearchProofs ----------------------------
(***************************************************************************)
(* The two searches of quant/, for every value of their arguments.  The    *)
(* first half is about BitAllocation: AllocationSpends holds for every     *)
(* table of specs, number of tensors, size, curve and budget.  The second  *)
(* half is about TrellisQuantizer: tcq_encode finds the cheapest route of  *)
(* the trellis, for every row of weights, every rate and every length.     *)
(***************************************************************************)
EXTENDS BitAllocation, TrellisQuantizer, ArithmeticTheorems, SequenceTheorems

\* The specs are numbered, and the cheapest is one of them.
LEMMA SpecFacts ==
  /\ NTensors \in Nat \ {0} /\ IsFiniteSet(AllRows) /\ IsFiniteSet(SpecIds) /\ 1 \in SpecIds
  /\ SpecIds \subseteq Nat \ {0}
  /\ \A s \in SpecIds : Specs[s].rate \in Nat /\ Specs[s].tax \in Nat
  /\ Cheapest \in [AllRows -> SpecIds]
<1>1. NTensors \in Nat \ {0} /\ Specs \in Seq([rate : Nat, tax : Nat]) /\ Specs # <<>>
  BY AllocationAssumption
<1>2. Len(Specs) \in Nat /\ SpecIds = 1 .. Len(Specs) /\ Len(Specs) # 0
  BY <1>1 DEF SpecIds
<1>3. IsFiniteSet(AllRows) /\ IsFiniteSet(SpecIds)
  BY <1>1, <1>2, FS_Interval DEF AllRows
<1>4. \A s \in SpecIds : Specs[s] \in [rate : Nat, tax : Nat]
  <2> DEFINE Rec == [rate : Nat, tax : Nat]
  <2>0. Specs \in Seq(Rec)
    BY <1>1
  <2>1. \A s \in 1 .. Len(Specs) : Specs[s] \in Rec
    <3> HIDE DEF Rec
    <3> QED
      BY <2>0
  <2> QED
    BY <1>2, <2>1
<1> QED
  BY <1>1, <1>2, <1>3, <1>4 DEF Cheapest

ArgsOK ==
  numel \in [AllRows -> Numels] /\ distortion \in [AllRows -> Curves] /\ budget \in Budgets

\* What a spec costs and loses on a tensor are numbers.
LEMMA BitsAreNat ==
  ASSUME ArgsOK
  PROVE  /\ budget \in Nat
         /\ \A r \in AllRows, s \in SpecIds : BitsOf(r, s) \in Nat /\ distortion[r][s] \in Int
<1>1. budget \in Nat
  BY AllocationAssumption DEF ArgsOK
<1>2. ASSUME NEW r \in AllRows, NEW s \in SpecIds
      PROVE  BitsOf(r, s) \in Nat /\ distortion[r][s] \in Int
  <2>1. numel[r] \in Nat /\ distortion[r] \in [DOMAIN Specs -> Int]
    BY AllocationAssumption DEF ArgsOK
  <2>2. Specs[s].rate \in Nat /\ Specs[s].tax \in Nat
    BY SpecFacts
  <2>3. distortion[r][s] \in Int
    BY <2>1 DEF SpecIds
  <2>4. numel[r] * Specs[s].rate \in Nat
    BY <2>1, <2>2
  <2> QED
    BY <2>2, <2>3, <2>4 DEF BitsOf
<1> QED
  BY <1>1, <1>2

\* The bits and the distortion of a choice are integers.
LEMMA SumsAreInt ==
  ASSUME ArgsOK, NEW c \in [AllRows -> SpecIds]
  PROVE  BitsIn(c) \in Int /\ TotalDistortion(c) \in Int
<1> DEFINE f == [r \in AllRows |-> BitsOf(r, c[r])]
           g == [r \in AllRows |-> distortion[r][c[r]]]
<1>1. \A r \in AllRows : f[r] \in Int /\ g[r] \in Int
  BY BitsAreNat
<1>2. BitsIn(c) = Total(f, AllRows) /\ TotalDistortion(c) = Total(g, AllRows)
  BY DEF BitsIn, TotalDistortion
<1> HIDE DEF f, g
<1> QED
  BY <1>1, <1>2, SpecFacts, TotalIsInt

\* One more upgrade costs its extra bits and gains its distortion.
LEMMA UpgradeCosts ==
  ASSUME ArgsOK, NEW c \in [AllRows -> SpecIds], NEW r \in AllRows, NEW s \in SpecIds
  PROVE  LET d == [c EXCEPT ![r] = s] IN
         /\ d \in [AllRows -> SpecIds]
         /\ BitsIn(d) = BitsIn(c) + BitsOf(r, s) - BitsOf(r, c[r])
         /\ TotalDistortion(d) = TotalDistortion(c) + distortion[r][s] - distortion[r][c[r]]
<1> DEFINE d == [c EXCEPT ![r] = s]
           f == [q \in AllRows |-> BitsOf(q, c[q])]
           g == [q \in AllRows |-> BitsOf(q, d[q])]
           f2 == [q \in AllRows |-> distortion[q][c[q]]]
           g2 == [q \in AllRows |-> distortion[q][d[q]]]
<1>1. d \in [AllRows -> SpecIds] /\ d[r] = s /\ \A q \in AllRows \ {r} : d[q] = c[q]
  OBVIOUS
<1> HIDE DEF d
<1>2. /\ \A q \in AllRows : f[q] \in Int /\ g[q] \in Int /\ f2[q] \in Int /\ g2[q] \in Int
      /\ \A q \in AllRows \ {r} : f[q] = g[q] /\ f2[q] = g2[q]
      /\ f[r] = BitsOf(r, c[r]) /\ g[r] = BitsOf(r, s)
      /\ f2[r] = distortion[r][c[r]] /\ g2[r] = distortion[r][s]
  <2>1. \A q \in AllRows : c[q] \in SpecIds /\ d[q] \in SpecIds
    BY <1>1
  <2>2. \A q \in AllRows : /\ BitsOf(q, c[q]) \in Int /\ BitsOf(q, d[q]) \in Int
                           /\ distortion[q][c[q]] \in Int /\ distortion[q][d[q]] \in Int
    BY <2>1, BitsAreNat
  <2> QED
    BY <1>1, <2>2
<1>3. /\ BitsIn(c) = Total(f, AllRows) /\ TotalDistortion(c) = Total(f2, AllRows)
      /\ BitsIn(d) = Total(g, AllRows) /\ TotalDistortion(d) = Total(g2, AllRows)
  BY DEF BitsIn, TotalDistortion
<1> HIDE DEF f, g, f2, g2
<1>4. Total(g, AllRows) = Total(f, AllRows) + g[r] - f[r]
  BY <1>2, SpecFacts, TotalUpdate
<1>5. Total(g2, AllRows) = Total(f2, AllRows) + g2[r] - f2[r]
  BY <1>2, SpecFacts, TotalUpdate
<1> QED
  BY <1>1, <1>2, <1>3, <1>4, <1>5 DEF d

\* Among the specs there is a first of least penalty.
LEMMA LeastSpec ==
  ASSUME NEW f, \A s \in SpecIds : f[s] \in Int
  PROVE  LET A == {s \in SpecIds : \A u \in SpecIds : f[s] <= f[u]}
         IN  Min(A) \in A
<1> DEFINE A == {s \in SpecIds : \A u \in SpecIds : f[s] <= f[u]}
<1>1. A # {}
  BY SpecFacts, LeastValue
<1>2. A \subseteq Nat
  BY SpecFacts
<1> HIDE DEF A
<1>4. Min(A) \in A
  BY <1>1, <1>2, MinIsLeast
<1> QED
  BY <1>4 DEF A

\* What the Lagrangian and the fewest bits choose are specs of the list.
LEMMA ChoicesAreSpecs ==
  ASSUME ArgsOK
  PROVE  /\ FewestBits \in [AllRows -> SpecIds]
         /\ \A r \in AllRows, s \in SpecIds : BitsOf(r, FewestBits[r]) <= BitsOf(r, s)
         /\ \A lam \in Nat : LagrangianChoice(lam) \in [AllRows -> SpecIds]
<1>1. ASSUME NEW r \in AllRows
      PROVE  /\ FewestBits[r] \in SpecIds
             /\ \A s \in SpecIds : BitsOf(r, FewestBits[r]) <= BitsOf(r, s)
  <2> DEFINE f == [s \in SpecIds |-> BitsOf(r, s)]
             A == {s \in SpecIds : \A u \in SpecIds : f[s] <= f[u]}
             B == {s \in SpecIds : \A u \in SpecIds : BitsOf(r, s) <= BitsOf(r, u)}
  <2>1. \A s \in SpecIds : f[s] \in Int
    BY BitsAreNat
  <2>2. A = B
    OBVIOUS
  <2>3. Min(A) \in A
    <3> HIDE DEF f
    <3> QED
      BY <2>1, LeastSpec
  <2>4. FewestBits[r] = Min(B)
    BY DEF FewestBits
  <2> QED
    BY <2>2, <2>3, <2>4
<1>2. ASSUME NEW lam \in Nat, NEW r \in AllRows
      PROVE  LagrangianChoice(lam)[r] \in SpecIds
  <2> DEFINE f == [s \in SpecIds |-> Penalised(r, s, lam)]
             A == {s \in SpecIds : \A u \in SpecIds : f[s] <= f[u]}
             B == {s \in SpecIds : \A u \in SpecIds : Penalised(r, s, lam) <= Penalised(r, u, lam)}
  <2>1. \A s \in SpecIds : f[s] \in Int
    <3>1. ASSUME NEW s \in SpecIds PROVE Penalised(r, s, lam) \in Int
      <4>1. BitsOf(r, s) \in Nat /\ distortion[r][s] \in Int
        BY BitsAreNat
      <4>2. lam * BitsOf(r, s) \in Int
        BY <4>1
      <4> QED
        BY <4>1, <4>2 DEF Penalised
    <3> QED
      BY <3>1
  <2>2. A = B
    OBVIOUS
  <2>3. Min(A) \in A
    <3> HIDE DEF f
    <3> QED
      BY <2>1, LeastSpec
  <2>4. LagrangianChoice(lam)[r] = Min(B)
    BY DEF LagrangianChoice
  <2> QED
    BY <2>2, <2>3, <2>4
<1>3. FewestBits \in [AllRows -> SpecIds]
  BY <1>1 DEF FewestBits
<1>4. \A lam \in Nat : LagrangianChoice(lam) \in [AllRows -> SpecIds]
  BY <1>2 DEF LagrangianChoice
<1> QED
  BY <1>1, <1>3, <1>4

\* Nothing takes fewer bits than the specs of fewest bits.
LEMMA FewestIsLeast ==
  ASSUME ArgsOK, NEW c \in [AllRows -> SpecIds]
  PROVE  BitsIn(FewestBits) <= BitsIn(c)
<1> DEFINE f == [r \in AllRows |-> BitsOf(r, FewestBits[r])]
           g == [r \in AllRows |-> BitsOf(r, c[r])]
<1>1. \A r \in AllRows : f[r] \in Int /\ g[r] \in Int /\ f[r] <= g[r]
  <2>1. \A r \in AllRows : FewestBits[r] \in SpecIds /\ c[r] \in SpecIds
    BY ChoicesAreSpecs
  <2>2. \A r \in AllRows : BitsOf(r, FewestBits[r]) \in Int /\ BitsOf(r, c[r]) \in Int
    BY <2>1, BitsAreNat
  <2> QED
    BY <2>1, <2>2, ChoicesAreSpecs
<1>2. BitsIn(FewestBits) = Total(f, AllRows) /\ BitsIn(c) = Total(g, AllRows)
  BY DEF BitsIn
<1> HIDE DEF f, g
<1> QED
  BY <1>1, <1>2, SpecFacts, TotalMonotone

-----------------------------------------------------------------------------
\* What an entry of the heap says of its tensor.
LEMMA UpgradeFacts ==
  ASSUME ArgsOK, NEW c \in [AllRows -> SpecIds], NEW u \in Upgrades(c)
  PROVE  /\ u.row \in AllRows /\ u.row \in Int
         /\ u.to = c[u.row] + 1 /\ u.to \in SpecIds
         /\ u.gain \in Int /\ u.extra \in Int /\ u.gain > 0 /\ u.extra > 0
         /\ u.gain = distortion[u.row][c[u.row]] - distortion[u.row][u.to]
         /\ u.extra = BitsOf(u.row, u.to) - BitsOf(u.row, c[u.row])
         /\ Upgrade(u.row, c[u.row]) = {u}
<1>1. PICK r \in AllRows : u \in Upgrade(r, c[r])
  BY DEF Upgrades
<1>2. /\ c[r] + 1 \in SpecIds /\ Gain(r, c[r]) > 0 /\ Extra(r, c[r]) > 0
      /\ Upgrade(r, c[r]) = {u}
      /\ u = [row |-> r, to |-> c[r] + 1, gain |-> Gain(r, c[r]), extra |-> Extra(r, c[r])]
  BY <1>1 DEF Upgrade
<1>3. u.row = r /\ u.to = c[r] + 1 /\ u.gain = Gain(r, c[r]) /\ u.extra = Extra(r, c[r])
  BY <1>2
<1>4. /\ BitsOf(r, c[r]) \in Nat /\ BitsOf(r, c[r] + 1) \in Nat
      /\ distortion[r][c[r]] \in Int /\ distortion[r][c[r] + 1] \in Int
  BY <1>2, BitsAreNat
<1>5. r \in Int
  BY SpecFacts DEF AllRows
<1> QED
  BY <1>2, <1>3, <1>4, <1>5 DEF Gain, Extra

\* _push of the fill adds finitely many upgrades to the heap.
LEMMA UpgradesFinite ==
  ASSUME ArgsOK, NEW c \in [AllRows -> SpecIds]
  PROVE  IsFiniteSet(Upgrades(c))
<1> DEFINE f == [u \in Upgrades(c) |-> u.row]
<1>1. \A u \in Upgrades(c) : u.row \in AllRows /\ Upgrade(u.row, c[u.row]) = {u}
  BY UpgradeFacts
<1>2. f \in Injection(Upgrades(c), AllRows)
  <2>1. \A u, v \in Upgrades(c) : u.row = v.row => u = v
    BY <1>1
  <2>2. f \in [Upgrades(c) -> AllRows] /\ IsInjective(f)
    BY <1>1, <2>1 DEF IsInjective
  <2> HIDE DEF f
  <2> QED
    BY <2>2 DEF Injection
<1> HIDE DEF f
<1> QED
  BY <1>2, SpecFacts, FS_Injection

\* Gains per bit are compared without dividing.
LEMMA CrossProducts ==
  ASSUME NEW a \in Int, NEW b \in Int, NEW c \in Int,
         NEW p \in Nat \ {0}, NEW q \in Nat \ {0}, NEW r \in Nat \ {0},
         a * q >= b * p, b * r >= c * q
  PROVE  /\ a * r >= c * p
         /\ a * q > b * p \/ b * r > c * q => a * r > c * p
<1>1. /\ (a * q) * r = (a * r) * q /\ (b * p) * r = (b * r) * p
      /\ (c * q) * p = (c * p) * q
      /\ a * q \in Int /\ b * p \in Int /\ b * r \in Int /\ c * q \in Int
      /\ a * r \in Int /\ c * p \in Int
  OBVIOUS
<1>2. ASSUME NEW d \in Int, NEW e \in Int, NEW k \in Nat \ {0}
      PROVE  /\ d >= e => d * k >= e * k
             /\ d > e => d * k > e * k
             /\ d * k >= e * k => d >= e
             /\ d * k > e * k => d > e
             /\ d * k \in Int /\ e * k \in Int
  OBVIOUS
<1>3. (a * q) * r >= (b * p) * r /\ (b * r) * p >= (c * q) * p
  BY <1>1, <1>2
<1>4. (a * r) * q >= (c * p) * q
  BY <1>1, <1>2, <1>3
<1>5. a * q > b * p \/ b * r > c * q => (a * r) * q > (c * p) * q
  <2>1. a * q > b * p => (a * q) * r > (b * p) * r
    BY <1>1, <1>2
  <2>2. b * r > c * q => (b * r) * p > (c * q) * p
    BY <1>1, <1>2
  <2>3. (a * r) * q \in Int /\ (b * r) * p \in Int /\ (c * p) * q \in Int
    BY <1>1, <1>2
  <2> QED
    BY <1>1, <1>3, <2>1, <2>2, <2>3
<1> QED
  BY <1>1, <1>2, <1>4, <1>5

\* Top is an entry of the heap: the order is total.
LEMMA TopInHeap ==
  ASSUME ArgsOK, NEW c \in [AllRows -> SpecIds], heap \subseteq Upgrades(c), heap # {}
  PROVE  Top \in heap
<1>1. IsFiniteSet(heap)
  BY UpgradesFinite, FS_Subset
<1>2. \A u \in heap : /\ u.row \in Int /\ u.gain \in Int
                      /\ u.extra \in Nat \ {0}
  <2>1. ASSUME NEW u \in heap
        PROVE  u.row \in Int /\ u.gain \in Int /\ u.extra \in Int /\ u.extra > 0
    <3>1. u \in Upgrades(c)
      OBVIOUS
    <3> QED
      BY <3>1, UpgradeFacts
  <2> QED
    BY <2>1
<1>3. ASSUME NEW u \in heap, NEW v \in heap
      PROVE  /\ u.gain * v.extra \in Int
             /\ Precedes(u, u)
             /\ ~Precedes(u, v) => Precedes(v, u)
  <2>1. u.gain * v.extra \in Int /\ v.gain * u.extra \in Int /\ u.gain * u.extra \in Int
    BY <1>2
  <2> QED
    BY <1>2, <2>1 DEF Precedes
<1>4. ASSUME NEW u \in heap, NEW v \in heap, NEW z \in heap, Precedes(u, v), Precedes(v, z)
      PROVE  Precedes(u, z)
  <2> DEFINE uv == u.gain * v.extra   vu == v.gain * u.extra
             vz == v.gain * z.extra   zv == z.gain * v.extra
             uz == u.gain * z.extra   zu == z.gain * u.extra
  <2>1. /\ uv \in Int /\ vu \in Int /\ vz \in Int /\ zv \in Int /\ uz \in Int /\ zu \in Int
    BY <1>3
  <2>2. /\ uv > vu \/ (uv = vu /\ u.row <= v.row)
        /\ vz > zv \/ (vz = zv /\ v.row <= z.row)
    BY <1>4 DEF Precedes
  <2>3. /\ u.gain \in Int /\ v.gain \in Int /\ z.gain \in Int
        /\ u.extra \in Nat \ {0} /\ v.extra \in Nat \ {0} /\ z.extra \in Nat \ {0}
        /\ u.row \in Int /\ v.row \in Int /\ z.row \in Int
    BY <1>2
  <2>4. uv >= vu /\ vz >= zv
    <3> HIDE DEF uv, vu, vz, zv
    <3> QED
      BY <2>1, <2>2
  <2>5. uz >= zu /\ (uv > vu \/ vz > zv => uz > zu)
    BY <2>3, <2>4, CrossProducts
  <2>6. uz > zu \/ (uz = zu /\ u.row <= z.row)
    <3> HIDE DEF uv, vu, vz, zv, uz, zu
    <3> QED
      BY <2>1, <2>2, <2>3, <2>5
  <2> QED
    BY <2>6 DEF Precedes
<1> DEFINE Bad == {T \in SUBSET heap : T # {} /\ ~ \E u \in T : \A v \in T : Precedes(u, v)}
<1>5. Bad = {}
  <2>1. SUFFICES ASSUME Bad # {} PROVE FALSE
    OBVIOUS
  <2>2. PICK T \in Bad : \A U \in Bad : U \subseteq T => U = T
    <3>1. Bad \subseteq SUBSET heap
      OBVIOUS
    <3> HIDE DEF Bad
    <3> QED
      BY <1>1, <2>1, <3>1, SmallestSubset
  <2>3. T \in SUBSET heap /\ T # {} /\ ~ \E u \in T : \A v \in T : Precedes(u, v)
    OBVIOUS
  <2>4. PICK z \in T : TRUE
    BY <2>3
  <2>5. T # {z}
    BY <1>3, <2>3
  <2>6. PICK u \in T \ {z} : \A v \in T \ {z} : Precedes(u, v)
    <3>1. T \ {z} \notin Bad /\ T \ {z} # {} /\ T \ {z} \in SUBSET heap
      BY <2>2, <2>3, <2>4, <2>5
    <3> QED
      BY <3>1
  <2>7. ~Precedes(u, z)
    BY <2>3, <2>6
  <2>8. Precedes(z, u) /\ Precedes(z, z)
    BY <1>3, <2>3, <2>4, <2>7
  <2>9. \A v \in T : Precedes(z, v)
    BY <1>4, <2>3, <2>4, <2>6, <2>8
  <2> QED
    BY <2>3, <2>4, <2>9
<1>6. \E u \in heap : \A v \in heap : Precedes(u, v)
  BY <1>5
<1> QED
  BY <1>6 DEF Top

-----------------------------------------------------------------------------
\* A fill ends within the budget, or where it started when that already
\* exceeds it.
Fitting(c, start) == BitsIn(c) <= budget \/ (c = start /\ BitsIn(start) > budget)

NoneLeft(c) == \A u \in Upgrades(c) : BitsIn(c) + u.extra > budget

\* The heap has every upgrade of the present choice that could still fit.
HeapInv ==
  /\ heap \subseteq Upgrades(choice)
  /\ \A u \in Upgrades(choice) : u \in heap \/ ~Fits(u)
  /\ search \in {"lagrange", "compare", "chosen"} => heap = {}

\* What the fills have found, one phase after the other.
PhaseInv ==
  /\ search = "greedy" =>
       Fitting(choice, Cheapest) /\ TotalDistortion(choice) <= TotalDistortion(Cheapest)
  /\ search # "greedy" =>
       /\ Fitting(greedy, Cheapest) /\ NoneLeft(greedy)
       /\ TotalDistortion(greedy) <= TotalDistortion(Cheapest)
  /\ search \in {"fill", "compare"} => Fitting(choice, FewestBits)
  /\ search = "chosen" =>
       /\ Fitting(choice, Cheapest) \/ Fitting(choice, FewestBits)
       /\ TotalDistortion(choice) <= TotalDistortion(Cheapest)

AllocInv ==
  /\ ArgsOK
  /\ choice \in [AllRows -> SpecIds] /\ greedy \in [AllRows -> SpecIds]
  /\ search \in {"greedy", "lagrange", "fill", "compare", "chosen"}
  /\ spent = BitsIn(choice)
  /\ HeapInv /\ PhaseInv

\* No step changes the arguments of the search, hence what a choice costs.
LEMMA ArgsStay ==
  ASSUME UNCHANGED allocArgs
  PROVE  /\ ArgsOK' <=> ArgsOK
         /\ \A c : BitsIn(c)' = BitsIn(c) /\ TotalDistortion(c)' = TotalDistortion(c)
         /\ \A c : Upgrades(c)' = Upgrades(c)
         /\ \A r, s : Upgrade(r, s)' = Upgrade(r, s)
         /\ FewestBits' = FewestBits
<1>1. numel' = numel /\ distortion' = distortion /\ budget' = budget
  BY DEF allocArgs
<1> QED
  BY <1>1 DEF ArgsOK, BitsIn, TotalDistortion, BitsOf, Upgrades, Upgrade, Gain, Extra, FewestBits

\* The two starting points have their costs, and nothing costs less than the
\* second.
LEMMA Starts ==
  ASSUME ArgsOK
  PROVE  /\ Cheapest \in [AllRows -> SpecIds] /\ FewestBits \in [AllRows -> SpecIds]
         /\ budget \in Nat
         /\ \A c \in [AllRows -> SpecIds] : /\ BitsIn(c) \in Int /\ TotalDistortion(c) \in Int
                                            /\ BitsIn(FewestBits) <= BitsIn(c)
  BY SpecFacts, BitsAreNat, ChoicesAreSpecs, SumsAreInt, FewestIsLeast

\* _greedy_fill takes the best upgrade left when it fits.
LEMMA TakeInv == ASSUME AllocInv, Take PROVE AllocInv'
<1> DEFINE u == Top
           d == [choice EXCEPT ![u.row] = u.to]
<1>1. /\ ArgsOK /\ choice \in [AllRows -> SpecIds] /\ greedy \in [AllRows -> SpecIds]
      /\ spent = BitsIn(choice) /\ heap \subseteq Upgrades(choice)
      /\ \A v \in Upgrades(choice) : v \in heap \/ ~Fits(v)
      /\ search \in {"greedy", "fill"} /\ heap # {} /\ Fits(u)
      /\ UNCHANGED <<allocArgs, search, greedy>>
      /\ choice' = d /\ spent' = spent + u.extra
      /\ heap' = (heap \ {u}) \cup Upgrade(u.row, u.to)
  BY DEF AllocInv, HeapInv, Take, Filling
<1>2. u \in heap /\ u \in Upgrades(choice)
  BY <1>1, TopInHeap
<1> HIDE DEF u
<1>3. /\ u.row \in AllRows /\ u.to \in SpecIds
      /\ u.extra \in Int /\ u.gain \in Int /\ u.gain > 0 /\ u.extra > 0
      /\ u.gain = distortion[u.row][choice[u.row]] - distortion[u.row][u.to]
      /\ u.extra = BitsOf(u.row, u.to) - BitsOf(u.row, choice[u.row])
      /\ Upgrade(u.row, choice[u.row]) = {u}
  BY <1>1, <1>2, UpgradeFacts
<1>4. /\ d \in [AllRows -> SpecIds]
      /\ BitsIn(d) = BitsIn(choice) + BitsOf(u.row, u.to) - BitsOf(u.row, choice[u.row])
      /\ TotalDistortion(d) = TotalDistortion(choice) + distortion[u.row][u.to]
                                - distortion[u.row][choice[u.row]]
  <2> DEFINE r == u.row   s == u.to
  <2>1. r \in AllRows /\ s \in SpecIds /\ ArgsOK /\ choice \in [AllRows -> SpecIds]
    BY <1>1, <1>3
  <2>2. d = [choice EXCEPT ![r] = s]
    OBVIOUS
  <2> HIDE DEF r, s, d
  <2>3. /\ d \in [AllRows -> SpecIds]
        /\ BitsIn(d) = BitsIn(choice) + BitsOf(r, s) - BitsOf(r, choice[r])
        /\ TotalDistortion(d) = TotalDistortion(choice) + distortion[r][s] - distortion[r][choice[r]]
    BY <2>1, <2>2, UpgradeCosts, Zenon
  <2> QED
    BY <2>3 DEF r, s
<1>5. /\ BitsIn(choice) \in Int /\ TotalDistortion(choice) \in Int /\ budget \in Nat
      /\ BitsIn(Cheapest) \in Int /\ TotalDistortion(Cheapest) \in Int
      /\ BitsIn(FewestBits) \in Int
  BY <1>1, Starts
<1>6. BitsIn(d) = BitsIn(choice) + u.extra /\ TotalDistortion(d) = TotalDistortion(choice) - u.gain
  <2>1. /\ BitsOf(u.row, u.to) \in Nat /\ BitsOf(u.row, choice[u.row]) \in Nat
        /\ distortion[u.row][u.to] \in Int /\ distortion[u.row][choice[u.row]] \in Int
    BY <1>1, <1>3, BitsAreNat
  <2> HIDE DEF d
  <2> QED
    BY <1>3, <1>4, <1>5, <2>1
<1>7. Upgrades(d) = (Upgrades(choice) \ {u}) \cup Upgrade(u.row, u.to)
  <2>1. \A r \in AllRows \ {u.row} : d[r] = choice[r]
    BY <1>1
  <2>2. d[u.row] = u.to
    BY <1>1, <1>3
  <2>3. \A r \in AllRows \ {u.row} : u \notin Upgrade(r, choice[r])
    <3>1. \A r : \A v \in Upgrade(r, choice[r]) : v.row = r
      BY DEF Upgrade
    <3> QED
      BY <3>1
  <2>4. Upgrades(d) = UNION {Upgrade(r, d[r]) : r \in AllRows}
    BY DEF Upgrades
  <2>5. Upgrades(choice) = UNION {Upgrade(r, choice[r]) : r \in AllRows}
    BY DEF Upgrades
  <2> HIDE DEF d
  <2>6. ASSUME NEW v
        PROVE  v \in Upgrades(d) <=> (v \in Upgrades(choice) /\ v # u) \/ v \in Upgrade(u.row, u.to)
    <3>1. v \in Upgrades(d) <=> \E r \in AllRows : v \in Upgrade(r, d[r])
      BY <2>4
    <3>2. v \in Upgrades(choice) <=> \E r \in AllRows : v \in Upgrade(r, choice[r])
      BY <2>5
    <3>3. ASSUME NEW r \in AllRows, v \in Upgrade(r, d[r])
          PROVE  (v \in Upgrades(choice) /\ v # u) \/ v \in Upgrade(u.row, u.to)
      <4>1. CASE r = u.row
        BY <2>2, <3>3, <4>1
      <4>2. CASE r # u.row
        BY <2>1, <2>3, <3>2, <3>3, <4>2
      <4> QED
        BY <4>1, <4>2
    <3>4. ASSUME NEW r \in AllRows, v \in Upgrade(r, choice[r]), v # u
          PROVE  v \in Upgrades(d)
      <4>1. r # u.row
        BY <1>3, <3>4
      <4> QED
        BY <2>1, <3>1, <3>4, <4>1
    <3>5. v \in Upgrade(u.row, u.to) => v \in Upgrades(d)
      BY <1>3, <2>2, <3>1
    <3> QED
      BY <3>1, <3>2, <3>3, <3>4, <3>5
  <2> QED
    BY <2>6
<1>8. \A v \in Upgrades(choice) : v.extra \in Int
  BY <1>1, UpgradeFacts
<1> HIDE DEF d
<1>9. /\ ArgsOK' /\ BitsIn(choice)' = BitsIn(d) /\ TotalDistortion(choice)' = TotalDistortion(d)
      /\ Upgrades(choice)' = Upgrades(d)
      /\ BitsIn(greedy)' = BitsIn(greedy) /\ TotalDistortion(greedy)' = TotalDistortion(greedy)
      /\ Upgrades(greedy)' = Upgrades(greedy)
      /\ BitsIn(Cheapest)' = BitsIn(Cheapest) /\ Cheapest' = Cheapest
      /\ TotalDistortion(Cheapest)' = TotalDistortion(Cheapest)
      /\ FewestBits' = FewestBits /\ BitsIn(FewestBits)' = BitsIn(FewestBits)
      /\ budget' = budget
  <2>1. Cheapest' = Cheapest
    BY DEF Cheapest
  <2> QED
    BY <1>1, <2>1, ArgsStay DEF allocArgs
<1>10. spent' = BitsIn(choice)' /\ spent' <= budget
  BY <1>1, <1>6, <1>9 DEF Fits
<1>11. HeapInv'
  <2>1. heap' \subseteq Upgrades(d)
    BY <1>1, <1>7
  <2>2. ASSUME NEW v \in Upgrades(d)
        PROVE  v \in heap' \/ ~(spent' + v.extra <= budget)
    <3>1. CASE v \in Upgrade(u.row, u.to)
      BY <1>1, <3>1
    <3>2. CASE v \in Upgrades(choice) /\ v # u
      <4>1. v \in heap \/ ~(spent + v.extra <= budget)
        BY <1>1, <3>2 DEF Fits
      <4>2. v.extra \in Int
        BY <1>8, <3>2
      <4> QED
        BY <1>1, <1>3, <1>5, <3>2, <4>1, <4>2
    <3> QED
      BY <1>7, <3>1, <3>2
  <2> QED
    BY <1>1, <1>9, <2>1, <2>2 DEF HeapInv, Fits
<1>12. PhaseInv'
  <2>1. Fitting(choice, Cheapest)' /\ Fitting(choice, FewestBits)'
    BY <1>9, <1>10 DEF Fitting
  <2>2. search = "greedy" => TotalDistortion(d) <= TotalDistortion(Cheapest)
    BY <1>3, <1>5, <1>6 DEF AllocInv, PhaseInv
  <2>3. search # "greedy" => /\ Fitting(greedy, Cheapest)' /\ NoneLeft(greedy)'
                             /\ TotalDistortion(greedy) <= TotalDistortion(Cheapest)
    BY <1>1, <1>9 DEF AllocInv, PhaseInv, Fitting, NoneLeft
  <2> QED
    BY <1>1, <1>9, <2>1, <2>2, <2>3 DEF PhaseInv
<1> QED
  BY <1>1, <1>4, <1>9, <1>10, <1>11, <1>12 DEF AllocInv

\* _greedy_fill drops the best upgrade left when it does not fit.
LEMMA SkipInv == ASSUME AllocInv, Skip PROVE AllocInv'
<1>1. /\ search \in {"greedy", "fill"} /\ heap # {} /\ ~Fits(Top) /\ heap' = heap \ {Top}
      /\ UNCHANGED <<numel, distortion, budget, search, choice, spent, greedy>>
  BY DEF Skip, Filling, allocArgs
<1>2. /\ ArgsOK' /\ BitsIn(choice)' = BitsIn(choice)
      /\ Upgrades(choice)' = Upgrades(choice) /\ PhaseInv'
  <2>1. Cheapest' = Cheapest
    BY DEF Cheapest
  <2>2. UNCHANGED allocArgs
    BY <1>1 DEF allocArgs
  <2> QED
    BY <1>1, <2>1, <2>2, ArgsStay DEF AllocInv, PhaseInv, Fitting, NoneLeft
<1>3. HeapInv'
  <2>1. \A v \in Upgrades(choice) : v \in heap' \/ ~Fits(v)
    BY <1>1 DEF AllocInv, HeapInv
  <2> QED
    BY <1>1, <1>2, <2>1 DEF AllocInv, HeapInv, Fits
<1> QED
  BY <1>1, <1>2, <1>3 DEF AllocInv

\* The candidate of the first fill is kept, and nothing more fits into it.
LEMMA GreedyDoneInv == ASSUME AllocInv, GreedyDone PROVE AllocInv'
<1>1. /\ search = "greedy" /\ heap = {} /\ greedy' = choice /\ search' = "lagrange"
      /\ UNCHANGED <<numel, distortion, budget, choice, spent, heap>>
  BY DEF GreedyDone, allocArgs
<1>2. NoneLeft(choice)
  <2>1. ASSUME NEW u \in Upgrades(choice)
        PROVE  BitsIn(choice) + u.extra > budget
    <3>1. ~(BitsIn(choice) + u.extra <= budget)
      BY <1>1 DEF AllocInv, HeapInv, Fits
    <3>2. BitsIn(choice) \in Int /\ budget \in Nat /\ u.extra \in Int
      BY Starts, UpgradeFacts DEF AllocInv
    <3> QED
      BY <3>1, <3>2
  <2> QED
    BY <2>1 DEF NoneLeft
<1>3. Cheapest' = Cheapest /\ UNCHANGED allocArgs
  BY <1>1 DEF Cheapest, allocArgs
<1>4. /\ ArgsOK' /\ BitsIn(choice)' = BitsIn(choice) /\ BitsIn(greedy)' = BitsIn(choice)
      /\ Upgrades(choice)' = Upgrades(choice) /\ Upgrades(greedy)' = Upgrades(choice)
      /\ TotalDistortion(greedy)' = TotalDistortion(choice)
      /\ BitsIn(Cheapest)' = BitsIn(Cheapest)
      /\ TotalDistortion(Cheapest)' = TotalDistortion(Cheapest)
  BY <1>1, <1>3, ArgsStay DEF AllocInv
<1>5. PhaseInv'
  BY <1>1, <1>2, <1>3, <1>4 DEF AllocInv, PhaseInv, Fitting, NoneLeft
<1>6. HeapInv'
  BY <1>1, <1>4 DEF AllocInv, HeapInv, Fits
<1> QED
  BY <1>1, <1>4, <1>5, <1>6 DEF AllocInv

\* The second fill starts from a choice of the binary search that fits, or
\* from the fewest bits.
LEMMA LagrangeInv == ASSUME AllocInv, Lagrange PROVE AllocInv'
<1>1. /\ search = "lagrange" /\ search' = "fill"
      /\ UNCHANGED <<numel, distortion, budget, greedy>>
  BY DEF Lagrange, allocArgs
<1>2. PICK c \in IF Feasible = {} THEN {FewestBits} ELSE Feasible : StartFill(c)
  BY DEF Lagrange
<1>3. choice' = c /\ spent' = BitsIn(c) /\ heap' = Upgrades(c)
  BY <1>2 DEF StartFill
<1>4. /\ c \in [AllRows -> SpecIds]
      /\ BitsIn(c) <= budget \/ (c = FewestBits /\ BitsIn(FewestBits) > budget)
  <2>1. CASE Feasible # {}
    <3>1. PICK lam \in Lambdas : c = LagrangianChoice(lam) /\ BitsIn(LagrangianChoice(lam)) <= budget
      BY <1>2, <2>1 DEF Feasible
    <3>2. lam \in Nat
      BY AllocationAssumption
    <3> QED
      BY <3>1, <3>2, ChoicesAreSpecs DEF AllocInv
  <2>2. CASE Feasible = {}
    <3>1. c = FewestBits
      BY <1>2, <2>2
    <3>2. c \in [AllRows -> SpecIds] /\ BitsIn(c) \in Int /\ budget \in Nat
      BY <3>1, Starts DEF AllocInv
    <3> QED
      BY <3>1, <3>2
  <2> QED
    BY <2>1, <2>2
<1>5. Cheapest' = Cheapest /\ UNCHANGED allocArgs
  BY <1>1 DEF Cheapest, allocArgs
<1>6. /\ ArgsOK' /\ BitsIn(choice)' = BitsIn(c) /\ BitsIn(greedy)' = BitsIn(greedy)
      /\ Upgrades(choice)' = Upgrades(c) /\ Upgrades(greedy)' = Upgrades(greedy)
      /\ TotalDistortion(greedy)' = TotalDistortion(greedy)
      /\ BitsIn(Cheapest)' = BitsIn(Cheapest)
      /\ TotalDistortion(Cheapest)' = TotalDistortion(Cheapest)
      /\ FewestBits' = FewestBits /\ BitsIn(FewestBits)' = BitsIn(FewestBits)
  BY <1>1, <1>3, <1>5, ArgsStay DEF AllocInv
<1>7. PhaseInv'
  BY <1>1, <1>3, <1>4, <1>5, <1>6 DEF AllocInv, PhaseInv, Fitting, NoneLeft
<1>8. HeapInv'
  BY <1>1, <1>3, <1>6 DEF HeapInv
<1> QED
  BY <1>1, <1>3, <1>4, <1>6, <1>7, <1>8 DEF AllocInv

\* _greedy_fill of the Lagrangian's choice is over.
LEMMA FillDoneInv == ASSUME AllocInv, FillDone PROVE AllocInv'
<1>1. /\ search = "fill" /\ heap = {} /\ search' = "compare"
      /\ UNCHANGED <<numel, distortion, budget, choice, spent, heap, greedy>>
  BY DEF FillDone, allocArgs
<1>2. Cheapest' = Cheapest /\ UNCHANGED allocArgs
  BY <1>1 DEF Cheapest, allocArgs
<1>3. /\ ArgsOK' /\ BitsIn(choice)' = BitsIn(choice) /\ BitsIn(greedy)' = BitsIn(greedy)
      /\ Upgrades(choice)' = Upgrades(choice) /\ Upgrades(greedy)' = Upgrades(greedy)
      /\ TotalDistortion(greedy)' = TotalDistortion(greedy)
      /\ BitsIn(Cheapest)' = BitsIn(Cheapest)
      /\ TotalDistortion(Cheapest)' = TotalDistortion(Cheapest)
      /\ FewestBits' = FewestBits /\ BitsIn(FewestBits)' = BitsIn(FewestBits)
  BY <1>1, <1>2, ArgsStay DEF AllocInv
<1>4. PhaseInv' /\ HeapInv'
  BY <1>1, <1>2, <1>3 DEF AllocInv, PhaseInv, HeapInv, Fitting, NoneLeft, Fits
<1> QED
  BY <1>1, <1>3, <1>4 DEF AllocInv

\* The better of the two candidates is chosen.
LEMMA CompareInv == ASSUME AllocInv, Compare PROVE AllocInv'
<1> DEFINE better == TotalDistortion(greedy) <= TotalDistortion(choice)
<1>1. /\ search = "compare" /\ heap = {} /\ search' = "chosen"
      /\ choice' = (IF better THEN greedy ELSE choice) /\ spent' = BitsIn(choice')
      /\ UNCHANGED <<numel, distortion, budget, heap, greedy>>
  BY DEF Compare, allocArgs, AllocInv, HeapInv
<1>2. Cheapest' = Cheapest /\ UNCHANGED allocArgs
  BY <1>1 DEF Cheapest, allocArgs
<1>3. /\ ArgsOK' /\ BitsIn(choice)' = BitsIn(choice') /\ BitsIn(greedy)' = BitsIn(greedy)
      /\ Upgrades(choice)' = Upgrades(choice') /\ Upgrades(greedy)' = Upgrades(greedy)
      /\ TotalDistortion(greedy)' = TotalDistortion(greedy)
      /\ TotalDistortion(choice)' = TotalDistortion(choice')
      /\ BitsIn(Cheapest)' = BitsIn(Cheapest)
      /\ TotalDistortion(Cheapest)' = TotalDistortion(Cheapest)
      /\ FewestBits' = FewestBits /\ BitsIn(FewestBits)' = BitsIn(FewestBits)
      /\ budget' = budget
  BY <1>1, <1>2, ArgsStay DEF AllocInv
<1>4. /\ Fitting(greedy, Cheapest) /\ NoneLeft(greedy) /\ Fitting(choice, FewestBits)
      /\ TotalDistortion(greedy) <= TotalDistortion(Cheapest)
      /\ \A u \in Upgrades(choice) : ~(BitsIn(choice) + u.extra <= budget)
  BY <1>1 DEF AllocInv, PhaseInv, HeapInv, Fits
<1>5. /\ TotalDistortion(greedy) \in Int /\ TotalDistortion(choice) \in Int
      /\ TotalDistortion(Cheapest) \in Int
      /\ choice' \in [AllRows -> SpecIds]
      /\ BitsIn(greedy) \in Int /\ budget \in Nat /\ \A u \in Upgrades(greedy) : u.extra \in Int
  BY <1>1, Starts, UpgradeFacts DEF AllocInv
<1>6. \A u \in Upgrades(greedy) : ~(BitsIn(greedy) + u.extra <= budget)
  BY <1>4, <1>5 DEF NoneLeft
<1>7. HeapInv'
  <2>1. \A u \in Upgrades(choice') : ~(BitsIn(choice') + u.extra <= budget)
    BY <1>1, <1>4, <1>6
  <2> QED
    BY <1>1, <1>3, <2>1 DEF HeapInv, Fits
<1>8. PhaseInv'
  <2>1. /\ Fitting(choice', Cheapest) \/ Fitting(choice', FewestBits)
        /\ TotalDistortion(choice') <= TotalDistortion(Cheapest)
    BY <1>1, <1>4, <1>5
  <2> QED
    BY <1>1, <1>2, <1>3, <1>4, <2>1 DEF PhaseInv, Fitting, NoneLeft
<1> QED
  BY <1>1, <1>3, <1>5, <1>7, <1>8 DEF AllocInv

\* The search starts by filling from the cheapest specs.
LEMMA AllocInitInv == AllocInit => AllocInv
<1> SUFFICES ASSUME AllocInit PROVE AllocInv
  OBVIOUS
<1>1. /\ ArgsOK /\ search = "greedy" /\ choice = Cheapest /\ spent = BitsIn(choice)
      /\ heap = Upgrades(choice) /\ greedy = Cheapest
  BY DEF AllocInit, ArgsOK
<1>2. /\ Cheapest \in [AllRows -> SpecIds] /\ BitsIn(Cheapest) \in Int
      /\ TotalDistortion(Cheapest) \in Int /\ budget \in Nat
  BY <1>1, Starts
<1> QED
  BY <1>1, <1>2 DEF AllocInv, HeapInv, PhaseInv, Fitting

\* A step of another component changes nothing here.
LEMMA AllocStays == ASSUME AllocInv, UNCHANGED allocVars PROVE AllocInv'
<1>1. UNCHANGED <<numel, distortion, budget, search, choice, spent, heap, greedy, allocArgs>>
  BY DEF allocVars, allocArgs
<1>2. Cheapest' = Cheapest
  BY DEF Cheapest
<1>3. /\ ArgsOK' /\ BitsIn(choice)' = BitsIn(choice) /\ BitsIn(greedy)' = BitsIn(greedy)
      /\ Upgrades(choice)' = Upgrades(choice) /\ Upgrades(greedy)' = Upgrades(greedy)
      /\ TotalDistortion(greedy)' = TotalDistortion(greedy)
      /\ TotalDistortion(choice)' = TotalDistortion(choice)
      /\ BitsIn(Cheapest)' = BitsIn(Cheapest)
      /\ TotalDistortion(Cheapest)' = TotalDistortion(Cheapest)
      /\ FewestBits' = FewestBits /\ BitsIn(FewestBits)' = BitsIn(FewestBits)
  BY <1>1, <1>2, ArgsStay DEF AllocInv
<1>4. PhaseInv' /\ HeapInv'
  BY <1>1, <1>2, <1>3 DEF AllocInv, PhaseInv, HeapInv, Fitting, NoneLeft, Fits
<1> QED
  BY <1>1, <1>3, <1>4 DEF AllocInv

\* Every step of the search keeps the invariant.
LEMMA AllocInvariant == AllocSpec => []AllocInv
<1>1. AllocInv /\ [AllocNext]_allocVars => AllocInv'
  BY TakeInv, SkipInv, GreedyDoneInv, LagrangeInv, FillDoneInv, CompareInv, AllocStays DEF AllocNext
<1> QED
  BY <1>1, AllocInitInv, PTL DEF AllocSpec

\* The heap of _greedy_fill has no stale entry: what it holds of a tensor is
\* the step from the tensor's present spec to the next.
THEOREM AllocTypeCorrect == AllocSpec => []AllocTypeOK
<1>1. AllocInv => AllocTypeOK
  <2> SUFFICES ASSUME AllocInv PROVE AllocTypeOK
    OBVIOUS
  <2>1. ArgsOK /\ choice \in [AllRows -> SpecIds] /\ heap \subseteq Upgrades(choice)
    BY DEF AllocInv, HeapInv
  <2>2. \A u \in heap : u.row \in AllRows /\ u.to = choice[u.row] + 1
    BY <2>1, UpgradeFacts
  <2> QED
    BY <2>2 DEF AllocInv, AllocTypeOK
<1> QED
  BY <1>1, AllocInvariant, PTL

\* allocate() stays within the budget when its first candidate can, leaves no
\* upgrade that fits, and is never worse than the cheapest specs, for any
\* number of tensors and specs and any curves.
THEOREM SearchSpends == AllocSpec => []AllocationSpends
<1>1. AllocInv => AllocationSpends
  <2> SUFFICES ASSUME AllocInv PROVE AllocationSpends
    OBVIOUS
  <2>1. spent = BitsIn(choice)
    BY DEF AllocInv
  <2>2. ASSUME search = "chosen"
        PROVE  /\ spent <= budget \/ BitsIn(Cheapest) > budget
               /\ BitsIn(FewestBits) > budget => choice \in {Cheapest, FewestBits}
               /\ \A u \in Upgrades(choice) : ~Fits(u)
               /\ TotalDistortion(choice) <= TotalDistortion(Cheapest)
    <3>1. /\ Fitting(choice, Cheapest) \/ Fitting(choice, FewestBits)
          /\ TotalDistortion(choice) <= TotalDistortion(Cheapest)
          /\ \A u \in Upgrades(choice) : ~Fits(u)
      BY <2>2 DEF AllocInv, PhaseInv, HeapInv
    <3>2. /\ BitsIn(choice) \in Int /\ BitsIn(Cheapest) \in Int /\ BitsIn(FewestBits) \in Int
          /\ budget \in Nat /\ BitsIn(FewestBits) <= BitsIn(choice)
          /\ BitsIn(FewestBits) <= BitsIn(Cheapest)
      BY Starts DEF AllocInv
    <3>3. BitsIn(choice) <= budget \/ BitsIn(Cheapest) > budget
      BY <3>1, <3>2 DEF Fitting
    <3>4. BitsIn(FewestBits) > budget => choice \in {Cheapest, FewestBits}
      BY <3>1, <3>2 DEF Fitting
    <3> QED
      BY <2>1, <3>1, <3>3, <3>4
  <2> QED
    BY <2>1, <2>2 DEF AllocationSpends
<1> QED
  BY <1>1, AllocInvariant, PTL
-----------------------------------------------------------------------------

Subsets == 0 .. 3

\* _INF is a number.
LEMMA InfNat == INF \in Nat \ {0}
  BY SMT DEF INF

\* A square is a natural number.
LEMMA SquareNat == ASSUME NEW d \in Int PROVE Square(d) \in Nat
<1>1. CASE d >= 0
  BY <1>1 DEF Square
<1>2. CASE d < 0
  <2>1. -d \in Nat
    BY <1>2
  <2>2. (-d) * (-d) \in Nat
    BY <2>1
  <2> QED
    BY <2>2 DEF Square
<1> QED
  BY <1>1, <1>2

TrellisArgs == R \in Rates /\ W \in UNION {[1 .. k -> Weights] : k \in Rows}

\* What tcq_encode is called with.
LEMMA RowFacts ==
  ASSUME TrellisArgs
  PROVE  /\ R \in Nat \ {0} /\ Len(W) \in Nat \ {0} /\ Len(W) \in Rows
         /\ W \in [1 .. Len(W) -> Weights] /\ DOMAIN W = 1 .. Len(W)
         /\ \A k \in 1 .. Len(W) : W[k] \in Int
<1>1. PICK k \in Rows : W \in [1 .. k -> Weights]
  BY DEF TrellisArgs
<1>2. k \in Nat \ {0} /\ R \in Nat \ {0} /\ Weights \subseteq Int
  BY TrellisAssumption DEF TrellisArgs
<1>3. Len(W) = k
  BY <1>1, <1>2
<1> QED
  BY <1>1, <1>2, <1>3

\* There are four levels at least, one of each subset.
LEMMA LevelFacts ==
  ASSUME R \in Nat \ {0}
  PROVE  /\ Levels(R) \in Nat /\ Levels(R) >= 4
         /\ \A u \in Subsets : u \in Members(u)
         /\ \A w \in Int, k \in LevelIds : Dist(w, k) \in Nat
<1>1. Shift[R - 1] \in Nat \ {0} /\ Shift[R] = 2 * Shift[R - 1] /\ Shift[R + 1] = 2 * Shift[R]
  <2>1. R - 1 \in Nat /\ (R - 1) + 1 = R /\ R \in Nat
    OBVIOUS
  <2>2. Shift[R - 1] \in Nat \ {0} /\ Shift[(R - 1) + 1] = 2 * Shift[R - 1]
    BY <2>1, ShiftFacts
  <2>3. Shift[R + 1] = 2 * Shift[R]
    BY <2>1, ShiftFacts
  <2> QED
    BY <2>1, <2>2, <2>3
<1>2. Levels(R) \in Nat /\ Levels(R) >= 4
  BY <1>1 DEF Levels
<1>3. ASSUME NEW u \in Subsets PROVE u \in Members(u)
  BY <1>2 DEF Members, LevelIds, Subsets
<1>4. ASSUME NEW w \in Int, NEW k \in LevelIds PROVE Dist(w, k) \in Nat
  <2>1. w - LevelAt(R, k) \in Int
    BY <1>2 DEF LevelIds, LevelAt
  <2> QED
    BY <2>1, SquareNat DEF Dist
<1> QED
  BY <1>2, <1>3, <1>4

\* The nearest level of a subset is one of it, and none of it is nearer.
LEMMA NearestFacts ==
  ASSUME R \in Nat \ {0}, NEW u \in Subsets, NEW w \in Int
  PROVE  /\ Cost(u, w) \in Nat /\ Nearest(u, w) \in Members(u)
         /\ Nearest(u, w) \in LevelIds /\ Nearest(u, w) % 4 = u
         /\ Dist(w, Nearest(u, w)) = Cost(u, w)
         /\ Cost(u, w) <= Dist(w, u)
<1> DEFINE costs == {Dist(w, k) : k \in Members(u)}
           near == {k \in Members(u) : Dist(w, k) = Cost(u, w)}
<1>1. u \in Members(u) /\ Members(u) \subseteq LevelIds /\ LevelIds \subseteq Nat
      /\ \A k \in Members(u) : k % 4 = u
  BY LevelFacts DEF Members, LevelIds
<1>2. costs \subseteq Nat /\ costs # {}
  BY <1>1, LevelFacts
<1>3. Min(costs) \in costs /\ \A d \in costs : Min(costs) <= d
  <2> HIDE DEF costs
  <2> QED
    BY <1>2, MinIsLeast
<1>4. Cost(u, w) = Min(costs)
  BY DEF Cost
<1>5. Dist(w, u) \in costs
  BY <1>1
<1>6. PICK k \in Members(u) : Dist(w, k) = Cost(u, w)
  BY <1>3, <1>4
<1>7. near \subseteq Nat /\ near # {}
  BY <1>1, <1>6
<1>8. Min(near) \in near
  <2> HIDE DEF near
  <2> QED
    BY <1>7, MinIsLeast
<1>9. Nearest(u, w) \in near
  BY <1>8 DEF Nearest
<1>10. Cost(u, w) \in Nat /\ Cost(u, w) <= Dist(w, u)
  <2> HIDE DEF costs
  <2> QED
    BY <1>2, <1>3, <1>4, <1>5
<1> QED
  BY <1>1, <1>9, <1>10

-----------------------------------------------------------------------------
(* The branches. *)

Bits2 == {0, 1}

\* _SUBSET and _NEXT name subsets and states.
LEMMA BranchTypes ==
  \A s \in States, b \in Bits2 : NextOf(s, b) \in States /\ SubsetOf(s, b) \in Subsets
<1> SUFFICES ASSUME NEW s \in States, NEW b \in Bits2
             PROVE  NextOf(s, b) \in States /\ SubsetOf(s, b) \in Subsets
  OBVIOUS
<1>1. (s = 0 \/ s = 1 \/ s = 2 \/ s = 3) /\ (b = 0 \/ b = 1)
  BY DEF States, Bits2
<1>2. /\ NEXTS[1][1] \in States /\ NEXTS[1][2] \in States /\ NEXTS[2][1] \in States /\ NEXTS[2][2] \in States
      /\ NEXTS[3][1] \in States /\ NEXTS[3][2] \in States /\ NEXTS[4][1] \in States /\ NEXTS[4][2] \in States
  BY DEF NEXTS, States
<1>3. /\ SUBSETS[1][1] \in Subsets /\ SUBSETS[1][2] \in Subsets /\ SUBSETS[2][1] \in Subsets /\ SUBSETS[2][2] \in Subsets
      /\ SUBSETS[3][1] \in Subsets /\ SUBSETS[3][2] \in Subsets /\ SUBSETS[4][1] \in Subsets /\ SUBSETS[4][2] \in Subsets
  BY DEF SUBSETS, Subsets
<1> QED
  BY <1>1, <1>2, <1>3 DEF NextOf, SubsetOf

\* Each state has two branches into it, and one of them comes first.
LEMMA TwoBranches ==
  ASSUME NEW ns \in States
  PROVE  \E a, b \in States \X Bits2 :
           Branches(ns) = {a, b} /\ Earlier(a, b)
<1>0. /\ NextOf(0, 0) = 0 /\ NextOf(0, 1) = 1 /\ NextOf(1, 0) = 2 /\ NextOf(1, 1) = 3
      /\ NextOf(2, 0) = 1 /\ NextOf(2, 1) = 0 /\ NextOf(3, 0) = 3 /\ NextOf(3, 1) = 2
  BY DEF NextOf, NEXTS
<1>1. \A x \in States \X Bits2 :
        \/ x = <<0, 0>> \/ x = <<0, 1>> \/ x = <<1, 0>> \/ x = <<1, 1>>
        \/ x = <<2, 0>> \/ x = <<2, 1>> \/ x = <<3, 0>> \/ x = <<3, 1>>
  BY DEF States, Bits2
<1>2. ASSUME NEW x \in States \X Bits2
      PROVE  x \in Branches(ns) <=> NextOf(x[1], x[2]) = ns
  BY DEF Branches, Bits2
<1>3. Branches(ns) \subseteq States \X Bits2
  BY DEF Branches, Bits2
<1>4. /\ <<0, 0>> \in States \X Bits2 /\ <<0, 1>> \in States \X Bits2
      /\ <<1, 0>> \in States \X Bits2 /\ <<1, 1>> \in States \X Bits2
      /\ <<2, 0>> \in States \X Bits2 /\ <<2, 1>> \in States \X Bits2
      /\ <<3, 0>> \in States \X Bits2 /\ <<3, 1>> \in States \X Bits2
  BY DEF States, Bits2
<1>5. CASE ns = 0
  <2>1. Branches(ns) = {<<0, 0>>, <<2, 1>>}
    BY <1>0, <1>1, <1>2, <1>3, <1>4, <1>5
  <2>2. Earlier(<<0, 0>>, <<2, 1>>)
    BY DEF Earlier
  <2> QED
    BY <1>4, <2>1, <2>2
<1>6. CASE ns = 1
  <2>1. Branches(ns) = {<<0, 1>>, <<2, 0>>}
    BY <1>0, <1>1, <1>2, <1>3, <1>4, <1>6
  <2>2. Earlier(<<0, 1>>, <<2, 0>>)
    BY DEF Earlier
  <2> QED
    BY <1>4, <2>1, <2>2
<1>7. CASE ns = 2
  <2>1. Branches(ns) = {<<1, 0>>, <<3, 1>>}
    BY <1>0, <1>1, <1>2, <1>3, <1>4, <1>7
  <2>2. Earlier(<<1, 0>>, <<3, 1>>)
    BY DEF Earlier
  <2> QED
    BY <1>4, <2>1, <2>2
<1>8. CASE ns = 3
  <2>1. Branches(ns) = {<<1, 1>>, <<3, 0>>}
    BY <1>0, <1>1, <1>2, <1>3, <1>4, <1>8
  <2>2. Earlier(<<1, 1>>, <<3, 0>>)
    BY DEF Earlier
  <2> QED
    BY <1>4, <2>1, <2>2
<1> QED
  BY <1>5, <1>6, <1>7, <1>8 DEF States

\* What a branch costs is a number.
LEMMA ViaNat ==
  ASSUME R \in Nat \ {0}, pc \in [States -> 0 .. INF], NEW w \in Int, NEW a \in States \X Bits2
  PROVE  Via(a, w) \in Nat /\ pc[a[1]] \in Nat /\ Cost(SubsetOf(a[1], a[2]), w) \in Nat
<1>1. a[1] \in States /\ a[2] \in Bits2
  OBVIOUS
<1>2. pc[a[1]] \in Nat
  <2>1. pc[a[1]] \in 0 .. INF
    BY <1>1
  <2> QED
    BY <2>1, InfNat
<1>3. Cost(SubsetOf(a[1], a[2]), w) \in Nat
  BY <1>1, BranchTypes, NearestFacts
<1> QED
  BY <1>2, <1>3 DEF Via

\* The chosen branch leads into the state, and no other is cheaper.
LEMMA BestFacts ==
  ASSUME R \in Nat \ {0}, pc \in [States -> 0 .. INF], NEW w \in Int, NEW ns \in States
  PROVE  /\ Best(ns, w) \in States \X Bits2
         /\ NextOf(Best(ns, w)[1], Best(ns, w)[2]) = ns
         /\ \A s \in States, b \in Bits2 :
              NextOf(s, b) = ns => Via(Best(ns, w), w) <= Via(<<s, b>>, w)
<1> DEFINE Wins(a) == \A b \in Branches(ns) :
             Via(a, w) < Via(b, w) \/ (Via(a, w) = Via(b, w) /\ Earlier(a, b))
<1>1. PICK a, b \in States \X Bits2 : Branches(ns) = {a, b} /\ Earlier(a, b)
  BY TwoBranches
<1>2. Via(a, w) \in Nat /\ Via(b, w) \in Nat
  BY ViaNat
<1>3. Earlier(a, a) /\ Earlier(b, b)
  BY DEF Earlier, States, Bits2
<1>4. \E x \in Branches(ns) : Wins(x)
  <2>1. CASE Via(a, w) <= Via(b, w)
    <3>1. Wins(a)
      BY <1>1, <1>2, <1>3, <2>1
    <3> QED
      BY <1>1, <3>1
  <2>2. CASE Via(b, w) < Via(a, w)
    <3>1. Wins(b)
      BY <1>1, <1>2, <1>3, <2>2
    <3> QED
      BY <1>1, <3>1
  <2> QED
    BY <1>2, <2>1, <2>2
<1>5. Best(ns, w) \in Branches(ns) /\ Wins(Best(ns, w))
  <2>1. Best(ns, w) = CHOOSE x \in Branches(ns) : Wins(x)
    BY DEF Best
  <2> HIDE DEF Wins
  <2> QED
    BY <1>4, <2>1
<1>6. Best(ns, w) \in States \X Bits2 /\ NextOf(Best(ns, w)[1], Best(ns, w)[2]) = ns
  BY <1>5 DEF Branches, Bits2
<1>7. ASSUME NEW s \in States, NEW c \in Bits2, NextOf(s, c) = ns
      PROVE  Via(Best(ns, w), w) <= Via(<<s, c>>, w)
  <2>1. <<s, c>> \in Branches(ns)
    BY <1>7 DEF Branches, Bits2
  <2>2. Via(Best(ns, w), w) \in Nat /\ Via(<<s, c>>, w) \in Nat
    BY <1>6, ViaNat
  <2> QED
    BY <1>5, <2>1, <2>2
<1> QED
  BY <1>6, <1>7
-----------------------------------------------------------------------------
(* The routes of the trellis, from the first sample on. *)

Follows(S, bs, m) ==
  /\ S \in [0 .. Len(W) -> States] /\ S[0] = 0
  /\ \A k \in 1 .. m : S[k] = NextOf(S[k - 1], bs[k])

\* The states on a route exist.
LEMMA FollowsExist ==
  ASSUME TrellisArgs, NEW bs \in Routes
  PROVE  \E S : Follows(S, bs, Len(W))
<1> DEFINE good == {m \in Nat : m <= Len(W) => \E S : Follows(S, bs, m)}
<1>0. Len(W) \in Nat \ {0} /\ DOMAIN W = 1 .. Len(W) /\ bs \in [1 .. Len(W) -> Bits2]
  BY RowFacts DEF Routes, Bits2
<1>1. 0 \in good
  <2>1. Follows([k \in 0 .. Len(W) |-> 0], bs, 0)
    BY <1>0 DEF Follows, States
  <2> QED
    BY <2>1
<1>2. ASSUME NEW m \in Nat, m \in good
      PROVE  m + 1 \in good
  <2>1. SUFFICES ASSUME m + 1 <= Len(W) PROVE \E S : Follows(S, bs, m + 1)
    OBVIOUS
  <2>2. PICK S : Follows(S, bs, m)
    BY <1>0, <1>2, <2>1
  <2> DEFINE V == [S EXCEPT ![m + 1] = NextOf(S[m], bs[m + 1])]
  <2>3. m + 1 \in 1 .. Len(W) /\ m + 1 \in 0 .. Len(W) /\ m \in 0 .. Len(W)
    BY <1>0, <2>1
  <2>4. NextOf(S[m], bs[m + 1]) \in States
    BY <1>0, <2>2, <2>3, BranchTypes DEF Follows
  <2>5. /\ V \in [0 .. Len(W) -> States] /\ V[m + 1] = NextOf(S[m], bs[m + 1])
        /\ \A k \in 0 .. m : V[k] = S[k]
    BY <1>0, <2>2, <2>3, <2>4 DEF Follows
  <2> HIDE DEF V
  <2>6. ASSUME NEW k \in 1 .. m + 1
        PROVE  V[k] = NextOf(V[k - 1], bs[k])
    <3>1. k - 1 \in 0 .. m /\ (k = m + 1 \/ (k \in 1 .. m /\ k \in 0 .. m))
      OBVIOUS
    <3>2. CASE k = m + 1
      <4>1. k - 1 = m
        BY <3>2
      <4> QED
        BY <2>5, <3>1, <3>2, <4>1
    <3>3. CASE k \in 1 .. m /\ k \in 0 .. m
      BY <2>2, <2>5, <3>1, <3>3 DEF Follows
    <3> QED
      BY <3>1, <3>2, <3>3
  <2>7. Follows(V, bs, m + 1)
    BY <2>2, <2>5, <2>6 DEF Follows
  <2> QED
    BY <2>7
<1> HIDE DEF good
<1>3. Nat \subseteq good
  BY <1>1, <1>2, AllNaturals
<1> QED
  BY <1>0, <1>3 DEF good

\* The states on a route are determined by its branches.
LEMMA FollowsUnique ==
  ASSUME TrellisArgs, NEW bs, NEW S, NEW V, Follows(S, bs, Len(W)), Follows(V, bs, Len(W))
  PROVE  \A k \in 0 .. Len(W) : S[k] = V[k]
<1> DEFINE good == {k \in Nat : k <= Len(W) => S[k] = V[k]}
<1>0. Len(W) \in Nat
  BY RowFacts
<1>1. 0 \in good
  BY DEF Follows
<1>2. ASSUME NEW k \in Nat, k \in good
      PROVE  k + 1 \in good
  <2>1. SUFFICES ASSUME k + 1 <= Len(W) PROVE S[k + 1] = V[k + 1]
    OBVIOUS
  <2>2. k + 1 \in 1 .. Len(W) /\ (k + 1) - 1 = k /\ S[k] = V[k]
    BY <1>0, <1>2, <2>1
  <2> QED
    BY <2>2 DEF Follows
<1> HIDE DEF good
<1>3. Nat \subseteq good
  BY <1>1, <1>2, AllNaturals
<1> QED
  BY <1>0, <1>3 DEF good

\* StatesOn follows its route.
LEMMA StatesOnFollow ==
  ASSUME TrellisArgs, NEW bs \in Routes
  PROVE  Follows(StatesOn(bs), bs, Len(W))
<1> DEFINE Rule(h) == h = [k \in 0 .. Len(W) |-> IF k = 0 THEN 0 ELSE NextOf(h[k - 1], bs[k])]
<1>0. Len(W) \in Nat
  BY RowFacts
<1>1. PICK S : Follows(S, bs, Len(W))
  BY FollowsExist
<1>2. Rule(S)
  <2>1. ASSUME NEW k \in 0 .. Len(W)
        PROVE  S[k] = IF k = 0 THEN 0 ELSE NextOf(S[k - 1], bs[k])
    <3>1. k = 0 \/ k \in 1 .. Len(W)
      BY <1>0
    <3> QED
      BY <1>1, <3>1 DEF Follows
  <2>2. S = [k \in 0 .. Len(W) |-> S[k]]
    BY <1>1 DEF Follows
  <2> QED
    BY <2>1, <2>2
<1>3. StatesOn(bs) = CHOOSE h : Rule(h)
  BY DEF StatesOn
<1>4. Rule(StatesOn(bs))
  <2> HIDE DEF Rule
  <2> QED
    BY <1>2, <1>3
<1> DEFINE V == StatesOn(bs)
<1> HIDE DEF V
<1>5. /\ DOMAIN V = 0 .. Len(W)
      /\ V = [k \in 0 .. Len(W) |-> V[k]]
      /\ \A k \in 0 .. Len(W) : V[k] = IF k = 0 THEN 0 ELSE NextOf(V[k - 1], bs[k])
  BY <1>4 DEF V
<1>6. V[0] = 0 /\ \A k \in 1 .. Len(W) : V[k] = NextOf(V[k - 1], bs[k])
  <2>1. 0 \in 0 .. Len(W) /\ \A k \in 1 .. Len(W) : k \in 0 .. Len(W) /\ k # 0
    BY <1>0
  <2> QED
    BY <1>5, <2>1
<1> DEFINE good == {k \in Nat : k <= Len(W) => V[k] \in States}
<1>7. 0 \in good
  BY <1>6 DEF States
<1>8. ASSUME NEW k \in Nat, k \in good
      PROVE  k + 1 \in good
  <2>1. SUFFICES ASSUME k + 1 <= Len(W) PROVE V[k + 1] \in States
    OBVIOUS
  <2>2. k + 1 \in 1 .. Len(W) /\ (k + 1) - 1 = k /\ V[k] \in States
    BY <1>0, <1>8, <2>1
  <2>3. bs[k + 1] \in Bits2
    BY <2>2, RowFacts DEF Routes, Bits2
  <2> QED
    BY <1>6, <2>2, <2>3, BranchTypes
<1> HIDE DEF good
<1>9. Nat \subseteq good
  BY <1>7, <1>8, AllNaturals
<1>10. V \in [0 .. Len(W) -> States]
  <2>1. \A k \in 0 .. Len(W) : V[k] \in States
    BY <1>0, <1>9 DEF good
  <2> QED
    BY <1>5, <2>1
<1> QED
  BY <1>6, <1>10 DEF Follows, V

\* A sum up to a sample is the sum up to the one before and its own term.
LEMMA PrefixSum ==
  ASSUME NEW f, NEW m \in Nat, \A k \in 1 .. m + 1 : f[k] \in Nat
  PROVE  /\ Total(f, 1 .. m + 1) = Total(f, 1 .. m) + f[m + 1]
         /\ Total(f, 1 .. m) \in Int
<1>1. IsFiniteSet(1 .. m + 1) /\ IsFiniteSet(1 .. m) /\ m + 1 \in 1 .. m + 1
      /\ (1 .. m + 1) \ {m + 1} = 1 .. m
  BY FS_Interval
<1>2. Total(f, 1 .. m + 1) = f[m + 1] + Total(f, (1 .. m + 1) \ {m + 1})
  <2>1. \A k \in 1 .. m + 1 : f[k] \in Int
    OBVIOUS
  <2> QED
    BY <1>1, <2>1, TotalRemove
<1>3. Total(f, 1 .. m) \in Int
  <2>1. \A k \in 1 .. m : f[k] \in Int
    OBVIOUS
  <2> QED
    BY <1>1, <2>1, TotalIsInt
<1>4. Total(f, 1 .. m + 1) = f[m + 1] + Total(f, 1 .. m) /\ f[m + 1] \in Nat
  BY <1>1, <1>2
<1> DEFINE a == Total(f, 1 .. m)
           b == f[m + 1]
<1> HIDE DEF a, b
<1>5. b + a = a + b
  BY <1>3, <1>4 DEF a, b
<1> QED
  BY <1>3, <1>4, <1>5 DEF a, b

\* The costs of the samples along a route.
Along(bs) == [k \in DOMAIN W |-> Cost(SubsetsOn(bs)[k], W[k])]

\* Each sample of a route costs a number, that of the branch it takes.
LEMMA AlongFacts ==
  ASSUME TrellisArgs, NEW bs \in Routes, NEW S, Follows(S, bs, Len(W))
  PROVE  /\ RouteCost(bs) = Total(Along(bs), 1 .. Len(W))
         /\ \A k \in 1 .. Len(W) :
              /\ SubsetsOn(bs)[k] = SubsetOf(S[k - 1], bs[k])
              /\ Along(bs)[k] = Cost(SubsetOf(S[k - 1], bs[k]), W[k])
              /\ Along(bs)[k] \in Nat
              /\ SubsetOf(S[k - 1], bs[k]) \in Subsets
              /\ S[k - 1] \in States /\ bs[k] \in Bits2
<1>0. /\ Len(W) \in Nat /\ DOMAIN W = 1 .. Len(W) /\ R \in Nat \ {0}
      /\ \A k \in 1 .. Len(W) : W[k] \in Int
  BY RowFacts
<1>1. RouteCost(bs) = Total(Along(bs), 1 .. Len(W))
  BY <1>0 DEF RouteCost, Along
<1>2. ASSUME NEW k \in 1 .. Len(W)
      PROVE  /\ SubsetsOn(bs)[k] = SubsetOf(S[k - 1], bs[k])
             /\ SubsetOf(S[k - 1], bs[k]) \in Subsets
             /\ S[k - 1] \in States /\ bs[k] \in Bits2
  <2>1. k - 1 \in 0 .. Len(W)
    BY <1>0
  <2>2. StatesOn(bs)[k - 1] = S[k - 1]
    BY <2>1, StatesOnFollow, FollowsUnique
  <2>3. S[k - 1] \in States /\ bs[k] \in Bits2
    BY <1>0, <2>1 DEF Follows, Routes, Bits2
  <2>4. SubsetsOn(bs)[k] = SubsetOf(StatesOn(bs)[k - 1], bs[k])
    BY <1>0 DEF SubsetsOn
  <2> QED
    BY <2>2, <2>3, <2>4, BranchTypes
<1>3. ASSUME NEW k \in 1 .. Len(W)
      PROVE  /\ Along(bs)[k] = Cost(SubsetOf(S[k - 1], bs[k]), W[k])
             /\ Along(bs)[k] \in Nat
  <2>1. Along(bs)[k] = Cost(SubsetsOn(bs)[k], W[k])
    BY <1>0 DEF Along
  <2> QED
    BY <1>0, <1>2, <2>1, NearestFacts
<1> QED
  BY <1>1, <1>2, <1>3

\* No route costs _INF.
LEMMA RouteFinite ==
  ASSUME TrellisArgs, NEW bs \in Routes
  PROVE  RouteCost(bs) \in Nat /\ RouteCost(bs) < INF
<1> DEFINE f == Along(bs)
           l == Len(W)
           top == INF - 1
           good == {m \in Nat : m <= l => l * Total(f, 1 .. m) <= m * top /\ Total(f, 1 .. m) \in Nat}
<1>0. l \in Nat \ {0} /\ l \in Rows /\ R \in Nat \ {0} /\ R \in Rates /\ top \in Nat
  BY RowFacts, InfNat DEF TrellisArgs
<1>1. ASSUME NEW k \in 1 .. l
      PROVE  f[k] \in Nat /\ l * f[k] <= top
  <2>1. PICK S : Follows(S, bs, Len(W))
    BY FollowsExist
  <2> DEFINE u == SubsetOf(S[k - 1], bs[k])
             d == Dist(W[k], u)
  <2>2. u \in Subsets /\ f[k] = Cost(u, W[k]) /\ f[k] \in Nat
    BY <2>1, AlongFacts
  <2>3. W[k] \in Weights /\ W[k] \in Int
    BY RowFacts
  <2>4. f[k] <= d /\ d \in Nat
    <3>1. u \in LevelIds
      BY <1>0, <2>2, LevelFacts DEF Members
    <3> HIDE DEF u
    <3> QED
      BY <1>0, <2>2, <2>3, <3>1, NearestFacts, LevelFacts
  <2>5. l * Square(W[k] - LevelAt(R, u)) < INF
    BY <1>0, <2>2, <2>3, TrellisAssumption DEF Subsets
  <2>6. l * d < INF
    BY <2>5 DEF Dist
  <2> HIDE DEF d, u, l, f
  <2>7. l * f[k] <= l * d /\ l * f[k] \in Nat /\ l * d \in Nat
    BY <1>0, <2>2, <2>4
  <2> QED
    BY <2>2, <2>6, <2>7, InfNat DEF l
<1> HIDE DEF f, l, top
<1>2. 0 \in good
  <2>1. 1 .. 0 = {}
    OBVIOUS
  <2>2. Total(f, 1 .. 0) = 0
    BY <2>1, TotalEmpty
  <2> QED
    BY <1>0, <2>2
<1>3. ASSUME NEW m \in Nat, m \in good
      PROVE  m + 1 \in good
  <2>1. SUFFICES ASSUME m + 1 <= l
        PROVE  l * Total(f, 1 .. m + 1) <= (m + 1) * top /\ Total(f, 1 .. m + 1) \in Nat
    OBVIOUS
  <2>2. l * Total(f, 1 .. m) <= m * top /\ Total(f, 1 .. m) \in Nat
    BY <1>0, <1>3, <2>1
  <2>3. \A k \in 1 .. m + 1 : f[k] \in Nat
    BY <1>0, <1>1, <2>1
  <2>4. Total(f, 1 .. m + 1) = Total(f, 1 .. m) + f[m + 1]
    BY <2>3, PrefixSum
  <2>5. m + 1 \in 1 .. l /\ f[m + 1] \in Nat /\ l * f[m + 1] <= top
    BY <1>0, <1>1, <2>1
  <2> DEFINE a == Total(f, 1 .. m)
             b == f[m + 1]
  <2>6. a \in Nat /\ b \in Nat /\ l * a <= m * top /\ l * b <= top
    BY <2>2, <2>5
  <2> HIDE DEF a, b
  <2>7. l * (a + b) = l * a + l * b /\ (m + 1) * top = m * top + top
    BY <1>0, <2>6
  <2>8. l * a \in Nat /\ l * b \in Nat /\ m * top \in Nat /\ a + b \in Nat
    BY <1>0, <2>6
  <2>9. l * (a + b) <= (m + 1) * top
    BY <1>0, <2>6, <2>7, <2>8
  <2> QED
    BY <2>4, <2>8, <2>9 DEF a, b
<1> HIDE DEF good
<1>4. Nat \subseteq good
  BY <1>2, <1>3, AllNaturals
<1>5. l * Total(f, 1 .. l) <= l * top /\ Total(f, 1 .. l) \in Nat
  BY <1>0, <1>4 DEF good
<1>6. RouteCost(bs) = Total(f, 1 .. l)
  BY FollowsExist, AlongFacts DEF f, l
<1>7. Total(f, 1 .. l) <= top
  <2> DEFINE a == Total(f, 1 .. l)
  <2>1. a \in Nat /\ l * a <= l * top
    BY <1>5
  <2> HIDE DEF a
  <2>2. a <= top
    <3>1. SUFFICES ASSUME a > top PROVE FALSE
      BY <1>0, <2>1
    <3>2. l * a = l * top + l * (a - top) /\ a - top \in Nat \ {0}
      BY <1>0, <2>1, <3>1
    <3>3. l * (a - top) \in Nat \ {0}
      BY <1>0, <3>2
    <3> QED
      BY <1>0, <2>1, <3>2, <3>3
  <2> QED
    BY <2>2 DEF a
<1> QED
  BY <1>5, <1>6, <1>7, InfNat DEF top
-----------------------------------------------------------------------------
(* The inductive invariant.  The code keeps one column of costs, pc, and    *)
(* the back pointers; P are the columns it went through.                    *)

Start == [s \in States |-> IF s = 0 THEN 0 ELSE INF]

\* No branch into a state is cheaper than its cost.
NoCheaper(P, k) ==
  \A s \in States, b \in Bits2 :
    P[k][NextOf(s, b)] <= P[k - 1][s] + Cost(SubsetOf(s, b), W[k])

\* A state that is reached is reached by its back pointer at its cost.
Reached(P, k, ns) ==
  \E b \in Bits2 :
    LET a == back[k][ns].from IN
    /\ NextOf(a, b) = ns /\ back[k][ns].in = SubsetOf(a, b)
    /\ P[k][ns] = P[k - 1][a] + Cost(SubsetOf(a, b), W[k])

Columns(P) == P \in [0 .. Len(W) -> [States -> 0 .. INF]] /\ P[0] = Start

History(P, m) ==
  /\ Columns(P)
  /\ \A k \in 1 .. m : NoCheaper(P, k)
  /\ \A k \in 1 .. m, ns \in States : P[k][ns] < INF => Reached(P, k, ns)

\* The traceback has taken the k-th branch of a route.
Link(P, S, bs, k) ==
  LET u == SubsetOf(S[k - 1], bs[k]) IN
  /\ NextOf(S[k - 1], bs[k]) = S[k] /\ bs[k] \in Bits2
  /\ path[k - t] \in LevelIds /\ path[k - t] % 4 = u /\ Dist(W[k], path[k - t]) = Cost(u, W[k])
  /\ P[k][S[k]] = P[k - 1][S[k - 1]] + Cost(u, W[k])

\* From sample t on, the path lies on a route to the cheapest state.
Traced(P) ==
  \E S \in [0 .. Len(W) -> States], bs \in [1 .. Len(W) -> Bits2] :
    /\ S[Len(W)] = LastState /\ S[t] = st /\ P[t][st] < INF
    /\ \A k \in t + 1 .. Len(W) : Link(P, S, bs, k)

BackRows == [States -> [from : States, in : Subsets]]

TrellisInv ==
  /\ TrellisArgs
  /\ tpc \in {"forward", "trace", "coded"}
  /\ st \in States
  /\ pc \in [States -> 0 .. INF]
  /\ back \in Seq(BackRows)
  /\ tpc = "forward" =>
       /\ t \in 1 .. Len(W) + 1 /\ Len(back) = t - 1 /\ path = <<>>
       /\ \E P : History(P, t - 1) /\ pc = P[t - 1]
  /\ tpc # "forward" =>
       /\ t \in 0 .. Len(W) /\ Len(back) = Len(W)
       /\ path \in Seq(Int) /\ Len(path) = Len(W) - t
       /\ \E P : History(P, Len(W)) /\ pc = P[Len(W)] /\ Traced(P)
  /\ tpc = "coded" => t = 0

\* The smaller of two numbers.
LEMMA LesserOfTwo ==
  ASSUME NEW a \in Nat, NEW b \in Nat
  PROVE  Min({a, b}) = IF b < a THEN b ELSE a
<1>1. Min({a, b}) \in {a, b} /\ \A u \in {a, b} : Min({a, b}) <= u
  <2>1. {a, b} \subseteq Nat /\ {a, b} # {}
    OBVIOUS
  <2> QED
    BY <2>1, MinIsLeast
<1> QED
  BY <1>1

\* The search starts in state 0.
LEMMA TrellisInitInv == TrellisInit => TrellisInv
<1> SUFFICES ASSUME TrellisInit PROVE TrellisInv
  OBVIOUS
<1>1. TrellisArgs
  BY DEF TrellisInit, TrellisArgs
<1>2. Len(W) \in Nat \ {0}
  BY <1>1, RowFacts
<1>3. pc = Start /\ pc \in [States -> 0 .. INF] /\ st \in States
  BY InfNat DEF TrellisInit, Start, States
<1>4. back = <<>> /\ Len(back) = 0 /\ back \in Seq(BackRows) /\ t = 1 /\ path = <<>> /\ tpc = "forward"
  BY DEF TrellisInit
<1>5. \E P : History(P, t - 1) /\ pc = P[t - 1]
  <2> DEFINE P == [k \in 0 .. Len(W) |-> Start]
  <2>1. P \in [0 .. Len(W) -> [States -> 0 .. INF]] /\ P[0] = Start
    BY <1>2, <1>3
  <2>2. t - 1 = 0 /\ 1 .. 0 = {}
    BY <1>4
  <2> HIDE DEF P
  <2>3. History(P, 0)
    BY <2>1, <2>2 DEF History, Columns
  <2> QED
    BY <1>3, <2>1, <2>2, <2>3
<1> QED
  BY <1>1, <1>2, <1>3, <1>4, <1>5 DEF TrellisInv

\* One column further.
LEMMA ForwardColumn ==
  ASSUME TrellisInv, Forward
  PROVE  /\ t \in 1 .. Len(W)
         /\ pc' \in [States -> 0 .. INF]
         /\ \A s \in States, b \in Bits2 :
              pc'[NextOf(s, b)] <= pc[s] + Cost(SubsetOf(s, b), W[t])
         /\ \E row \in BackRows :
              /\ back' = Append(back, row)
              /\ \A ns \in States : pc'[ns] < INF =>
                   \E b \in Bits2 :
                     /\ NextOf(row[ns].from, b) = ns /\ row[ns].in = SubsetOf(row[ns].from, b)
                     /\ pc'[ns] = pc[row[ns].from] + Cost(SubsetOf(row[ns].from, b), W[t])
<1> DEFINE best == [ns \in States |-> Best(ns, W[t])]
           row == [ns \in States |->
                    IF Via(best[ns], W[t]) < INF
                      THEN [from |-> best[ns][1], in |-> SubsetOf(best[ns][1], best[ns][2])]
                      ELSE [from |-> 0, in |-> 0]]
<1>0. /\ TrellisArgs /\ R \in Nat \ {0} /\ pc \in [States -> 0 .. INF]
      /\ \A k \in 1 .. Len(W) : W[k] \in Int
  BY RowFacts DEF TrellisInv
<1>1. t \in 1 .. Len(W) /\ W[t] \in Int
  <2>1. t \in 1 .. Len(W) + 1 /\ t <= Len(W) /\ Len(W) \in Nat
    BY <1>0, RowFacts DEF TrellisInv, Forward
  <2> QED
    BY <1>0, <2>1
<1>2. back' = Append(back, row) /\ pc' = [ns \in States |-> Min({INF, Via(best[ns], W[t])})]
  BY DEF Forward
<1>3. ASSUME NEW ns \in States
      PROVE  /\ best[ns] \in States \X Bits2 /\ NextOf(best[ns][1], best[ns][2]) = ns
             /\ Via(best[ns], W[t]) \in Nat
             /\ pc'[ns] = IF Via(best[ns], W[t]) < INF THEN Via(best[ns], W[t]) ELSE INF
             /\ \A s \in States, b \in Bits2 :
                  NextOf(s, b) = ns => Via(best[ns], W[t]) <= Via(<<s, b>>, W[t])
  <2>1. best[ns] = Best(ns, W[t])
    OBVIOUS
  <2>2. /\ best[ns] \in States \X Bits2 /\ NextOf(best[ns][1], best[ns][2]) = ns
        /\ \A s \in States, b \in Bits2 :
             NextOf(s, b) = ns => Via(best[ns], W[t]) <= Via(<<s, b>>, W[t])
    <3> HIDE DEF best
    <3> QED
      BY <1>0, <1>1, <2>1, BestFacts
  <2> HIDE DEF best
  <2>3. Via(best[ns], W[t]) \in Nat
    BY <1>0, <1>1, <2>2, ViaNat
  <2>4. pc'[ns] = Min({INF, Via(best[ns], W[t])})
    BY <1>2
  <2>5. pc'[ns] = IF Via(best[ns], W[t]) < INF THEN Via(best[ns], W[t]) ELSE INF
    BY <2>3, <2>4, InfNat, LesserOfTwo
  <2> QED
    BY <2>2, <2>3, <2>5
<1>4. row \in BackRows
  <2>1. ASSUME NEW ns \in States
        PROVE  row[ns] \in [from : States, in : Subsets]
    <3>1. best[ns][1] \in States /\ best[ns][2] \in Bits2
      <4> HIDE DEF best
      <4> QED
        BY <1>3
    <3>2. SubsetOf(best[ns][1], best[ns][2]) \in Subsets /\ 0 \in States /\ 0 \in Subsets
      <4> HIDE DEF best
      <4> QED
        BY <3>1, BranchTypes DEF States, Subsets
    <3>3. row[ns] = IF Via(best[ns], W[t]) < INF
                      THEN [from |-> best[ns][1], in |-> SubsetOf(best[ns][1], best[ns][2])]
                      ELSE [from |-> 0, in |-> 0]
      OBVIOUS
    <3> HIDE DEF best, row
    <3> QED
      BY <3>1, <3>2, <3>3
  <2>2. row = [ns \in States |-> row[ns]]
    OBVIOUS
  <2> HIDE DEF row
  <2> QED
    BY <2>1, <2>2 DEF BackRows
<1>5. pc' \in [States -> 0 .. INF]
  <2>1. \A ns \in States : pc'[ns] \in 0 .. INF
    <3> HIDE DEF best
    <3> QED
      BY <1>3, InfNat
  <2> HIDE DEF best
  <2> QED
    BY <1>2, <2>1
<1>6. ASSUME NEW s \in States, NEW b \in Bits2
      PROVE  pc'[NextOf(s, b)] <= pc[s] + Cost(SubsetOf(s, b), W[t])
  <2>1. NextOf(s, b) \in States /\ <<s, b>> \in States \X Bits2
    BY BranchTypes
  <2>2. Via(<<s, b>>, W[t]) = pc[s] + Cost(SubsetOf(s, b), W[t]) /\ Via(<<s, b>>, W[t]) \in Nat
    BY <1>0, <1>1, <2>1, ViaNat DEF Via
  <2> DEFINE v == Via(best[NextOf(s, b)], W[t])
             z == Via(<<s, b>>, W[t])
  <2>3. v \in Nat /\ v <= z /\ pc'[NextOf(s, b)] = IF v < INF THEN v ELSE INF
    <3> HIDE DEF best
    <3> QED
      BY <1>3, <2>1
  <2> HIDE DEF best, v, z
  <2>4. pc'[NextOf(s, b)] <= z
    BY <2>2, <2>3, InfNat DEF z
  <2> QED
    BY <2>2, <2>4 DEF z
<1>7. ASSUME NEW ns \in States, pc'[ns] < INF
      PROVE  \E b \in Bits2 :
               /\ NextOf(row[ns].from, b) = ns /\ row[ns].in = SubsetOf(row[ns].from, b)
               /\ pc'[ns] = pc[row[ns].from] + Cost(SubsetOf(row[ns].from, b), W[t])
  <2>1. Via(best[ns], W[t]) < INF /\ pc'[ns] = Via(best[ns], W[t])
    <3> HIDE DEF best
    <3> QED
      BY <1>3, <1>7, InfNat
  <2>2. row[ns].from = best[ns][1] /\ row[ns].in = SubsetOf(best[ns][1], best[ns][2])
    BY <2>1
  <2> HIDE DEF best, row
  <2>3. best[ns][2] \in Bits2 /\ NextOf(best[ns][1], best[ns][2]) = ns
    BY <1>3
  <2>4. Via(best[ns], W[t]) = pc[best[ns][1]] + Cost(SubsetOf(best[ns][1], best[ns][2]), W[t])
    BY DEF Via
  <2> QED
    BY <2>1, <2>2, <2>3, <2>4
<1> HIDE DEF best, row
<1> QED
  BY <1>1, <1>2, <1>4, <1>5, <1>6, <1>7
\* A step of the search keeps what it has found so far.
LEMMA ForwardInv == ASSUME TrellisInv, Forward PROVE TrellisInv'
<1>0. /\ TrellisArgs /\ t \in 1 .. Len(W) /\ Len(W) \in Nat \ {0}
      /\ Len(back) = t - 1 /\ back \in Seq(BackRows)
      /\ UNCHANGED <<R, W, tpc, st, path>> /\ t' = t + 1 /\ tpc = "forward" /\ path = <<>>
      /\ st \in States
  BY ForwardColumn, RowFacts DEF TrellisInv, Forward
<1>1. PICK row \in BackRows :
        /\ back' = Append(back, row)
        /\ \A ns \in States : pc'[ns] < INF =>
             \E b \in Bits2 :
               /\ NextOf(row[ns].from, b) = ns /\ row[ns].in = SubsetOf(row[ns].from, b)
               /\ pc'[ns] = pc[row[ns].from] + Cost(SubsetOf(row[ns].from, b), W[t])
  BY ForwardColumn
<1>2. PICK P : History(P, t - 1) /\ pc = P[t - 1]
  BY <1>0 DEF TrellisInv
<1>q. PICK Q : Q = [P EXCEPT ![t] = pc']
  OBVIOUS
<1>3. /\ back' \in Seq(BackRows) /\ Len(back') = t
      /\ back'[t] = row /\ \A k \in 1 .. t - 1 : back'[k] = back[k]
  <2>1. Len(back) + 1 = t
    BY <1>0
  <2> QED
    BY <1>0, <1>1, <2>1, AppendProperties
<1>4. pc' \in [States -> 0 .. INF]
  BY ForwardColumn
<1>5. /\ Q \in [0 .. Len(W) -> [States -> 0 .. INF]]
      /\ Q[t] = pc' /\ \A k \in 0 .. t - 1 : Q[k] = P[k]
  <2>1. P \in [0 .. Len(W) -> [States -> 0 .. INF]]
    BY <1>2 DEF History, Columns
  <2> QED
    BY <1>0, <1>4, <1>q, <2>1
<1>6. /\ \A u, w : Cost(u, w)' = Cost(u, w)
      /\ \A ks : Columns(ks)' = Columns(ks)
  BY <1>0 DEF Cost, Members, LevelIds, Dist, Columns
<1>7. Columns(Q)
  BY <1>0, <1>2, <1>5 DEF Columns, History
<1>8. ASSUME NEW k \in 1 .. t
      PROVE  NoCheaper(Q, k)'
  <2>1. k - 1 \in 0 .. t - 1 /\ (k = t \/ (k \in 1 .. t - 1 /\ k \in 0 .. t - 1))
    BY <1>0
  <2>2. Q[k - 1] = P[k - 1]
    BY <1>5, <2>1
  <2>3. CASE k = t
    <3>1. k - 1 = t - 1 /\ Q[k] = pc' /\ Q[k - 1] = pc
      BY <1>2, <1>5, <2>2, <2>3
    <3>2. \A s \in States, b \in Bits2 :
            Q[k][NextOf(s, b)] <= Q[k - 1][s] + Cost(SubsetOf(s, b), W[k])
      BY <2>3, <3>1, ForwardColumn
    <3> QED
      BY <1>0, <1>6, <3>2 DEF NoCheaper
  <2>4. CASE k \in 1 .. t - 1 /\ k \in 0 .. t - 1
    <3>1. NoCheaper(P, k) /\ Q[k] = P[k]
      BY <1>2, <1>5, <2>4 DEF History
    <3> QED
      BY <1>0, <1>6, <2>2, <3>1 DEF NoCheaper
  <2> QED
    BY <2>1, <2>3, <2>4
<1>9. ASSUME NEW k \in 1 .. t, NEW ns \in States, Q[k][ns] < INF
      PROVE  Reached(Q, k, ns)'
  <2>1. k - 1 \in 0 .. t - 1 /\ (k = t \/ (k \in 1 .. t - 1 /\ k \in 0 .. t - 1))
    BY <1>0
  <2>2. Q[k - 1] = P[k - 1]
    BY <1>5, <2>1
  <2>3. CASE k = t
    <3>1. k - 1 = t - 1 /\ Q[k] = pc' /\ Q[k - 1] = pc /\ back'[k] = row
      BY <1>2, <1>3, <1>5, <2>2, <2>3
    <3>2. pc'[ns] < INF
      BY <1>9, <3>1
    <3>3. PICK b \in Bits2 :
            /\ NextOf(row[ns].from, b) = ns /\ row[ns].in = SubsetOf(row[ns].from, b)
            /\ pc'[ns] = pc[row[ns].from] + Cost(SubsetOf(row[ns].from, b), W[t])
      BY <1>1, <3>2
    <3> QED
      BY <1>0, <1>6, <2>3, <3>1, <3>3 DEF Reached
  <2>4. CASE k \in 1 .. t - 1 /\ k \in 0 .. t - 1
    <3>1. Q[k] = P[k] /\ back'[k] = back[k]
      BY <1>3, <1>5, <2>4
    <3>2. Reached(P, k, ns)
      BY <1>2, <1>9, <2>4, <3>1 DEF History
    <3> QED
      BY <1>0, <1>6, <2>2, <3>1, <3>2 DEF Reached
  <2> QED
    BY <2>1, <2>3, <2>4
<1>10. History(Q, t - 1)'
  <2>1. t' - 1 = t
    BY <1>0
  <2>2. History(Q, t - 1)' <=>
          /\ Columns(Q)' /\ \A k \in 1 .. t' - 1 : NoCheaper(Q, k)'
          /\ \A k \in 1 .. t' - 1, ns \in States : Q[k][ns] < INF => Reached(Q, k, ns)'
    BY DEF History
  <2> QED
    BY <1>6, <1>7, <1>8, <1>9, <2>1, <2>2
<1>11. TrellisArgs' /\ tpc' = "forward" /\ st' \in States /\ path' = <<>>
  BY <1>0 DEF TrellisArgs
<1>12. t' \in 1 .. Len(W') + 1 /\ Len(back') = t' - 1 /\ t' - 1 = t
  BY <1>0, <1>3
<1>13. (\E ks : History(ks, t - 1) /\ pc = ks[t - 1])'
  BY <1>5, <1>10, <1>12
<1> QED
  BY <1>3, <1>4, <1>11, <1>12, <1>13 DEF TrellisInv
\* A route exists, and the cheapest state is reached.
LEMMA CheapestFacts ==
  ASSUME pc \in [States -> 0 .. INF]
  PROVE  LastState \in States /\ \A s \in States : pc[LastState] <= pc[s]
<1> DEFINE least == {s \in States : \A u \in States : pc[s] <= pc[u]}
<1>1. IsFiniteSet(States) /\ 0 \in States /\ States \subseteq Nat
  <2>1. 0 \in Int /\ 3 \in Int
    OBVIOUS
  <2>2. IsFiniteSet(0 .. 3)
    BY <2>1, FS_Interval
  <2> QED
    BY <2>2 DEF States
<1>2. \A s \in States : pc[s] \in Int
  BY InfNat
<1>3. least # {} /\ least \subseteq Nat
  <2>1. PICK s \in States : \A u \in States : pc[s] <= pc[u]
    BY <1>1, <1>2, LeastValue
  <2> QED
    BY <1>1, <2>1
<1>4. Min(least) \in least
  <2> HIDE DEF least
  <2> QED
    BY <1>3, MinIsLeast
<1> QED
  BY <1>4 DEF LastState

\* No route is cheaper than the column of its last state.
LEMMA LowerBound ==
  ASSUME TrellisArgs, NEW P, History(P, Len(W)), NEW bs \in Routes, NEW S, Follows(S, bs, Len(W))
  PROVE  S[Len(W)] \in States /\ P[Len(W)][S[Len(W)]] <= RouteCost(bs)
<1> DEFINE f == Along(bs)
           good == {m \in Nat : m <= Len(W) => P[m][S[m]] <= Total(f, 1 .. m) /\ Total(f, 1 .. m) \in Int}
<1>0. /\ Len(W) \in Nat
      /\ \A k \in 1 .. Len(W) :
           /\ f[k] \in Nat /\ f[k] = Cost(SubsetOf(S[k - 1], bs[k]), W[k])
           /\ S[k - 1] \in States /\ bs[k] \in Bits2 /\ S[k] = NextOf(S[k - 1], bs[k])
  BY RowFacts, AlongFacts DEF Follows
<1>1. \A k \in 0 .. Len(W) : S[k] \in States /\ P[k][S[k]] \in Nat
  <2>1. ASSUME NEW k \in 0 .. Len(W) PROVE S[k] \in States /\ P[k][S[k]] \in Nat
    <3>1. S[k] \in States /\ P[k] \in [States -> 0 .. INF]
      BY DEF Follows, History, Columns
    <3>2. P[k][S[k]] \in 0 .. INF
      BY <3>1
    <3> QED
      BY <3>1, <3>2, InfNat
  <2> QED
    BY <2>1
<1> HIDE DEF f
<1>2. 0 \in good
  <2>1. 1 .. 0 = {} /\ Total(f, {}) = 0
    BY TotalEmpty
  <2>2. P[0][S[0]] = 0
    BY DEF History, Columns, Start, Follows, States
  <2> QED
    BY <2>1, <2>2
<1>3. ASSUME NEW m \in Nat, m \in good
      PROVE  m + 1 \in good
  <2>1. SUFFICES ASSUME m + 1 <= Len(W)
        PROVE  P[m + 1][S[m + 1]] <= Total(f, 1 .. m + 1) /\ Total(f, 1 .. m + 1) \in Int
    OBVIOUS
  <2>2. /\ m + 1 \in 1 .. Len(W) /\ (m + 1) - 1 = m
        /\ m \in 0 .. Len(W) /\ m + 1 \in 0 .. Len(W)
        /\ \A k \in 1 .. m + 1 : k \in 1 .. Len(W)
    BY <1>0, <2>1
  <2>3. P[m][S[m]] <= Total(f, 1 .. m) /\ Total(f, 1 .. m) \in Int
    BY <1>3, <2>1
  <2>4. Total(f, 1 .. m + 1) = Total(f, 1 .. m) + f[m + 1]
    BY <1>0, <2>2, PrefixSum
  <2>5. P[m + 1][S[m + 1]] <= P[m][S[m]] + f[m + 1] /\ f[m + 1] \in Nat
    <3>1. NoCheaper(P, m + 1)
      BY <2>2 DEF History
    <3>2. /\ S[m] \in States /\ bs[m + 1] \in Bits2 /\ S[m + 1] = NextOf(S[m], bs[m + 1])
          /\ f[m + 1] = Cost(SubsetOf(S[m], bs[m + 1]), W[m + 1]) /\ f[m + 1] \in Nat
      BY <1>0, <2>2
    <3> QED
      BY <2>2, <3>1, <3>2 DEF NoCheaper
  <2>6. P[m][S[m]] \in Nat /\ P[m + 1][S[m + 1]] \in Nat
    BY <1>1, <2>2
  <2> DEFINE a == Total(f, 1 .. m)
             p == P[m][S[m]]
             q == P[m + 1][S[m + 1]]
             d == f[m + 1]
  <2>7. p <= a /\ a \in Int /\ q <= p + d /\ d \in Nat /\ p \in Nat /\ q \in Nat
    BY <2>3, <2>5, <2>6
  <2> HIDE DEF a, p, q, d
  <2>8. q <= a + d /\ a + d \in Int
    BY <2>7
  <2> QED
    BY <2>4, <2>8 DEF a, q, d
<1> HIDE DEF good
<1>4. Nat \subseteq good
  BY <1>2, <1>3, AllNaturals
<1>5. P[Len(W)][S[Len(W)]] <= Total(f, 1 .. Len(W))
  BY <1>0, <1>4 DEF good
<1>6. RouteCost(bs) = Total(f, 1 .. Len(W))
  BY AlongFacts DEF f
<1>7. Len(W) \in 0 .. Len(W)
  BY <1>0
<1> QED
  BY <1>1, <1>5, <1>6, <1>7

\* Search and traceback meet at the cheapest state, which is reached.
LEMMA StartTraceInv == ASSUME TrellisInv, StartTrace PROVE TrellisInv'
<1>0. /\ TrellisArgs /\ Len(W) \in Nat \ {0} /\ t = Len(W) + 1 /\ Len(back) = Len(W)
      /\ UNCHANGED <<R, W, pc, back, path>> /\ tpc' = "trace" /\ t' = Len(W) /\ st' = LastState
      /\ path = <<>> /\ pc \in [States -> 0 .. INF] /\ back \in Seq(BackRows)
  BY RowFacts DEF TrellisInv, StartTrace
<1>1. PICK P : History(P, Len(W)) /\ pc = P[Len(W)]
  <2>1. t - 1 = Len(W) /\ tpc = "forward"
    BY <1>0 DEF StartTrace
  <2> QED
    BY <2>1 DEF TrellisInv
<1>2. LastState \in States /\ \A s \in States : pc[LastState] <= pc[s]
  BY <1>0, CheapestFacts
<1>3. pc[LastState] < INF
  <2> DEFINE bs == [k \in DOMAIN W |-> 0]
  <2>1. bs \in Routes
    BY DEF Routes
  <2> HIDE DEF bs
  <2>2. PICK S : Follows(S, bs, Len(W))
    BY <1>0, <2>1, FollowsExist
  <2>3. S[Len(W)] \in States /\ pc[S[Len(W)]] <= RouteCost(bs)
    BY <1>0, <1>1, <2>1, <2>2, LowerBound
  <2>4. RouteCost(bs) \in Nat /\ RouteCost(bs) < INF
    BY <1>0, <2>1, RouteFinite
  <2>5. pc[LastState] \in 0 .. INF /\ pc[S[Len(W)]] \in 0 .. INF /\ pc[LastState] <= pc[S[Len(W)]]
    BY <1>0, <1>2, <2>3
  <2> QED
    BY <2>3, <2>4, <2>5, InfNat
<1>4. /\ \A ks : History(ks, Len(W))' <=> History(ks, Len(W))
      /\ LastState' = LastState
  BY <1>0 DEF History, Columns, NoCheaper, Reached, Cost, Members, LevelIds, Dist, LastState
<1>5. Traced(P)'
  <2> DEFINE S == [k \in 0 .. Len(W) |-> LastState]
             bs == [k \in 1 .. Len(W) |-> 0]
  <2>1. /\ S \in [0 .. Len(W) -> States] /\ bs \in [1 .. Len(W) -> Bits2]
        /\ S[Len(W)] = LastState
    BY <1>0, <1>2 DEF Bits2
  <2>2. P[Len(W)][LastState] < INF
    BY <1>1, <1>3
  <2>3. t' + 1 .. Len(W') = {} /\ t' = Len(W) /\ W' = W /\ st' = LastState
    BY <1>0
  <2>4. \E V \in [0 .. Len(W) -> States], cs \in [1 .. Len(W) -> Bits2] : V[Len(W)] = LastState
    <3> HIDE DEF S, bs
    <3> QED
      BY <2>1
  <2> QED
    BY <1>4, <2>2, <2>3, <2>4 DEF Traced
<1>6. (\E ks : History(ks, Len(W)) /\ pc = ks[Len(W)] /\ Traced(ks))'
  BY <1>0, <1>1, <1>4, <1>5
<1>7. TrellisArgs' /\ st' \in States /\ t' \in 0 .. Len(W') /\ Len(back') = Len(W')
  BY <1>0, <1>2 DEF TrellisArgs
<1>8. path' \in Seq(Int) /\ Len(path') = Len(W') - t'
  <2>1. path' = <<>> /\ Len(<<>>) = 0 /\ Len(W') - t' = 0
    BY <1>0
  <2> QED
    BY <2>1
<1> QED
  BY <1>0, <1>6, <1>7, <1>8 DEF TrellisInv
\* A step of the traceback goes one link back along the route.
LEMMA TraceInv == ASSUME TrellisInv, Trace PROVE TrellisInv'
<1>0. /\ TrellisArgs /\ Len(W) \in Nat \ {0} /\ t \in 1 .. Len(W) /\ t - 1 \in 0 .. Len(W)
      /\ R \in Nat \ {0} /\ W[t] \in Int
      /\ UNCHANGED <<R, W, tpc, pc, back>> /\ t' = t - 1 /\ tpc = "trace"
      /\ path' = <<Nearest(back[t][st].in, W[t])>> \o path /\ st' = back[t][st].from
      /\ path \in Seq(Int) /\ Len(path) = Len(W) - t
      /\ back \in Seq(BackRows) /\ Len(back) = Len(W) /\ st \in States
      /\ pc \in [States -> 0 .. INF]
  BY RowFacts DEF TrellisInv, Trace
<1>1. PICK P : History(P, Len(W)) /\ pc = P[Len(W)] /\ Traced(P)
  BY <1>0 DEF TrellisInv
<1>2. PICK S \in [0 .. Len(W) -> States], bs \in [1 .. Len(W) -> Bits2] :
        /\ S[Len(W)] = LastState /\ S[t] = st /\ P[t][st] < INF
        /\ \A k \in t + 1 .. Len(W) : Link(P, S, bs, k)
  BY <1>1 DEF Traced
<1> DEFINE a == back[t][st].from
           u == back[t][st].in
<1>3. a \in States /\ u \in Subsets
  <2>1. back[t] \in BackRows
    BY <1>0
  <2>2. back[t][st] \in [from : States, in : Subsets]
    BY <1>0, <2>1 DEF BackRows
  <2> QED
    BY <2>2
<1>4. PICK b \in Bits2 :
        /\ NextOf(a, b) = st /\ u = SubsetOf(a, b)
        /\ P[t][st] = P[t - 1][a] + Cost(u, W[t])
  <2>1. Reached(P, t, st)
    BY <1>0, <1>1, <1>2 DEF History
  <2>2. PICK b \in Bits2 :
          /\ NextOf(a, b) = st /\ u = SubsetOf(a, b)
          /\ P[t][st] = P[t - 1][a] + Cost(SubsetOf(a, b), W[t])
    BY <2>1 DEF Reached
  <2> QED
    BY <2>2
<1> DEFINE x == Nearest(u, W[t])
<1>5. x \in LevelIds /\ x % 4 = u /\ Dist(W[t], x) = Cost(u, W[t]) /\ Cost(u, W[t]) \in Nat /\ x \in Int
  <2> HIDE DEF u
  <2>1. x \in LevelIds /\ x % 4 = u /\ Dist(W[t], x) = Cost(u, W[t]) /\ Cost(u, W[t]) \in Nat
    BY <1>0, <1>3, NearestFacts
  <2>2. LevelIds \subseteq Int
    BY DEF LevelIds
  <2> HIDE DEF x
  <2> QED
    BY <2>1, <2>2
<1> HIDE DEF x, u, a
<1>6. path' = <<x>> \o path /\ st' = a
  BY <1>0 DEF x, u, a
<1>7. /\ path' \in Seq(Int) /\ Len(path') = Len(path) + 1
      /\ path'[1] = x /\ \A j \in 1 .. Len(path) : path'[j + 1] = path[j]
  <2>1. <<x>> \in Seq(Int) /\ Len(<<x>>) = 1 /\ <<x>>[1] = x
    BY <1>5
  <2>2. path \in Seq(Int) /\ path' = <<x>> \o path /\ Len(path) \in Nat
    BY <1>0, <1>6
  <2> DEFINE first == <<x>>
  <2> HIDE DEF first
  <2>3. /\ first \o path \in Seq(Int) /\ Len(first \o path) = Len(first) + Len(path)
        /\ \A j \in 1 .. Len(first) + Len(path) :
             (first \o path)[j] = IF j <= Len(first) THEN first[j] ELSE path[j - Len(first)]
    BY <2>1, <2>2, ConcatProperties DEF first
  <2>4. Len(first) = 1 /\ first[1] = x /\ path' = first \o path
    BY <2>1, <2>2 DEF first
  <2>5. ASSUME NEW j \in 1 .. Len(path) PROVE path'[j + 1] = path[j]
    <3>1. j + 1 \in 1 .. 1 + Len(path) /\ ~(j + 1 <= 1) /\ (j + 1) - 1 = j
      BY <2>2
    <3> QED
      BY <2>3, <2>4, <3>1
  <2>6. 1 \in 1 .. 1 + Len(path) /\ 1 <= 1
    BY <2>2
  <2> QED
    BY <2>2, <2>3, <2>4, <2>5, <2>6
<1>8. P[t - 1][a] \in Nat /\ P[t - 1][a] < INF
  <2>1. P[t - 1] \in [States -> 0 .. INF]
    BY <1>0, <1>1 DEF History, Columns
  <2>2. P[t - 1][a] \in 0 .. INF
    BY <1>3, <2>1
  <2>3. P[t - 1][a] \in Nat
    BY <2>2, InfNat
  <2> QED
    BY <1>2, <1>4, <1>5, <2>3, InfNat
<1>9. PICK V, cs : V = [S EXCEPT ![t - 1] = a] /\ cs = [bs EXCEPT ![t] = b]
  OBVIOUS
<1>10. /\ V \in [0 .. Len(W) -> States] /\ cs \in [1 .. Len(W) -> Bits2]
       /\ V[t - 1] = a /\ cs[t] = b
       /\ \A k \in t .. Len(W) : V[k] = S[k]
       /\ \A k \in t + 1 .. Len(W) : cs[k] = bs[k]
  BY <1>0, <1>3, <1>4, <1>9
<1>11. /\ \A ks : History(ks, Len(W))' <=> History(ks, Len(W))
       /\ LastState' = LastState /\ LevelIds' = LevelIds
       /\ \A v, w : Cost(v, w)' = Cost(v, w) /\ Dist(v, w)' = Dist(v, w)
  BY <1>0 DEF History, Columns, NoCheaper, Reached, Cost, Members, LevelIds, Dist, LastState
<1>12. ASSUME NEW k \in t .. Len(W)
       PROVE  Link(P, V, cs, k)'
  <2>1. W' = W /\ t' = t - 1
    BY <1>0
  <2> DEFINE v == SubsetOf(V[k - 1], cs[k])
             y == path'[k - (t - 1)]
  <2>2. SUFFICES /\ NextOf(V[k - 1], cs[k]) = V[k] /\ cs[k] \in Bits2
                 /\ y \in LevelIds /\ y % 4 = v /\ Dist(W[k], y) = Cost(v, W[k])
                 /\ P[k][V[k]] = P[k - 1][V[k - 1]] + Cost(v, W[k])
    BY <1>11, <2>1 DEF Link
  <2>3. CASE k = t
    <3>1. V[k - 1] = a /\ cs[k] = b /\ V[k] = st /\ k - (t - 1) = 1 /\ y = x /\ v = u
      BY <1>0, <1>2, <1>4, <1>7, <1>10, <2>3
    <3> HIDE DEF v, y
    <3> QED
      BY <1>4, <1>5, <2>3, <3>1
  <2>4. CASE k # t
    <3>1. k \in t + 1 .. Len(W) /\ k - 1 \in t .. Len(W) /\ k - t \in 1 .. Len(path)
          /\ (k - t) + 1 = k - (t - 1)
      BY <1>0, <2>4
    <3>2. V[k - 1] = S[k - 1] /\ V[k] = S[k] /\ cs[k] = bs[k] /\ y = path[k - t]
      BY <1>7, <1>10, <3>1
    <3>3. Link(P, S, bs, k)
      BY <1>2, <3>1
    <3>4. v = SubsetOf(S[k - 1], bs[k])
      BY <3>2
    <3> HIDE DEF v, y
    <3> QED
      BY <3>2, <3>3, <3>4 DEF Link
  <2> QED
    BY <2>3, <2>4
<1>13. Traced(P)'
  <2>1. W' = W /\ t' = t - 1 /\ (t - 1) + 1 = t /\ st' = a
    BY <1>0, <1>6
  <2>2. V[Len(W)] = LastState
    BY <1>0, <1>2, <1>10
  <2> QED
    BY <1>8, <1>10, <1>11, <1>12, <2>1, <2>2 DEF Traced
<1>14. (\E ks : History(ks, Len(W)) /\ pc = ks[Len(W)] /\ Traced(ks))'
  BY <1>0, <1>1, <1>11, <1>13
<1>15. /\ TrellisArgs' /\ st' \in States /\ t' \in 0 .. Len(W') /\ Len(back') = Len(W')
       /\ Len(path') = Len(W') - t' /\ tpc' = "trace"
  BY <1>0, <1>3, <1>6, <1>7 DEF TrellisArgs
<1> QED
  BY <1>0, <1>7, <1>14, <1>15 DEF TrellisInv

\* The end of the loop, and steps that are not of the quantizer.
LEMMA CodedInv == ASSUME TrellisInv, Coded \/ UNCHANGED trellisVars PROVE TrellisInv'
<1>1. /\ UNCHANGED <<R, W, t, pc, back, st, path>>
      /\ tpc' = tpc \/ (tpc = "trace" /\ t = 0 /\ tpc' = "coded")
  BY DEF Coded, trellisVars
<1>2. /\ \A ks, m : History(ks, m)' <=> History(ks, m)
      /\ \A ks : Traced(ks)' <=> Traced(ks)
      /\ TrellisArgs' <=> TrellisArgs
  BY <1>1 DEF History, Columns, NoCheaper, Reached, Cost, Members, LevelIds, Dist, LastState,
     Traced, Link, TrellisArgs
<1> DEFINE Begun == \E ks : History(ks, t - 1) /\ pc = ks[t - 1]
           Ended == \E ks : History(ks, Len(W)) /\ pc = ks[Len(W)] /\ Traced(ks)
<1>3. (Begun' <=> Begun) /\ (Ended' <=> Ended)
  BY <1>1, <1>2
<1> HIDE DEF Begun, Ended
<1>4. TrellisInv <=>
        /\ TrellisArgs /\ tpc \in {"forward", "trace", "coded"} /\ st \in States
        /\ pc \in [States -> 0 .. INF] /\ back \in Seq(BackRows)
        /\ tpc = "forward" => t \in 1 .. Len(W) + 1 /\ Len(back) = t - 1 /\ path = <<>> /\ Begun
        /\ tpc # "forward" => /\ t \in 0 .. Len(W) /\ Len(back) = Len(W)
                              /\ path \in Seq(Int) /\ Len(path) = Len(W) - t /\ Ended
        /\ tpc = "coded" => t = 0
  BY DEF TrellisInv, Begun, Ended
<1>5. TrellisInv' <=>
        /\ TrellisArgs' /\ tpc' \in {"forward", "trace", "coded"} /\ st' \in States
        /\ pc' \in [States -> 0 .. INF] /\ back' \in Seq(BackRows)
        /\ tpc' = "forward" => t' \in 1 .. Len(W') + 1 /\ Len(back') = t' - 1 /\ path' = <<>> /\ Begun'
        /\ tpc' # "forward" => /\ t' \in 0 .. Len(W') /\ Len(back') = Len(W')
                               /\ path' \in Seq(Int) /\ Len(path') = Len(W') - t' /\ Ended'
        /\ tpc' = "coded" => t' = 0
  BY DEF TrellisInv, Begun, Ended
<1> QED
  BY <1>1, <1>2, <1>3, <1>4, <1>5
\* What a coded row says of the searches behind it.
LEMMA CodedIsOptimal ==
  ASSUME TrellisInv, tpc = "coded"
  PROVE  /\ st = 0
         /\ \E bs \in Routes : /\ \A k \in DOMAIN W : path[k] % 4 = SubsetsOn(bs)[k]
                               /\ PathCost = RouteCost(bs)
                               /\ \A cs \in Routes : RouteCost(bs) <= RouteCost(cs)
<1>0. /\ TrellisArgs /\ Len(W) \in Nat \ {0} /\ t = 0 /\ st \in States /\ R \in Nat \ {0}
      /\ DOMAIN W = 1 .. Len(W) /\ \A k \in 1 .. Len(W) : W[k] \in Int
      /\ pc \in [States -> 0 .. INF]
  BY RowFacts DEF TrellisInv
<1>1. PICK P : History(P, Len(W)) /\ pc = P[Len(W)] /\ Traced(P)
  BY DEF TrellisInv
<1>2. PICK S \in [0 .. Len(W) -> States], bs \in [1 .. Len(W) -> Bits2] :
        /\ S[Len(W)] = LastState /\ S[0] = st /\ P[0][st] < INF
        /\ \A k \in 1 .. Len(W) : Link(P, S, bs, k)
  <2>1. t + 1 = 1
    BY <1>0
  <2> QED
    BY <1>0, <1>1, <2>1 DEF Traced
<1>3. st = 0 /\ P[0][st] = 0
  <2>1. P[0] = [s \in States |-> IF s = 0 THEN 0 ELSE INF]
    BY <1>1 DEF History, Columns, Start
  <2> QED
    BY <1>0, <1>2, <2>1, InfNat
<1>4. bs \in Routes
  BY <1>0 DEF Routes, Bits2
<1>5. Follows(S, bs, Len(W))
  BY <1>2, <1>3 DEF Follows, Link
<1> DEFINE f == Along(bs)
           d == [k \in DOMAIN W |-> Dist(W[k], path[k])]
<1>6. ASSUME NEW k \in 1 .. Len(W)
      PROVE  /\ path[k] % 4 = SubsetsOn(bs)[k] /\ d[k] = f[k] /\ f[k] \in Nat
             /\ P[k][S[k]] = P[k - 1][S[k - 1]] + f[k]
  <2>1. k - t = k
    BY <1>0
  <2> DEFINE u == SubsetOf(S[k - 1], bs[k])
  <2>2. /\ path[k] % 4 = u /\ Dist(W[k], path[k]) = Cost(u, W[k])
        /\ P[k][S[k]] = P[k - 1][S[k - 1]] + Cost(u, W[k])
    BY <1>2, <2>1 DEF Link
  <2>3. SubsetsOn(bs)[k] = u /\ f[k] = Cost(u, W[k]) /\ f[k] \in Nat
    BY <1>0, <1>4, <1>5, AlongFacts
  <2>4. d[k] = Dist(W[k], path[k])
    BY <1>0
  <2> HIDE DEF f, d, u
  <2> QED
    BY <2>2, <2>3, <2>4
<1>7. PathCost = RouteCost(bs) /\ RouteCost(bs) = Total(f, 1 .. Len(W))
  <2>1. PathCost = Total(d, 1 .. Len(W))
    BY <1>0 DEF PathCost
  <2>2. RouteCost(bs) = Total(f, 1 .. Len(W))
    BY <1>0, <1>4, <1>5, AlongFacts
  <2>3. IsFiniteSet(1 .. Len(W))
    BY <1>0, FS_Interval
  <2> HIDE DEF f, d
  <2>4. Total(d, 1 .. Len(W)) = Total(f, 1 .. Len(W))
    BY <1>6, <2>3, TotalSame
  <2> QED
    BY <2>1, <2>2, <2>4
<1>8. Total(f, 1 .. Len(W)) = P[Len(W)][S[Len(W)]]
  <2> DEFINE good == {m \in Nat : m <= Len(W) =>
                        Total(f, 1 .. m) = P[m][S[m]] /\ Total(f, 1 .. m) \in Int}
  <2> HIDE DEF f, d
  <2>1. 0 \in good
    <3>1. 1 .. 0 = {} /\ Total(f, {}) = 0
      BY TotalEmpty
    <3> QED
      BY <1>2, <1>3, <3>1
  <2>2. ASSUME NEW m \in Nat, m \in good
        PROVE  m + 1 \in good
    <3>1. SUFFICES ASSUME m + 1 <= Len(W)
          PROVE  Total(f, 1 .. m + 1) = P[m + 1][S[m + 1]] /\ Total(f, 1 .. m + 1) \in Int
      OBVIOUS
    <3>2. /\ m + 1 \in 1 .. Len(W) /\ (m + 1) - 1 = m
          /\ \A k \in 1 .. m + 1 : k \in 1 .. Len(W)
      BY <1>0, <3>1
    <3>3. Total(f, 1 .. m) = P[m][S[m]] /\ Total(f, 1 .. m) \in Int
      BY <1>0, <2>2, <3>1
    <3>4. Total(f, 1 .. m + 1) = Total(f, 1 .. m) + f[m + 1] /\ f[m + 1] \in Nat
      BY <1>6, <3>2, PrefixSum
    <3>5. P[m + 1][S[m + 1]] = P[m][S[m]] + f[m + 1]
      BY <1>6, <3>2
    <3> QED
      BY <3>3, <3>4, <3>5
  <2> HIDE DEF good
  <2>3. Nat \subseteq good
    BY <2>1, <2>2, AllNaturals
  <2> QED
    BY <1>0, <2>3 DEF good
<1>9. ASSUME NEW cs \in Routes PROVE RouteCost(bs) <= RouteCost(cs)
  <2>1. PICK V : Follows(V, cs, Len(W))
    BY <1>0, FollowsExist
  <2>2. V[Len(W)] \in States /\ pc[V[Len(W)]] <= RouteCost(cs)
    BY <1>0, <1>1, <2>1, LowerBound
  <2>3. pc[LastState] <= pc[V[Len(W)]] /\ LastState \in States
    BY <1>0, <2>2, CheapestFacts
  <2>4. RouteCost(bs) = pc[LastState]
    BY <1>1, <1>2, <1>7, <1>8
  <2>5. pc[LastState] \in Nat /\ pc[V[Len(W)]] \in Nat /\ RouteCost(cs) \in Nat
    <3>1. pc[LastState] \in 0 .. INF /\ pc[V[Len(W)]] \in 0 .. INF
      BY <1>0, <2>2, <2>3
    <3>2. RouteCost(cs) \in Nat
      BY <1>0, RouteFinite
    <3> QED
      BY <3>1, <3>2, InfNat
  <2> QED
    BY <2>2, <2>3, <2>4, <2>5
<1> HIDE DEF f, d
<1> QED
  BY <1>0, <1>3, <1>4, <1>6, <1>7, <1>9

\* Every state of the quantizer satisfies the invariant.
LEMMA TrellisInvariant == TrellisSpec => []TrellisInv
<1>1. TrellisInv /\ [TrellisNext]_trellisVars => TrellisInv'
  BY ForwardInv, StartTraceInv, TraceInv, CodedInv DEF TrellisNext
<1> QED
  BY <1>1, TrellisInitInv, PTL DEF TrellisSpec

\* tcq_encode is "Viterbi-optimal": for every rate, every row and every length
\* that _INF can stand for more than, the level indices lie on a route of the
\* trellis and no route is nearer to the row.
THEOREM PathIsOptimal == TrellisSpec => []TrellisOptimal
<1>1. TrellisInv => TrellisOptimal
  <2> SUFFICES ASSUME TrellisInv, tpc = "coded"
               PROVE  /\ st = 0
                      /\ \E bs \in Routes : \A k \in DOMAIN W : path[k] % 4 = SubsetsOn(bs)[k]
                      /\ PathCost = Min({RouteCost(bs) : bs \in Routes})
    BY DEF TrellisOptimal
  <2> DEFINE costs == {RouteCost(bs) : bs \in Routes}
  <2>1. PICK bs \in Routes : /\ \A k \in DOMAIN W : path[k] % 4 = SubsetsOn(bs)[k]
                             /\ PathCost = RouteCost(bs)
                             /\ \A cs \in Routes : RouteCost(bs) <= RouteCost(cs)
    BY CodedIsOptimal
  <2>2. costs \subseteq Nat /\ RouteCost(bs) \in costs /\ \A c \in costs : RouteCost(bs) <= c
    BY <2>1, RouteFinite DEF TrellisInv
  <2>3. Min(costs) \in costs /\ \A c \in costs : Min(costs) <= c
    <3> HIDE DEF costs
    <3> QED
      BY <2>2, MinIsLeast
  <2>4. PathCost = Min(costs)
    <3> HIDE DEF costs
    <3>1. Min(costs) <= RouteCost(bs) /\ RouteCost(bs) <= Min(costs)
      BY <2>2, <2>3
    <3>2. Min(costs) \in Nat /\ RouteCost(bs) \in Nat
      BY <2>2, <2>3
    <3> QED
      BY <2>1, <3>1, <3>2
  <2> QED
    BY <2>1, <2>4, CodedIsOptimal
<1> QED
  BY <1>1, TrellisInvariant, PTL

\* In every state costs stay at or below _INF, the back pointers and the path
\* are no longer than the row, and the path has only indices of levels.
THEOREM TrellisTypeCorrect == TrellisSpec => []TrellisTypeOK
<1>1. TrellisInv => TrellisTypeOK
  <2> SUFFICES ASSUME TrellisInv PROVE TrellisTypeOK
    OBVIOUS
  <2>1. Len(W) \in Nat /\ t \in 0 .. Len(W) + 1 /\ st \in States /\ Len(back) <= Len(W)
    BY RowFacts DEF TrellisInv
  <2>2. \A s \in States : pc[s] \in 0 .. INF
    BY DEF TrellisInv
  <2>3. Len(path) <= Len(W) /\ \A k \in DOMAIN path : path[k] \in LevelIds
    <3>1. CASE tpc = "forward"
      BY <2>1, <3>1 DEF TrellisInv
    <3>2. CASE tpc # "forward"
      <4>1. t \in 0 .. Len(W) /\ path \in Seq(Int) /\ Len(path) = Len(W) - t
        BY <3>2 DEF TrellisInv
      <4>2. PICK P, S, bs : \A k \in t + 1 .. Len(W) : Link(P, S, bs, k)
        BY <3>2 DEF TrellisInv, Traced
      <4>3. ASSUME NEW k \in 1 .. Len(path) PROVE path[k] \in LevelIds
        <5>1. k + t \in t + 1 .. Len(W) /\ (k + t) - t = k
          BY <2>1, <4>1
        <5>2. Link(P, S, bs, k + t)
          BY <4>2, <5>1
        <5> QED
          BY <5>1, <5>2 DEF Link
      <4> QED
        BY <2>1, <4>1, <4>3
    <3> QED
      BY <3>1, <3>2
  <2> QED
    BY <2>1, <2>2, <2>3 DEF TrellisTypeOK
<1> QED
  BY <1>1, TrellisInvariant, PTL
=============================================================================
