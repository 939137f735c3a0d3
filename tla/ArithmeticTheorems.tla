------------------------- MODULE ArithmeticTheorems ----------------------------
(***************************************************************************)
(* What a sum over a finite set is, whatever order its elements are taken  *)
(* in.                                                                     *)
(***************************************************************************)
EXTENDS Arithmetic, FiniteSetTheorems, WellFoundedInduction, TLAPS

Some(s) == CHOOSE x \in s : TRUE

\* h is the function by which the fold over the subsets of S is defined.
Adds(h, f, S) ==
  h = [s \in SUBSET S |-> IF s = {} THEN 0 ELSE f[Some(s)] + h[s \ {Some(s)}]]

\* Induction over the subsets of a finite set: a smallest counterexample.
LEMMA SmallestSubset ==
  ASSUME NEW S, IsFiniteSet(S), NEW Bad, Bad \subseteq SUBSET S, Bad # {}
  PROVE  \E T \in Bad : \A U \in Bad : U \subseteq T => U = T
<1>1. IsWellFoundedOn(StrictSubsetOrdering(S), SUBSET S)
  BY FS_StrictSubsetOrderingWellFounded, FS_FiniteSubsetsOfFinite
<1>2. PICK T \in Bad : \A U \in Bad : ~(<<U, T>> \in StrictSubsetOrdering(S))
  BY <1>1, WFMin
<1> QED
  BY <1>2 DEF StrictSubsetOrdering

\* A sum over a larger set agrees on the subsets.
LEMMA AddsAgree ==
  ASSUME NEW f, NEW S, NEW T, IsFiniteSet(T), T \subseteq S,
         NEW g, NEW h, Adds(g, f, S), Adds(h, f, T)
  PROVE  \A U \in SUBSET T : g[U] = h[U]
<1> DEFINE Bad == {U \in SUBSET T : g[U] # h[U]}
<1>1. SUFFICES ASSUME Bad # {} PROVE FALSE
  OBVIOUS
<1>2. PICK U \in Bad : \A V \in Bad : V \subseteq U => V = U
  <2>1. Bad \subseteq SUBSET T
    OBVIOUS
  <2> HIDE DEF Bad
  <2> QED
    BY <1>1, <2>1, SmallestSubset
<1>3. U \in SUBSET T /\ U \in SUBSET S /\ g[U] # h[U]
  OBVIOUS
<1>4. /\ g[U] = IF U = {} THEN 0 ELSE f[Some(U)] + g[U \ {Some(U)}]
      /\ h[U] = IF U = {} THEN 0 ELSE f[Some(U)] + h[U \ {Some(U)}]
  BY <1>3 DEF Adds
<1>5. U # {} /\ Some(U) \in U
  BY <1>3, <1>4 DEF Some
<1>6. g[U \ {Some(U)}] = h[U \ {Some(U)}]
  BY <1>2, <1>3, <1>5
<1> QED
  BY <1>3, <1>4, <1>6

\* The sum of a finite set is well defined.
LEMMA AddsExist ==
  ASSUME NEW f, NEW S, IsFiniteSet(S)
  PROVE  \E h : Adds(h, f, S)
<1> DEFINE Bad == {T \in SUBSET S : ~ \E h : Adds(h, f, T)}
           H(T) == CHOOSE h : Adds(h, f, T)
<1>1. SUFFICES ASSUME Bad # {} PROVE FALSE
  OBVIOUS
<1>2. PICK T \in Bad : \A U \in Bad : U \subseteq T => U = T
  <2>1. Bad \subseteq SUBSET S
    OBVIOUS
  <2> HIDE DEF Bad
  <2> QED
    BY <1>1, <2>1, SmallestSubset
<1>3. T \in SUBSET S /\ ~ \E h : Adds(h, f, T)
  OBVIOUS
<1>4. \A U : U \subseteq T /\ U # T => Adds(H(U), f, U) /\ IsFiniteSet(U)
  <2>1. \A U : U \subseteq T /\ U # T => \E h : Adds(h, f, U)
    BY <1>2, <1>3
  <2>2. \A U : U \subseteq T => IsFiniteSet(U)
    BY <1>3, FS_Subset
  <2> QED
    BY <2>1, <2>2
<1> DEFINE h == [U \in SUBSET T |-> IF U = {} THEN 0
                   ELSE f[Some(U)] + H(U \ {Some(U)})[U \ {Some(U)}]]
<1>5. ASSUME NEW U \in SUBSET T, U # {}
      PROVE  h[U \ {Some(U)}] = H(U \ {Some(U)})[U \ {Some(U)}]
  <2> DEFINE V == U \ {Some(U)}
             X == V \ {Some(V)}
  <2>1. Some(U) \in U /\ V \subseteq T /\ V # T
    BY <1>5 DEF Some
  <2>2. Adds(H(V), f, V) /\ IsFiniteSet(V)
    BY <1>4, <2>1
  <2>3. X \subseteq V /\ X \subseteq T /\ X # T
    BY <2>1
  <2>4. Adds(H(X), f, X) /\ IsFiniteSet(X)
    BY <1>4, <2>3
  <2>5. h[V] = IF V = {} THEN 0 ELSE f[Some(V)] + H(X)[X]
    BY <2>1
  <2>6. H(V)[V] = IF V = {} THEN 0 ELSE f[Some(V)] + H(V)[X]
    <3> HIDE DEF H
    <3> QED
      BY <2>2 DEF Adds
  <2>7. H(V)[X] = H(X)[X]
    <3> HIDE DEF H, V, X
    <3> QED
      BY <2>2, <2>3, <2>4, AddsAgree
  <2> HIDE DEF H, h, V, X
  <2>8. h[V] = H(V)[V]
    BY <2>5, <2>6, <2>7
  <2> QED
    BY <2>8 DEF V
<1>6. Adds(h, f, T)
  <2>1. h = [U \in SUBSET T |-> IF U = {} THEN 0 ELSE f[Some(U)] + h[U \ {Some(U)}]]
    <3> DEFINE k == [U \in SUBSET T |-> IF U = {} THEN 0 ELSE f[Some(U)] + h[U \ {Some(U)}]]
    <3>1. ASSUME NEW U \in SUBSET T PROVE h[U] = k[U]
      <4>1. h[U] = IF U = {} THEN 0 ELSE f[Some(U)] + H(U \ {Some(U)})[U \ {Some(U)}]
        OBVIOUS
      <4>2. k[U] = IF U = {} THEN 0 ELSE f[Some(U)] + h[U \ {Some(U)}]
        OBVIOUS
      <4>3. U # {} => h[U \ {Some(U)}] = H(U \ {Some(U)})[U \ {Some(U)}]
        BY <1>5
      <4> HIDE DEF h, k, H
      <4> QED
        BY <4>1, <4>2, <4>3
    <3> QED
      BY <3>1
  <2> HIDE DEF h
  <2> QED
    BY <2>1 DEF Adds
<1> QED
  BY <1>3, <1>6

\* A sum is the value of one element and the sum of the rest.
LEMMA TotalUnfold ==
  ASSUME NEW f, NEW S, IsFiniteSet(S)
  PROVE  Total(f, S) = IF S = {} THEN 0
                       ELSE f[Some(S)] + Total(f, S \ {Some(S)})
<1> DEFINE H(T) == CHOOSE h : Adds(h, f, T)
           T == S \ {Some(S)}
<1>1. \A U : Total(f, U) = H(U)[U]
  BY DEF Total, MapThenSumSet, MapThenFoldSet, Adds, Some
<1>2. IsFiniteSet(T) /\ T \subseteq S
  BY FS_Subset
<1>3. Adds(H(S), f, S)
  BY AddsExist
<1>4. Adds(H(T), f, T)
  <2> HIDE DEF T
  <2> QED
    BY <1>2, AddsExist
<1>5. H(S)[S] = IF S = {} THEN 0 ELSE f[Some(S)] + H(S)[T]
  <2> HIDE DEF H
  <2> QED
    BY <1>3 DEF Adds
<1>6. H(S)[T] = H(T)[T]
  <2> HIDE DEF H, T
  <2> QED
    BY <1>2, <1>3, <1>4, AddsAgree
<1> HIDE DEF H
<1> QED
  BY <1>1, <1>5, <1>6

\* A sum of integers is an integer.
LEMMA TotalIsInt ==
  ASSUME NEW f, NEW S, IsFiniteSet(S), \A s \in S : f[s] \in Int
  PROVE  Total(f, S) \in Int
<1> DEFINE Bad == {T \in SUBSET S : Total(f, T) \notin Int}
<1>1. SUFFICES ASSUME Bad # {} PROVE FALSE
  OBVIOUS
<1>2. PICK T \in Bad : \A U \in Bad : U \subseteq T => U = T
  <2>1. Bad \subseteq SUBSET S
    OBVIOUS
  <2> HIDE DEF Bad
  <2> QED
    BY <1>1, <2>1, SmallestSubset
<1>3. T \in SUBSET S /\ IsFiniteSet(T) /\ Total(f, T) \notin Int
  BY FS_Subset
<1>4. T # {} => Some(T) \in T
  BY DEF Some
<1>5. T # {} => Total(f, T \ {Some(T)}) \in Int
  BY <1>2, <1>3, <1>4
<1>6. Total(f, T) = IF T = {} THEN 0 ELSE f[Some(T)] + Total(f, T \ {Some(T)})
  BY <1>3, TotalUnfold
<1> QED
  BY <1>3, <1>4, <1>5, <1>6

\* Any element may be taken out first.
LEMMA TotalRemove ==
  ASSUME NEW f, NEW S, IsFiniteSet(S), \A s \in S : f[s] \in Int, NEW x \in S
  PROVE  Total(f, S) = f[x] + Total(f, S \ {x})
<1> DEFINE Bad == {T \in SUBSET S : \E y \in T : Total(f, T) # f[y] + Total(f, T \ {y})}
<1>1. SUFFICES ASSUME Bad # {} PROVE FALSE
  OBVIOUS
<1>2. PICK T \in Bad : \A U \in Bad : U \subseteq T => U = T
  <2>1. Bad \subseteq SUBSET S
    OBVIOUS
  <2> HIDE DEF Bad
  <2> QED
    BY <1>1, <2>1, SmallestSubset
<1>3. T \in SUBSET S /\ IsFiniteSet(T) /\ \A U : U \subseteq T => IsFiniteSet(U)
  BY FS_Subset
<1>4. PICK y \in T : Total(f, T) # f[y] + Total(f, T \ {y})
  OBVIOUS
<1> DEFINE z == Some(T)
           V == T \ {y, z}
<1>5. z \in T /\ Total(f, T) = f[z] + Total(f, T \ {z})
  BY <1>3, TotalUnfold DEF Some
<1> HIDE DEF z
<1>6. y # z
  BY <1>4, <1>5
<1>7. Total(f, T \ {z}) = f[y] + Total(f, V)
  <2>1. T \ {z} \in SUBSET S /\ T \ {z} # T /\ y \in T \ {z} /\ (T \ {z}) \ {y} = V
    BY <1>3, <1>5, <1>6
  <2> QED
    BY <1>2, <2>1
<1>8. Total(f, T \ {y}) = f[z] + Total(f, V)
  <2>1. T \ {y} \in SUBSET S /\ T \ {y} # T /\ z \in T \ {y} /\ (T \ {y}) \ {z} = V
    BY <1>3, <1>5, <1>6
  <2> QED
    BY <1>2, <2>1
<1>9. Total(f, V) \in Int /\ f[y] \in Int /\ f[z] \in Int
  <2>1. IsFiniteSet(V) /\ \A s \in V : f[s] \in Int
    BY <1>3
  <2> HIDE DEF V
  <2> QED
    BY <1>3, <1>5, <2>1, TotalIsInt
<1> HIDE DEF V
<1> QED
  BY <1>4, <1>5, <1>7, <1>8, <1>9

\* The empty sum.
LEMMA TotalEmpty == ASSUME NEW f PROVE Total(f, {}) = 0
  BY TotalUnfold, FS_EmptySet

\* Equal values have equal sums.
LEMMA TotalSame ==
  ASSUME NEW f, NEW g, NEW S, IsFiniteSet(S), \A s \in S : f[s] = g[s]
  PROVE  Total(f, S) = Total(g, S)
<1> DEFINE Bad == {T \in SUBSET S : Total(f, T) # Total(g, T)}
<1>1. SUFFICES ASSUME Bad # {} PROVE FALSE
  OBVIOUS
<1>2. PICK T \in Bad : \A U \in Bad : U \subseteq T => U = T
  <2>1. Bad \subseteq SUBSET S
    OBVIOUS
  <2> HIDE DEF Bad
  <2> QED
    BY <1>1, <2>1, SmallestSubset
<1>3. T \in SUBSET S /\ IsFiniteSet(T) /\ Total(f, T) # Total(g, T)
  BY FS_Subset
<1>4. /\ Total(f, T) = IF T = {} THEN 0 ELSE f[Some(T)] + Total(f, T \ {Some(T)})
      /\ Total(g, T) = IF T = {} THEN 0 ELSE g[Some(T)] + Total(g, T \ {Some(T)})
  BY <1>3, TotalUnfold
<1>5. T # {} => Some(T) \in T
  BY DEF Some
<1>6. T # {} => Total(f, T \ {Some(T)}) = Total(g, T \ {Some(T)})
  BY <1>2, <1>3, <1>5
<1> QED
  BY <1>3, <1>4, <1>5, <1>6

\* Smaller values have a smaller sum.
LEMMA TotalMonotone ==
  ASSUME NEW f, NEW g, NEW S, IsFiniteSet(S),
         \A s \in S : f[s] \in Int /\ g[s] \in Int /\ f[s] <= g[s]
  PROVE  Total(f, S) <= Total(g, S)
<1> DEFINE Bad == {T \in SUBSET S : ~(Total(f, T) <= Total(g, T))}
<1>1. SUFFICES ASSUME Bad # {} PROVE FALSE
  OBVIOUS
<1>2. PICK T \in Bad : \A U \in Bad : U \subseteq T => U = T
  <2>1. Bad \subseteq SUBSET S
    OBVIOUS
  <2> HIDE DEF Bad
  <2> QED
    BY <1>1, <2>1, SmallestSubset
<1>3. T \in SUBSET S /\ IsFiniteSet(T) /\ ~(Total(f, T) <= Total(g, T))
  BY FS_Subset
<1>4. /\ Total(f, T) = IF T = {} THEN 0 ELSE f[Some(T)] + Total(f, T \ {Some(T)})
      /\ Total(g, T) = IF T = {} THEN 0 ELSE g[Some(T)] + Total(g, T \ {Some(T)})
  BY <1>3, TotalUnfold
<1> DEFINE z == Some(T)
           V == T \ {z}
<1>5. T # {} => z \in T
  BY DEF Some
<1>6. T # {} => Total(f, V) <= Total(g, V)
  BY <1>2, <1>3, <1>5
<1>7. Total(f, V) \in Int /\ Total(g, V) \in Int
  <2>1. IsFiniteSet(V) /\ V \subseteq S
    BY <1>3, FS_Subset
  <2> HIDE DEF V
  <2> QED
    BY <2>1, TotalIsInt
<1>8. T # {} => f[z] \in Int /\ g[z] \in Int /\ f[z] <= g[z]
  BY <1>3, <1>5
<1>9. /\ Total(f, T) = IF T = {} THEN 0 ELSE f[z] + Total(f, V)
      /\ Total(g, T) = IF T = {} THEN 0 ELSE g[z] + Total(g, V)
  BY <1>4
<1> HIDE DEF z, V
<1> QED
  BY <1>3, <1>6, <1>7, <1>8, <1>9

\* Changing one entry changes the sum by as much.
LEMMA TotalUpdate ==
  ASSUME NEW f, NEW g, NEW S, IsFiniteSet(S), NEW x \in S,
         \A s \in S : f[s] \in Int /\ g[s] \in Int,
         \A s \in S \ {x} : f[s] = g[s]
  PROVE  Total(g, S) = Total(f, S) + g[x] - f[x]
<1> DEFINE V == S \ {x}
<1>1. IsFiniteSet(V) /\ V \subseteq S
  BY FS_Subset
<1>2. Total(f, S) = f[x] + Total(f, V) /\ Total(g, S) = g[x] + Total(g, V)
  BY TotalRemove
<1> HIDE DEF V
<1>3. Total(f, V) \in Int
  BY <1>1, TotalIsInt
<1>4. Total(f, V) = Total(g, V)
  <2>1. \A s \in V : f[s] = g[s]
    BY DEF V
  <2> QED
    BY <1>1, <2>1, TotalSame
<1>5. f[x] \in Int /\ g[x] \in Int
  OBVIOUS
<1> QED
  BY <1>2, <1>3, <1>4, <1>5

\* A part of a sum of natural numbers.
LEMMA TotalPart ==
  ASSUME NEW f, NEW S, IsFiniteSet(S), \A s \in S : f[s] \in Nat, NEW T, T \subseteq S
  PROVE  Total(f, T) \in Nat /\ Total(f, S) \in Nat /\ Total(f, T) <= Total(f, S)
<1>0. \A U : U \subseteq S => IsFiniteSet(U) /\ Total(f, U) \in Int
  <2>1. ASSUME NEW U, U \subseteq S
        PROVE  IsFiniteSet(U) /\ Total(f, U) \in Int
    <3>1. IsFiniteSet(U) /\ \A s \in U : f[s] \in Int
      BY <2>1, FS_Subset
    <3> QED
      BY <3>1, TotalIsInt
  <2> QED
    BY <2>1
<1> DEFINE Bad == {U \in SUBSET S : \E V \in SUBSET U : ~(Total(f, V) <= Total(f, U))}
<1>1. Bad = {}
  <2>1. SUFFICES ASSUME Bad # {} PROVE FALSE
    OBVIOUS
  <2>2. PICK U \in Bad : \A V \in Bad : V \subseteq U => V = U
    <3>1. Bad \subseteq SUBSET S
      OBVIOUS
    <3> HIDE DEF Bad
    <3> QED
      BY <2>1, <3>1, SmallestSubset
  <2>3. PICK V \in SUBSET U : ~(Total(f, V) <= Total(f, U))
    OBVIOUS
  <2>4. U \subseteq S /\ V \subseteq S /\ Total(f, U) \in Int /\ Total(f, V) \in Int
    BY <1>0
  <2>5. PICK x \in U : x \notin V
    BY <2>3, <2>4
  <2>6. U \ {x} \in SUBSET S /\ U \ {x} # U /\ V \in SUBSET (U \ {x})
    BY <2>4, <2>5
  <2>7. Total(f, V) <= Total(f, U \ {x}) /\ Total(f, U \ {x}) \in Int
    BY <1>0, <2>2, <2>6
  <2>8. Total(f, U) = f[x] + Total(f, U \ {x}) /\ f[x] \in Nat
    <3>1. IsFiniteSet(U) /\ (\A s \in U : f[s] \in Int) /\ f[x] \in Nat
      BY <1>0, <2>4
    <3> QED
      BY <3>1, TotalRemove
  <2> QED
    BY <2>3, <2>4, <2>7, <2>8
<1>2. \A U \in SUBSET S : \A V \in SUBSET U : Total(f, V) <= Total(f, U)
  BY <1>1
<1>3. \A U \in SUBSET S : Total(f, {}) <= Total(f, U)
  BY <1>2
<1>4. \A U \in SUBSET S : Total(f, U) \in Nat
  BY <1>0, <1>3, TotalEmpty
<1> QED
  BY <1>2, <1>4

\* A sum of ones counts.
LEMMA TotalCounts ==
  ASSUME NEW f, NEW S, IsFiniteSet(S), \A s \in S : f[s] = 1
  PROVE  Total(f, S) = Cardinality(S)
<1> DEFINE Bad == {T \in SUBSET S : Total(f, T) # Cardinality(T)}
<1>1. SUFFICES ASSUME Bad # {} PROVE FALSE
  OBVIOUS
<1>2. PICK T \in Bad : \A U \in Bad : U \subseteq T => U = T
  <2>1. Bad \subseteq SUBSET S
    OBVIOUS
  <2> HIDE DEF Bad
  <2> QED
    BY <1>1, <2>1, SmallestSubset
<1>3. T \in SUBSET S /\ IsFiniteSet(T) /\ Total(f, T) # Cardinality(T)
  BY FS_Subset
<1>4. Total(f, T) = IF T = {} THEN 0 ELSE f[Some(T)] + Total(f, T \ {Some(T)})
  BY <1>3, TotalUnfold
<1>5. T # {}
  BY <1>3, <1>4, FS_EmptySet
<1>6. Some(T) \in T
  BY <1>5 DEF Some
<1>7. Total(f, T \ {Some(T)}) = Cardinality(T \ {Some(T)})
  BY <1>2, <1>3, <1>6
<1>8. Cardinality(T \ {Some(T)}) = Cardinality(T) - 1 /\ Cardinality(T) \in Nat
  BY <1>3, <1>6, FS_RemoveElement, FS_CardinalityType
<1>9. f[Some(T)] = 1
  BY <1>3, <1>6
<1> QED
  BY <1>3, <1>4, <1>5, <1>7, <1>8, <1>9
\* Of finitely many numbers one is the least.
LEMMA LeastValue ==
  ASSUME NEW f, NEW S, IsFiniteSet(S), S # {}, \A s \in S : f[s] \in Int
  PROVE  \E x \in S : \A y \in S : f[x] <= f[y]
<1> DEFINE Bad == {T \in SUBSET S : T # {} /\ ~ \E x \in T : \A y \in T : f[x] <= f[y]}
<1>1. SUFFICES ASSUME Bad # {} PROVE FALSE
  OBVIOUS
<1>2. PICK T \in Bad : \A U \in Bad : U \subseteq T => U = T
  <2>1. Bad \subseteq SUBSET S
    OBVIOUS
  <2> HIDE DEF Bad
  <2> QED
    BY <1>1, <2>1, SmallestSubset
<1>3. PICK z \in T : TRUE
  OBVIOUS
<1>4. T \in SUBSET S /\ z \in T /\ \A y \in T : f[y] \in Int
  OBVIOUS
<1>5. T # {z}
  BY <1>4
<1>6. PICK x \in T \ {z} : \A y \in T \ {z} : f[x] <= f[y]
  <2>1. T \ {z} \notin Bad /\ T \ {z} # {} /\ T \ {z} \in SUBSET S
    BY <1>2, <1>4, <1>5
  <2> QED
    BY <2>1
<1>7. \E y \in T : ~(f[x] <= f[y])
  OBVIOUS
<1>8. ~(f[x] <= f[z])
  BY <1>6, <1>7
<1>9. \A y \in T : f[z] <= f[y]
  BY <1>4, <1>6, <1>8
<1> QED
  BY <1>4, <1>9
\* Min finds the least of a set of natural numbers.
LEMMA MinIsLeast ==
  ASSUME NEW S, S \subseteq Nat, S # {}
  PROVE  Min(S) \in S /\ \A u \in S : Min(S) <= u
<1>1. PICK m \in S : \A u \in S : ~(<<u, m>> \in OpToRel(<, Nat))
  BY NatLessThanWellFounded, WFMin
<1>2. ASSUME NEW u \in S
      PROVE  m <= u
  <2>1. u \in Nat /\ m \in Nat /\ ~(<<u, m>> \in OpToRel(<, Nat))
    BY <1>1
  <2> QED
    BY <2>1 DEF OpToRel
<1> QED
  BY <1>2 DEF Min
\* Induction over the natural numbers, for a set of them.
LEMMA AllNaturals ==
  ASSUME NEW S, 0 \in S, \A m \in Nat : m \in S => m + 1 \in S
  PROVE  Nat \subseteq S
<1> DEFINE Bad == {m \in Nat : m \notin S}
<1>1. SUFFICES ASSUME Bad # {} PROVE FALSE
  OBVIOUS
<1> DEFINE m == Min(Bad)
<1>2. m \in Bad /\ \A k \in Bad : m <= k
  <2>1. Bad \subseteq Nat
    OBVIOUS
  <2> HIDE DEF Bad
  <2> QED
    BY <1>1, <2>1, MinIsLeast
<1> HIDE DEF m
<1>3. m \in Nat /\ m \notin S /\ m # 0
  BY <1>2
<1>4. m - 1 \in Nat /\ m - 1 \notin Bad
  BY <1>2, <1>3
<1>5. m - 1 \in S
  BY <1>4
<1>6. (m - 1) + 1 \in S
  BY <1>4, <1>5
<1> QED
  BY <1>3, <1>6

\* Terms outside the support do not count.
LEMMA TotalSupport ==
  ASSUME NEW f, NEW S, IsFiniteSet(S), \A s \in S : f[s] \in Int,
         NEW T, T \subseteq S, \A s \in S \ T : f[s] = 0
  PROVE  Total(f, S) = Total(f, T)
<1> DEFINE Bad == {U \in SUBSET S : T \subseteq U /\ Total(f, U) # Total(f, T)}
<1>1. SUFFICES ASSUME Bad # {} PROVE FALSE
  OBVIOUS
<1>2. PICK U \in Bad : \A V \in Bad : V \subseteq U => V = U
  <2>1. Bad \subseteq SUBSET S
    OBVIOUS
  <2> HIDE DEF Bad
  <2> QED
    BY <1>1, <2>1, SmallestSubset
<1>3. U \subseteq S /\ T \subseteq U /\ Total(f, U) # Total(f, T) /\ IsFiniteSet(U)
  BY FS_Subset
<1>4. PICK z \in U : z \notin T
  BY <1>3
<1>5. Total(f, U \ {z}) = Total(f, T)
  <2>1. U \ {z} \in SUBSET S /\ U \ {z} # U /\ T \subseteq U \ {z}
    BY <1>3, <1>4
  <2> QED
    BY <1>2, <2>1
<1>6. Total(f, U) = f[z] + Total(f, U \ {z}) /\ f[z] = 0
  <2>1. \A s \in U : f[s] \in Int
    BY <1>3
  <2> QED
    BY <1>3, <1>4, <2>1, TotalRemove
<1>7. Total(f, T) \in Int
  <2>1. IsFiniteSet(T) /\ \A s \in T : f[s] \in Int
    BY FS_Subset
  <2> QED
    BY <2>1, TotalIsInt
<1> QED
  BY <1>3, <1>5, <1>6, <1>7

-----------------------------------------------------------------------------
(* 1 << k.  That the recursive function exists is put together from the     *)
(* functions that obey its equation up to a number.                         *)
ShiftsTo(g, m) ==
  g \in [Nat -> Int] /\ g[0] = 1 /\ \A k \in 1 .. m : g[k] = 2 * g[k - 1]

\* Shift up to any number.
LEMMA ShiftsExist == \A m \in Nat : \E g : ShiftsTo(g, m)
<1> DEFINE good == {m \in Nat : \E g : ShiftsTo(g, m)}
<1>1. 0 \in good
  <2>1. ShiftsTo([k \in Nat |-> 1], 0)
    BY DEF ShiftsTo
  <2> QED
    BY <2>1
<1>2. ASSUME NEW m \in Nat, m \in good
      PROVE  m + 1 \in good
  <2>1. PICK g : ShiftsTo(g, m)
    BY <1>2
  <2> DEFINE h == [g EXCEPT ![m + 1] = 2 * g[m]]
  <2>2. h \in [Nat -> Int] /\ h[m + 1] = 2 * g[m] /\ \A k \in 0 .. m : h[k] = g[k]
    BY <2>1 DEF ShiftsTo
  <2>3. ASSUME NEW k \in 1 .. m + 1
        PROVE  h[k] = 2 * h[k - 1]
    <3>1. k = m + 1 \/ k \in 1 .. m
      OBVIOUS
    <3>2. k - 1 \in 0 .. m /\ (k \in 1 .. m => k \in 0 .. m)
      OBVIOUS
    <3> HIDE DEF h
    <3>3. CASE k = m + 1
      <4>1. k - 1 = m
        BY <3>3
      <4> QED
        BY <2>2, <3>2, <3>3, <4>1
    <3>4. CASE k \in 1 .. m
      BY <2>1, <2>2, <3>2, <3>4 DEF ShiftsTo
    <3> QED
      BY <3>1, <3>3, <3>4
  <2>4. h[0] = 1
    BY <2>1, <2>2 DEF ShiftsTo
  <2> HIDE DEF h
  <2>5. ShiftsTo(h, m + 1)
    BY <2>2, <2>3, <2>4 DEF ShiftsTo
  <2> QED
    BY <2>5
<1> HIDE DEF good
<1>3. Nat \subseteq good
  BY <1>1, <1>2, AllNaturals
<1> QED
  BY <1>3 DEF good

\* Two such functions agree as far as both go.
LEMMA ShiftsAgree ==
  ASSUME NEW m \in Nat, NEW g, NEW h, ShiftsTo(g, m), ShiftsTo(h, m)
  PROVE  \A k \in 0 .. m : g[k] = h[k]
<1> DEFINE good == {k \in Nat : k <= m => g[k] = h[k]}
<1>1. 0 \in good
  BY DEF ShiftsTo
<1>2. ASSUME NEW k \in Nat, k \in good
      PROVE  k + 1 \in good
  <2>1. SUFFICES ASSUME k + 1 <= m PROVE g[k + 1] = h[k + 1]
    OBVIOUS
  <2>2. k + 1 \in 1 .. m /\ (k + 1) - 1 = k /\ g[k] = h[k]
    BY <1>2, <2>1
  <2> QED
    BY <2>2 DEF ShiftsTo
<1> HIDE DEF good
<1>3. Nat \subseteq good
  BY <1>1, <1>2, AllNaturals
<1> QED
  BY <1>3 DEF good

\* 1 << k is positive and doubles with k.
LEMMA ShiftFacts ==
  /\ Shift[0] = 1
  /\ \A k \in Nat : Shift[k] \in Nat \ {0} /\ Shift[k + 1] = 2 * Shift[k]
<1> DEFINE G(m) == CHOOSE g : ShiftsTo(g, m)
           Rule(h) == h = [k \in Nat |-> IF k = 0 THEN 1 ELSE 2 * h[k - 1]]
           f == [m \in Nat |-> G(m)[m]]
<1>1. \A m \in Nat : ShiftsTo(G(m), m)
  BY ShiftsExist
<1> HIDE DEF G
<1>2. f[0] = 1
  BY <1>1 DEF ShiftsTo
<1>3. ASSUME NEW m \in Nat
      PROVE  f[m + 1] = 2 * f[m]
  <2>1. ShiftsTo(G(m), m) /\ ShiftsTo(G(m + 1), m + 1)
    BY <1>1
  <2>2. ShiftsTo(G(m + 1), m)
    BY <2>1 DEF ShiftsTo
  <2>3. G(m + 1)[m] = G(m)[m]
    BY <2>1, <2>2, ShiftsAgree
  <2>4. m + 1 \in 1 .. m + 1 /\ (m + 1) - 1 = m
    OBVIOUS
  <2>5. G(m + 1)[m + 1] = 2 * G(m + 1)[m]
    BY <2>1, <2>4 DEF ShiftsTo
  <2> QED
    BY <2>3, <2>5
<1>4. Rule(f)
  <2>1. ASSUME NEW k \in Nat
        PROVE  f[k] = IF k = 0 THEN 1 ELSE 2 * f[k - 1]
    <3>1. CASE k = 0
      BY <1>2, <3>1
    <3>2. CASE k # 0
      <4>1. k - 1 \in Nat /\ (k - 1) + 1 = k
        BY <3>2
      <4> HIDE DEF f
      <4> QED
        BY <1>3, <3>2, <4>1
    <3> QED
      BY <3>1, <3>2
  <2>2. f = [k \in Nat |-> f[k]]
    OBVIOUS
  <2> HIDE DEF f
  <2> QED
    BY <2>1, <2>2
<1>5. Rule(Shift)
  <2>1. Shift = CHOOSE h : Rule(h)
    BY DEF Shift
  <2> HIDE DEF f, Rule
  <2> QED
    BY <1>4, <2>1
<1>6. Shift[0] = 1 /\ \A k \in Nat : Shift[k + 1] = 2 * Shift[k]
  <2>1. \A k \in Nat : Shift[k] = IF k = 0 THEN 1 ELSE 2 * Shift[k - 1]
    BY <1>5
  <2>2. ASSUME NEW k \in Nat PROVE Shift[k + 1] = 2 * Shift[k]
    <3>1. k + 1 \in Nat /\ k + 1 # 0 /\ (k + 1) - 1 = k
      OBVIOUS
    <3> QED
      BY <2>1, <3>1
  <2> QED
    BY <2>1, <2>2
<1> DEFINE good == {k \in Nat : Shift[k] \in Nat \ {0}}
<1>7. 0 \in good /\ \A k \in Nat : k \in good => k + 1 \in good
  BY <1>6
<1> HIDE DEF good
<1>8. Nat \subseteq good
  BY <1>7, AllNaturals
<1> QED
  BY <1>6, <1>8 DEF good
=============================================================================
