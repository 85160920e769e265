------------------------------ MODULE FiniteSums ------------------------------
(***************************************************************************)
(* Facts about the sum of the balances of a finite set of accounts,        *)
(* SumFunction of the community module Functions.  The sum is a recursive  *)
(* function over subsets of the accounts, so each fact is an induction.    *)
(* The inductions are stated with sets instead of predicates: a fact that  *)
(* fails for some subset fails for a subset all of whose proper subsets    *)
(* satisfy it (MinimalSubset), and one unfolding of the recursion          *)
(* contradicts that.  A recursion over numbers is met the same way, with   *)
(* the least number that fails (LeastNumber).                              *)
(***************************************************************************)
EXTENDS Integers, FiniteSets, FiniteSetsExt, Functions, FiniteSetTheorems,
        WellFoundedInduction, TLAPS

\* The element the fold takes first.
Pick(t) == CHOOSE x \in t : TRUE

\* g is the table of partial sums of f over the subsets of s.
IsPartialSum(g, f, s) ==
  g = [t \in SUBSET s |-> IF t = {} THEN 0
                          ELSE f[Pick(t)] + g[t \ {Pick(t)}]]

\* The table the fold computes.
PartialSums(f, A) ==
  LET iter[s \in SUBSET A] == IF s = {} THEN 0
        ELSE LET x == CHOOSE x \in s : TRUE
             IN  f[x] + iter[s \ {x}]
  IN iter

\* A nonempty family of subsets of a finite set has a minimal member.
LEMMA MinimalSubset ==
  ASSUME NEW A, IsFiniteSet(A), NEW T \in SUBSET (SUBSET A), T # {}
  PROVE  \E m \in T : \A u \in T : ~(u \subseteq m /\ u # m)
<1>1. T \subseteq FiniteSubsetsOf(A)
  BY FS_Subset DEF FiniteSubsetsOf
<1>2. PICK m \in T : \A u \in T : ~(<<u, m>> \in StrictSubsetOrdering(A))
  BY <1>1, FS_StrictSubsetOrderingWellFounded, WFMin
<1> QED
  BY <1>2 DEF StrictSubsetOrdering

\* A set of numbers up to some bound has a least member.
LEMMA LeastNumber ==
  ASSUME NEW bound \in Nat, NEW T \in SUBSET (0..bound), T # {}
  PROVE  \E m \in T : \A j \in T : m <= j
<1> DEFINE F == {1..k : k \in T}
<1>1. IsFiniteSet(1..bound)
  BY FS_Interval
<1>2. F \in SUBSET (SUBSET (1..bound)) /\ F # {}
  <2>1. \A k \in T : 1..k \in SUBSET (1..bound)
    OBVIOUS
  <2> QED BY <2>1, Zenon
<1>3. PICK u \in F : \A v \in F : ~(v \subseteq u /\ v # u)
  <2> DEFINE D == 1..bound
  <2>1. IsFiniteSet(D) /\ F \in SUBSET (SUBSET D) /\ F # {}
    BY <1>1, <1>2
  <2> HIDE DEF F, D
  <2> QED BY <2>1, MinimalSubset
<1>4. PICK m \in T : u = 1..m
  BY Zenon
<1>5. ASSUME NEW j \in T, j < m
      PROVE  FALSE
  <2>1. 1..j \in F /\ 1..j \subseteq u
    BY <1>4, <1>5
  <2>2. m \in u /\ m \notin 1..j
    BY <1>4, <1>5
  <2> QED BY <2>1, <2>2, <1>3
<1> QED BY <1>5

LEMMA MinIsLeast ==
  ASSUME NEW bound \in Nat, NEW T \in SUBSET (0..bound), T # {}
  PROVE  Min(T) \in T /\ \A j \in T : Min(T) <= j
BY LeastNumber DEF Min

LEMMA MaxIsGreatest ==
  ASSUME NEW bound \in Nat, NEW T \in SUBSET (0..bound), T # {}
  PROVE  Max(T) \in T /\ \A j \in T : j <= Max(T)
<1> DEFINE R == {bound - j : j \in T}
<1>1. R \in SUBSET (0..bound) /\ R # {}
  <2>1. \A j \in T : j \in 0..bound /\ bound - j \in 0..bound
    OBVIOUS
  <2> QED BY <2>1
<1>2. PICK m \in R : \A j \in R : m <= j
  <2> HIDE DEF R
  <2> QED BY <1>1, LeastNumber
<1>3. PICK x \in T : m = bound - x
  OBVIOUS
<1>4. ASSUME NEW j \in T PROVE j <= x
  <2>1. bound - j \in R /\ j \in 0..bound /\ x \in 0..bound
    OBVIOUS
  <2> HIDE DEF R
  <2>2. m <= bound - j
    BY <1>2, <2>1
  <2> QED BY <1>3, <2>1, <2>2
<1> QED BY <1>4 DEF Max

\* Two tables agree on every set that both cover.
LEMMA PartialSumsAgree ==
  ASSUME NEW A, IsFiniteSet(A), NEW f, NEW s \in SUBSET A, NEW u \in SUBSET A,
         NEW g, NEW h, IsPartialSum(g, f, s), IsPartialSum(h, f, u),
         NEW r \in SUBSET s, r \in SUBSET u
  PROVE  g[r] = h[r]
<1> DEFINE Bad == {t \in SUBSET r : g[t] # h[t]}
<1>1. SUFFICES ASSUME Bad # {} PROVE FALSE
  BY DEF Bad
<1>2. PICK m \in Bad : \A t \in Bad : ~(t \subseteq m /\ t # m)
  <2>1. IsFiniteSet(r) /\ Bad \in SUBSET (SUBSET r)
    BY FS_Subset
  <2> HIDE DEF Bad
  <2> QED BY <1>1, <2>1, MinimalSubset
<1>3. m \in SUBSET s /\ m \in SUBSET u /\ g[m] # h[m]
  OBVIOUS
<1>4. m # {}
  BY <1>3 DEF IsPartialSum
<1>5. Pick(m) \in m
  BY <1>4 DEF Pick
<1>6. g[m \ {Pick(m)}] = h[m \ {Pick(m)}]
  BY <1>2, <1>5
<1> QED
  BY <1>3, <1>4, <1>6 DEF IsPartialSum

\* The recursion defines a table: it is assembled from those of the proper subsets.
LEMMA PartialSumExists ==
  ASSUME NEW A, IsFiniteSet(A), NEW f
  PROVE  \E g : IsPartialSum(g, f, A)
<1> DEFINE Bad == {t \in SUBSET A : ~ \E g : IsPartialSum(g, f, t)}
           H(t) == CHOOSE g : IsPartialSum(g, f, t)
<1>1. SUFFICES ASSUME Bad # {} PROVE FALSE
  OBVIOUS
<1>2. PICK m \in Bad : \A t \in Bad : ~(t \subseteq m /\ t # m)
  <2>1. Bad \in SUBSET (SUBSET A)
    OBVIOUS
  <2> HIDE DEF Bad
  <2> QED BY <1>1, <2>1, MinimalSubset
<1>3. ASSUME NEW t \in SUBSET m, t # m
      PROVE  IsPartialSum(H(t), f, t)
  BY <1>2, <1>3
<1> DEFINE G == [t \in SUBSET m |-> IF t = {} THEN 0
                   ELSE f[Pick(t)] + H(t \ {Pick(t)})[t \ {Pick(t)}]]
<1>4. ASSUME NEW t \in SUBSET m, t # m
      PROVE  G[t] = H(t)[t]
  <2>1. IsPartialSum(H(t), f, t)
    BY <1>3, <1>4
  <2>2. CASE t = {}
    BY <2>1, <2>2 DEF IsPartialSum
  <2>3. CASE t # {}
    <3> DEFINE r == t \ {Pick(t)}
    <3>1. Pick(t) \in t /\ r \in SUBSET m /\ r # m
      BY <2>3, <1>4 DEF Pick
    <3>2. IsPartialSum(H(r), f, r)
      BY <3>1, <1>3
    <3>3. H(t)[r] = H(r)[r]
      <4> HIDE DEF H, r
      <4>1. r \in SUBSET t /\ r \in SUBSET A /\ t \in SUBSET A /\ r \in SUBSET r
        BY DEF r
      <4> QED BY <4>1, <2>1, <3>2, PartialSumsAgree
    <3>4. H(t)[t] = f[Pick(t)] + H(t)[r]
      <4> HIDE DEF H
      <4> QED BY <2>1, <2>3 DEF IsPartialSum
    <3> QED BY <2>3, <3>3, <3>4
  <2> QED BY <2>2, <2>3
<1>5. ASSUME NEW t \in SUBSET m, t # {}
      PROVE  G[t] = f[Pick(t)] + G[t \ {Pick(t)}]
  <2>1. Pick(t) \in t
    BY <1>5 DEF Pick
  <2>2. G[t \ {Pick(t)}] = H(t \ {Pick(t)})[t \ {Pick(t)}]
    BY <2>1, <1>4
  <2> QED BY <2>2, <1>5
<1>6. \A t \in SUBSET m :
        G[t] = IF t = {} THEN 0 ELSE f[Pick(t)] + G[t \ {Pick(t)}]
  <2>1. G[{}] = 0
    BY {} \in SUBSET m
  <2> HIDE DEF G
  <2> QED BY <1>5, <2>1
<1>7. G = [t \in SUBSET m |-> G[t]]
  OBVIOUS
<1>8. IsPartialSum(G, f, m)
  <2> HIDE DEF G
  <2> QED BY <1>6, <1>7 DEF IsPartialSum
<1> QED BY <1>8

LEMMA PartialSumsIsPartialSum ==
  ASSUME NEW A, IsFiniteSet(A), NEW f
  PROVE  IsPartialSum(PartialSums(f, A), f, A)
<1>1. PartialSums(f, A) = CHOOSE g : IsPartialSum(g, f, A)
  BY DEF PartialSums, IsPartialSum, Pick
<1> QED BY <1>1, PartialSumExists

LEMMA SumIsPartialSum ==
  ASSUME NEW A, NEW f, DOMAIN f = A
  PROVE  SumFunction(f) = PartialSums(f, A)[A]
BY DEF SumFunction, SumFunctionOnSet, FoldFunctionOnSet, MapThenFoldSet, PartialSums

\* One unfolding of the recursion.
LEMMA PartialSumsUnfold ==
  ASSUME NEW A, IsFiniteSet(A), NEW f
  PROVE  /\ PartialSums(f, A)[{}] = 0
         /\ \A s \in SUBSET A : s # {} =>
              /\ Pick(s) \in s
              /\ PartialSums(f, A)[s] = f[Pick(s)] + PartialSums(f, A)[s \ {Pick(s)}]
<1> DEFINE g == PartialSums(f, A)
<1>1. IsPartialSum(g, f, A)
  BY PartialSumsIsPartialSum
<1> HIDE DEF g
<1>2. \A t \in SUBSET A : g[t] = IF t = {} THEN 0 ELSE f[Pick(t)] + g[t \ {Pick(t)}]
  BY <1>1, Zenon DEF IsPartialSum
<1>3. \A s : s # {} => Pick(s) \in s
  BY DEF Pick
<1>4. g[{}] = 0
  BY <1>2, {} \in SUBSET A
<1>5. \A s \in SUBSET A : s # {} =>
        Pick(s) \in s /\ g[s] = f[Pick(s)] + g[s \ {Pick(s)}]
  BY <1>2, <1>3
<1> QED BY <1>4, <1>5 DEF g

-----------------------------------------------------------------------------
\* Sums of naturals are naturals.
LEMMA PartialSumsType ==
  ASSUME NEW A, IsFiniteSet(A), NEW f \in [A -> Nat]
  PROVE  \A s \in SUBSET A : PartialSums(f, A)[s] \in Nat
<1> DEFINE F == PartialSums(f, A)
           Bad == {t \in SUBSET A : F[t] \notin Nat}
<1>1. SUFFICES ASSUME Bad # {} PROVE FALSE
  OBVIOUS
<1>2. PICK m \in Bad : \A t \in Bad : ~(t \subseteq m /\ t # m)
  <2>1. Bad \in SUBSET (SUBSET A)
    OBVIOUS
  <2> HIDE DEF Bad
  <2> QED BY <1>1, <2>1, MinimalSubset
<1>3. /\ F[{}] = 0
      /\ \A s \in SUBSET A : s # {} =>
           Pick(s) \in s /\ F[s] = f[Pick(s)] + F[s \ {Pick(s)}]
  BY PartialSumsUnfold
<1> HIDE DEF F
<1>4. Pick(m) \in m /\ F[m] = f[Pick(m)] + F[m \ {Pick(m)}]
  <2>1. m \in SUBSET A /\ F[m] \notin Nat
    OBVIOUS
  <2> HIDE DEF Bad
  <2>2. ASSUME m = {} PROVE FALSE
    <3>1. F[m] = 0
      BY <2>2, <1>3
    <3> QED BY <3>1, <2>1
  <2> QED BY <2>1, <2>2, <1>3
<1>5. F[m \ {Pick(m)}] \in Nat
  BY <1>2, <1>4
<1>6. f[Pick(m)] \in Nat
  BY <1>4
<1> QED BY <1>4, <1>5, <1>6

\* Writing one balance moves every sum over it by the difference.
LEMMA PartialSumsUpdate ==
  ASSUME NEW A, IsFiniteSet(A), NEW f \in [A -> Nat], NEW h \in [A -> Nat],
         NEW a \in A, \A x \in A \ {a} : h[x] = f[x]
  PROVE  \A s \in SUBSET A :
           PartialSums(h, A)[s]
             = IF a \in s THEN PartialSums(f, A)[s] - f[a] + h[a] ELSE PartialSums(f, A)[s]
<1> DEFINE F == PartialSums(f, A)
           G == PartialSums(h, A)
           Bad == {t \in SUBSET A : G[t] # IF a \in t THEN F[t] - f[a] + h[a] ELSE F[t]}
<1>1. SUFFICES ASSUME Bad # {} PROVE FALSE
  OBVIOUS
<1>2. PICK m \in Bad : \A t \in Bad : ~(t \subseteq m /\ t # m)
  <2>1. Bad \in SUBSET (SUBSET A)
    OBVIOUS
  <2> HIDE DEF Bad
  <2> QED BY <1>1, <2>1, MinimalSubset
<1>3. /\ F[{}] = 0 /\ G[{}] = 0
      /\ \A s \in SUBSET A : s # {} =>
           /\ Pick(s) \in s
           /\ F[s] = f[Pick(s)] + F[s \ {Pick(s)}]
           /\ G[s] = h[Pick(s)] + G[s \ {Pick(s)}]
  <2>1. /\ F[{}] = 0
        /\ \A s \in SUBSET A : s # {} =>
             Pick(s) \in s /\ F[s] = f[Pick(s)] + F[s \ {Pick(s)}]
    BY PartialSumsUnfold
  <2>2. /\ G[{}] = 0
        /\ \A s \in SUBSET A : s # {} =>
             Pick(s) \in s /\ G[s] = h[Pick(s)] + G[s \ {Pick(s)}]
    BY PartialSumsUnfold
  <2> HIDE DEF F, G
  <2> QED BY <2>1, <2>2
<1>4. \A s \in SUBSET A : F[s] \in Nat
  BY PartialSumsType
<1> HIDE DEF F, G
<1>6. m \in SUBSET A /\ G[m] # IF a \in m THEN F[m] - f[a] + h[a] ELSE F[m]
  OBVIOUS
<1>7. m # {}
  BY <1>3, <1>6
<1> DEFINE x == Pick(m)
           r == m \ {x}
<1>8. x \in m /\ F[m] = f[x] + F[r] /\ G[m] = h[x] + G[r]
  BY <1>3, <1>6, <1>7
<1>9. G[r] = IF a \in r THEN F[r] - f[a] + h[a] ELSE F[r]
  BY <1>2, <1>6, <1>8
<1>10. /\ F[r] \in Nat /\ f[x] \in Nat /\ f[a] \in Nat /\ h[a] \in Nat
       /\ x # a => h[x] = f[x]
  BY <1>4, <1>6, <1>8
<1>11. a \in r <=> (a \in m /\ a # x)
  OBVIOUS
<1> HIDE DEF r, x
<1> QED BY <1>6, <1>8, <1>9, <1>10, <1>11

\* A uniform balance c on the set U, and nothing elsewhere.
LEMMA PartialSumsUniform ==
  ASSUME NEW A, IsFiniteSet(A), NEW U \in SUBSET A, NEW c \in Nat
  PROVE  \A s \in SUBSET A :
           PartialSums([a \in A |-> IF a \in U THEN c ELSE 0], A)[s]
             = Cardinality(s \cap U) * c
<1> DEFINE f == [a \in A |-> IF a \in U THEN c ELSE 0]
           F == PartialSums(f, A)
           Bad == {t \in SUBSET A : F[t] # Cardinality(t \cap U) * c}
<1>1. SUFFICES ASSUME Bad # {} PROVE FALSE
  OBVIOUS
<1>2. PICK m \in Bad : \A t \in Bad : ~(t \subseteq m /\ t # m)
  <2>1. Bad \in SUBSET (SUBSET A)
    OBVIOUS
  <2> HIDE DEF Bad
  <2> QED BY <1>1, <2>1, MinimalSubset
<1>3. /\ F[{}] = 0
      /\ \A s \in SUBSET A : s # {} =>
           Pick(s) \in s /\ F[s] = f[Pick(s)] + F[s \ {Pick(s)}]
  <2> HIDE DEF f
  <2> QED BY PartialSumsUnfold
<1>4. \A x \in A : f[x] = IF x \in U THEN c ELSE 0
  OBVIOUS
<1> HIDE DEF F, f
<1>5. m \in SUBSET A /\ F[m] # Cardinality(m \cap U) * c
  OBVIOUS
<1>6. m # {}
  <2>1. {} \cap U = {} /\ Cardinality({}) = 0
    BY FS_EmptySet
  <2>2. 0 * c = 0
    OBVIOUS
  <2>3. F[{}] = Cardinality({} \cap U) * c
    BY <2>1, <2>2, <1>3
  <2> HIDE DEF Bad
  <2> QED BY <2>3, <1>5
<1> DEFINE x == Pick(m)
           r == m \ {x}
<1>7. x \in m /\ F[m] = f[x] + F[r]
  BY <1>3, <1>5, <1>6
<1>8. F[r] = Cardinality(r \cap U) * c
  <2>1. r \in SUBSET A /\ r \subseteq m /\ r # m
    BY <1>5, <1>7
  <2>2. r \notin Bad
    BY <1>2, <2>1
  <2> HIDE DEF r
  <2> QED BY <2>1, <2>2
<1>9. IsFiniteSet(m \cap U)
  BY <1>5, FS_Subset
<1>10. r \cap U = (m \cap U) \ {x}
  OBVIOUS
<1>11. Cardinality(r \cap U)
         = IF x \in U THEN Cardinality(m \cap U) - 1 ELSE Cardinality(m \cap U)
  <2>1. x \in m \cap U <=> x \in U
    BY <1>7
  <2> HIDE DEF r, x
  <2>2. Cardinality((m \cap U) \ {x})
          = IF x \in m \cap U THEN Cardinality(m \cap U) - 1 ELSE Cardinality(m \cap U)
    <3> HIDE DEF Bad
    <3> QED BY <1>9, FS_RemoveElement
  <2>3. Cardinality(r \cap U)
          = IF x \in m \cap U THEN Cardinality(m \cap U) - 1 ELSE Cardinality(m \cap U)
    BY <1>10, <2>2
  <2>4. CASE x \in U
    BY <2>1, <2>3, <2>4
  <2>5. CASE x \notin U
    BY <2>1, <2>3, <2>5
  <2> QED BY <2>4, <2>5
<1>12. Cardinality(m \cap U) \in Nat /\ f[x] = IF x \in U THEN c ELSE 0
  BY <1>4, <1>5, <1>7, <1>9, FS_CardinalityType
<1> HIDE DEF r, x
<1> QED BY <1>5, <1>7, <1>8, <1>11, <1>12

-----------------------------------------------------------------------------
\* Sums of integers: any element may be taken first.
LEMMA PartialSumsInt ==
  ASSUME NEW A, IsFiniteSet(A), NEW f \in [A -> Int]
  PROVE  \A s \in SUBSET A : PartialSums(f, A)[s] \in Int
<1> DEFINE F == PartialSums(f, A)
           Bad == {t \in SUBSET A : F[t] \notin Int}
<1>1. SUFFICES ASSUME Bad # {} PROVE FALSE
  OBVIOUS
<1>2. PICK m \in Bad : \A t \in Bad : ~(t \subseteq m /\ t # m)
  <2>1. Bad \in SUBSET (SUBSET A)
    OBVIOUS
  <2> HIDE DEF Bad
  <2> QED BY <1>1, <2>1, MinimalSubset
<1>3. /\ F[{}] = 0
      /\ \A s \in SUBSET A : s # {} =>
           Pick(s) \in s /\ F[s] = f[Pick(s)] + F[s \ {Pick(s)}]
  BY PartialSumsUnfold
<1> HIDE DEF F
<1>4. m \in SUBSET A /\ F[m] \notin Int
  OBVIOUS
<1>5. m # {}
  BY <1>3, <1>4
<1>6. Pick(m) \in m /\ F[m] = f[Pick(m)] + F[m \ {Pick(m)}]
  BY <1>3, <1>4, <1>5
<1>7. F[m \ {Pick(m)}] \in Int
  BY <1>2, <1>4, <1>6
<1>8. f[Pick(m)] \in Int
  BY <1>4, <1>6
<1> QED BY <1>4, <1>6, <1>7, <1>8

LEMMA PartialSumsRemove ==
  ASSUME NEW A, IsFiniteSet(A), NEW f \in [A -> Int]
  PROVE  \A s \in SUBSET A : \A x \in s :
           PartialSums(f, A)[s] = f[x] + PartialSums(f, A)[s \ {x}]
<1> DEFINE F == PartialSums(f, A)
           Bad == {t \in SUBSET A : \E x \in t : F[t] # f[x] + F[t \ {x}]}
<1>1. SUFFICES ASSUME Bad # {} PROVE FALSE
  OBVIOUS
<1>2. PICK m \in Bad : \A t \in Bad : ~(t \subseteq m /\ t # m)
  <2>1. Bad \in SUBSET (SUBSET A)
    OBVIOUS
  <2> HIDE DEF Bad
  <2> QED BY <1>1, <2>1, MinimalSubset
<1>3. \A s \in SUBSET A : s # {} =>
        Pick(s) \in s /\ F[s] = f[Pick(s)] + F[s \ {Pick(s)}]
  BY PartialSumsUnfold
<1>4. \A s \in SUBSET A : F[s] \in Int
  BY PartialSumsInt
<1> HIDE DEF F
<1>5. m \in SUBSET A
  OBVIOUS
<1>6. PICK x \in m : F[m] # f[x] + F[m \ {x}]
  OBVIOUS
<1>7. \A t \in SUBSET m : t # m => \A y \in t : F[t] = f[y] + F[t \ {y}]
  BY <1>2, <1>5
<1> HIDE DEF Bad
<1> DEFINE p == Pick(m)
           r == m \ {p, x}
<1>8. p \in m /\ F[m] = f[p] + F[m \ {p}]
  BY <1>3, <1>5
<1>9. x # p
  BY <1>6, <1>8
<1>10. F[m \ {p}] = f[x] + F[r]
  <2>1. (m \ {p}) \ {x} = r /\ x \in m \ {p} /\ m \ {p} \in SUBSET m /\ m \ {p} # m
    BY <1>8, <1>9
  <2> QED BY <2>1, <1>7
<1>11. F[m \ {x}] = f[p] + F[r]
  <2>1. (m \ {x}) \ {p} = r /\ p \in m \ {x} /\ m \ {x} \in SUBSET m /\ m \ {x} # m
    BY <1>8, <1>9
  <2> QED BY <2>1, <1>7
<1>12. f[x] \in Int /\ f[p] \in Int /\ F[r] \in Int
  BY <1>4, <1>5, <1>8
<1> HIDE DEF p, r
<1> QED BY <1>6, <1>8, <1>10, <1>11, <1>12

\* Where a function is zero it adds nothing.
LEMMA PartialSumsSupport ==
  ASSUME NEW A, IsFiniteSet(A), NEW f \in [A -> Int], NEW U \in SUBSET A,
         \A x \in A \ U : f[x] = 0
  PROVE  \A s \in SUBSET A : PartialSums(f, A)[s] = PartialSums(f, A)[s \cap U]
<1> DEFINE F == PartialSums(f, A)
           Bad == {t \in SUBSET A : F[t] # F[t \cap U]}
<1>1. SUFFICES ASSUME Bad # {} PROVE FALSE
  OBVIOUS
<1>2. PICK m \in Bad : \A t \in Bad : ~(t \subseteq m /\ t # m)
  <2>1. Bad \in SUBSET (SUBSET A)
    OBVIOUS
  <2> HIDE DEF Bad
  <2> QED BY <1>1, <2>1, MinimalSubset
<1>3. \A s \in SUBSET A : \A x \in s : F[s] = f[x] + F[s \ {x}]
  BY PartialSumsRemove
<1>4. \A s \in SUBSET A : F[s] \in Int
  BY PartialSumsInt
<1> HIDE DEF F
<1>5. m \in SUBSET A /\ F[m] # F[m \cap U]
  OBVIOUS
<1>6. PICK x \in m : x \notin U
  <2>1. ASSUME m \subseteq U PROVE FALSE
    <3>1. m \cap U = m
      BY <2>1
    <3> QED BY <3>1, <1>5
  <2> QED BY <2>1
<1>7. m \ {x} \subseteq m /\ m \ {x} # m /\ (m \ {x}) \cap U = m \cap U
  BY <1>6
<1>8. F[m \ {x}] = F[m \cap U]
  BY <1>2, <1>5, <1>7
<1>9. F[m] = f[x] + F[m \ {x}] /\ f[x] = 0 /\ F[m \ {x}] \in Int
  BY <1>3, <1>4, <1>5, <1>6
<1> QED BY <1>5, <1>8, <1>9

\* The sum of values that are found elsewhere under other names.
LEMMA PartialSumsRenamed ==
  ASSUME NEW A, IsFiniteSet(A), NEW f \in [A -> Int],
         NEW B, IsFiniteSet(B), NEW h \in [B -> Int],
         NEW g \in [A -> B], \A x, y \in A : g[x] = g[y] => x = y,
         \A x \in A : h[g[x]] = f[x]
  PROVE  \A s \in SUBSET A : PartialSums(f, A)[s] = PartialSums(h, B)[{g[x] : x \in s}]
<1> DEFINE F == PartialSums(f, A)
           H == PartialSums(h, B)
           image(s) == {g[x] : x \in s}
           Bad == {t \in SUBSET A : F[t] # H[image(t)]}
<1>1. SUFFICES ASSUME Bad # {} PROVE FALSE
  OBVIOUS
<1>2. PICK m \in Bad : \A t \in Bad : ~(t \subseteq m /\ t # m)
  <2>1. Bad \in SUBSET (SUBSET A)
    OBVIOUS
  <2> HIDE DEF Bad
  <2> QED BY <1>1, <2>1, MinimalSubset
<1>3. F[{}] = 0 /\ H[{}] = 0
  BY PartialSumsUnfold
<1>4. \A s \in SUBSET A : \A x \in s : F[s] = f[x] + F[s \ {x}]
  <2> HIDE DEF Bad
  <2>1. IsFiniteSet(A) /\ f \in [A -> Int]
    OBVIOUS
  <2> QED BY ONLY <2>1, PartialSumsRemove DEF F
<1>5. \A s \in SUBSET B : \A x \in s : H[s] = h[x] + H[s \ {x}]
  <2>1. IsFiniteSet(B) /\ h \in [B -> Int]
    OBVIOUS
  <2> QED BY ONLY <2>1, PartialSumsRemove DEF H
<1> HIDE DEF F, H
<1>6. m \in SUBSET A /\ F[m] # H[image(m)]
  OBVIOUS
<1>7. PICK x \in m : TRUE
  <2>1. ASSUME m = {} PROVE FALSE
    <3>1. image(m) = {}
      BY <2>1
    <3> QED BY <2>1, <3>1, <1>3, <1>6
  <2> QED BY <2>1
<1>8. image(m \ {x}) = image(m) \ {g[x]}
  BY <1>6
<1>9. F[m \ {x}] = H[image(m \ {x})]
  <2>1. m \ {x} \in SUBSET A /\ m \ {x} \notin Bad
    <3> HIDE DEF Bad
    <3> QED BY <1>2, <1>6, <1>7
  <2> HIDE DEF image
  <2> QED BY <2>1
<1>10. image(m) \in SUBSET B /\ g[x] \in image(m)
  BY <1>6
<1>11. H[image(m)] = h[g[x]] + H[image(m) \ {g[x]}]
  BY <1>5, <1>10
<1>12. F[m] = f[x] + F[m \ {x}] /\ h[g[x]] = f[x]
  BY <1>4, <1>6
<1> QED BY <1>6, <1>8, <1>9, <1>11, <1>12

-----------------------------------------------------------------------------
\* The facts the specification's proofs cite.
LEMMA TotalType ==
  ASSUME NEW A, IsFiniteSet(A), NEW f \in [A -> Nat]
  PROVE  SumFunction(f) \in Nat
BY SumIsPartialSum, PartialSumsType, A \in SUBSET A

LEMMA TotalUpdate ==
  ASSUME NEW A, IsFiniteSet(A), NEW f \in [A -> Nat], NEW h \in [A -> Nat],
         NEW a \in A, \A x \in A \ {a} : h[x] = f[x]
  PROVE  SumFunction(h) = SumFunction(f) - f[a] + h[a]
<1>1. PartialSums(h, A)[A] = PartialSums(f, A)[A] - f[a] + h[a]
  BY PartialSumsUpdate, A \in SUBSET A
<1>2. DOMAIN h = A /\ DOMAIN f = A
  OBVIOUS
<1>3. SumFunction(h) = PartialSums(h, A)[A] /\ SumFunction(f) = PartialSums(f, A)[A]
  BY <1>2, SumIsPartialSum
<1> QED BY <1>1, <1>3

\* No balance exceeds the total.
LEMMA TotalCovers ==
  ASSUME NEW A, IsFiniteSet(A), NEW f \in [A -> Nat], NEW a \in A
  PROVE  f[a] <= SumFunction(f)
<1> DEFINE h == [f EXCEPT ![a] = 0]
<1>1. SumFunction(h) = SumFunction(f) - f[a] + 0
  <2>1. h \in [A -> Nat] /\ h[a] = 0 /\ \A x \in A \ {a} : h[x] = f[x]
    OBVIOUS
  <2> HIDE DEF h
  <2> QED BY <2>1, TotalUpdate
<1>2. SumFunction(h) \in Nat /\ SumFunction(f) \in Nat /\ f[a] \in Nat
  BY TotalType
<1> HIDE DEF h
<1> QED BY <1>1, <1>2

LEMMA TotalUniform ==
  ASSUME NEW A, IsFiniteSet(A), NEW U \in SUBSET A, NEW c \in Nat
  PROVE  SumFunction([a \in A |-> IF a \in U THEN c ELSE 0]) = Cardinality(U) * c
<1> DEFINE f == [a \in A |-> IF a \in U THEN c ELSE 0]
<1>1. PartialSums(f, A)[A] = Cardinality(A \cap U) * c
  BY PartialSumsUniform, A \in SUBSET A
<1>2. SumFunction(f) = PartialSums(f, A)[A]
  BY SumIsPartialSum
<1>3. A \cap U = U
  OBVIOUS
<1> QED BY <1>1, <1>2, <1>3

\* Two functions whose values other than zero correspond have the same sum.
LEMMA TotalsCorrespond ==
  ASSUME NEW A, IsFiniteSet(A), NEW f \in [A -> Int],
         NEW B, IsFiniteSet(B), NEW h \in [B -> Int],
         NEW g \in [A -> B], \A x, y \in A : g[x] = g[y] => x = y,
         \A x \in A : h[g[x]] = f[x],
         \A b \in B : h[b] # 0 => \E x \in A : g[x] = b
  PROVE  SumFunction(f) = SumFunction(h)
<1> DEFINE U == {g[x] : x \in A}
<1>1. PartialSums(f, A)[A] = PartialSums(h, B)[U]
  BY PartialSumsRenamed, A \in SUBSET A
<1>2. U \in SUBSET B /\ \A b \in B \ U : h[b] = 0
  OBVIOUS
<1>3. B \in SUBSET B /\ B \cap U = U
  BY <1>2
<1> HIDE DEF U
<1>4. PartialSums(h, B)[B] = PartialSums(h, B)[U]
  <2>1. \A s \in SUBSET B : PartialSums(h, B)[s] = PartialSums(h, B)[s \cap U]
    <3>1. IsFiniteSet(B) /\ h \in [B -> Int]
      OBVIOUS
    <3> QED BY ONLY <1>2, <3>1, PartialSumsSupport
  <2> QED BY <1>3, <2>1
<1>5. SumFunction(f) = PartialSums(f, A)[A] /\ SumFunction(h) = PartialSums(h, B)[B]
  <2>1. DOMAIN f = A /\ DOMAIN h = B
    OBVIOUS
  <2> QED BY <2>1, SumIsPartialSum
<1> QED BY <1>1, <1>4, <1>5
-----------------------------------------------------------------------------
(***************************************************************************)
(* Recursion over numbers: each value is computed from that of a lesser    *)
(* number.                                                                 *)
(***************************************************************************)
IsRecursion(f, n, base, next, step) ==
  f[0] = base /\ \A r \in 1..n : f[r] = step[r][f[next[r]]]

\* Such a recursion defines a function: the table up to n extends one up to n - 1.
LEMMA RecursionExists ==
  ASSUME NEW n \in Nat, NEW S, NEW base \in S,
         NEW next \in [1..n -> Nat], \A r \in 1..n : next[r] < r,
         NEW step \in [1..n -> [S -> S]]
  PROVE  \E f \in [0..n -> S] : IsRecursion(f, n, base, next, step)
<1> DEFINE Bad == {k \in 0..n : ~ \E f \in [0..k -> S] : IsRecursion(f, k, base, next, step)}
<1>1. SUFFICES ASSUME Bad # {} PROVE FALSE
  <2>1. n \in 0..n /\ n \notin Bad
    BY <1>1
  <2> QED BY <2>1
<1>2. PICK m \in Bad : \A j \in Bad : m <= j
  <2>1. Bad \in SUBSET (0..n)
    OBVIOUS
  <2> HIDE DEF Bad
  <2> QED BY <1>1, <2>1, LeastNumber
<1>3. m \in 0..n /\ ~ \E f \in [0..m -> S] : IsRecursion(f, m, base, next, step)
  OBVIOUS
<1>4. m # 0
  <2>1. [r \in 0..0 |-> base] \in [0..0 -> S]
    OBVIOUS
  <2>2. IsRecursion([r \in 0..0 |-> base], 0, base, next, step)
    BY DEF IsRecursion
  <2> QED BY <1>3, <2>1, <2>2
<1>5. PICK f \in [0..(m - 1) -> S] : IsRecursion(f, m - 1, base, next, step)
  <2>1. m - 1 \in 0..n /\ m - 1 \notin Bad
    BY <1>2, <1>3, <1>4
  <2> QED BY <2>1
<1> HIDE DEF Bad
<1>6. next[m] \in 0..(m - 1) /\ m \in 1..n
  BY <1>3, <1>4
<1> DEFINE v == step[m][f[next[m]]]
           g == [r \in 0..m |-> IF r < m THEN f[r] ELSE v]
<1>7. v \in S
  BY <1>6
<1> HIDE DEF v
<1>8. g \in [0..m -> S]
  BY <1>3, <1>7
<1>9. /\ \A r \in 0..(m - 1) : g[r] = f[r]
      /\ g[m] = v
  BY <1>3
<1> HIDE DEF g
<1>10. IsRecursion(g, m, base, next, step)
  <2>1. g[0] = base
    BY <1>5, <1>6, <1>9 DEF IsRecursion
  <2>2. ASSUME NEW r \in 1..m PROVE g[r] = step[r][g[next[r]]]
    <3>1. CASE r = m
      BY <3>1, <1>6, <1>9 DEF v
    <3>2. CASE r # m
      <4>1. r \in 1..(m - 1) /\ next[r] \in 0..(m - 1)
        BY <3>2, <1>3, <1>6
      <4> QED BY <4>1, <1>5, <1>9 DEF IsRecursion
    <3> QED BY <3>1, <3>2
  <2> QED BY <2>1, <2>2 DEF IsRecursion
<1> QED BY <1>3, <1>8, <1>10

\* Two tables of it agree as far as both reach.
LEMMA RecursionsAgree ==
  ASSUME NEW n \in Nat, NEW m \in Nat, m <= n, NEW base, NEW next, NEW step, NEW f, NEW g,
         \A r \in 1..m : next[r] \in Nat /\ next[r] < r,
         IsRecursion(f, n, base, next, step), IsRecursion(g, m, base, next, step)
  PROVE  \A r \in 0..m : f[r] = g[r]
<1> DEFINE Bad == {k \in 0..m : f[k] # g[k]}
<1>1. SUFFICES ASSUME Bad # {} PROVE FALSE
  OBVIOUS
<1>2. PICK k \in Bad : \A j \in Bad : k <= j
  <2>1. Bad \in SUBSET (0..m)
    OBVIOUS
  <2> HIDE DEF Bad
  <2> QED BY <1>1, <2>1, LeastNumber
<1>3. k \in 0..m /\ f[k] # g[k]
  OBVIOUS
<1>4. k \in 1..m /\ k \in 1..n
  BY <1>3 DEF IsRecursion
<1>5. next[k] \in 0..m /\ next[k] < k
  BY <1>4
<1>6. f[next[k]] = g[next[k]]
  BY <1>2, <1>4, <1>5
<1> HIDE DEF Bad
<1> QED BY <1>3, <1>4, <1>6 DEF IsRecursion
=============================================================================
