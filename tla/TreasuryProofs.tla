--------------------------- MODULE TreasuryProofs ---------------------------
(***************************************************************************)
(* Proofs about the treasury's accounting, for any finite set of           *)
(* strategies, any assets, admissions, amounts and signals.  First the     *)
(* arithmetic of a partial redemption and of a signal's shares, then the   *)
(* signal's second pass as a whole, then the inductive invariant.          *)
(***************************************************************************)
EXTENDS StrategicTreasury, FiniteSums

-----------------------------------------------------------------------------
(***************************************************************************)
(* Arithmetic.                                                             *)
(***************************************************************************)
LEMMA ShareBounds ==
  ASSUME NEW total \in Nat, NEW w \in Nat, NEW all \in Nat \ {0}
  PROVE  /\ Share(total, w, all) \in Nat
         /\ Share(total, w, all) * all <= total * w
<1>1. total * w \in Nat
  OBVIOUS
<1>2. ASSUME NEW n \in Nat, NEW c \in Nat \ {0}
      PROVE  n \div c \in Nat /\ (n \div c) * c <= n
  OBVIOUS
<1> QED BY <1>1, <1>2 DEF Share

LEMMA CancelFactor ==
  ASSUME NEW x \in Int, NEW y \in Int, NEW c \in Nat \ {0}, x * c <= y * c
  PROVE  x <= y
OBVIOUS

LEMMA ProductType ==
  /\ \A x, y \in Nat : x * y \in Nat
  /\ \A x, y \in Int : x * y \in Int
OBVIOUS

LEMMA ProductMonotone ==
  ASSUME NEW x \in Nat, NEW y \in Nat, NEW c \in Nat, x <= y
  PROVE  x * c <= y * c /\ c * x <= c * y
OBVIOUS

LEMMA Distributes ==
  ASSUME NEW x \in Int, NEW y \in Int, NEW c \in Int
  PROVE  (x + y) * c = x * c + y * c /\ c * (x + y) = c * x + c * y
OBVIOUS

\* What is spent keeps the shares of the remaining weights covered, when an entry
\* of weight w spends at most its share and when it spends nothing.
LEMMA SpendShare ==
  ASSUME NEW spent \in Int, NEW x \in Nat, NEW all \in Nat \ {0}, NEW total \in Nat,
         NEW rest \in Nat, NEW w \in Nat,
         spent * all + total * (rest + w) <= total * all,
         x * all <= total * w
  PROVE  /\ (spent + x) * all + total * rest <= total * all
         /\ spent + x <= total
<1>1. /\ spent * all \in Int /\ total * rest \in Nat /\ total * w \in Nat
      /\ total * all \in Nat /\ x * all \in Nat
  BY ProductType
<1>2. /\ total * (rest + w) = total * rest + total * w
      /\ (spent + x) * all = spent * all + x * all
  BY Distributes
<1>3. (spent + x) * all + total * rest <= total * all
  BY <1>1, <1>2
<1>4. (spent + x) * all <= total * all
  BY <1>1, <1>2, <1>3
<1> QED BY <1>3, <1>4, CancelFactor

LEMMA SpendNothing ==
  ASSUME NEW spent \in Int, NEW all \in Nat, NEW total \in Nat,
         NEW rest \in Nat, NEW w \in Nat,
         spent * all + total * (rest + w) <= total * all
  PROVE  spent * all + total * rest <= total * all
<1>1. /\ spent * all \in Int /\ total * rest \in Nat /\ total * w \in Nat
      /\ total * all \in Nat
  BY ProductType
<1>2. total * (rest + w) = total * rest + total * w
  BY Distributes
<1> QED BY <1>1, <1>2

\* The released basis covers the share of the redeemed units, and is there.
LEMMA ReleaseBounds ==
  ASSUME NEW basis \in Nat, NEW units \in Nat, NEW total \in Nat \ {0}, units <= total
  PROVE  /\ BasisReleased(basis, units, total) \in Nat
         /\ BasisReleased(basis, units, total) <= basis
         /\ basis * units <= BasisReleased(basis, units, total) * total
<1> DEFINE n == basis * units
           r == (n + total - 1) \div total
<1>1. n \in Nat /\ n <= basis * total
  OBVIOUS
<1> HIDE DEF n
<1>2. r \in Nat /\ n <= r * total /\ r * total < n + total
  BY <1>1
<1> HIDE DEF r
<1>3. r <= basis
  <2>1. r * total < (basis + 1) * total
    BY <1>1, <1>2
  <2>2. ~(basis + 1 <= r)
    <3>1. ASSUME basis + 1 <= r PROVE (basis + 1) * total <= r * total
      BY <1>2, <3>1
    <3> QED BY <2>1, <3>1, <1>2
  <2> QED BY <2>2, <1>2
<1>4. BasisReleased(basis, units, total) = r
  BY DEF BasisReleased, r, n
<1> QED BY <1>2, <1>3, <1>4 DEF n

-----------------------------------------------------------------------------
(***************************************************************************)
(* The second pass of a signal.                                            *)
(***************************************************************************)
Weights(signal) ==
  [i \in DOMAIN signal |->
     IF EligibleForSignal(outstandingPrincipal, signal[i][1]) THEN signal[i][2] ELSE 0]

\* The weights of the entries after the first k.
Rest(signal, k) ==
  SumFunction([i \in DOMAIN signal |-> IF i > k THEN Weights(signal)[i] ELSE 0])

\* g lists the cells after each prefix of the first n entries.
IsPass(g, signal, total, gained, n) ==
  g = [k \in 0..n |->
         IF k = 0 THEN Cells
         ELSE AfterEntry(g[k - 1], signal[k], total, TotalWeight(signal), gained)]

IsSignal(signal) == signal \in Seq(Strategies \X Nat)

LEMMA WeightsType ==
  ASSUME NEW signal, IsSignal(signal)
  PROVE  /\ DOMAIN signal = 1..Len(signal) /\ Len(signal) \in Nat
         /\ IsFiniteSet(DOMAIN signal)
         /\ \A i \in DOMAIN signal : signal[i][1] \in Strategies /\ signal[i][2] \in Nat
         /\ Weights(signal) \in [DOMAIN signal -> Nat]
<1>1. DOMAIN signal = 1..Len(signal) /\ Len(signal) \in Nat
  BY DEF IsSignal
<1>2. IsFiniteSet(DOMAIN signal)
  BY <1>1, FS_Interval
<1>3. \A i \in DOMAIN signal : signal[i] \in Strategies \X Nat
  BY DEF IsSignal
<1>4. \A i \in DOMAIN signal : signal[i][1] \in Strategies /\ signal[i][2] \in Nat
  BY <1>3
<1> QED BY <1>1, <1>2, <1>4 DEF Weights

\* Each entry takes its weight from the rest.
LEMMA RestUnfolds ==
  ASSUME NEW signal, IsSignal(signal)
  PROVE  /\ TotalWeight(signal) \in Nat
         /\ Rest(signal, 0) = TotalWeight(signal)
         /\ \A k \in 0..Len(signal) : Rest(signal, k) \in Nat
         /\ \A k \in 1..Len(signal) :
              Rest(signal, k - 1) = Rest(signal, k) + Weights(signal)[k]
<1> DEFINE w == Weights(signal)
           D == DOMAIN signal
           After(k) == [i \in D |-> IF i > k THEN w[i] ELSE 0]
<1>1. D = 1..Len(signal) /\ Len(signal) \in Nat /\ IsFiniteSet(D) /\ w \in [D -> Nat]
  BY WeightsType
<1>2. \A k : Rest(signal, k) = SumFunction(After(k))
  BY DEF Rest
<1>3. TotalWeight(signal) = SumFunction(w)
  BY DEF TotalWeight, Weights
<1> HIDE DEF w, D
<1>4. After(0) = w
  BY <1>1
<1>5. \A k \in 0..Len(signal) : After(k) \in [D -> Nat]
  BY <1>1
<1>6. ASSUME NEW k \in 1..Len(signal)
      PROVE  SumFunction(After(k - 1)) = SumFunction(After(k)) + w[k]
  <2> DEFINE f == After(k)
             h == After(k - 1)
  <2>1. f \in [D -> Nat] /\ h \in [D -> Nat] /\ k \in D
    BY <1>1, <1>5
  <2>2. f[k] = 0 /\ h[k] = w[k]
    BY <1>1
  <2>3. \A i \in D \ {k} : h[i] = f[i]
    BY <1>1
  <2> HIDE DEF f, h
  <2>4. SumFunction(h) = SumFunction(f) - f[k] + h[k]
    BY <2>1, <2>3, <1>1, TotalUpdate
  <2>5. SumFunction(f) \in Nat /\ w[k] \in Nat
    BY <2>1, <1>1, TotalType
  <2> QED BY <2>2, <2>4, <2>5 DEF f, h
<1>7. \A k \in 0..Len(signal) : SumFunction(After(k)) \in Nat
  <2> HIDE DEF After
  <2> QED BY <1>1, <1>5, TotalType
<1>8. SumFunction(w) \in Nat
  BY <1>1, TotalType
<1> HIDE DEF After
<1> QED BY <1>2, <1>3, <1>4, <1>6, <1>7, <1>8 DEF w

\* The recursion of AfterSignal has a solution, one entry at a time.
LEMMA PassExists ==
  ASSUME NEW signal, IsSignal(signal), NEW total, NEW gained
  PROVE  \E g : IsPass(g, signal, total, gained, Len(signal))
<1> DEFINE L == Len(signal)
           Bad == {n \in 0..L : ~ \E g : IsPass(g, signal, total, gained, n)}
<1>0. L \in Nat
  BY WeightsType
<1>1. SUFFICES ASSUME Bad # {} PROVE FALSE
  BY <1>0
<1>2. PICK m \in Bad : \A j \in Bad : m <= j
  <2>1. Bad \in SUBSET (0..L)
    OBVIOUS
  <2> HIDE DEF Bad
  <2> QED BY <1>0, <1>1, <2>1, LeastNumber
<1>3. CASE m = 0
  <2> DEFINE g == [k \in 0..0 |-> Cells]
  <2>1. IsPass(g, signal, total, gained, 0)
    <3>1. g = [k \in 0..0 |-> IF k = 0 THEN Cells
                ELSE AfterEntry(g[k - 1], signal[k], total, TotalWeight(signal), gained)]
      OBVIOUS
    <3> HIDE DEF g
    <3> QED BY <3>1 DEF IsPass
  <2> QED BY <2>1, <1>3
<1>4. CASE m # 0
  <2>1. m - 1 \in 0..L /\ m - 1 \notin Bad /\ m \in 1..L
    BY <1>0, <1>2, <1>4
  <2>2. PICK h : IsPass(h, signal, total, gained, m - 1)
    BY <2>1
  <2> DEFINE E(c, k) == AfterEntry(c, signal[k], total, TotalWeight(signal), gained)
             g == [k \in 0..m |-> IF k = m THEN E(h[m - 1], m) ELSE h[k]]
  <2>3. h = [k \in 0..m - 1 |-> IF k = 0 THEN Cells ELSE E(h[k - 1], k)]
    BY <2>2, Zenon DEF IsPass
  <2> HIDE DEF E, Bad, L
  <2>4. \A k \in 0..m - 1 : h[k] = IF k = 0 THEN Cells ELSE E(h[k - 1], k)
    BY <2>3
  <2>5. ASSUME NEW k \in 0..m
        PROVE  g[k] = IF k = 0 THEN Cells ELSE E(g[k - 1], k)
    <3>1. CASE k = m
      BY <3>1, <2>1, <1>4
    <3>2. CASE k # m
      <4>1. k \in 0..m - 1 /\ (k # 0 => k - 1 \in 0..m /\ k - 1 # m)
        BY <3>2, <2>1
      <4> QED BY <4>1, <2>4
    <3> QED BY <3>1, <3>2
  <2>6. g = [k \in 0..m |-> IF k = 0 THEN Cells ELSE E(g[k - 1], k)]
    <3>1. g = [k \in 0..m |-> g[k]]
      OBVIOUS
    <3> HIDE DEF g
    <3> QED BY <3>1, <2>5
  <2>7. IsPass(g, signal, total, gained, m)
    <3> HIDE DEF g
    <3> QED BY <2>6, Zenon DEF IsPass, E
  <2> QED BY <2>7, <1>2 DEF Bad
<1> QED BY <1>3, <1>4

LEMMA AfterSignalIsPass ==
  ASSUME NEW signal, IsSignal(signal), NEW total, NEW gained, TotalWeight(signal) # 0
  PROVE  \E g : /\ IsPass(g, signal, total, gained, Len(signal))
                /\ AfterSignal(signal, total, gained) = g[Len(signal)]
<1> DEFINE g == CHOOSE f : IsPass(f, signal, total, gained, Len(signal))
<1>1. IsPass(g, signal, total, gained, Len(signal))
  BY PassExists
<1>2. AfterSignal(signal, total, gained) = g[Len(signal)]
  BY DEF AfterSignal, IsPass
<1> QED BY <1>1, <1>2

WethTotal(outstanding) == SumFunction([s \in Strategies |-> outstanding[s][WETH]])

\* What any prefix of the entries leaves: only WETH moves, only into eligible
\* strategies and within their caps, and the ledger and the balance together keep
\* their total.
Deployed(c) ==
  /\ c.outstanding \in [Strategies -> [Assets -> Nat]]
  /\ c.units \in [Strategies -> Nat]
  /\ c.weth \in Int
  /\ c.ok \in BOOLEAN
  /\ c.ok => c.weth >= 0
  /\ \A s \in Strategies, a \in Assets :
       a # WETH => c.outstanding[s][a] = outstandingPrincipal[s][a]
  /\ \A s \in Strategies : c.outstanding[s][WETH] >= outstandingPrincipal[s][WETH]
  /\ \A s \in Strategies :
       c.outstanding[s][WETH] # outstandingPrincipal[s][WETH] =>
         /\ EligibleForSignal(outstandingPrincipal, s)
         /\ c.outstanding[s][WETH] <= limits[s][WETH].cap
  /\ \A s \in Strategies : c.units[s] >= unitsHeld[s]
  /\ \A s \in Strategies :
       c.units[s] # unitsHeld[s] =>
         admissions[s].mode = UNITIZED /\ EligibleForSignal(outstandingPrincipal, s)
  /\ WethTotal(c.outstanding) + c.weth = WethTotal(outstandingPrincipal) + held[WETH]

\* What the first k entries spent leaves the shares of the rest.
LeavesTheRest(c, signal, total, k) ==
  LET spent == held[WETH] - c.weth
  IN  /\ spent * TotalWeight(signal) + total * Rest(signal, k)
           <= total * TotalWeight(signal)
      /\ held[WETH] >= total => c.ok

LEMMA StartOfPass ==
  ASSUME TreasuryTypeOK, NEW signal, IsSignal(signal), NEW total \in Nat
  PROVE  Deployed(Cells) /\ LeavesTheRest(Cells, signal, total, 0)
<1>1. held[WETH] \in Nat
  BY IdentitiesAssumption DEF TreasuryTypeOK
<1>2. Deployed(Cells)
  BY <1>1, IdentitiesAssumption DEF Deployed, Cells, TreasuryTypeOK
<1>3. LeavesTheRest(Cells, signal, total, 0)
  <2>1. Rest(signal, 0) = TotalWeight(signal) /\ TotalWeight(signal) \in Nat
    BY RestUnfolds
  <2>2. Cells.weth = held[WETH] /\ Cells.ok
    BY DEF Cells
  <2> QED BY <1>1, <2>1, <2>2 DEF LeavesTheRest
<1> QED BY <1>2, <1>3

\* One entry, with its numbers named.
LEMMA EntryKeepsPass ==
  ASSUME TreasuryTypeOK, NEW signal, IsSignal(signal), NEW total \in Nat,
         NEW gained \in Nat, TotalWeight(signal) # 0,
         NEW k \in 1..Len(signal), NEW c,
         Deployed(c), LeavesTheRest(c, signal, total, k - 1)
  PROVE  LET d == AfterEntry(c, signal[k], total, TotalWeight(signal), gained)
         IN  Deployed(d) /\ LeavesTheRest(d, signal, total, k)
<1> DEFINE s == signal[k][1]
           w == signal[k][2]
           all == TotalWeight(signal)
           room == Headroom(c.outstanding, s)
           x == Least(Share(total, w, all), room)
           d == AfterEntry(c, signal[k], total, all, gained)
<1>1. s \in Strategies /\ w \in Nat /\ k \in DOMAIN signal
  BY WeightsType
<1>2. all \in Nat \ {0} /\ Rest(signal, k) \in Nat /\ Rest(signal, k - 1) \in Nat
      /\ Weights(signal)[k] \in Nat
      /\ Rest(signal, k - 1) = Rest(signal, k) + Weights(signal)[k]
  <2>1. k \in 0..Len(signal) /\ k - 1 \in 0..Len(signal) /\ Len(signal) \in Nat
    BY WeightsType
  <2>2. Weights(signal)[k] \in Nat
    BY <1>1, WeightsType
  <2> QED BY <2>1, <2>2, RestUnfolds
<1> DEFINE spent == held[WETH] - c.weth
<1>3. /\ held[WETH] \in Nat /\ c.weth \in Int /\ c.ok \in BOOLEAN
      /\ spent \in Int /\ (c.ok => c.weth >= 0)
  BY IdentitiesAssumption DEF TreasuryTypeOK, Deployed
<1>4. /\ spent * all + total * (Rest(signal, k) + Weights(signal)[k]) <= total * all
      /\ held[WETH] >= total => c.ok
  BY <1>2, Zenon DEF LeavesTheRest
<1>5. CASE w = 0 \/ ~EligibleForSignal(c.outstanding, s) \/ x = 0
  <2>1. d = c
    BY <1>5 DEF AfterEntry
  <2>2. spent * all + total * Rest(signal, k) <= total * all
    <3> HIDE DEF spent, all
    <3> QED BY <1>2, <1>3, <1>4, SpendNothing
  <2>3. LeavesTheRest(c, signal, total, k)
    BY <2>2, <1>4 DEF LeavesTheRest
  <2> QED BY <2>1, <2>3
<1>6. CASE ~(w = 0 \/ ~EligibleForSignal(c.outstanding, s) \/ x = 0)
  <2>1. /\ limits[s][WETH].cap \in Nat /\ c.outstanding[s][WETH] \in Nat
        /\ outstandingPrincipal[s][WETH] \in Nat
        /\ c.outstanding[s][WETH] >= outstandingPrincipal[s][WETH]
    <3>1. /\ limits \in [Strategies -> [Assets -> [cap : Nat, maturesAt : Nat]]]
          /\ c.outstanding \in [Strategies -> [Assets -> Nat]]
          /\ outstandingPrincipal \in [Strategies -> [Assets -> Nat]]
          /\ \A t \in Strategies : c.outstanding[t][WETH] >= outstandingPrincipal[t][WETH]
      BY DEF Deployed, TreasuryTypeOK
    <3>2. WETH \in Assets
      BY IdentitiesAssumption
    <3> HIDE DEF s
    <3> QED BY <1>1, <3>1, <3>2
  <2>2. /\ EligibleForSignal(c.outstanding, s) /\ w # 0
        /\ EligibleForSignal(outstandingPrincipal, s)
    BY <1>6, <2>1 DEF EligibleForSignal
  <2>3. /\ room \in Nat /\ Share(total, w, all) \in Nat
        /\ Share(total, w, all) * all <= total * w
    <3>1. room \in Nat
      BY <2>1, <2>2 DEF EligibleForSignal, Headroom
    <3> HIDE DEF all, w
    <3> QED BY <3>1, <1>1, <1>2, ShareBounds
  <2>4. /\ x \in Nat \ {0} /\ x <= room /\ x * all <= total * w
    <3>1. x \in Nat \ {0} /\ x <= room /\ x <= Share(total, w, all)
      BY <2>3, <1>6 DEF Least
    <3> DEFINE share == Share(total, w, all)
    <3> HIDE DEF x, w, all, share
    <3>3. x * all <= share * all
      BY <3>1, <2>3, <1>2, ProductMonotone DEF share
    <3>4. x * all \in Nat /\ total * w \in Nat /\ share * all \in Nat
      BY <3>1, <1>1, <1>2, <2>3, ProductType DEF share
    <3>5. x * all <= total * w
      BY <3>3, <3>4, <2>3 DEF share
    <3> QED BY <3>1, <3>5
  <2>5. /\ d.outstanding = [c.outstanding EXCEPT ![s][WETH] = @ + x]
        /\ d.units = UnitsAfterDeploy(c.units, s, gained)
        /\ d.weth = c.weth - x
        /\ d.ok = (c.ok /\ c.weth >= x /\ CanDeploy(c.outstanding, s, WETH, x))
    BY <1>6 DEF AfterEntry
  <2>6. CanDeploy(c.outstanding, s, WETH, x)
    <3>1. c.outstanding[s][WETH] + x <= limits[s][WETH].cap
      <4> HIDE DEF x
      <4> QED BY <2>1, <2>4 DEF Headroom
    <3> QED BY <3>1, <2>2 DEF CanDeploy, EligibleForSignal, WithinCap
  <2> HIDE DEF x, d, s, w, all, room, spent
  <2>7. LeavesTheRest(d, signal, total, k)
    <3>1. Weights(signal)[k] = w
      BY <1>1, <2>2 DEF Weights, s, w
    <3>2. /\ (spent + x) * all + total * Rest(signal, k) <= total * all
          /\ spent + x <= total
      BY <3>1, <1>1, <1>2, <1>3, <1>4, <2>4, SpendShare
    <3>3. held[WETH] - d.weth = spent + x
      BY <2>5, <2>4, <1>3 DEF spent
    <3>4. ASSUME held[WETH] >= total PROVE d.ok
      <4>1. c.ok /\ c.weth >= x
        BY <3>2, <3>4, <1>3, <1>4, <2>4 DEF spent
      <4> QED BY <4>1, <2>5, <2>6
    <3> QED BY <3>2, <3>3, <3>4 DEF LeavesTheRest, all
  <2>8. Deployed(d)
    <3>1. /\ c.outstanding \in [Strategies -> [Assets -> Nat]]
          /\ c.units \in [Strategies -> Nat]
          /\ unitsHeld \in [Strategies -> Nat]
          /\ s \in Strategies /\ WETH \in Assets
      BY <1>1, IdentitiesAssumption DEF Deployed, s, TreasuryTypeOK
    <3>2. /\ d.outstanding \in [Strategies -> [Assets -> Nat]]
          /\ \A t \in Strategies, a \in Assets :
               d.outstanding[t][a]
                 = IF t = s /\ a = WETH THEN c.outstanding[t][a] + x ELSE c.outstanding[t][a]
      BY <2>4, <2>5, <3>1
    <3>3. /\ d.units \in [Strategies -> Nat]
          /\ \A t \in Strategies :
               d.units[t] = IF t = s /\ admissions[s].mode = UNITIZED
                            THEN c.units[t] + gained ELSE c.units[t]
      BY <2>5, <3>1 DEF UnitsAfterDeploy
    <3>4. d.weth \in Int /\ d.ok \in BOOLEAN /\ (d.ok => d.weth >= 0)
      <4>1. d.weth \in Int
        BY <1>3, <2>4, <2>5
      <4>2. d.ok \in BOOLEAN /\ (d.ok => c.weth >= x)
        BY <2>5, Zenon
      <4>3. c.weth >= x => d.weth >= 0
        BY <1>3, <2>4, <2>5
      <4> QED BY <4>1, <4>2, <4>3
    <3>5. \A t \in Strategies, a \in Assets :
            a # WETH => d.outstanding[t][a] = outstandingPrincipal[t][a]
      BY <3>2 DEF Deployed
    <3>6. \A t \in Strategies : d.outstanding[t][WETH] >= outstandingPrincipal[t][WETH]
      <4> TAKE t \in Strategies
      <4>1. c.outstanding[t][WETH] >= outstandingPrincipal[t][WETH]
            /\ c.outstanding[t][WETH] \in Nat /\ outstandingPrincipal[t][WETH] \in Nat
        BY <3>1 DEF Deployed, TreasuryTypeOK
      <4>2. \/ d.outstanding[t][WETH] = c.outstanding[t][WETH] + x
            \/ d.outstanding[t][WETH] = c.outstanding[t][WETH]
        BY <3>1, <3>2
      <4> QED BY <4>1, <4>2, <2>4
    <3>7. \A t \in Strategies :
            d.outstanding[t][WETH] # outstandingPrincipal[t][WETH] =>
              /\ EligibleForSignal(outstandingPrincipal, t)
              /\ d.outstanding[t][WETH] <= limits[t][WETH].cap
      <4> SUFFICES ASSUME NEW t \in Strategies,
                          d.outstanding[t][WETH] # outstandingPrincipal[t][WETH]
                   PROVE  /\ EligibleForSignal(outstandingPrincipal, t)
                          /\ d.outstanding[t][WETH] <= limits[t][WETH].cap
        OBVIOUS
      <4>1. CASE t = s
        <5>1. d.outstanding[s][WETH] <= limits[s][WETH].cap
          BY <2>1, <2>4, <3>1, <3>2 DEF room, Headroom
        <5> QED BY <4>1, <5>1, <2>2
      <4>2. CASE t # s
        BY <4>2, <3>1, <3>2 DEF Deployed
      <4> QED BY <4>1, <4>2
    <3>8. \A t \in Strategies : d.units[t] >= unitsHeld[t]
      <4> TAKE t \in Strategies
      <4>1. c.units[t] >= unitsHeld[t] /\ c.units[t] \in Nat /\ unitsHeld[t] \in Nat
        BY <3>1 DEF Deployed
      <4> QED BY <4>1, <3>3
    <3>9. \A t \in Strategies :
            d.units[t] # unitsHeld[t] =>
              admissions[t].mode = UNITIZED /\ EligibleForSignal(outstandingPrincipal, t)
      BY <3>3, <2>2 DEF Deployed
    <3>10. WethTotal(d.outstanding) + d.weth = WethTotal(outstandingPrincipal) + held[WETH]
      <4> DEFINE f == [t \in Strategies |-> c.outstanding[t][WETH]]
                 h == [t \in Strategies |-> d.outstanding[t][WETH]]
      <4>1. /\ f \in [Strategies -> Nat] /\ h \in [Strategies -> Nat]
            /\ h[s] = f[s] + x /\ \A t \in Strategies \ {s} : h[t] = f[t]
        BY <3>1, <3>2, <2>4
      <4> HIDE DEF f, h
      <4>2. SumFunction(h) = SumFunction(f) - f[s] + h[s]
        <5>1. IsFiniteSet(Strategies)
          BY IdentitiesAssumption
        <5> QED BY <4>1, <5>1, <3>1, TotalUpdate
      <4>3. SumFunction(f) \in Nat /\ f[s] \in Nat
        BY <4>1, <3>1, IdentitiesAssumption, TotalType
      <4>4. SumFunction(h) = SumFunction(f) + x
        BY <4>1, <4>2, <4>3, <2>4
      <4>5. WethTotal(c.outstanding) = SumFunction(f) /\ WethTotal(d.outstanding) = SumFunction(h)
        BY DEF WethTotal, f, h
      <4>6. WethTotal(c.outstanding) + c.weth = WethTotal(outstandingPrincipal) + held[WETH]
        BY DEF Deployed
      <4> QED BY <4>3, <4>4, <4>5, <4>6, <2>4, <2>5, <1>3
    <3> QED BY <3>2, <3>3, <3>4, <3>5, <3>6, <3>7, <3>8, <3>9, <3>10 DEF Deployed
  <2> QED BY <2>7, <2>8 DEF d, all
<1> QED BY <1>5, <1>6

\* The whole pass: what a signal leaves behind, and that it never reverts when the
\* treasury holds what the operator put behind it.
LEMMA SignalOutcome ==
  ASSUME TreasuryTypeOK, NEW signal, IsSignal(signal), NEW total \in Nat,
         NEW gained \in Nat
  PROVE  LET c == AfterSignal(signal, total, gained)
         IN  /\ Deployed(c)
             /\ held[WETH] - c.weth <= total
             /\ held[WETH] >= total => c.ok
<1>0. held[WETH] \in Nat
  BY IdentitiesAssumption DEF TreasuryTypeOK
<1>1. CASE TotalWeight(signal) = 0
  <2>1. AfterSignal(signal, total, gained) = Cells
    BY <1>1 DEF AfterSignal
  <2>2. Cells.weth = held[WETH] /\ Cells.ok
    BY DEF Cells
  <2> QED BY <1>0, <2>1, <2>2, StartOfPass
<1>2. CASE TotalWeight(signal) # 0
  <2> DEFINE L == Len(signal)
             all == TotalWeight(signal)
  <2>1. PICK g : /\ IsPass(g, signal, total, gained, L)
                 /\ AfterSignal(signal, total, gained) = g[L]
    BY <1>2, AfterSignalIsPass
  <2>2. L \in Nat
    BY WeightsType
  <2>3. \A k \in 0..L : g[k] = IF k = 0 THEN Cells
                               ELSE AfterEntry(g[k - 1], signal[k], total, all, gained)
    BY <2>1, Zenon DEF IsPass
  <2> DEFINE Bad == {k \in 0..L : ~(Deployed(g[k]) /\ LeavesTheRest(g[k], signal, total, k))}
  <2> HIDE DEF L
  <2>4. Bad = {}
    <3> SUFFICES ASSUME Bad # {} PROVE FALSE
      OBVIOUS
    <3>1. PICK m \in Bad : \A j \in Bad : m <= j
      <4>1. Bad \in SUBSET (0..L)
        OBVIOUS
      <4> HIDE DEF Bad
      <4> QED BY <2>2, <4>1, LeastNumber
    <3>2. m \in 0..L
      OBVIOUS
    <3>3. CASE m = 0
      <4>1. g[m] = Cells
        BY <2>3, <3>2, <3>3
      <4> QED BY <4>1, <3>3, StartOfPass
    <3>4. CASE m # 0
      <4>1. m - 1 \in 0..L /\ m - 1 \notin Bad /\ m \in 1..L
        BY <2>2, <3>1, <3>2, <3>4
      <4>2. Deployed(g[m - 1]) /\ LeavesTheRest(g[m - 1], signal, total, m - 1)
        BY <4>1
      <4>3. g[m] = AfterEntry(g[m - 1], signal[m], total, all, gained)
        BY <2>3, <3>2, <3>4
      <4>4. Deployed(g[m]) /\ LeavesTheRest(g[m], signal, total, m)
        BY <4>1, <4>2, <4>3, <1>2, EntryKeepsPass DEF L
      <4> QED BY <4>4
    <3> QED BY <3>3, <3>4
  <2>5. Deployed(g[L]) /\ LeavesTheRest(g[L], signal, total, L)
    BY <2>2, <2>4
  <2>6. held[WETH] - g[L].weth <= total
    <3> DEFINE spent == held[WETH] - g[L].weth
    <3>1. spent \in Int /\ all \in Nat \ {0} /\ Rest(signal, L) \in Nat
      <4>1. L \in 0..Len(signal)
        BY <2>2 DEF L
      <4> QED BY <4>1, <1>0, <1>2, <2>5, RestUnfolds DEF Deployed
    <3>2. spent * all + total * Rest(signal, L) <= total * all
      BY <2>5 DEF LeavesTheRest
    <3> HIDE DEF spent, all
    <3>3. spent * all <= total * all
      <4>1. spent * all \in Int /\ total * Rest(signal, L) \in Nat /\ total * all \in Nat
        BY <3>1
      <4> QED BY <4>1, <3>2
    <3>4. spent <= total
      BY <3>1, <3>3, CancelFactor
    <3> QED BY <3>4 DEF spent
  <2>7. held[WETH] >= total => g[L].ok
    BY <2>5 DEF LeavesTheRest
  <2> QED BY <2>1, <2>5, <2>6, <2>7 DEF L
<1> QED BY <1>1, <1>2

-----------------------------------------------------------------------------
(***************************************************************************)
(* The inductive invariant.  The unit asset of a UNITIZED strategy is an   *)
(* asset, so that redeemUnits books against a real one; and an asset with  *)
(* a limit is on the strategy's list, which is why closing reaches every   *)
(* asset a deployment can have used.                                       *)
(***************************************************************************)
UnitAssetIsKnown ==
  \A s \in Strategies :
    admissions[s].mode = UNITIZED => admissions[s].unitAsset \in Assets

MaturedIsListed ==
  \A s \in Strategies, a \in Assets :
    limits[s][a].maturesAt # 0 => a \in strategyAssets[s]

IInv ==
  /\ TreasuryTypeOK
  /\ UnitAssetIsKnown
  /\ MaturedIsListed
  /\ UnitsAreRedeemable
  /\ CloseReachesEveryPrincipal
  /\ RevenueIsEarned

LEMMA Inputs ==
  /\ \A entry \in Admittable : /\ entry[1] \in Strategies /\ entry[2] \in Assets
                               /\ entry[3] \in Nat /\ entry[4] \in Modes
  /\ \A flow \in Flows : flow[1] \in Assets /\ flow[2] \in Nat
  /\ \A legs \in Allocations : /\ legs[1] \in Assets /\ legs[2] \in Nat /\ legs[3] \in Nat
                               /\ legs[4] \in Nat /\ legs[5] \in Nat
  /\ \A n \in UnitAmounts : n \in Nat
  /\ \A n \in SignalTotals : n \in Nat
  /\ \A signal \in Signals : IsSignal(signal)
<1>1. \A entry \in Admittable : entry \in Strategies \X Assets \X Nat \X Modes
  BY TreasuryInputAssumption
<1>2. \A flow \in Flows : flow \in Assets \X Nat
  BY TreasuryInputAssumption
<1>3. \A legs \in Allocations : legs \in Assets \X Nat \X Nat \X Nat \X Nat
  BY TreasuryInputAssumption
<1>4. /\ \A n \in UnitAmounts : n \in Nat
      /\ \A n \in SignalTotals : n \in Nat
      /\ \A signal \in Signals : IsSignal(signal)
  BY TreasuryInputAssumption DEF IsSignal
<1> QED BY <1>1, <1>2, <1>3, <1>4

\* The numbers of a return and of a redemption: what they release is there.
LEMMA ReturnNumbers ==
  ASSUME TreasuryTypeOK, NEW s \in Strategies, NEW asset \in Assets, NEW received \in Nat
  PROVE  LET part == PrincipalPart(outstandingPrincipal[s][asset], received)
         IN  part \in Nat /\ part <= outstandingPrincipal[s][asset] /\ part <= received
<1>1. outstandingPrincipal[s][asset] \in Nat
  BY DEF TreasuryTypeOK
<1> QED BY <1>1 DEF PrincipalPart, Least

LEMMA RedeemNumbers ==
  ASSUME TreasuryTypeOK, UnitAssetIsKnown, NEW s \in Strategies, NEW units \in Nat,
         admissions[s].mode = UNITIZED, units # 0, units <= unitsHeld[s]
  PROVE  LET asset    == admissions[s].unitAsset
             basis    == outstandingPrincipal[s][asset]
             released == BasisReleased(basis, units, unitsHeld[s])
         IN  /\ asset \in Assets /\ basis \in Nat /\ unitsHeld[s] \in Nat \ {0}
             /\ released \in Nat /\ released <= basis
             /\ basis * units <= released * unitsHeld[s]
<1>1. admissions[s].unitAsset \in Assets
  BY DEF UnitAssetIsKnown
<1>2. /\ outstandingPrincipal[s][admissions[s].unitAsset] \in Nat
      /\ unitsHeld[s] \in Nat \ {0}
  BY <1>1 DEF TreasuryTypeOK
<1> QED BY <1>1, <1>2, ReleaseBounds

\* A signal's step, from the whole pass.
LEMMA SignalStep ==
  ASSUME TreasuryTypeOK, NEW signal \in Signals, NEW total \in SignalTotals,
         NEW gained \in UnitAmounts, DeployMarginalBySignal(signal, total, gained)
  PROVE  \E c : /\ Deployed(c) /\ c.weth \in Nat /\ held[WETH] - c.weth <= total
                /\ outstandingPrincipal' = c.outstanding
                /\ unitsHeld' = c.units
                /\ held' = [held EXCEPT ![WETH] = c.weth]
                /\ result' = Plus(result, WETH, c.weth - held[WETH])
                /\ allocationCount' = allocationCount + 1
                /\ UNCHANGED <<registry, realizedRevenue, signalerBudget, opsRecipient,
                               lsgModule, now>>
<1> DEFINE c == AfterSignal(signal, total, gained)
<1>1. Deployed(c) /\ held[WETH] - c.weth <= total
  BY Inputs, SignalOutcome
<1>2. c.ok
  BY DEF DeployMarginalBySignal
<1>3. c.weth \in Nat
  BY <1>1, <1>2 DEF Deployed
<1>4. /\ outstandingPrincipal' = c.outstanding
      /\ unitsHeld' = c.units
      /\ held' = [held EXCEPT ![WETH] = c.weth]
      /\ result' = Plus(result, WETH, c.weth - held[WETH])
      /\ allocationCount' = allocationCount + 1
      /\ UNCHANGED <<registry, realizedRevenue, signalerBudget, opsRecipient,
                     lsgModule, now>>
  BY Zenon DEF DeployMarginalBySignal
<1> HIDE DEF c
<1> QED BY <1>1, <1>3, <1>4

-----------------------------------------------------------------------------
\* Every action keeps the types: what it subtracts is there.
LEMMA TypeStep ==
  ASSUME TreasuryTypeOK, UnitAssetIsKnown, [Next]_vars
  PROVE  TreasuryTypeOK'
<1> USE IdentitiesAssumption DEF TreasuryTypeOK
<1>1. ASSUME NEW entry \in Admittable,
             AdmitStrategy(entry[1], entry[2], entry[3], entry[4])
      PROVE  TreasuryTypeOK'
  <2> DEFINE s == entry[1]
             asset == entry[2]
             mode == entry[4]
  <2>1. s \in Strategies /\ asset \in Assets /\ entry[3] \in Nat /\ mode \in Modes
    BY Inputs
  <2> HIDE DEF s, asset, mode
  <2>2. UnitAssetAfter(s, asset, mode) \in Assets \cup {NoOne}
    BY <2>1 DEF UnitAssetAfter
  <2>3. admissions' \in [Strategies -> [active : BOOLEAN, mode : Modes,
                                        unitAsset : Assets \cup {NoOne}]]
    BY <1>1, <2>1, <2>2 DEF AdmitStrategy, s, asset, mode
  <2>4. limits' \in [Strategies -> [Assets -> [cap : Nat, maturesAt : Nat]]]
    <3>1. now + ADMISSION_DELAY \in Nat
      BY DelayAssumption
    <3>2. limits' = [limits EXCEPT ![s][asset] =
                       [cap |-> entry[3], maturesAt |-> now + ADMISSION_DELAY]]
      BY <1>1 DEF AdmitStrategy, s, asset
    <3> QED BY <2>1, <3>1, <3>2
  <2>5. strategyAssets' \in [Strategies -> SUBSET Assets]
    <3>1. strategyAssets' = [strategyAssets EXCEPT ![s] = AssetsAfterAdmission(s, asset)]
      BY <1>1 DEF AdmitStrategy, s, asset
    <3>2. AssetsAfterAdmission(s, asset) \in SUBSET Assets
      BY <2>1 DEF AssetsAfterAdmission
    <3> QED BY <3>1, <3>2
  <2> QED BY <1>1, <2>3, <2>4, <2>5 DEF AdmitStrategy, ledger, policy
<1>2. ASSUME NEW s \in Strategies, RemoveStrategy(s)
      PROVE  TreasuryTypeOK'
  BY <1>2 DEF RemoveStrategy, ledger, policy
<1>3. ASSUME NEW s \in Strategies, CloseStrategy(s)
      PROVE  TreasuryTypeOK'
  <2> DEFINE row == [a \in Assets |-> IF a \in strategyAssets[s] THEN 0
                                      ELSE outstandingPrincipal[s][a]]
  <2>1. row \in [Assets -> Nat]
    OBVIOUS
  <2>2. outstandingPrincipal' = [outstandingPrincipal EXCEPT ![s] = row]
    BY <1>3 DEF CloseStrategy
  <2>3. outstandingPrincipal' \in [Strategies -> [Assets -> Nat]]
    <3> HIDE DEF row
    <3> QED BY <2>1, <2>2
  <2>4. result' \in [Assets -> Int]
    <3>1. \A a \in Assets : outstandingPrincipal[s][a] \in Int /\ result[a] \in Int
      OBVIOUS
    <3> QED BY <1>3, <3>1 DEF CloseStrategy
  <2> QED BY <1>3, <2>3, <2>4 DEF CloseStrategy, registry, policy
<1>4. ASSUME NEW payee \in OpsPayees, SetOpsRecipient(payee)
      PROVE  TreasuryTypeOK'
  BY <1>4 DEF SetOpsRecipient, registry, ledger
<1>5. ASSUME NEW module \in Modules, ActivateLSG(module)
      PROVE  TreasuryTypeOK'
  BY <1>5 DEF ActivateLSG, registry, ledger
<1>6. ASSUME DeactivateLSG
      PROVE  TreasuryTypeOK'
  BY <1>6 DEF DeactivateLSG, registry, ledger
<1>7. ASSUME NEW s \in Strategies, NEW flow \in Flows, NEW gained \in UnitAmounts,
             DeployToStrategy(s, flow[1], flow[2], gained)
      PROVE  TreasuryTypeOK'
  <2>1. flow[1] \in Assets /\ flow[2] \in Nat /\ gained \in Nat
    BY Inputs
  <2>2. held[flow[1]] >= flow[2]
    BY <1>7 DEF DeployToStrategy
  <2>3. outstandingPrincipal' \in [Strategies -> [Assets -> Nat]]
    <3>1. outstandingPrincipal'
            = [outstandingPrincipal EXCEPT ![s][flow[1]] = @ + flow[2]]
      BY <1>7 DEF DeployToStrategy
    <3> QED BY <2>1, <3>1
  <2>4. unitsHeld' \in [Strategies -> Nat]
    BY <1>7, <2>1 DEF DeployToStrategy, UnitsAfterDeploy
  <2>5. held' \in [Assets -> Nat] /\ result' \in [Assets -> Int]
    BY <1>7, <2>1, <2>2 DEF DeployToStrategy, Plus
  <2> QED BY <1>7, <2>3, <2>4, <2>5 DEF DeployToStrategy, registry, policy
<1>8. ASSUME NEW s \in Strategies, NEW flow \in Flows,
             ClassifyReturn(s, flow[1], flow[2])
      PROVE  TreasuryTypeOK'
  <2> DEFINE asset == flow[1]
             received == flow[2]
             part == PrincipalPart(outstandingPrincipal[s][asset], received)
  <2>1. asset \in Assets /\ received \in Nat
    BY Inputs
  <2>2. part \in Nat /\ part <= outstandingPrincipal[s][asset] /\ part <= received
    BY <2>1, ReturnNumbers
  <2>3. /\ outstandingPrincipal' = [outstandingPrincipal EXCEPT ![s][asset] = @ - part]
        /\ realizedRevenue' = [realizedRevenue EXCEPT ![asset] = @ + (received - part)]
        /\ held' = [held EXCEPT ![asset] = @ + received]
        /\ result' = [result EXCEPT ![asset] = @ + received]
    BY <1>8 DEF ClassifyReturn, Plus
  <2> HIDE DEF asset, received, part
  <2>4. /\ outstandingPrincipal' \in [Strategies -> [Assets -> Nat]]
        /\ realizedRevenue' \in [Assets -> Nat]
        /\ held' \in [Assets -> Nat] /\ result' \in [Assets -> Int]
    BY <2>1, <2>2, <2>3
  <2> QED BY <1>8, <2>4 DEF ClassifyReturn, registry, policy
<1>9. ASSUME NEW s \in Strategies, NEW rewards \in RewardLists, NEW flow \in Flows,
             NEW change \in UnitChanges, HarvestYield(s, rewards, flow[2], change)
      PROVE  TreasuryTypeOK'
  <2> DEFINE gained == flow[2]
  <2>1. gained \in Nat
    BY Inputs
  <2>2. \A a \in Assets : Yield(rewards, gained)[a] \in Nat
    BY <2>1 DEF Yield
  <2> HIDE DEF gained
  <2>3. /\ realizedRevenue' \in [Assets -> Nat]
        /\ held' \in [Assets -> Nat] /\ result' \in [Assets -> Int]
    BY <1>9, <2>1, <2>2 DEF HarvestYield, gained
  <2> QED BY <1>9, <2>3 DEF HarvestYield, registry, policy
<1>10. ASSUME NEW s \in Strategies, NEW units \in UnitAmounts, NEW flow \in Flows,
              RedeemUnits(s, units, flow[2])
       PROVE  TreasuryTypeOK'
  <2> DEFINE asset == admissions[s].unitAsset
             released == BasisReleased(outstandingPrincipal[s][asset], units, unitsHeld[s])
             out == flow[2]
  <2>1. units \in Nat /\ out \in Nat
    BY Inputs
  <2>2. units # 0 /\ units <= unitsHeld[s] /\ admissions[s].mode = UNITIZED
    BY <1>10 DEF RedeemUnits
  <2>3. /\ asset \in Assets /\ released \in Nat
        /\ released <= outstandingPrincipal[s][asset]
    BY <2>1, <2>2, RedeemNumbers
  <2>4. /\ unitsHeld' = [unitsHeld EXCEPT ![s] = @ - units]
        /\ outstandingPrincipal' = [outstandingPrincipal EXCEPT ![s][asset] = @ - released]
        /\ realizedRevenue' = [realizedRevenue EXCEPT ![asset] =
                                 @ + (IF out > released THEN out - released ELSE 0)]
        /\ held' = [held EXCEPT ![asset] = @ + out]
        /\ result' = [result EXCEPT ![asset] =
                        @ + (out + (IF out > released THEN 0 ELSE released - out))]
    BY <1>10 DEF RedeemUnits, Plus
  <2> HIDE DEF asset, released, out
  <2>5. outstandingPrincipal' \in [Strategies -> [Assets -> Nat]]
    BY <2>3, <2>4
  <2>6. unitsHeld' \in [Strategies -> Nat]
    BY <2>1, <2>2, <2>4
  <2>7. realizedRevenue' \in [Assets -> Nat] /\ held' \in [Assets -> Nat]
        /\ result' \in [Assets -> Int]
    BY <2>1, <2>3, <2>4
  <2> QED BY <1>10, <2>5, <2>6, <2>7 DEF RedeemUnits, registry, policy
<1>11. ASSUME NEW signal \in Signals, NEW total \in SignalTotals, NEW gained \in UnitAmounts,
              DeployMarginalBySignal(signal, total, gained)
       PROVE  TreasuryTypeOK'
  <2>1. PICK c : /\ Deployed(c) /\ c.weth \in Nat
                 /\ outstandingPrincipal' = c.outstanding
                 /\ unitsHeld' = c.units
                 /\ held' = [held EXCEPT ![WETH] = c.weth]
                 /\ result' = Plus(result, WETH, c.weth - held[WETH])
                 /\ allocationCount' = allocationCount + 1
                 /\ UNCHANGED <<registry, realizedRevenue, signalerBudget, opsRecipient,
                                lsgModule, now>>
    BY <1>11, SignalStep
  <2>2. /\ outstandingPrincipal' \in [Strategies -> [Assets -> Nat]]
        /\ unitsHeld' \in [Strategies -> Nat]
    BY <2>1 DEF Deployed
  <2>3. held' \in [Assets -> Nat] /\ result' \in [Assets -> Int] /\ allocationCount' \in Nat
    BY <2>1 DEF Plus
  <2> QED BY <2>1, <2>2, <2>3 DEF registry
<1>12. ASSUME NEW flow \in Flows, BareInflow(flow[1], flow[2])
       PROVE  TreasuryTypeOK'
  <2>1. flow[1] \in Assets /\ flow[2] \in Nat
    BY Inputs
  <2>2. held' \in [Assets -> Nat]
    BY <1>12, <2>1 DEF BareInflow, Plus
  <2> QED BY <1>12, <2>2 DEF BareInflow, registry, policy
<1>13. ASSUME NEW legs \in Allocations,
              AllocateRevenue(legs[1], legs[2], legs[3], legs[4], legs[5])
       PROVE  TreasuryTypeOK'
  <2> DEFINE asset == legs[1]
             total == legs[2] + legs[3] + legs[4] + legs[5]
             paid == legs[3] + legs[4]
  <2>1. /\ asset \in Assets /\ legs[2] \in Nat /\ legs[3] \in Nat
        /\ legs[4] \in Nat /\ legs[5] \in Nat
    BY Inputs
  <2>2. total \in Nat /\ paid \in Nat
    BY <2>1
  <2>3. /\ total <= realizedRevenue[asset] /\ held[asset] >= paid
        /\ realizedRevenue' = [realizedRevenue EXCEPT ![asset] = @ + -total]
        /\ signalerBudget' = [signalerBudget EXCEPT ![asset] = @ + legs[5]]
        /\ held' = [held EXCEPT ![asset] = @ + -paid]
        /\ result' = [result EXCEPT ![asset] = @ + -(total - legs[5])]
    BY <1>13 DEF AllocateRevenue, Plus
  <2> HIDE DEF asset, total, paid
  <2>4. /\ realizedRevenue' \in [Assets -> Nat] /\ signalerBudget' \in [Assets -> Nat]
        /\ held' \in [Assets -> Nat] /\ result' \in [Assets -> Int]
    BY <2>1, <2>2, <2>3
  <2> QED BY <1>13, <2>4 DEF AllocateRevenue, registry, policy
<1>14. ASSUME BurnVuxRevenue
       PROVE  TreasuryTypeOK'
  <2>1. /\ realizedRevenue' \in [Assets -> Nat]
        /\ held' \in [Assets -> Nat] /\ result' \in [Assets -> Int]
    BY <1>14 DEF BurnVuxRevenue, Plus
  <2> QED BY <1>14, <2>1 DEF BurnVuxRevenue, registry, policy
<1>15. ASSUME NEW flow \in Flows, FundSignalerProgram(flow[1], flow[2])
       PROVE  TreasuryTypeOK'
  <2>1. flow[1] \in Assets /\ flow[2] \in Nat
    BY Inputs
  <2>2. /\ signalerBudget' \in [Assets -> Nat]
        /\ held' \in [Assets -> Nat] /\ result' \in [Assets -> Int]
    BY <1>15, <2>1 DEF FundSignalerProgram, Plus
  <2> QED BY <1>15, <2>2 DEF FundSignalerProgram, registry, policy
<1>16. CASE Tick
  BY <1>16 DEF Tick, registry, ledger, policy
<1>17. CASE UNCHANGED vars
  BY <1>17 DEF vars, registry, ledger, policy
<1> QED
  BY <1>1, <1>2, <1>3, <1>4, <1>5, <1>6, <1>7, <1>8, <1>9, <1>10, <1>11, <1>12, <1>13,
     <1>14, <1>15, <1>16, <1>17
     DEF Next, Administer, Move, Distribute, RecallFromStrategy, ReturnFor

-----------------------------------------------------------------------------
(***************************************************************************)
(* Who may move what.                                                      *)
(***************************************************************************)
LEMMA RegistryOrLedger ==
  ASSUME [Next]_vars
  PROVE  \/ UNCHANGED registry
         \/ /\ UNCHANGED <<ledger, now>>
            /\ \/ \E entry \in Admittable :
                    AdmitStrategy(entry[1], entry[2], entry[3], entry[4])
               \/ \E s \in Strategies : RemoveStrategy(s)
<1>1. ASSUME Administer
      PROVE  \/ UNCHANGED registry
             \/ /\ UNCHANGED <<ledger, now>>
                /\ \/ \E entry \in Admittable :
                        AdmitStrategy(entry[1], entry[2], entry[3], entry[4])
                   \/ \E s \in Strategies : RemoveStrategy(s)
  BY <1>1 DEF Administer, AdmitStrategy, RemoveStrategy, CloseStrategy, SetOpsRecipient,
     ActivateLSG, DeactivateLSG, ledger
<1>2. ASSUME Move PROVE UNCHANGED registry
  BY <1>2 DEF Move, DeployToStrategy, RecallFromStrategy, ReturnFor, ClassifyReturn,
     HarvestYield, RedeemUnits, DeployMarginalBySignal, BareInflow
<1>3. ASSUME Distribute PROVE UNCHANGED registry
  BY <1>3 DEF Distribute, AllocateRevenue, BurnVuxRevenue, FundSignalerProgram
<1>4. ASSUME Tick \/ UNCHANGED vars PROVE UNCHANGED registry
  BY <1>4 DEF Tick, vars
<1> QED BY <1>1, <1>2, <1>3, <1>4 DEF Next

\* An asset of a strategy may take principal: admitted, matured, within the cap.
MayHold(s, a, exposure) ==
  /\ admissions[s].active
  /\ limits[s][a].maturesAt # 0 /\ now >= limits[s][a].maturesAt
  /\ exposure <= limits[s][a].cap

\* Units may be bought: in the strategy's own asset, once that has matured.
MayHoldUnits(s) ==
  admissions[s].mode = UNITIZED /\ limits[s][admissions[s].unitAsset].maturesAt # 0

Growth ==
  /\ \A s \in Strategies, a \in Assets :
       outstandingPrincipal'[s][a] > outstandingPrincipal[s][a] =>
         MayHold(s, a, outstandingPrincipal'[s][a])
  /\ \A s \in Strategies : unitsHeld'[s] > unitsHeld[s] => MayHoldUnits(s)

LEMMA DeployGrowth ==
  ASSUME TreasuryTypeOK, NEW s \in Strategies, NEW asset \in Assets, NEW amount \in Nat,
         NEW gained \in Nat, DeployToStrategy(s, asset, amount, gained)
  PROVE  Growth
<1>1. /\ outstandingPrincipal \in [Strategies -> [Assets -> Nat]]
      /\ unitsHeld \in [Strategies -> Nat]
  BY DEF TreasuryTypeOK
<1>2. CanDeploy(outstandingPrincipal, s, asset, amount)
  BY DEF DeployToStrategy
<1>3. \A t \in Strategies, a \in Assets :
        outstandingPrincipal'[t][a] =
          IF t = s /\ a = asset THEN outstandingPrincipal[t][a] + amount
          ELSE outstandingPrincipal[t][a]
  <2>1. outstandingPrincipal' = [outstandingPrincipal EXCEPT ![s][asset] = @ + amount]
    BY DEF DeployToStrategy
  <2> QED BY <1>1, <2>1
<1>4. \A t \in Strategies :
        unitsHeld'[t] # unitsHeld[t] => t = s /\ admissions[s].mode = UNITIZED
  BY <1>1 DEF DeployToStrategy, UnitsAfterDeploy
<1>5. MayHold(s, asset, outstandingPrincipal[s][asset] + amount)
  BY <1>2 DEF CanDeploy, MayHold, WithinCap
<1>6. admissions[s].mode = UNITIZED => MayHoldUnits(s)
  BY <1>2 DEF CanDeploy, MayHoldUnits
<1>7. ASSUME NEW t \in Strategies, NEW a \in Assets,
             outstandingPrincipal'[t][a] > outstandingPrincipal[t][a]
      PROVE  MayHold(t, a, outstandingPrincipal'[t][a])
  <2>1. t = s /\ a = asset
    BY <1>1, <1>3, <1>7
  <2> QED BY <2>1, <1>3, <1>5
<1>8. ASSUME NEW t \in Strategies, unitsHeld'[t] > unitsHeld[t]
      PROVE  MayHoldUnits(t)
  <2>1. unitsHeld'[t] # unitsHeld[t]
    BY <1>1, <1>8
  <2> QED BY <2>1, <1>4, <1>6
<1> QED BY <1>7, <1>8 DEF Growth

LEMMA SignalGrowth ==
  ASSUME TreasuryTypeOK, NEW signal \in Signals, NEW total \in SignalTotals,
         NEW gained \in UnitAmounts, DeployMarginalBySignal(signal, total, gained)
  PROVE  Growth
<1>1. PICK c : /\ Deployed(c)
               /\ outstandingPrincipal' = c.outstanding
               /\ unitsHeld' = c.units
  BY SignalStep
<1>2. \A s \in Strategies :
        EligibleForSignal(outstandingPrincipal, s)
          => /\ admissions[s].active
             /\ limits[s][WETH].maturesAt # 0 /\ now >= limits[s][WETH].maturesAt
             /\ admissions[s].mode = UNITIZED => MayHoldUnits(s)
  BY DEF EligibleForSignal, MayHoldUnits
<1>3. ASSUME NEW s \in Strategies, NEW a \in Assets,
             outstandingPrincipal'[s][a] > outstandingPrincipal[s][a]
      PROVE  MayHold(s, a, outstandingPrincipal'[s][a])
  <2>1. outstandingPrincipal[s][a] \in Nat /\ outstandingPrincipal'[s][a] \in Nat
    BY <1>1 DEF Deployed, TreasuryTypeOK
  <2>2. outstandingPrincipal'[s][a] # outstandingPrincipal[s][a]
    BY <2>1, <1>3
  <2>3. a = WETH
    BY <2>2, <1>1 DEF Deployed
  <2>4. /\ EligibleForSignal(outstandingPrincipal, s)
        /\ outstandingPrincipal'[s][WETH] <= limits[s][WETH].cap
    BY <2>2, <2>3, <1>1 DEF Deployed
  <2> QED BY <2>3, <2>4, <1>2 DEF MayHold
<1>4. ASSUME NEW s \in Strategies, unitsHeld'[s] > unitsHeld[s]
      PROVE  MayHoldUnits(s)
  <2>1. unitsHeld[s] \in Nat /\ unitsHeld'[s] \in Nat
    BY <1>1 DEF Deployed, TreasuryTypeOK
  <2>2. unitsHeld'[s] # unitsHeld[s]
    BY <2>1, <1>4
  <2>3. admissions[s].mode = UNITIZED /\ EligibleForSignal(outstandingPrincipal, s)
    BY <2>2, <1>1 DEF Deployed
  <2> QED BY <2>3, <1>2
<1> QED BY <1>3, <1>4 DEF Growth

\* Nothing else lets principal or units grow.
LEMMA NextGrowth ==
  ASSUME TreasuryTypeOK, UnitAssetIsKnown, [Next]_vars
  PROVE  Growth
<1>0. /\ outstandingPrincipal \in [Strategies -> [Assets -> Nat]]
      /\ unitsHeld \in [Strategies -> Nat]
  BY DEF TreasuryTypeOK
<1>1. ASSUME UNCHANGED <<outstandingPrincipal, unitsHeld>>
      PROVE  Growth
  BY <1>0, <1>1 DEF Growth
<1>2. ASSUME NEW s \in Strategies, CloseStrategy(s)
      PROVE  Growth
  <2>1. unitsHeld' = unitsHeld
    BY <1>2 DEF CloseStrategy
  <2>2. \A t \in Strategies, a \in Assets :
          outstandingPrincipal'[t][a] \in {0, outstandingPrincipal[t][a]}
    BY <1>0, <1>2 DEF CloseStrategy
  <2> QED BY <1>0, <2>1, <2>2 DEF Growth
<1>3. ASSUME NEW s \in Strategies, NEW flow \in Flows,
             ClassifyReturn(s, flow[1], flow[2])
      PROVE  Growth
  <2> DEFINE part == PrincipalPart(outstandingPrincipal[s][flow[1]], flow[2])
  <2>1. flow[1] \in Assets /\ flow[2] \in Nat
    BY Inputs
  <2>2. part \in Nat
    BY <2>1, ReturnNumbers
  <2>3. /\ outstandingPrincipal' = [outstandingPrincipal EXCEPT ![s][flow[1]] = @ - part]
        /\ unitsHeld' = unitsHeld
    BY <1>3 DEF ClassifyReturn
  <2> HIDE DEF part
  <2>4. \A t \in Strategies, a \in Assets :
          \/ outstandingPrincipal'[t][a] = outstandingPrincipal[t][a]
          \/ outstandingPrincipal'[t][a] = outstandingPrincipal[t][a] - part
    BY <1>0, <2>1, <2>3
  <2> QED BY <1>0, <2>2, <2>3, <2>4 DEF Growth
<1>4. ASSUME NEW s \in Strategies, NEW units \in UnitAmounts, NEW flow \in Flows,
             RedeemUnits(s, units, flow[2])
      PROVE  Growth
  <2> DEFINE asset == admissions[s].unitAsset
             released == BasisReleased(outstandingPrincipal[s][asset], units, unitsHeld[s])
  <2>1. units \in Nat
    BY Inputs
  <2>2. units # 0 /\ units <= unitsHeld[s] /\ admissions[s].mode = UNITIZED
    BY <1>4 DEF RedeemUnits
  <2>3. asset \in Assets /\ released \in Nat
    BY <2>1, <2>2, RedeemNumbers
  <2>4. /\ unitsHeld' = [unitsHeld EXCEPT ![s] = @ - units]
        /\ outstandingPrincipal' = [outstandingPrincipal EXCEPT ![s][asset] = @ - released]
    BY <1>4 DEF RedeemUnits
  <2> HIDE DEF asset, released
  <2>5. \A t \in Strategies, a \in Assets :
          \/ outstandingPrincipal'[t][a] = outstandingPrincipal[t][a]
          \/ outstandingPrincipal'[t][a] = outstandingPrincipal[t][a] - released
    BY <1>0, <2>3, <2>4
  <2>6. \A t \in Strategies :
          unitsHeld'[t] = unitsHeld[t] \/ unitsHeld'[t] = unitsHeld[t] - units
    BY <1>0, <2>4
  <2> QED BY <1>0, <2>1, <2>3, <2>5, <2>6 DEF Growth
<1>5. ASSUME NEW s \in Strategies, NEW flow \in Flows, NEW gained \in UnitAmounts,
             DeployToStrategy(s, flow[1], flow[2], gained)
      PROVE  Growth
  BY <1>5, Inputs, DeployGrowth
<1>6. ASSUME NEW signal \in Signals, NEW total \in SignalTotals, NEW gained \in UnitAmounts,
             DeployMarginalBySignal(signal, total, gained)
      PROVE  Growth
  BY <1>6, SignalGrowth
<1>7. CASE Administer
  <2>1. ASSUME NEW entry \in Admittable,
               AdmitStrategy(entry[1], entry[2], entry[3], entry[4])
        PROVE  Growth
    BY <2>1, <1>1 DEF AdmitStrategy, ledger
  <2>2. ASSUME NEW s \in Strategies, RemoveStrategy(s)
        PROVE  Growth
    BY <2>2, <1>1 DEF RemoveStrategy, ledger
  <2>3. ASSUME \/ \E payee \in OpsPayees : SetOpsRecipient(payee)
               \/ \E module \in Modules : ActivateLSG(module)
               \/ DeactivateLSG
        PROVE  Growth
    BY <2>3, <1>1 DEF SetOpsRecipient, ActivateLSG, DeactivateLSG, ledger
  <2> QED BY <1>7, <1>2, <2>1, <2>2, <2>3 DEF Administer
<1>8. CASE Move
  <2>1. ASSUME NEW s \in Strategies, NEW rewards \in RewardLists, NEW flow \in Flows,
               NEW change \in UnitChanges, HarvestYield(s, rewards, flow[2], change)
        PROVE  Growth
    BY <2>1, <1>1 DEF HarvestYield
  <2>2. ASSUME NEW flow \in Flows, BareInflow(flow[1], flow[2])
        PROVE  Growth
    BY <2>2, <1>1 DEF BareInflow
  <2> QED BY <1>8, <1>3, <1>4, <1>5, <1>6, <2>1, <2>2 DEF Move, RecallFromStrategy, ReturnFor
<1>9. CASE Distribute
  BY <1>9, <1>1 DEF Distribute, AllocateRevenue, BurnVuxRevenue, FundSignalerProgram
<1>10. CASE Tick \/ UNCHANGED vars
  BY <1>10, <1>1 DEF Tick, vars, ledger
<1> QED BY <1>7, <1>8, <1>9, <1>10 DEF Next

-----------------------------------------------------------------------------
(***************************************************************************)
(* The registry's parts of the invariant.                                  *)
(***************************************************************************)
\* An admission lists its asset, keeps what was listed and matured, and keeps the
\* unit asset of a strategy whose units are out.
LEMMA AdmitKeepsRegistry ==
  ASSUME TreasuryTypeOK, UnitAssetIsKnown, MaturedIsListed, UnitsAreRedeemable,
         NEW entry \in Admittable, AdmitStrategy(entry[1], entry[2], entry[3], entry[4])
  PROVE  /\ UnitAssetIsKnown' /\ MaturedIsListed' /\ UnitsAreRedeemable'
         /\ \A s \in Strategies : strategyAssets[s] \subseteq strategyAssets'[s]
         /\ \A s \in Strategies :
              unitsHeld[s] > 0 => admissions'[s].unitAsset = admissions[s].unitAsset
<1> DEFINE s == entry[1]
           asset == entry[2]
           mode == entry[4]
<1>1. s \in Strategies /\ asset \in Assets /\ mode \in Modes
  BY Inputs
<1>2. /\ admissions \in [Strategies -> [active : BOOLEAN, mode : Modes,
                                        unitAsset : Assets \cup {NoOne}]]
      /\ limits \in [Strategies -> [Assets -> [cap : Nat, maturesAt : Nat]]]
      /\ strategyAssets \in [Strategies -> SUBSET Assets]
      /\ unitsHeld \in [Strategies -> Nat] /\ now \in Nat
  BY DEF TreasuryTypeOK
<1>3. /\ admissions' = [admissions EXCEPT ![s] =
           [active |-> TRUE, mode |-> mode, unitAsset |-> UnitAssetAfter(s, asset, mode)]]
      /\ limits' = [limits EXCEPT ![s][asset] =
           [cap |-> entry[3], maturesAt |-> now + ADMISSION_DELAY]]
      /\ strategyAssets' = [strategyAssets EXCEPT ![s] = @ \cup {asset}]
      /\ unitsHeld' = unitsHeld
      /\ admissions[s].mode # mode => unitsHeld[s] = 0
  BY DEF AdmitStrategy, AssetsAfterAdmission, ModeMayChange, ledger
<1> HIDE DEF s, asset, mode
<1>4. now + ADMISSION_DELAY \in Nat \ {0}
  BY <1>2, DelayAssumption
<1>5. \A t \in Strategies, a \in Assets :
        limits'[t][a].maturesAt # 0 <=> (t = s /\ a = asset) \/ limits[t][a].maturesAt # 0
  <2> TAKE t \in Strategies, a \in Assets
  <2>1. limits'[t][a] = IF t = s /\ a = asset
                        THEN [cap |-> entry[3], maturesAt |-> now + ADMISSION_DELAY]
                        ELSE limits[t][a]
    BY <1>1, <1>2, <1>3
  <2> QED BY <2>1, <1>4
<1>6. \A t \in Strategies :
        strategyAssets'[t] = IF t = s THEN strategyAssets[t] \cup {asset} ELSE strategyAssets[t]
  BY <1>1, <1>2, <1>3
<1>7. \A t \in Strategies :
        admissions'[t] = IF t = s
          THEN [active |-> TRUE, mode |-> mode, unitAsset |-> UnitAssetAfter(s, asset, mode)]
          ELSE admissions[t]
  BY <1>1, <1>2, <1>3
<1>8. mode = UNITIZED => UnitAssetAfter(s, asset, mode) \in Assets
  BY <1>1, <1>2 DEF UnitAssetAfter
<1>9. ASSUME unitsHeld[s] > 0
      PROVE  /\ mode = UNITIZED /\ admissions[s].mode = UNITIZED
             /\ UnitAssetAfter(s, asset, mode) = admissions[s].unitAsset
             /\ admissions[s].unitAsset \in Assets
             /\ limits[s][admissions[s].unitAsset].maturesAt # 0
  <2>1. /\ admissions[s].mode = UNITIZED /\ admissions[s].mode = mode
        /\ limits[s][admissions[s].unitAsset].maturesAt # 0
    BY <1>1, <1>2, <1>3, <1>9 DEF UnitsAreRedeemable
  <2>2. admissions[s].unitAsset \in Assets /\ admissions[s].unitAsset # NoOne
    BY <1>1, <2>1, IdentitiesAssumption DEF UnitAssetIsKnown
  <2> QED BY <2>1, <2>2 DEF UnitAssetAfter
<1>10. UnitAssetIsKnown'
  BY <1>7, <1>8 DEF UnitAssetIsKnown
<1>11. MaturedIsListed'
  BY <1>1, <1>5, <1>6 DEF MaturedIsListed
<1>12. UnitsAreRedeemable'
  <2> SUFFICES ASSUME NEW t \in Strategies, unitsHeld[t] > 0
               PROVE  /\ admissions'[t].mode = UNITIZED
                      /\ limits'[t][admissions'[t].unitAsset].maturesAt # 0
    BY <1>3 DEF UnitsAreRedeemable
  <2>1. CASE t = s
    BY <2>1, <1>5, <1>7, <1>9
  <2>2. CASE t # s
    <3>1. /\ admissions[t].mode = UNITIZED /\ admissions[t].unitAsset \in Assets
          /\ limits[t][admissions[t].unitAsset].maturesAt # 0
      BY DEF UnitsAreRedeemable, UnitAssetIsKnown
    <3> QED BY <2>2, <3>1, <1>5, <1>7
  <2> QED BY <2>1, <2>2
<1>13. \A t \in Strategies :
         unitsHeld[t] > 0 => admissions'[t].unitAsset = admissions[t].unitAsset
  BY <1>7, <1>9
<1> QED BY <1>6, <1>10, <1>11, <1>12, <1>13

LEMMA RemoveKeepsRegistry ==
  ASSUME TreasuryTypeOK, NEW s \in Strategies, RemoveStrategy(s)
  PROVE  /\ UNCHANGED <<limits, strategyAssets, ledger>>
         /\ \A t \in Strategies : /\ admissions'[t].mode = admissions[t].mode
                                  /\ admissions'[t].unitAsset = admissions[t].unitAsset
<1>1. /\ UNCHANGED <<limits, strategyAssets, ledger>>
      /\ admissions' = [admissions EXCEPT ![s].active = FALSE]
  BY DEF RemoveStrategy
<1>2. admissions \in [Strategies -> [active : BOOLEAN, mode : Modes,
                                     unitAsset : Assets \cup {NoOne}]]
  BY DEF TreasuryTypeOK
<1> QED BY <1>1, <1>2

\* Every step keeps the registry's parts, whoever takes it.
LEMMA RegistryStep ==
  ASSUME TreasuryTypeOK, UnitAssetIsKnown, MaturedIsListed, UnitsAreRedeemable,
         CloseReachesEveryPrincipal, TreasuryTypeOK', [Next]_vars
  PROVE  /\ UnitAssetIsKnown' /\ MaturedIsListed' /\ UnitsAreRedeemable'
         /\ CloseReachesEveryPrincipal'
         /\ \A s \in Strategies :
              unitsHeld[s] > 0 => admissions'[s].unitAsset = admissions[s].unitAsset
<1>1. CASE UNCHANGED registry
  <2>1. UNCHANGED <<admissions, limits, strategyAssets>>
    BY <1>1 DEF registry
  <2>2. Growth
    BY NextGrowth
  <2>3. /\ outstandingPrincipal \in [Strategies -> [Assets -> Nat]]
        /\ outstandingPrincipal' \in [Strategies -> [Assets -> Nat]]
        /\ unitsHeld \in [Strategies -> Nat] /\ unitsHeld' \in [Strategies -> Nat]
    BY DEF TreasuryTypeOK
  <2>4. UnitsAreRedeemable'
    <3> SUFFICES ASSUME NEW s \in Strategies, unitsHeld'[s] > 0
                 PROVE  /\ admissions[s].mode = UNITIZED
                        /\ limits[s][admissions[s].unitAsset].maturesAt # 0
      BY <2>1 DEF UnitsAreRedeemable
    <3>1. CASE unitsHeld'[s] > unitsHeld[s]
      BY <2>2, <3>1 DEF Growth, MayHoldUnits
    <3>2. CASE ~(unitsHeld'[s] > unitsHeld[s])
      <4>1. unitsHeld[s] > 0
        BY <2>3, <3>2
      <4> QED BY <4>1 DEF UnitsAreRedeemable
    <3> QED BY <3>1, <3>2
  <2>5. CloseReachesEveryPrincipal'
    <3> SUFFICES ASSUME NEW s \in Strategies, NEW a \in Assets,
                        outstandingPrincipal'[s][a] > 0
                 PROVE  a \in strategyAssets[s]
      BY <2>1 DEF CloseReachesEveryPrincipal
    <3>1. CASE outstandingPrincipal'[s][a] > outstandingPrincipal[s][a]
      BY <2>2, <3>1 DEF Growth, MayHold, MaturedIsListed
    <3>2. CASE ~(outstandingPrincipal'[s][a] > outstandingPrincipal[s][a])
      <4>1. outstandingPrincipal[s][a] > 0
        <5>1. outstandingPrincipal[s][a] \in Nat /\ outstandingPrincipal'[s][a] \in Nat
          BY <2>3
        <5> QED BY <5>1, <3>2
      <4> QED BY <4>1 DEF CloseReachesEveryPrincipal
    <3> QED BY <3>1, <3>2
  <2> QED BY <2>1, <2>4, <2>5 DEF UnitAssetIsKnown, MaturedIsListed
<1>2. ASSUME NEW entry \in Admittable,
             AdmitStrategy(entry[1], entry[2], entry[3], entry[4])
      PROVE  /\ UnitAssetIsKnown' /\ MaturedIsListed' /\ UnitsAreRedeemable'
             /\ CloseReachesEveryPrincipal'
             /\ \A s \in Strategies :
                  unitsHeld[s] > 0 => admissions'[s].unitAsset = admissions[s].unitAsset
  <2>1. outstandingPrincipal' = outstandingPrincipal
    BY <1>2 DEF AdmitStrategy, ledger
  <2> QED BY <1>2, <2>1, AdmitKeepsRegistry DEF CloseReachesEveryPrincipal
<1>3. ASSUME NEW s \in Strategies, RemoveStrategy(s)
      PROVE  /\ UnitAssetIsKnown' /\ MaturedIsListed' /\ UnitsAreRedeemable'
             /\ CloseReachesEveryPrincipal'
             /\ \A t \in Strategies :
                  unitsHeld[t] > 0 => admissions'[t].unitAsset = admissions[t].unitAsset
  BY <1>3, RemoveKeepsRegistry
     DEF UnitAssetIsKnown, MaturedIsListed, UnitsAreRedeemable,
         CloseReachesEveryPrincipal, ledger
<1> QED BY <1>1, <1>2, <1>3, RegistryOrLedger

-----------------------------------------------------------------------------
(***************************************************************************)
(* The revenue equation.                                                   *)
(***************************************************************************)
\* The equation of one asset, and what moves both of its sides alike.
Credit(a) == realizedRevenue[a] + signalerBudget[a]

LEMMA CellTotal ==
  ASSUME TreasuryTypeOK, NEW s \in Strategies, NEW asset \in Assets, NEW x \in Int,
         outstandingPrincipal[s][asset] + x \in Nat,
         outstandingPrincipal' = [outstandingPrincipal EXCEPT ![s][asset] = @ + x]
  PROVE  \A a \in Assets : OutstandingTotal(a)' = IF a = asset THEN OutstandingTotal(a) + x
                                                  ELSE OutstandingTotal(a)
<1>1. outstandingPrincipal \in [Strategies -> [Assets -> Nat]] /\ IsFiniteSet(Strategies)
  BY IdentitiesAssumption DEF TreasuryTypeOK
<1>2. \A t \in Strategies, a \in Assets :
        outstandingPrincipal'[t][a] =
          IF t = s /\ a = asset THEN outstandingPrincipal[t][a] + x
          ELSE outstandingPrincipal[t][a]
  BY <1>1
<1> TAKE a \in Assets
<1> DEFINE f == [t \in Strategies |-> outstandingPrincipal[t][a]]
           h == [t \in Strategies |-> outstandingPrincipal'[t][a]]
<1>3. OutstandingTotal(a) = SumFunction(f) /\ OutstandingTotal(a)' = SumFunction(h)
  BY DEF OutstandingTotal
<1>4. CASE a # asset
  <2>1. f = h
    BY <1>2, <1>4
  <2> QED BY <1>3, <1>4, <2>1
<1>5. CASE a = asset
  <2>1. /\ f \in [Strategies -> Nat] /\ h \in [Strategies -> Nat]
        /\ h[s] = f[s] + x /\ \A t \in Strategies \ {s} : h[t] = f[t]
    BY <1>1, <1>2, <1>5
  <2> HIDE DEF f, h
  <2>2. SumFunction(h) = SumFunction(f) - f[s] + h[s]
    BY <1>1, <2>1, TotalUpdate
  <2>3. SumFunction(f) \in Nat /\ f[s] \in Nat
    BY <1>1, <2>1, TotalType
  <2>4. SumFunction(h) = SumFunction(f) + x
    BY <2>1, <2>2, <2>3
  <2> QED BY <1>3, <1>5, <2>4
<1> QED BY <1>4, <1>5

LEMMA TotalsType ==
  ASSUME TreasuryTypeOK
  PROVE  \A a \in Assets : /\ OutstandingTotal(a) \in Nat /\ realizedRevenue[a] \in Nat
                           /\ signalerBudget[a] \in Nat /\ result[a] \in Int
                           /\ held[a] \in Nat
<1> TAKE a \in Assets
<1>1. IsFiniteSet(Strategies)
  BY IdentitiesAssumption
<1>2. [s \in Strategies |-> outstandingPrincipal[s][a]] \in [Strategies -> Nat]
  BY DEF TreasuryTypeOK
<1>3. OutstandingTotal(a) \in Nat
  BY <1>1, <1>2, TotalType DEF OutstandingTotal
<1> QED BY <1>3 DEF TreasuryTypeOK

\* Writing off a strategy turns its cost in every listed asset into a loss.
LEMMA CloseKeepsRevenue ==
  ASSUME TreasuryTypeOK, RevenueIsEarned, NEW s \in Strategies, CloseStrategy(s)
  PROVE  RevenueIsEarned'
<1>1. outstandingPrincipal \in [Strategies -> [Assets -> Nat]] /\ IsFiniteSet(Strategies)
  BY IdentitiesAssumption DEF TreasuryTypeOK
<1> SUFFICES ASSUME NEW a \in Assets
             PROVE  realizedRevenue[a] + signalerBudget[a] = result'[a] + OutstandingTotal(a)'
  BY DEF RevenueIsEarned, CloseStrategy
<1> DEFINE lost == IF a \in strategyAssets[s] THEN outstandingPrincipal[s][a] ELSE 0
           f == [t \in Strategies |-> outstandingPrincipal[t][a]]
           h == [t \in Strategies |-> outstandingPrincipal'[t][a]]
<1>2. result'[a] = result[a] + lost
  BY DEF CloseStrategy
<1>3. \A t \in Strategies :
        outstandingPrincipal'[t][a] = IF t = s THEN outstandingPrincipal[t][a] - lost
                                      ELSE outstandingPrincipal[t][a]
  BY <1>1 DEF CloseStrategy
<1>4. lost \in Nat /\ lost <= outstandingPrincipal[s][a]
  BY <1>1
<1> HIDE DEF lost
<1>5. /\ f \in [Strategies -> Nat] /\ h \in [Strategies -> Nat]
      /\ h[s] = f[s] - lost /\ \A t \in Strategies \ {s} : h[t] = f[t]
  BY <1>1, <1>3, <1>4
<1>6. OutstandingTotal(a) = SumFunction(f) /\ OutstandingTotal(a)' = SumFunction(h)
  BY DEF OutstandingTotal
<1> HIDE DEF f, h
<1>7. SumFunction(h) = SumFunction(f) - f[s] + h[s]
  BY <1>1, <1>5, TotalUpdate
<1>8. SumFunction(f) \in Nat /\ f[s] \in Nat
  BY <1>1, <1>5, TotalType
<1>9. realizedRevenue[a] + signalerBudget[a] = result[a] + SumFunction(f)
  BY <1>6 DEF RevenueIsEarned
<1>10. result[a] \in Int /\ realizedRevenue[a] \in Int /\ signalerBudget[a] \in Int
  BY TotalsType
<1> QED BY <1>2, <1>4, <1>5, <1>6, <1>7, <1>8, <1>9, <1>10

\* A signal moves WETH from the balance into the strategies, unit for unit.
LEMMA SignalKeepsRevenue ==
  ASSUME TreasuryTypeOK, RevenueIsEarned, NEW signal \in Signals,
         NEW total \in SignalTotals, NEW gained \in UnitAmounts,
         DeployMarginalBySignal(signal, total, gained)
  PROVE  RevenueIsEarned'
<1>1. PICK c : /\ Deployed(c) /\ c.weth \in Nat
               /\ outstandingPrincipal' = c.outstanding
               /\ result' = Plus(result, WETH, c.weth - held[WETH])
               /\ UNCHANGED <<realizedRevenue, signalerBudget>>
  BY SignalStep
<1>2. WETH \in Assets /\ result \in [Assets -> Int]
  BY IdentitiesAssumption DEF TreasuryTypeOK
<1> SUFFICES ASSUME NEW a \in Assets
             PROVE  realizedRevenue[a] + signalerBudget[a] = result'[a] + OutstandingTotal(a)'
  BY <1>1 DEF RevenueIsEarned
<1>3. realizedRevenue[a] + signalerBudget[a] = result[a] + OutstandingTotal(a)
  BY DEF RevenueIsEarned
<1>4. CASE a # WETH
  <2>1. [s \in Strategies |-> outstandingPrincipal'[s][a]]
          = [s \in Strategies |-> outstandingPrincipal[s][a]]
    BY <1>1, <1>4 DEF Deployed
  <2>2. result'[a] = result[a]
    BY <1>1, <1>2, <1>4 DEF Plus
  <2> QED BY <1>3, <2>1, <2>2 DEF OutstandingTotal
<1>5. CASE a = WETH
  <2>1. OutstandingTotal(WETH)' + c.weth = OutstandingTotal(WETH) + held[WETH]
    BY <1>1 DEF Deployed, WethTotal, OutstandingTotal
  <2>2. result'[WETH] = result[WETH] + (c.weth - held[WETH])
    BY <1>1, <1>2 DEF Plus
  <2>3. OutstandingTotal(WETH)' \in Nat
    <3>1. [s \in Strategies |-> outstandingPrincipal'[s][WETH]] \in [Strategies -> Nat]
      BY <1>1, <1>2 DEF Deployed
    <3> QED BY <3>1, IdentitiesAssumption, TotalType DEF OutstandingTotal
  <2>4. /\ OutstandingTotal(WETH) \in Nat /\ held[WETH] \in Nat /\ result[WETH] \in Int
        /\ realizedRevenue[WETH] \in Nat /\ signalerBudget[WETH] \in Nat
    BY <1>2, TotalsType
  <2> QED BY <1>1, <1>3, <1>5, <2>1, <2>2, <2>3, <2>4
<1> QED BY <1>4, <1>5

\* Every other action writes one asset, by the same amount on both sides.
LEMMA AssetKeepsRevenue ==
  ASSUME TreasuryTypeOK, RevenueIsEarned, NEW asset \in Assets,
         NEW credit \in Int, NEW earned \in Int, NEW cost \in Int,
         credit = earned + cost,
         \A a \in Assets : Credit(a)' = IF a = asset THEN Credit(a) + credit ELSE Credit(a),
         \A a \in Assets : result'[a] = IF a = asset THEN result[a] + earned ELSE result[a],
         \A a \in Assets : OutstandingTotal(a)' = IF a = asset THEN OutstandingTotal(a) + cost
                                                  ELSE OutstandingTotal(a)
  PROVE  RevenueIsEarned'
<1> SUFFICES ASSUME NEW a \in Assets
             PROVE  Credit(a)' = result'[a] + OutstandingTotal(a)'
  BY DEF RevenueIsEarned, Credit
<1>1. Credit(a) = result[a] + OutstandingTotal(a)
  BY DEF RevenueIsEarned, Credit
<1>2. Credit(a) \in Int /\ result[a] \in Int /\ OutstandingTotal(a) \in Int
  BY TotalsType DEF Credit
<1>3. CASE a = asset
  BY <1>1, <1>2, <1>3
<1>4. CASE a # asset
  BY <1>1, <1>4
<1> QED BY <1>3, <1>4

LEMMA CostUnchanged ==
  ASSUME UNCHANGED outstandingPrincipal
  PROVE  \A a \in Assets : OutstandingTotal(a)' = OutstandingTotal(a)
BY DEF OutstandingTotal

LEMMA RevenueStep ==
  ASSUME TreasuryTypeOK, UnitAssetIsKnown, RevenueIsEarned, [Next]_vars
  PROVE  RevenueIsEarned'
<1>0. /\ realizedRevenue \in [Assets -> Nat] /\ signalerBudget \in [Assets -> Nat]
      /\ result \in [Assets -> Int] /\ held \in [Assets -> Nat]
      /\ outstandingPrincipal \in [Strategies -> [Assets -> Nat]]
      /\ \A a \in Assets : OutstandingTotal(a) \in Nat
  BY TotalsType DEF TreasuryTypeOK
<1>1. ASSUME UNCHANGED <<outstandingPrincipal, realizedRevenue, signalerBudget, result>>
      PROVE  RevenueIsEarned'
  BY <1>1, CostUnchanged DEF RevenueIsEarned
<1>2. ASSUME NEW s \in Strategies, NEW flow \in Flows, NEW gained \in UnitAmounts,
             DeployToStrategy(s, flow[1], flow[2], gained)
      PROVE  RevenueIsEarned'
  <2> DEFINE asset == flow[1]
             x == flow[2]
  <2>1. asset \in Assets /\ x \in Nat
    BY Inputs
  <2>2. /\ outstandingPrincipal' = [outstandingPrincipal EXCEPT ![s][asset] = @ + x]
        /\ result' = [result EXCEPT ![asset] = @ + -x]
        /\ UNCHANGED <<realizedRevenue, signalerBudget>>
    BY <1>2 DEF DeployToStrategy, Plus
  <2> HIDE DEF asset, x
  <2>3. outstandingPrincipal[s][asset] + x \in Nat /\ x \in Int
    BY <1>0, <2>1
  <2>4. \A a \in Assets : OutstandingTotal(a)' = IF a = asset THEN OutstandingTotal(a) + x
                                                 ELSE OutstandingTotal(a)
    BY <2>1, <2>2, <2>3, CellTotal
  <2>5. \A a \in Assets : result'[a] = IF a = asset THEN result[a] + -x ELSE result[a]
    BY <1>0, <2>1, <2>2
  <2>6. \A a \in Assets : Credit(a)' = IF a = asset THEN Credit(a) + 0 ELSE Credit(a)
    BY <1>0, <2>2 DEF Credit
  <2>7. -x \in Int /\ x \in Int /\ 0 = -x + x
    BY <2>1
  <2> QED BY <2>1, <2>4, <2>5, <2>6, <2>7, AssetKeepsRevenue
<1>3. ASSUME NEW s \in Strategies, NEW flow \in Flows,
             ClassifyReturn(s, flow[1], flow[2])
      PROVE  RevenueIsEarned'
  <2> DEFINE asset == flow[1]
             x == flow[2]
             part == PrincipalPart(outstandingPrincipal[s][asset], x)
  <2>1. asset \in Assets /\ x \in Nat
    BY Inputs
  <2>2. part \in Nat /\ part <= outstandingPrincipal[s][asset] /\ part <= x
    BY <2>1, ReturnNumbers
  <2>3. /\ outstandingPrincipal' = [outstandingPrincipal EXCEPT ![s][asset] = @ - part]
        /\ realizedRevenue' = [realizedRevenue EXCEPT ![asset] = @ + (x - part)]
        /\ result' = [result EXCEPT ![asset] = @ + x]
        /\ UNCHANGED signalerBudget
    BY <1>3 DEF ClassifyReturn, Plus
  <2> HIDE DEF asset, x, part
  <2>4. \A a \in Assets : OutstandingTotal(a)' = IF a = asset THEN OutstandingTotal(a) + -part
                                                 ELSE OutstandingTotal(a)
    <3>0. /\ outstandingPrincipal[s][asset] + -part \in Nat
          /\ outstandingPrincipal[s][asset] - part = outstandingPrincipal[s][asset] + -part
      <4>1. outstandingPrincipal[s][asset] \in Nat
        BY <1>0, <2>1
      <4> QED BY <4>1, <2>2
    <3>1. outstandingPrincipal' = [outstandingPrincipal EXCEPT ![s][asset] = @ + -part]
      BY <3>0, <2>3
    <3>2. -part \in Int
      BY <2>2
    <3> QED BY <2>1, <3>0, <3>1, <3>2, CellTotal
  <2>5. \A a \in Assets : result'[a] = IF a = asset THEN result[a] + x ELSE result[a]
    BY <1>0, <2>1, <2>3
  <2>6. \A a \in Assets : Credit(a)' = IF a = asset THEN Credit(a) + (x - part) ELSE Credit(a)
    BY <1>0, <2>1, <2>2, <2>3 DEF Credit
  <2>7. x - part \in Int /\ x \in Int /\ -part \in Int /\ x - part = x + -part
    BY <2>1, <2>2
  <2> QED BY <2>1, <2>4, <2>5, <2>6, <2>7, AssetKeepsRevenue
<1>4. ASSUME NEW s \in Strategies, NEW units \in UnitAmounts, NEW flow \in Flows,
             RedeemUnits(s, units, flow[2])
      PROVE  RevenueIsEarned'
  <2> DEFINE asset == admissions[s].unitAsset
             released == BasisReleased(outstandingPrincipal[s][asset], units, unitsHeld[s])
             out == flow[2]
             gain == IF out > released THEN out - released ELSE 0
             loss == IF out > released THEN 0 ELSE released - out
  <2>1. units \in Nat /\ out \in Nat
    BY Inputs
  <2>2. units # 0 /\ units <= unitsHeld[s] /\ admissions[s].mode = UNITIZED
    BY <1>4 DEF RedeemUnits
  <2>3. /\ asset \in Assets /\ released \in Nat
        /\ released <= outstandingPrincipal[s][asset]
    BY <2>1, <2>2, RedeemNumbers
  <2>4. /\ outstandingPrincipal' = [outstandingPrincipal EXCEPT ![s][asset] = @ - released]
        /\ realizedRevenue' = [realizedRevenue EXCEPT ![asset] = @ + gain]
        /\ result' = [result EXCEPT ![asset] = @ + (out + loss)]
        /\ UNCHANGED signalerBudget
    BY <1>4 DEF RedeemUnits, Plus
  <2> HIDE DEF asset, released, out
  <2>5. gain \in Int /\ loss \in Int /\ out + loss \in Int /\ -released \in Int
        /\ gain = (out + loss) + -released
    BY <2>1, <2>3
  <2> HIDE DEF gain, loss
  <2>6. \A a \in Assets : OutstandingTotal(a)' = IF a = asset THEN OutstandingTotal(a) + -released
                                                 ELSE OutstandingTotal(a)
    <3>0. /\ outstandingPrincipal[s][asset] + -released \in Nat
          /\ outstandingPrincipal[s][asset] - released = outstandingPrincipal[s][asset] + -released
      <4>1. outstandingPrincipal[s][asset] \in Nat
        BY <1>0, <2>3
      <4> QED BY <4>1, <2>3
    <3>1. outstandingPrincipal' = [outstandingPrincipal EXCEPT ![s][asset] = @ + -released]
      BY <3>0, <2>4
    <3> QED BY <2>3, <2>5, <3>0, <3>1, CellTotal
  <2>7. \A a \in Assets : result'[a] = IF a = asset THEN result[a] + (out + loss) ELSE result[a]
    BY <1>0, <2>3, <2>4
  <2>8. \A a \in Assets : Credit(a)' = IF a = asset THEN Credit(a) + gain ELSE Credit(a)
    BY <1>0, <2>3, <2>4, <2>5 DEF Credit
  <2> QED BY <2>3, <2>5, <2>6, <2>7, <2>8, AssetKeepsRevenue
<1>5. ASSUME NEW s \in Strategies, NEW rewards \in RewardLists, NEW flow \in Flows,
             NEW change \in UnitChanges, HarvestYield(s, rewards, flow[2], change)
      PROVE  RevenueIsEarned'
  <2> DEFINE gained == flow[2]
  <2>1. gained \in Nat
    BY Inputs
  <2>2. ASSUME NEW a \in Assets
        PROVE  Yield(rewards, gained)[a] = IF a \in ToSet(rewards) THEN gained ELSE 0
    BY DEF Yield, Contains, ToSet
  <2>3. /\ realizedRevenue' = [a \in Assets |-> realizedRevenue[a] + Yield(rewards, gained)[a]]
        /\ result' = [a \in Assets |->
                        result[a] + (IF a \in ToSet(rewards) THEN gained ELSE 0)]
        /\ UNCHANGED <<outstandingPrincipal, signalerBudget>>
    BY <1>5 DEF HarvestYield
  <2> HIDE DEF gained
  <2> SUFFICES ASSUME NEW a \in Assets
               PROVE  realizedRevenue'[a] + signalerBudget[a]
                        = result'[a] + OutstandingTotal(a)
    BY <2>3, CostUnchanged DEF RevenueIsEarned
  <2>4. realizedRevenue[a] + signalerBudget[a] = result[a] + OutstandingTotal(a)
    BY DEF RevenueIsEarned
  <2> DEFINE y == IF a \in ToSet(rewards) THEN gained ELSE 0
  <2>5. y \in Nat
    BY <2>1
  <2>6. realizedRevenue'[a] = realizedRevenue[a] + y /\ result'[a] = result[a] + y
    BY <2>2, <2>3
  <2>7. /\ realizedRevenue[a] \in Nat /\ signalerBudget[a] \in Nat
        /\ result[a] \in Int /\ OutstandingTotal(a) \in Nat
    BY <1>0
  <2> HIDE DEF y
  <2> QED BY <2>4, <2>5, <2>6, <2>7
<1>6. ASSUME NEW legs \in Allocations,
             AllocateRevenue(legs[1], legs[2], legs[3], legs[4], legs[5])
      PROVE  RevenueIsEarned'
  <2> DEFINE asset == legs[1]
             total == legs[2] + legs[3] + legs[4] + legs[5]
             kept == legs[5]
  <2>1. asset \in Assets /\ total \in Nat /\ kept \in Nat
    BY Inputs
  <2>2. /\ realizedRevenue' = [realizedRevenue EXCEPT ![asset] = @ + -total]
        /\ signalerBudget' = [signalerBudget EXCEPT ![asset] = @ + kept]
        /\ result' = [result EXCEPT ![asset] = @ + -(total - kept)]
        /\ UNCHANGED outstandingPrincipal
    BY <1>6 DEF AllocateRevenue, Plus
  <2> HIDE DEF asset, total, kept
  <2> DEFINE x == -(total - kept)
  <2>3. x = -total + kept
    BY <2>1
  <2>7. x \in Int /\ x = x + 0
    BY <2>1
  <2>4. \A a \in Assets : result'[a] = IF a = asset THEN result[a] + x ELSE result[a]
    BY <1>0, <2>1, <2>2
  <2>5. \A a \in Assets : Credit(a)' = IF a = asset THEN Credit(a) + x ELSE Credit(a)
    BY <1>0, <2>1, <2>2, <2>3 DEF Credit
  <2>6. \A a \in Assets : OutstandingTotal(a)' = IF a = asset THEN OutstandingTotal(a) + 0
                                                 ELSE OutstandingTotal(a)
    BY <1>0, <2>2, CostUnchanged
  <2> HIDE DEF x
  <2> QED BY <2>1, <2>4, <2>5, <2>6, <2>7, AssetKeepsRevenue
<1>7. ASSUME BurnVuxRevenue
      PROVE  RevenueIsEarned'
  <2> DEFINE x == -realizedRevenue[VUX]
  <2>1. VUX \in Assets /\ x \in Int /\ x = x + 0
    BY <1>0, IdentitiesAssumption
  <2>2. \A a \in Assets : result'[a] = IF a = VUX THEN result[a] + x ELSE result[a]
    BY <1>0, <1>7 DEF BurnVuxRevenue, Plus
  <2>3. \A a \in Assets : Credit(a)' = IF a = VUX THEN Credit(a) + x ELSE Credit(a)
    BY <1>0, <1>7 DEF BurnVuxRevenue, Credit
  <2>4. \A a \in Assets : OutstandingTotal(a)' = IF a = VUX THEN OutstandingTotal(a) + 0
                                                 ELSE OutstandingTotal(a)
    BY <1>0, <1>7, CostUnchanged DEF BurnVuxRevenue
  <2> HIDE DEF x
  <2> QED BY <2>1, <2>2, <2>3, <2>4, AssetKeepsRevenue
<1>8. ASSUME NEW flow \in Flows, FundSignalerProgram(flow[1], flow[2])
      PROVE  RevenueIsEarned'
  <2> DEFINE asset == flow[1]
             x == -flow[2]
  <2>1. asset \in Assets /\ x \in Int /\ x = x + 0
    BY Inputs
  <2>2. /\ signalerBudget' = [signalerBudget EXCEPT ![asset] = @ + x]
        /\ result' = [result EXCEPT ![asset] = @ + x]
        /\ UNCHANGED <<outstandingPrincipal, realizedRevenue>>
    BY <1>8 DEF FundSignalerProgram, Plus
  <2> HIDE DEF asset, x
  <2>3. \A a \in Assets : result'[a] = IF a = asset THEN result[a] + x ELSE result[a]
    BY <1>0, <2>1, <2>2
  <2>4. \A a \in Assets : Credit(a)' = IF a = asset THEN Credit(a) + x ELSE Credit(a)
    BY <1>0, <2>1, <2>2 DEF Credit
  <2>5. \A a \in Assets : OutstandingTotal(a)' = IF a = asset THEN OutstandingTotal(a) + 0
                                                 ELSE OutstandingTotal(a)
    BY <1>0, <2>2, CostUnchanged
  <2> QED BY <2>1, <2>3, <2>4, <2>5, AssetKeepsRevenue
<1>9. CASE Administer
  BY <1>9, <1>1, CloseKeepsRevenue
     DEF Administer, AdmitStrategy, RemoveStrategy, SetOpsRecipient, ActivateLSG,
         DeactivateLSG, ledger
<1>10. CASE Move
  <2>1. ASSUME NEW flow \in Flows, BareInflow(flow[1], flow[2])
        PROVE  RevenueIsEarned'
    BY <2>1, <1>1 DEF BareInflow
  <2> QED
    BY <1>10, <1>2, <1>3, <1>4, <1>5, <2>1, SignalKeepsRevenue
       DEF Move, RecallFromStrategy, ReturnFor
<1>11. CASE Distribute
  BY <1>11, <1>6, <1>7, <1>8 DEF Distribute
<1>12. CASE Tick \/ UNCHANGED vars
  BY <1>12, <1>1 DEF Tick, vars, ledger
<1> QED BY <1>9, <1>10, <1>11, <1>12 DEF Next

-----------------------------------------------------------------------------
(***************************************************************************)
(* The theorems.                                                           *)
(***************************************************************************)
\* Nothing is deployed, earned or admitted at the start.
LEMMA InitialState == Init => IInv
<1> SUFFICES ASSUME Init PROVE IInv
  OBVIOUS
<1> USE IdentitiesAssumption DEF Init
<1>1. TreasuryTypeOK
  BY DEF TreasuryTypeOK, Nothing, Modes
<1>2. /\ UnitAssetIsKnown /\ MaturedIsListed /\ UnitsAreRedeemable
      /\ CloseReachesEveryPrincipal
  BY DEF UnitAssetIsKnown, MaturedIsListed, UnitsAreRedeemable,
         CloseReachesEveryPrincipal, Nothing, NETTING, UNITIZED
<1>3. RevenueIsEarned
  <2> SUFFICES ASSUME NEW a \in Assets PROVE OutstandingTotal(a) = 0
    BY DEF RevenueIsEarned, Nothing
  <2>1. OutstandingTotal(a) = SumFunction([s \in Strategies |-> IF s \in {} THEN 0 ELSE 0])
    <3>1. [s \in Strategies |-> outstandingPrincipal[s][a]]
            = [s \in Strategies |-> IF s \in {} THEN 0 ELSE 0]
      BY DEF Nothing
    <3> QED BY <3>1 DEF OutstandingTotal
  <2>2. SumFunction([s \in Strategies |-> IF s \in {} THEN 0 ELSE 0]) = Cardinality({}) * 0
    BY TotalUniform, 0 \in Nat
  <2>3. Cardinality({}) = 0
    BY FS_EmptySet
  <2> QED BY <2>1, <2>2, <2>3
<1> QED BY <1>1, <1>2, <1>3 DEF IInv

\* Every step preserves the invariant.
LEMMA InvariantStep == IInv /\ [Next]_vars => IInv'
<1> SUFFICES ASSUME IInv, [Next]_vars PROVE IInv'
  OBVIOUS
<1>1. TreasuryTypeOK'
  BY TypeStep DEF IInv
<1>2. UnitAssetIsKnown' /\ MaturedIsListed' /\ UnitsAreRedeemable'
      /\ CloseReachesEveryPrincipal'
  BY <1>1, RegistryStep DEF IInv
<1>3. RevenueIsEarned'
  BY RevenueStep DEF IInv
<1> QED BY <1>1, <1>2, <1>3 DEF IInv

LEMMA InductiveInvariant == Spec => []IInv
BY InitialState, InvariantStep, PTL DEF Spec

\* No balance, credit, principal or unit count is ever driven below zero, whatever
\* adapters pay and modules answer.
THEOREM TreasuryTypes == Spec => []TreasuryTypeOK
BY InductiveInvariant, PTL DEF IInv

\* What may be distributed has been earned: principal never becomes revenue, in
\* any order of deployments, returns, redemptions, harvests and write-offs.
THEOREM RevenueEarned == Spec => []RevenueIsEarned
BY InductiveInvariant, PTL DEF IInv

\* No removal or re-admission puts units out of redeemUnits' reach.
THEOREM UnitsRedeemable == Spec => []UnitsAreRedeemable
BY InductiveInvariant, PTL DEF IInv

\* closeStrategy's list of assets covers every asset with a basis.
THEOREM CloseReaches == Spec => []CloseReachesEveryPrincipal
BY InductiveInvariant, PTL DEF IInv

\* However a module splits a signal, a treasury that holds what the operator put
\* behind it deploys without a refusal.
THEOREM SignalsDeploy == Spec => []SignalNeverReverts
<1>1. IInv => SignalNeverReverts
  BY Inputs, SignalOutcome DEF IInv, SignalNeverReverts
<1> QED BY <1>1, InductiveInvariant, PTL

\* Exposure grows only where it is admitted, matured and within its cap, and a
\* signal spends at most what the operator put behind it.
THEOREM ExposureLimited == Spec => ExposureStaysWithinLimits
<1> DEFINE Grown(s, a) ==
             outstandingPrincipal'[s][a] > outstandingPrincipal[s][a] =>
               /\ admissions[s].active
               /\ limits[s][a].maturesAt # 0 /\ now >= limits[s][a].maturesAt
               /\ outstandingPrincipal'[s][a] <= limits[s][a].cap
           Spent ==
             \A signal \in Signals, total \in SignalTotals, gained \in UnitAmounts :
               DeployMarginalBySignal(signal, total, gained) => held[WETH] - held'[WETH] <= total
<1>1. IInv /\ [Next]_vars
        => [/\ \A s \in Strategies, a \in Assets : Grown(s, a)
            /\ allocationCount' # allocationCount => Spent]_vars
  <2> SUFFICES ASSUME IInv, [Next]_vars
               PROVE  /\ \A s \in Strategies, a \in Assets : Grown(s, a)
                      /\ Spent
    OBVIOUS
  <2>1. \A s \in Strategies, a \in Assets : Grown(s, a)
    BY NextGrowth DEF IInv, Growth, MayHold
  <2>2. ASSUME NEW signal \in Signals, NEW total \in SignalTotals, NEW gained \in UnitAmounts,
               DeployMarginalBySignal(signal, total, gained)
        PROVE  held[WETH] - held'[WETH] <= total
    <3>1. PICK c : /\ held[WETH] - c.weth <= total
                   /\ held' = [held EXCEPT ![WETH] = c.weth]
      BY <2>2, SignalStep DEF IInv
    <3>2. held'[WETH] = c.weth
      BY <3>1, IdentitiesAssumption DEF IInv, TreasuryTypeOK
    <3> QED BY <3>1, <3>2
  <2> QED BY <2>1, <2>2
<1> QED BY <1>1, InductiveInvariant, PTL DEF Spec, ExposureStaysWithinLimits

\* Units shrink only in a redemption, which releases their share of the basis.
LEMMA UnitsShrink ==
  ASSUME TreasuryTypeOK, UnitAssetIsKnown, [Next]_vars, NEW s \in Strategies,
         unitsHeld'[s] < unitsHeld[s]
  PROVE  \E units \in UnitAmounts, flow \in Flows : RedeemUnits(s, units, flow[2])
<1>0. unitsHeld \in [Strategies -> Nat]
  BY DEF TreasuryTypeOK
<1>1. unitsHeld' # unitsHeld
  BY <1>0
<1>2. Move
  BY <1>1 DEF Next, Administer, Distribute, Tick, AdmitStrategy, RemoveStrategy,
     CloseStrategy, SetOpsRecipient, ActivateLSG, DeactivateLSG, AllocateRevenue,
     BurnVuxRevenue, FundSignalerProgram, vars, ledger
<1>3. ASSUME NEW t \in Strategies, NEW flow \in Flows, NEW gained \in UnitAmounts,
             DeployToStrategy(t, flow[1], flow[2], gained)
      PROVE  FALSE
  <2>1. gained \in Nat
    BY Inputs
  <2> QED BY <1>0, <1>3, <2>1 DEF DeployToStrategy, UnitsAfterDeploy
<1>4. ASSUME NEW signal \in Signals, NEW total \in SignalTotals, NEW gained \in UnitAmounts,
             DeployMarginalBySignal(signal, total, gained)
      PROVE  FALSE
  <2>1. PICK c : Deployed(c) /\ unitsHeld' = c.units
    BY <1>4, SignalStep
  <2>2. c.units[s] >= unitsHeld[s] /\ c.units[s] \in Nat /\ unitsHeld[s] \in Nat
    BY <1>0, <2>1 DEF Deployed
  <2> QED BY <2>1, <2>2
<1>5. ASSUME NEW t \in Strategies, NEW units \in UnitAmounts, NEW flow \in Flows,
             RedeemUnits(t, units, flow[2])
      PROVE  t = s
  BY <1>0, <1>5 DEF RedeemUnits
<1> QED
  BY <1>1, <1>2, <1>3, <1>4, <1>5
     DEF Move, RecallFromStrategy, ReturnFor, ClassifyReturn, HarvestYield, BareInflow

\* A redemption leaves no more basis per unit than there was, in the asset the
\* units were bought with.
THEOREM RedemptionsReleaseBasis == Spec => RedemptionReleasesBasisFirst
<1> DEFINE Released(s, a) ==
             /\ unitsHeld'[s] < unitsHeld[s] =>
                  outstandingPrincipal'[s][a] * unitsHeld[s]
                    <= outstandingPrincipal[s][a] * unitsHeld'[s]
             /\ unitsHeld[s] > 0 => admissions'[s].unitAsset = a
<1>1. IInv /\ [Next]_vars
        => [\A s \in Strategies : Released(s, admissions[s].unitAsset)]_vars
  <2> SUFFICES ASSUME IInv, [Next]_vars, NEW s \in Strategies
               PROVE  Released(s, admissions[s].unitAsset)
    OBVIOUS
  <2>0. /\ TreasuryTypeOK /\ UnitAssetIsKnown /\ TreasuryTypeOK'
        /\ outstandingPrincipal \in [Strategies -> [Assets -> Nat]]
        /\ unitsHeld \in [Strategies -> Nat]
    BY TypeStep DEF IInv, TreasuryTypeOK
  <2>1. unitsHeld[s] > 0 => admissions'[s].unitAsset = admissions[s].unitAsset
    BY <2>0, RegistryStep DEF IInv
  <2>2. ASSUME unitsHeld'[s] < unitsHeld[s]
        PROVE  outstandingPrincipal'[s][admissions[s].unitAsset] * unitsHeld[s]
                 <= outstandingPrincipal[s][admissions[s].unitAsset] * unitsHeld'[s]
    <3>1. PICK units \in UnitAmounts, flow \in Flows : RedeemUnits(s, units, flow[2])
      BY <2>0, <2>2, UnitsShrink
    <3> DEFINE asset == admissions[s].unitAsset
               basis == outstandingPrincipal[s][asset]
               total == unitsHeld[s]
               released == BasisReleased(basis, units, total)
    <3>2. units \in Nat /\ units # 0 /\ units <= total /\ admissions[s].mode = UNITIZED
      BY <3>1, Inputs DEF RedeemUnits
    <3>3. /\ asset \in Assets /\ basis \in Nat /\ total \in Nat \ {0}
          /\ released \in Nat /\ released <= basis
          /\ basis * units <= released * total
      BY <2>0, <3>2, RedeemNumbers
    <3>4. /\ outstandingPrincipal' = [outstandingPrincipal EXCEPT ![s][asset] = @ - released]
          /\ unitsHeld' = [unitsHeld EXCEPT ![s] = @ - units]
      BY <3>1 DEF RedeemUnits
    <3> HIDE DEF asset, released
    <3>5. outstandingPrincipal'[s][asset] = basis - released /\ unitsHeld'[s] = total - units
      BY <2>0, <3>3, <3>4
    <3> HIDE DEF basis, total
    <3>6. (basis - released) * total <= basis * (total - units)
      <4>1. /\ (basis + -released) * total = basis * total + (-released) * total
            /\ basis * (total + -units) = basis * total + basis * (-units)
        BY <3>2, <3>3, Distributes
      <4>2. /\ (-released) * total = -(released * total) /\ basis * (-units) = -(basis * units)
            /\ basis * total \in Nat /\ released * total \in Nat /\ basis * units \in Nat
        BY <3>2, <3>3
      <4>3. basis - released = basis + -released /\ total - units = total + -units
        BY <3>2, <3>3
      <4> QED BY <3>3, <4>1, <4>2, <4>3
    <3> QED BY <3>5, <3>6 DEF asset, basis, total
  <2> QED BY <2>1, <2>2
<1> QED BY <1>1, InductiveInvariant, PTL DEF Spec, RedemptionReleasesBasisFirst
=============================================================================
