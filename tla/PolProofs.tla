------------------------------ MODULE PolProofs ------------------------------
(***************************************************************************)
(* Proofs about the launch and the position, for every pool, every amount  *)
(* and every price within the pool's domain.  First the arithmetic of the  *)
(* estimate, then the inductive invariant, then the theorems.              *)
(***************************************************************************)
EXTENDS Genesis, FiniteSums

-----------------------------------------------------------------------------
(***************************************************************************)
(* Division and products.                                                  *)
(***************************************************************************)
LEMMA FloorFacts ==
  ASSUME NEW n \in Nat, NEW c \in Nat \ {0}
  PROVE  n \div c \in Nat /\ c * (n \div c) <= n
OBVIOUS

LEMMA CeilingType ==
  ASSUME NEW n \in Nat, NEW c \in Nat \ {0}
  PROVE  (n + c - 1) \div c \in Nat
OBVIOUS

\* A ceiling is the least multiple: it stays under every bound its dividend fits.
LEMMA CeilingFits ==
  ASSUME NEW n \in Nat, NEW c \in Nat \ {0}, NEW k \in Nat, n <= c * k
  PROVE  (n + c - 1) \div c <= k
<1>1. n + c - 1 < c * (k + 1)
  OBVIOUS
<1> DEFINE f == (n + c - 1) \div c
<1>2. f \in Nat /\ c * f <= n + c - 1
  BY FloorFacts
<1>3. c * f < c * (k + 1)
  BY <1>1, <1>2
<1>4. f < k + 1
  BY <1>2, <1>3
<1> QED
  BY <1>2, <1>4

LEMMA ProductIsNat ==
  ASSUME NEW a \in Nat, NEW b \in Nat
  PROVE  a * b \in Nat
OBVIOUS

LEMMA ProductGrows ==
  ASSUME NEW a \in Nat, NEW b \in Nat, NEW c \in Nat, a <= b
  PROVE  a * c <= b * c /\ c * a <= c * b
OBVIOUS

LEMMA Cancel ==
  ASSUME NEW a \in Nat, NEW b \in Nat, NEW c \in Nat \ {0}, a * c <= b * c
  PROVE  a <= b
OBVIOUS

-----------------------------------------------------------------------------
(***************************************************************************)
(* The estimate of _affordableLiquidity, side by side.                     *)
(***************************************************************************)

\* The position reaches less far up than the whole domain, so each unit of
\* liquidity needs less of token0 than the estimate supposes.
LEMMA Reach0 ==
  ASSUME NEW p \in Nat, NEW r \in Nat \ {0}, NEW hi \in Nat, NEW max \in Nat,
         p < max, r <= hi, hi <= max, p <= r \/ r = hi,
         NEW k \in Nat, k * (max - p) <= p * max
  PROVE  k * (hi - r) <= r * hi
<1>1. CASE r = hi
  <2>1. k * (hi - r) = 0
    BY <1>1
  <2> QED
    BY <2>1, ProductIsNat
<1>2. CASE p <= r
  <2> DEFINE d == hi - r
             e == max - p
  <2>1. d \in Nat /\ e \in Nat /\ max \in Nat \ {0}
    OBVIOUS
  <2>2. d * max <= e * hi
    <3>1. d * max = hi * max - r * max
      OBVIOUS
    <3>2. e * hi = hi * max - p * hi
      OBVIOUS
    <3>3. p * hi <= r * hi /\ r * hi <= r * max
      BY <1>2, ProductGrows
    <3>4. p * hi \in Nat /\ r * max \in Nat /\ r * hi \in Nat /\ hi * max \in Nat
      BY ProductIsNat
    <3> HIDE DEF d, e
    <3> QED
      BY <3>1, <3>2, <3>3, <3>4
  <2>3. (k * d) * max <= k * (e * hi)
    <3>1. d * max \in Nat /\ e * hi \in Nat
      BY <2>1, ProductIsNat
    <3>2. k * (d * max) <= k * (e * hi)
      BY <2>2, <3>1, ProductGrows
    <3>3. k * (d * max) = (k * d) * max
      BY <2>1
    <3> QED
      BY <3>2, <3>3
  <2>4. k * (e * hi) <= (p * hi) * max
    <3>1. k * e \in Nat /\ p * max \in Nat
      BY <2>1, ProductIsNat
    <3>2. (k * e) * hi <= (p * max) * hi
      BY <3>1, ProductGrows
    <3>3. k * (e * hi) = (k * e) * hi /\ (p * max) * hi = (p * hi) * max
      BY <2>1
    <3> QED
      BY <3>2, <3>3
  <2>5. k * d <= p * hi
    <3>1. k * d \in Nat /\ p * hi \in Nat
      BY <2>1, ProductIsNat
    <3>2. (k * d) * max <= (p * hi) * max
      <4>1. (k * d) * max \in Nat /\ (p * hi) * max \in Nat
        BY <3>1, ProductIsNat
      <4>2. k * (e * hi) \in Nat
        BY <2>1, ProductIsNat
      <4> QED
        BY <2>3, <2>4, <4>1, <4>2
    <3> QED
      BY <3>1, <3>2, <2>1, Cancel
  <2>6. p * hi <= r * hi
    BY <1>2, ProductGrows
  <2> QED
    BY <2>1, <2>5, <2>6, ProductIsNat
<1> QED
  BY <1>1, <1>2

LEMMA Charge0IsCovered ==
  ASSUME NEW a \in Nat, NEW p \in Nat, NEW r \in Nat \ {0}, NEW hi \in Nat, NEW l \in Nat,
         p < MAX_SQRT_RATIO, r <= hi, hi <= MAX_SQRT_RATIO, p <= r \/ r = hi,
         l <= From0(a, p)
  PROVE  Charge0(l, r, hi) <= a
<1> DEFINE k == (p * MAX_SQRT_RATIO) \div (MAX_SQRT_RATIO - p)
           d == hi - r
           n == (l * Q96) * d
           m == (n + hi - 1) \div hi
<1> USE PriceAssumption
<1>1. /\ MAX_SQRT_RATIO \in Nat /\ MAX_SQRT_RATIO - p \in Nat \ {0}
      /\ d \in Nat /\ hi \in Nat \ {0} /\ Q96 \in Nat \ {0} /\ l * Q96 \in Nat
  BY ProductIsNat
<1>2. k \in Nat /\ (MAX_SQRT_RATIO - p) * k <= p * MAX_SQRT_RATIO
  BY <1>1, FloorFacts, ProductIsNat
<1>3. k * d <= r * hi
  <2>1. k * (MAX_SQRT_RATIO - p) = (MAX_SQRT_RATIO - p) * k
    BY <1>1, <1>2
  <2> HIDE DEF k
  <2> QED
    BY <1>1, <1>2, <2>1, Reach0
<1>4. l * Q96 <= a * k
  <2>1. From0(a, p) = (a * k) \div Q96
    BY DEF From0, MulDiv
  <2> HIDE DEF k
  <2>2. a * k \in Nat
    BY <1>2, ProductIsNat
  <2>3. (a * k) \div Q96 \in Nat /\ Q96 * ((a * k) \div Q96) <= a * k
    BY <2>2, <1>1, FloorFacts
  <2>4. l * Q96 <= ((a * k) \div Q96) * Q96
    BY <2>1, <2>3, <1>1, ProductGrows
  <2>5. ((a * k) \div Q96) * Q96 = Q96 * ((a * k) \div Q96)
    BY <2>3, <1>1
  <2> QED
    BY <2>2, <2>3, <2>4, <2>5, <1>1
<1>5. n \in Nat /\ n <= hi * (a * r)
  <2> HIDE DEF k, d
  <2>1. k * d \in Nat /\ r * hi \in Nat /\ a * k \in Nat /\ a * r \in Nat
    BY <1>1, <1>2, ProductIsNat
  <2>2. n <= (a * k) * d
    BY <1>1, <1>4, <2>1, ProductGrows
  <2>3. (a * k) * d = a * (k * d)
    BY <1>1, <1>2
  <2>4. a * (k * d) <= a * (r * hi)
    BY <1>3, <2>1, ProductGrows
  <2>5. a * (r * hi) = hi * (a * r)
    BY <1>1
  <2>6. n \in Nat /\ (a * k) * d \in Nat /\ a * (r * hi) \in Nat
    BY <1>1, <2>1, ProductIsNat
  <2> HIDE DEF n
  <2> QED
    BY <2>2, <2>3, <2>4, <2>5, <2>6
<1>6. m \in Nat /\ m <= a * r
  <2> HIDE DEF n
  <2> QED
    BY <1>1, <1>5, ProductIsNat, CeilingType, CeilingFits
<1>7. (m + r - 1) \div r <= a
  <2> HIDE DEF m
  <2>1. m <= r * a
    BY <1>6
  <2> QED
    BY <1>6, <2>1, CeilingFits
<1>8. Charge0(l, r, hi) = (m * 1 + r - 1) \div r
  BY DEF Charge0, MulDivUp
<1> HIDE DEF m
<1>9. m * 1 = m
  BY <1>6
<1> QED
  BY <1>7, <1>8, <1>9

LEMMA Charge1IsCovered ==
  ASSUME NEW a \in Nat, NEW p \in Nat, NEW r \in Nat, NEW lo \in Nat, NEW l \in Nat,
         MIN_SQRT_RATIO < p, MIN_SQRT_RATIO <= lo, lo <= r, r <= p \/ r = lo,
         l <= From1(a, p)
  PROVE  Charge1(l, lo, r) <= a
<1> DEFINE d == r - lo
           e == p - MIN_SQRT_RATIO
           f == (a * Q96) \div e
<1> USE PriceAssumption
<1>1. d \in Nat /\ e \in Nat \ {0} /\ Q96 \in Nat \ {0} /\ d <= e /\ l * d \in Nat /\ a * Q96 \in Nat
  BY ProductIsNat
<1>2. l <= f
  BY DEF From1, MulDiv
<1>3. f \in Nat /\ e * f <= a * Q96
  BY <1>1, FloorFacts
<1>4. l * d <= Q96 * a
  <2> HIDE DEF d, e, f
  <2>1. l * d <= l * e /\ l * e <= f * e
    BY <1>1, <1>2, <1>3, ProductGrows
  <2>2. f * e = e * f /\ a * Q96 = Q96 * a
    BY <1>1, <1>3
  <2>3. l * e \in Nat /\ e * f \in Nat
    BY <1>1, <1>3, ProductIsNat
  <2> QED
    BY <1>1, <1>3, <2>1, <2>2, <2>3
<1>5. Charge1(l, lo, r) = (l * d + Q96 - 1) \div Q96
  BY DEF Charge1, MulDivUp
<1> HIDE DEF d
<1> QED
  BY <1>1, <1>4, <1>5, CeilingFits
-----------------------------------------------------------------------------
(***************************************************************************)
(* What the pool charges and pays.                                         *)
(***************************************************************************)
Amounts == Nat \X Nat

LEMMA ReachedIsWithin ==
  ASSUME sqrtP \in Nat
  PROVE  /\ Reached \in Nat \ {0} /\ SqrtLower <= Reached /\ Reached <= SqrtUpper
         /\ sqrtP <= Reached \/ Reached = SqrtUpper
         /\ Reached <= sqrtP \/ Reached = SqrtLower
BY PositionAssumption, PriceAssumption DEF Reached, AtMost, AtLeast

LEMMA ChargesAreAmounts ==
  ASSUME sqrtP \in Nat, vuxFirst \in BOOLEAN, NEW l \in Nat
  PROVE  ChargeFor(l) \in Amounts
<1> DEFINE r == Reached
           n == (l * Q96) * (SqrtUpper - r)
           m == (n + SqrtUpper - 1) \div SqrtUpper
<1> USE PositionAssumption, PriceAssumption
<1>1. r \in Nat \ {0} /\ SqrtUpper - r \in Nat /\ r - SqrtLower \in Nat
  BY ReachedIsWithin
<1> HIDE DEF r
<1>2. n \in Nat
  BY <1>1, ProductIsNat
<1> HIDE DEF n
<1>3. m \in Nat
  BY <1>2, CeilingType
<1>4. Charge0(l, r, SqrtUpper) = (m * 1 + r - 1) \div r
  BY DEF Charge0, MulDivUp, n
<1> HIDE DEF m
<1>5. m * 1 = m
  BY <1>3
<1>6. Charge0(l, r, SqrtUpper) \in Nat
  BY <1>1, <1>3, <1>4, <1>5, CeilingType
<1>7. Charge1(l, SqrtLower, r) \in Nat
  <2>1. l * (r - SqrtLower) \in Nat
    BY <1>1, ProductIsNat
  <2>2. Charge1(l, SqrtLower, r) = (l * (r - SqrtLower) + Q96 - 1) \div Q96
    BY DEF Charge1, MulDivUp
  <2> QED
    BY <2>1, <2>2, CeilingType
<1> QED
  BY <1>6, <1>7 DEF ChargeFor, PairVuxWeth, Amounts, r

LEMMA PayoutsAreAmounts ==
  ASSUME sqrtP \in Nat, vuxFirst \in BOOLEAN, NEW l \in Nat
  PROVE  PayoutFor(l) \in Amounts
<1> DEFINE r == Reached
           n == (l * Q96) * (SqrtUpper - r)
           m == n \div SqrtUpper
<1> USE PositionAssumption, PriceAssumption
<1>1. r \in Nat \ {0} /\ SqrtUpper - r \in Nat /\ r - SqrtLower \in Nat
  BY ReachedIsWithin
<1> HIDE DEF r
<1>2. n \in Nat
  BY <1>1, ProductIsNat
<1> HIDE DEF n
<1>3. m \in Nat
  BY <1>2, FloorFacts
<1>4. Payout0(l, r, SqrtUpper) = m \div r
  BY DEF Payout0, MulDiv, n
<1> HIDE DEF m
<1>5. Payout0(l, r, SqrtUpper) \in Nat
  BY <1>1, <1>3, <1>4, FloorFacts
<1>6. Payout1(l, SqrtLower, r) \in Nat
  <2>1. l * (r - SqrtLower) \in Nat
    BY <1>1, ProductIsNat
  <2>2. Payout1(l, SqrtLower, r) = (l * (r - SqrtLower)) \div Q96
    BY DEF Payout1, MulDiv
  <2> QED
    BY <2>1, <2>2, FloorFacts
<1> QED
  BY <1>5, <1>6 DEF PayoutFor, PairVuxWeth, Amounts, r

LEMMA AffordableIsNat ==
  ASSUME NEW a \in Nat, NEW b \in Nat, NEW p \in Nat,
         MIN_SQRT_RATIO < p, p < MAX_SQRT_RATIO
  PROVE  AffordableLiquidity(a, b, p) \in Nat
<1> DEFINE k == (p * MAX_SQRT_RATIO) \div (MAX_SQRT_RATIO - p)
<1> USE PriceAssumption
<1>1. k \in Nat
  <2>1. p * MAX_SQRT_RATIO \in Nat /\ MAX_SQRT_RATIO - p \in Nat \ {0}
    BY ProductIsNat
  <2> QED
    BY <2>1, FloorFacts
<1>2. From0(a, p) = (a * k) \div Q96
  BY DEF From0, MulDiv
<1> HIDE DEF k
<1>3. From0(a, p) \in Nat
  BY <1>1, <1>2, ProductIsNat, FloorFacts
<1>4. From1(a, p) \in Nat /\ From1(b, p) \in Nat
  <2>1. a * Q96 \in Nat /\ b * Q96 \in Nat /\ p - MIN_SQRT_RATIO \in Nat \ {0}
    BY ProductIsNat
  <2> QED
    BY <2>1, FloorFacts DEF From1, MulDiv
<1> QED
  BY <1>3, <1>4 DEF AffordableLiquidity, AtMost

\* What the committed amounts afford costs no more than they are: in either token
\* order, at any price, wherever the position's bounds lie.
LEMMA AffordableIsCovered ==
  ASSUME sqrtP \in Nat, vuxFirst \in BOOLEAN, NEW max \in Amounts,
         MIN_SQRT_RATIO < sqrtP, sqrtP < MAX_SQRT_RATIO
  PROVE  /\ Affordable(max) \in Nat
         /\ Within(ChargeFor(Affordable(max)), max)
<1> DEFINE a == PairVuxWeth(max[1], max[2])
           l == AffordableLiquidity(a[1], a[2], sqrtP)
<1> USE PositionAssumption, PriceAssumption
<1>1. a[1] \in Nat /\ a[2] \in Nat
  BY DEF PairVuxWeth, Amounts
<1>2. Affordable(max) = l
  BY DEF Affordable
<1> HIDE DEF a
<1>3. l \in Nat
  BY <1>1, AffordableIsNat
<1>4. l <= From0(a[1], sqrtP) /\ l <= From1(a[2], sqrtP)
  <2>1. From0(a[1], sqrtP) \in Int /\ From1(a[2], sqrtP) \in Int
    <3>1. Q96 \in Nat \ {0} /\ sqrtP - MIN_SQRT_RATIO \in Nat \ {0} /\ MAX_SQRT_RATIO - sqrtP \in Nat \ {0}
      OBVIOUS
    <3>2. a[2] * Q96 \in Nat /\ sqrtP * MAX_SQRT_RATIO \in Nat
      BY <1>1, ProductIsNat
    <3>3. (sqrtP * MAX_SQRT_RATIO) \div (MAX_SQRT_RATIO - sqrtP) \in Nat
      BY <3>1, <3>2, FloorFacts
    <3>4. a[1] * ((sqrtP * MAX_SQRT_RATIO) \div (MAX_SQRT_RATIO - sqrtP)) \in Nat
      BY <1>1, <3>3, ProductIsNat
    <3> QED
      BY <3>1, <3>2, <3>4, FloorFacts DEF From0, From1, MulDiv
  <2> QED
    BY <2>1 DEF AffordableLiquidity, AtMost
<1> HIDE DEF l
<1>5. Charge0(l, Reached, SqrtUpper) <= a[1]
  BY <1>1, <1>3, <1>4, ReachedIsWithin, Charge0IsCovered
<1>6. Charge1(l, SqrtLower, Reached) <= a[2]
  BY <1>1, <1>3, <1>4, ReachedIsWithin, Charge1IsCovered
<1> QED
  BY <1>2, <1>3, <1>5, <1>6 DEF ChargeFor, Within, PairVuxWeth, a, Amounts
-----------------------------------------------------------------------------
(***************************************************************************)
(* What a withdrawal takes and what the rest would cost are together no    *)
(* more than the whole cost: floors and ceilings of the same parts.        *)
(***************************************************************************)
LEMMA PartsFit ==
  ASSUME NEW a \in Nat, NEW b \in Nat, NEW c \in Nat \ {0}
  PROVE  (a + c - 1) \div c + b \div c <= (a + b + c - 1) \div c
<1> DEFINE k == (a + b + c - 1) \div c
           f == b \div c
<1>1. k \in Nat /\ a + b <= c * k
  <2>1. a + b + c - 1 < c * k + c /\ k \in Nat
    OBVIOUS
  <2> QED BY <2>1
<1>2. f \in Nat /\ c * f <= b
  BY FloorFacts
<1> HIDE DEF k, f
<1>3. f <= k
  <2>1. f * c <= k * c
    BY <1>1, <1>2
  <2> QED BY <1>1, <1>2, <2>1, Cancel
<1>4. a <= c * (k - f) /\ k - f \in Nat
  <2>1. c * (k - f) = c * k - c * f
    BY <1>1, <1>2
  <2>2. c * k \in Int /\ c * f \in Int
    BY <1>1, <1>2
  <2> QED BY <1>1, <1>2, <1>3, <2>1, <2>2
<1>5. (a + c - 1) \div c <= k - f
  BY <1>4, CeilingFits
<1>6. (a + c - 1) \div c \in Nat
  BY CeilingType
<1> QED BY <1>1, <1>2, <1>5, <1>6 DEF k, f

LEMMA PartsFit1 ==
  ASSUME NEW l \in Nat, NEW m \in Nat, NEW lo \in Nat, NEW hi \in Nat, lo <= hi
  PROVE  Charge1(m, lo, hi) + Payout1(l, lo, hi) <= Charge1(m + l, lo, hi)
<1> DEFINE w == hi - lo
           a == m * w
           b == l * w
<1>1. w \in Nat /\ Q96 \in Nat \ {0}
  BY PriceAssumption
<1> HIDE DEF w
<1>2. a \in Nat /\ b \in Nat /\ (m + l) * w = a + b
  BY <1>1
<1>3. /\ Charge1(m, lo, hi) = (a + Q96 - 1) \div Q96
      /\ Payout1(l, lo, hi) = b \div Q96
      /\ Charge1(m + l, lo, hi) = (a + b + Q96 - 1) \div Q96
  BY <1>2 DEF Charge1, Payout1, MulDivUp, MulDiv, w
<1> HIDE DEF a, b
<1> QED BY <1>1, <1>2, <1>3, PartsFit

LEMMA PartsFit0 ==
  ASSUME NEW l \in Nat, NEW m \in Nat, NEW lo \in Nat \ {0}, NEW hi \in Nat, lo <= hi
  PROVE  Charge0(m, lo, hi) + Payout0(l, lo, hi) <= Charge0(m + l, lo, hi)
<1> DEFINE w == hi - lo
           a == (m * Q96) * w
           b == (l * Q96) * w
           ca == (a + hi - 1) \div hi
           fb == b \div hi
           cab == (a + b + hi - 1) \div hi
<1>1. w \in Nat /\ Q96 \in Nat \ {0} /\ hi \in Nat \ {0}
  BY PriceAssumption
<1> HIDE DEF w
<1>2. a \in Nat /\ b \in Nat /\ ((m + l) * Q96) * w = a + b
  <2>1. m * Q96 \in Nat /\ l * Q96 \in Nat /\ (m + l) * Q96 = m * Q96 + l * Q96
    BY <1>1
  <2>2. (m * Q96) * w \in Nat /\ (l * Q96) * w \in Nat
    BY <1>1, <2>1, ProductIsNat
  <2>3. (m * Q96 + l * Q96) * w = (m * Q96) * w + (l * Q96) * w
    BY <1>1, <2>1
  <2> QED BY <2>1, <2>2, <2>3
<1>3. /\ Charge0(m, lo, hi) = (ca * 1 + lo - 1) \div lo
      /\ Payout0(l, lo, hi) = fb \div lo
      /\ Charge0(m + l, lo, hi) = (cab * 1 + lo - 1) \div lo
  BY <1>2 DEF Charge0, Payout0, MulDivUp, MulDiv, w
<1> HIDE DEF a, b
<1>4. ca + fb <= cab
  BY <1>1, <1>2, PartsFit
<1>5. ca \in Nat /\ fb \in Nat /\ cab \in Nat
  <2>1. a + b \in Nat
    BY <1>2
  <2> QED BY <1>1, <1>2, <2>1, CeilingType, FloorFacts
<1> HIDE DEF ca, fb, cab
<1>6. (ca + lo - 1) \div lo + fb \div lo <= (ca + fb + lo - 1) \div lo
  BY <1>5, PartsFit
<1>7. (ca + fb + lo - 1) \div lo <= (cab + lo - 1) \div lo
  <2> DEFINE k == (cab + lo - 1) \div lo
  <2>1. k \in Nat /\ cab <= lo * k
    <3>1. cab + lo - 1 < lo * k + lo /\ k \in Nat
      BY <1>5
    <3> QED BY <1>5, <3>1
  <2> HIDE DEF k
  <2>2. ca + fb \in Nat /\ ca + fb <= lo * k
    BY <1>4, <1>5, <2>1
  <2>3. (ca + fb + lo - 1) \div lo <= k
    BY <2>1, <2>2, CeilingFits
  <2> QED BY <2>3 DEF k
<1>8. /\ (ca + lo - 1) \div lo \in Nat /\ fb \div lo \in Nat
      /\ (ca + fb + lo - 1) \div lo \in Nat /\ (cab + lo - 1) \div lo \in Nat
  <2>1. ca + fb \in Nat
    BY <1>5
  <2> QED BY <1>5, <2>1, CeilingType, FloorFacts
<1>9. ca * 1 + lo - 1 = ca + lo - 1 /\ cab * 1 + lo - 1 = cab + lo - 1
  BY <1>5
<1> QED BY <1>3, <1>6, <1>7, <1>8, <1>9

\* What is withdrawn comes out of what it cost, and the rest stays covered.
LEMMA WithdrawalIsCovered ==
  ASSUME sqrtP \in Nat, vuxFirst \in BOOLEAN, liquidity \in Nat,
         NEW l \in Nat, l <= liquidity, NEW p \in Amounts,
         Within(ChargeFor(liquidity), p)
  PROVE  /\ Within(PayoutFor(l), p)
         /\ Within(ChargeFor(liquidity - l), LessAtZero(p, PayoutFor(l)))
         /\ LessAtZero(p, PayoutFor(l)) = Minus(p, PayoutFor(l))
<1> DEFINE m == liquidity - l
<1>1. m \in Nat /\ m + l = liquidity
  OBVIOUS
<1>2. /\ Reached \in Nat \ {0} /\ SqrtLower <= Reached /\ Reached <= SqrtUpper
      /\ SqrtLower \in Nat /\ SqrtUpper \in Nat
  BY ReachedIsWithin, PositionAssumption, PriceAssumption
<1>3. /\ Charge0(m, Reached, SqrtUpper) + Payout0(l, Reached, SqrtUpper)
           <= Charge0(liquidity, Reached, SqrtUpper)
      /\ Charge1(m, SqrtLower, Reached) + Payout1(l, SqrtLower, Reached)
           <= Charge1(liquidity, SqrtLower, Reached)
  <2> HIDE DEF m
  <2>1. /\ Charge0(m, Reached, SqrtUpper) + Payout0(l, Reached, SqrtUpper)
             <= Charge0(m + l, Reached, SqrtUpper)
        /\ Charge1(m, SqrtLower, Reached) + Payout1(l, SqrtLower, Reached)
             <= Charge1(m + l, SqrtLower, Reached)
    BY <1>1, <1>2, PartsFit0, PartsFit1
  <2> QED BY <1>1, <2>1
<1>4. ChargeFor(m) \in Amounts /\ PayoutFor(l) \in Amounts /\ ChargeFor(liquidity) \in Amounts
  <2> HIDE DEF m
  <2> QED BY <1>1, ChargesAreAmounts, PayoutsAreAmounts
<1>5. Within(Plus(ChargeFor(m), PayoutFor(l)), ChargeFor(liquidity))
  <2> HIDE DEF m
  <2> QED BY <1>3 DEF ChargeFor, PayoutFor, PairVuxWeth, Plus, Within
<1> HIDE DEF m
<1>6. Within(Plus(ChargeFor(m), PayoutFor(l)), p)
  BY <1>4, <1>5 DEF Within, Amounts, Plus
<1>7. Within(PayoutFor(l), p) /\ Within(ChargeFor(m), Minus(p, PayoutFor(l)))
  BY <1>4, <1>6 DEF Within, Amounts, Plus, Minus
<1>8. LessAtZero(p, PayoutFor(l)) = Minus(p, PayoutFor(l))
  BY <1>4, <1>7 DEF LessAtZero, Minus, Within, Amounts, AtLeast
<1> QED BY <1>7, <1>8 DEF m

-----------------------------------------------------------------------------
(***************************************************************************)
(* The encoding of the recorded price.                                     *)
(***************************************************************************)
IsRoot(s, x) == s \in Nat /\ s * s <= x /\ x < (s + 1) * (s + 1)

LEMMA SquaresGrow ==
  ASSUME NEW a \in Nat, NEW b \in Nat, a <= b
  PROVE  a * a <= b * b
<1>1. a * a <= a * b /\ a * b <= b * b
  OBVIOUS
<1> QED BY <1>1

LEMMA RootExists ==
  ASSUME NEW x \in Nat
  PROVE  \E s : IsRoot(s, x)
<1> DEFINE T == {k \in 0..(x + 1) : x < k * k}
<1>1. x + 1 \in T
  OBVIOUS
<1>2. PICK m \in T : \A j \in T : m <= j
  <2> DEFINE bound == x + 1
  <2>1. T \in SUBSET (0..bound) /\ T # {} /\ bound \in Nat
    BY <1>1
  <2> HIDE DEF T, bound
  <2> QED BY <2>1, LeastNumber
<1>3. m \in 0..(x + 1) /\ x < m * m
  OBVIOUS
<1>4. m # 0
  BY <1>3
<1>5. m - 1 \in 0..(x + 1) /\ m - 1 \notin T
  BY <1>2, <1>3, <1>4
<1>6. (m - 1) * (m - 1) <= x /\ (m - 1) + 1 = m /\ m - 1 \in Nat
  BY <1>5
<1> HIDE DEF T
<1> QED BY <1>3, <1>6 DEF IsRoot

LEMMA SeedType ==
  ASSUME NEW x \in Nat
  PROVE  SeedOf(x) \in Nat \ {0}
<1> DEFINE S == Nat \ {0}
           next == [y \in 1..x |-> y \div 4]
           step == [y \in 1..x |-> [v \in S |-> 2 * v]]
           Body(P) == [y \in 0..x |-> IF y = 0 THEN 1 ELSE 2 * P[y \div 4]]
           Power == CHOOSE P : P = Body(P)
<1>1. SeedOf(x) = Power[x]
  BY DEF SeedOf
<1>2. \A y \in 1..x : y \div 4 \in Nat /\ y \div 4 < y
  OBVIOUS
<1>3. PICK f \in [0..x -> S] : IsRecursion(f, x, 1, next, step)
  <2>1. next \in [1..x -> Nat] /\ (\A y \in 1..x : next[y] < y)
    BY <1>2
  <2>2. step \in [1..x -> [S -> S]] /\ 1 \in S
    <3>1. \A v \in S : 2 * v \in S
      OBVIOUS
    <3>2. [v \in S |-> 2 * v] \in [S -> S]
      BY <3>1
    <3> QED BY <3>2
  <2> HIDE DEF S, next, step
  <2> QED BY <2>1, <2>2, RecursionExists
<1>4. \A P : P \in [0..x -> S] /\ IsRecursion(P, x, 1, next, step) => P = Body(P)
  <2> SUFFICES ASSUME NEW P \in [0..x -> S], IsRecursion(P, x, 1, next, step)
               PROVE  P = Body(P)
    OBVIOUS
  <2>1. \A y \in 1..x : y \div 4 \in 0..x
    BY <1>2
  <2>2. ASSUME NEW y \in 0..x PROVE P[y] = IF y = 0 THEN 1 ELSE 2 * P[y \div 4]
    <3>1. CASE y = 0
      BY <3>1 DEF IsRecursion
    <3>2. CASE y # 0
      <4>1. y \in 1..x /\ P[y \div 4] \in S
        <5> HIDE DEF S, next, step
        <5>1. y \in 1..x
          BY <3>2
        <5>2. y \div 4 \in 0..x
          BY <2>1, <5>1
        <5> QED BY <5>1, <5>2
      <4>2. next[y] = y \div 4 /\ step[y][P[y \div 4]] = 2 * P[y \div 4]
        BY <4>1
      <4>3. P[y] = step[y][P[next[y]]]
        <5> HIDE DEF next, step
        <5> QED BY <4>1 DEF IsRecursion
      <4> HIDE DEF next, step
      <4> QED BY <3>2, <4>2, <4>3
    <3> QED BY <3>1, <3>2
  <2> QED BY <2>2
<1>5. Power = Body(Power)
  BY <1>3, <1>4
<1>6. \A y \in 0..x : Power[y] = IF y = 0 THEN 1 ELSE 2 * Power[y \div 4]
  <2> HIDE DEF Power
  <2> QED BY <1>5
<1> HIDE DEF Power
<1> DEFINE Bad == {y \in 0..x : Power[y] \notin S}
<1>7. ASSUME Bad # {} PROVE FALSE
  <2>1. PICK k \in Bad : \A j \in Bad : k <= j
    <3>1. Bad \in SUBSET (0..x)
      OBVIOUS
    <3> HIDE DEF Bad
    <3> QED BY <1>7, <3>1, LeastNumber
  <2>2. k \in 0..x /\ Power[k] \notin S
    OBVIOUS
  <2>3. k # 0
    BY <2>2, <1>6
  <2>4. k \div 4 \in 0..x /\ k \div 4 < k
    BY <2>2, <2>3, <1>2
  <2>5. Power[k \div 4] \in S
    BY <2>1, <2>4
  <2>6. Power[k] = 2 * Power[k \div 4]
    BY <1>6, <2>2, <2>3
  <2> QED BY <2>2, <2>5, <2>6
<1> QED BY <1>1, <1>7

LEMMA NewtonType ==
  ASSUME NEW x \in Nat, NEW seed \in Nat \ {0}, x >= 2
  PROVE  NewtonFrom(x, seed) \in Nat
<1> DEFINE N(r) == (r + x \div r) \div 2
           Body(R) == [r \in 1..seed |-> IF N(r) >= r THEN r ELSE R[N(r)]]
           Root == CHOOSE R : R = Body(R)
<1>1. NewtonFrom(x, seed) = Root[seed]
  BY DEF NewtonFrom
<1>2. \A r \in 1..seed : N(r) \in Nat \ {0}
  <2> SUFFICES ASSUME NEW r \in 1..seed PROVE N(r) \in Nat \ {0}
    OBVIOUS
  <2>1. x \div r \in Nat /\ (r = 1 => x \div r >= 2)
    OBVIOUS
  <2> QED BY <2>1
<1> HIDE DEF N
<1> DEFINE next == [r \in 1..seed |-> IF N(r) >= r THEN 0 ELSE N(r)]
           step == [r \in 1..seed |-> [v \in Nat |-> IF N(r) >= r THEN r ELSE v]]
<1>3. PICK f \in [0..seed -> Nat] : IsRecursion(f, seed, 0, next, step)
  <2>1. next \in [1..seed -> Nat] /\ (\A r \in 1..seed : next[r] < r)
    BY <1>2
  <2>2. step \in [1..seed -> [Nat -> Nat]] /\ 0 \in Nat
    <3>1. \A r \in 1..seed : [v \in Nat |-> IF N(r) >= r THEN r ELSE v] \in [Nat -> Nat]
      OBVIOUS
    <3> QED BY <3>1
  <2> HIDE DEF next, step
  <2> QED BY <2>1, <2>2, RecursionExists
<1> DEFINE g == [r \in 1..seed |-> f[r]]
<1>4. g = Body(g)
  <2>1. ASSUME NEW r \in 1..seed PROVE g[r] = IF N(r) >= r THEN r ELSE g[N(r)]
    <3>1. f[r] = step[r][f[next[r]]]
      <4> HIDE DEF next, step
      <4> QED BY <1>3 DEF IsRecursion
    <3>2. CASE N(r) >= r
      <4>1. next[r] = 0 /\ f[0] \in Nat
        BY <3>2
      <4>2. step[r][f[0]] = r
        BY <3>2, <4>1
      <4> HIDE DEF next, step
      <4> QED BY <3>1, <3>2, <4>1, <4>2
    <3>3. CASE ~(N(r) >= r)
      <4>1. N(r) \in 1..seed /\ next[r] = N(r)
        BY <3>3, <1>2
      <4>2. f[N(r)] \in Nat
        BY <4>1
      <4>3. step[r][f[N(r)]] = f[N(r)]
        BY <3>3, <4>2
      <4> HIDE DEF next, step
      <4> QED BY <3>1, <3>3, <4>1, <4>3
    <3> QED BY <3>2, <3>3
  <2>2. g = [r \in 1..seed |-> g[r]]
    OBVIOUS
  <2> HIDE DEF g
  <2> QED BY <2>1, <2>2
<1>5. Root = Body(Root)
  <2> HIDE DEF g
  <2> QED BY <1>4
<1>6. \A r \in 1..seed : Root[r] = IF N(r) >= r THEN r ELSE Root[N(r)]
  <2> HIDE DEF Root
  <2> QED BY <1>5
<1> HIDE DEF Root
<1> DEFINE Bad == {r \in 1..seed : Root[r] \notin Nat}
<1>7. ASSUME Bad # {} PROVE FALSE
  <2>1. PICK k \in Bad : \A j \in Bad : k <= j
    <3>1. Bad \in SUBSET (0..seed)
      OBVIOUS
    <3> HIDE DEF Bad
    <3> QED BY <1>7, <3>1, LeastNumber
  <2>2. k \in 1..seed /\ Root[k] \notin Nat
    OBVIOUS
  <2>3. ~(N(k) >= k) /\ Root[k] = Root[N(k)]
    BY <2>2, <1>6
  <2>4. N(k) \in 1..seed /\ N(k) < k
    BY <2>2, <2>3, <1>2
  <2> QED BY <2>1, <2>2, <2>3, <2>4
<1> QED BY <1>1, <1>7

\* The correction downward stops at the root, unless it starts below.
LEMMA LoweredIs ==
  ASSUME NEW x \in Nat, NEW start \in Nat, NEW s, IsRoot(s, x)
  PROVE  Lowered(x, start) = IF start >= s THEN s ELSE start
<1> DEFINE Body(D) == [r \in 0..start |-> IF r * r > x THEN D[r - 1] ELSE r]
           Down == CHOOSE D : D = Body(D)
           g == [r \in 0..start |-> IF r >= s THEN s ELSE r]
<1>1. Lowered(x, start) = Down[start]
  BY DEF Lowered
<1>2. s \in Nat /\ s * s <= x /\ x < (s + 1) * (s + 1)
  BY DEF IsRoot
<1>3. \A r \in 0..start : r * r > x <=> r > s
  <2> SUFFICES ASSUME NEW r \in 0..start PROVE r * r > x <=> r > s
    OBVIOUS
  <2>1. CASE r > s
    <3>1. (s + 1) * (s + 1) <= r * r
      BY <1>2, <2>1, SquaresGrow
    <3> QED BY <1>2, <2>1, <3>1
  <2>2. CASE r <= s
    <3>1. r * r <= s * s
      BY <1>2, <2>2, SquaresGrow
    <3> QED BY <1>2, <2>2, <3>1
  <2> QED BY <1>2, <2>1, <2>2
<1>4. g = Body(g)
  <2>1. ASSUME NEW r \in 0..start PROVE g[r] = IF r * r > x THEN g[r - 1] ELSE r
    <3>1. r > s => r - 1 \in 0..start /\ r - 1 >= s
      BY <1>2
    <3> QED BY <3>1, <1>2, <1>3
  <2>2. g = [r \in 0..start |-> g[r]]
    OBVIOUS
  <2> HIDE DEF g
  <2> QED BY <2>1, <2>2
<1>5. Down = Body(Down)
  <2> HIDE DEF g
  <2> QED BY <1>4
<1>6. \A r \in 0..start : Down[r] = IF r > s THEN Down[r - 1] ELSE r
  <2> HIDE DEF Down
  <2> QED BY <1>3, <1>5
<1> HIDE DEF Down, g
<1> DEFINE Bad == {r \in 0..start : r >= s /\ Down[r] # s}
<1>7. ASSUME Bad # {} PROVE FALSE
  <2>1. PICK k \in Bad : \A j \in Bad : k <= j
    <3>1. Bad \in SUBSET (0..start)
      OBVIOUS
    <3> HIDE DEF Bad
    <3> QED BY <1>7, <3>1, LeastNumber
  <2>2. k \in 0..start /\ k >= s /\ Down[k] # s
    OBVIOUS
  <2>3. k > s /\ Down[k] = Down[k - 1]
    BY <1>2, <1>6, <2>2
  <2>4. k - 1 \in 0..start /\ k - 1 >= s
    BY <1>2, <2>2, <2>3
  <2> QED BY <2>1, <2>2, <2>3, <2>4
<1>8. start \in 0..start
  OBVIOUS
<1> QED BY <1>1, <1>2, <1>6, <1>7, <1>8

\* The correction upward stops at the root.
LEMMA RaisedIs ==
  ASSUME NEW x \in Nat, NEW s, IsRoot(s, x), NEW start \in 0..s
  PROVE  Raised(x, start) = s
<1> DEFINE Body(D) == [r \in 0..x |-> IF (r + 1) * (r + 1) <= x THEN D[r + 1] ELSE r]
           Up == CHOOSE D : D = Body(D)
           g == [r \in 0..x |-> IF r <= s THEN s ELSE r]
<1>1. Raised(x, start) = Up[start]
  BY DEF Raised
<1>2. s \in Nat /\ s * s <= x /\ x < (s + 1) * (s + 1)
  BY DEF IsRoot
<1>3. \A r \in Nat : (r + 1) * (r + 1) <= x <=> r < s
  <2> SUFFICES ASSUME NEW r \in Nat PROVE (r + 1) * (r + 1) <= x <=> r < s
    OBVIOUS
  <2>1. CASE r >= s
    <3>1. (s + 1) * (s + 1) <= (r + 1) * (r + 1)
      BY <1>2, <2>1, SquaresGrow
    <3>2. (r + 1) * (r + 1) \in Nat /\ (s + 1) * (s + 1) \in Nat
      BY <1>2
    <3> QED BY <1>2, <2>1, <3>1, <3>2
  <2>2. CASE r < s
    <3>1. (r + 1) * (r + 1) <= s * s
      BY <1>2, <2>2, SquaresGrow
    <3>2. (r + 1) * (r + 1) \in Nat /\ s * s \in Nat
      BY <1>2
    <3> QED BY <1>2, <2>2, <3>1, <3>2
  <2> QED BY <1>2, <2>1, <2>2
<1>4. s <= x
  <2>1. s <= s * s
    BY <1>2
  <2> QED BY <1>2, <2>1
<1>5. g = Body(g)
  <2>1. ASSUME NEW r \in 0..x PROVE g[r] = IF (r + 1) * (r + 1) <= x THEN g[r + 1] ELSE r
    <3>1. r < s => r + 1 \in 0..x /\ r + 1 <= s
      BY <1>2, <1>4
    <3> QED BY <3>1, <1>2, <1>3
  <2>2. g = [r \in 0..x |-> g[r]]
    OBVIOUS
  <2> HIDE DEF g
  <2> QED BY <2>1, <2>2
<1>6. Up = Body(Up)
  <2> HIDE DEF g
  <2> QED BY <1>5
<1>7. \A r \in 0..x : Up[r] = IF r < s THEN Up[r + 1] ELSE r
  <2> HIDE DEF Up
  <2> QED BY <1>3, <1>6
<1> HIDE DEF Up, g
<1> DEFINE Bad == {j \in 0..s : Up[s - j] # s}
<1>8. ASSUME Bad # {} PROVE FALSE
  <2>1. PICK k \in Bad : \A j \in Bad : k <= j
    <3>1. Bad \in SUBSET (0..s)
      OBVIOUS
    <3> HIDE DEF Bad
    <3> QED BY <1>2, <1>8, <3>1, LeastNumber
  <2>2. k \in 0..s /\ Up[s - k] # s
    OBVIOUS
  <2>3. s - k \in 0..x /\ s \in 0..x
    BY <1>2, <1>4, <2>2
  <2>4. k # 0
    BY <1>2, <1>7, <2>2, <2>3
  <2>5. k - 1 \in 0..s /\ s - (k - 1) = (s - k) + 1
    BY <1>2, <2>2, <2>4
  <2>6. Up[s - k] = Up[s - (k - 1)]
    BY <1>2, <1>7, <2>2, <2>3, <2>4, <2>5
  <2> QED BY <2>1, <2>2, <2>5, <2>6
<1>9. s - start \in 0..s /\ s - (s - start) = start
  BY <1>2
<1>10. Up[s - (s - start)] = s
  BY <1>8, <1>9
<1> QED BY <1>1, <1>9, <1>10

\* isqrt is the floor of the square root, whatever its iteration leaves to correct.
LEMMA IsqrtIsFloor ==
  ASSUME NEW x \in Nat
  PROVE  IsRoot(Isqrt(x), x)
<1>1. CASE x < 2
  BY <1>1 DEF Isqrt, IsRoot
<1>2. CASE x >= 2
  <2>1. PICK s : IsRoot(s, x)
    BY RootExists
  <2>2. NewtonFrom(x, SeedOf(x)) \in Nat
    BY <1>2, SeedType, NewtonType
  <2>3. Lowered(x, NewtonFrom(x, SeedOf(x))) \in 0..s
    <3>1. s \in Nat
      BY <2>1 DEF IsRoot
    <3> QED BY <2>1, <2>2, <3>1, LoweredIs
  <2>4. Isqrt(x) = s
    BY <1>2, <2>1, <2>3, RaisedIs DEF Isqrt
  <2> QED BY <2>1, <2>4
<1> QED BY <1>1, <1>2

\* encodeSqrtP0X96 never overstates the price and misses it by less than one unit of
\* the root, for every fraction: the corrections after Newton's iteration are enough,
\* whatever the iteration returned.
THEOREM EncodingIsWithinOneUlp ==
  ASSUME NEW n \in Nat, NEW d \in Nat \ {0}
  PROVE  WithinOneUlp(n, d, EncodeSqrtP0(n, d))
<1> DEFINE y == n * Q96 * Q96
           x == y \div d
           s == Isqrt(x)
<1>1. y \in Nat
  BY PriceAssumption
<1> HIDE DEF y
<1>2. x \in Nat /\ d * x <= y /\ y < d * (x + 1)
  BY <1>1
<1> HIDE DEF x
<1>3. s \in Nat /\ s * s <= x /\ x < (s + 1) * (s + 1)
  BY <1>2, IsqrtIsFloor DEF IsRoot
<1>4. EncodeSqrtP0(n, d) = s
  BY DEF EncodeSqrtP0, x, y, s
<1> HIDE DEF s
<1> DEFINE u == s * s
           v == (s + 1) * (s + 1)
<1>5. u \in Nat /\ v \in Nat /\ u <= x /\ x + 1 <= v
  BY <1>2, <1>3
<1> HIDE DEF u, v
<1>6. u * d <= d * x /\ d * (x + 1) <= v * d
  BY <1>2, <1>5
<1>7. u * d <= y /\ y < v * d
  <2>1. u * d \in Int /\ v * d \in Int /\ d * x \in Int /\ d * (x + 1) \in Int
    BY <1>2, <1>5
  <2> QED BY <1>1, <1>2, <1>6, <2>1
<1> QED BY <1>4, <1>7 DEF WithinOneUlp, u, v, y

-----------------------------------------------------------------------------
(***************************************************************************)
(* The inductive invariant.                                                *)
(***************************************************************************)
Operations ==
  [kind : {"none", "mint", "swap"}, liquidity : Nat, max : Amounts, paid : Amounts,
   before : Amounts, minOut : Nat]

PositionTypes ==
  /\ vuxFirst \in BOOLEAN /\ sqrtP \in Nat /\ liquidity \in Nat
  /\ pending \in Amounts /\ owed \in Amounts /\ yielded \in Amounts /\ earned \in Amounts
  /\ held \in Amounts /\ polPrincipal \in Amounts
  /\ op \in Operations /\ (op.kind = "none" => op = NoOp)

LaunchTypes ==
  /\ params \in ParamSets
  /\ deployer \in [weth : Int, vux : Nat, preSelf : Int, sanitized : Int]
  /\ reserve \in [weth : Nat, vux : Nat]
  /\ phase # "aborted" => deployer.weth >= 0

\* A mint asks for what its commitment affords at the price it found.
MintsAsEstimated ==
  op.kind = "mint" => /\ MIN_SQRT_RATIO < sqrtP /\ sqrtP < MAX_SQRT_RATIO
                      /\ op.liquidity = Affordable(op.max)

OperatesWhenOpen == op # NoOp => phase \in {"mint", "launched", "aborted"}

PositionInv ==
  PositionTypes /\ FeesAreYield /\ PaymentsAreCommitted /\ MintsAsEstimated

IInv == PositionInv /\ LaunchTypes /\ OperatesWhenOpen

-----------------------------------------------------------------------------
(***************************************************************************)
(* The operations of the position keep its part of the invariant.          *)
(***************************************************************************)
LEMMA NoOpIsOperation == NoOp \in Operations /\ NoOp.kind = "none" /\ Nothing \in Amounts
BY DEF NoOp, Operations, Nothing, Amounts

LEMMA SumsAreAmounts ==
  ASSUME NEW a \in Amounts, NEW b \in Amounts
  PROVE  /\ Plus(a, b) \in Amounts /\ LessAtZero(a, b) \in Amounts
         /\ Within(a, b) => Minus(b, a) \in Amounts
BY DEF Amounts, Plus, LessAtZero, Minus, Within, AtLeast

\* Fees move on between trades, the position, and the yield; none is lost.
LEMMA SumsOfThree ==
  ASSUME NEW a \in Amounts, NEW b \in Amounts, NEW c \in Amounts, NEW d \in Amounts
  PROVE  /\ Plus(a, Plus(b, Plus(c, d))) = Plus(Plus(a, Plus(b, c)), d)
         /\ Plus(a, Plus(Plus(b, c), Nothing)) = Plus(a, Plus(b, c))
         /\ Plus(Plus(a, Plus(b, c)), Plus(Nothing, Nothing)) = Plus(a, Plus(b, c))
BY DEF Amounts, Plus, Nothing

LEMMA PositionRests ==
  ASSUME PositionInv, UNCHANGED position
  PROVE  PositionInv'
BY DEF PositionInv, PositionTypes, FeesAreYield, PaymentsAreCommitted, MintsAsEstimated,
       Credited, Affordable, PairVuxWeth, position, pool, treasury

\* The inventory may grow while no operation is under way.
LEMMA InventoryGrows ==
  ASSUME PositionInv, op = NoOp, held' \in Amounts,
         UNCHANGED <<pool, polPrincipal, ctx, op, yielded, earned>>
  PROVE  PositionInv'
BY DEF PositionInv, PositionTypes, FeesAreYield, PaymentsAreCommitted, MintsAsEstimated,
       Credited, Affordable, PairVuxWeth, pool, NoOp

\* Without an operation, only types and fees are at stake.
LEMMA QuietStep ==
  ASSUME PositionTypes', FeesAreYield', op' = NoOp, ctx' = NoCtx
  PROVE  PositionInv'
BY DEF PositionInv, PaymentsAreCommitted, MintsAsEstimated, NoOp

LEMMA TradeKeeps ==
  ASSUME PositionInv, NEW price \in Nat, NEW fees \in Amounts, Trade(price, fees)
  PROVE  PositionInv'
<1>1. op' = NoOp /\ ctx' = NoCtx
  BY DEF Trade, treasury, PositionInv, PaymentsAreCommitted
<1>2. PositionTypes'
  BY SumsAreAmounts DEF Trade, treasury, PositionInv, PositionTypes
<1>3. FeesAreYield'
  <2>1. /\ yielded' = yielded /\ owed' = owed
        /\ pending' = Plus(pending, fees) /\ earned' = Plus(earned, fees)
    BY DEF Trade
  <2>2. earned = Plus(yielded, Plus(owed, pending))
    BY DEF PositionInv, FeesAreYield, Credited
  <2> QED
    BY <2>1, <2>2, SumsOfThree DEF PositionInv, PositionTypes, FeesAreYield, Credited
<1> QED
  BY <1>1, <1>2, <1>3, QuietStep

LEMMA GiftKeeps ==
  ASSUME PositionInv, NEW l \in Nat, GiveLiquidity(l)
  PROVE  PositionInv'
<1>1. op' = NoOp /\ ctx' = NoCtx
  BY DEF GiveLiquidity, treasury, PositionInv, PaymentsAreCommitted
<1>2. PositionTypes'
  BY SumsAreAmounts, NoOpIsOperation DEF GiveLiquidity, treasury, PositionInv, PositionTypes
<1>3. FeesAreYield'
  BY SumsOfThree
  DEF GiveLiquidity, PositionInv, PositionTypes, FeesAreYield, Credited
<1> QED
  BY <1>1, <1>2, <1>3, QuietStep

LEMMA HarvestKeeps ==
  ASSUME PositionInv, HarvestPol
  PROVE  PositionInv'
<1>1. op' = NoOp /\ ctx' = NoCtx
  BY DEF HarvestPol, treasury, PositionInv, PaymentsAreCommitted
<1>2. PositionTypes'
  BY SumsAreAmounts, NoOpIsOperation DEF HarvestPol, treasury, PositionInv, PositionTypes, Credited
<1>3. FeesAreYield'
  BY SumsOfThree
  DEF HarvestPol, PositionInv, PositionTypes, FeesAreYield, Credited
<1> QED
  BY <1>1, <1>2, <1>3, QuietStep

LEMMA DecreaseKeeps ==
  ASSUME PositionInv, NEW l \in Nat, DecreasePol(l)
  PROVE  PositionInv'
<1>1. op' = NoOp /\ ctx' = NoCtx
  BY DEF DecreasePol, PositionInv, PaymentsAreCommitted
<1>2. PayoutFor(l) \in Amounts
  BY PayoutsAreAmounts DEF PositionInv, PositionTypes
<1>3. PositionTypes'
  BY <1>2, SumsAreAmounts, NoOpIsOperation DEF DecreasePol, PositionInv, PositionTypes, Credited
<1>4. FeesAreYield'
  BY SumsOfThree
  DEF DecreasePol, PositionInv, PositionTypes, FeesAreYield, Credited
<1> QED
  BY <1>1, <1>3, <1>4, QuietStep
LEMMA AdditionKeeps ==
  ASSUME PositionInv, NEW max \in Amounts, AddLiquidity(max)
  PROVE  PositionInv'
<1>1. /\ UNCHANGED <<pool, held, polPrincipal, yielded, earned>>
      /\ op' = [kind |-> "mint", liquidity |-> Affordable(max), max |-> max, paid |-> Nothing,
                before |-> held, minOut |-> 0]
      /\ ctx' = [type |-> "mint", max |-> max]
      /\ MIN_SQRT_RATIO < sqrtP /\ sqrtP < MAX_SQRT_RATIO
  BY DEF AddLiquidity, CanAdd, Begin
<1>2. Affordable(max) \in Nat
  BY <1>1, AffordableIsCovered DEF PositionInv, PositionTypes
<1>3. PositionTypes'
  BY <1>1, <1>2, NoOpIsOperation DEF PositionInv, PositionTypes, Operations, pool
<1>4. FeesAreYield'
  BY <1>1 DEF PositionInv, FeesAreYield, Credited, pool
<1>5. PaymentsAreCommitted'
  BY <1>1 DEF PositionInv, PositionTypes, PaymentsAreCommitted, Within, Nothing, Amounts, NoOp
<1>6. MintsAsEstimated'
  BY <1>1 DEF MintsAsEstimated, Affordable, PairVuxWeth, pool
<1> QED
  BY <1>3, <1>4, <1>5, <1>6 DEF PositionInv

LEMMA PurchaseKeeps ==
  ASSUME PositionInv, NEW wethIn \in Nat, NEW minOut \in Nat, BuyVuxForPol(wethIn, minOut)
  PROVE  PositionInv'
<1>1. /\ UNCHANGED <<pool, held, polPrincipal, yielded, earned>>
      /\ op' = [kind |-> "swap", liquidity |-> 0, max |-> <<0, wethIn>>, paid |-> Nothing,
                before |-> held, minOut |-> minOut]
      /\ ctx' = [type |-> "swap", max |-> <<0, wethIn>>]
  BY DEF BuyVuxForPol, Begin
<1>2. PositionTypes'
  BY <1>1, NoOpIsOperation DEF PositionInv, PositionTypes, Operations, Amounts, pool
<1>3. FeesAreYield'
  BY <1>1 DEF PositionInv, FeesAreYield, Credited, pool
<1>4. PaymentsAreCommitted'
  BY <1>1 DEF PositionInv, PositionTypes, PaymentsAreCommitted, Within, Nothing, Amounts, NoOp
<1>5. MintsAsEstimated'
  BY <1>1 DEF MintsAsEstimated
<1> QED
  BY <1>2, <1>3, <1>4, <1>5 DEF PositionInv

\* A callback finds the context as its operation armed it, and nothing paid yet.
LEMMA ArmedByOperation ==
  ASSUME PositionInv, ctx.type # "none"
  PROVE  /\ op # NoOp /\ op.paid = Nothing /\ ctx.type = op.kind /\ ctx.max = op.max
         /\ held[2] = op.before[2] /\ held[1] >= op.before[1]
<1>1. ctx # NoCtx
  BY DEF NoCtx
<1>2. op # NoOp
  BY <1>1 DEF PositionInv, PaymentsAreCommitted
<1>3. op.paid = Nothing /\ ctx = [type |-> op.kind, max |-> op.max]
  BY <1>1, <1>2 DEF PositionInv, PaymentsAreCommitted
<1> QED
  BY <1>2, <1>3 DEF PositionInv, PositionTypes, PaymentsAreCommitted, Nothing, Amounts, Operations

LEMMA PaymentKeeps ==
  ASSUME PositionInv, NEW amounts \in Amounts, ctx.type # "none",
         ctx' = NoCtx, op' = [op EXCEPT !.paid = Plus(@, amounts)],
         Within(amounts, ctx.max), held' \in Amounts,
         held'[2] = held[2] - amounts[2], held'[1] >= held[1] - amounts[1],
         UNCHANGED <<pool, polPrincipal, yielded, earned>>
  PROVE  PositionInv'
<1>1. /\ op # NoOp /\ op.paid = Nothing /\ ctx.max = op.max
      /\ held[2] = op.before[2] /\ held[1] >= op.before[1]
  BY ArmedByOperation
<1>2. op \in Operations /\ op.kind # "none"
  BY <1>1 DEF PositionInv, PositionTypes
<1>3. Plus(op.paid, amounts) = amounts
  BY <1>1 DEF Plus, Nothing, Amounts
<1>4. /\ op' \in Operations /\ op'.kind = op.kind /\ op'.liquidity = op.liquidity
      /\ op'.max = op.max /\ op'.before = op.before /\ op'.paid = amounts
  BY <1>2, <1>3 DEF Operations
<1>5. PositionTypes'
  BY <1>2, <1>4 DEF PositionInv, PositionTypes, pool
<1>6. FeesAreYield'
  BY DEF PositionInv, FeesAreYield, Credited, pool
<1>7. PaymentsAreCommitted'
  <2>1. op' # NoOp
    BY <1>2, <1>4, NoOpIsOperation
  <2>2. held \in Amounts /\ op.before \in Amounts
    BY <1>2 DEF PositionInv, PositionTypes, Operations
  <2>3. /\ held'[2] = op'.before[2] - op'.paid[2]
        /\ held'[1] >= op'.before[1] - op'.paid[1]
    BY <1>1, <1>4, <2>2 DEF Amounts
  <2>4. Within(op'.paid, op'.max)
    BY <1>1, <1>4
  <2> QED
    BY <2>1, <2>3, <2>4 DEF PaymentsAreCommitted
<1>8. MintsAsEstimated'
  BY <1>4 DEF PositionInv, MintsAsEstimated, Affordable, PairVuxWeth, pool
<1> QED
  BY <1>5, <1>6, <1>7, <1>8 DEF PositionInv

LEMMA MintCallbackKeeps ==
  ASSUME PositionInv, NEW caller, NEW demand \in Amounts, MintCallback(caller, demand)
  PROVE  PositionInv'
<1>1. /\ ctx.type # "none" /\ ctx' = NoCtx /\ op' = [op EXCEPT !.paid = Plus(@, demand)]
      /\ Within(demand, ctx.max) /\ held' = Minus(held, demand) /\ Within(demand, held)
      /\ UNCHANGED <<pool, polPrincipal, yielded, earned>>
  BY DEF MintCallback, ConsumesAndPays
<1>2. held' \in Amounts
  BY <1>1, SumsAreAmounts DEF PositionInv, PositionTypes
<1>3. held'[2] = held[2] - demand[2] /\ held'[1] >= held[1] - demand[1]
  BY <1>1 DEF PositionInv, PositionTypes, Minus, Amounts
<1> QED
  BY <1>1, <1>2, <1>3, PaymentKeeps

LEMMA SwapCallbackKeeps ==
  ASSUME PositionInv, NEW caller, NEW vuxDelta \in Int, NEW wethDelta \in Nat,
         SwapCallback(caller, vuxDelta, wethDelta)
  PROVE  PositionInv'
<1> DEFINE paid == <<0, wethDelta>>
<1>1. /\ ctx.type = "swap" /\ ctx' = NoCtx /\ op' = [op EXCEPT !.paid = Plus(@, paid)]
      /\ wethDelta <= ctx.max[2] /\ Within(paid, held) /\ vuxDelta < 0
      /\ held' = <<held[1] - vuxDelta, held[2] - wethDelta>>
      /\ UNCHANGED <<pool, polPrincipal, yielded, earned>>
  BY DEF SwapCallback, ConsumesAndPays
<1>2. paid \in Amounts
  BY DEF Amounts
<1>3. held \in Amounts
  BY DEF PositionInv, PositionTypes
<1>4. /\ held' \in Amounts
      /\ held'[2] = held[2] - paid[2] /\ held'[1] >= held[1] - paid[1]
  BY <1>1, <1>3 DEF Within, Amounts
<1>5. Within(paid, ctx.max)
  <2>1. ctx.max = op.max /\ op # NoOp
    BY <1>1, ArmedByOperation
  <2>2. ctx.max \in Amounts
    BY <2>1 DEF PositionInv, PositionTypes, Operations
  <2> QED
    BY <1>1, <2>2 DEF Within, Amounts
<1> HIDE DEF paid
<1> QED
  BY <1>1, <1>2, <1>4, <1>5, PaymentKeeps

\* The end of an operation finds its context consumed.
LEMMA ConsumedIsNoCtx ==
  ASSUME PositionInv, Consumed
  PROVE  ctx = NoCtx
<1>1. CASE op = NoOp
  BY <1>1 DEF PositionInv, PaymentsAreCommitted
<1>2. CASE op # NoOp /\ ctx # NoCtx
  <2>1. ctx.type = op.kind
    BY <1>2 DEF PositionInv, PaymentsAreCommitted
  <2> QED
    BY <1>2, <2>1 DEF Consumed, PositionInv, PositionTypes
<1> QED
  BY <1>1, <1>2

LEMMA AdditionEndKeeps ==
  ASSUME PositionInv, LiquidityAdded
  PROVE  PositionInv'
<1>1. op' = NoOp /\ ctx' = NoCtx
  BY ConsumedIsNoCtx DEF LiquidityAdded, Finish
<1>2. PositionTypes'
  BY <1>1, SumsAreAmounts, NoOpIsOperation
  DEF LiquidityAdded, Finish, PositionInv, PositionTypes, Operations
<1>3. FeesAreYield'
  BY SumsOfThree
  DEF LiquidityAdded, Finish, PositionInv, PositionTypes, FeesAreYield, Credited
<1> QED
  BY <1>1, <1>2, <1>3, QuietStep

LEMMA PurchaseEndKeeps ==
  ASSUME PositionInv, NEW price \in Nat, VuxBought(price)
  PROVE  PositionInv'
<1>1. op' = NoOp /\ ctx' = NoCtx
  BY ConsumedIsNoCtx DEF VuxBought, Finish
<1>2. PositionTypes'
  BY <1>1, NoOpIsOperation DEF VuxBought, Finish, PositionInv, PositionTypes
<1>3. FeesAreYield'
  BY DEF VuxBought, Finish, PositionInv, FeesAreYield, Credited
<1> QED
  BY <1>1, <1>2, <1>3, QuietStep

LEMMA RevertKeeps ==
  ASSUME PositionInv, Revert
  PROVE  PositionInv'
<1>1. op' = NoOp /\ ctx' = NoCtx
  BY DEF Revert
<1>2. PositionTypes'
  BY NoOpIsOperation DEF Revert, PositionInv, PositionTypes, Operations, pool
<1>3. FeesAreYield'
  BY DEF Revert, PositionInv, FeesAreYield, Credited, pool
<1> QED
  BY <1>1, <1>2, <1>3, QuietStep
LEMMA InputsAreAmounts ==
  /\ Commitments \subseteq Amounts /\ Buys \subseteq Amounts
  /\ Demands \subseteq Amounts /\ Fees \subseteq Amounts
BY AmountsAssumption DEF Amounts

LEMMA InsideKeeps ==
  ASSUME PositionInv, Inside
  PROVE  PositionInv'
<1>1. ASSUME NEW caller, NEW demand \in Demands, MintCallback(caller, demand)
      PROVE  PositionInv'
  BY <1>1, InputsAreAmounts, MintCallbackKeeps
<1>2. ASSUME NEW caller, NEW demand \in Demands, SwapCallback(caller, -demand[1], demand[2])
      PROVE  PositionInv'
  <2>1. demand[1] \in Nat /\ demand[2] \in Nat
    BY InputsAreAmounts DEF Amounts
  <2>2. -demand[1] \in Int
    BY <2>1
  <2> QED
    BY <1>2, <2>1, <2>2, SwapCallbackKeeps
<1>3. CASE MintCallback("pool", ChargeFor(op.liquidity))
  <2>1. op.liquidity \in Nat
    BY DEF PositionInv, PositionTypes, Operations
  <2>2. ChargeFor(op.liquidity) \in Amounts
    BY <2>1, ChargesAreAmounts DEF PositionInv, PositionTypes
  <2> QED
    BY <1>3, <2>2, MintCallbackKeeps
<1>4. CASE LiquidityAdded
  BY <1>4, AdditionEndKeeps
<1>5. ASSUME NEW price \in Prices, VuxBought(price)
      PROVE  PositionInv'
  BY <1>5, AmountsAssumption, PurchaseEndKeeps
<1>6. CASE Revert
  BY <1>6, RevertKeeps
<1> QED
  BY <1>1, <1>2, <1>3, <1>4, <1>5, <1>6 DEF Inside

LEMMA OutsideKeeps ==
  ASSUME PositionInv, Outside
  PROVE  PositionInv'
<1>1. ASSUME NEW max \in Commitments, MintPolPosition(max) \/ IncreasePol(max)
      PROVE  PositionInv'
  BY <1>1, InputsAreAmounts, AdditionKeeps DEF MintPolPosition, IncreasePol
<1>2. ASSUME NEW buy \in Buys, BuyVuxForPol(buy[1], buy[2])
      PROVE  PositionInv'
  <2>1. buy[1] \in Nat /\ buy[2] \in Nat
    BY InputsAreAmounts DEF Amounts
  <2> QED
    BY <1>2, <2>1, PurchaseKeeps
<1>3. ASSUME NEW l \in Lots, DecreasePol(l) \/ GiveLiquidity(l)
      PROVE  PositionInv'
  BY <1>3, AmountsAssumption, DecreaseKeeps, GiftKeeps
<1>4. CASE HarvestPol
  BY <1>4, HarvestKeeps
<1>5. ASSUME NEW price \in Prices, NEW fees \in Fees, Trade(price, fees)
      PROVE  PositionInv'
  BY <1>5, AmountsAssumption, InputsAreAmounts, TradeKeeps
<1>6. ASSUME NEW amounts \in Fees, Receive(amounts)
      PROVE  PositionInv'
  <2>1. held' \in Amounts
    BY <1>6, InputsAreAmounts, SumsAreAmounts DEF Receive, PositionInv, PositionTypes
  <2> QED
    BY <1>6, <2>1, InventoryGrows DEF Receive
<1> QED
  BY <1>1, <1>2, <1>3, <1>4, <1>5, <1>6 DEF Outside

-----------------------------------------------------------------------------
(***************************************************************************)
(* The steps of the launch.                                                *)
(***************************************************************************)
LEMMA DonationKeeps ==
  ASSUME IInv, NEW to, Donate(to)
  PROVE  IInv'
<1>1. op = NoOp /\ op' = op
  BY DEF Donate, IInv, OperatesWhenOpen
<1>2. held' \in Amounts
  <2>1. <<0, 1>> \in Amounts
    BY DEF Amounts
  <2> QED
    BY <2>1, SumsAreAmounts DEF Donate, IInv, PositionInv, PositionTypes
<1>3. PositionInv'
  BY <1>1, <1>2, InventoryGrows DEF Donate, IInv
<1>4. LaunchTypes'
  BY DEF Donate, IInv, LaunchTypes
<1> QED
  BY <1>1, <1>3, <1>4 DEF IInv, OperatesWhenOpen

LEMMA ParamTypes ==
  ASSUME LaunchTypes
  PROVE  /\ params.value \in Nat /\ params.b0 \in Nat /\ params.wPol \in Nat
         /\ params.sqrtP0X96 \in Nat
BY GenesisAssumption DEF LaunchTypes

LEMMA EarlyStepsKeep ==
  ASSUME IInv, SnapshotAndWrap \/ DeployCore \/ DeployTreasuryAndLens
  PROVE  IInv'
<1>1. UNCHANGED position /\ op = NoOp /\ op' = op
  BY DEF SnapshotAndWrap, DeployCore, DeployTreasuryAndLens, Goes, IInv, OperatesWhenOpen,
         position, treasury
<1>2. PositionInv'
  BY <1>1, PositionRests DEF IInv
<1>3. LaunchTypes'
  <2>1. CASE SnapshotAndWrap
    <3>1. /\ params' = params /\ reserve' = reserve
          /\ deployer' = [weth |-> deployer.weth + params.value, vux |-> deployer.vux,
                          preSelf |-> deployer.weth, sanitized |-> 0]
          /\ phase = "founding"
      BY <2>1 DEF SnapshotAndWrap, Goes
    <3>2. params.value \in Nat /\ deployer.weth \in Nat
      BY <3>1, ParamTypes DEF IInv, LaunchTypes
    <3>3. /\ params \in ParamSets /\ reserve \in [weth : Nat, vux : Nat]
          /\ deployer \in [weth : Int, vux : Nat, preSelf : Int, sanitized : Int]
      BY DEF IInv, LaunchTypes
    <3>4. /\ deployer' \in [weth : Int, vux : Nat, preSelf : Int, sanitized : Int]
          /\ deployer'.weth = deployer.weth + params.value
      BY <3>1, <3>2, <3>3
    <3>5. deployer'.weth >= 0
      BY <3>2, <3>4
    <3> QED
      BY <3>1, <3>3, <3>4, <3>5 DEF LaunchTypes
  <2>2. CASE DeployCore
    <3>1. /\ params' = params /\ phase = "core"
          /\ reserve' = [weth |-> 0, vux |-> GENESIS_RESERVE_SEED]
          /\ deployer' = [weth |-> deployer.weth + reserve.weth,
                          vux |-> deployer.vux + GENESIS_POL_SUPPLY,
                          preSelf |-> deployer.preSelf, sanitized |-> reserve.weth]
      BY <2>2 DEF DeployCore, Goes, SanitizedReserve
    <3>2. deployer.weth \in Nat
      BY <3>1 DEF IInv, LaunchTypes
    <3>3. /\ params \in ParamSets /\ reserve.weth \in Nat
          /\ deployer \in [weth : Int, vux : Nat, preSelf : Int, sanitized : Int]
      BY DEF IInv, LaunchTypes
    <3>4. /\ deployer' \in [weth : Int, vux : Nat, preSelf : Int, sanitized : Int]
          /\ deployer'.weth = deployer.weth + reserve.weth
      BY <3>1, <3>2, <3>3, GenesisAssumption
    <3>5. deployer'.weth >= 0 /\ reserve' \in [weth : Nat, vux : Nat]
      BY <3>1, <3>2, <3>3, <3>4, GenesisAssumption
    <3> QED
      BY <3>1, <3>3, <3>4, <3>5 DEF LaunchTypes
  <2>3. CASE DeployTreasuryAndLens
    BY <2>3 DEF DeployTreasuryAndLens, Goes, IInv, LaunchTypes
  <2> QED
    BY <2>1, <2>2, <2>3
<1> QED
  BY <1>1, <1>2, <1>3 DEF IInv, OperatesWhenOpen

LEMMA PoolStepKeeps ==
  ASSUME IInv, DeployAndVerifyCanonicalPool
  PROVE  IInv'
<1>1. op = NoOp /\ op' = op /\ ctx' = ctx
  BY DEF DeployAndVerifyCanonicalPool, Goes, IInv, OperatesWhenOpen, treasury
<1>2. ctx = NoCtx
  BY <1>1 DEF IInv, PositionInv, PaymentsAreCommitted
<1>3. PositionTypes'
  BY <1>1, ParamTypes
  DEF DeployAndVerifyCanonicalPool, IInv, PositionInv, PositionTypes, treasury
<1>4. FeesAreYield'
  BY DEF DeployAndVerifyCanonicalPool, IInv, PositionInv, FeesAreYield, Credited
<1>5. LaunchTypes'
  BY DEF DeployAndVerifyCanonicalPool, Goes, IInv, LaunchTypes
<1>6. PositionInv'
  BY <1>1, <1>2, <1>3, <1>4, QuietStep
<1> QED
  BY <1>1, <1>5, <1>6 DEF IInv, OperatesWhenOpen

LEMMA ProvisionStepKeeps ==
  ASSUME IInv, SendProvision
  PROVE  IInv'
<1>1. op = NoOp /\ op' = op
  BY DEF SendProvision, Goes, IInv, OperatesWhenOpen
<1>2. held' \in Amounts
  <2>1. <<deployer.vux, params.wPol>> \in Amounts
    BY ParamTypes DEF Amounts, IInv, LaunchTypes
  <2> QED
    BY <2>1, SumsAreAmounts DEF SendProvision, IInv, PositionInv, PositionTypes
<1>3. PositionInv'
  BY <1>1, <1>2, InventoryGrows DEF SendProvision, IInv
<1>4. LaunchTypes'
  <2>1. /\ params' = params /\ reserve' = reserve /\ phase = "provision"
        /\ deployer' = [weth |-> deployer.weth - params.wPol, vux |-> 0,
                        preSelf |-> deployer.preSelf, sanitized |-> deployer.sanitized]
        /\ phase' # "aborted" => deployer.weth >= params.wPol
    BY DEF SendProvision, Goes
  <2>2. params.wPol \in Nat
    BY ParamTypes DEF IInv
  <2>3. /\ params \in ParamSets /\ reserve \in [weth : Nat, vux : Nat]
        /\ deployer \in [weth : Int, vux : Nat, preSelf : Int, sanitized : Int]
    BY DEF IInv, LaunchTypes
  <2>4. /\ deployer' \in [weth : Int, vux : Nat, preSelf : Int, sanitized : Int]
        /\ deployer'.weth = deployer.weth - params.wPol
    BY <2>1, <2>2, <2>3
  <2>5. deployer.weth >= params.wPol => deployer'.weth >= 0
    BY <2>2, <2>3, <2>4
  <2> QED
    BY <2>1, <2>3, <2>4, <2>5 DEF LaunchTypes
<1> QED
  BY <1>1, <1>3, <1>4 DEF IInv, OperatesWhenOpen

LEMMA MintStepKeeps ==
  ASSUME IInv, ProvisionPol \/ PolMintFails
  PROVE  IInv'
<1>1. CASE ProvisionPol
  <2>1. ASSUME MintPolPosition(<<GENESIS_POL_SUPPLY, params.wPol>>) PROVE PositionInv'
    <3>1. <<GENESIS_POL_SUPPLY, params.wPol>> \in Amounts
      BY ParamTypes, GenesisAssumption DEF Amounts, IInv
    <3> QED
      BY <2>1, <3>1, AdditionKeeps DEF MintPolPosition, IInv
  <2>2. ASSUME MintCallback("pool", ChargeFor(op.liquidity)) PROVE PositionInv'
    BY <2>2, InsideKeeps DEF Inside, IInv
  <2>3. ASSUME LiquidityAdded PROVE PositionInv'
    BY <2>3, AdditionEndKeeps DEF IInv
  <2>4. PositionInv' => IInv'
    BY <1>1 DEF ProvisionPol, launch, IInv, LaunchTypes, OperatesWhenOpen
  <2>5. PositionInv'
    BY <1>1, <2>1, <2>2, <2>3, <2>4 DEF ProvisionPol, IInv
  <2> QED
    BY <2>4, <2>5
<1>2. CASE PolMintFails
  <2>1. PositionInv' /\ UNCHANGED position /\ phase' = "aborted"
    BY <1>2, PositionRests DEF PolMintFails, IInv
  <2>2. LaunchTypes'
    BY <1>2 DEF PolMintFails, IInv, LaunchTypes
  <2> QED
    BY <2>1, <2>2 DEF IInv, OperatesWhenOpen
<1> QED
  BY <1>1, <1>2

LEMMA LateStepsKeep ==
  ASSUME IInv, FundReserve \/ HandOffAndSweep \/ ClosingSelfVerification
  PROVE  IInv'
<1>1. op = NoOp /\ op' = op
  BY DEF FundReserve, HandOffAndSweep, ClosingSelfVerification, Goes, IInv, OperatesWhenOpen,
         position, treasury
<1>2. PositionInv' /\ LaunchTypes'
  <2>1. CASE FundReserve
    BY <2>1, PositionRests, ParamTypes DEF FundReserve, Goes, IInv, LaunchTypes
  <2>2. CASE HandOffAndSweep
    <3>1. deployer.weth \in Nat
      BY <2>2 DEF HandOffAndSweep, Goes, IInv, LaunchTypes
    <3>2. <<0, deployer.weth>> \in Amounts
      BY <3>1 DEF Amounts
    <3>3. held' \in Amounts
      BY <2>2, <3>2, SumsAreAmounts DEF HandOffAndSweep, IInv, PositionInv, PositionTypes
    <3>4. PositionInv'
      BY <1>1, <2>2, <3>3, InventoryGrows DEF HandOffAndSweep, IInv
    <3> QED
      BY <2>2, <3>4 DEF HandOffAndSweep, Goes, IInv, LaunchTypes
  <2>3. CASE ClosingSelfVerification
    BY <2>3, PositionRests DEF ClosingSelfVerification, Goes, IInv, LaunchTypes
  <2> QED
    BY <2>1, <2>2, <2>3
<1> QED
  BY <1>1, <1>2 DEF IInv, OperatesWhenOpen

-----------------------------------------------------------------------------
LEMMA InitEstablishes == Init => IInv
<1> SUFFICES ASSUME Init PROVE IInv
  OBVIOUS
<1>1. PositionTypes
  BY NoOpIsOperation, PriceAssumption DEF Init, PositionInit, PositionTypes
<1>2. FeesAreYield
  <2>1. yielded = <<0, 0>> /\ owed = <<0, 0>> /\ pending = <<0, 0>> /\ earned = <<0, 0>>
    BY DEF Init, PositionInit, Nothing
  <2> QED
    BY <2>1 DEF FeesAreYield, Credited, Plus
<1>3. PaymentsAreCommitted /\ MintsAsEstimated /\ OperatesWhenOpen
  BY NoOpIsOperation DEF Init, PositionInit, PaymentsAreCommitted, MintsAsEstimated, OperatesWhenOpen
<1>4. LaunchTypes
  <2>1. params \in ParamSets
    BY DEF Init
  <2>2. deployer = [weth |-> 0, vux |-> 0, preSelf |-> 0, sanitized |-> 0] /\ reserve = [weth |-> 0, vux |-> 0]
    BY DEF Init
  <2> QED
    BY <2>1, <2>2 DEF LaunchTypes
<1> QED
  BY <1>1, <1>2, <1>3, <1>4 DEF IInv, PositionInv

LEMMA StepKeeps == IInv /\ [Next]_vars => IInv'
<1> SUFFICES ASSUME IInv, [Next]_vars PROVE IInv'
  OBVIOUS
<1>1. ASSUME NEW to, Donate(to) PROVE IInv'
  BY <1>1, DonationKeeps
<1>2. CASE Launch
  BY <1>2, EarlyStepsKeep, PoolStepKeeps, ProvisionStepKeeps, MintStepKeeps, LateStepsKeep
  DEF Launch
<1>3. CASE Live
  <2>1. PositionInv'
    BY <1>3, InsideKeeps, OutsideKeeps DEF Live, IInv
  <2> QED
    BY <1>3, <2>1 DEF Live, launch, IInv, LaunchTypes, OperatesWhenOpen
<1>4. CASE UNCHANGED vars
  <2>1. PositionInv'
    BY <1>4, PositionRests DEF vars, IInv
  <2> QED
    BY <1>4, <2>1 DEF vars, launch, position, treasury, IInv, LaunchTypes, OperatesWhenOpen
<1> QED
  BY <1>1, <1>2, <1>3, <1>4 DEF Next

\* The invariant holds of every launch and of every life of the position after it.
THEOREM PositionInvariant == Spec => []IInv
<1>1. Init => IInv
  BY InitEstablishes
<1>2. IInv /\ [Next]_vars => IInv'
  BY StepKeeps
<1> QED
  BY <1>1, <1>2, PTL DEF Spec

\* Every fee the position earned is in the pool or went out as yield: the two
\* collections of decreasePol never mistake principal for fees.
THEOREM FeesAlwaysAreYield == Spec => []FeesAreYield
<1>1. IInv => FeesAreYield
  BY DEF IInv, PositionInv
<1> QED
  BY <1>1, PositionInvariant, PTL

\* The one-shot context bounds what any sequence of callbacks takes from the
\* treasury by what the operation under way committed.
THEOREM PaymentsAlwaysAreCommitted == Spec => []PaymentsAreCommitted
<1>1. IInv => PaymentsAreCommitted
  BY DEF IInv, PositionInv
<1> QED
  BY <1>1, PositionInvariant, PTL

\* The estimate of _affordableLiquidity never asks the pool for a position that
\* costs more than was committed to it, for every price, bound and amount.
THEOREM MintsAreAlwaysCovered == Spec => []MintIsCovered
<1>1. IInv => MintIsCovered
  <2> SUFFICES ASSUME IInv, op.kind = "mint" PROVE Within(ChargeFor(op.liquidity), op.max)
    BY DEF MintIsCovered
  <2>1. /\ sqrtP \in Nat /\ vuxFirst \in BOOLEAN /\ op.max \in Amounts
        /\ MIN_SQRT_RATIO < sqrtP /\ sqrtP < MAX_SQRT_RATIO
        /\ op.liquidity = Affordable(op.max)
    BY DEF IInv, PositionInv, PositionTypes, MintsAsEstimated, Operations
  <2> QED
    BY <2>1, AffordableIsCovered
<1> QED
  BY <1>1, PositionInvariant, PTL
-----------------------------------------------------------------------------
(***************************************************************************)
(* The launch, step by step: what its checks established, where the money  *)
(* is, and what the position still owes to its principal.                  *)
(***************************************************************************)
AfterMint == {"handoff", "verify", "launched"}
AfterPool == {"treasury", "provision", "mint"} \cup AfterMint
AfterCore == {"pool"} \cup AfterPool
AfterWrap == {"core"} \cup AfterCore

\* What the position's mint demands of the inputs.
PriceInside == MIN_SQRT_RATIO < params.sqrtP0X96 /\ params.sqrtP0X96 < MAX_SQRT_RATIO

PolAffordable ==
  LET amounts == PairVuxWeth(GENESIS_POL_SUPPLY, params.wPol)
  IN  AffordableLiquidity(amounts[1], amounts[2], params.sqrtP0X96) > 0

\* What the checks passed so far say of the inputs.
ChecksPassed ==
  /\ params.sqrtP0X96 = Recorded(params)
  /\ phase = "aborted" => ~Acceptable
  /\ phase \in AfterWrap => params.value = params.wPol + params.b0
  /\ phase \in AfterPool => params.committed
  /\ phase \in AfterMint \/ (phase = "mint" /\ (op # NoOp \/ liquidity # 0)) =>
       PriceInside /\ PolAffordable
  /\ phase = "launched" => BootstrapEconomics

\* What the closing verification looks at.
Witnesses ==
  /\ phase \in {"founding", "core", "pool"} => ~latched
  /\ phase \in AfterPool => latched
  /\ phase \in AfterCore => king = "reserve"
  /\ phase = "verify" => roles = {"safe"}
  /\ phase \in {"handoff", "verify"} => liquidity # 0

\* Nobody moved the position since the launch.
Fresh == phase # "aborted" /\ moves = 0

\* The price is the recorded one until somebody trades.
PriceStands ==
  /\ moves \in Nat /\ (phase # "launched" => moves = 0 /\ earned = Nothing)
  /\ Fresh => earned = Nothing
  /\ Fresh /\ phase \in AfterPool => sqrtP = params.sqrtP0X96
  /\ Fresh /\ phase # "mint" => op = NoOp

\* The mint that provisions the position, under way and done.
Provisioned ==
  /\ phase \notin {"mint", "aborted"} \cup AfterMint => liquidity = 0
  /\ phase = "mint" /\ op # NoOp =>
       /\ op.kind = "mint" /\ op.max = <<GENESIS_POL_SUPPLY, params.wPol>>
       /\ liquidity = 0 /\ op.liquidity > 0
       /\ ctx = NoCtx => op.paid = ChargeFor(op.liquidity)
  /\ Fresh /\ liquidity = 0 /\ phase \notin AfterMint => polPrincipal = Nothing
  /\ Fresh /\ liquidity # 0 => Within(ChargeFor(liquidity), polPrincipal)

\* Nothing is lost on the way: every WETH that was donated or sent with the launch,
\* and every VUX of the position, is with one of its parts or in the pool.
Conserved ==
  /\ donated \in Nat
  /\ deployer.preSelf \in Nat /\ deployer.sanitized \in Nat
  /\ Fresh => deployer.weth + reserve.weth + held[2] + op.paid[2] + polPrincipal[2]
                = donated + (IF phase = "founding" THEN 0 ELSE params.value)
  /\ Fresh => deployer.vux + held[1] + op.paid[1] + polPrincipal[1]
                = IF phase \in AfterCore THEN GENESIS_POL_SUPPLY ELSE 0

\* Where it is at each step.
Located ==
  /\ phase \in {"founding", "core"} => deployer.vux = 0 /\ reserve.vux = 0
  /\ phase \in AfterCore => reserve.vux = GENESIS_RESERVE_SEED
  /\ phase \in {"mint"} \cup AfterMint => deployer.vux = 0
  /\ phase = "core" => deployer.weth = deployer.preSelf + params.value
  /\ phase \in {"pool", "treasury", "provision"} =>
       deployer.weth = deployer.preSelf + deployer.sanitized + params.value
  /\ phase \in {"pool", "treasury", "provision", "mint"} => reserve.weth = 0
  /\ phase = "mint" =>
       /\ deployer.weth = deployer.preSelf + deployer.sanitized + params.b0
       /\ deployer.preSelf + deployer.sanitized <= donated
  /\ phase = "handoff" => deployer.weth = deployer.preSelf + deployer.sanitized
  /\ phase \in AfterMint => reserve.weth = params.b0
  /\ phase \in {"verify", "launched"} => deployer.weth = 0

LaunchInv ==
  ChecksPassed /\ Witnesses /\ PriceStands /\ Provisioned /\ Conserved /\ Located

-----------------------------------------------------------------------------
\* The kinds of the figures.
LEMMA Figures ==
  ASSUME IInv
  PROVE  /\ deployer.vux \in Nat /\ reserve.weth \in Nat /\ reserve.vux \in Nat
         /\ deployer.weth \in Int /\ (phase # "aborted" => deployer.weth \in Nat)
         /\ held[1] \in Nat /\ held[2] \in Nat
         /\ polPrincipal[1] \in Nat /\ polPrincipal[2] \in Nat
         /\ op.paid[1] \in Nat /\ op.paid[2] \in Nat
         /\ params.value \in Nat /\ params.b0 \in Nat /\ params.wPol \in Nat
         /\ GENESIS_POL_SUPPLY \in Nat /\ GENESIS_RESERVE_SEED \in Nat
         /\ deployer = [weth |-> deployer.weth, vux |-> deployer.vux,
                        preSelf |-> deployer.preSelf, sanitized |-> deployer.sanitized]
         /\ reserve = [weth |-> reserve.weth, vux |-> reserve.vux]
<1>1. /\ held \in Amounts /\ polPrincipal \in Amounts /\ op.paid \in Amounts
  BY DEF IInv, PositionInv, PositionTypes, Operations
<1>2. /\ params.value \in Nat /\ params.b0 \in Nat /\ params.wPol \in Nat
      /\ GENESIS_POL_SUPPLY \in Nat /\ GENESIS_RESERVE_SEED \in Nat
  BY ParamTypes, GenesisAssumption DEF IInv
<1>3. /\ deployer \in [weth : Int, vux : Nat, preSelf : Int, sanitized : Int]
      /\ reserve \in [weth : Nat, vux : Nat]
      /\ phase # "aborted" => deployer.weth >= 0
  BY DEF IInv, LaunchTypes
<1> QED BY <1>1, <1>2, <1>3 DEF Amounts

LEMMA PaidOfNoOp == NoOp.paid[1] = 0 /\ NoOp.paid[2] = 0 /\ Nothing[1] = 0 /\ Nothing[2] = 0
BY DEF NoOp, Nothing

\* What the launch is asked for does not change under it.
LEMMA InputsStay ==
  ASSUME params' = params, vuxFirst' = vuxFirst
  PROVE  /\ Recorded(params)' = Recorded(params)
         /\ Acceptable' <=> Acceptable
         /\ PriceInside' <=> PriceInside
         /\ PolAffordable' <=> PolAffordable
         /\ BootstrapEconomics' <=> BootstrapEconomics
BY DEF Recorded, Acceptable, PriceInside, PolAffordable, BootstrapEconomics, PairVuxWeth

LEMMA AcceptableIs ==
  Acceptable <=> /\ params.value = params.wPol + params.b0 /\ params.committed
                 /\ BootstrapEconomics /\ PriceInside /\ PolAffordable
BY DEF Acceptable, PriceInside, PolAffordable

LEMMA DonationLaunches ==
  ASSUME IInv, LaunchInv, NEW to \in {"deployer", "reserve", "treasury"}, Donate(to)
  PROVE  LaunchInv'
<1>1. /\ phase = "founding" /\ phase' = phase /\ donated' = donated + 1
      /\ params' = params /\ roles' = roles /\ king' = king /\ latched' = latched
      /\ vuxFirst' = vuxFirst /\ sqrtP' = sqrtP /\ liquidity' = liquidity
      /\ polPrincipal' = polPrincipal /\ ctx' = ctx /\ op' = op /\ earned' = earned /\ moves' = moves
  BY DEF Donate, pool
<1>2. /\ deployer'.weth + reserve'.weth + held'[2] = deployer.weth + reserve.weth + held[2] + 1
      /\ held'[1] = held[1] /\ deployer'.vux = deployer.vux /\ reserve'.vux = reserve.vux
      /\ deployer'.preSelf = deployer.preSelf /\ deployer'.sanitized = deployer.sanitized
  <2>1. CASE to = "deployer"
    <3>1. /\ deployer' = [deployer EXCEPT !.weth = @ + 1] /\ reserve' = reserve /\ held' = held
      BY <2>1 DEF Donate
    <3> QED BY <3>1, <1>1, Figures
  <2>2. CASE to = "reserve"
    <3>1. /\ reserve' = [reserve EXCEPT !.weth = @ + 1] /\ deployer' = deployer /\ held' = held
      BY <2>2 DEF Donate
    <3> QED BY <3>1, <1>1, Figures
  <2>3. CASE to = "treasury"
    <3>1. /\ held' = Plus(held, <<0, 1>>) /\ deployer' = deployer /\ reserve' = reserve
      BY <2>3 DEF Donate
    <3> QED BY <3>1, <1>1, Figures DEF Plus
  <2> QED BY <2>1, <2>2, <2>3
<1>3. ChecksPassed'
  BY <1>1, InputsStay DEF LaunchInv, ChecksPassed, AfterMint, AfterPool, AfterCore, AfterWrap
<1>4. Witnesses'
  BY <1>1 DEF LaunchInv, Witnesses, AfterPool, AfterCore, AfterMint
<1>5. PriceStands'
  BY <1>1 DEF LaunchInv, PriceStands, Fresh, AfterPool, AfterMint
<1>6. Provisioned'
  BY <1>1 DEF LaunchInv, Provisioned, Fresh, AfterMint
<1>7. Conserved'
  BY <1>1, <1>2, Figures DEF LaunchInv, Conserved, Fresh, AfterCore, AfterPool, AfterMint
<1>8. Located'
  BY <1>1, <1>2 DEF LaunchInv, Located, AfterCore, AfterPool, AfterMint
<1> QED BY <1>3, <1>4, <1>5, <1>6, <1>7, <1>8 DEF LaunchInv

LEMMA WrapLaunches ==
  ASSUME IInv, LaunchInv, SnapshotAndWrap
  PROVE  LaunchInv'
<1>1. /\ phase = "founding" /\ params' = params /\ donated' = donated
      /\ phase' = IF params.value = params.wPol + params.b0 THEN "core" ELSE "aborted"
      /\ reserve' = reserve /\ roles' = roles /\ king' = king /\ latched' = latched
      /\ vuxFirst' = vuxFirst /\ sqrtP' = sqrtP /\ liquidity' = liquidity /\ held' = held
      /\ polPrincipal' = polPrincipal /\ ctx' = ctx /\ op' = op /\ earned' = earned /\ moves' = moves
  BY DEF SnapshotAndWrap, Goes, position, pool, treasury
<1>2. /\ deployer'.weth = deployer.weth + params.value /\ deployer'.vux = deployer.vux
      /\ deployer'.preSelf = deployer.weth /\ deployer'.sanitized = 0
  BY DEF SnapshotAndWrap
<1>3. ChecksPassed'
  BY <1>1, InputsStay, AcceptableIs
  DEF LaunchInv, ChecksPassed, AfterMint, AfterPool, AfterCore, AfterWrap
<1>4. Witnesses'
  BY <1>1 DEF LaunchInv, Witnesses, AfterPool, AfterCore, AfterMint
<1>5. PriceStands'
  BY <1>1 DEF LaunchInv, PriceStands, Fresh, AfterPool, AfterMint
<1>6. Provisioned'
  BY <1>1 DEF LaunchInv, Provisioned, Fresh, AfterMint
<1>7. Conserved'
  BY <1>1, <1>2, Figures DEF LaunchInv, Conserved, Fresh, AfterCore, AfterPool, AfterMint
<1>8. Located'
  BY <1>1, <1>2 DEF LaunchInv, Located, AfterCore, AfterPool, AfterMint
<1> QED BY <1>3, <1>4, <1>5, <1>6, <1>7, <1>8 DEF LaunchInv

LEMMA CoreLaunches ==
  ASSUME IInv, LaunchInv, DeployCore
  PROVE  LaunchInv'
<1>1. /\ phase = "core" /\ params' = params /\ donated' = donated /\ phase' = "pool"
      /\ roles' = roles /\ king' = "reserve" /\ latched' = latched
      /\ vuxFirst' = vuxFirst /\ sqrtP' = sqrtP /\ liquidity' = liquidity /\ held' = held
      /\ polPrincipal' = polPrincipal /\ ctx' = ctx /\ op' = op /\ earned' = earned /\ moves' = moves
  BY DEF DeployCore, Goes, SanitizedReserve, position, pool, treasury
<1>2. /\ deployer'.weth = deployer.weth + reserve.weth
      /\ deployer'.vux = deployer.vux + GENESIS_POL_SUPPLY
      /\ deployer'.preSelf = deployer.preSelf /\ deployer'.sanitized = reserve.weth
      /\ reserve'.weth = 0 /\ reserve'.vux = GENESIS_RESERVE_SEED
  BY DEF DeployCore, SanitizedReserve
<1>3. ChecksPassed'
  BY <1>1, InputsStay
  DEF LaunchInv, ChecksPassed, AfterMint, AfterPool, AfterCore, AfterWrap
<1>4. Witnesses'
  BY <1>1 DEF LaunchInv, Witnesses, AfterPool, AfterCore, AfterMint
<1>5. PriceStands'
  BY <1>1 DEF LaunchInv, PriceStands, Fresh, AfterPool, AfterMint
<1>6. Provisioned'
  BY <1>1 DEF LaunchInv, Provisioned, Fresh, AfterMint
<1>7. Conserved'
  BY <1>1, <1>2, Figures DEF LaunchInv, Conserved, Located, Fresh, AfterCore, AfterPool, AfterMint
<1>8. Located'
  BY <1>1, <1>2, Figures DEF LaunchInv, Located, Conserved, AfterCore, AfterPool, AfterMint
<1> QED BY <1>3, <1>4, <1>5, <1>6, <1>7, <1>8 DEF LaunchInv

LEMMA PoolLaunches ==
  ASSUME IInv, LaunchInv, DeployAndVerifyCanonicalPool
  PROVE  LaunchInv'
<1> DEFINE ok == /\ MIN_SQRT_RATIO <= params.sqrtP0X96 /\ params.sqrtP0X96 < MAX_SQRT_RATIO
                 /\ ~latched /\ params.committed
<1>1. /\ phase = "pool" /\ params' = params /\ donated' = donated
      /\ phase' = IF ok THEN "treasury" ELSE "aborted"
      /\ deployer' = deployer /\ reserve' = reserve /\ roles' = roles /\ king' = king /\ latched' = TRUE
      /\ vuxFirst' = vuxFirst /\ sqrtP' = params.sqrtP0X96 /\ liquidity' = liquidity
      /\ held' = held /\ polPrincipal' = polPrincipal /\ ctx' = ctx /\ op' = op
      /\ earned' = earned /\ moves' = moves
  BY DEF DeployAndVerifyCanonicalPool, Goes, treasury
<1>2. ASSUME Acceptable PROVE ok
  <2>1. params.sqrtP0X96 \in Nat /\ ~latched
    BY <1>1, ParamTypes DEF IInv, LaunchInv, Witnesses
  <2> QED BY <1>2, <2>1, PriceAssumption, AcceptableIs DEF PriceInside
<1> HIDE DEF ok
<1>3. ChecksPassed'
  <2>1. ok => params.committed
    BY DEF ok
  <2> QED BY <1>1, <1>2, <2>1, InputsStay
          DEF LaunchInv, ChecksPassed, AfterMint, AfterPool, AfterCore, AfterWrap
<1>4. Witnesses'
  BY <1>1 DEF LaunchInv, Witnesses, AfterPool, AfterCore, AfterMint
<1>5. PriceStands'
  BY <1>1 DEF LaunchInv, PriceStands, Fresh, AfterPool, AfterMint
<1>6. Provisioned'
  BY <1>1 DEF LaunchInv, Provisioned, Fresh, AfterMint
<1>7. Conserved'
  BY <1>1 DEF LaunchInv, Conserved, Fresh, AfterCore, AfterPool, AfterMint
<1>8. Located'
  BY <1>1 DEF LaunchInv, Located, AfterCore, AfterPool, AfterMint
<1> QED BY <1>3, <1>4, <1>5, <1>6, <1>7, <1>8 DEF LaunchInv

LEMMA TreasuryLaunches ==
  ASSUME IInv, LaunchInv, DeployTreasuryAndLens
  PROVE  LaunchInv'
<1>1. /\ phase = "treasury" /\ params' = params /\ donated' = donated /\ phase' = "provision"
      /\ deployer' = deployer /\ reserve' = reserve /\ king' = king /\ latched' = latched
      /\ vuxFirst' = vuxFirst /\ sqrtP' = sqrtP /\ liquidity' = liquidity
      /\ held' = held /\ polPrincipal' = polPrincipal /\ ctx' = ctx /\ op' = op
      /\ earned' = earned /\ moves' = moves
  BY DEF DeployTreasuryAndLens, Goes, position, pool, treasury
<1>3. ChecksPassed'
  BY <1>1, InputsStay
  DEF LaunchInv, ChecksPassed, AfterMint, AfterPool, AfterCore, AfterWrap
<1>4. Witnesses'
  BY <1>1 DEF LaunchInv, Witnesses, AfterPool, AfterCore, AfterMint
<1>5. PriceStands'
  BY <1>1 DEF LaunchInv, PriceStands, Fresh, AfterPool, AfterMint
<1>6. Provisioned'
  BY <1>1 DEF LaunchInv, Provisioned, Fresh, AfterMint
<1>7. Conserved'
  BY <1>1 DEF LaunchInv, Conserved, Fresh, AfterCore, AfterPool, AfterMint
<1>8. Located'
  BY <1>1 DEF LaunchInv, Located, AfterCore, AfterPool, AfterMint
<1> QED BY <1>3, <1>4, <1>5, <1>6, <1>7, <1>8 DEF LaunchInv

LEMMA ProvisionLaunches ==
  ASSUME IInv, LaunchInv, SendProvision
  PROVE  LaunchInv'
<1>1. /\ phase = "provision" /\ params' = params /\ donated' = donated
      /\ phase' = IF deployer.weth >= params.wPol THEN "mint" ELSE "aborted"
      /\ reserve' = reserve /\ roles' = roles /\ king' = king /\ latched' = latched
      /\ vuxFirst' = vuxFirst /\ sqrtP' = sqrtP /\ liquidity' = liquidity
      /\ polPrincipal' = polPrincipal /\ ctx' = ctx /\ op' = op
      /\ earned' = earned /\ moves' = moves
  BY DEF SendProvision, Goes, pool
<1>2. /\ held'[1] = held[1] + deployer.vux /\ held'[2] = held[2] + params.wPol
      /\ deployer'.weth = deployer.weth - params.wPol /\ deployer'.vux = 0
      /\ deployer'.preSelf = deployer.preSelf /\ deployer'.sanitized = deployer.sanitized
  BY DEF SendProvision, Plus
<1>3. /\ params.value = params.wPol + params.b0
      /\ deployer.weth = deployer.preSelf + deployer.sanitized + params.value
      /\ reserve.weth = 0 /\ deployer.preSelf \in Nat /\ deployer.sanitized \in Nat /\ donated \in Nat
      /\ liquidity = 0 /\ op = NoOp /\ moves = 0
      /\ polPrincipal = Nothing
  BY <1>1 DEF LaunchInv, ChecksPassed, Located, Conserved, Provisioned, PriceStands, Fresh,
              AfterCore, AfterPool, AfterMint, AfterWrap
<1>4. phase' = "mint"
  BY <1>1, <1>3, Figures
<1>5. deployer.preSelf + deployer.sanitized <= donated
  <2>1. deployer.weth + reserve.weth + held[2] + op.paid[2] + polPrincipal[2]
          = donated + params.value
    BY <1>1, <1>3 DEF LaunchInv, Conserved, Fresh
  <2> QED BY <1>3, <2>1, Figures
<1>6. ChecksPassed'
  BY <1>1, <1>3, <1>4, InputsStay
  DEF LaunchInv, ChecksPassed, AfterMint, AfterPool, AfterCore, AfterWrap
<1>7. Witnesses'
  BY <1>1, <1>4 DEF LaunchInv, Witnesses, AfterPool, AfterCore, AfterMint
<1>8. PriceStands'
  BY <1>1, <1>4 DEF LaunchInv, PriceStands, Fresh, AfterPool, AfterMint
<1>9. Provisioned'
  BY <1>1, <1>3, <1>4 DEF LaunchInv, Provisioned, Fresh, AfterMint
<1>10. Conserved'
  BY <1>1, <1>2, <1>3, <1>4, Figures DEF LaunchInv, Conserved, Fresh, AfterCore, AfterPool, AfterMint
<1>11. Located'
  BY <1>1, <1>2, <1>3, <1>4, <1>5, Figures DEF LaunchInv, Located, AfterCore, AfterPool, AfterMint
<1> QED BY <1>6, <1>7, <1>8, <1>9, <1>10, <1>11 DEF LaunchInv

\* The mint of the position: it asks for what the launch's own figures afford.
LEMMA MintOpensLaunches ==
  ASSUME IInv, LaunchInv, phase = "mint", UNCHANGED <<launch, moves>>, liquidity = 0,
         MintPolPosition(<<GENESIS_POL_SUPPLY, params.wPol>>)
  PROVE  LaunchInv'
<1> DEFINE max == <<GENESIS_POL_SUPPLY, params.wPol>>
<1>1. /\ params' = params /\ donated' = donated /\ phase' = "mint"
      /\ deployer' = deployer /\ reserve' = reserve
      /\ roles' = roles /\ king' = king /\ latched' = latched /\ moves' = moves
  BY DEF launch
<1>2. /\ op = NoOp /\ vuxFirst' = vuxFirst /\ sqrtP' = sqrtP /\ liquidity' = liquidity
      /\ held' = held /\ polPrincipal' = polPrincipal /\ earned' = earned
      /\ op' = [kind |-> "mint", liquidity |-> Affordable(max), max |-> max, paid |-> Nothing,
                before |-> held, minOut |-> 0]
      /\ ctx' = [type |-> "mint", max |-> max]
      /\ MIN_SQRT_RATIO < sqrtP /\ sqrtP < MAX_SQRT_RATIO /\ Affordable(max) > 0
  BY DEF MintPolPosition, AddLiquidity, CanAdd, Begin, pool
<1>3. sqrtP = params.sqrtP0X96
  BY DEF LaunchInv, PriceStands, Fresh, AfterPool
<1>4. PriceInside /\ PolAffordable
  BY <1>2, <1>3 DEF PriceInside, PolAffordable, Affordable
<1>5. ctx' # NoCtx /\ op'.kind = "mint" /\ op'.max = max /\ op'.liquidity > 0 /\ op'.paid = Nothing
  BY <1>2 DEF NoCtx
<1>6. ChecksPassed'
  BY <1>1, <1>2, <1>4, InputsStay
  DEF LaunchInv, ChecksPassed, AfterMint, AfterPool, AfterCore, AfterWrap
<1>7. Witnesses'
  BY <1>1, <1>2 DEF LaunchInv, Witnesses, AfterPool, AfterCore, AfterMint
<1>8. PriceStands'
  BY <1>1, <1>2 DEF LaunchInv, PriceStands, Fresh, AfterPool, AfterMint
<1>9. Provisioned'
  BY <1>1, <1>2, <1>5 DEF LaunchInv, Provisioned, Fresh, AfterMint
<1>10. Conserved'
  <2>1. op.paid[1] = op'.paid[1] /\ op.paid[2] = op'.paid[2]
    BY <1>2, <1>5, PaidOfNoOp
  <2> HIDE DEF max
  <2> QED BY <1>1, <1>2, <2>1 DEF LaunchInv, Conserved, Fresh
<1>11. Located'
  BY <1>1, <1>2 DEF LaunchInv, Located, AfterCore, AfterPool, AfterMint
<1> QED BY <1>6, <1>7, <1>8, <1>9, <1>10, <1>11 DEF LaunchInv

LEMMA MintPaysLaunches ==
  ASSUME IInv, LaunchInv, phase = "mint", UNCHANGED <<launch, moves>>,
         MintCallback("pool", ChargeFor(op.liquidity))
  PROVE  LaunchInv'
<1> DEFINE c == ChargeFor(op.liquidity)
<1>1. /\ params' = params /\ donated' = donated /\ phase' = "mint"
      /\ deployer' = deployer /\ reserve' = reserve
      /\ roles' = roles /\ king' = king /\ latched' = latched /\ moves' = moves
  BY DEF launch
<1>2. /\ ctx.type = "mint" /\ ctx' = NoCtx /\ op' = [op EXCEPT !.paid = Plus(@, c)]
      /\ held' = Minus(held, c) /\ Within(c, held)
      /\ vuxFirst' = vuxFirst /\ sqrtP' = sqrtP /\ liquidity' = liquidity
      /\ polPrincipal' = polPrincipal /\ earned' = earned
  BY DEF MintCallback, ConsumesAndPays, pool
<1>3. op # NoOp /\ op.paid = Nothing
  BY <1>2, ArmedByOperation DEF IInv
<1>4. /\ op.kind = "mint" /\ op.max = <<GENESIS_POL_SUPPLY, params.wPol>>
      /\ liquidity = 0 /\ op.liquidity > 0
  BY <1>3 DEF LaunchInv, Provisioned
<1>5. op \in Operations /\ held \in Amounts
  BY DEF IInv, PositionInv, PositionTypes
<1>6. c \in Amounts
  <2>1. op.liquidity \in Nat /\ sqrtP \in Nat /\ vuxFirst \in BOOLEAN
    BY <1>5 DEF Operations, IInv, PositionInv, PositionTypes
  <2> QED BY <2>1, ChargesAreAmounts
<1>7. /\ op'.kind = "mint" /\ op'.max = op.max /\ op'.liquidity = op.liquidity
      /\ op'.paid = Plus(Nothing, c)
  BY <1>2, <1>3, <1>4, <1>5 DEF Operations
<1>8. ChargeFor(op.liquidity)' = ChargeFor(op.liquidity)
  BY <1>2, <1>7 DEF ChargeFor, PairVuxWeth, Reached
<1>9. op'.paid = c
  BY <1>6, <1>7 DEF Plus, Nothing, Amounts
<1> HIDE DEF c
<1>10. op' # NoOp
  BY <1>7 DEF NoOp
<1>11. ChecksPassed'
  BY <1>1, <1>2, <1>3, InputsStay
  DEF LaunchInv, ChecksPassed, AfterMint, AfterPool, AfterCore, AfterWrap
<1>12. Witnesses'
  BY <1>1, <1>2 DEF LaunchInv, Witnesses, AfterPool, AfterCore, AfterMint
<1>13. PriceStands'
  BY <1>1, <1>2 DEF LaunchInv, PriceStands, Fresh, AfterPool, AfterMint
<1>14. Provisioned'
  <2>1. op'.paid = ChargeFor(op.liquidity)'
    BY <1>8, <1>9 DEF c
  <2> QED BY <1>1, <1>2, <1>4, <1>7, <2>1 DEF LaunchInv, Provisioned, Fresh, AfterMint
<1>15. Conserved'
  <2>1. /\ held'[1] = held[1] - c[1] /\ held'[2] = held[2] - c[2]
        /\ op'.paid[1] = c[1] /\ op'.paid[2] = c[2] /\ c[1] \in Nat /\ c[2] \in Nat
        /\ op.paid[1] = 0 /\ op.paid[2] = 0
    BY <1>2, <1>3, <1>6, <1>9, PaidOfNoOp DEF Minus, Amounts
  <2> QED BY <1>1, <1>2, <2>1, Figures DEF LaunchInv, Conserved, Fresh
<1>16. Located'
  BY <1>1, <1>2 DEF LaunchInv, Located, AfterCore, AfterPool, AfterMint
<1> QED BY <1>11, <1>12, <1>13, <1>14, <1>15, <1>16 DEF LaunchInv

\* The position is worth what was paid for it.
LEMMA MintClosesLaunches ==
  ASSUME IInv, LaunchInv, phase = "mint", UNCHANGED <<launch, moves>>, LiquidityAdded
  PROVE  LaunchInv'
<1>1. /\ params' = params /\ donated' = donated /\ phase' = "mint"
      /\ deployer' = deployer /\ reserve' = reserve
      /\ roles' = roles /\ king' = king /\ latched' = latched /\ moves' = moves
  BY DEF launch
<1>2. /\ op.kind = "mint" /\ op.paid = ChargeFor(op.liquidity)
      /\ liquidity' = liquidity + op.liquidity /\ polPrincipal' = Plus(polPrincipal, op.paid)
      /\ op' = NoOp /\ vuxFirst' = vuxFirst /\ ctx' = ctx /\ held' = held /\ earned' = earned
      /\ sqrtP' = sqrtP
  BY DEF LiquidityAdded, Finish
<1>3. op # NoOp
  BY <1>2 DEF NoOp
<1>4. liquidity = 0 /\ op.liquidity > 0 /\ polPrincipal = Nothing
  <2>1. liquidity = 0 /\ op.liquidity > 0
    BY <1>3 DEF LaunchInv, Provisioned
  <2>2. Fresh
    BY DEF LaunchInv, PriceStands, Fresh
  <2> QED BY <2>1, <2>2 DEF LaunchInv, Provisioned, AfterMint
<1>5. op.liquidity \in Nat /\ op.paid \in Amounts
  BY DEF IInv, PositionInv, PositionTypes, Operations
<1>6. liquidity' = op.liquidity /\ liquidity' # 0 /\ polPrincipal' = op.paid
  BY <1>2, <1>4, <1>5 DEF Plus, Nothing, Amounts
<1>7. Within(ChargeFor(liquidity), polPrincipal)'
  <2>1. ChargeFor(liquidity)' = ChargeFor(op.liquidity)
    BY <1>2, <1>6 DEF ChargeFor, PairVuxWeth, Reached
  <2> QED BY <1>2, <1>5, <1>6, <2>1 DEF Within, Amounts
<1>8. ChecksPassed'
  BY <1>1, <1>2, <1>3, InputsStay
  DEF LaunchInv, ChecksPassed, AfterMint, AfterPool, AfterCore, AfterWrap
<1>9. Witnesses'
  BY <1>1 DEF LaunchInv, Witnesses, AfterPool, AfterCore, AfterMint
<1>10. PriceStands'
  BY <1>1, <1>2 DEF LaunchInv, PriceStands, Fresh, AfterPool, AfterMint
<1>11. Provisioned'
  BY <1>1, <1>2, <1>6, <1>7 DEF LaunchInv, Provisioned, Fresh, AfterMint
<1>12. Conserved'
  <2>1. /\ polPrincipal'[1] = op.paid[1] /\ polPrincipal'[2] = op.paid[2]
        /\ polPrincipal[1] = 0 /\ polPrincipal[2] = 0 /\ op'.paid[1] = 0 /\ op'.paid[2] = 0
    BY <1>2, <1>4, <1>6, PaidOfNoOp
  <2> QED BY <1>1, <1>2, <2>1, Figures DEF LaunchInv, Conserved, Fresh
<1>13. Located'
  BY <1>1 DEF LaunchInv, Located, AfterCore, AfterPool, AfterMint
<1> QED BY <1>8, <1>9, <1>10, <1>11, <1>12, <1>13 DEF LaunchInv

\* The mint fails for inputs that nothing affords, and for no others: the treasury
\* holds what the mint may cost, and the mint costs no more.
LEMMA MintFailsLaunches ==
  ASSUME IInv, LaunchInv, PolMintFails
  PROVE  LaunchInv'
<1> DEFINE max == <<GENESIS_POL_SUPPLY, params.wPol>>
<1>1. /\ phase = "mint" /\ liquidity = 0 /\ phase' = "aborted" /\ params' = params /\ donated' = donated
      /\ deployer' = deployer /\ reserve' = reserve
      /\ roles' = roles /\ king' = king /\ latched' = latched
      /\ vuxFirst' = vuxFirst /\ sqrtP' = sqrtP /\ liquidity' = liquidity /\ held' = held
      /\ polPrincipal' = polPrincipal /\ ctx' = ctx /\ op' = op /\ earned' = earned /\ moves' = moves
  BY DEF PolMintFails, position, pool, treasury
<1>2. ASSUME op # NoOp PROVE FALSE
  <2>1. ~Consumed /\ ~(/\ Within(ChargeFor(op.liquidity), ctx.max)
                       /\ Within(ChargeFor(op.liquidity), held))
    BY <1>2 DEF PolMintFails
  <2>2. ctx.type # "none"
    BY <2>1 DEF Consumed
  <2>3. /\ op.paid = Nothing /\ ctx.max = op.max
    BY <2>2, ArmedByOperation DEF IInv
  <2>4. op.kind = "mint" /\ op.max = max
    BY <1>1, <1>2 DEF LaunchInv, Provisioned
  <2>5. Within(ChargeFor(op.liquidity), op.max)
    <3>1. /\ sqrtP \in Nat /\ vuxFirst \in BOOLEAN /\ op.max \in Amounts
          /\ MIN_SQRT_RATIO < sqrtP /\ sqrtP < MAX_SQRT_RATIO
          /\ op.liquidity = Affordable(op.max)
      BY <2>4 DEF IInv, PositionInv, PositionTypes, MintsAsEstimated, Operations
    <3> QED BY <3>1, AffordableIsCovered
  <2>6. Within(max, held)
    <3>1. Fresh /\ polPrincipal = Nothing
      BY <1>1 DEF LaunchInv, PriceStands, Provisioned, Fresh, AfterMint
    <3>2. /\ deployer.weth = deployer.preSelf + deployer.sanitized + params.b0
          /\ deployer.preSelf + deployer.sanitized <= donated
          /\ reserve.weth = 0 /\ deployer.vux = 0
          /\ params.value = params.wPol + params.b0
      BY <1>1 DEF LaunchInv, Located, ChecksPassed, AfterWrap, AfterCore, AfterPool, AfterMint
    <3>3. /\ deployer.weth + reserve.weth + held[2] + op.paid[2] + polPrincipal[2]
               = donated + params.value
          /\ deployer.vux + held[1] + op.paid[1] + polPrincipal[1] = GENESIS_POL_SUPPLY
          /\ deployer.preSelf \in Nat /\ deployer.sanitized \in Nat /\ donated \in Nat
      BY <1>1, <3>1 DEF LaunchInv, Conserved, AfterCore, AfterPool
    <3>4. op.paid[1] = 0 /\ op.paid[2] = 0 /\ polPrincipal[1] = 0 /\ polPrincipal[2] = 0
      BY <2>3, <3>1, PaidOfNoOp
    <3>5. GENESIS_POL_SUPPLY <= held[1] /\ params.wPol <= held[2]
      BY <3>2, <3>3, <3>4, Figures
    <3> QED BY <3>5 DEF Within
  <2>7. ChargeFor(op.liquidity) \in Amounts
    <3>1. op.liquidity \in Nat /\ sqrtP \in Nat /\ vuxFirst \in BOOLEAN
      BY DEF Operations, IInv, PositionInv, PositionTypes
    <3> QED BY <3>1, ChargesAreAmounts
  <2>8. Within(ChargeFor(op.liquidity), held)
    BY <2>4, <2>5, <2>6, <2>7, Figures DEF Within, Amounts
  <2> QED BY <2>1, <2>3, <2>5, <2>8
<1>3. ~Acceptable
  <2>1. sqrtP = params.sqrtP0X96
    BY <1>1 DEF LaunchInv, PriceStands, Fresh, AfterPool
  <2>2. ~(MIN_SQRT_RATIO < sqrtP /\ sqrtP < MAX_SQRT_RATIO /\ Affordable(max) > 0)
    BY <1>2 DEF PolMintFails, CanAdd
  <2>3. ~(PriceInside /\ PolAffordable)
    BY <2>1, <2>2 DEF PriceInside, PolAffordable, Affordable
  <2> QED BY <2>3, AcceptableIs
<1> HIDE DEF max
<1>4. ChecksPassed'
  BY <1>1, <1>3, InputsStay
  DEF LaunchInv, ChecksPassed, AfterMint, AfterPool, AfterCore, AfterWrap
<1>5. Witnesses'
  BY <1>1 DEF LaunchInv, Witnesses, AfterPool, AfterCore, AfterMint
<1>6. PriceStands'
  BY <1>1 DEF LaunchInv, PriceStands, Fresh, AfterPool, AfterMint
<1>7. Provisioned'
  BY <1>1 DEF LaunchInv, Provisioned, Fresh, AfterMint
<1>8. Conserved'
  BY <1>1 DEF LaunchInv, Conserved, Fresh
<1>9. Located'
  BY <1>1 DEF LaunchInv, Located, AfterCore, AfterPool, AfterMint
<1> QED BY <1>4, <1>5, <1>6, <1>7, <1>8, <1>9 DEF LaunchInv

LEMMA FundingLaunches ==
  ASSUME IInv, LaunchInv, FundReserve
  PROVE  LaunchInv'
<1>1. /\ phase = "mint" /\ liquidity # 0 /\ op = NoOp /\ params' = params /\ donated' = donated
      /\ phase' = IF deployer.weth >= params.b0 THEN "handoff" ELSE "aborted"
      /\ roles' = roles /\ king' = king /\ latched' = latched
      /\ vuxFirst' = vuxFirst /\ sqrtP' = sqrtP /\ liquidity' = liquidity /\ held' = held
      /\ polPrincipal' = polPrincipal /\ ctx' = ctx /\ op' = op /\ earned' = earned /\ moves' = moves
  BY DEF FundReserve, Goes, position, pool, treasury
<1>2. /\ deployer'.weth = deployer.weth - params.b0 /\ deployer'.vux = deployer.vux
      /\ deployer'.preSelf = deployer.preSelf /\ deployer'.sanitized = deployer.sanitized
      /\ reserve'.weth = reserve.weth + params.b0 /\ reserve'.vux = reserve.vux
  <2>1. /\ deployer' = [deployer EXCEPT !.weth = @ - params.b0]
        /\ reserve' = [reserve EXCEPT !.weth = @ + params.b0]
    BY DEF FundReserve
  <2> QED BY <2>1, Figures
<1>3. phase' = "handoff"
  <2>1. /\ deployer.weth = deployer.preSelf + deployer.sanitized + params.b0
        /\ deployer.preSelf \in Nat /\ deployer.sanitized \in Nat
    BY <1>1 DEF LaunchInv, Located, Conserved
  <2> QED BY <1>1, <2>1, Figures
<1>4. ChecksPassed'
  BY <1>1, <1>3, InputsStay
  DEF LaunchInv, ChecksPassed, AfterMint, AfterPool, AfterCore, AfterWrap
<1>5. Witnesses'
  BY <1>1, <1>3 DEF LaunchInv, Witnesses, AfterPool, AfterCore, AfterMint
<1>6. PriceStands'
  BY <1>1, <1>3 DEF LaunchInv, PriceStands, Fresh, AfterPool, AfterMint
<1>7. Provisioned'
  <2>1. Within(ChargeFor(liquidity), polPrincipal)' <=> Within(ChargeFor(liquidity), polPrincipal)
    BY <1>1 DEF ChargeFor, PairVuxWeth, Reached
  <2> QED BY <1>1, <1>3, <2>1 DEF LaunchInv, Provisioned, Fresh, AfterMint
<1>8. Conserved'
  BY <1>1, <1>2, <1>3, Figures DEF LaunchInv, Conserved, Fresh, AfterCore, AfterPool, AfterMint
<1>9. Located'
  BY <1>1, <1>2, <1>3, Figures DEF LaunchInv, Located, Conserved, AfterCore, AfterPool, AfterMint
<1> QED BY <1>4, <1>5, <1>6, <1>7, <1>8, <1>9 DEF LaunchInv

LEMMA HandOffLaunches ==
  ASSUME IInv, LaunchInv, HandOffAndSweep
  PROVE  LaunchInv'
<1>1. /\ phase = "handoff" /\ params' = params /\ donated' = donated
      /\ phase' = IF deployer.weth = deployer.preSelf + deployer.sanitized THEN "verify" ELSE "aborted"
      /\ roles' = {"safe"} /\ king' = king /\ latched' = latched /\ reserve' = reserve
      /\ vuxFirst' = vuxFirst /\ sqrtP' = sqrtP /\ liquidity' = liquidity
      /\ polPrincipal' = polPrincipal /\ ctx' = ctx /\ op' = op /\ earned' = earned /\ moves' = moves
  BY DEF HandOffAndSweep, Goes, pool
<1>2. /\ deployer'.weth = 0 /\ deployer'.vux = deployer.vux
      /\ deployer'.preSelf = deployer.preSelf /\ deployer'.sanitized = deployer.sanitized
      /\ held'[1] = held[1] /\ held'[2] = held[2] + deployer.weth
  <2>1. /\ deployer' = [deployer EXCEPT !.weth = 0] /\ held' = Plus(held, <<0, deployer.weth>>)
    BY DEF HandOffAndSweep
  <2> QED BY <2>1, Figures DEF Plus
<1>3. phase' = "verify"
  BY <1>1 DEF LaunchInv, Located
<1>4. ChecksPassed'
  BY <1>1, <1>3, InputsStay
  DEF LaunchInv, ChecksPassed, AfterMint, AfterPool, AfterCore, AfterWrap
<1>5. Witnesses'
  BY <1>1, <1>3 DEF LaunchInv, Witnesses, AfterPool, AfterCore, AfterMint
<1>6. PriceStands'
  BY <1>1, <1>3 DEF LaunchInv, PriceStands, Fresh, AfterPool, AfterMint
<1>7. Provisioned'
  <2>1. Within(ChargeFor(liquidity), polPrincipal)' <=> Within(ChargeFor(liquidity), polPrincipal)
    BY <1>1 DEF ChargeFor, PairVuxWeth, Reached
  <2> QED BY <1>1, <1>3, <2>1 DEF LaunchInv, Provisioned, Fresh, AfterMint
<1>8. Conserved'
  BY <1>1, <1>2, <1>3, Figures DEF LaunchInv, Conserved, Fresh, AfterCore, AfterPool, AfterMint
<1>9. Located'
  BY <1>1, <1>2, <1>3, Figures DEF LaunchInv, Located, AfterCore, AfterPool, AfterMint
<1> QED BY <1>4, <1>5, <1>6, <1>7, <1>8, <1>9 DEF LaunchInv

\* Of all that the closing verification looks at, only the economics can fail it.
LEMMA VerificationLaunches ==
  ASSUME IInv, LaunchInv, ClosingSelfVerification
  PROVE  LaunchInv'
<1>1. /\ phase = "verify" /\ params' = params /\ donated' = donated
      /\ deployer' = deployer /\ reserve' = reserve
      /\ roles' = roles /\ king' = king /\ latched' = latched
      /\ vuxFirst' = vuxFirst /\ sqrtP' = sqrtP /\ liquidity' = liquidity /\ held' = held
      /\ polPrincipal' = polPrincipal /\ ctx' = ctx /\ op' = op /\ earned' = earned /\ moves' = moves
  BY DEF ClosingSelfVerification, Goes, position, pool, treasury
<1>2. phase' = IF BootstrapEconomics THEN "launched" ELSE "aborted"
  <2>1. reserve = [weth |-> params.b0, vux |-> GENESIS_RESERVE_SEED] /\ deployer.vux = 0
    <3>1. reserve.weth = params.b0 /\ reserve.vux = GENESIS_RESERVE_SEED /\ deployer.vux = 0
      BY <1>1 DEF LaunchInv, Located, AfterCore, AfterPool, AfterMint
    <3> QED BY <3>1, Figures
  <2>2. /\ liquidity # 0 /\ latched /\ king = "reserve" /\ roles = {"safe"}
        /\ sqrtP = params.sqrtP0X96
    BY <1>1 DEF LaunchInv, Witnesses, PriceStands, Fresh, AfterCore, AfterPool, AfterMint
  <2> QED BY <2>1, <2>2 DEF ClosingSelfVerification, Goes
<1>3. ChecksPassed'
  BY <1>1, <1>2, InputsStay, AcceptableIs
  DEF LaunchInv, ChecksPassed, AfterMint, AfterPool, AfterCore, AfterWrap
<1>4. Witnesses'
  BY <1>1, <1>2 DEF LaunchInv, Witnesses, AfterPool, AfterCore, AfterMint
<1>5. PriceStands'
  BY <1>1, <1>2 DEF LaunchInv, PriceStands, Fresh, AfterPool, AfterMint
<1>6. Provisioned'
  <2>1. Within(ChargeFor(liquidity), polPrincipal)' <=> Within(ChargeFor(liquidity), polPrincipal)
    BY <1>1 DEF ChargeFor, PairVuxWeth, Reached
  <2> QED BY <1>1, <1>2, <2>1 DEF LaunchInv, Provisioned, Fresh, AfterMint
<1>7. Conserved'
  BY <1>1, <1>2 DEF LaunchInv, Conserved, Fresh, AfterCore, AfterPool, AfterMint
<1>8. Located'
  BY <1>1, <1>2 DEF LaunchInv, Located, AfterCore, AfterPool, AfterMint
<1> QED BY <1>3, <1>4, <1>5, <1>6, <1>7, <1>8 DEF LaunchInv

-----------------------------------------------------------------------------
\* After the launch: a step that nobody counts as a move is a withdrawal or a harvest.
LEMMA LiveStepKinds ==
  ASSUME IInv, LaunchInv, Live
  PROVE  /\ phase = "launched" /\ UNCHANGED launch /\ vuxFirst' = vuxFirst
         /\ moves' = moves \/ moves' = moves + 1
         /\ moves' = 0 => \/ UNCHANGED <<sqrtP, liquidity, held, polPrincipal, op, earned>>
                          \/ \E l \in Lots : DecreasePol(l)
<1>1. phase = "launched" /\ UNCHANGED launch /\ moves \in Nat /\ (moves = 0 => op = NoOp)
  BY DEF Live, LaunchInv, PriceStands, Fresh
<1>2. op = NoOp => ctx = NoCtx /\ op.kind = "none"
  BY NoOpIsOperation DEF IInv, PositionInv, PaymentsAreCommitted
<1>3. CASE Inside
  <2>1. vuxFirst' = vuxFirst /\ moves' = moves
    BY <1>3 DEF Inside, MintCallback, SwapCallback, LiquidityAdded, VuxBought, Revert, Finish, pool
  <2>2. ctx.type # "none" \/ op.kind # "none" \/ op # NoOp
    BY <1>3 DEF Inside, MintCallback, SwapCallback, LiquidityAdded, VuxBought, Revert
  <2>3. op # NoOp
    BY <1>2, <2>2 DEF NoCtx
  <2> QED BY <1>1, <2>1, <2>3
<1>4. CASE Outside
  <2>1. CASE \/ Move /\ \E max \in Commitments : MintPolPosition(max) \/ IncreasePol(max)
             \/ Move /\ \E buy \in Buys : BuyVuxForPol(buy[1], buy[2])
    <3>1. vuxFirst' = vuxFirst /\ moves' = moves + 1
      BY <2>1 DEF Move, MintPolPosition, IncreasePol, AddLiquidity, BuyVuxForPol, Begin, pool
    <3> QED BY <1>1, <3>1
  <2>2. CASE \/ \E l \in Lots : GiveLiquidity(l)
             \/ \E price \in Prices, fees \in Fees : Trade(price, fees)
             \/ \E amounts \in Fees : Receive(amounts)
    <3>1. vuxFirst' = vuxFirst /\ moves' = moves + 1
      BY <2>2 DEF Move, GiveLiquidity, Trade, Receive, pool
    <3> QED BY <1>1, <3>1
  <2>3. CASE HarvestPol
    BY <1>1, <2>3 DEF HarvestPol, treasury
  <2>4. CASE \E l \in Lots : DecreasePol(l)
    BY <1>1, <2>4 DEF DecreasePol
  <2> QED BY <1>4, <2>1, <2>2, <2>3, <2>4 DEF Outside
<1> QED BY <1>3, <1>4 DEF Live

LEMMA LifeLaunches ==
  ASSUME IInv, LaunchInv, Live
  PROVE  LaunchInv'
<1>1. /\ phase = "launched" /\ phase' = "launched" /\ params' = params /\ donated' = donated
      /\ deployer' = deployer /\ reserve' = reserve
      /\ roles' = roles /\ king' = king /\ latched' = latched /\ vuxFirst' = vuxFirst
      /\ moves \in Nat /\ (moves' = moves \/ moves' = moves + 1)
  BY LiveStepKinds DEF launch, LaunchInv, PriceStands
<1>2. ASSUME moves' = 0
      PROVE  /\ moves = 0 /\ sqrtP' = sqrtP /\ op' = op /\ earned' = earned
             /\ liquidity' # 0 => Within(ChargeFor(liquidity), polPrincipal)'
             /\ held'[1] + polPrincipal'[1] = held[1] + polPrincipal[1]
             /\ held'[2] + polPrincipal'[2] = held[2] + polPrincipal[2]
  <2>1. moves = 0 /\ Fresh
    BY <1>1, <1>2 DEF Fresh
  <2>2. liquidity # 0 => Within(ChargeFor(liquidity), polPrincipal)
    BY <1>1, <2>1 DEF LaunchInv, Provisioned
  <2>3. CASE UNCHANGED <<sqrtP, liquidity, held, polPrincipal, op, earned>>
    BY <1>1, <2>1, <2>2, <2>3 DEF ChargeFor, PairVuxWeth, Reached
  <2>4. ASSUME NEW l \in Lots, DecreasePol(l)
        PROVE  /\ moves = 0 /\ sqrtP' = sqrtP /\ op' = op /\ earned' = earned
               /\ liquidity' # 0 => Within(ChargeFor(liquidity), polPrincipal)'
               /\ held'[1] + polPrincipal'[1] = held[1] + polPrincipal[1]
               /\ held'[2] + polPrincipal'[2] = held[2] + polPrincipal[2]
    <3>1. /\ 0 < l /\ l <= liquidity /\ liquidity' = liquidity - l
          /\ held' = Plus(held, PayoutFor(l)) /\ polPrincipal' = LessAtZero(polPrincipal, PayoutFor(l))
          /\ sqrtP' = sqrtP /\ op' = op /\ earned' = earned
      BY <2>4 DEF DecreasePol
    <3>2. /\ sqrtP \in Nat /\ vuxFirst \in BOOLEAN /\ liquidity \in Nat /\ polPrincipal \in Amounts
          /\ l \in Nat
      BY AmountsAssumption DEF IInv, PositionInv, PositionTypes
    <3>3. Within(ChargeFor(liquidity), polPrincipal)
      BY <2>2, <3>1, <3>2
    <3>4. /\ Within(ChargeFor(liquidity - l), LessAtZero(polPrincipal, PayoutFor(l)))
          /\ LessAtZero(polPrincipal, PayoutFor(l)) = Minus(polPrincipal, PayoutFor(l))
      BY <3>1, <3>2, <3>3, WithdrawalIsCovered
    <3>5. ChargeFor(liquidity)' = ChargeFor(liquidity - l)
      BY <1>1, <3>1 DEF ChargeFor, PairVuxWeth, Reached
    <3>6. PayoutFor(l) \in Amounts
      BY <3>2, PayoutsAreAmounts
    <3>7. /\ held'[1] + polPrincipal'[1] = held[1] + polPrincipal[1]
          /\ held'[2] + polPrincipal'[2] = held[2] + polPrincipal[2]
      BY <3>1, <3>4, <3>6, Figures DEF Plus, Minus, Amounts
    <3> QED BY <2>1, <3>1, <3>4, <3>5, <3>7
  <2> QED BY <1>2, <2>3, <2>4, LiveStepKinds
<1>3. ChecksPassed'
  BY <1>1, InputsStay
  DEF LaunchInv, ChecksPassed, AfterMint, AfterPool, AfterCore, AfterWrap
<1>4. Witnesses'
  BY <1>1 DEF LaunchInv, Witnesses, AfterPool, AfterCore, AfterMint
<1>5. PriceStands'
  BY <1>1, <1>2 DEF LaunchInv, PriceStands, Fresh, AfterPool, AfterMint
<1>6. Provisioned'
  BY <1>1, <1>2 DEF LaunchInv, Provisioned, Fresh, AfterMint
<1>7. Conserved'
  <2>1. /\ donated \in Nat /\ deployer.preSelf \in Nat /\ deployer.sanitized \in Nat
        /\ held'[1] \in Int /\ held'[2] \in Int /\ polPrincipal'[1] \in Int /\ polPrincipal'[2] \in Int
    <3>1. PositionInv'
      BY InsideKeeps, OutsideKeeps DEF Live, IInv
    <3> QED BY <3>1 DEF PositionInv, PositionTypes, Amounts, LaunchInv, Conserved
  <2>2. ASSUME Fresh'
        PROVE  /\ (deployer.weth + reserve.weth + held[2] + op.paid[2] + polPrincipal[2])'
                    = donated + params.value
               /\ (deployer.vux + held[1] + op.paid[1] + polPrincipal[1])' = GENESIS_POL_SUPPLY
    <3>1. moves = 0 /\ moves' = 0
      BY <1>2, <2>2 DEF Fresh
    <3>2. /\ deployer.weth + reserve.weth + held[2] + op.paid[2] + polPrincipal[2]
               = donated + params.value
          /\ deployer.vux + held[1] + op.paid[1] + polPrincipal[1] = GENESIS_POL_SUPPLY
      BY <1>1, <3>1 DEF LaunchInv, Conserved, Fresh, AfterCore, AfterPool, AfterMint
    <3>3. /\ op'.paid[1] = op.paid[1] /\ op'.paid[2] = op.paid[2]
          /\ held'[1] + polPrincipal'[1] = held[1] + polPrincipal[1]
          /\ held'[2] + polPrincipal'[2] = held[2] + polPrincipal[2]
      BY <1>2, <3>1
    <3>4. /\ op.paid[1] \in Nat /\ op.paid[2] \in Nat /\ deployer.weth \in Int /\ reserve.weth \in Nat
          /\ deployer.vux \in Nat /\ held[1] \in Nat /\ held[2] \in Nat
          /\ polPrincipal[1] \in Nat /\ polPrincipal[2] \in Nat
      BY Figures
    <3> QED BY ONLY <1>1, <2>1, <3>2, <3>3, <3>4
  <2> QED BY <1>1, <2>1, <2>2 DEF Conserved, AfterCore, AfterPool, AfterMint
<1>8. Located'
  BY <1>1 DEF LaunchInv, Located, AfterCore, AfterPool, AfterMint
<1> QED BY <1>3, <1>4, <1>5, <1>6, <1>7, <1>8 DEF LaunchInv

-----------------------------------------------------------------------------
LEMMA LaunchInit == Init => LaunchInv
<1> SUFFICES ASSUME Init PROVE LaunchInv
  OBVIOUS
<1>1. /\ phase = "founding" /\ params.sqrtP0X96 = Recorded(params)
      /\ deployer.weth = 0 /\ deployer.vux = 0 /\ deployer.preSelf = 0 /\ deployer.sanitized = 0
      /\ reserve.weth = 0 /\ reserve.vux = 0 /\ latched = FALSE /\ donated = 0
      /\ liquidity = 0 /\ moves = 0 /\ earned = Nothing /\ polPrincipal = Nothing /\ op = NoOp
      /\ held = Nothing
  BY DEF Init, PositionInit
<1>2. ChecksPassed /\ Witnesses
  BY <1>1 DEF ChecksPassed, Witnesses, AfterMint, AfterPool, AfterCore, AfterWrap
<1>3. PriceStands /\ Provisioned
  BY <1>1 DEF PriceStands, Provisioned, Fresh, AfterMint, AfterPool
<1>4. Conserved /\ Located
  BY <1>1, PaidOfNoOp DEF Conserved, Located, Fresh, AfterMint, AfterPool, AfterCore
<1> QED BY <1>2, <1>3, <1>4 DEF LaunchInv

LEMMA LaunchRests ==
  ASSUME LaunchInv, UNCHANGED vars
  PROVE  LaunchInv'
<1>1. /\ params' = params /\ donated' = donated /\ phase' = phase
      /\ deployer' = deployer /\ reserve' = reserve
      /\ roles' = roles /\ king' = king /\ latched' = latched
      /\ vuxFirst' = vuxFirst /\ sqrtP' = sqrtP /\ liquidity' = liquidity /\ held' = held
      /\ polPrincipal' = polPrincipal /\ ctx' = ctx /\ op' = op /\ earned' = earned /\ moves' = moves
  BY DEF vars, launch, position, pool, treasury
<1>2. ChecksPassed' /\ Witnesses' /\ PriceStands'
  BY <1>1, InputsStay DEF LaunchInv, ChecksPassed, Witnesses, PriceStands, Fresh
<1>3. Provisioned'
  BY <1>1 DEF LaunchInv, Provisioned, Fresh, ChargeFor, PairVuxWeth, Reached
<1>4. Conserved' /\ Located'
  BY <1>1 DEF LaunchInv, Conserved, Located, Fresh
<1> QED BY <1>2, <1>3, <1>4 DEF LaunchInv

LEMMA LaunchStep == IInv /\ LaunchInv /\ [Next]_vars => LaunchInv'
<1> SUFFICES ASSUME IInv, LaunchInv, [Next]_vars PROVE LaunchInv'
  OBVIOUS
<1>1. ASSUME NEW to \in {"deployer", "reserve", "treasury"}, Donate(to) PROVE LaunchInv'
  BY <1>1, DonationLaunches
<1>2. CASE SnapshotAndWrap \/ DeployCore \/ DeployAndVerifyCanonicalPool
  BY <1>2, WrapLaunches, CoreLaunches, PoolLaunches
<1>3. CASE DeployTreasuryAndLens \/ SendProvision
  BY <1>3, TreasuryLaunches, ProvisionLaunches
<1>4. CASE ProvisionPol
  BY <1>4, MintOpensLaunches, MintPaysLaunches, MintClosesLaunches DEF ProvisionPol
<1>5. CASE PolMintFails
  BY <1>5, MintFailsLaunches
<1>6. CASE FundReserve \/ HandOffAndSweep \/ ClosingSelfVerification
  BY <1>6, FundingLaunches, HandOffLaunches, VerificationLaunches
<1>7. CASE Live
  BY <1>7, LifeLaunches
<1>8. CASE UNCHANGED vars
  BY <1>8, LaunchRests
<1> QED BY <1>1, <1>2, <1>3, <1>4, <1>5, <1>6, <1>7, <1>8 DEF Next, Launch

\* Acceptable inputs, and no others, end in a launch, whatever was donated ahead of it
\* and in either order of the tokens; its figures are exact to the unit and stay so
\* through every withdrawal until somebody trades, and the price it opened at is the
\* recorded one to the last unit of its square root.
THEOREM LaunchAlwaysIsExact == Spec => []LaunchIsExact
<1>1. Init => LaunchInv
  BY LaunchInit
<1>2. IInv /\ LaunchInv /\ [Next]_vars => LaunchInv'
  BY LaunchStep
<1>3. IInv /\ LaunchInv => LaunchIsExact
  <2> SUFFICES ASSUME IInv, LaunchInv PROVE LaunchIsExact
    OBVIOUS
  <2>1. phase = "aborted" => ~Acceptable
    BY DEF LaunchInv, ChecksPassed
  <2>2. phase = "launched" => Acceptable
    BY AcceptableIs DEF LaunchInv, ChecksPassed, AfterWrap, AfterCore, AfterPool, AfterMint
  <2>3. ASSUME phase = "launched", moves = 0
        PROVE  /\ reserve.weth = params.b0 /\ deployer.weth = 0
               /\ held[2] + polPrincipal[2] = params.wPol + donated
               /\ held[1] + polPrincipal[1] + reserve.vux = S0
    <3>1. Fresh /\ op = NoOp
      BY <2>3 DEF LaunchInv, PriceStands, Fresh
    <3>2. /\ reserve.weth = params.b0 /\ deployer.weth = 0 /\ deployer.vux = 0
          /\ reserve.vux = GENESIS_RESERVE_SEED /\ params.value = params.wPol + params.b0
      BY <2>3 DEF LaunchInv, Located, ChecksPassed, AfterWrap, AfterCore, AfterPool, AfterMint
    <3>3. /\ deployer.weth + reserve.weth + held[2] + op.paid[2] + polPrincipal[2]
               = donated + params.value
          /\ deployer.vux + held[1] + op.paid[1] + polPrincipal[1] = GENESIS_POL_SUPPLY
          /\ donated \in Nat
      BY <2>3, <3>1 DEF LaunchInv, Conserved, AfterCore, AfterPool, AfterMint
    <3>4. op.paid[1] = 0 /\ op.paid[2] = 0
      BY <3>1, PaidOfNoOp
    <3>5. /\ held[1] \in Nat /\ held[2] \in Nat /\ polPrincipal[1] \in Nat /\ polPrincipal[2] \in Nat
          /\ params.b0 \in Nat /\ params.wPol \in Nat
          /\ GENESIS_POL_SUPPLY \in Nat /\ GENESIS_RESERVE_SEED \in Nat
      BY Figures
    <3>6. S0 = GENESIS_POL_SUPPLY + GENESIS_RESERVE_SEED
      BY DEF S0
    <3>7. held[2] + polPrincipal[2] = params.wPol + donated
      BY <3>2, <3>3, <3>4, <3>5
    <3>8. held[1] + polPrincipal[1] + reserve.vux = S0
      BY <3>2, <3>3, <3>4, <3>5, <3>6
    <3> QED BY <3>2, <3>7, <3>8
  <2>4. ASSUME phase = "launched", moves = 0
        PROVE  IF vuxFirst THEN WithinOneUlp(params.p0Num, params.p0Den, sqrtP)
                           ELSE WithinOneUlp(params.p0Den, params.p0Num, sqrtP)
    <3>1. sqrtP = Recorded(params)
      BY <2>4 DEF LaunchInv, PriceStands, Fresh, ChecksPassed, AfterPool, AfterMint
    <3>2. params.p0Num \in Nat \ {0} /\ params.p0Den \in Nat \ {0}
      BY GenesisAssumption DEF IInv, LaunchTypes
    <3>3. /\ WithinOneUlp(params.p0Num, params.p0Den, EncodeSqrtP0(params.p0Num, params.p0Den))
          /\ WithinOneUlp(params.p0Den, params.p0Num, EncodeSqrtP0(params.p0Den, params.p0Num))
      BY <3>2, EncodingIsWithinOneUlp
    <3> QED BY <3>1, <3>3 DEF Recorded
  <2> QED BY <2>1, <2>2, <2>3, <2>4 DEF LaunchIsExact
<1> QED
  BY <1>1, <1>2, <1>3, PositionInvariant, PTL DEF Spec
=============================================================================
