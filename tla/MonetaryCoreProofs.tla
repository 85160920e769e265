------------------------- MODULE MonetaryCoreProofs -------------------------
(***************************************************************************)
(* Proofs about the monetary core and the lens, for any finite set of      *)
(* users and every value of its parameters.  First the arithmetic the      *)
(* settlement and the redemption rest on, then what each transaction does  *)
(* to balances and supply, then the inductive invariant and the theorems.  *)
(***************************************************************************)
EXTENDS Lens, FiniteSums

-----------------------------------------------------------------------------
(***************************************************************************)
(* Division.                                                               *)
(***************************************************************************)
LEMMA FloorBounds ==
  ASSUME NEW n \in Nat, NEW c \in Nat \ {0}
  PROVE  /\ n \div c \in Nat
         /\ c * (n \div c) <= n
         /\ n < c * (n \div c) + c
OBVIOUS

LEMMA FloorAtLeast ==
  ASSUME NEW n \in Nat, NEW k \in Nat, NEW c \in Nat \ {0}, c * k <= n
  PROVE  k <= n \div c
OBVIOUS

LEMMA FloorMonotone ==
  ASSUME NEW n \in Nat, NEW m \in Nat, NEW c \in Nat \ {0}, n <= m
  PROVE  n \div c <= m \div c
OBVIOUS

LEMMA FloorNotAbove ==
  ASSUME NEW n \in Nat, NEW c \in Nat \ {0}
  PROVE  n \div c <= n
OBVIOUS

LEMMA CeilBounds ==
  ASSUME NEW n \in Nat, NEW c \in Nat \ {0}
  PROVE  /\ (n + c - 1) \div c \in Nat
         /\ n <= c * ((n + c - 1) \div c)
OBVIOUS

LEMMA ProductType ==
  ASSUME NEW a \in Nat, NEW b \in Nat
  PROVE  a * b \in Nat
OBVIOUS

LEMMA ProductMonotone ==
  ASSUME NEW a \in Nat, NEW b \in Nat, NEW c \in Nat, a <= b
  PROVE  a * c <= b * c /\ c * a <= c * b
OBVIOUS

\* A power of two counts the subsets of a set of that size.
LEMMA PowerOfTwo ==
  ASSUME NEW h \in Nat
  PROVE  2^h \in Nat \ {0}
<1>1. IsFiniteSet(1..h) /\ Cardinality(1..h) = h
  BY FS_Interval
<1>2. IsFiniteSet(SUBSET (1..h)) /\ Cardinality(SUBSET (1..h)) = 2^h
  BY <1>1, FS_SUBSET
<1>3. SUBSET (1..h) # {}
  OBVIOUS
<1> QED BY <1>2, <1>3, FS_CardinalityType, FS_EmptySet

-----------------------------------------------------------------------------
(***************************************************************************)
(* The settlement law.                                                     *)
(***************************************************************************)

\* Need is a natural number that covers the raw opportunity (rounded up).
LEMMA NeedCovers ==
  ASSUME NEW qRaw \in Nat, NEW b \in Nat, NEW s \in Nat \ {0}
  PROVE  /\ DNeed(qRaw, b, s) \in Nat
         /\ qRaw * b <= DNeed(qRaw, b, s) * s
<1>1. CASE qRaw = 0
  BY <1>1 DEF DNeed
<1>2. CASE qRaw # 0
  <2> DEFINE n == qRaw * b
             d == (n + s - 1) \div s
  <2>1. DNeed(qRaw, b, s) = d
    BY <1>2 DEF DNeed, MulDivCeil, MulDivUp
  <2>2. n \in Nat
    BY ProductType
  <2> HIDE DEF n
  <2>3. d \in Nat /\ n <= s * d
    BY <2>2, CeilBounds
  <2> HIDE DEF d
  <2>4. n <= d * s
    BY <2>3
  <2> QED BY <2>1, <2>3, <2>4 DEF n
<1> QED BY <1>1, <1>2

\* The three legs are naturals and exhaust the payment; a Strategic leg means
\* that the Hard leg met the need.
LEMMA LegsExhaustThePrice ==
  ASSUME NEW price \in Nat, NEW qRaw \in Nat, NEW b \in Nat, NEW s \in Nat \ {0},
         NEW legs, legs = Route(price, qRaw, b, s)
  PROVE  /\ legs.king \in Nat /\ legs.hard \in Nat /\ legs.strategic \in Nat
         /\ legs.king + legs.hard + legs.strategic = price
         /\ legs.strategic > 0 => legs.hard >= DNeed(qRaw, b, s)
<1>1. /\ KingLeg(price) \in Nat /\ KingLeg(price) <= price
      /\ HardFloor(price) \in Nat /\ HardFloor(price) <= Retained(price)
      /\ Retained(price) \in Nat /\ KingLeg(price) + Retained(price) = price
  BY DEF KingLeg, Retained, HardFloor, SPLIT_KING_BP, STRATEGIC_CAP_BP, BP_DENOM
<1>2. DNeed(qRaw, b, s) \in Nat
  BY NeedCovers
<1>3. /\ legs.king = KingLeg(price)
      /\ legs.hard = AtMost(Retained(price),
                            AtLeast(HardFloor(price), DNeed(qRaw, b, s)))
      /\ legs.strategic = Retained(price) - legs.hard
  BY DEF Route
<1> QED BY <1>1, <1>2, <1>3 DEF AtMost, AtLeast

\* What is minted is at most the opportunity and never dilutes the backing.
LEMMA MintIsBacked ==
  ASSUME NEW dR \in Nat, NEW s \in Nat, NEW b \in Nat \ {0}, NEW qRaw \in Nat
  PROVE  /\ QMint(dR, s, b, qRaw) \in Nat
         /\ QMint(dR, s, b, qRaw) <= qRaw
         /\ b * QMint(dR, s, b, qRaw) <= dR * s
<1> DEFINE n == dR * s
           q == n \div b
           m == QMint(dR, s, b, qRaw)
<1>1. n \in Nat
  BY ProductType
<1>2. m = AtMost(qRaw, q)
  BY DEF QMint, QSafe, MulDiv
<1> HIDE DEF n, m
<1>3. q \in Nat /\ b * q <= n
  BY <1>1, FloorBounds
<1> HIDE DEF q
<1>4. m \in Nat /\ m <= qRaw /\ m <= q
  BY <1>2, <1>3 DEF AtMost
<1>5. b * m <= b * q
  BY <1>3, <1>4, ProductMonotone
<1>6. b * m \in Nat /\ b * q \in Nat
  BY <1>3, <1>4, ProductType
<1>7. b * m <= n
  BY <1>1, <1>3, <1>5, <1>6
<1> QED BY <1>4, <1>7 DEF n, m

\* A contribution that meets the need mints the whole opportunity.
LEMMA NeedMetMintsAll ==
  ASSUME NEW qRaw \in Nat, NEW b \in Nat \ {0}, NEW s \in Nat \ {0}, NEW dR \in Nat,
         dR >= DNeed(qRaw, b, s)
  PROVE  QMint(dR, s, b, qRaw) = qRaw
<1> DEFINE need == DNeed(qRaw, b, s)
           n == dR * s
           q == n \div b
<1>1. need \in Nat /\ qRaw * b <= need * s
  BY NeedCovers
<1> HIDE DEF need
<1>2. need * s <= n
  BY <1>1, ProductMonotone DEF need
<1>3. n \in Nat /\ need * s \in Nat /\ b * qRaw \in Nat
  BY <1>1, ProductType
<1>4. b * qRaw <= n
  BY <1>1, <1>2, <1>3
<1>5. QMint(dR, s, b, qRaw) = AtMost(qRaw, q)
  BY DEF QMint, QSafe, MulDiv
<1> HIDE DEF n
<1>6. qRaw <= q /\ q \in Nat
  BY <1>3, <1>4, FloorAtLeast, FloorBounds
<1> HIDE DEF q
<1> QED BY <1>5, <1>6 DEF AtMost

\* A redemption that leaves the seed pays out less than the whole backing, and
\* at most its share.
LEMMA PayoutIsAShare ==
  ASSUME NEW b \in Nat \ {0}, NEW s \in Nat \ {0}, NEW q \in Nat, q < s
  PROVE  /\ Payout(b, q, s) \in Nat
         /\ Payout(b, q, s) < b
         /\ Payout(b, q, s) * s <= b * q
<1> DEFINE n == b * q
           w == n \div s
<1>1. n \in Nat
  BY ProductType
<1>2. n < b * s
  OBVIOUS
<1>3. Payout(b, q, s) = w
  BY DEF Payout, MulDiv
<1> HIDE DEF n
<1>4. w \in Nat /\ s * w <= n
  BY <1>1, FloorBounds
<1> HIDE DEF w
<1>5. w < b
  BY <1>1, <1>2, <1>4
<1>6. w * s <= n
  BY <1>4
<1> QED BY <1>3, <1>4, <1>5, <1>6 DEF n

-----------------------------------------------------------------------------
(***************************************************************************)
(* Balances.                                                               *)
(***************************************************************************)
LEMMA AccountsFinite == IsFiniteSet(Accounts)
<1>1. IsFiniteSet({Reserve, Treasury, Pool, RigAddress})
  <2>1. IsFiniteSet({}) BY FS_EmptySet
  <2>2. IsFiniteSet({Reserve}) BY FS_Singleton
  <2>3. IsFiniteSet({Reserve} \cup {Treasury}) BY <2>2, FS_AddElement
  <2>4. IsFiniteSet(({Reserve} \cup {Treasury}) \cup {Pool}) BY <2>3, FS_AddElement
  <2>5. IsFiniteSet((({Reserve} \cup {Treasury}) \cup {Pool}) \cup {RigAddress})
    BY <2>4, FS_AddElement
  <2>6. {Reserve, Treasury, Pool, RigAddress}
          = (({Reserve} \cup {Treasury}) \cup {Pool}) \cup {RigAddress}
    OBVIOUS
  <2> QED BY <2>5, <2>6
<1> QED BY <1>1, AccountsAssumption, FS_Union DEF Accounts

\* A covered transfer moves the amount and keeps the total, to oneself too.
LEMMA TransferMoves ==
  ASSUME NEW f \in [Accounts -> Nat], NEW from \in Accounts, NEW to \in Accounts,
         NEW amount \in Nat, amount <= f[from]
  PROVE  /\ Transfer(f, from, to, amount) \in [Accounts -> Nat]
         /\ SumFunction(Transfer(f, from, to, amount)) = SumFunction(f)
         /\ from = to => Transfer(f, from, to, amount) = f
         /\ from # to => /\ Transfer(f, from, to, amount)[from] = f[from] - amount
                         /\ Transfer(f, from, to, amount)[to] = f[to] + amount
         /\ \A a \in Accounts \ {from, to} : Transfer(f, from, to, amount)[a] = f[a]
<1> DEFINE g == [f EXCEPT ![from] = @ - amount]
           h == Transfer(f, from, to, amount)
<1>1. /\ g \in [Accounts -> Nat] /\ g[from] = f[from] - amount
      /\ \A a \in Accounts \ {from} : g[a] = f[a]
  OBVIOUS
<1>2. h = [g EXCEPT ![to] = @ + amount]
  BY DEF Transfer
<1> HIDE DEF g, h
<1>3. /\ h \in [Accounts -> Nat] /\ h[to] = g[to] + amount
      /\ \A a \in Accounts \ {to} : h[a] = g[a]
  BY <1>1, <1>2
<1>4. SumFunction(g) = SumFunction(f) - f[from] + g[from]
  BY <1>1, AccountsFinite, TotalUpdate
<1>5. SumFunction(h) = SumFunction(g) - g[to] + h[to]
  BY <1>1, <1>3, AccountsFinite, TotalUpdate
<1>6. SumFunction(f) \in Nat /\ SumFunction(g) \in Nat
  BY <1>1, AccountsFinite, TotalType
<1>7. f[from] \in Nat /\ g[to] \in Nat /\ f[to] \in Nat
  BY <1>1
<1>8. SumFunction(h) = SumFunction(f)
  BY <1>1, <1>3, <1>4, <1>5, <1>6, <1>7
<1>9. from = to => h = f
  <2> SUFFICES ASSUME from = to PROVE h = f
    OBVIOUS
  <2>1. \A a \in Accounts : h[a] = f[a]
    BY <1>1, <1>3, <1>7
  <2> QED BY <2>1, <1>3
<1>10. from # to => h[from] = f[from] - amount /\ h[to] = f[to] + amount
  BY <1>1, <1>3
<1>11. \A a \in Accounts \ {from, to} : h[a] = f[a]
  BY <1>1, <1>3
<1> QED BY <1>3, <1>8, <1>9, <1>10, <1>11 DEF h

\* A mint (or, with a negative amount, a burn) to one account.
Credit(f, a, amount) == [f EXCEPT ![a] = @ + amount]

\* It moves the total by what it writes.
LEMMA CreditMoves ==
  ASSUME NEW f \in [Accounts -> Nat], NEW a \in Accounts, NEW amount \in Int,
         f[a] + amount \in Nat
  PROVE  /\ Credit(f, a, amount) \in [Accounts -> Nat]
         /\ SumFunction(Credit(f, a, amount)) = SumFunction(f) + amount
         /\ Credit(f, a, amount)[a] = f[a] + amount
         /\ \A x \in Accounts \ {a} : Credit(f, a, amount)[x] = f[x]
<1> DEFINE h == Credit(f, a, amount)
<1>1. /\ h \in [Accounts -> Nat] /\ h[a] = f[a] + amount
      /\ \A x \in Accounts \ {a} : h[x] = f[x]
  BY DEF Credit
<1> HIDE DEF h
<1>2. SumFunction(h) = SumFunction(f) - f[a] + h[a]
  BY <1>1, AccountsFinite, TotalUpdate
<1>3. SumFunction(f) \in Nat /\ f[a] \in Nat
  BY AccountsFinite, TotalType
<1> QED BY <1>1, <1>2, <1>3 DEF h

-----------------------------------------------------------------------------
(***************************************************************************)
(* The inductive invariant.  The supply has to be the sum of the balances  *)
(* for the seed to be uncirculated: a burn or a redemption of q units by   *)
(* another account leaves the Reserve's unit in the total.  The seed and   *)
(* the backing have to be positive for the divisions to be defined, and a  *)
(* single bootstrap keeps the King leg out of the Reserve's balance from   *)
(* then on.                                                                *)
(***************************************************************************)
ClockRuns == GENESIS_TIME <= now

IInv ==
  /\ TypeOK
  /\ SupplyIsComplete
  /\ ReserveNeverDrains
  /\ OneBootstrap
  /\ ClockRuns

\* What the settlement at hand routes, delivers to the Reserve and mints.
Legs         == Route(CurrentPrice, QRaw, weth[Reserve], totalSupply)
Contribution == HardContribution(Legs)
Issued       == QMint(Contribution, totalSupply, weth[Reserve], QRaw)

LEMMA RateType ==
  ASSUME TypeOK, OneBootstrap
  PROVE  CurrentUPS \in 0..INITIAL_UPS
<1>1. INITIAL_UPS \in Nat /\ HALVING_PERIOD \in Nat \ {0} /\ MAX_HALVINGS \in Nat
  BY ScheduleAssumption
<1>2. ASSUME NEW h \in Nat
      PROVE  INITIAL_UPS \div 2^h \in 0..INITIAL_UPS
  <2>1. 2^h \in Nat \ {0}
    BY PowerOfTwo
  <2> DEFINE c == 2^h
  <2>2. c \in Nat \ {0}
    BY <2>1
  <2> HIDE DEF c
  <2>3. INITIAL_UPS \div c \in Nat /\ INITIAL_UPS \div c <= INITIAL_UPS
    BY <2>2, <1>1, FloorBounds, FloorNotAbove
  <2> QED BY <2>3, <1>1 DEF c
<1>3. CASE scheduleStart = 0
  BY <1>1, <1>3 DEF CurrentUPS
<1>4. CASE scheduleStart # 0
  <2> DEFINE t == now - scheduleStart
             k == t \div HALVING_PERIOD
             h == AtMost(k, MAX_HALVINGS)
  <2>1. t \in Nat
    BY DEF TypeOK, OneBootstrap
  <2>2. CurrentUPS = INITIAL_UPS \div 2^h
    BY <1>4 DEF CurrentUPS, UPSAfter
  <2> HIDE DEF t
  <2>3. k \in Nat
    BY <2>1, <1>1, FloorBounds
  <2> HIDE DEF k
  <2>4. h \in Nat
    BY <2>3, <1>1 DEF AtMost
  <2> HIDE DEF h
  <2> QED BY <2>2, <2>4, <1>2
<1> QED BY <1>3, <1>4

LEMMA PriceType ==
  ASSUME TypeOK, OneBootstrap
  PROVE  CurrentPrice \in Nat
<1> DEFINE n == epochOpening * Elapsed
           d == n \div EPOCH_PERIOD
<1>1. /\ EPOCH_PERIOD \in Nat \ {0} /\ DECAY_FLOOR \in Nat
      /\ epochOpening \in Nat /\ Elapsed \in Nat
  BY ScheduleAssumption, OpeningAssumption DEF TypeOK, OneBootstrap, Elapsed
<1>2. n \in Nat
  BY <1>1, ProductType
<1>3. CurrentPrice = IF Elapsed >= EPOCH_PERIOD THEN DECAY_FLOOR
                     ELSE AtLeast(DECAY_FLOOR, epochOpening - d)
  BY DEF CurrentPrice, DutchPrice
<1> HIDE DEF n
<1>4. d \in Nat
  BY <1>1, <1>2, FloorBounds
<1> HIDE DEF d
<1> QED BY <1>1, <1>3, <1>4 DEF AtLeast

LEMMA OpportunityType ==
  ASSUME TypeOK, OneBootstrap
  PROVE  QRaw \in Nat
<1> DEFINE t == AtMost(Elapsed, EPOCH_PERIOD)
<1>1. t \in Nat /\ epochUPS \in Nat
  BY ScheduleAssumption DEF TypeOK, OneBootstrap, Elapsed, AtMost
<1>2. QRaw = IF Bootstrap THEN 0 ELSE t * epochUPS
  BY DEF QRaw
<1> HIDE DEF t
<1> QED BY <1>1, <1>2, ProductType

\* The numbers of a settlement: they are naturals, the legs exhaust the price,
\* the mint is backed by the contribution.
LEMMA SettlementNumbers ==
  ASSUME IInv
  PROVE  /\ CurrentPrice \in Nat /\ QRaw \in Nat
         /\ Legs.king \in Nat /\ Legs.hard \in Nat /\ Legs.strategic \in Nat
         /\ Legs.king + Legs.hard + Legs.strategic = CurrentPrice
         /\ Contribution \in Nat /\ Issued \in Nat
         /\ Issued <= QRaw
         /\ weth[Reserve] * Issued <= Contribution * totalSupply
         /\ Legs.strategic > 0 => Issued = QRaw
<1>1. CurrentPrice \in Nat /\ QRaw \in Nat
  BY PriceType, OpportunityType DEF IInv
<1>2. weth[Reserve] \in Nat \ {0} /\ totalSupply \in Nat \ {0}
  BY DEF IInv, TypeOK, ReserveNeverDrains, S_MIN, Accounts
<1>3. /\ Legs.king \in Nat /\ Legs.hard \in Nat /\ Legs.strategic \in Nat
      /\ Legs.king + Legs.hard + Legs.strategic = CurrentPrice
      /\ Legs.strategic > 0 => Legs.hard >= DNeed(QRaw, weth[Reserve], totalSupply)
  BY <1>1, <1>2, LegsExhaustThePrice DEF Legs
<1>4. Contribution \in Nat /\ Contribution >= Legs.hard
  BY <1>3 DEF Contribution, HardContribution
<1>5. /\ Issued \in Nat /\ Issued <= QRaw
      /\ weth[Reserve] * Issued <= Contribution * totalSupply
  BY <1>1, <1>2, <1>4, MintIsBacked DEF Issued
<1>6. Legs.strategic > 0 => Issued = QRaw
  <2> SUFFICES ASSUME Legs.strategic > 0 PROVE Issued = QRaw
    OBVIOUS
  <2>1. DNeed(QRaw, weth[Reserve], totalSupply) \in Nat
    BY <1>1, <1>2, NeedCovers
  <2>2. Contribution >= DNeed(QRaw, weth[Reserve], totalSupply)
    BY <1>3, <1>4, <2>1
  <2> QED BY <1>1, <1>2, <1>4, <2>2, NeedMetMintsAll DEF Issued
<1> QED BY <1>1, <1>3, <1>4, <1>5, <1>6

-----------------------------------------------------------------------------
(***************************************************************************)
(* What each transaction does to the balances.                             *)
(***************************************************************************)
LEMMA Members ==
  /\ Reserve \in Accounts /\ Treasury \in Accounts
  /\ RigAddress \in Accounts /\ Users \subseteq Accounts
  /\ Senders \subseteq Accounts /\ Reserve \notin Senders /\ RigAddress \notin Senders
  /\ Reserve # Treasury /\ Reserve # RigAddress /\ Treasury # RigAddress
BY AccountsAssumption DEF Accounts, Senders

\* The WETH legs of a settlement: everything the contender paid has left the
\* Rig, and the Reserve holds exactly its contribution more.
LEMMA TakeMovesWeth ==
  ASSUME IInv, NEW p \in Users, NEW maxPrice, Take(p, maxPrice)
  PROVE  /\ weth' \in [Accounts -> Nat]
         /\ SumFunction(weth') = SumFunction(weth)
         /\ weth'[Reserve] = weth[Reserve] + Contribution
         /\ weth'[RigAddress] = weth[RigAddress]
<1> DEFINE price == CurrentPrice
           strategic == Legs.strategic
           kingLeg == Legs.king
           hard == Contribution
           paid == Transfer(weth, p, RigAddress, price)
           toStrategic == Transfer(paid, RigAddress, Treasury, strategic)
           toHard == Transfer(toStrategic, RigAddress, Reserve, hard)
           toKing == Transfer(toHard, RigAddress, king, kingLeg)
<1>1. /\ price \in Nat /\ strategic \in Nat /\ kingLeg \in Nat /\ hard \in Nat
      /\ kingLeg + Legs.hard + strategic = price /\ Legs.hard \in Nat
  BY SettlementNumbers
<1>2. hard = IF Bootstrap THEN Legs.hard + kingLeg ELSE Legs.hard
  BY DEF Contribution, HardContribution
<1>3. weth' = (IF Bootstrap THEN toHard ELSE toKing) /\ weth[p] >= price
  BY DEF Take, Legs, Contribution
<1>4. /\ weth \in [Accounts -> Nat] /\ p \in Accounts /\ king \in Accounts
      /\ p \notin {Reserve, Treasury, RigAddress}
      /\ king \notin {Treasury, RigAddress} /\ (~Bootstrap => king # Reserve)
  BY Members, AccountsAssumption DEF IInv, TypeOK, Bootstrap
<1> HIDE DEF price, strategic, kingLeg, hard
<1>5. /\ paid \in [Accounts -> Nat] /\ SumFunction(paid) = SumFunction(weth)
      /\ paid[RigAddress] = weth[RigAddress] + price
      /\ paid[Reserve] = weth[Reserve]
  BY <1>1, <1>3, <1>4, Members, TransferMoves
<1> HIDE DEF paid
<1>6. /\ weth[RigAddress] \in Nat /\ weth[Reserve] \in Nat
      /\ strategic <= paid[RigAddress]
  BY <1>1, <1>4, <1>5, Members
<1>7. /\ toStrategic \in [Accounts -> Nat] /\ SumFunction(toStrategic) = SumFunction(weth)
      /\ toStrategic[RigAddress] = weth[RigAddress] + price - strategic
      /\ toStrategic[Reserve] = weth[Reserve]
  BY <1>1, <1>5, <1>6, Members, TransferMoves
<1> HIDE DEF toStrategic
<1>8. hard <= toStrategic[RigAddress]
  BY <1>1, <1>2, <1>6, <1>7
<1>9. /\ toHard \in [Accounts -> Nat] /\ SumFunction(toHard) = SumFunction(weth)
      /\ toHard[RigAddress] = weth[RigAddress] + price - strategic - hard
      /\ toHard[Reserve] = weth[Reserve] + hard
  <2>1. /\ toHard \in [Accounts -> Nat] /\ SumFunction(toHard) = SumFunction(toStrategic)
        /\ toHard[RigAddress] = toStrategic[RigAddress] - hard
        /\ toHard[Reserve] = toStrategic[Reserve] + hard
    BY <1>1, <1>7, <1>8, Members, TransferMoves
  <2> HIDE DEF toHard
  <2> QED BY <1>1, <1>6, <1>7, <2>1
<1> HIDE DEF toHard
<1>10. CASE Bootstrap
  BY <1>1, <1>2, <1>3, <1>6, <1>9, <1>10 DEF hard
<1>11. CASE ~Bootstrap
  <2>1. kingLeg <= toHard[RigAddress]
    BY <1>1, <1>2, <1>6, <1>9, <1>11
  <2>2. /\ toKing \in [Accounts -> Nat] /\ SumFunction(toKing) = SumFunction(weth)
        /\ toKing[RigAddress] = toHard[RigAddress] - kingLeg
        /\ toKing[Reserve] = toHard[Reserve]
    BY <1>1, <1>4, <1>9, <1>11, <2>1, Members, TransferMoves
  <2> HIDE DEF toKing
  <2> QED BY <1>1, <1>2, <1>3, <1>6, <1>9, <1>11, <2>2 DEF hard
<1> QED BY <1>10, <1>11

\* The mint of a settlement goes to the departing King, in balance and supply.
LEMMA TakeMintsVux ==
  ASSUME IInv, NEW p \in Users, NEW maxPrice, Take(p, maxPrice)
  PROVE  /\ vux' \in [Accounts -> Nat]
         /\ SumFunction(vux') = SumFunction(vux) + Issued
         /\ vux'[Reserve] >= vux[Reserve]
         /\ totalSupply' = totalSupply + Issued
         /\ minted' = minted + Issued
<1> DEFINE paid == Transfer(weth, p, RigAddress, CurrentPrice)
           toStrategic == Transfer(paid, RigAddress, Treasury, Legs.strategic)
           dR == Transfer(toStrategic, RigAddress, Reserve, Contribution)[Reserve]
                   - weth[Reserve]
<1>1. /\ dR = Contribution
      /\ LET q == QMint(dR, totalSupply, weth[Reserve], QRaw)
         IN  /\ vux' = Credit(vux, king, q)
             /\ totalSupply' = totalSupply + q
             /\ minted' = minted + q
  BY DEF Take, Legs, Contribution, Credit
<1> HIDE DEF dR
<1>2. /\ vux' = Credit(vux, king, Issued)
      /\ totalSupply' = totalSupply + Issued
      /\ minted' = minted + Issued
  BY <1>1 DEF Issued
<1>3. Issued \in Nat /\ king \in Accounts /\ vux \in [Accounts -> Nat]
  BY SettlementNumbers, Members DEF IInv, TypeOK
<1>4. vux[king] + Issued \in Nat /\ vux[Reserve] \in Nat
  BY <1>3, Members
<1>5. /\ Credit(vux, king, Issued) \in [Accounts -> Nat]
      /\ SumFunction(Credit(vux, king, Issued)) = SumFunction(vux) + Issued
      /\ Credit(vux, king, Issued)[king] = vux[king] + Issued
      /\ \A x \in Accounts \ {king} : Credit(vux, king, Issued)[x] = vux[x]
  BY <1>3, <1>4, CreditMoves
<1>6. vux'[Reserve] >= vux[Reserve]
  BY <1>2, <1>3, <1>4, <1>5, Members
<1> QED BY <1>2, <1>5, <1>6

\* A burn by an account other than the Reserve leaves the seed in the supply.
LEMMA BurnLeavesTheSeed ==
  ASSUME IInv, NEW p \in Users \cup {Treasury}, NEW q \in Nat, vux[p] >= q,
         vux' = [vux EXCEPT ![p] = @ - q], totalSupply' = totalSupply - q
  PROVE  /\ vux' \in [Accounts -> Nat]
         /\ SumFunction(vux') = totalSupply'
         /\ vux'[Reserve] = vux[Reserve]
         /\ totalSupply' \in Nat /\ totalSupply' >= S_MIN
<1>1. vux' = Credit(vux, p, -q)
  <2>1. p \in Accounts /\ vux[p] \in Nat
    BY Members DEF IInv, TypeOK
  <2>2. vux[p] - q = vux[p] + (-q)
    BY <2>1
  <2> QED BY <2>2 DEF Credit
<1>2. /\ p \in Accounts /\ p # Reserve /\ vux \in [Accounts -> Nat]
      /\ -q \in Int /\ vux[p] + (-q) \in Nat
      /\ vux[Reserve] \in Nat /\ vux[Reserve] >= 1
      /\ SumFunction(vux) = totalSupply /\ totalSupply \in Nat
  BY Members, AccountsAssumption
     DEF IInv, TypeOK, ReserveNeverDrains, SupplyIsComplete, GENESIS_RESERVE_SEED
<1> DEFINE h == Credit(vux, p, -q)
<1>3. /\ h \in [Accounts -> Nat] /\ SumFunction(h) = SumFunction(vux) + (-q)
      /\ h[Reserve] = vux[Reserve]
  BY <1>2, Members, CreditMoves
<1> HIDE DEF h
<1>4. h[Reserve] <= SumFunction(h) /\ SumFunction(h) \in Nat
  BY <1>3, AccountsFinite, Members, TotalCovers, TotalType
<1>5. SumFunction(h) = totalSupply'
  BY <1>2, <1>3
<1>6. vux' = h
  BY <1>1 DEF h
<1>7. totalSupply' \in Nat /\ totalSupply' >= S_MIN
  BY <1>2, <1>3, <1>4, <1>5 DEF S_MIN
<1>8. vux' \in [Accounts -> Nat] /\ vux'[Reserve] = vux[Reserve]
  BY <1>3, <1>6, Zenon
<1>9. SumFunction(vux') = totalSupply'
  BY <1>5, <1>6, Zenon
<1> QED BY <1>7, <1>8, <1>9

\* A redemption pays at most the redeemer's share and never the last unit.
LEMMA RedeemPaysAShare ==
  ASSUME IInv, NEW p \in Users, NEW q \in Nat, NEW to \in Accounts, Redeem(p, q, to)
  PROVE  /\ weth' \in [Accounts -> Nat]
         /\ SumFunction(weth') = SumFunction(weth)
         /\ weth'[Reserve] > 0 /\ weth'[Reserve] <= weth[Reserve]
         /\ (weth[Reserve] - weth'[Reserve]) * totalSupply <= weth[Reserve] * q
         /\ totalSupply' = totalSupply - q
<1> DEFINE b == weth[Reserve]
           w == Payout(b, q, totalSupply)
<1>1. /\ b \in Nat \ {0} /\ totalSupply \in Nat \ {0} /\ q < totalSupply
      /\ weth \in [Accounts -> Nat]
  BY Members DEF Redeem, MaxRedeemable, S_MIN, IInv, TypeOK, ReserveNeverDrains
<1>2. w \in Nat /\ w < b /\ w * totalSupply <= b * q
  BY <1>1, PayoutIsAShare
<1>3. weth' = Transfer(weth, Reserve, to, w) /\ totalSupply' = totalSupply - q
  BY DEF Redeem
<1> HIDE DEF w
<1>4. /\ weth' \in [Accounts -> Nat] /\ SumFunction(weth') = SumFunction(weth)
      /\ weth'[Reserve] = IF to = Reserve THEN b ELSE b - w
  <2>1. w <= weth[Reserve]
    BY <1>1, <1>2
  <2> QED BY <1>1, <1>2, <1>3, <2>1, Members, TransferMoves
<1>5. weth'[Reserve] > 0 /\ weth'[Reserve] <= b
  BY <1>1, <1>2, <1>4
<1>6. (b - weth'[Reserve]) * totalSupply <= b * q
  <2>1. CASE to = Reserve
    <3>1. b - weth'[Reserve] = 0 /\ b * q \in Nat
      BY <1>1, <1>4, <2>1, ProductType
    <3> QED BY <1>1, <3>1
  <2>2. CASE to # Reserve
    <3>1. b - weth'[Reserve] = w
      BY <1>1, <1>2, <1>4, <2>2
    <3> QED BY <1>2, <3>1
  <2> QED BY <2>1, <2>2
<1> QED BY <1>3, <1>4, <1>5, <1>6

\* A plain transfer moves tokens of a sender, which the Reserve is not.
LEMMA SendMoves ==
  ASSUME NEW f \in [Accounts -> Nat], NEW move \in Senders \X Accounts,
         NEW amount \in Nat, f[move[1]] >= amount
  PROVE  /\ Transfer(f, move[1], move[2], amount) \in [Accounts -> Nat]
         /\ SumFunction(Transfer(f, move[1], move[2], amount)) = SumFunction(f)
         /\ Transfer(f, move[1], move[2], amount)[Reserve] >= f[Reserve]
<1> DEFINE from == move[1]
           to == move[2]
<1>1. from \in Accounts /\ to \in Accounts /\ from # Reserve
  BY Members
<1>2. f[from] \in Nat /\ f[Reserve] \in Nat
  BY <1>1, Members
<1> HIDE DEF from, to
<1>3. amount <= f[from]
  BY <1>2 DEF from
<1>4. /\ Transfer(f, from, to, amount) \in [Accounts -> Nat]
      /\ SumFunction(Transfer(f, from, to, amount)) = SumFunction(f)
      /\ Transfer(f, from, to, amount)[Reserve] >= f[Reserve]
  <2>1. CASE from = to
    BY <1>1, <1>2, <1>3, <2>1, TransferMoves
  <2>2. CASE from # to /\ to = Reserve
    BY <1>1, <1>2, <1>3, <2>2, TransferMoves
  <2>3. CASE from # to /\ to # Reserve
    BY <1>1, <1>2, <1>3, <2>3, TransferMoves, Members
  <2> QED BY <2>1, <2>2, <2>3
<1> QED BY <1>4 DEF from, to

-----------------------------------------------------------------------------
(***************************************************************************)
(* The invariant is inductive.                                             *)
(***************************************************************************)
LEMMA InitialSupply ==
  ASSUME Init
  PROVE  vux \in [Accounts -> Nat] /\ SumFunction(vux) = totalSupply
<1> DEFINE zero == [a \in Accounts |-> IF a \in {} THEN 0 ELSE 0]
           pol == [a \in Accounts |-> IF a = Pool THEN GENESIS_POL_SUPPLY ELSE 0]
<1>1. zero \in [Accounts -> Nat] /\ pol \in [Accounts -> Nat]
  BY GenesisAssumption
<1>2. SumFunction(zero) = 0
  <2>1. SumFunction(zero) = Cardinality({}) * 0
    BY AccountsFinite, TotalUniform, {} \in SUBSET Accounts, 0 \in Nat
  <2> HIDE DEF zero
  <2> QED BY <2>1, FS_EmptySet
<1>3. /\ vux \in [Accounts -> Nat] /\ vux[Reserve] = GENESIS_RESERVE_SEED
      /\ \A x \in Accounts \ {Reserve} : vux[x] = pol[x]
  <2>1. vux = [a \in Accounts |-> IF a = Reserve THEN 1
                                  ELSE IF a = Pool THEN GENESIS_POL_SUPPLY ELSE 0]
    BY DEF Init, GENESIS_RESERVE_SEED
  <2> QED BY <2>1, GenesisAssumption, Members DEF GENESIS_RESERVE_SEED
<1>4. /\ Pool \in Accounts /\ Pool # Reserve /\ Reserve \in Accounts
      /\ zero[Pool] = 0 /\ pol[Pool] = GENESIS_POL_SUPPLY /\ pol[Reserve] = 0
      /\ \A x \in Accounts \ {Pool} : pol[x] = zero[x]
  BY AccountsAssumption DEF Accounts
<1> HIDE DEF zero, pol
<1>5. SumFunction(pol) = SumFunction(zero) - zero[Pool] + pol[Pool]
  BY <1>1, <1>4, AccountsFinite, TotalUpdate
<1>6. SumFunction(vux) = SumFunction(pol) - pol[Reserve] + vux[Reserve]
  BY <1>1, <1>3, <1>4, AccountsFinite, TotalUpdate
<1>7. totalSupply = GENESIS_POL_SUPPLY + GENESIS_RESERVE_SEED
  BY DEF Init, S0
<1>8. SumFunction(vux) = totalSupply
  BY <1>2, <1>3, <1>4, <1>5, <1>6, <1>7, GenesisAssumption DEF GENESIS_RESERVE_SEED
<1> QED BY <1>3, <1>8

LEMMA InitIInv == Init => IInv
<1> SUFFICES ASSUME Init PROVE IInv
  OBVIOUS
<1>1. vux \in [Accounts -> Nat] /\ SupplyIsComplete
  BY InitialSupply DEF SupplyIsComplete
<1>2. weth \in [Accounts -> Nat]
  BY GenesisAssumption DEF Init
<1>3. TypeOK
  BY <1>1, <1>2, GenesisAssumption, ScheduleAssumption, OpeningAssumption
     DEF Init, TypeOK, S0, GENESIS_RESERVE_SEED
<1>4. ReserveNeverDrains
  BY Members, GenesisAssumption
     DEF Init, ReserveNeverDrains, S0, GENESIS_RESERVE_SEED, S_MIN
<1>5. OneBootstrap /\ ClockRuns
  BY ScheduleAssumption DEF Init, OneBootstrap, Bootstrap, ClockRuns
<1> QED BY <1>1, <1>3, <1>4, <1>5 DEF IInv

LEMMA TakeIInv ==
  ASSUME IInv, NEW p \in Users, NEW maxPrice, Take(p, maxPrice)
  PROVE  IInv'
<1>1. /\ weth' \in [Accounts -> Nat]
      /\ weth'[Reserve] = weth[Reserve] + Contribution
  BY TakeMovesWeth
<1>2. /\ vux' \in [Accounts -> Nat]
      /\ SumFunction(vux') = SumFunction(vux) + Issued
      /\ vux'[Reserve] >= vux[Reserve]
      /\ totalSupply' = totalSupply + Issued /\ minted' = minted + Issued
  BY TakeMintsVux
<1>3. /\ CurrentPrice \in Nat /\ Contribution \in Nat /\ Issued \in Nat
      /\ Legs.strategic \in Nat
  BY SettlementNumbers
<1>4. /\ totalStrategicContributed' = totalStrategicContributed + Legs.strategic
      /\ king' = p /\ epochStart' = now /\ epochUPS' = CurrentUPS
      /\ epochOpening' = SuccessorOpening(CurrentPrice, MINIMUM_OPENING, UINT192_MAX)
      /\ epochId' = epochId + 1 /\ scheduleStart' = ScheduleStartAfterTake
      /\ now' = now
  BY DEF Take, Legs
<1>5. TypeOK'
  <2>1. epochOpening' \in 0..UINT192_MAX
    BY <1>3, <1>4, OpeningAssumption
       DEF SuccessorOpening, AtLeast, PRICE_MULTIPLIER
  <2>2. epochUPS' \in 0..INITIAL_UPS
    BY <1>4, RateType DEF IInv
  <2>3. scheduleStart' \in Nat /\ epochStart' \in Nat /\ now' \in Nat
    BY <1>4 DEF IInv, TypeOK, ScheduleStartAfterTake
  <2>4. /\ totalSupply' \in Nat /\ minted' \in Nat /\ epochId' \in Nat
        /\ totalStrategicContributed' \in Nat
    BY <1>2, <1>3, <1>4 DEF IInv, TypeOK
  <2> QED BY <1>1, <1>2, <1>4, <2>1, <2>2, <2>3, <2>4 DEF TypeOK
<1>6. SupplyIsComplete'
  BY <1>2 DEF IInv, SupplyIsComplete
<1>7. ReserveNeverDrains'
  <2>1. /\ weth[Reserve] \in Nat /\ weth[Reserve] > 0
        /\ vux[Reserve] \in Nat /\ vux[Reserve] >= 1 /\ totalSupply \in Nat
        /\ totalSupply >= 1 /\ vux'[Reserve] \in Nat
    BY <1>2, Members
       DEF IInv, TypeOK, ReserveNeverDrains, GENESIS_RESERVE_SEED, S_MIN
  <2> QED BY <1>1, <1>2, <1>3, <2>1
          DEF ReserveNeverDrains, GENESIS_RESERVE_SEED, S_MIN
<1>8. OneBootstrap' /\ ClockRuns'
  <2>1. p # Reserve
    BY AccountsAssumption
  <2>2. /\ now \in Nat \ {0} /\ GENESIS_TIME <= now /\ epochId \in Nat
        /\ scheduleStart \in Nat /\ epochStart \in Nat
        /\ scheduleStart <= epochStart /\ epochStart <= now
        /\ Bootstrap <=> scheduleStart = 0
    BY ScheduleAssumption DEF IInv, TypeOK, OneBootstrap, ClockRuns
  <2> QED BY <1>4, <2>1, <2>2
          DEF OneBootstrap, ClockRuns, Bootstrap, ScheduleStartAfterTake
<1> QED BY <1>5, <1>6, <1>7, <1>8 DEF IInv

\* A step that leaves the throne and the clock alone keeps what it owes them.
LEMMA ThroneUntouched ==
  ASSUME IInv, UNCHANGED <<throne, now, minted>>,
         weth' \in [Accounts -> Nat], weth'[Reserve] > 0,
         vux' \in [Accounts -> Nat], vux'[Reserve] >= vux[Reserve],
         totalSupply' \in Nat, totalSupply' >= S_MIN, SumFunction(vux') = totalSupply'
  PROVE  IInv'
<1>1. TypeOK'
  BY DEF IInv, TypeOK, throne
<1>2. SupplyIsComplete'
  BY DEF SupplyIsComplete
<1>3. ReserveNeverDrains'
  <2>1. vux[Reserve] \in Nat /\ vux'[Reserve] \in Nat /\ vux[Reserve] >= 1
    BY Members DEF IInv, TypeOK, ReserveNeverDrains, GENESIS_RESERVE_SEED
  <2> QED BY <2>1 DEF ReserveNeverDrains, GENESIS_RESERVE_SEED
<1>4. OneBootstrap' /\ ClockRuns'
  BY DEF IInv, OneBootstrap, ClockRuns, Bootstrap, throne
<1> QED BY <1>1, <1>2, <1>3, <1>4 DEF IInv

LEMMA StepIInv == IInv /\ [Next]_vars => IInv'
<1> SUFFICES ASSUME IInv, [Next]_vars PROVE IInv'
  OBVIOUS
<1>0. /\ weth \in [Accounts -> Nat] /\ vux \in [Accounts -> Nat]
      /\ weth[Reserve] \in Nat /\ weth[Reserve] > 0
      /\ vux[Reserve] \in Nat
      /\ totalSupply \in Nat /\ totalSupply >= S_MIN
      /\ SumFunction(vux) = totalSupply
      /\ Amounts \subseteq Nat /\ Recipients \subseteq Accounts
      /\ WethMoves \subseteq Senders \X Accounts /\ VuxMoves \subseteq Senders \X Accounts
  BY Members, InputAssumption DEF IInv, TypeOK, ReserveNeverDrains, SupplyIsComplete
<1>1. CASE \E p \in Users, maxPrice \in MaxPrices : Take(p, maxPrice)
  BY <1>1, TakeIInv
<1>2. ASSUME NEW p \in Users, NEW q \in Amounts, NEW to \in Recipients, Redeem(p, q, to)
      PROVE  IInv'
  <2>1. weth' \in [Accounts -> Nat] /\ weth'[Reserve] > 0
    BY <1>0, <1>2, RedeemPaysAShare
  <2>2. /\ vux' \in [Accounts -> Nat] /\ SumFunction(vux') = totalSupply'
        /\ vux'[Reserve] = vux[Reserve]
        /\ totalSupply' \in Nat /\ totalSupply' >= S_MIN
    <3>1. /\ vux[p] >= q /\ vux' = [vux EXCEPT ![p] = @ - q]
          /\ totalSupply' = totalSupply - q
      BY <1>2 DEF Redeem
    <3> QED BY <1>0, <3>1, BurnLeavesTheSeed
  <2>3. UNCHANGED <<throne, now, minted>>
    BY <1>2 DEF Redeem
  <2>4. vux'[Reserve] >= vux[Reserve]
    BY <1>0, <2>2
  <2> QED BY <2>1, <2>2, <2>3, <2>4, ThroneUntouched
<1>3. ASSUME NEW p \in Users \cup {Treasury}, NEW q \in Amounts, Burn(p, q)
      PROVE  IInv'
  <2>1. /\ vux[p] >= q /\ vux' = [vux EXCEPT ![p] = @ - q]
        /\ totalSupply' = totalSupply - q /\ weth' = weth
        /\ UNCHANGED <<throne, now, minted>>
    BY <1>3 DEF Burn
  <2>2. /\ vux' \in [Accounts -> Nat] /\ SumFunction(vux') = totalSupply'
        /\ vux'[Reserve] = vux[Reserve]
        /\ totalSupply' \in Nat /\ totalSupply' >= S_MIN
    BY <1>0, <2>1, BurnLeavesTheSeed
  <2>3. vux'[Reserve] >= vux[Reserve]
    BY <1>0, <2>2
  <2> QED BY <1>0, <2>1, <2>2, <2>3, ThroneUntouched
<1>4. ASSUME NEW move \in VuxMoves, NEW amount \in Amounts, SendVux(move, amount)
      PROVE  IInv'
  <2>1. /\ vux[move[1]] >= amount /\ vux' = Transfer(vux, move[1], move[2], amount)
        /\ weth' = weth /\ totalSupply' = totalSupply
        /\ UNCHANGED <<throne, now, minted>>
    BY <1>4 DEF SendVux
  <2>2. /\ vux' \in [Accounts -> Nat] /\ SumFunction(vux') = SumFunction(vux)
        /\ vux'[Reserve] >= vux[Reserve]
    BY <1>0, <2>1, SendMoves
  <2> QED BY <1>0, <2>1, <2>2, ThroneUntouched
<1>5. ASSUME NEW move \in WethMoves, NEW amount \in Amounts, SendWeth(move, amount)
      PROVE  IInv'
  <2>1. /\ weth[move[1]] >= amount /\ weth' = Transfer(weth, move[1], move[2], amount)
        /\ vux' = vux /\ totalSupply' = totalSupply
        /\ UNCHANGED <<throne, now, minted>>
    BY <1>5 DEF SendWeth
  <2>2. weth' \in [Accounts -> Nat] /\ weth'[Reserve] >= weth[Reserve]
    BY <1>0, <2>1, SendMoves
  <2>3. weth'[Reserve] > 0
    BY <1>0, <2>2, Members
  <2>4. vux'[Reserve] >= vux[Reserve]
    BY <1>0, <2>1
  <2> QED BY <1>0, <2>1, <2>2, <2>3, <2>4, ThroneUntouched
<1>6. ASSUME NEW seconds \in TimeSteps, Tick(seconds)
      PROVE  IInv'
  <2>1. seconds \in Nat /\ now' = now + seconds /\ UNCHANGED <<tokens, throne>>
    BY <1>6, InputAssumption DEF Tick
  <2>2. /\ now' \in Nat /\ now <= now' /\ now \in Nat /\ epochStart \in Nat
        /\ GENESIS_TIME \in Nat
    BY <2>1, ScheduleAssumption DEF IInv, TypeOK
  <2> QED BY <2>1, <2>2
          DEF IInv, TypeOK, SupplyIsComplete, ReserveNeverDrains, OneBootstrap,
              Bootstrap, ClockRuns, tokens, throne
<1>7. CASE UNCHANGED vars
  BY <1>7 DEF vars, tokens, throne, IInv, TypeOK, SupplyIsComplete,
              ReserveNeverDrains, OneBootstrap, Bootstrap, ClockRuns
<1> QED BY <1>1, <1>2, <1>3, <1>4, <1>5, <1>6, <1>7 DEF Next

THEOREM InductiveInvariant == Spec => []IInv
<1>1. Init => IInv
  BY InitIInv
<1>2. IInv /\ [Next]_vars => IInv'
  BY StepIInv
<1> QED BY <1>1, <1>2, PTL DEF Spec

\* Every balance and the supply are naturals and every cell of the throne stays
\* in its width: no transfer, payout or burn of the core can underflow.
THEOREM TypeCorrect == Spec => []TypeOK
<1>1. IInv => TypeOK
  BY DEF IInv
<1> QED BY <1>1, InductiveInvariant, PTL

\* The supply is the sum of the balances.
THEOREM SupplyIsAlwaysComplete == Spec => []SupplyIsComplete
<1>1. IInv => SupplyIsComplete
  BY DEF IInv
<1> QED BY <1>1, InductiveInvariant, PTL

\* The Reserve always holds WETH and the seed: its divisors are never zero.
THEOREM ReserveIsNeverDrained == Spec => []ReserveNeverDrains
<1>1. IInv => ReserveNeverDrains
  BY DEF IInv
<1> QED BY <1>1, InductiveInvariant, PTL

\* The bootstrap reign ends with the first settlement and does not come back.
THEOREM BootstrapHappensOnce == Spec => []OneBootstrap
<1>1. IInv => OneBootstrap
  BY DEF IInv
<1> QED BY <1>1, InductiveInvariant, PTL

-----------------------------------------------------------------------------
(***************************************************************************)
(* What one transaction does to backing and supply, in the terms of the    *)
(* abstract ledger.                                                        *)
(***************************************************************************)
LEMMA StepIsALedgerStep ==
  ASSUME IInv, [Next]_vars
  PROVE  [Ledger!Next]_<<weth[Reserve], totalSupply>>
<1> DEFINE b == weth[Reserve]
           bn == weth'[Reserve]
           s == totalSupply
           sn == totalSupply'
<1>0. /\ b \in Nat /\ b > 0 /\ s \in Nat /\ s >= 1 /\ bn \in Nat /\ sn \in Nat /\ sn >= 1
      /\ weth \in [Accounts -> Nat]
      /\ Amounts \subseteq Nat /\ Recipients \subseteq Accounts
      /\ WethMoves \subseteq Senders \X Accounts
  <2>1. IInv'
    BY StepIInv
  <2> QED BY <2>1, Members, InputAssumption DEF IInv, TypeOK, ReserveNeverDrains, S_MIN
<1>1. ASSUME NEW p \in Users, NEW maxPrice \in MaxPrices, Take(p, maxPrice)
      PROVE  Ledger!Next
  <2>1. bn = b + Contribution /\ sn = s + Issued
    BY <1>1, TakeMovesWeth, TakeMintsVux
  <2>2. Contribution \in Nat /\ Issued \in Nat /\ b * Issued <= Contribution * s
    BY SettlementNumbers
  <2> HIDE DEF b, bn, s, sn
  <2>3. bn >= b /\ sn >= s /\ b * (sn - s) <= (bn - b) * s
    <3>1. sn - s = Issued /\ bn - b = Contribution
      BY <1>0, <2>1, <2>2
    <3> QED BY <1>0, <2>1, <2>2, <3>1
  <2> QED BY <1>0, <2>3 DEF Ledger!Next, Ledger!Issue, b, bn, s, sn
<1>2. ASSUME NEW p \in Users, NEW q \in Amounts, NEW to \in Recipients, Redeem(p, q, to)
      PROVE  Ledger!Next
  <2>1. bn <= b /\ sn = s - q /\ (b - bn) * s <= b * q /\ q \in Nat
    BY <1>0, <1>2, RedeemPaysAShare
  <2> HIDE DEF b, bn, s, sn
  <2>2. s - sn = q /\ sn <= s
    BY <1>0, <2>1
  <2> QED BY <1>0, <2>1, <2>2 DEF Ledger!Next, Ledger!Exit, b, bn, s, sn
<1>3. ASSUME NEW p \in Users \cup {Treasury}, NEW q \in Amounts, Burn(p, q)
      PROVE  Ledger!Next
  <2>1. bn = b /\ sn = s - q /\ q \in Nat
    BY <1>0, <1>3 DEF Burn
  <2> HIDE DEF b, bn, s, sn
  <2>2. sn <= s
    BY <1>0, <2>1
  <2> QED BY <1>0, <2>1, <2>2 DEF Ledger!Next, Ledger!Destroy, b, bn, s, sn
<1>4. ASSUME NEW move \in VuxMoves, NEW amount \in Amounts, SendVux(move, amount)
      PROVE  UNCHANGED <<weth[Reserve], totalSupply>>
  BY <1>4 DEF SendVux
<1>5. ASSUME NEW move \in WethMoves, NEW amount \in Amounts, SendWeth(move, amount)
      PROVE  Ledger!Next
  <2>1. weth[move[1]] >= amount /\ weth' = Transfer(weth, move[1], move[2], amount) /\ sn = s
    BY <1>5 DEF SendWeth
  <2>2. bn >= b
    BY <1>0, <2>1, SendMoves
  <2> QED BY <1>0, <2>1, <2>2 DEF Ledger!Next, Ledger!Accrete
<1>6. ASSUME NEW seconds \in TimeSteps, Tick(seconds)
      PROVE  UNCHANGED <<weth[Reserve], totalSupply>>
  BY <1>6 DEF Tick, tokens
<1>7. CASE UNCHANGED vars
  BY <1>7 DEF vars, tokens
<1> QED BY <1>1, <1>2, <1>3, <1>4, <1>5, <1>6, <1>7 DEF Next

\* The core implements what it promises a holder.
THEOREM CoreImplementsLedger == Spec => ImplementsLedger
<1>1. Init => Ledger!Init
  BY DEF Init, Ledger!Init, Accounts
<1>2. IInv /\ [Next]_vars => [Ledger!Next]_<<weth[Reserve], totalSupply>>
  BY StepIsALedgerStep
<1> QED BY <1>1, <1>2, InductiveInvariant, PTL DEF Spec, ImplementsLedger, Ledger!Spec

\* A ledger step never leaves a unit with less backing.
LEMMA LedgerStepKeepsBacking ==
  ASSUME NEW b \in Nat, NEW bn \in Nat, NEW s \in Nat, NEW sn \in Nat,
         \/ bn >= b /\ sn >= s /\ b * (sn - s) <= (bn - b) * s
         \/ bn <= b /\ sn <= s /\ (b - bn) * s <= b * (s - sn)
         \/ bn >= b /\ sn <= s
  PROVE  bn * s >= b * sn
<1>1. CASE bn >= b /\ sn >= s /\ b * (sn - s) <= (bn - b) * s
  <2>1. b * (sn - s) = b * sn - b * s /\ (bn - b) * s = bn * s - b * s
    OBVIOUS
  <2>2. b * sn \in Nat /\ b * s \in Nat /\ bn * s \in Nat
    BY ProductType
  <2> QED BY <1>1, <2>1, <2>2
<1>2. CASE bn <= b /\ sn <= s /\ (b - bn) * s <= b * (s - sn)
  <2>1. b * (s - sn) = b * s - b * sn /\ (b - bn) * s = b * s - bn * s
    OBVIOUS
  <2>2. b * sn \in Nat /\ b * s \in Nat /\ bn * s \in Nat
    BY ProductType
  <2> QED BY <1>2, <2>1, <2>2
<1>3. CASE bn >= b /\ sn <= s
  <2>1. b * sn <= b * s /\ b * s <= bn * s
    BY <1>3, ProductMonotone
  <2>2. b * sn \in Nat /\ b * s \in Nat /\ bn * s \in Nat
    BY ProductType
  <2> QED BY <2>1, <2>2
<1> QED BY <1>1, <1>2, <1>3

LEMMA StepKeepsBacking ==
  ASSUME IInv, [Next]_vars
  PROVE  weth[Reserve]' * totalSupply >= weth[Reserve] * totalSupply'
<1> DEFINE b == weth[Reserve]
           bn == weth'[Reserve]
           s == totalSupply
           sn == totalSupply'
<1>1. b \in Nat /\ bn \in Nat /\ s \in Nat /\ sn \in Nat
  <2>1. IInv'
    BY StepIInv
  <2> QED BY <2>1, Members DEF IInv, TypeOK
<1>2. [Ledger!Next]_<<b, s>>
  BY StepIsALedgerStep
<1>3. \/ bn >= b /\ sn >= s /\ b * (sn - s) <= (bn - b) * s
      \/ bn <= b /\ sn <= s /\ (b - bn) * s <= b * (s - sn)
      \/ bn >= b /\ sn <= s
  BY <1>1, <1>2 DEF Ledger!Next, Ledger!Issue, Ledger!Exit, Ledger!Destroy, Ledger!Accrete
<1> HIDE DEF b, bn, s, sn
<1>4. bn * s >= b * sn
  BY <1>1, <1>3, LedgerStepKeepsBacking
<1> QED BY <1>4 DEF b, bn, s, sn

\* No transaction reduces the backing of a unit, whatever its rounding.
THEOREM BackingNeverDilutes == Spec => BackingPerUnitNeverFalls
<1>1. IInv /\ [Next]_vars
        => [weth[Reserve]' * totalSupply >= weth[Reserve] * totalSupply']_vars
  BY StepKeepsBacking
<1> QED BY <1>1, InductiveInvariant, PTL DEF Spec, BackingPerUnitNeverFalls

-----------------------------------------------------------------------------
(***************************************************************************)
(* Over whole histories.                                                   *)
(***************************************************************************)

\* Backing against the supply composes: what a step keeps, a history keeps.
LEMMA BackingComposes ==
  ASSUME NEW b \in Nat, NEW bn \in Nat, NEW s \in Nat, NEW sn \in Nat,
         NEW b0 \in Nat, NEW s0 \in Nat,
         s >= 1, b * s0 >= b0 * s, bn * s >= b * sn
  PROVE  bn * s0 >= b0 * sn
<1>1. (bn * s) * s0 >= (b * sn) * s0
  BY ProductType, ProductMonotone
<1>2. (b * s0) * sn >= (b0 * s) * sn
  BY ProductType, ProductMonotone
<1>3. /\ (bn * s) * s0 = s * (bn * s0) /\ (b * sn) * s0 = (b * s0) * sn
      /\ (b0 * s) * sn = s * (b0 * sn)
  OBVIOUS
<1> DEFINE x == bn * s0
           y == b0 * sn
<1>4. x \in Nat /\ y \in Nat /\ s * x \in Nat /\ s * y \in Nat
  BY ProductType
<1>5. s * x >= s * y
  <2>1. (b * sn) * s0 \in Nat /\ (b0 * s) * sn \in Nat /\ (bn * s) * s0 \in Nat
    BY ProductType
  <2> QED BY <1>1, <1>2, <1>3, <2>1
<1> HIDE DEF x, y
<1>6. x >= y
  BY <1>4, <1>5
<1> QED BY <1>6 DEF x, y

\* Backing per unit never falls below what genesis set.
THEOREM GenesisBackingIsKept == Spec => []GenesisBackingHolds
<1>1. Init => GenesisBackingHolds
  <2> SUFFICES ASSUME Init PROVE GenesisBackingHolds
    OBVIOUS
  <2>1. weth[Reserve] = B0 /\ totalSupply = S0
    BY Members DEF Init
  <2> QED BY <2>1, GenesisAssumption, ProductType
          DEF GenesisBackingHolds, S0, GENESIS_RESERVE_SEED
<1>2. GenesisBackingHolds /\ IInv /\ [Next]_vars => GenesisBackingHolds'
  <2> SUFFICES ASSUME GenesisBackingHolds, IInv, [Next]_vars
               PROVE  weth'[Reserve] * S0 >= B0 * totalSupply'
    BY DEF GenesisBackingHolds
  <2>1. weth'[Reserve] * totalSupply >= weth[Reserve] * totalSupply'
    BY StepKeepsBacking
  <2>2. /\ weth[Reserve] \in Nat /\ totalSupply \in Nat /\ totalSupply >= 1
        /\ weth'[Reserve] \in Nat /\ totalSupply' \in Nat
    <3>1. IInv'
      BY StepIInv
    <3> QED BY <3>1, Members DEF IInv, TypeOK, ReserveNeverDrains, S_MIN
  <2>3. weth[Reserve] * S0 >= B0 * totalSupply
    BY DEF GenesisBackingHolds
  <2>4. S0 \in Nat /\ B0 \in Nat
    BY GenesisAssumption DEF S0, GENESIS_RESERVE_SEED
  <2> QED BY <2>1, <2>2, <2>3, <2>4, BackingComposes
<1> QED BY <1>1, <1>2, InductiveInvariant, PTL DEF Spec

\* No step creates or loses WETH.
LEMMA WethIsOnlyMoved ==
  ASSUME IInv, [Next]_vars
  PROVE  SumFunction(weth') = SumFunction(weth)
<1>0. /\ weth \in [Accounts -> Nat] /\ Amounts \subseteq Nat
      /\ Recipients \subseteq Accounts /\ WethMoves \subseteq Senders \X Accounts
  BY InputAssumption DEF IInv, TypeOK
<1>1. ASSUME NEW p \in Users, NEW maxPrice \in MaxPrices, Take(p, maxPrice)
      PROVE  SumFunction(weth') = SumFunction(weth)
  BY <1>1, TakeMovesWeth
<1>2. ASSUME NEW p \in Users, NEW q \in Amounts, NEW to \in Recipients,
             Redeem(p, q, to)
      PROVE  SumFunction(weth') = SumFunction(weth)
  BY <1>0, <1>2, RedeemPaysAShare
<1>3. ASSUME NEW move \in WethMoves, NEW amount \in Amounts, SendWeth(move, amount)
      PROVE  SumFunction(weth') = SumFunction(weth)
  <2>1. weth[move[1]] >= amount /\ weth' = Transfer(weth, move[1], move[2], amount)
    BY <1>3 DEF SendWeth
  <2> QED BY <1>0, <2>1, SendMoves
<1>4. ASSUME \/ \E p \in Users \cup {Treasury}, q \in Amounts : Burn(p, q)
             \/ \E move \in VuxMoves, amount \in Amounts : SendVux(move, amount)
             \/ \E seconds \in TimeSteps : Tick(seconds)
             \/ UNCHANGED vars
      PROVE  weth' = weth
  BY <1>4 DEF Burn, SendVux, Tick, vars, tokens
<1> QED BY <1>1, <1>2, <1>3, <1>4 DEF Next

\* WETH is only moved: the balances add up to what genesis distributed.
THEOREM WethIsAlwaysConserved == Spec => []WethIsConserved
<1>1. Init => WethIsConserved
  <2> SUFFICES ASSUME Init PROVE WethIsConserved
    OBVIOUS
  <2> DEFINE users == [a \in Accounts |-> IF a \in Users THEN UserWeth ELSE 0]
  <2>1. SumFunction(users) = Cardinality(Users) * UserWeth
    BY AccountsFinite, Members, GenesisAssumption, TotalUniform
  <2>2. /\ users \in [Accounts -> Nat] /\ users[Reserve] = 0
        /\ weth \in [Accounts -> Nat] /\ weth[Reserve] = B0
        /\ \A x \in Accounts \ {Reserve} : weth[x] = users[x]
    BY GenesisAssumption, AccountsAssumption, Members DEF Init
  <2> HIDE DEF users
  <2>3. SumFunction(weth) = SumFunction(users) - users[Reserve] + weth[Reserve]
    BY <2>2, AccountsFinite, Members, TotalUpdate
  <2>4. SumFunction(users) \in Nat
    BY <2>2, AccountsFinite, TotalType
  <2>5. SumFunction(weth) = B0 + SumFunction(users)
    BY <2>2, <2>3, <2>4, GenesisAssumption
  <2> QED BY <2>1, <2>5 DEF WethIsConserved
<1>2. IInv /\ [Next]_vars => SumFunction(weth') = SumFunction(weth)
  BY WethIsOnlyMoved
<1>3. WethIsConserved /\ IInv /\ [Next]_vars => WethIsConserved'
  BY <1>2 DEF WethIsConserved
<1> QED BY <1>1, <1>3, InductiveInvariant, PTL DEF Spec

-----------------------------------------------------------------------------
(***************************************************************************)
(* Rate and issuance.                                                      *)
(***************************************************************************)

\* A step either settles a reign, with these effects on the throne, or leaves
\* the throne and the issued total alone while the clock may run.
LEMMA SettleOrNot ==
  ASSUME IInv, [Next]_vars
  PROVE  \/ /\ king' \in Users /\ epochStart' = now /\ epochUPS' = CurrentUPS
            /\ scheduleStart' = ScheduleStartAfterTake /\ epochId' = epochId + 1
            /\ minted' = minted + Issued /\ now' = now
            /\ epochOpening' = SuccessorOpening(CurrentPrice, MINIMUM_OPENING, UINT192_MAX)
            /\ totalStrategicContributed' = totalStrategicContributed + Legs.strategic
            /\ weth'[RigAddress] = weth[RigAddress]
            /\ weth'[Reserve] = weth[Reserve] + Contribution
         \/ /\ UNCHANGED throne /\ minted' = minted
            /\ now' >= now /\ now' \in Nat
<1>0. now \in Nat /\ now >= now
  BY DEF IInv, TypeOK
<1>1. ASSUME NEW p \in Users, NEW maxPrice \in MaxPrices, Take(p, maxPrice)
      PROVE  /\ king' \in Users /\ epochStart' = now /\ epochUPS' = CurrentUPS
             /\ scheduleStart' = ScheduleStartAfterTake /\ epochId' = epochId + 1
             /\ minted' = minted + Issued /\ now' = now
             /\ epochOpening' = SuccessorOpening(CurrentPrice, MINIMUM_OPENING, UINT192_MAX)
             /\ totalStrategicContributed' = totalStrategicContributed + Legs.strategic
             /\ weth'[RigAddress] = weth[RigAddress]
             /\ weth'[Reserve] = weth[Reserve] + Contribution
  <2>1. /\ minted' = minted + Issued /\ weth'[RigAddress] = weth[RigAddress]
        /\ weth'[Reserve] = weth[Reserve] + Contribution
    BY <1>1, TakeMintsVux, TakeMovesWeth
  <2>2. /\ king' = p /\ epochStart' = now /\ epochUPS' = CurrentUPS
        /\ scheduleStart' = ScheduleStartAfterTake /\ epochId' = epochId + 1
        /\ epochOpening' = SuccessorOpening(CurrentPrice, MINIMUM_OPENING, UINT192_MAX)
        /\ now' = now
        /\ totalStrategicContributed' = totalStrategicContributed + Legs.strategic
    BY <1>1 DEF Take, Legs
  <2> QED BY <2>1, <2>2
<1>2. ASSUME \/ \E p \in Users, q \in Amounts, to \in Recipients : Redeem(p, q, to)
             \/ \E p \in Users \cup {Treasury}, q \in Amounts : Burn(p, q)
             \/ \E move \in VuxMoves, amount \in Amounts : SendVux(move, amount)
             \/ \E move \in WethMoves, amount \in Amounts : SendWeth(move, amount)
             \/ UNCHANGED vars
      PROVE  UNCHANGED throne /\ minted' = minted /\ now' = now
  BY <1>2 DEF Redeem, Burn, SendVux, SendWeth, vars, tokens
<1>3. ASSUME NEW seconds \in TimeSteps, Tick(seconds)
      PROVE  UNCHANGED throne /\ minted' = minted /\ now' >= now /\ now' \in Nat
  BY <1>0, <1>3, InputAssumption DEF Tick, tokens
<1> QED BY <1>0, <1>1, <1>2, <1>3 DEF Next

\* An open reign earns the rate of the schedule at its opening.
THEOREM ReignRateIsFixed == Spec => []ReignEarnsItsOpeningRate
<1>1. Init => ReignEarnsItsOpeningRate
  BY DEF Init, ReignEarnsItsOpeningRate, Bootstrap
<1>2. UPSAfter(0, INITIAL_UPS, HALVING_PERIOD, MAX_HALVINGS) = INITIAL_UPS
  <2>1. 2^0 = 1
    <3>1. IsFiniteSet({}) /\ Cardinality({}) = 0
      BY FS_EmptySet
    <3>2. Cardinality(SUBSET {}) = 2^Cardinality({})
      BY <3>1, FS_SUBSET
    <3>3. SUBSET {} = {{}}
      OBVIOUS
    <3>4. Cardinality({{}}) = 1
      BY FS_Singleton
    <3> QED BY <3>1, <3>2, <3>3, <3>4
  <2>2. 0 \div HALVING_PERIOD = 0 /\ AtMost(0, MAX_HALVINGS) = 0
    BY ScheduleAssumption DEF AtMost
  <2>3. INITIAL_UPS \div 1 = INITIAL_UPS
    BY ScheduleAssumption
  <2> QED BY <2>1, <2>2, <2>3 DEF UPSAfter
<1>3. ReignEarnsItsOpeningRate /\ IInv /\ [Next]_vars => ReignEarnsItsOpeningRate'
  <2> SUFFICES ASSUME ReignEarnsItsOpeningRate, IInv, [Next]_vars
               PROVE  ReignEarnsItsOpeningRate'
    OBVIOUS
  <2>1. CASE UNCHANGED throne
    BY <2>1 DEF ReignEarnsItsOpeningRate, Bootstrap, throne
  <2>2. CASE /\ king' \in Users /\ epochStart' = now /\ epochUPS' = CurrentUPS
             /\ scheduleStart' = ScheduleStartAfterTake
    <3>1. Bootstrap' = FALSE
      BY <2>2, AccountsAssumption DEF Bootstrap
    <3>2. Bootstrap <=> scheduleStart = 0
      BY DEF IInv, OneBootstrap
    <3>3. now - now = 0
      BY DEF IInv, TypeOK
    <3>4. CASE Bootstrap
      <4>1. epochUPS' = INITIAL_UPS
        BY <2>2, <3>2, <3>4 DEF CurrentUPS
      <4>2. epochStart' - scheduleStart' = 0
        BY <2>2, <3>3, <3>4 DEF ScheduleStartAfterTake
      <4> QED BY <1>2, <3>1, <4>1, <4>2 DEF ReignEarnsItsOpeningRate
    <3>5. CASE ~Bootstrap
      <4>1. epochUPS' = UPSAfter(now - scheduleStart, INITIAL_UPS, HALVING_PERIOD,
                                 MAX_HALVINGS)
        BY <2>2, <3>2, <3>5 DEF CurrentUPS
      <4>2. epochStart' - scheduleStart' = now - scheduleStart
        BY <2>2, <3>5 DEF ScheduleStartAfterTake
      <4> QED BY <3>1, <4>1, <4>2 DEF ReignEarnsItsOpeningRate
    <3> QED BY <3>4, <3>5
  <2> QED BY <2>1, <2>2, SettleOrNot
<1> QED BY <1>1, <1>3, InductiveInvariant, PTL DEF Spec

\* No second is earned twice and no reign earns more than an epoch.
THEOREM IssuanceIsPaced == Spec => []IssuancePacedByClock
<1>1. Init => IssuancePacedByClock
  BY DEF Init, IssuancePacedByClock, Bootstrap
<1>2. IssuancePacedByClock /\ IInv /\ [Next]_vars => IssuancePacedByClock'
  <2> SUFFICES ASSUME IssuancePacedByClock, IInv, [Next]_vars
               PROVE  IssuancePacedByClock'
    OBVIOUS
  <2>1. CASE UNCHANGED throne /\ minted' = minted
    BY <2>1 DEF IssuancePacedByClock, Bootstrap, throne
  <2>2. CASE /\ king' \in Users /\ epochStart' = now
             /\ scheduleStart' = ScheduleStartAfterTake /\ epochId' = epochId + 1
             /\ minted' = minted + Issued
    <3> DEFINE I == INITIAL_UPS
               E == EPOCH_PERIOD
               t == AtMost(Elapsed, E)
    <3>1. /\ I \in Nat /\ E \in Nat /\ minted \in Nat /\ epochUPS \in 0..I
          /\ now \in Nat /\ epochStart \in Nat /\ scheduleStart \in Nat
          /\ epochId \in Nat
          /\ scheduleStart <= epochStart /\ epochStart <= now
          /\ Bootstrap <=> epochId = 0
          /\ Issued \in Nat /\ Issued <= QRaw
      BY ScheduleAssumption, SettlementNumbers DEF IInv, TypeOK, OneBootstrap
    <3>2. Bootstrap' = FALSE
      BY <2>2, AccountsAssumption DEF Bootstrap
    <3>3. CASE Bootstrap
      <4>1. minted' = 0 /\ epochStart' - scheduleStart' = 0 /\ epochId' - 1 = 0
        BY <2>2, <3>1, <3>3 DEF IssuancePacedByClock, QRaw, ScheduleStartAfterTake
      <4>2. I * 0 = 0 /\ (I * E) * 0 = 0
        BY <3>1, ProductType
      <4> QED BY <3>2, <4>1, <4>2 DEF IssuancePacedByClock
    <3>4. CASE ~Bootstrap
      <4> DEFINE span == epochStart - scheduleStart
                 age  == now - epochStart
                 whole == I * E
                 public == epochId - 1
      <4>1. span \in Nat /\ age \in Nat /\ whole \in Nat /\ public \in Nat
        BY <3>1, <3>4, ProductType
      <4>2. minted <= I * span /\ minted <= whole * public
        BY <3>4 DEF IssuancePacedByClock
      <4>3. t \in Nat /\ t <= age /\ t <= E
        BY <3>1, <4>1 DEF AtMost, Elapsed
      <4>4. QRaw = t * epochUPS
        BY <3>4 DEF QRaw
      <4> HIDE DEF t, I, E
      <4>5. epochUPS \in Nat /\ epochUPS <= I
        BY <3>1
      <4>6. t * epochUPS <= t * I /\ t * I <= age * I /\ t * I <= E * I
        BY <3>1, <4>1, <4>3, <4>5, ProductMonotone
      <4>7. /\ t * epochUPS \in Nat /\ t * I \in Nat /\ age * I \in Nat
            /\ E * I \in Nat /\ I * span \in Nat /\ whole * public \in Nat
        BY <3>1, <4>1, <4>3, <4>5, ProductType
      <4>8. Issued <= age * I /\ Issued <= whole
        BY <3>1, <4>4, <4>6, <4>7
      <4>9. I * (span + age) = I * span + age * I
        BY <3>1, <4>1
      <4>10. whole * (public + 1) = whole * public + whole
        BY <4>1
      <4>11. minted + Issued <= I * (span + age) /\ minted + Issued <= whole * (public + 1)
        BY <3>1, <4>1, <4>2, <4>7, <4>8, <4>9, <4>10
      <4>12. epochStart' - scheduleStart' = span + age /\ epochId' - 1 = public + 1
        BY <2>2, <3>1, <3>4 DEF ScheduleStartAfterTake
      <4> QED BY <2>2, <3>2, <4>11, <4>12 DEF IssuancePacedByClock, I, E
    <3> QED BY <3>3, <3>4
  <2> QED BY <2>1, <2>2, SettleOrNot
<1> QED BY <1>1, <1>2, InductiveInvariant, PTL DEF Spec

\* The treasury is paid only by a settlement that minted the whole opportunity.
THEOREM StrategicLegIsResidual == Spec => StrategicOnlyAfterFullIssuance
<1>1. IInv /\ [Next]_vars
        => [totalStrategicContributed' > totalStrategicContributed
              => minted' - minted = QRaw]_vars
  <2> SUFFICES ASSUME IInv, [Next]_vars,
                      totalStrategicContributed' > totalStrategicContributed
               PROVE  minted' - minted = QRaw
    OBVIOUS
  <2>1. /\ Legs.strategic \in Nat /\ QRaw \in Nat
        /\ Legs.strategic > 0 => Issued = QRaw
        /\ minted \in Nat /\ totalStrategicContributed \in Nat
    BY SettlementNumbers DEF IInv, TypeOK
  <2>2. \/ /\ minted' = minted + Issued
           /\ totalStrategicContributed' = totalStrategicContributed + Legs.strategic
        \/ totalStrategicContributed' = totalStrategicContributed
    BY SettleOrNot DEF throne
  <2> QED BY <2>1, <2>2
<1> QED BY <1>1, InductiveInvariant, PTL DEF Spec, StrategicOnlyAfterFullIssuance

\* A settlement leaves nothing of the payment in the Rig, and no transaction creates
\* or loses WETH.
THEOREM NothingIsStranded == Spec => SettlementStrandsNothing
<1>1. IInv /\ [Next]_vars
        => [/\ SumFunction(weth') = SumFunction(weth)
            /\ epochId' # epochId => weth'[RigAddress] = weth[RigAddress]]_vars
  <2>1. IInv /\ [Next]_vars => (epochId' # epochId => weth'[RigAddress] = weth[RigAddress])
    BY SettleOrNot DEF throne
  <2> QED BY <2>1, WethIsOnlyMoved
<1> QED BY <1>1, InductiveInvariant, PTL DEF Spec, SettlementStrandsNothing

-----------------------------------------------------------------------------
(***************************************************************************)
(* The price.                                                              *)
(***************************************************************************)

\* The price of one opening only decays with age.
LEMMA PriceDecays ==
  ASSUME NEW opening \in Nat, NEW age \in Nat, NEW later \in Nat, age <= later,
         NEW period \in Nat \ {0}, NEW floor \in Nat
  PROVE  DutchPrice(opening, later, period, floor) <= DutchPrice(opening, age, period, floor)
<1> DEFINE n == opening * age
           m == opening * later
           d == n \div period
           e == m \div period
<1>1. n \in Nat /\ m \in Nat /\ n <= m
  BY ProductType, ProductMonotone
<1>2. /\ DutchPrice(opening, age, period, floor)
           = IF age >= period THEN floor ELSE AtLeast(floor, opening - d)
      /\ DutchPrice(opening, later, period, floor)
           = IF later >= period THEN floor ELSE AtLeast(floor, opening - e)
  BY DEF DutchPrice
<1> HIDE DEF n, m
<1>3. d \in Nat /\ e \in Nat /\ d <= e
  BY <1>1, FloorBounds, FloorMonotone
<1> HIDE DEF d, e
<1> QED BY <1>2, <1>3 DEF AtLeast

\* A reign opens at the opening, or at the floor if that is higher.
LEMMA PriceAtOpening ==
  ASSUME NEW opening \in Nat, NEW period \in Nat \ {0}, NEW floor \in Nat
  PROVE  DutchPrice(opening, 0, period, floor) = AtLeast(floor, opening)
<1>1. opening * 0 = 0 /\ 0 \div period = 0 /\ opening - 0 = opening /\ ~(0 >= period)
  BY ProductType
<1> QED BY <1>1 DEF DutchPrice

\* Within a reign the price decays; a settlement at least doubles it.
THEOREM PriceClimbsByTakingOnly == Spec => PriceLadder
<1>1. IInv /\ [Next]_vars
        => [IF epochId' = epochId
            THEN CurrentPrice' <= CurrentPrice
            ELSE CurrentPrice' >= AtMost(PRICE_MULTIPLIER * CurrentPrice, UINT192_MAX)]_vars
  <2> SUFFICES ASSUME IInv, [Next]_vars
               PROVE  IF epochId' = epochId
                      THEN CurrentPrice' <= CurrentPrice
                      ELSE CurrentPrice' >= AtMost(PRICE_MULTIPLIER * CurrentPrice,
                                                   UINT192_MAX)
    OBVIOUS
  <2>1. /\ EPOCH_PERIOD \in Nat \ {0} /\ DECAY_FLOOR \in Nat /\ UINT192_MAX \in Nat
        /\ MINIMUM_OPENING \in Nat
        /\ epochOpening \in Nat /\ now \in Nat /\ epochStart \in Nat
        /\ epochStart <= now /\ epochId \in Nat
    BY ScheduleAssumption, OpeningAssumption DEF IInv, TypeOK, OneBootstrap
  <2>2. CurrentPrice \in Nat
    BY PriceType DEF IInv
  <2>3. CurrentPrice' = DutchPrice(epochOpening', now' - epochStart', EPOCH_PERIOD, DECAY_FLOOR)
    BY DEF CurrentPrice, Elapsed
  <2>4. ASSUME UNCHANGED throne /\ now' >= now /\ now' \in Nat
        PROVE  epochId' = epochId /\ CurrentPrice' <= CurrentPrice
    <3>1. epochOpening' = epochOpening /\ epochStart' = epochStart /\ epochId' = epochId
      BY <2>4 DEF throne
    <3> DEFINE age == now - epochStart
               later == now' - epochStart
    <3> DEFINE next == now'
    <3>0. next \in Nat /\ next >= now
      BY <2>4
    <3>2. age \in Nat /\ later \in Nat /\ age <= later
      <4>1. age = now - epochStart /\ later = next - epochStart
        OBVIOUS
      <4> HIDE DEF age, later, next
      <4> QED BY <2>1, <3>0, <4>1
    <3>3. /\ CurrentPrice = DutchPrice(epochOpening, age, EPOCH_PERIOD, DECAY_FLOOR)
          /\ CurrentPrice' = DutchPrice(epochOpening, later, EPOCH_PERIOD, DECAY_FLOOR)
      BY <2>3, <3>1 DEF CurrentPrice, Elapsed
    <3> HIDE DEF age, later
    <3>4. CurrentPrice' <= CurrentPrice
      BY <2>1, <3>2, <3>3, PriceDecays
    <3> QED BY <3>1, <3>4
  <2>5. ASSUME epochId' = epochId + 1, epochStart' = now, now' = now,
               epochOpening' = SuccessorOpening(CurrentPrice, MINIMUM_OPENING, UINT192_MAX)
        PROVE  /\ epochId' # epochId
               /\ CurrentPrice' >= AtMost(PRICE_MULTIPLIER * CurrentPrice, UINT192_MAX)
    <3>1. /\ epochOpening' \in Nat
          /\ epochOpening' >= AtMost(PRICE_MULTIPLIER * CurrentPrice, UINT192_MAX)
      BY <2>1, <2>2, <2>5 DEF SuccessorOpening, AtLeast, AtMost, PRICE_MULTIPLIER
    <3>2. now' - epochStart' = 0
      BY <2>1, <2>5
    <3>3. CurrentPrice' = AtLeast(DECAY_FLOOR, epochOpening')
      BY <2>1, <2>3, <3>1, <3>2, PriceAtOpening
    <3>4. AtMost(PRICE_MULTIPLIER * CurrentPrice, UINT192_MAX) \in Nat
      BY <2>1, <2>2 DEF AtMost, PRICE_MULTIPLIER
    <3> QED BY <2>1, <2>5, <3>1, <3>3, <3>4 DEF AtLeast
  <2> QED BY <2>4, <2>5, SettleOrNot
<1> QED BY <1>1, InductiveInvariant, PTL DEF Spec, PriceLadder

-----------------------------------------------------------------------------
(***************************************************************************)
(* The lens recomputes the settlement law from the Rig's views; here it is *)
(* proved to agree with it.                                                *)
(***************************************************************************)
\* The lens's copies of the clock, of the need and of the leg are the Rig's.
LEMMA LensCopiesTheLaw ==
  /\ RawClockLimit = QRaw
  /\ WethNeededForFullQraw = DNeed(QRaw, weth[Reserve], totalSupply)
  /\ EstimateIfDisplacedNow.toReserve = Contribution
  /\ EstimateIfDisplacedNow.qMint = Issued
<1>1. RawClockLimit = QRaw
  BY DEF RawClockLimit, QRaw, Elapsed
<1>2. \A q, b, s : LensDNeed(q, b, s) = DNeed(q, b, s)
  BY DEF LensDNeed, DNeed
<1>3. \A price, q, b, s :
        HardToReserve(price, q, b, s) = HardContribution(Route(price, q, b, s))
  BY <1>2 DEF HardToReserve, HardContribution, Route, KingLeg, Retained, HardFloor
<1>4. EstimateIfDisplacedNow.toReserve = Contribution
  BY <1>1, <1>3 DEF EstimateIfDisplacedNow, Contribution, Legs
<1>5. EstimateIfDisplacedNow.qMint
        = AtMost(QRaw, MulDiv(EstimateIfDisplacedNow.toReserve, totalSupply, weth[Reserve]))
  BY <1>1 DEF EstimateIfDisplacedNow
<1>6. EstimateIfDisplacedNow.qMint = Issued
  BY <1>4, <1>5 DEF Issued, QMint, QSafe
<1> QED BY <1>1, <1>2, <1>4, <1>6 DEF WethNeededForFullQraw

\* A settlement in this block does what the lens announced for it.
THEOREM LensAgrees == Spec => EstimateMatchesSettlement
<1>1. IInv /\ [Next]_vars
        => [epochId' # epochId =>
              LET e == EstimateIfDisplacedNow
              IN  /\ minted' - minted = e.qMint
                  /\ weth[Reserve]' - weth[Reserve] = e.toReserve]_vars
  <2> SUFFICES ASSUME IInv, [Next]_vars, epochId' # epochId
               PROVE  /\ minted' - minted = Issued
                      /\ weth'[Reserve] - weth[Reserve] = Contribution
    BY LensCopiesTheLaw
  <2>1. Issued \in Nat /\ Contribution \in Nat /\ minted \in Nat /\ weth[Reserve] \in Nat
    BY SettlementNumbers, Members DEF IInv, TypeOK
  <2>2. minted' = minted + Issued /\ weth'[Reserve] = weth[Reserve] + Contribution
    BY SettleOrNot DEF throne
  <2> QED BY <2>1, <2>2
<1> QED BY <1>1, InductiveInvariant, PTL DEF Spec, EstimateMatchesSettlement

\* The announced need is enough for the whole opportunity.
THEOREM AnnouncedNeedIsEnough == Spec => AnnouncedNeedSuffices
<1>1. IInv /\ [Next]_vars
        => [/\ epochId' # epochId
            /\ weth[Reserve]' - weth[Reserve] >= WethNeededForFullQraw
            => minted' - minted = RawClockLimit]_vars
  <2> SUFFICES ASSUME IInv, [Next]_vars, epochId' # epochId,
                      weth'[Reserve] - weth[Reserve] >= WethNeededForFullQraw
               PROVE  minted' - minted = RawClockLimit
    OBVIOUS
  <2>1. /\ Issued \in Nat /\ Contribution \in Nat /\ QRaw \in Nat /\ minted \in Nat
        /\ weth[Reserve] \in Nat \ {0} /\ totalSupply \in Nat \ {0}
    BY SettlementNumbers, Members DEF IInv, TypeOK, ReserveNeverDrains, S_MIN
  <2>2. minted' = minted + Issued /\ weth'[Reserve] = weth[Reserve] + Contribution
    BY SettleOrNot DEF throne
  <2>3. Contribution >= DNeed(QRaw, weth[Reserve], totalSupply)
    BY <2>1, <2>2, LensCopiesTheLaw
  <2>4. Issued = QRaw
    BY <2>1, <2>3, NeedMetMintsAll DEF Issued
  <2> QED BY <2>1, <2>2, <2>4, LensCopiesTheLaw
<1> QED BY <1>1, InductiveInvariant, PTL DEF Spec, AnnouncedNeedSuffices
=============================================================================
