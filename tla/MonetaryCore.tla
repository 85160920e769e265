---------------------------- MODULE MonetaryCore ----------------------------
(***************************************************************************)
(* The ownerless monetary core: the throne and its settlement              *)
(* (src/src/Rig.sol), the Hard Reserve (src/src/HardReserve.sol), the VUX  *)
(* token (src/src/VUX.sol) and the canonical WETH balances they move.      *)
(*                                                                         *)
(* One action is one transaction.  A transaction is atomic: a failed leg,  *)
(* mint or check reverts all of it, so a revert is a guard that is false.  *)
(* WETH is an ordinary ERC-20: it keeps balances and calls nobody back.    *)
(* Approvals are the caller's own preparation and are not tracked here.    *)
(***************************************************************************)
EXTENDS MonetaryMath, FiniteSets, Functions

CONSTANTS
  Users,               \* accounts that call: wallets and contracts
  Reserve,             \* the Hard Reserve, King of the bootstrap reign
  Treasury,            \* the Strategic Treasury
  Pool,                \* the VUX/WETH pool, holder of the genesis inventory
  RigAddress,          \* the Rig's own account
  EPOCH_PERIOD, HALVING_PERIOD, MAX_HALVINGS, INITIAL_UPS,
  BOOTSTRAP_OPENING, MINIMUM_OPENING, DECAY_FLOOR,
  UINT192_MAX,         \* the largest opening the cell holds
  GENESIS_POL_SUPPLY,  \* VUX minted to the genesis inventory
  B0,                  \* WETH the Reserve is born with
  GENESIS_TIME,        \* timestamp of the deployment block
  UserWeth             \* WETH of each user at genesis

\* Inputs of the actions, and the bounds of the behaviours that are looked at.
CONSTANTS
  Amounts,             \* amounts of VUX redeemed or burned, of either token sent
  MaxPrices,           \* slippage limits a contender passes to take
  Recipients,          \* where a redeemer has the payout sent
  WethMoves, VuxMoves, \* <<sender, receiver>> of the plain transfers
  TimeSteps,           \* seconds between two blocks
  MaxTime,             \* last timestamp
  MaxEpochId           \* last settlement counter

GENESIS_RESERVE_SEED == 1
S_MIN == 1

Accounts == Users \cup {Reserve, Treasury, Pool, RigAddress}

\* The Reserve and the Rig hold no code that sends tokens on request.
Senders == Users \cup {Treasury, Pool}

ASSUME AccountsAssumption ==
  /\ IsFiniteSet(Users)
  /\ Reserve \notin Users /\ Treasury \notin Users
  /\ Pool \notin Users /\ RigAddress \notin Users
  /\ Reserve # Treasury /\ Reserve # Pool /\ Reserve # RigAddress
  /\ Treasury # Pool /\ Treasury # RigAddress /\ Pool # RigAddress

ASSUME ScheduleAssumption ==
  /\ EPOCH_PERIOD \in Nat \ {0} /\ HALVING_PERIOD \in Nat \ {0}
  /\ MAX_HALVINGS \in Nat /\ INITIAL_UPS \in Nat
  /\ GENESIS_TIME \in Nat \ {0}

\* The constructor of the Rig refuses openings wider than the cell.
ASSUME OpeningAssumption ==
  /\ UINT192_MAX \in Nat /\ DECAY_FLOOR \in Nat
  /\ BOOTSTRAP_OPENING \in 0..UINT192_MAX
  /\ MINIMUM_OPENING \in 0..UINT192_MAX

\* Genesis funds the Reserve: a zero B0 fails its premium check.
ASSUME GenesisAssumption ==
  /\ B0 \in Nat \ {0} /\ GENESIS_POL_SUPPLY \in Nat /\ UserWeth \in Nat

ASSUME InputAssumption ==
  /\ Amounts \subseteq Nat /\ MaxPrices \subseteq Nat /\ TimeSteps \subseteq Nat
  /\ Recipients \subseteq Accounts
  /\ WethMoves \subseteq Senders \X Accounts
  /\ VuxMoves \subseteq Senders \X Accounts
  /\ MaxTime \in Nat /\ MaxEpochId \in Nat

VARIABLES
  weth,                       \* WETH balance of every account
  vux,                        \* VUX balance of every account
  totalSupply,
  king, epochStart, epochOpening, epochUPS, scheduleStart, epochId,
  totalStrategicContributed,
  now,                        \* block.timestamp
  minted                      \* history: VUX minted since genesis

tokens == <<weth, vux, totalSupply, minted>>
throne == <<king, epochStart, epochOpening, epochUPS, scheduleStart, epochId,
            totalStrategicContributed>>
vars == <<tokens, throne, now>>

S0 == GENESIS_POL_SUPPLY + GENESIS_RESERVE_SEED

Init ==
  /\ weth = [a \in Accounts |-> IF a = Reserve THEN B0
                                ELSE IF a \in Users THEN UserWeth ELSE 0]
  /\ vux = [a \in Accounts |-> IF a = Reserve THEN GENESIS_RESERVE_SEED
                               ELSE IF a = Pool THEN GENESIS_POL_SUPPLY ELSE 0]
  /\ totalSupply = S0
  /\ king = Reserve
  /\ epochStart = GENESIS_TIME
  /\ epochOpening = BOOTSTRAP_OPENING
  /\ epochUPS = 0
  /\ scheduleStart = 0
  /\ epochId = 0
  /\ totalStrategicContributed = 0
  /\ now = GENESIS_TIME
  /\ minted = 0

-----------------------------------------------------------------------------
\* A transfer that reads both balances before it writes either.
TransferFromCachedBalances(balances, from, to, amount) ==
  [balances EXCEPT ![from] = balances[from] - amount, ![to] = balances[to] + amount]

\* ERC-20: a transfer that the sender's balance covers.
Transfer(balances, from, to, amount) ==
  [[balances EXCEPT ![from] = @ - amount] EXCEPT ![to] = @ + amount]

Bootstrap == king = Reserve
Elapsed   == now - epochStart

CurrentPrice == DutchPrice(epochOpening, Elapsed, EPOCH_PERIOD, DECAY_FLOOR)

CurrentUPS ==
  IF scheduleStart = 0 THEN INITIAL_UPS
  ELSE UPSAfter(now - scheduleStart, INITIAL_UPS, HALVING_PERIOD, MAX_HALVINGS)

\* A clock that counts the second it opened in.
QRawCountsBothEnds ==
  IF Bootstrap THEN 0 ELSE AtMost(Elapsed + 1, EPOCH_PERIOD) * epochUPS

\* Raw opportunity of the open reign: none at bootstrap, capped at the epoch.
QRaw == IF Bootstrap THEN 0 ELSE AtMost(Elapsed, EPOCH_PERIOD) * epochUPS

\* The King leg delivered to the Reserve whoever the King is.
HardContributionAlwaysBoth(legs) == legs.hard + legs.king

\* The King leg left in the Rig when the outgoing King is the Reserve.
HardContributionWithoutKing(legs) == legs.hard

\* At bootstrap the outgoing King is the Reserve, so its leg ends there too.
HardContribution(legs) == IF Bootstrap THEN legs.hard + legs.king ELSE legs.hard

\* The public clock starts at the first public takeover and never again.
ScheduleStartAfterTake == IF Bootstrap THEN now ELSE scheduleStart

\* Rig.take: settle the outgoing reign and open the next one.
Take(p, maxPrice) ==
  LET price == CurrentPrice
      bPre  == weth[Reserve]
      sPre  == totalSupply
      legs  == Route(price, QRaw, bPre, sPre)
      hard  == HardContribution(legs)
      paid  == Transfer(weth, p, RigAddress, price)
      toStrategic == Transfer(paid, RigAddress, Treasury, legs.strategic)
      toHard == Transfer(toStrategic, RigAddress, Reserve, hard)
      dR    == toHard[Reserve] - bPre
      qMint == QMint(dR, sPre, bPre, QRaw)
  IN  /\ epochId < MaxEpochId
      /\ price <= maxPrice
      /\ weth[p] >= price
      /\ bPre # 0
      /\ dR = hard
      /\ totalStrategicContributed' = totalStrategicContributed + legs.strategic
      /\ king' = p
      /\ epochStart' = now
      /\ epochOpening' = SuccessorOpening(price, MINIMUM_OPENING, UINT192_MAX)
      /\ epochUPS' = CurrentUPS
      /\ epochId' = epochId + 1
      /\ scheduleStart' = ScheduleStartAfterTake
      /\ vux' = [vux EXCEPT ![king] = @ + qMint]
      /\ totalSupply' = totalSupply + qMint
      /\ minted' = minted + qMint
      /\ weth' = IF Bootstrap THEN toHard
                 ELSE Transfer(toHard, RigAddress, king, legs.king)
      /\ UNCHANGED now

\* The seed is not redeemable.
MaxRedeemable == totalSupply - S_MIN

\* HardReserve.redeem: burn q of the caller's VUX, pay its share of the backing.
Redeem(p, q, to) ==
  LET payout == Payout(weth[Reserve], q, totalSupply)
  IN  /\ q <= MaxRedeemable
      /\ vux[p] >= q
      /\ vux' = [vux EXCEPT ![p] = @ - q]
      /\ totalSupply' = totalSupply - q
      /\ weth' = Transfer(weth, Reserve, to, payout)
      /\ UNCHANGED <<throne, now, minted>>

\* VUX.burn: anyone destroys VUX of their own; the treasury's fee burn is one.
Burn(p, q) ==
  /\ vux[p] >= q
  /\ vux' = [vux EXCEPT ![p] = @ - q]
  /\ totalSupply' = totalSupply - q
  /\ UNCHANGED <<weth, throne, now, minted>>

\* VUX.transfer between two accounts, whoever they are.
SendVux(move, amount) ==
  /\ vux[move[1]] >= amount
  /\ vux' = Transfer(vux, move[1], move[2], amount)
  /\ UNCHANGED <<weth, totalSupply, throne, now, minted>>

\* A plain WETH transfer: a donation to the Reserve, treasury income moved on.
SendWeth(move, amount) ==
  /\ weth[move[1]] >= amount
  /\ weth' = Transfer(weth, move[1], move[2], amount)
  /\ UNCHANGED <<vux, totalSupply, throne, now, minted>>

\* The next block.
Tick(seconds) ==
  /\ now + seconds <= MaxTime
  /\ now' = now + seconds
  /\ UNCHANGED <<tokens, throne>>

Next ==
  \/ \E p \in Users, maxPrice \in MaxPrices : Take(p, maxPrice)
  \/ \E p \in Users, q \in Amounts, to \in Recipients : Redeem(p, q, to)
  \/ \E p \in Users \cup {Treasury}, q \in Amounts : Burn(p, q)
  \/ \E move \in VuxMoves, amount \in Amounts : SendVux(move, amount)
  \/ \E move \in WethMoves, amount \in Amounts : SendWeth(move, amount)
  \/ \E seconds \in TimeSteps : Tick(seconds)

Spec == Init /\ [][Next]_vars

-----------------------------------------------------------------------------
TypeOK ==
  /\ weth \in [Accounts -> Nat]
  /\ vux \in [Accounts -> Nat]
  /\ totalSupply \in Nat
  /\ king \in Users \cup {Reserve}
  /\ now \in Nat /\ epochStart \in Nat /\ scheduleStart \in Nat
  /\ epochOpening \in 0..UINT192_MAX
  /\ epochUPS \in 0..INITIAL_UPS
  /\ epochId \in Nat
  /\ totalStrategicContributed \in Nat
  /\ minted \in Nat

\* The supply every formula divides by is the sum of all balances, through
\* mints to a departing King, redemptions, burns and transfers (VUX.sol; the
\* denominator of HardReserve.redeem and of Rig._vem).
SupplyIsComplete == SumFunction(vux) = totalSupply

\* WETH is only moved: no leg of a settlement or payout creates or loses any.
WethIsConserved ==
  SumFunction(weth) = B0 + Cardinality(Users) * UserWeth

\* No sequence of redemptions, burns and settlements drains the Reserve or the
\* seed in it, so no later settlement or redemption divides by zero
\* (the claim of Rig._vem's and of HardReserve.redeem's comments).
ReserveNeverDrains ==
  /\ weth[Reserve] > 0
  /\ vux[Reserve] >= GENESIS_RESERVE_SEED
  /\ totalSupply >= S_MIN

\* Backing per unit never falls below what genesis set, over whole histories.
GenesisBackingHolds == weth[Reserve] * S0 >= B0 * totalSupply

\* The bootstrap reign is the only reign of the Reserve: it ends with the first
\* settlement, which starts the public clock, and it cannot come back.
OneBootstrap ==
  /\ Bootstrap <=> epochId = 0
  /\ Bootstrap <=> scheduleStart = 0
  /\ scheduleStart <= epochStart /\ epochStart <= now

\* An open reign earns the rate in force when it opened, and a halving during
\* the reign does not reach it (the epochUps snapshot of Rig.take).
ReignEarnsItsOpeningRate ==
  epochUPS = IF Bootstrap THEN 0
             ELSE UPSAfter(epochStart - scheduleStart, INITIAL_UPS,
                           HALVING_PERIOD, MAX_HALVINGS)

\* Issuance over any history is bounded by the public clock and by the number
\* of public reigns: no second is earned twice, a reign earns one epoch at most,
\* and opportunity that expired is never made up.
IssuancePacedByClock ==
  IF Bootstrap THEN minted = 0
  ELSE /\ minted <= INITIAL_UPS * (epochStart - scheduleStart)
       /\ minted <= INITIAL_UPS * EPOCH_PERIOD * (epochId - 1)

-----------------------------------------------------------------------------
\* No transaction reduces backing per unit, whatever its rounding.
BackingPerUnitNeverFalls ==
  [][weth[Reserve]' * totalSupply >= weth[Reserve] * totalSupply']_vars

\* The Strategic leg is a residual: the treasury is paid only by a settlement
\* that also minted the outgoing King's whole raw opportunity.  It needs the
\* ceiling of D_need and the floor of Qsafe to meet.
StrategicOnlyAfterFullIssuance ==
  [][totalStrategicContributed' > totalStrategicContributed
       => minted' - minted = QRaw]_vars

\* A settlement passes on the whole payment, each leg to one receiver, whether
\* the outgoing King is paid or is the Reserve itself: the Rig ends with what it
\* had, and no transaction creates or loses WETH (the transfers of Rig.take, where
\* the King leg is part of the hard contribution at bootstrap and only then).
SettlementStrandsNothing ==
  [][/\ SumFunction(weth') = SumFunction(weth)
     /\ epochId' # epochId => weth'[RigAddress] = weth[RigAddress]]_vars

\* The price of an open reign only decays, and taking the throne twice in one
\* block at least doubles it (up to the width of the opening's cell).
PriceLadder ==
  [][IF epochId' = epochId
     THEN CurrentPrice' <= CurrentPrice
     ELSE CurrentPrice' >= AtMost(PRICE_MULTIPLIER * CurrentPrice, UINT192_MAX)
    ]_vars
-----------------------------------------------------------------------------
Ledger == INSTANCE BackingLedger WITH B <- weth[Reserve], S <- totalSupply

\* The core implements the promise to a holder: every transaction issues against
\* backing, pays out at most a share, destroys units or adds backing, or changes
\* neither backing nor supply.
ImplementsLedger == Ledger!Spec
=============================================================================
