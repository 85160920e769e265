----------------------------- MODULE PolPosition -----------------------------
(***************************************************************************)
(* The protocol-owned liquidity position of the Strategic Treasury         *)
(* (src/src/StrategicTreasury.sol): operations that call the canonical     *)
(* pool, which calls back for its payment while they are under way, and    *)
(* the harvest of fees.                                                    *)
(*                                                                         *)
(* An operation is one transaction.  It is modelled in steps (it arms the  *)
(* one-shot context, the pool calls back, the pool returns) between which  *)
(* any code the pool runs may call the callbacks; anything can revert it.  *)
(* The pool is vendored code (Uniswap v3) and is modelled by its rules;    *)
(* what a callback demands is left open, since the treasury checks it.     *)
(* Amounts are pairs <<VUX, WETH>>.                                        *)
(***************************************************************************)
EXTENDS PriceMath, Sequences

CONSTANTS
  SqrtLower, SqrtUpper,  \* the full-range position's bounds
  Prices,                \* that trades may lead to
  Commitments,           \* <<VUX, WETH>> an operator commits to an addition
  Buys,                  \* <<WETH in, least VUX out>>
  Demands,               \* <<VUX, WETH>> a callback may ask for
  Fees,                  \* <<VUX, WETH>> a trade leaves in the pool
  Lots,                  \* liquidity withdrawn, or given by others
  MaxMoves

ASSUME PositionAssumption ==
  /\ SqrtLower \in Nat /\ SqrtUpper \in Nat
  /\ MIN_SQRT_RATIO <= SqrtLower /\ SqrtLower < SqrtUpper /\ SqrtUpper <= MAX_SQRT_RATIO

ASSUME AmountsAssumption ==
  /\ Prices \subseteq Nat /\ Lots \subseteq Nat
  /\ UNION {Commitments, Buys, Demands, Fees} \subseteq Nat \X Nat

VARIABLES
  vuxFirst,           \* the token order: VUX is token0
  sqrtP, liquidity,   \* the pool's price, the position's liquidity
  pending, owed,      \* fees not yet credited to the position, and its tokensOwed
  held,               \* the treasury's inventory
  polPrincipal,       \* polVuxPrincipal, polWethPrincipal
  ctx,                \* the one-shot context: type, max
  op,                 \* the operation under way
  yielded,            \* history: VUX burned and WETH sent to the Hard Reserve
  earned,             \* history: fees trades left for the position
  moves

pool     == <<vuxFirst, sqrtP, liquidity, pending, owed>>
treasury == <<held, polPrincipal, ctx, op>>
position == <<pool, treasury, yielded, earned, moves>>

Plus(a, b)     == <<a[1] + b[1], a[2] + b[2]>>
Minus(a, b)    == <<a[1] - b[1], a[2] - b[2]>>
LessAtZero(a, b) == <<AtLeast(a[1] - b[1], 0), AtLeast(a[2] - b[2], 0)>>
Within(a, b)   == a[1] <= b[1] /\ a[2] <= b[2]
Nothing        == <<0, 0>>

\* _pairVuxWeth: between the pool's token order and <<VUX, WETH>>.
PairVuxWeth(a, b) == IF vuxFirst THEN <<a, b>> ELSE <<b, a>>

NoCtx == [type |-> "none", max |-> Nothing]
NoOp  == [kind |-> "none", liquidity |-> 0, max |-> Nothing, paid |-> Nothing,
          before |-> Nothing, minOut |-> 0]

PositionInit ==
  /\ vuxFirst \in BOOLEAN /\ sqrtP = MIN_SQRT_RATIO /\ liquidity = 0
  /\ pending = Nothing /\ owed = Nothing
  /\ held = Nothing /\ polPrincipal = Nothing /\ ctx = NoCtx /\ op = NoOp
  /\ yielded = Nothing /\ earned = Nothing /\ moves = 0

-----------------------------------------------------------------------------
\* The price as far as the position reaches.
Reached == AtMost(AtLeast(sqrtP, SqrtLower), SqrtUpper)

ChargeFor(l) == PairVuxWeth(Charge0(l, Reached, SqrtUpper), Charge1(l, SqrtLower, Reached))
PayoutFor(l) == PairVuxWeth(Payout0(l, Reached, SqrtUpper), Payout1(l, SqrtLower, Reached))

Move == moves < MaxMoves /\ moves' = moves + 1

\* Somebody trades: the price moves and the position earns.
Trade(price, fees) ==
  /\ op = NoOp /\ liquidity > 0 /\ Move
  /\ sqrtP' = price
  /\ pending' = Plus(pending, fees) /\ earned' = Plus(earned, fees)
  /\ UNCHANGED <<vuxFirst, liquidity, owed, treasury, yielded>>

\* Somebody adds liquidity to the treasury's position out of his own pocket, which
\* credits its fees.
GiveLiquidity(l) ==
  /\ op = NoOp /\ Move
  /\ liquidity' = liquidity + l
  /\ owed' = Plus(owed, pending) /\ pending' = Nothing
  /\ UNCHANGED <<vuxFirst, sqrtP, treasury, yielded, earned>>

\* The treasury receives tokens, as of a settlement.
Receive(amounts) ==
  /\ op = NoOp /\ Move
  /\ held' = Plus(held, amounts)
  /\ UNCHANGED <<pool, polPrincipal, ctx, op, yielded, earned>>

-----------------------------------------------------------------------------
\* _arm, at the start of an operation under the reentrancy guard.
Begin(kind, l, max, minOut) ==
  /\ op = NoOp
  /\ ctx' = [type |-> kind, max |-> max]
  /\ op' = [kind |-> kind, liquidity |-> l, max |-> max, paid |-> Nothing,
            before |-> held, minOut |-> minOut]
  /\ UNCHANGED <<pool, held, polPrincipal, yielded, earned>>

Affordable(max) ==
  LET amounts == PairVuxWeth(max[1], max[2])
  IN  AffordableLiquidity(amounts[1], amounts[2], sqrtP)

CanAdd(max) ==
  /\ MIN_SQRT_RATIO < sqrtP /\ sqrtP < MAX_SQRT_RATIO
  /\ Affordable(max) > 0

\* _addLiquidity up to the call of the pool.
AddLiquidity(max) ==
  /\ CanAdd(max)
  /\ Begin("mint", Affordable(max), max, 0)

MintPolPosition(max) == liquidity = 0 /\ AddLiquidity(max)
IncreasePol(max)     == liquidity # 0 /\ AddLiquidity(max)

\* buyVuxForPol up to the call of the pool.
BuyVuxForPol(wethIn, minVuxOut) ==
  /\ wethIn > 0
  /\ Begin("swap", 0, <<0, wethIn>>, minVuxOut)

\* A payment that leaves the context armed until the pool returns.
PaysAndStaysArmed(amounts) ==
  /\ Within(amounts, held)
  /\ ctx' = ctx
  /\ op' = [op EXCEPT !.paid = Plus(@, amounts)]

\* A callback consumes the context and pays the pool.
ConsumesAndPays(amounts) ==
  /\ Within(amounts, held)
  /\ ctx' = NoCtx
  /\ op' = [op EXCEPT !.paid = Plus(@, amounts)]

\* uniswapV3MintCallback
MintCallback(caller, demand) ==
  /\ caller = "pool"
  /\ ctx.type = "mint"
  /\ Within(demand, ctx.max)
  /\ ConsumesAndPays(demand)
  /\ held' = Minus(held, demand)
  /\ UNCHANGED <<pool, polPrincipal, yielded, earned, moves>>

\* uniswapV3SwapCallback, of a pool that delivered VUX before.
SwapCallback(caller, vuxDelta, wethDelta) ==
  /\ caller = "pool"
  /\ ctx.type = "swap"
  /\ wethDelta > 0 /\ vuxDelta < 0
  /\ wethDelta <= ctx.max[2]
  /\ ConsumesAndPays(<<0, wethDelta>>)
  /\ held' = <<held[1] - vuxDelta, held[2] - wethDelta>>
  /\ UNCHANGED <<pool, polPrincipal, yielded, earned, moves>>

\* _requireConsumed
Consumed == ctx.type = "none"

Finish == op' = NoOp /\ UNCHANGED <<vuxFirst, ctx, held, yielded, earned, moves>>

\* The pool returns from mint, paid what it charges; what was paid is booked.
LiquidityAdded ==
  /\ op.kind = "mint" /\ Consumed
  /\ op.paid = ChargeFor(op.liquidity)
  /\ liquidity' = liquidity + op.liquidity
  /\ owed' = Plus(owed, pending) /\ pending' = Nothing
  /\ polPrincipal' = Plus(polPrincipal, op.paid)
  /\ Finish /\ UNCHANGED sqrtP

\* The pool returns from swap; the measured receipt must be large enough.
VuxBought(price) ==
  /\ op.kind = "swap" /\ Consumed
  /\ held[1] - op.before[1] >= op.minOut
  /\ sqrtP' = price
  /\ Finish /\ UNCHANGED <<liquidity, pending, owed, polPrincipal>>

\* The transaction fails and is undone.
Revert ==
  /\ op # NoOp
  /\ held' = op.before /\ ctx' = NoCtx /\ op' = NoOp
  /\ UNCHANGED <<pool, polPrincipal, yielded, earned, moves>>

-----------------------------------------------------------------------------
Credited == Plus(owed, pending)

\* harvestPol: poke, collect and classify the fees.
HarvestPol ==
  /\ op = NoOp /\ liquidity # 0
  /\ yielded' = Plus(yielded, Credited)
  /\ pending' = Nothing /\ owed' = Nothing
  /\ UNCHANGED <<vuxFirst, sqrtP, liquidity, treasury, earned, moves>>

\* A withdrawal that collects once, and takes what it collects for yield.
DecreaseInOneCollect(l) ==
  /\ op = NoOp /\ 0 < l /\ l <= liquidity
  /\ liquidity' = liquidity - l
  /\ yielded' = Plus(yielded, Plus(Credited, PayoutFor(l)))
  /\ pending' = Nothing /\ owed' = Nothing
  /\ UNCHANGED <<vuxFirst, sqrtP, treasury, earned, moves>>

\* decreasePol: the fees first, then the principal against its basis.
DecreasePol(l) ==
  /\ op = NoOp /\ 0 < l /\ l <= liquidity
  /\ yielded' = Plus(yielded, Credited)
  /\ pending' = Nothing /\ owed' = Nothing
  /\ liquidity' = liquidity - l
  /\ held' = Plus(held, PayoutFor(l))
  /\ polPrincipal' = LessAtZero(polPrincipal, PayoutFor(l))
  /\ UNCHANGED <<vuxFirst, sqrtP, ctx, op, earned, moves>>

\* What may happen inside of an operation.
Inside ==
  \/ \E caller \in {"pool", "other"}, demand \in Demands :
       \/ MintCallback(caller, demand)
       \/ SwapCallback(caller, -demand[1], demand[2])
  \/ MintCallback("pool", ChargeFor(op.liquidity))
  \/ LiquidityAdded
  \/ \E price \in Prices : VuxBought(price)
  \/ Revert

\* What the operator and anyone else may do with the position.
Outside ==
  \/ Move /\ \E max \in Commitments : MintPolPosition(max) \/ IncreasePol(max)
  \/ Move /\ \E buy \in Buys : BuyVuxForPol(buy[1], buy[2])
  \/ \E l \in Lots : DecreasePol(l) \/ GiveLiquidity(l)
  \/ HarvestPol
  \/ \E price \in Prices, fees \in Fees : Trade(price, fees)
  \/ \E amounts \in Fees : Receive(amounts)

-----------------------------------------------------------------------------
\* Every fee the position earned is still in the pool or was burned (VUX) or sent to
\* the Hard Reserve (WETH); principal and gifts never take that way, nor do fees
\* ever become inventory.  It depends on the order of decreasePol's pool calls.
FeesAreYield == Plus(yielded, Credited) = earned

\* Of an operation under way the pool got what the operation committed at most, in
\* one payment, whoever called back and how often; none leaves its permission behind.
PaymentsAreCommitted ==
  /\ op = NoOp => ctx = NoCtx
  /\ op # NoOp => /\ Within(op.paid, op.max)
                  /\ held[2] = op.before[2] - op.paid[2]
                  /\ held[1] >= op.before[1] - op.paid[1]
                  /\ ctx # NoCtx => op.paid = Nothing /\ ctx = [type |-> op.kind, max |-> op.max]

\* What the pool will charge for the liquidity asked of it never exceeds the
\* commitment, at any price and in either token order, though the treasury does
\* not know the position's own bounds in prices.
MintIsCovered ==
  op.kind = "mint" => Within(ChargeFor(op.liquidity), op.max)
=============================================================================
