------------------------------ MODULE PriceMath ------------------------------
(***************************************************************************)
(* The arithmetic of the POL position: the encoding of the genesis price   *)
(* (src/tools/offchain/encode-sqrt-p0.mjs), the liquidity that committed   *)
(* amounts afford (src/src/StrategicTreasury.sol), and the amounts a       *)
(* Uniswap v3 position stands for at a price.  A price is the square root  *)
(* of token1 per token0, in units of 1/Q96.                                *)
(***************************************************************************)
EXTENDS MonetaryMath

CONSTANTS Q96, MIN_SQRT_RATIO, MAX_SQRT_RATIO

ASSUME PriceAssumption ==
  /\ Q96 \in Nat \ {0} /\ MIN_SQRT_RATIO \in Nat \ {0} /\ MAX_SQRT_RATIO \in Nat
  /\ MIN_SQRT_RATIO < MAX_SQRT_RATIO

-----------------------------------------------------------------------------
\* isqrt: a power of two above the root, 1 << (bits + 1) / 2, ...
SeedOf(x) ==
  LET Power[y \in 0..x] == IF y = 0 THEN 1 ELSE 2 * Power[y \div 4]
  IN  Power[x]

\* ... Newton's iteration from it, ...
NewtonFrom(x, seed) ==
  LET Root[r \in 1..seed] ==
        LET next == (r + x \div r) \div 2 IN IF next >= r THEN r ELSE Root[next]
  IN  Root[seed]

\* ... and the correction of what it may miss, down and then up.
Lowered(x, root) ==
  LET Down[r \in 0..root] == IF r * r > x THEN Down[r - 1] ELSE r
  IN  Down[root]

Raised(x, root) ==
  LET Up[r \in 0..x] == IF (r + 1) * (r + 1) <= x THEN Up[r + 1] ELSE r
  IN  Up[root]

Isqrt(x) ==
  IF x < 2 THEN x ELSE Raised(x, Lowered(x, NewtonFrom(x, SeedOf(x))))

\* encodeSqrtP0X96: floor at both steps.
EncodeSqrtP0(n, d) == Isqrt((n * Q96 * Q96) \div d)

\* quantization: the encoding does not overstate n / d, and misses it by less than
\* one unit of the root.
WithinOneUlp(n, d, root) ==
  /\ root * root * d <= n * Q96 * Q96
  /\ n * Q96 * Q96 < (root + 1) * (root + 1) * d

-----------------------------------------------------------------------------
\* What the pool charges for liquidity l of token0 and token1 between two prices,
\* and what it pays out for it.
Charge0(l, lo, hi) == MulDivUp(MulDivUp(l * Q96, hi - lo, hi), 1, lo)
Charge1(l, lo, hi) == MulDivUp(l, hi - lo, Q96)
Payout0(l, lo, hi) == MulDiv(l * Q96, hi - lo, hi) \div lo
Payout1(l, lo, hi) == MulDiv(l, hi - lo, Q96)

\* _affordableLiquidity, each side.
From0(amount, p) == MulDiv(amount, MulDiv(p, MAX_SQRT_RATIO, MAX_SQRT_RATIO - p), Q96)
From1(amount, p) == MulDiv(amount, Q96, p - MIN_SQRT_RATIO)

\* An estimate that rounds up.
AffordableRoundedUp(amount0, amount1, p) == AtMost(From0(amount0, p), From1(amount1, p)) + 1

\* The lesser side, taken as if the position reached over the whole domain.
AffordableLiquidity(amount0, amount1, p) == AtMost(From0(amount0, p), From1(amount1, p))
=============================================================================
