-------------------------------- MODULE Lens --------------------------------
(***************************************************************************)
(* The read-only projection of the core that the surfaces show             *)
(* (src/src/Lens.sol).  It recomputes the settlement law on its own from   *)
(* the Rig's public views, so it can drift from the law it describes.      *)
(***************************************************************************)
EXTENDS MonetaryCore

\* Tier 1, the ceiling from time.
RawClockLimit ==
  IF Bootstrap THEN 0 ELSE AtMost(now - epochStart, EPOCH_PERIOD) * epochUPS

\* A need announced with the floor.
LensDNeedFloors(qRaw, b, s) == MulDiv(qRaw, b, s)

LensDNeed(qRaw, b, s) == IF qRaw = 0 THEN 0 ELSE MulDivCeil(qRaw, b, s)

\* What a settlement at `price` would deliver to the Reserve, without the King
\* leg that ends there too when the outgoing King is the Reserve.
HardToReserveOmitsBootstrap(price, qRaw, b, s) ==
  LET retained == price - ((price * SPLIT_KING_BP) \div BP_DENOM)
      floor    == retained - ((price * STRATEGIC_CAP_BP) \div BP_DENOM)
  IN  AtMost(retained, AtLeast(floor, LensDNeed(qRaw, b, s)))

HardToReserve(price, qRaw, b, s) ==
  LET kingLeg  == (price * SPLIT_KING_BP) \div BP_DENOM
      retained == price - kingLeg
      floor    == retained - ((price * STRATEGIC_CAP_BP) \div BP_DENOM)
      target   == AtMost(retained, AtLeast(floor, LensDNeed(qRaw, b, s)))
  IN  IF Bootstrap THEN target + kingLeg ELSE target

\* Tier 2, what a settlement in this block would mint, and its inputs.
EstimateIfDisplacedNow ==
  LET price == CurrentPrice
      qRaw  == RawClockLimit
      b     == weth[Reserve]
      s     == totalSupply
      toReserve == HardToReserve(price, qRaw, b, s)
      qSafe == MulDiv(toReserve, s, b)
  IN  [qMint |-> AtMost(qRaw, qSafe), price |-> price, qRaw |-> qRaw,
       qSafe |-> qSafe, toReserve |-> toReserve]

\* The contribution at which the open reign's whole raw opportunity mints.
WethNeededForFullQraw == LensDNeed(RawClockLimit, weth[Reserve], totalSupply)

-----------------------------------------------------------------------------
\* A settlement executed in this block does what the lens announced for it: it
\* mints that amount and the Reserve receives that contribution, in a bootstrap
\* settlement too (the parity test/lens/LensEstimateParity.t.sol samples).
EstimateMatchesSettlement ==
  [][epochId' # epochId =>
       LET e == EstimateIfDisplacedNow
       IN  /\ minted' - minted = e.qMint
           /\ weth[Reserve]' - weth[Reserve] = e.toReserve]_vars

\* The announced need is enough: a settlement that brings at least that much to
\* the Reserve mints the reign's raw opportunity in full.
AnnouncedNeedSuffices ==
  [][/\ epochId' # epochId
     /\ weth[Reserve]' - weth[Reserve] >= WethNeededForFullQraw
     => minted' - minted = RawClockLimit]_vars
=============================================================================
