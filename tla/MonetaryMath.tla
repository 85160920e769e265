---------------------------- MODULE MonetaryMath ----------------------------
(***************************************************************************)
(* The integer arithmetic of the monetary core (src/src/Rig.sol,           *)
(* src/src/HardReserve.sol), as operators without state.  Quantities are   *)
(* naturals: raw units of WETH and of VUX.  Rounding is part of every      *)
(* definition, because every property of the core rests on its direction.  *)
(***************************************************************************)
EXTENDS Integers

\* The routing constants are literals of Rig.sol.
SPLIT_KING_BP    == 8000
STRATEGIC_CAP_BP == 1200
BP_DENOM         == 10000
PRICE_MULTIPLIER == 2

AtMost(a, b)  == IF a <= b THEN a ELSE b
AtLeast(a, b) == IF a >= b THEN a ELSE b

(***************************************************************************)
(* OpenZeppelin Math.mulDiv, as the core uses it: the product is exact     *)
(* (a 512-bit intermediate), the division floors or, asked to, rounds up.  *)
(***************************************************************************)
MulDivUp(a, b, c) == ((a * b) + c - 1) \div c
MulDiv(a, b, c)   == (a * b) \div c

\* A ceiling that forgets to round up, and a floor that rounds up.
MulDivCeilFloors(a, b, c) == (a * b) \div c
MulDivCeil(a, b, c)       == MulDivUp(a, b, c)

-----------------------------------------------------------------------------
(***************************************************************************)
(* Rig._route: the three legs of a payment.  The King's share is fixed;    *)
(* the Hard Reserve takes what remains up to what the outgoing reign's raw *)
(* opportunity needs, never less than its floor; the Strategic leg is what *)
(* is left.                                                                *)
(***************************************************************************)
KingLeg(price)   == (price * SPLIT_KING_BP) \div BP_DENOM
Retained(price)  == price - KingLeg(price)
HardFloor(price) == Retained(price) - ((price * STRATEGIC_CAP_BP) \div BP_DENOM)

\* D_need: the contribution that backs the whole raw opportunity.
DNeed(qRaw, bPre, sPre) == IF qRaw = 0 THEN 0 ELSE MulDivCeil(qRaw, bPre, sPre)

Route(price, qRaw, bPre, sPre) ==
  LET hard == AtMost(Retained(price),
                     AtLeast(HardFloor(price), DNeed(qRaw, bPre, sPre)))
  IN  [king |-> KingLeg(price), hard |-> hard, strategic |-> Retained(price) - hard]

(***************************************************************************)
(* Rig._vem: what the measured contribution dR may support without         *)
(* diluting backing per unit, and what is minted of the raw opportunity.   *)
(***************************************************************************)
QSafeRoundedUp(dR, sPre, bPre) == MulDivUp(dR, sPre, bPre)
QSafe(dR, sPre, bPre)          == MulDiv(dR, sPre, bPre)

QMint(dR, sPre, bPre, qRaw) == AtMost(qRaw, QSafe(dR, sPre, bPre))

(***************************************************************************)
(* HardReserve.redeem's payout, floored so the remainder stays behind.     *)
(***************************************************************************)
Payout(bPre, q, sPre) == MulDiv(bPre, q, sPre)

-----------------------------------------------------------------------------
(***************************************************************************)
(* Rig.currentPrice, with the epoch's age as an argument.  The subtrahend  *)
(* floors, so the price rounds up; from `period` on it is the floor, which *)
(* may lie above the opening.                                              *)
(***************************************************************************)
DutchPrice(opening, age, period, floor) ==
  IF age >= period THEN floor
  ELSE AtLeast(floor, opening - ((opening * age) \div period))

(***************************************************************************)
(* Rig.currentUPS: the rate halves every halvingPeriod since the public    *)
(* clock started and stops halving after maxHalvings (a right shift).      *)
(***************************************************************************)
UPSAfter(sinceStart, initialUPS, halvingPeriod, maxHalvings) ==
  initialUPS \div 2^AtMost(sinceStart \div halvingPeriod, maxHalvings)

(***************************************************************************)
(* Rig._successorOpening: twice the price paid, clamped to the width of    *)
(* the cell it is stored in, never below the minimum.                      *)
(***************************************************************************)
SuccessorOpeningUnclamped(price, minimum, cellMax) ==
  AtLeast(minimum, price * PRICE_MULTIPLIER) % (cellMax + 1)

SuccessorOpening(price, minimum, cellMax) ==
  AtLeast(minimum, IF price > cellMax \div PRICE_MULTIPLIER
                   THEN cellMax
                   ELSE price * PRICE_MULTIPLIER)
=============================================================================
