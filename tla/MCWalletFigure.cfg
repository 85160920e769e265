\* One press and two moves of the world around it.
CONSTANTS
  DECIMALS = 1
  None = None
  CHAIN_ID = accepted
  OtherChains = {elsewhere}
  PRICE_DIGITS = 0
  OpeningPrice = 12
  Decay = 5
  Holding = 14
  Supply = 40
  Backing = 13
  Settlements <- TwoSettlements
  Texts <- SomeTexts
  MaxRuns = 1
  MaxMoves = 2
SPECIFICATION Spec
INVARIANTS
  NeverChargedAboveShown
CHECK_DEADLOCK FALSE
