\* Two presses on either page and three moves of the world around them.
CONSTANTS
  DECIMALS = 1
  None = None
  CHAIN_ID = accepted
  OtherChains = {elsewhere}
  PRICE_DIGITS = 0
  OpeningPrice = 12
  Decay = 5
  Holding = 14
  Supply = 40
  Backing = 13
  Settlements <- TwoSettlements
  Texts <- SomeTexts
  MaxRuns = 2
  MaxMoves = 3
SPECIFICATION Spec
INVARIANTS
  ChargedWithinPressedPrice
  AllowanceIsConfirmed
  BurnsWhatWasTyped
CHECK_DEADLOCK FALSE
