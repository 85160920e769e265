\* A launch after up to two donations, in either token order, and three moves after it.
CONSTANTS
  Q96 = 16
  MIN_SQRT_RATIO = 1
  MAX_SQRT_RATIO = 256
  SqrtLower = 2
  SqrtUpper = 128
  Prices = {2, 12, 20}
  Commitments <- SomeCommitments
  Buys <- SomeBuys
  Demands <- SomeDemands
  Fees <- SomeFees
  Lots = {3}
  MaxMoves = 3
  GENESIS_POL_SUPPLY = 9
  GENESIS_RESERVE_SEED = 1
  PREMIUM_NUM = 11
  PREMIUM_DEN = 10
  ParamSets <- SomeParams
  MaxDonations = 2
SPECIFICATION Spec
INVARIANTS
  FeesAreYield
  PaymentsAreCommitted
  MintIsCovered
  LaunchIsExact
CHECK_DEADLOCK FALSE
