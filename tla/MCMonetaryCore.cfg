\* Two users, epochs of 3 seconds, two halvings 2 seconds each.
CONSTANTS
  alice = alice
  bob = bob
  Users = {alice, bob}
  Reserve = Reserve
  Treasury = Treasury
  Pool = Pool
  RigAddress = RigAddress
  EPOCH_PERIOD = 3
  HALVING_PERIOD = 2
  MAX_HALVINGS = 2
  INITIAL_UPS = 4
  BOOTSTRAP_OPENING = 24
  MINIMUM_OPENING = 11
  DECAY_FLOOR = 7
  UINT192_MAX = 64
  GENESIS_POL_SUPPLY = 21
  B0 = 7
  GENESIS_TIME = 1
  UserWeth = 130
  Amounts = {7}
  MaxPrices = {20, 64}
  Recipients = {alice, Reserve}
  WethMoves <- IncomePaths
  VuxMoves <- TradePaths
  TimeSteps = {1, 3}
  MaxTime = 9
  MaxEpochId = 3
SPECIFICATION Spec
INVARIANTS
  TypeOK
  SupplyIsComplete
  IssuancePacedByClock
PROPERTIES
  BackingPerUnitNeverFalls
  StrategicOnlyAfterFullIssuance
  SettlementStrandsNothing
  PriceLadder
  EstimateMatchesSettlement
  AnnouncedNeedSuffices
  ImplementsLedger
CHECK_DEADLOCK FALSE
