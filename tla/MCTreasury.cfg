\* Scenario "signals": two strategies, signals of up to three entries; scenario "life"
\* overrides what MCTreasury.tla names (one strategy in two assets).
CONSTANTS
  s1 = s1
  s2 = s2
  WETH = WETH
  VUX = VUX
  Strategies = {s1, s2}
  Assets = {WETH, VUX}
  Modules = {lsg}
  OpsPayees = {payee}
  NoOne = NoOne
  ADMISSION_DELAY = 1
  Admittable <- TwoStrategies
  Flows <- SignalFlows
  Allocations <- NoAllocations
  UnitAmounts = {1}
  UnitChanges <- UnitChangesSeen
  RewardLists <- NoRewards
  Signals <- SignalShapes
  SignalTotals = {1, 3, 4}
  MaxHeld = 4
  MaxRevenue = 0
  MaxUnits = 2
  MaxTime = 2
  MaxAllocations = 2
SPECIFICATION MCSpec
INVARIANTS
  TreasuryTypeOK
  RevenueIsEarned
  UnitsAreRedeemable
  CloseReachesEveryPrincipal
  SignalNeverReverts
PROPERTIES
  RedemptionReleasesBasisFirst
  ExposureStaysWithinLimits
CHECK_DEADLOCK FALSE
