\* One strategy admitted for two assets under different modes.
CONSTANTS
  s1 = s1
  m1 = m1
  m2 = m2
  WETH = WETH
  VUX = VUX
  Strategies = {s1}
  Assets = {WETH, VUX}
  Modules = {m1, m2}
  OpsPayees = {payee}
  NoOne = NoOne
  ADMISSION_DELAY = 2
  Admittable <- TwoAssets
  Flows <- Flow
  Allocations <- NoInput
  UnitAmounts = {1}
  UnitChanges = {0}
  RewardLists <- NoInput
  Signals <- NoInput
  SignalTotals = {1}
  MaxHeld = 1
  MaxRevenue = 0
  MaxUnits = 1
  MaxTime = 6
  MaxAllocations = 1
SPECIFICATION PolicySpec
PROPERTIES
  ModeChangeRerunsDelay
CHECK_DEADLOCK FALSE
