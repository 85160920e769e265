\* Two operations of every kind.
CONSTANTS
  MAX_SLOTS = 2
  GenesisSupply = 4
  Takes <- OneMint
  RedeemAmounts = {1}
  SelfBurnAmounts = {1}
  Harvests <- OneHarvest
  Recalls = {}
  DeployAmounts = {}
  RevenueAmounts = {1}
  MaxOperations = 2
  MaxFaults = 0
SPECIFICATION Spec
INVARIANTS
  SelfBurnsAreDistinguished
CHECK_DEADLOCK FALSE
