\* Chains of three operations in any division into transactions, one disturbance of the indexer.
CONSTANTS
  MAX_SLOTS = 2
  GenesisSupply = 4
  Takes <- SomeTakes
  RedeemAmounts = {1}
  SelfBurnAmounts = {1}
  Harvests <- SomeHarvests
  Recalls <- SomeRecalls
  DeployAmounts = {1}
  RevenueAmounts = {1}
  MaxOperations = 3
  MaxFaults = 1
SPECIFICATION Spec
INVARIANTS
  ReplicaMatchesChain
  CauseTotalsAreTrue
  BurnTotalsAgree
PROPERTIES
  ReplayChangesNothing
  EveryLogIsIndexed
CHECK_DEADLOCK FALSE
