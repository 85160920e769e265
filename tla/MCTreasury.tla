----------------------------- MODULE MCTreasury -----------------------------
(***************************************************************************)
(* Model checking of the treasury's accounting, in two scenarios: one      *)
(* strategy through its whole life in two assets, and signals over two     *)
(* strategies.  The constants of the .cfg are those of the second.         *)
(***************************************************************************)
EXTENDS StrategicTreasury

CONSTANTS s1, s2

\* The unit asset can be admitted again, and another asset or mode beside it.
OneStrategy ==
  {<<s1, WETH, 3, UNITIZED>>, <<s1, VUX, 1, UNITIZED>>, <<s1, WETH, 2, CLAIM>>}

LedgerFlows == {<<WETH, 0>>, <<WETH, 1>>, <<WETH, 2>>, <<VUX, 1>>}

SignalFlows == {<<WETH, 2>>}

\* Each leg alone, and two at once.
FourLegs ==
  {<<WETH, 1, 0, 0, 0>>, <<WETH, 0, 1, 0, 0>>, <<WETH, 0, 0, 1, 0>>,
   <<WETH, 0, 0, 0, 1>>, <<WETH, 0, 1, 0, 1>>}

NoAllocations == {}

\* Reward lists with a repeated asset.
Rewards == {<<WETH, VUX, WETH>>, <<VUX>>}

NoRewards == {}

\* Two strategies for WETH, one of them UNITIZED in it; or in another asset.
TwoStrategies ==
  {<<s1, WETH, 3, NETTING>>, <<s2, WETH, 2, UNITIZED>>, <<s2, VUX, 2, UNITIZED>>}

NoSignals == {}

\* Repeated, crowded, zero-weight and ineligible entries.
SignalShapes ==
  {<<<<s1, 1>>, <<s1, 1>>>>, <<<<s1, 1>>, <<s2, 1>>>>,
   <<<<s1, 2>>, <<s2, 1>>, <<s1, 1>>>>, <<<<s2, 0>>, <<s1, 3>>>>}

\* No change of principalUnits(), a growth and a shrinkage.
UnitChangesSeen == {-1, 0, 1}

-----------------------------------------------------------------------------
Life == INSTANCE StrategicTreasury WITH
  Strategies <- {s1}, Admittable <- OneStrategy, Flows <- LedgerFlows,
  Allocations <- FourLegs, UnitAmounts <- {1, 2}, RewardLists <- Rewards,
  Signals <- NoSignals, SignalTotals <- {1},
  MaxHeld <- 3, MaxRevenue <- 2, MaxAllocations <- 1

VARIABLE scenario

MCInit == Init /\ scenario \in {"life", "signals"}

MCNext ==
  /\ CASE scenario = "life" -> Life!Next
       [] scenario = "signals" -> Next
  /\ UNCHANGED scenario

MCSpec == MCInit /\ [][MCNext]_<<vars, scenario>>
=============================================================================
