-------------------------- MODULE StrategicTreasury --------------------------
(***************************************************************************)
(* The accounting of the Strategic Treasury (src/src/StrategicTreasury.sol)*)
(* without its POL position: the admission registry, the principal ledger  *)
(* per (strategy, asset), the unit ledger, the revenue accumulator and the *)
(* signal-driven deployment.                                               *)
(*                                                                         *)
(* One action is one transaction.  Strategy adapters and signal modules    *)
(* are other people's contracts: what they pay, which units and which      *)
(* reward assets they report and how they split a signal are inputs.  The  *)
(* treasury measures its own balance around every call into them.          *)
(***************************************************************************)
EXTENDS Integers, Sequences, FiniteSets, SequencesExt, Functions

CONSTANTS
  Strategies, Assets, WETH, VUX,
  Modules,             \* LSG modules that may be activated
  OpsPayees,           \* recipients of operating expenses
  NoOne,               \* address(0)
  ADMISSION_DELAY

\* Inputs of the actions, and the bounds of the behaviours that are looked at.
CONSTANTS
  Admittable,          \* <<strategy, asset, cap, mode>> the operator may admit
  Flows,               \* <<asset, amount>> deployed, received or spent
  Allocations,         \* <<asset, toCompound, toHard, toOps, toSignalers>>
  UnitAmounts,         \* units credited by a deposit or redeemed
  UnitChanges,         \* change of principalUnits() over a harvest
  RewardLists,         \* reward assets an adapter reports, in its order
  Signals,             \* sequences of <<strategy, weight>> a module answers
  SignalTotals,        \* WETH the operator puts behind a signal
  MaxHeld, MaxRevenue, MaxUnits, MaxTime, MaxAllocations

NETTING  == "NETTING"
CLAIM    == "CLAIM"
UNITIZED == "UNITIZED"
Modes    == {NETTING, CLAIM, UNITIZED}

ASSUME IdentitiesAssumption ==
  /\ IsFiniteSet(Strategies)
  /\ WETH \in Assets /\ VUX \in Assets /\ WETH # VUX
  /\ NoOne \notin Assets \cup Modules \cup OpsPayees

ASSUME DelayAssumption == ADMISSION_DELAY \in Nat \ {0}

ASSUME TreasuryInputAssumption ==
  /\ Admittable \subseteq Strategies \X Assets \X Nat \X Modes
  /\ Flows \subseteq Assets \X Nat
  /\ Allocations \subseteq Assets \X Nat \X Nat \X Nat \X Nat
  /\ UnitAmounts \subseteq Nat /\ UnitChanges \subseteq Int
  /\ RewardLists \subseteq Seq(Assets)
  /\ Signals \subseteq Seq(Strategies \X Nat)
  /\ SignalTotals \subseteq Nat

VARIABLES
  admissions,            \* strategy -> active, mode, unitAsset
  limits,                \* strategy, asset -> cap, maturesAt (0: never admitted)
  strategyAssets,        \* strategy -> assets ever admitted for it
  outstandingPrincipal,  \* strategy, asset -> cost basis of what is deployed
  unitsHeld,             \* strategy -> units of a UNITIZED position
  realizedRevenue,       \* asset -> credit that may be distributed
  signalerBudget,        \* asset -> credit earmarked for signalers
  opsRecipient, lsgModule, allocationCount,
  held,                  \* asset -> balance of the treasury
  now,                   \* block.timestamp
  result                 \* history: asset -> receipts - deployed + losses - spent

registry == <<admissions, limits, strategyAssets>>
ledger   == <<outstandingPrincipal, unitsHeld, realizedRevenue, signalerBudget,
              held, result>>
policy   == <<opsRecipient, lsgModule, allocationCount>>
vars     == <<registry, ledger, policy, now>>

Nothing == [a \in Assets |-> 0]

Init ==
  /\ admissions = [s \in Strategies |->
                     [active |-> FALSE, mode |-> NETTING, unitAsset |-> NoOne]]
  /\ limits = [s \in Strategies |-> [a \in Assets |-> [cap |-> 0, maturesAt |-> 0]]]
  /\ strategyAssets = [s \in Strategies |-> {}]
  /\ outstandingPrincipal = [s \in Strategies |-> Nothing]
  /\ unitsHeld = [s \in Strategies |-> 0]
  /\ realizedRevenue = Nothing
  /\ signalerBudget = Nothing
  /\ opsRecipient = NoOne /\ lsgModule = NoOne /\ allocationCount = 0
  /\ held = Nothing
  /\ now = 1
  /\ result = Nothing

Least(a, b) == IF a <= b THEN a ELSE b

\* f with x more at one asset.
Plus(f, a, x) == [f EXCEPT ![a] = @ + x]

-----------------------------------------------------------------------------
\* A mode change that only asks that the strategy be removed.
ModeMayChangeOnRemoval(s) == ~admissions[s].active

\* A mode is replaced only out of the registry and with an empty unit ledger.
ModeMayChange(s) == ~admissions[s].active /\ unitsHeld[s] = 0

\* The unit asset is kept through a re-admission, and forgotten with the mode.
UnitAssetAfter(s, asset, mode) ==
  LET kept == IF admissions[s].mode # mode THEN NoOne ELSE admissions[s].unitAsset
  IN  IF mode = UNITIZED /\ kept = NoOne THEN asset ELSE kept

\* A list of admitted assets that starts over at each admission.
AssetsAfterRestart(s, asset) == {asset}

AssetsAfterAdmission(s, asset) == strategyAssets[s] \cup {asset}

\* admitStrategy: every admission, also of a new cap, restarts this asset's delay.
AdmitStrategy(s, asset, cap, mode) ==
  /\ admissions[s].mode # mode => ModeMayChange(s)
  /\ admissions' = [admissions EXCEPT ![s] =
       [active |-> TRUE, mode |-> mode, unitAsset |-> UnitAssetAfter(s, asset, mode)]]
  /\ limits' = [limits EXCEPT ![s][asset] =
       [cap |-> cap, maturesAt |-> now + ADMISSION_DELAY]]
  /\ strategyAssets' = [strategyAssets EXCEPT ![s] = AssetsAfterAdmission(s, asset)]
  /\ UNCHANGED <<ledger, policy, now>>

\* removeStrategy: instant; limits and principal stay for recall and return.
RemoveStrategy(s) ==
  /\ admissions[s].active
  /\ admissions' = [admissions EXCEPT ![s].active = FALSE]
  /\ UNCHANGED <<limits, strategyAssets, ledger, policy, now>>

-----------------------------------------------------------------------------
\* The cells a deployment changes, so that a signal can deploy several times.
Cells == [outstanding |-> outstandingPrincipal, units |-> unitsHeld,
          weth |-> held[WETH], ok |-> TRUE]

\* A cap that bounds one deployment instead of the exposure.
WithinCapOfThisDeployment(outstanding, amount, cap) == amount <= cap
WithinCap(outstanding, amount, cap) == outstanding + amount <= cap

\* The checks of _deploy: admitted, in its unit asset, matured, within the cap.
CanDeploy(outstanding, s, asset, amount) ==
  /\ admissions[s].active
  /\ admissions[s].mode = UNITIZED => asset = admissions[s].unitAsset
  /\ limits[s][asset].maturesAt # 0
  /\ now >= limits[s][asset].maturesAt
  /\ WithinCap(outstanding[s][asset], amount, limits[s][asset].cap)

\* Units are counted for a UNITIZED position, by the adapter's measured change.
UnitsAfterDeploy(units, s, gained) ==
  IF admissions[s].mode = UNITIZED THEN [units EXCEPT ![s] = @ + gained] ELSE units

\* deployToStrategy.
DeployToStrategy(s, asset, amount, gained) ==
  /\ CanDeploy(outstandingPrincipal, s, asset, amount)
  /\ held[asset] >= amount
  /\ unitsHeld[s] + gained <= MaxUnits
  /\ outstandingPrincipal' = [outstandingPrincipal EXCEPT ![s][asset] = @ + amount]
  /\ unitsHeld' = UnitsAfterDeploy(unitsHeld, s, gained)
  /\ held' = Plus(held, asset, -amount)
  /\ result' = Plus(result, asset, -amount)
  /\ UNCHANGED <<registry, realizedRevenue, signalerBudget, policy, now>>

\* Both bounds on what a call may bring in.
Bounded(asset, received) ==
  /\ held[asset] + received <= MaxHeld
  /\ realizedRevenue[asset] + signalerBudget[asset] + received <= MaxRevenue

\* A return that retires as much principal as arrives, owed or not.
PrincipalPartUnclamped(outstanding, received) == received

\* Principal first: only the excess over what is outstanding is revenue.
PrincipalPart(outstanding, received) == Least(received, outstanding)

\* _classifyReturn, of a measured receipt.
ClassifyReturn(s, asset, received) ==
  LET principalPart == PrincipalPart(outstandingPrincipal[s][asset], received)
  IN  /\ outstandingPrincipal' =
           [outstandingPrincipal EXCEPT ![s][asset] = @ - principalPart]
      /\ realizedRevenue' = Plus(realizedRevenue, asset, received - principalPart)
      /\ held' = Plus(held, asset, received)
      /\ result' = Plus(result, asset, received)
      /\ UNCHANGED <<registry, unitsHeld, signalerBudget, policy, now>>

\* recallFromStrategy: not gated on admission; the adapter pays what it pays.
RecallFromStrategy(s, asset, received) ==
  /\ Bounded(asset, received)
  /\ ClassifyReturn(s, asset, received)

\* returnFor: anyone may, for an asset with principal out or ever admitted.
ReturnFor(s, asset, received) ==
  /\ outstandingPrincipal[s][asset] # 0 \/ limits[s][asset].maturesAt # 0
  /\ Bounded(asset, received)
  /\ ClassifyReturn(s, asset, received)

\* A loop that credits a reward asset as often as the adapter lists it.
YieldCountsDuplicates(rewards, gained) ==
  [a \in Assets |-> Len(SelectSeq(rewards, LAMBDA r : r = a)) * gained]

\* What a harvest credits: the measured gain of each reported asset, once.
Yield(rewards, gained) == [a \in Assets |-> IF Contains(rewards, a) THEN gained ELSE 0]

\* harvestYield: anyone may; the position's units may not shrink.  Assets that
\* are not reported are not measured, so only the reported ones receive here.
HarvestYield(s, rewards, gained, unitsChange) ==
  /\ admissions[s].mode # NETTING
  /\ unitsChange >= 0
  /\ \A a \in ToSet(rewards) : Bounded(a, gained)
  /\ realizedRevenue' = [a \in Assets |-> realizedRevenue[a] + Yield(rewards, gained)[a]]
  /\ held' = [a \in Assets |-> held[a] + (IF a \in ToSet(rewards) THEN gained ELSE 0)]
  /\ result' = [a \in Assets |-> result[a] + (IF a \in ToSet(rewards) THEN gained ELSE 0)]
  /\ UNCHANGED <<registry, outstandingPrincipal, unitsHeld, signalerBudget, policy, now>>

\* A release that floors, and leaves basis behind with the remaining units.
BasisReleasedFloored(basis, units, total) == (basis * units) \div total
BasisReleased(basis, units, total) == ((basis * units) + total - 1) \div total

\* redeemUnits: proceeds beyond the released basis are revenue, a shortfall a loss.
RedeemUnits(s, units, amountOut) ==
  LET asset    == admissions[s].unitAsset
      released == BasisReleased(outstandingPrincipal[s][asset], units, unitsHeld[s])
  IN  /\ admissions[s].mode = UNITIZED
      /\ units # 0 /\ units <= unitsHeld[s]
      /\ Bounded(asset, amountOut)
      /\ unitsHeld' = [unitsHeld EXCEPT ![s] = @ - units]
      /\ outstandingPrincipal' = [outstandingPrincipal EXCEPT ![s][asset] = @ - released]
      /\ realizedRevenue' = Plus(realizedRevenue, asset,
                                 IF amountOut > released THEN amountOut - released ELSE 0)
      /\ held' = Plus(held, asset, amountOut)
      /\ result' = Plus(result, asset,
                        amountOut + (IF amountOut > released THEN 0 ELSE released - amountOut))
      /\ UNCHANGED <<registry, signalerBudget, policy, now>>

\* closeStrategy: what a removed strategy still owes is written off as a loss,
\* in every asset it was admitted for; units stay for a late recovery.
CloseStrategy(s) ==
  /\ ~admissions[s].active
  /\ outstandingPrincipal' = [outstandingPrincipal EXCEPT ![s] =
       [a \in Assets |-> IF a \in strategyAssets[s] THEN 0 ELSE @[a]]]
  /\ result' = [a \in Assets |-> result[a] +
       (IF a \in strategyAssets[s] THEN outstandingPrincipal[s][a] ELSE 0)]
  /\ UNCHANGED <<registry, unitsHeld, realizedRevenue, signalerBudget, held, policy, now>>

-----------------------------------------------------------------------------
\* allocateRevenue: four legs, of which only the last stays earmarked.
AllocateRevenue(asset, toCompound, toHard, toOps, toSignalers) ==
  LET total == toCompound + toHard + toOps + toSignalers
  IN  /\ asset # VUX
      /\ toHard # 0 => asset = WETH
      /\ total <= realizedRevenue[asset]
      /\ toOps # 0 => opsRecipient # NoOne
      /\ held[asset] >= toHard + toOps
      /\ realizedRevenue' = Plus(realizedRevenue, asset, -total)
      /\ signalerBudget' = Plus(signalerBudget, asset, toSignalers)
      /\ held' = Plus(held, asset, -(toHard + toOps))
      /\ result' = Plus(result, asset, -(total - toSignalers))
      /\ UNCHANGED <<registry, outstandingPrincipal, unitsHeld, policy, now>>

\* burnVuxRevenue: exactly the credited VUX, and the whole credit.
BurnVuxRevenue ==
  LET amount == realizedRevenue[VUX]
  IN  /\ held[VUX] >= amount
      /\ realizedRevenue' = [realizedRevenue EXCEPT ![VUX] = 0]
      /\ held' = Plus(held, VUX, -amount)
      /\ result' = Plus(result, VUX, -amount)
      /\ UNCHANGED <<registry, outstandingPrincipal, unitsHeld, signalerBudget, policy, now>>

SetOpsRecipient(payee) ==
  /\ opsRecipient' = payee
  /\ UNCHANGED <<registry, ledger, lsgModule, allocationCount, now>>

\* activateLSG: the new module replaces whatever is active.
ActivateLSG(module) ==
  /\ lsgModule' = module
  /\ UNCHANGED <<registry, ledger, opsRecipient, allocationCount, now>>

DeactivateLSG ==
  /\ lsgModule # NoOne
  /\ lsgModule' = NoOne
  /\ UNCHANGED <<registry, ledger, opsRecipient, allocationCount, now>>

-----------------------------------------------------------------------------
\* _eligibleForSignal: admitted, in its unit asset, matured, with headroom left.
EligibleForSignal(outstanding, s) ==
  /\ admissions[s].active
  /\ admissions[s].mode = UNITIZED => WETH = admissions[s].unitAsset
  /\ limits[s][WETH].maturesAt # 0 /\ now >= limits[s][WETH].maturesAt
  /\ outstanding[s][WETH] < limits[s][WETH].cap

\* Headroom as it was before the signal.
HeadroomAtTheStart(outstanding, s) == limits[s][WETH].cap - outstandingPrincipal[s][WETH]

\* Headroom as the entries before this one have left it.
Headroom(outstanding, s) == limits[s][WETH].cap - outstanding[s][WETH]

Share(total, weight, totalWeight) == (total * weight) \div totalWeight

\* The first pass: the weights of the entries that are eligible before any deploys.
TotalWeight(signal) ==
  SumFunction([i \in DOMAIN signal |->
    IF EligibleForSignal(outstandingPrincipal, signal[i][1]) THEN signal[i][2] ELSE 0])

\* One entry of the second pass: its clamped share goes through _deploy, whose
\* refusal (or a balance that does not cover it) reverts the whole call.
AfterEntry(cells, entry, total, totalWeight, gained) ==
  LET s == entry[1]
      amount == Least(Share(total, entry[2], totalWeight), Headroom(cells.outstanding, s))
  IN  IF entry[2] = 0 \/ ~EligibleForSignal(cells.outstanding, s) \/ amount = 0
      THEN cells
      ELSE [outstanding |-> [cells.outstanding EXCEPT ![s][WETH] = @ + amount],
            units |-> UnitsAfterDeploy(cells.units, s, gained),
            weth  |-> cells.weth - amount,
            ok    |-> cells.ok /\ cells.weth >= amount
                               /\ CanDeploy(cells.outstanding, s, WETH, amount)]

\* The second pass: each entry sees what the ones before it left.
AfterSignal(signal, total, gained) ==
  LET weight == TotalWeight(signal)
      After[n \in 0..Len(signal)] ==
        IF n = 0 THEN Cells ELSE AfterEntry(After[n - 1], signal[n], total, weight, gained)
  IN  IF weight = 0 THEN Cells ELSE After[Len(signal)]

\* deployMarginalBySignal.
DeployMarginalBySignal(signal, total, gained) ==
  LET after == AfterSignal(signal, total, gained)
  IN  /\ lsgModule # NoOne
      /\ allocationCount < MaxAllocations
      /\ after.ok
      /\ \A s \in Strategies : after.units[s] <= MaxUnits
      /\ outstandingPrincipal' = after.outstanding
      /\ unitsHeld' = after.units
      /\ held' = [held EXCEPT ![WETH] = after.weth]
      /\ result' = Plus(result, WETH, after.weth - held[WETH])
      /\ allocationCount' = allocationCount + 1
      /\ UNCHANGED <<registry, realizedRevenue, signalerBudget, opsRecipient, lsgModule, now>>

\* fundSignalerProgram: the earmark is pushed to the active module.
FundSignalerProgram(asset, amount) ==
  /\ lsgModule # NoOne
  /\ amount <= signalerBudget[asset]
  /\ held[asset] >= amount
  /\ signalerBudget' = Plus(signalerBudget, asset, -amount)
  /\ held' = Plus(held, asset, -amount)
  /\ result' = Plus(result, asset, -amount)
  /\ UNCHANGED <<registry, outstandingPrincipal, unitsHeld, realizedRevenue, policy, now>>

\* A plain transfer in, the Strategic leg of a settlement above all: the
\* treasury is not called and books nothing.
BareInflow(asset, amount) ==
  /\ held[asset] + amount <= MaxHeld
  /\ held' = Plus(held, asset, amount)
  /\ UNCHANGED <<registry, outstandingPrincipal, unitsHeld, realizedRevenue,
                 signalerBudget, result, policy, now>>

Tick ==
  /\ now < MaxTime
  /\ now' = now + 1
  /\ UNCHANGED <<registry, ledger, policy>>

Administer ==
  \/ \E entry \in Admittable : AdmitStrategy(entry[1], entry[2], entry[3], entry[4])
  \/ \E s \in Strategies : RemoveStrategy(s)
  \/ \E s \in Strategies : CloseStrategy(s)
  \/ \E payee \in OpsPayees : SetOpsRecipient(payee)
  \/ \E module \in Modules : ActivateLSG(module)
  \/ DeactivateLSG

Move ==
  \/ \E s \in Strategies, flow \in Flows, gained \in UnitAmounts :
       DeployToStrategy(s, flow[1], flow[2], gained)
  \/ \E s \in Strategies, flow \in Flows : RecallFromStrategy(s, flow[1], flow[2])
  \/ \E s \in Strategies, flow \in Flows : ReturnFor(s, flow[1], flow[2])
  \/ \E s \in Strategies, rewards \in RewardLists, flow \in Flows, change \in UnitChanges :
       HarvestYield(s, rewards, flow[2], change)
  \/ \E s \in Strategies, units \in UnitAmounts, flow \in Flows :
       RedeemUnits(s, units, flow[2])
  \/ \E signal \in Signals, total \in SignalTotals, gained \in UnitAmounts :
       DeployMarginalBySignal(signal, total, gained)
  \/ \E flow \in Flows : BareInflow(flow[1], flow[2])

Distribute ==
  \/ \E legs \in Allocations : AllocateRevenue(legs[1], legs[2], legs[3], legs[4], legs[5])
  \/ BurnVuxRevenue
  \/ \E flow \in Flows : FundSignalerProgram(flow[1], flow[2])

Next == Administer \/ Move \/ Distribute \/ Tick

Spec == Init /\ [][Next]_vars

-----------------------------------------------------------------------------
TreasuryTypeOK ==
  /\ admissions \in [Strategies -> [active : BOOLEAN, mode : Modes,
                                    unitAsset : Assets \cup {NoOne}]]
  /\ limits \in [Strategies -> [Assets -> [cap : Nat, maturesAt : Nat]]]
  /\ strategyAssets \in [Strategies -> SUBSET Assets]
  /\ outstandingPrincipal \in [Strategies -> [Assets -> Nat]]
  /\ unitsHeld \in [Strategies -> Nat]
  /\ realizedRevenue \in [Assets -> Nat]
  /\ signalerBudget \in [Assets -> Nat]
  /\ opsRecipient \in OpsPayees \cup {NoOne}
  /\ lsgModule \in Modules \cup {NoOne}
  /\ allocationCount \in Nat
  /\ held \in [Assets -> Nat]
  /\ now \in Nat
  /\ result \in [Assets -> Int]

OutstandingTotal(asset) ==
  SumFunction([s \in Strategies |-> outstandingPrincipal[s][asset]])

\* What may still be distributed of an asset is exactly what its strategies have
\* earned and nobody has spent: receipts above deployments, plus the cost still
\* deployed, plus the losses that were recognised.  A principal can be returned,
\* redeemed and written off in any order and never turns into revenue twice
\* (the ledger of deploy, recall, return, harvest, redeem, close and allocate).
RevenueIsEarned ==
  \A a \in Assets :
    realizedRevenue[a] + signalerBudget[a] = result[a] + OutstandingTotal(a)

\* Units exist only where redeemUnits can reach them, whatever removals and
\* re-admissions happened since they were bought.
UnitsAreRedeemable ==
  \A s \in Strategies : unitsHeld[s] > 0 =>
    /\ admissions[s].mode = UNITIZED
    /\ limits[s][admissions[s].unitAsset].maturesAt # 0

\* closeStrategy can write off every principal a strategy owes: its list of
\* assets never loses one that has a basis.
CloseReachesEveryPrincipal ==
  \A s \in Strategies, a \in Assets :
    outstandingPrincipal[s][a] > 0 => a \in strategyAssets[s]

\* A signal never trips a check of _deploy: repeated and crowded entries are
\* clamped, so that one entry cannot make the whole allocation revert.
SignalNeverReverts ==
  lsgModule # NoOne =>
    \A signal \in Signals, total \in SignalTotals, gained \in UnitAmounts :
      held[WETH] >= total => AfterSignal(signal, total, gained).ok

-----------------------------------------------------------------------------
\* Exposure grows only while the strategy is admitted and matured, and never past
\* its cap, whether the operator or a signal with repeated entries deploys; and a
\* signal deploys at most what the operator put behind it, however its entries
\* repeat and whichever of them drop out between the two passes.
ExposureStaysWithinLimits ==
  [][/\ \A s \in Strategies, a \in Assets :
          outstandingPrincipal'[s][a] > outstandingPrincipal[s][a] =>
            /\ admissions[s].active
            /\ limits[s][a].maturesAt # 0 /\ now >= limits[s][a].maturesAt
            /\ outstandingPrincipal'[s][a] <= limits[s][a].cap
     /\ allocationCount' # allocationCount =>
          \A signal \in Signals, total \in SignalTotals, gained \in UnitAmounts :
            DeployMarginalBySignal(signal, total, gained) => held[WETH] - held'[WETH] <= total]_vars

\* A redemption never leaves more basis per remaining unit than there was, and
\* the last one leaves none: revenue is never recognised ahead of the basis, which
\* is the basis in the asset the units were bought with, whatever the strategy is
\* re-admitted for while they are out.
RedemptionReleasesBasisFirst ==
  [][\A s \in Strategies :
       LET a == admissions[s].unitAsset
       IN  /\ unitsHeld'[s] < unitsHeld[s] =>
                outstandingPrincipal'[s][a] * unitsHeld[s]
                  <= outstandingPrincipal[s][a] * unitsHeld'[s]
           /\ unitsHeld[s] > 0 => admissions'[s].unitAsset = a]_vars
=============================================================================
