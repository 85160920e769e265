# A TLA+ verification of VUX

VUX is a game on a chain: whoever pays the current price in WETH takes a single
throne, and the payment is divided between the departing King, a redemption
reserve and a separate treasury, while the departing King is minted only the VUX
that the newly arrived reserve backing supports. This directory holds TLA+ models
of the contracts that keep the money, of the launch that sets them up, of the
indexer that re-tells their history, and of the web application that shows it and
sends the user's transactions; TLC configurations that check the models on small
instances; and TLAPS proofs about them. All paths below are relative to the
repository, which the `map` of `PROJECT.json` calls `src/`; so the contracts are
`src/src/*.sol`.

Run a model with `tlc -config X.cfg M`, a proof module with `tlapm M.tla`.

## 1. The system

| Part | Where | State | Operations |
|---|---|---|---|
| Rig | `src/src/Rig.sol` | the open reign: `king`, `epochStart`, `epochOpening`, `epochUPS`, `scheduleStart`, `epochId`; `totalStrategicContributed` | `take` |
| Hard Reserve | `src/src/HardReserve.sol` | its WETH balance and its seed of one VUX | `redeem`; receives WETH by transfer |
| VUX | `src/src/VUX.sol` | balances, `totalSupply`, one-time wiring | `mint` (Rig), `burnForRedemption` (Reserve), `burn` (anyone), transfers |
| Lens | `src/src/Lens.sol` | none | recomputes the settlement law from public views |
| Strategic Treasury, accounting | `src/src/StrategicTreasury.sol` | admissions, limits, `outstandingPrincipal`, `unitsHeld`, `realizedRevenue`, `signalerBudget`, `lsgModule`, `opsRecipient` | admit, remove, close, deploy, recall, return, harvest, redeem units, allocate, burn revenue, signal deployment |
| Strategic Treasury, POL position | the same file, 900-1250 | one Uniswap v3 position, its principal, a one-shot callback context | mint, increase, decrease, buy, harvest, two callbacks |
| Genesis | `src/src/GenesisDeployer.sol`, `v3core/VuxPoolDeployer.sol` | deployment step, predicted addresses, pool handshake | one deployment transaction |
| Price encoding | `src/tools/offchain/encode-sqrt-p0.mjs` | none | encodes and verifies the recorded price |
| Indexer | `src/indexer/src/index.ts`, `src/indexer/src/lib/reconstruct.mjs` | rows in tables, pairing slots | a handler per event; a fold over logs |
| Indexer start, API, gate | `src/indexer/src/schema-constraints.ts`, `src/indexer/src/api/index.ts`, `src/indexer/scripts/verify-ponder-runtime.mjs` | CHECKs in the database's catalog | apply, verify and probe each CHECK; serve; judge a build |
| Web reads | `src/web/lib/protocol.js`, `src/web/app/page.jsx` | a value or a reason per hook | poll, answer, fail, age out |
| Web transactions | `src/web/components/WalletFlows.jsx`, `src/web/lib/units.js` | the state of a flow | approve and take; redeem |
| Strategy adapters, LSG modules | `src/src/interfaces` | not ours | called by the treasury |

**How the parts meet.** `Rig.take` pulls WETH from the contender, pays the
treasury and the Reserve, *measures* what the Reserve received, mints VUX to the
departing King against it, then pays the King. The Reserve burns VUX and pays WETH.
The treasury never calls the core: its Strategic leg arrives as a bare transfer it
is not told about. It calls strategy adapters and signal modules, and measures its
own balance around those calls; it calls the pool, which calls it back for the
payment. The launch creates all of them in one transaction and ends with the
treasury minting the first position. Every contract emits logs; the indexer
handles them one at a time in chain order and writes rows through CHECK
constraints of its database; the web reads the Lens through an RPC node and the
settled history from the indexer's API, and sends takes and redemptions through the
user's wallet.

**What is hard here.** Nothing in the contracts runs concurrently inside a
transaction except the pool's callbacks, but contenders, redeemers, donors, traders
and the clock interleave freely between transactions, and every formula divides by
quantities the others move. The rounding of its divisions has to point the right
way. The bootstrap reign follows other rules than the first public reign, which
follows other rules than the rest. The treasury's ledgers see long legal sequences
(remove, write off, re-admit, redeem) that nobody writes a test for. The launch
happens at addresses anybody can send WETH to beforehand. The indexer must
attribute a burn to an event that arrives after it, with several equal amounts in a
transaction, across re-reads, crashes and reorganisations; its constraints must
stand on the tables that are written, not on a namesake. The web's polls overlap
and answer late, and a transaction flow awaits a wallet while the user presses
again, leaves the page or switches chains. `PROJECT.json` lists these hazards at
their lines, with the property that covers each.

**What makes each part correct.**

* *Core*: backing per unit never falls; the supply in the denominators is
  complete; the Reserve and its seed cannot be drained; the bootstrap happens once;
  a reign earns the rate it opened with and issuance is paced by the clock; a
  settlement strands no WETH; the treasury is paid only after full issuance; the price
  moves only as the auction says.
* *Lens*: what it announces is what a settlement in the same block does.
* *Treasury*: distributable revenue is exactly what was earned and not spent; every
  principal and unit stays within reach of the operation that ends it; exposure
  stays within matured, capped admissions; a signal cannot revert or overspend.
* *POL position*: every fee becomes yield and nothing else does; the pool is paid
  what an operation committed, once; what the estimate affords, the commitment pays.
* *Genesis*: acceptable inputs launch exactly, whatever was donated; others do not.
* *Indexer*: supply, principal, flows and causes match the chain through every
  disturbance; the two reconstructions agree; a running indexer holds and
  serves lawful rows only; no lawful log stops it; the gate passes only a build that
  indexed the whole scenario.
* *Web*: a figure shown as live is recent; an outage comes to be shown and a
  recovered chain comes back; a press is charged at most the price of the render it
  was made in, at most once, on the accepted chain; the figure above the button is no
  less than the charge (it is not: section 4); a redemption burns exactly what was typed.

## 2. The modules

| Module | Models | Builds on |
|---|---|---|
| `MonetaryMath` | pure arithmetic of `Rig.sol` (price decay, split, `_route`, `_vem`, rate schedule) and of `HardReserve.redeem` | |
| `MonetaryCore` | Rig, Hard Reserve, VUX and the WETH balances they move | `MonetaryMath` |
| `BackingLedger` | abstract: what a VUX holder is promised | |
| `Lens` | `Lens.sol` beside the core it reads | `MonetaryCore` |
| `StrategicTreasury` | the treasury's registry, ledgers, distribution and signal boundary | |
| `PriceMath` | price encoding, affordable liquidity, a Uniswap v3 position's amounts | `MonetaryMath` |
| `PolPosition` | the position, the pool and whoever trades, gives or calls back | `PriceMath` |
| `Genesis` | the launch, composed with the position it creates and that lives on | `PolPosition` |
| `IndexerSchema` | rows, domains and CHECK expressions, shared by both indexer models | |
| `SupplyIndexer` | the chain's logs, all handlers and tables, and their disturbances | `IndexerSchema` |
| `Reconstruct` | the standalone fold over the same chain | `SupplyIndexer` |
| `SchemaConstraints` | the start of the indexer over any database, and its API | `IndexerSchema` |
| `RuntimeGate` | the gate that starts the indexer and judges it | `SchemaConstraints` |
| `WebRead` | the polling hooks and what the throne page shows of them | |
| `Units` | decimal text, raw units, displayed figures | |
| `WalletFlows` | both transaction flows, the wallet and the chain under them | `Units` |
| `MC*` | inputs for TLC; `MCTreasuryPolicy` adds a history variable for one documented sentence | the model each is named for |
| `FiniteSums`, `MonetaryCoreProofs`, `TreasuryProofs`, `PolProofs`, `StartupProofs`, `WebReadProofs`, `WalletProofs`, `SupplyIndexerProofs` | proofs (section 5) | the model each is named for |

### Conventions

*One action is one transaction* in the contracts, and one handled log in the
indexer; the exceptions are the operations during which the pool calls back, and the
launch, which are taken in steps. A revert undoes its transaction, so each check
that reverts is a guard. Names are the source's where TLA+ allows it. Definitions
named after a mistake (`HeadroomAtTheStart`, `ClaimSlotBlindly`, `PollOnMountOnly`,
...) are not used by any model: each replaces the definition after it to show that a
property notices the mistake; `PROJECT.json` pairs them under `mutants`. Amounts are
small naturals, not words of 256 bits: the sources use Solidity 0.8 checked
arithmetic and `Math.mulDiv`, whose overflow reverts. The exception is the opening
price, a `uint192` that is clamped in the code; its width is the constant
`UINT192_MAX`.

### MonetaryCore, BackingLedger, Lens

`weth` and `vux` are the two tokens' balances over the users, the Reserve, the
treasury, the pool and the Rig; the other variables are the Rig's storage, `now`
is `block.timestamp` and `minted` a history of issuance.

`Take` is the whole of `Rig.take`, in the code's order: read price, backing and
supply; route the payment into legs; pull, pay the treasury, pay the Reserve (at
bootstrap the King leg too); measure the contribution; reopen the throne with the
rate read *before* the public clock starts; mint; pay the King. `Redeem`, `Burn`,
`SendVux`, `SendWeth` (donations and the treasury's compound-to-Hard transfer) and
`Tick` are the rest. VUX taken by anyone may be sent to anyone, the Reserve
included, and a redeemer may send the payout back to the Reserve.

The initial state is what a completed genesis leaves: the Reserve holds `B0` WETH
and the seed of one raw unit, the pool holds the genesis inventory, the Reserve is
King, the clock has not started (`LaunchIsExact` of `Genesis` is the other half of
that seam). WETH is external and modelled as an ordinary ERC-20 that calls nobody;
the allowances a caller prepares are not tracked here but in `WalletFlows`.

`BackingLedger` knows only a backing `B` and a supply `S`, changed by `Issue`,
`Exit`, `Destroy` and `Accrete`, each of which leaves a unit with at least the
backing it had. `ImplementsLedger` says that the core refines it with
`B <- weth[Reserve]`, `S <- totalSupply`.

`EstimateIfDisplacedNow` and `WethNeededForFullQraw` are translated from `Lens.sol`
alone, which re-implements the law instead of calling it, so that drift between the
two copies would show. `hardStats` and `strategicContributed` repeat state.

### StrategicTreasury

The registry (`admissions`, `limits`, `strategyAssets`), the ledgers
(`outstandingPrincipal`, `unitsHeld`, `realizedRevenue`, `signalerBudget`), the
policy cells, and `held`, the treasury's real balances, which bare transfers grow
without any ledger knowing. `result` is a history: receipts less deployments, plus
recognised losses, less what was distributed. One action per external function.
What an adapter pays, which units and reward assets it reports and how a module
splits a signal are inputs: these contracts belong to others and the code trusts
its own measurements only. `AfterSignal` folds over the entries of a signal so
that each entry sees what earlier ones left, as the code's loop does; its `ok`
field records whether `_deploy` or the balance would refuse an entry, which
reverts the whole call. A signal is a sequence of pairs, so the code's check that
the two arrays have one length holds by construction.

### PolPosition and Genesis

`vuxFirst` is the token order, which depends on the predicted addresses; every
amount is a pair <<VUX, WETH>>, and `PairVuxWeth` is the code's translation.
`ctx` is the one-shot context, `op` the operation under way with what it committed
and what the pool got. `AddLiquidity` and `BuyVuxForPol` arm it; between that and
`LiquidityAdded` or `VuxBought`, *any* caller may call either callback with any
demand, any number of times (`Inside`); `Revert` undoes the operation at any point.
`HarvestPol` and `DecreasePol` make no callback and are one step each. `Trade`,
`GiveLiquidity` (anyone may mint liquidity to the treasury's position) and
`Receive` are the world. The pool is vendored: what it charges, pays and credits is
Uniswap v3's rule, the charge rounded up and the payout down.

`Genesis` starts with donations to the three predicted addresses and then takes the
ten steps of the constructor; `Goes` is a step whose checks hold or abort the launch.
The mint of step 7 is the position's own operation, called back by the pool. The
inputs are those of a completed recording: `sqrtP0X96` is what the tool encodes for
the recorded price, which is within the pool's price domain or the tool refuses it.
The deployer itself compares the price of the pool with the input and never with `P0`;
that the two agree is the tool's job, and the property's.

### IndexerSchema, SupplyIndexer and Reconstruct

`chain` is the sequence of logs; operations append their logs in the order the
contracts emit them, to the transaction under way, so any composition of calls
into one transaction occurs. (A zero burn by the Reserve logs a Transfer of zero;
the treasury skips zero burns; a second settlement in one transaction has zero
opportunity.) The field `truth` is not visible to the indexer. Each handler is an
action; `ClaimSlot` and `RefineCause` are the two helpers that pair a row with its
cause through numbered slots. `Written` is the database: a row that some CHECK of
`IndexerSchema` refuses makes its handler throw, and the indexer stands still at
that log. Three disturbances are modelled: `Resync` re-reads logs over the tables
as they are; `Crash` falls back to the tables of an earlier transaction's end, as
ponder does after a crash within or between handlers; `Reorg` drops transactions
from the chain, which may or may not come back, with ponder putting the tables
back. `Reconstruct` evaluates the three passes of `reconstruct.mjs` on the same
chain, delivered backwards and twice.

### SchemaConstraints and RuntimeGate

A database has the live schema and others; each holds a copy of the tables that may
lack one or its column, and under the name of each CHECK stands nothing, the right
expression, one that takes everything or one that refuses everything (as after an
interrupted start, an earlier version or somebody else's migration). `Lookup`,
`AddConstraint`, `Verify` and `ProveItBites` are the awaited queries of a start, one
step each (those of a probe in one, for they leave nothing behind), with a kill
possible between any two; a probe runs on a clone with all the table's CHECKs. Rows
come from a decoder that may have drifted. `Serve` is the API, which answers from the
moment the process is up, also while constraints are being applied: each route with
its filter, and the flows route with its refusal of rows that say "backing".

`RuntimeGate` starts that indexer over an empty database, lets it index a recorded
scenario with two equal burns in one transaction, polls until two settlements are
served, then reads the changes and the statistics *while indexing goes on*, and
judges. Besides the build that is delivered it judges two broken ones, one that
collapses equal changes and one that attributes nothing.

### WebRead

One unit of time is a poll interval. A hook keeps a value or the reason it has none,
with two ages: of the stamp it was given on arrival, and of the value itself, which
only the checker knows. Polls overlap (`Poll` adds a read whatever is pending); a read is
answered with what the service had at any time since it was sent, or fails if the
service was down at some time of it; answers arrive in any order. `useTruth` ages a
value out, `useIndexer` does not. `ThronePage` is the banner and the tiers that
`page.jsx` computes from the hooks.

### Units and WalletFlows

A text is digits around a point, or no decimal. `runs` are presses of a button: each
is an asynchronous function that captured an argument and awaits the wallet or a
receipt. Presses do not exclude each other, leaving a page unmounts the component
without ending its runs, and `wallet.chain` may change between the check made at the
last render (`OnAcceptedChain`) and each signature (`SendsHere`, viem's own check
because the call names the chain). `mempool` holds signed transactions in nonce order;
`Include` executes or reverts the next one; a receipt resolves the wait either way. A
takeover by anyone is `Settle`: the price doubles, the Reserve gains and the departing
King, who may be the user (`reigning`), is minted VUX, which the user may then redeem.
A component that is mounted again has a state of its own, so what earlier runs report
is not shown (`page.before`). `MaximumShown` is the figure above the button, as a
reader takes it.

## 3. What TLC checks

Twelve runs: seven pass and five show a sentence of the repository violated.
Deadlock checking is off where a model stops at its named bounds and on in `WebRead`,
which runs for ever.

### Fairness

The contracts owe nobody progress (a throne may never be taken, a strategy never
recalled, a fee never harvested), so their specifications state none. Fairness is
weak, stated only for what the code or its runtime schedules by itself, and never
for users, services or faults:

* `WebRead`: `Tick` (timers of `setInterval` fire); the end of each RPC read (viem's
  transport gives up after its timeout, so a read is answered or fails); the end of
  an indexer read *while the indexer is up* (a `fetch` without a timeout may hang
  for as long as it is down).
* `SupplyIndexer`: `HandleNext`, ponder's event loop. A CHECK that refuses a row
  disables it, which is how a lawful log could stop the indexer for good.
* `RuntimeGate`: `Setup`, a function that awaits one query after the other.

### monetary_core (`MCMonetaryCore.cfg`, 707,287 states, depth 18)

Two users, epochs of 3 seconds, two halvings 2 seconds apart, 8 seconds, three
settlements. That covers the bootstrap settlement, the first public reign and a
later one, each settled within and after its epoch, at the same second as its
opening, and across halvings of the schedule; prices at the floor, in decay and
clamped at `UINT192_MAX`; redemptions, burns and donations in between, down to the
last redeemable unit. The bootstrap opening, the minimum, the floor and
the genesis supply are chosen so that each division leaves a remainder.

| Property | Says |
|---|---|
| `TypeOK` | the one type invariant; openings fit their cell |
| `SupplyIsComplete` | the denominator of every formula is the sum of all balances |
| `BackingPerUnitNeverFalls` | no step dilutes a unit |
| `SettlementStrandsNothing` | a settlement leaves the sum of all WETH as it was and none of it with the Rig: measured contribution, treasury leg and King leg make up the payment, in bootstrap and after |
| `IssuancePacedByClock` | total issuance is bounded by public time and by reigns |
| `StrategicOnlyAfterFullIssuance` | a treasury leg implies that the raw opportunity was minted whole (ceiling meets floor) |
| `PriceLadder` | a reign's price only decays; a takeover doubles it, up to the clamp |
| `EstimateMatchesSettlement`, `AnnouncedNeedSuffices` | the Lens tells the truth about this block |
| `ImplementsLedger` | refinement of `BackingLedger` |

### treasury (`MCTreasury.cfg`, 293,616 states, depth 23)

Two scenarios, chosen in the initial state and never mixed: the state space is the
union of both, and each property is checked in both. `Life` instantiates the module
for the first; the constants of the .cfg are the second's.

*Life*: one strategy, two assets, in the modes `UNITIZED` and `CLAIM` through
re-admission (the unit asset again, the other asset, the other mode; `NETTING`
accounts for principal as `CLAIM` does and is in the other scenario), two time steps
so that an admission matures and a later one is made after it; up to 3 of each asset,
2 units. Three units of principal over two units held is the smallest case where the
basis release rounds. `RevenueIsEarned` is the main property: revenue and earmarks
together equal the history's result plus the principal still out, whatever the order
of returns, recalls, redemptions, write-offs, harvests with repeated reward assets and
distributions. `UnitsAreRedeemable`, `CloseReachesEveryPrincipal` and
`RedemptionReleasesBasisFirst` say that the registry cannot cut a position off from
the operations that end it, nor recognise revenue ahead of its basis.

*Signals*: two strategies, one `UNITIZED`, and signals with repeated, crowded,
zero-weight and ineligible entries. `SignalNeverReverts` (one entry cannot make the
allocation revert) and `ExposureStaysWithinLimits` (no exposure grows beyond a matured
cap, and a signal spends at most what the operator put behind it).

### pol (`MCGenesis.cfg`, 361,890 states, depth 27)

A launch after up to two donations to any of the three predicted addresses, in either
token order, with good inputs and with inputs that have one mistake each; then three
moves of operator and world. `Q96` is 16 so that every encoding, estimate and charge
rounds; three prices put the position at its lower, a middle and its upper reach;
callbacks of anyone demand more than, exactly and less than what was committed, in
either token. Three moves reach the sequences that matter: earn a fee, be given
liquidity, decrease. `FeesAreYield`, `PaymentsAreCommitted`, `MintIsCovered`,
`LaunchIsExact`.

### indexer (`MCSupplyIndexer.cfg`, 204,709 states, depth 26)

All chains of three operations after genesis and the bootstrap settlement, in any
division into transactions, with one re-sync, crash or reorganisation anywhere, and
two slots per amount so that three equal burns exceed them (the code has 64).
`ReplicaMatchesChain` (supply, mints, contributed principal and every flow to the
unit), `CauseTotalsAreTrue` (a cause is never used twice or lost while the slots
suffice), `BurnTotalsAgree` (the fold agrees on supply, burned totals and flows, and
its backing with the Reserve), `ReplayChangesNothing`, and the liveness property
`EveryLogIsIndexed`: whatever disturbed it, the indexer gets to the end of the
chain, so no CHECK refuses what the protocol's logs produce.

### indexer_startup (`MCIndexerStartup.cfg`, 544,120 states, depth 40)

Two launches over every database described above (one foreign schema, a lawful and an
unlawful row for each constraint), or one launch under the gate with three polls.
`RunningIsLawful` is about the rows a running indexer holds and about its answers:
they are lawful too, and the flows route never has to refuse one, so its check is the
second line of defence that the comment above it says it is. While a start is applying
the constraints the API already answers from an earlier process's rows, and there the
property claims nothing. `PassMeansIndexed`, and the liveness property
`HealthyStartsRun`: over a healthy database a start gets through unless it is killed,
also when an earlier one was killed between two constraints.

### web_read (`MCWebRead.cfg`, 88,523 states, depth 17)

Both live reads of the throne page and the indexer's figure, a staleness limit and a
request timeout of one interval each, which is the smallest case in which an older
answer overtakes a newer one. The state keeps ages only, so the run covers behaviours
of any length. `ShownIsRecent` bounds the age of a live figure by the staleness limit
*plus* the request timeout: the code stamps on arrival, so the limit alone does not
hold. `OutageIsShown` and `RecoveryIsShown` are liveness.

### web_wallet (`MCWalletFlows.cfg`, 1,479,599 states, depth 24)

Two presses on either page, three moves of the world (price falls, displacement,
navigation, chain switches), takeovers that mint VUX to the departing King and ones
that do not, amounts of one decimal displayed without it so that the digit that is cut
matters, and texts that are exact, too precise, zero, a lone point and malformed.
`ChargedWithinPressedPrice` compares each charge with the *exact* price of the render in
which the button was pressed; the distance from there to the figure on screen is in
section 4. `AllowanceIsConfirmed`, `BurnsWhatWasTyped`.

## 4. What the code does otherwise than its comments say

Five runs each check one sentence of the repository and end in a counterexample.

| Run | Sentence | What happens |
|---|---|---|
| `treasury_modes` | `StrategicTreasury.sol:191-192`, `456-458`: a mode change "re-runs the maturity delay" | the delay restarts for the asset named in the re-admission; another asset that had matured is deployable under the new mode at once |
| `indexer_mints` | `index.ts:36-39`: both paths "agree on ATTRIBUTION" | of two settlements in one transaction the fold keeps the last, and books the first one's mint as genesis |
| `indexer_self_burns` | `reconstruct.mjs:251-254`: a self-burn "collides with none" | a self-burn before an equal redemption takes the redemption's cause |
| `web_figure` | `truth-copy.js:173-175`: "Maximum price you will pay", "This maximum is the price shown when you confirm … rather than charging you more"; `WalletFlows.jsx:149-150`: "the number shown above the button is the number that gets sent" | the figure is the price cut to six digits (`protocol.js:139-147`, `WalletFlows.jsx:192`), what is sent has eighteen (166, 176): a take at the exact price is charged more than the figure. The tests (`wallet-flows.spec.js:45`, `take-guard.spec.js:170`) use prices without digits to cut |
| `web_receipts` | `WalletFlows.jsx:17`: "Pending / success / revert are reported as what they are" | `waitForTransactionReceipt` resolves for a reverted transaction too and no status is looked at (168, 178, 237): a take that was overtaken is reported with `truth-copy.js:195`, "Transaction confirmed on chain" |

One is about operator policy, two are about labels in the read model, and two about what
a user is told. The guard itself is exact: no press is charged more than the price it
captured (`ChargedWithinPressedPrice`), so the figure understates the charge by less
than one displayed digit (`ChargeAlwaysWithinADigit`).

Three observations are recorded without a run of their own, because one call shows
each: `activateLSG` replaces an active module (`StrategicTreasury.sol:799-801`)
though the comment at 805-806 says "no in-place replacement"; a contract may redeem
and harvest equal amounts in one transaction, which `reconstruct.test.mjs:108-110`
says no path produces; and the runtime gate can fail a healthy build, because it
stops polling when two settlements are served, which it takes for the whole scenario
(`verify-ponder-runtime.mjs:159-161`), before the later burns are indexed.

## 5. What is proved

Eight modules, every leaf checked. A theorem holds for all values of the constants
that the model's named assumptions admit; the input sets and bounds of the runs are
assumed only to be of the right kind.

| Module | Theorems about | Properties |
|---|---|---|
| `MonetaryCoreProofs` | core, Lens | every property of `monetary_core`, type invariant and refinement included; besides, `WethIsConserved`, `ReserveNeverDrains`, `GenesisBackingHolds`, `OneBootstrap`, `ReignEarnsItsOpeningRate` |
| `TreasuryProofs` | treasury accounting | every property of `treasury` |
| `PolProofs` | launch and position | every property of `pol`: `FeesAreYield`, `PaymentsAreCommitted`, `MintIsCovered`, `LaunchIsExact`; besides, that the encoding of a price is within one unit of its square root |
| `SupplyIndexerProofs` | indexer, both reconstructions | `ReplicaMatchesChain`, `CauseTotalsAreTrue`, `ReplayChangesNothing`, `BurnTotalsAgree` |
| `StartupProofs` | indexer start, API and gate | `RunningIsLawful`, `PassMeansIndexed` |
| `WebReadProofs` | polling hooks | `ShownIsRecent` |
| `WalletProofs` | transaction flows, amounts | every property of `web_wallet`: `ChargedWithinPressedPrice`, `AllowanceIsConfirmed`, `BurnsWhatWasTyped`; besides, that no charge is a displayed digit above its figure, that a parsed amount is the number typed and that a displayed one is cut by less than its last digit |

**Core.** Assumed: distinct addresses, positive epoch and halving periods and
genesis time, openings within the cell (the Rig's constructor enforces it) and a
funded Reserve (genesis enforces it). `IInv` is `TypeOK`, `SupplyIsComplete`,
`ReserveNeverDrains`, `OneBootstrap` and a clock past genesis. None is inductive
alone: the backing stays positive under redemption only because the supply exceeds
what a redeemer holds by the seed; that in turn needs the supply to be the sum of all
balances; and a payment's legs are natural numbers only for a typed, positive
backing. From `IInv` follow the action properties and the refinement
`CoreImplementsLedger`; the remaining invariants are carried each by its own
induction on top of it. The arithmetic is in lemmas about the operators:
`NeedCovers` and `NeedMetMintsAll` (a contribution of the ceiling'd need makes the
floored safe issuance reach the raw one), `LegsExhaustThePrice`, `MintIsBacked`,
`PayoutIsAShare`, `PriceDecays`.

**Sums, minimal subsets and recursion.** `FiniteSums` proves what `SumFunction` does
under a change at one point, and that two sums over corresponding rows agree. The
library defines that sum by recursion over a chosen order, and the provers cannot
instantiate an induction principle, so the argument is by a minimal subset: among the
subsets for which a statement fails, take one of minimal cardinality, remove an
element, and reach a contradiction (`MinimalSubset`). The same with the least number
at which a statement fails (`LeastNumber`, `UpwardClosed`) replaces induction over
numbers, and `RecursionExists` and `RecursionsAgree` give each recursive function of
the models its defining equation, which its definition by CHOOSE does not.

**Treasury.** Assumed: distinct identities, a positive admission delay, finitely many
strategies. `IInv` is the type invariant, `UnitsAreRedeemable`,
`CloseReachesEveryPrincipal`, `RevenueIsEarned` and two strengthenings:
`UnitAssetIsKnown` (a unitized strategy has a unit asset) and `MaturedIsListed` (an
asset with a maturity is on the list that a close goes through), without which a
deployment could create principal that a close does not see. A signal is a fold over
its entries, so a lemma states what one entry keeps of the *pass invariant* and the
lemmas about `After` carry it along the list: what was spent, times the total weight,
plus the total times the weight of the entries left, is at most the total times the
total weight; so every share still fits. `SignalOutcome` gives from it what
`SignalNeverReverts` and `ExposureStaysWithinLimits` need.

**Launch and position.** Assumed: price bounds in order and natural amounts. `IInv`
is the types, the fee equation, the bounded payment, the coverage of an open mint, and
that no operation is open before the launch is far enough. The core of it is
arithmetic: the treasury estimates affordable liquidity as if the position reached
over the whole price domain, while the pool charges for the position's own narrower
bounds and rounds up, twice on one side; `Charge0IsCovered` and `Charge1IsCovered`
show each charge within its commitment, at the position's reach and beyond it
(`Reach0`), and `AffordableIsCovered` joins them for either token order.

**The launch.** Assumed besides: `Q96` positive. `LaunchInv` follows the constructor:
which of the checks have passed at each step, that the WETH and VUX of donors,
deployer, contracts and pool add up to what there was, and where each part is. At the
mint the pool's charge is within the principal, so that what is left for the treasury
and what the deployer returns are the differences the code computes, none negative.
That the pool's price is the recorded one rests on the integer square root: the tool's
Newton iteration is followed by two corrections, and these make the result the
floor whatever the iteration returned (`EncodingIsWithinOneUlp`).

**Indexer.** Assumed: amounts are natural numbers, there is a slot, and genesis mints
something. The hard part is the pairing. The
chain's own invariant says how an operation emits: it has at most one supply log, and
at most one later log in its transaction that names that amount as a cause; so in any
transaction and for any amount the claims never outnumber the changes before them
(`ClaimsHaveChanges`). On top of that, the tables' invariant (`Paired`) says that the slots
of a transaction and amount are filled in the order of its changes and consumed in
the order of its claims, up to `MAX_SLOTS` of each, and that a row's cause is the
default unless its slot is consumed, and then the consumer's. This describes the
tables as a function of the logs handled, which gives three properties: a log
handled again meets what it would write (`ReplayChangesNothing`); the rows correspond
to the logs one by one, so the sums are equal (`ReplicaMatchesChain`); and of each
cause as many slots are consumed as operations produced (`CauseTotalsAreTrue`). The
tables saved for a crash or a reorganisation satisfy the same invariant for the last
log of their transaction, and what is cut from the chain is beyond it.

**The fold.** `BurnTotalsAgree` compares it with the handlers, which claim causes from
the other end: there a cause takes the first open slot, here a burn takes the first
unused cause, and burns of equal amount need not get the same one. Only the totals
agree, and the proof compares both with a third thing, the amounts that the events
announce. `FoldInv`, which each position keeps, says that the changes that have a
cause have one each, and that a burn has gone without a redemption or a harvest that
fits it only for another that comes no later in the order of preference. So in the end
no such cause is left (`AllConsumed`): all burns of its amount would have used others,
but these burns are no fewer than the causes (`ClaimsHaveChanges`). On the side of the
handlers every cause has a slot of its own as long as the slots suffice
(`ReplicaTotal`).

**Start of the indexer and gate.** `IInv` says which CHECKs already *stand* (the right
expression on the live table) and that rows fit those. Two facts carry it: the
look-up leaves the live schema only for a missing table (`TargetIsLive`), and a
probe that bites leaves only the right expression (`ProbeStep`): one that refuses
everything refuses the good row, one that takes everything takes the bad one. An
answer given while the indexer runs is a selection of its rows, hence lawful and
never refused (`AnswerOK`).
`PassMeansIndexed` needs that the changes the gate judges are those of the scenario's
first n logs for some n (`GateInv`), since indexing goes on while it reads: one of the
causes it asks for is known only from the last log, so n is the whole scenario and the
build attributes; and a build that collapses equal changes shows the two equal burns
as one.

**Web reads.** `ShownIsRecent` follows from `StampBoundsAge`: a value is at most one
request timeout older than its stamp.

**Web transactions.** Assumed: digits are digits, `None` is not a pair, decimals are a
natural number. `AllowanceIsConfirmed` follows the captured maximum of a press through
the signature, which no other chain gets, and the mempool to the allowance, for any
number of presses. `ChargedWithinPressedPrice` needs `Kept`: every transaction that is
signed is found again in the mempool or among the executed ones, beside the press it
came from and with the argument that press captured; and a press whose take is signed
never waits for the wallet again, so it is charged at most once. The remaining
distance, between the price and the figure above the button
(`ChargeAlwaysWithinADigit`), is arithmetic of digits: `TenTo` and the value of a
digit string are recursive functions, and lemmas about padding, joining and cutting
strings give `ParsedToTheUnit` and `ShownBelowByADigit`.

**Only model-checked**: all liveness (`OutageIsShown`, `RecoveryIsShown`,
`EveryLogIsIndexed`, `HealthyStartsRun`); every invariant and every action property of
a passing run is proved. The runs that end in a counterexample need
no proof. **Out of the prover's reach** and so never claimed as theorems: liveness under
fairness and `ENABLED`, and modules that reach a `RECURSIVE` operator, of which the
models have none.

## 6. What the models take for granted

* The pool follows Uniswap v3's rules; WETH and VUX are ordinary ERC-20s.
* After a crash or a reorganisation ponder puts all tables back together, to the end
  of a transaction. Without that, a crash between `RefineCause`'s two writes would
  leave a claimed slot with an unattributed row.
* `current_schema()` is the schema that ponder builds into, and the API is up exactly
  while the process is.
* A CHECK under a spec's name is the spec's expression, or takes or refuses
  everything: one that is weaker but passes both probes is not excluded by the code.
* viem refuses to send from a wallet on another chain than the call names, and its
  transport times out; the wallet sends transactions in nonce order.
* The user has ample WETH.

## 7. Not modelled

* *Access control* of the treasury (roles and their two-step admin), except for who
  holds the roles through the launch: an action of the operator is always available.
* *A bare inflow during an adapter's call*: an adapter that moves the throne while the
  treasury measures its own balance (`StrategicTreasury.sol:604`).
* *Whether credited revenue is in the till*: deployments and POL operations do not
  reserve it (`StrategicTreasury.sol:1124`); the code promises only that a
  distribution reverts then. The position and the ledgers are separate models over
  the same treasury: neither reads the other's cells.
* *Genesis*: comparisons of bytecode hashes and immutable addresses; checks of
  arguments that the launch itself fixes or that no sensible recording fails: zero
  addresses (`GenesisDeployer.sol:235`, the constructors of the core and the
  treasury), openings beyond the cell (`Rig.sol:254-260`, a named assumption of the
  core), the pool parameters' domains (`VuxPoolDeployer.sol:108-111`).
* *Indexer*: paging limits and the GraphQL route of the API, its error for an unknown
  cause, the several queries behind one answer of `/stats`, `verify-ponder-codegen`;
  `checkSettlementLegs`, which keeps no state and whose laws are the `legs_sum` CHECK
  and `StrategicOnlyAfterFullIssuance`. A settlement log of `SupplyIndexer` carries legs
  that add up, so `legs_sum` never refuses one there (`SchemaConstraints` has rows it
  refuses); the asset of a flow is left out, and no flow has a class outside the four
  the treasury emits.
* *Web reads*: the reasons `no-rpc` and `no-indexer` (`protocol.js:79`, `119`): a build
  without a URL reads nothing.
* *Web*: wording and layout; the static-export check.
* *Vendored code, tooling other than the price encoding, rehearsal scripts,
  documents.*

## 8. Where it could go on

1. A model of the treasury that joins the ledgers with the position over one balance,
   for the hazard at `StrategicTreasury.sol:1124`, with an adapter that reenters the
   Rig for the one at 604.
