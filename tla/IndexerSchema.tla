---------------------------- MODULE IndexerSchema ----------------------------
(***************************************************************************)
(* What the indexer's tables may hold: the domains of the attributed       *)
(* columns (src/indexer/ponder.schema.ts, src/indexer/src/index.ts) and the*)
(* CHECK constraints applied at setup (src/indexer/src/schema-constraints.ts). *)
(***************************************************************************)
EXTENDS Integers, Sequences

Causes == {"genesis", "settlement_mint", "redemption_burn", "vyrf_burn",
           "other_authorized_burn"}

\* The classes of an inflow by their number on the chain; another is no flow.
STRATEGIC_CLASS == <<"ContributedPrincipal", "ReturnedPrincipal", "PolFeeYield",
                     "OtherRealizedRevenue">>

\* The class of an outflow of a kind.
OutflowClass == <<"Outflow:1", "Outflow:2", "Outflow:3", "Outflow:4">>

\* Class texts that match '%backing%' in some case.
BackingLabels == {"HardBacking", "backing"}

SupplyChange(delta, cause, refEpochId) ==
  [table |-> "supply_change", delta |-> delta, cause |-> cause, refEpochId |-> refEpochId]

Settlement(price, strategicLeg, otherLegs, qMint) ==
  [table |-> "settlement", price |-> price, strategicLeg |-> strategicLeg,
   otherLegs |-> otherLegs, qMint |-> qMint]

StrategicFlow(direction, class, amount) ==
  [table |-> "strategic_flow", direction |-> direction, class |-> class, amount |-> amount]

SPECS == {"legs_sum", "cause_domain", "class_is_never_backing", "direction_domain"}

TableOf(spec) ==
  CASE spec = "legs_sum"     -> "settlement"
    [] spec = "cause_domain" -> "supply_change"
    [] OTHER                 -> "strategic_flow"

\* A cause domain written down before the VYRF burn had a cause.
HoldsWithoutVyrf(spec, row) ==
  CASE spec = "legs_sum"               -> row.strategicLeg + row.otherLegs = row.price
    [] spec = "cause_domain"           -> row.cause \in Causes \ {"vyrf_burn"}
    [] spec = "class_is_never_backing" -> row.class \notin BackingLabels
    [] spec = "direction_domain"       -> row.direction \in {"in", "out"}

\* The CHECK expression of a spec on a row of its table.
Holds(spec, row) ==
  CASE spec = "legs_sum"               -> row.strategicLeg + row.otherLegs = row.price
    [] spec = "cause_domain"           -> row.cause \in Causes
    [] spec = "class_is_never_backing" -> row.class \notin BackingLabels
    [] spec = "direction_domain"       -> row.direction \in {"in", "out"}

\* The database takes a row that satisfies every CHECK of its table.
Admits(specs, row) == \A spec \in specs : TableOf(spec) = row.table => Holds(spec, row)
=============================================================================
