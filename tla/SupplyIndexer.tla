---------------------------- MODULE SupplyIndexer ----------------------------
(***************************************************************************)
(* How the indexer turns the protocol's logs into attributed supply        *)
(* changes (src/indexer/src/index.ts): a row per mint or burn, written by  *)
(* the Transfer handler and refined by the handler of the event that       *)
(* caused it, which comes later in the same transaction.                   *)
(*                                                                         *)
(* The chain is a sequence of logs and a log's position is its identity    *)
(* (transaction hash and log index).  Transactions are composed of any     *)
(* protocol operations, in the order each emits its logs.  The indexer     *)
(* reads complete transactions.  A re-sync re-reads logs over the tables;  *)
(* after a crash, within a handler too, and after a reorganisation of the  *)
(* chain ponder puts all tables back to the end of a transaction.  A write *)
(* that a CHECK refuses makes its handler throw: the indexer stands still. *)
(***************************************************************************)
EXTENDS IndexerSchema, FiniteSets, SequencesExt, FiniteSetsExt, TLC

CONSTANTS
  MAX_SLOTS,         \* pairing slots probed per transaction and signed amount
  GenesisSupply,     \* minted by the token's constructor
  Takes,             \* <<qMint, strategicLeg>> of a settlement
  RedeemAmounts, SelfBurnAmounts, RevenueAmounts,
  Harvests,          \* <<VUX fees, WETH fees>> of a harvest
  Recalls,           \* <<principal, revenue>> of a return from a strategy
  DeployAmounts,
  MaxOperations,     \* operations in the chain after the bootstrap
  MaxFaults          \* re-syncs, crashes and reorganisations

ASSUME IndexerAssumption ==
  /\ MAX_SLOTS \in Nat \ {0} /\ GenesisSupply \in Nat \ {0}
  /\ Takes \subseteq Nat \X Nat
  /\ RedeemAmounts \subseteq Nat /\ SelfBurnAmounts \subseteq Nat
  /\ Harvests \subseteq Nat \X Nat /\ Recalls \subseteq Nat \X Nat
  /\ RevenueAmounts \subseteq Nat /\ DeployAmounts \subseteq Nat

SupplyEvents == {"Mint", "Burn"}

VARIABLES
  chain,          \* logs, of which only the truth field is unknown to the indexer
  tx,             \* number of the transaction under way
  pos,            \* logs the indexer has handled since its last re-sync
  highWater,      \* logs its tables account for
  saved,          \* transaction -> the tables at its end
  faults,         \* history: how often it was disturbed
  supplyChange,   \* row id -> SupplyChange row
  pairs,          \* slot id -> changeId, consumedBy (0: null)
  settlement,     \* epoch id -> Settlement row
  redemption,     \* row ids of redemptions
  strategicFlow   \* row id -> StrategicFlow row

onChain == <<chain, tx>>
rows    == <<settlement, redemption, strategicFlow>>
tables  == <<supplyChange, pairs, rows>>
reader  == <<pos, highWater, saved, faults>>
vars    == <<onChain, reader, tables>>

Log(event, amount) ==
  [tx |-> 0, op |-> 0, event |-> event, amount |-> amount,
   leg |-> 0, epoch |-> 0, class |-> 0, truth |-> ""]

\* A Transfer from or to zero, one of WETH into (+) or out of (-) the Reserve, the
\* cause of a burn, and the flows of the treasury.
SupplyLog(event, amount, truth) == [Log(event, amount) EXCEPT !.truth = truth]
WethLog(amount)         == Log("Weth", amount)
CauseLog(event, amount) == Log(event, amount)
SettledLog(qMint, leg, epoch) == [Log("Settled", qMint) EXCEPT !.leg = leg, !.epoch = epoch]
FlowLog(event, class, amount) == [Log(event, amount) EXCEPT !.class = class]

\* Logs as members of a transaction and of an operation of the chain.
Placed(logs, t, op) ==
  [i \in 1..Len(logs) |-> [logs[i] EXCEPT !.tx = t, !.op = op]]

\* The chain starts with the token's constructor and the bootstrap settlement.
Init ==
  /\ chain = Placed(<<SupplyLog("Mint", GenesisSupply, "genesis")>>, 0, 0)
               \o Placed(<<WethLog(1), SettledLog(0, 0, 1)>>, 1, 0)
  /\ tx = 2
  /\ pos = 0 /\ highWater = 0 /\ faults = 0 /\ saved = <<>>
  /\ supplyChange = <<>> /\ pairs = <<>>
  /\ settlement = <<>> /\ redemption = {} /\ strategicFlow = <<>>

operations == chain[Len(chain)].op

-----------------------------------------------------------------------------
\* The signed amount a supply log stands for.
Delta(log) == IF log.event = "Mint" THEN log.amount ELSE -log.amount

SupplyPositions(n) == {i \in 1..n : chain[i].event \in SupplyEvents}

SupplyAt(n) == SumFunction([i \in SupplyPositions(n) |-> Delta(chain[i])])

ChainSupply == SupplyAt(Len(chain))

EpochId == Cardinality({i \in 1..Len(chain) : chain[i].event = "Settled"})

Emit(logs) ==
  /\ operations < MaxOperations
  /\ chain' = chain \o Placed(logs, tx, operations + 1)
  /\ UNCHANGED <<tx, reader, tables>>

OnlyIf(condition, logs) == IF condition THEN logs ELSE <<>>

\* Rig.take pays the Reserve and mints, if anything, before it emits Settled.  A
\* second settlement of the same block finds an opportunity of zero seconds.
Take(qMint, leg) ==
  /\ (\E i \in 1..Len(chain) : chain[i].tx = tx /\ chain[i].event = "Settled") => qMint = 0
  /\ Emit(<<WethLog(1)>>
          \o OnlyIf(qMint # 0, <<SupplyLog("Mint", qMint, "settlement_mint")>>)
          \o <<SettledLog(qMint, leg, EpochId + 1)>>)

\* HardReserve.redeem burns, a zero amount too, and pays before it emits Redeemed.
Redeem(q) ==
  /\ q < ChainSupply
  /\ Emit(<<SupplyLog("Burn", q, "redemption_burn"), WethLog(-q), CauseLog("Redeemed", q)>>)

\* VUX.burn by a holder emits nothing else.
SelfBurn(q) ==
  /\ q < ChainSupply
  /\ Emit(<<SupplyLog("Burn", q, "other_authorized_burn")>>)

\* The treasury classifies, burns and pays the fees of its position, leg by leg and
\* unless the leg is empty, before it emits VyrfHarvest.
HarvestPol(q, w) ==
  /\ q < ChainSupply
  /\ Emit(OnlyIf(q # 0, <<FlowLog("Inflow", 3, q), SupplyLog("Burn", q, "vyrf_burn")>>)
          \o OnlyIf(w # 0, <<FlowLog("Inflow", 3, w), WethLog(w), FlowLog("Outflow", 2, w)>>)
          \o <<CauseLog("VyrfHarvest", q)>>)

\* It burns VUX revenue, unless there is nothing to burn, before it emits.
BurnVuxRevenue(q) ==
  /\ q < ChainSupply
  /\ Emit(OnlyIf(q # 0, <<SupplyLog("Burn", q, "other_authorized_burn")>>)
          \o <<CauseLog("VuxRevenueBurned", q)>>)

\* A return from a strategy is classified in principal and revenue.
ClassifyReturn(principal, revenue) ==
  /\ principal + revenue > 0
  /\ Emit(OnlyIf(principal # 0, <<FlowLog("Inflow", 2, principal)>>)
          \o OnlyIf(revenue # 0, <<FlowLog("Inflow", 4, revenue)>>))

DeployToStrategy(amount) == Emit(<<FlowLog("Outflow", 1, amount)>>)

\* The transaction under way ends and becomes visible to the indexer.
EndTransaction ==
  /\ chain[Len(chain)].tx = tx
  /\ tx' = tx + 1
  /\ UNCHANGED <<chain, reader, tables>>

-----------------------------------------------------------------------------
\* A row named by what it contains.
RowIdByContent(i) == <<chain[i].tx, Delta(chain[i])>>

\* A row is named by the log that carried it.
RowId(i) == <<chain[i].tx, i>>

SlotId(t, delta, k) == <<t, delta, k>>

\* The table with the row under that id.
With(table, id, row) ==
  [x \in DOMAIN table \cup {id} |-> IF x = id THEN row ELSE table[x]]

\* insert(...).onConflictDoNothing(): an existing row stays as it is.
Insert(table, id, row) == IF id \in DOMAIN table THEN table ELSE With(table, id, row)

\* The slots of a transaction and amount, in probing order, that satisfy P.
Slots(t, delta, P(_)) == {k \in 0..(MAX_SLOTS - 1) : P(SlotId(t, delta, k))}

\* A claim that appends blindly.
ClaimSlotBlindly(t, delta, id) ==
  LET free == Slots(t, delta, LAMBDA slot : slot \notin DOMAIN pairs)
  IN  IF free = {} THEN pairs
      ELSE With(pairs, SlotId(t, delta, Min(free)), [changeId |-> id, consumedBy |-> 0])

\* claimSlot: the first slot that is this row's already or is free.
ClaimSlot(t, delta, id) ==
  LET stop == Slots(t, delta, LAMBDA slot :
                slot \in DOMAIN pairs => pairs[slot].changeId = id)
      slot == SlotId(t, delta, Min(stop))
  IN  IF stop = {} \/ slot \in DOMAIN pairs THEN pairs
      ELSE With(pairs, slot, [changeId |-> id, consumedBy |-> 0])

\* A cause that matches by membership: it takes the first slot, used or not.
OpenToAny(slot, causeKey) == TRUE

\* A slot at which refineCause stops: missing, its own, or not consumed yet.
OpenTo(slot, causeKey) ==
  slot \in DOMAIN pairs => pairs[slot].consumedBy \in {0, causeKey}

\* refineCause: the first open slot is consumed and its row attributed; none, or
\* one that this very log consumed before, changes nothing.
RefineCause(i, delta, cause, ref) ==
  LET stop == Slots(chain[i].tx, delta, LAMBDA slot : OpenTo(slot, i))
      slot == SlotId(chain[i].tx, delta, Min(stop))
  IN  IF stop = {} \/ slot \notin DOMAIN pairs \/ pairs[slot].consumedBy = i
      THEN UNCHANGED <<supplyChange, pairs>>
      ELSE /\ pairs' = [pairs EXCEPT ![slot].consumedBy = i]
           /\ supplyChange' = [supplyChange EXCEPT
                ![pairs[slot].changeId].cause = cause,
                ![pairs[slot].changeId].refEpochId = ref]

-----------------------------------------------------------------------------
Tables == [supplyChange |-> supplyChange, pairs |-> pairs, settlement |-> settlement,
           redemption |-> redemption, strategicFlow |-> strategicFlow]

\* All tables are put back together.
PutBack(to) ==
  /\ supplyChange' = to.supplyChange /\ pairs' = to.pairs
  /\ settlement' = to.settlement /\ redemption' = to.redemption
  /\ strategicFlow' = to.strategicFlow

\* The next log to handle, if any: of a complete transaction, and of a contract the
\* indexer listens to, which WETH is not.
NextLog ==
  LET ahead == {i \in (pos + 1)..Len(chain) : chain[i].event # "Weth" /\ chain[i].tx < tx}
  IN  IF ahead = {} THEN {} ELSE {Min(ahead)}

\* VUX:Transfer from or to zero: a row by exclusion, then its pairing slot.
HandleTransfer(i) ==
  /\ chain[i].event \in SupplyEvents
  /\ LET delta == Delta(chain[i])
     IN  /\ supplyChange' = Insert(supplyChange, RowId(i),
              SupplyChange(delta, IF chain[i].event = "Mint" THEN "genesis"
                                  ELSE "other_authorized_burn", 0))
         /\ pairs' = ClaimSlot(chain[i].tx, delta, RowId(i))
  /\ UNCHANGED rows

\* Rig:Settled: the settlement, the mint it caused, the contributed principal.
HandleSettled(i) ==
  /\ chain[i].event = "Settled"
  /\ LET log == chain[i]
     IN  /\ settlement' = Insert(settlement, log.epoch,
              Settlement(log.leg + 1, log.leg, 1, log.amount))
         /\ IF log.amount > 0
            THEN RefineCause(i, log.amount, "settlement_mint", log.epoch)
            ELSE UNCHANGED <<supplyChange, pairs>>
         /\ strategicFlow' =
              IF log.leg > 0
              THEN Insert(strategicFlow, RowId(i),
                          StrategicFlow("in", STRATEGIC_CLASS[1], log.leg))
              ELSE strategicFlow
  /\ UNCHANGED redemption

\* HardReserve:Redeemed.
HandleRedeemed(i) ==
  /\ chain[i].event = "Redeemed"
  /\ redemption' = redemption \cup {RowId(i)}
  /\ IF chain[i].amount > 0
     THEN RefineCause(i, -chain[i].amount, "redemption_burn", 0)
     ELSE UNCHANGED <<supplyChange, pairs>>
  /\ UNCHANGED <<settlement, strategicFlow>>

\* StrategicTreasury:VyrfHarvest.
HandleVyrfHarvest(i) ==
  /\ chain[i].event = "VyrfHarvest"
  /\ IF chain[i].amount > 0
     THEN RefineCause(i, -chain[i].amount, "vyrf_burn", 0)
     ELSE UNCHANGED <<supplyChange, pairs>>
  /\ UNCHANGED rows

\* StrategicTreasury:VuxRevenueBurned: the default is already right.
HandleVuxRevenueBurned(i) ==
  /\ chain[i].event = "VuxRevenueBurned"
  /\ UNCHANGED tables

\* StrategicTreasury:StrategicInflow, of a known class.
HandleStrategicInflow(i) ==
  /\ chain[i].event = "Inflow"
  /\ strategicFlow' =
       IF chain[i].class \in DOMAIN STRATEGIC_CLASS
       THEN Insert(strategicFlow, RowId(i),
                   StrategicFlow("in", STRATEGIC_CLASS[chain[i].class], chain[i].amount))
       ELSE strategicFlow
  /\ UNCHANGED <<supplyChange, pairs, settlement, redemption>>

\* StrategicTreasury:StrategicOutflow.
HandleStrategicOutflow(i) ==
  /\ chain[i].event = "Outflow"
  /\ strategicFlow' = Insert(strategicFlow, RowId(i),
       StrategicFlow("out", OutflowClass[chain[i].class], chain[i].amount))
  /\ UNCHANGED <<supplyChange, pairs, settlement, redemption>>

\* The rows of a table are such that the database took them.
Taken(table) == \A id \in DOMAIN table : Admits(SPECS, table[id])

Written == Taken(supplyChange') /\ Taken(settlement') /\ Taken(strategicFlow')

\* The log is handled; the end of a transaction is a point to come back to.
Advance(i) ==
  /\ pos' = i
  /\ IF i <= highWater THEN UNCHANGED <<highWater, saved>>
     ELSE /\ highWater' = i
          /\ saved' = IF \A j \in (i + 1)..Len(chain) : chain[j].tx # chain[i].tx
                      THEN With(saved, chain[i].tx, Tables') ELSE saved
  /\ UNCHANGED <<onChain, faults>>

HandleNext ==
  \E i \in NextLog :
    /\ \/ HandleTransfer(i) \/ HandleSettled(i) \/ HandleRedeemed(i)
       \/ HandleVyrfHarvest(i) \/ HandleVuxRevenueBurned(i)
       \/ HandleStrategicInflow(i) \/ HandleStrategicOutflow(i)
    /\ Written
    /\ Advance(i)

-----------------------------------------------------------------------------
Fault == faults < MaxFaults /\ faults' = faults + 1

\* A re-sync: the tables stay, the logs after `from` are read again.
Resync(from) ==
  /\ Fault
  /\ pos' = from
  /\ UNCHANGED <<onChain, highWater, saved, tables>>

\* The last log of a transaction.
LastOf(t) == Max({i \in 1..Len(chain) : chain[i].tx = t})

\* The logs up to the end of transaction t, with the tables of that time.
ResumeAfter(t) ==
  /\ PutBack(saved[t])
  /\ pos' = LastOf(t) /\ highWater' = LastOf(t)
  /\ saved' = [u \in {v \in DOMAIN saved : v <= t} |-> saved[u]]

\* A crash, with some of a handler's writes done or none.
Crash(t) ==
  /\ Fault
  /\ ResumeAfter(t)
  /\ UNCHANGED onChain

\* The chain drops its transactions from t on, whose hashes may come back.
Reorg(t) ==
  LET kept == SubSeq(chain, 1, LastOf(t - 1))
  IN  /\ Fault
      /\ chain' = kept /\ tx' = t
      /\ IF highWater > Len(kept) THEN ResumeAfter(t - 1)
         ELSE UNCHANGED <<pos, highWater, saved, tables>>

Next ==
  \/ \E take \in Takes : Take(take[1], take[2])
  \/ \E q \in RedeemAmounts : Redeem(q)
  \/ \E q \in SelfBurnAmounts : SelfBurn(q)
  \/ \E harvest \in Harvests : HarvestPol(harvest[1], harvest[2])
  \/ \E q \in RevenueAmounts : BurnVuxRevenue(q)
  \/ \E recall \in Recalls : ClassifyReturn(recall[1], recall[2])
  \/ \E amount \in DeployAmounts : DeployToStrategy(amount)
  \/ EndTransaction
  \/ HandleNext
  \/ \E from \in 0..(pos - 1) : Resync(from)
  \/ \E t \in DOMAIN saved : Crash(t)
  \/ \E t \in 2..(tx - 1) : Reorg(t)

\* ponder goes on with the next log.
Spec == Init /\ [][Next]_vars /\ WF_vars(HandleNext)

-----------------------------------------------------------------------------

FlowsOf(directions, class) ==
  LET found == {id \in DOMAIN strategicFlow :
                  strategicFlow[id].direction \in directions /\ strategicFlow[id].class = class}
  IN  SumFunction([id \in found |-> strategicFlow[id].amount])

\* GET /stats: contributed principal is summed by its class alone.
Stats ==
  [currentSupply  |-> SumFunction([id \in DOMAIN supplyChange |-> supplyChange[id].delta]),
   completedMints |-> SumFunction([e \in DOMAIN settlement |-> settlement[e].qMint]),
   strategicContributedPrincipal |-> FlowsOf({"in", "out"}, "ContributedPrincipal")]

\* What the chain's logs up to n say of a field.
Logged(n, event, Field(_)) ==
  LET found == {i \in 1..n : chain[i].event = event}
  IN  SumFunction([i \in found |-> Field(chain[i])])

\* The figures served are the chain's, to the unit: no two changes of one
\* transaction collapse into a row, no replay adds one, and what was put back after
\* a crash or a reorganisation is indexed again.  Every flow is booked once.
ReplicaMatchesChain ==
  /\ Stats.currentSupply = SupplyAt(highWater)
  /\ Stats.completedMints = Logged(highWater, "Settled", LAMBDA log : log.amount)
  /\ Stats.strategicContributedPrincipal = Logged(highWater, "Settled", LAMBDA log : log.leg)
  /\ \A k \in 2..4 :
       FlowsOf({"in"}, STRATEGIC_CLASS[k])
         = Logged(highWater, "Inflow", LAMBDA log : IF log.class = k THEN log.amount ELSE 0)
  /\ \A k \in 1..4 :
       FlowsOf({"out"}, OutflowClass[k])
         = Logged(highWater, "Outflow", LAMBDA log : IF log.class = k THEN log.amount ELSE 0)

\* Transactions that were indexed to their last log.
IndexedTransactions ==
  {t \in 0..(tx - 1) : \A i \in 1..Len(chain) : chain[i].tx = t => i <= highWater}

\* The changes of one transaction and signed amount; they are paired in order.
ChangesOf(t, d) ==
  {i \in SupplyPositions(Len(chain)) : chain[i].tx = t /\ Delta(chain[i]) = d}

Deltas == {Delta(chain[i]) : i \in SupplyPositions(Len(chain))} \ {0}

\* In an indexed transaction each cause has as many rows of each amount as the
\* protocol produced, as long as the slots suffice: equal amounts may trade
\* their labels but a cause is neither used twice nor lost.
CauseTotalsAreTrue ==
  \A t \in IndexedTransactions, d \in Deltas :
    Cardinality(ChangesOf(t, d)) <= MAX_SLOTS =>
      \A c \in Causes :
        Cardinality({i \in ChangesOf(t, d) : chain[i].truth = c})
          = Cardinality({i \in ChangesOf(t, d) : supplyChange[RowId(i)].cause = c})

-----------------------------------------------------------------------------
\* Reading a log again, after whatever else was read since, changes no table.
ReplayChangesNothing ==
  [][pos < highWater /\ pos' > pos /\ faults' = faults => UNCHANGED tables]_vars

\* Every log of every complete transaction is indexed in the end, after whatever
\* disturbed the indexer: no CHECK refuses a row that the protocol's logs produce.
EveryLogIsIndexed == []<>(NextLog = {})
=============================================================================
