----------------------------- MODULE Reconstruct -----------------------------
(***************************************************************************)
(* The standalone reconstruction (src/indexer/src/lib/reconstruct.mjs): a  *)
(* fold of a log list, delivered in any order and with repetitions, to the *)
(* same supply changes that the handlers of SupplyIndexer write one by one.*)
(* Logs are named by their position in the chain.                          *)
(***************************************************************************)
EXTENDS SupplyIndexer

\* Duplicates dropped, canonical order restored: the passes take the logs by position.
Ordered(delivery) == ToSet(delivery)

-----------------------------------------------------------------------------
\* Pass 1, the cause events of a transaction: one slot for its settlement, which
\* a later settlement of the transaction overwrites, and the burns' causes.
SettledOf(ordered, t) ==
  LET found == {i \in ordered : chain[i].tx = t /\ chain[i].event = "Settled"}
  IN  IF found = {} THEN 0 ELSE Max(found)

\* A cause matched by membership, however often it was used.
MatchingUsedOrNot(ordered, consumed, burn, event) ==
  {i \in ordered : /\ chain[i].tx = chain[burn].tx
                   /\ chain[i].event = event
                   /\ chain[i].amount = chain[burn].amount}

\* The causes of this kind that a burn may still claim, by amount.
Matching(ordered, consumed, burn, event) ==
  {i \in ordered \ consumed : /\ chain[i].tx = chain[burn].tx
                              /\ chain[i].event = event
                              /\ chain[i].amount = chain[burn].amount}

BurnCauses == <<"Redeemed", "VyrfHarvest", "VuxRevenueBurned">>

CauseOfEvent ==
  [Redeemed |-> "redemption_burn", VyrfHarvest |-> "vyrf_burn",
   VuxRevenueBurned |-> "other_authorized_burn"]

\* Pass 2 on one mint: the transaction's settlement, unless it is used up or
\* minted another amount; else genesis.
AfterMint(ordered, acc, i) ==
  LET s   == SettledOf(ordered, chain[i].tx)
      hit == s # 0 /\ s \notin acc.consumed /\ chain[s].amount = chain[i].amount
  IN  [acc EXCEPT
         !.rows = With(@, RowId(i),
           SupplyChange(Delta(chain[i]), IF hit THEN "settlement_mint" ELSE "genesis",
                        IF hit THEN chain[s].epoch ELSE 0)),
         !.consumed = IF hit THEN @ \cup {s} ELSE @]

\* Pass 2 on one burn: the first kind with a matching cause claims its earliest;
\* more than one kind is an ambiguity; none is a burn by exclusion.
AfterBurn(ordered, acc, i) ==
  LET kinds == {k \in 1..3 : Matching(ordered, acc.consumed, i, BurnCauses[k]) # {}}
      event == BurnCauses[Min(kinds)]
  IN  [acc EXCEPT
         !.rows = With(@, RowId(i),
           SupplyChange(Delta(chain[i]),
                        IF kinds = {} THEN "other_authorized_burn" ELSE CauseOfEvent[event], 0)),
         !.consumed = IF kinds = {} THEN @
                      ELSE @ \cup {Min(Matching(ordered, acc.consumed, i, event))},
         !.ambiguities = IF Cardinality(kinds) > 1 THEN @ \cup {i} ELSE @]

AfterLog(ordered, acc, i) ==
  CASE i \in ordered /\ chain[i].event = "Mint" -> AfterMint(ordered, acc, i)
    [] i \in ordered /\ chain[i].event = "Burn" -> AfterBurn(ordered, acc, i)
    [] OTHER -> acc

Attribute(ordered) ==
  LET After[n \in 0..Len(chain)] ==
        IF n = 0 THEN [rows |-> <<>>, consumed |-> {}, ambiguities |-> {}]
        ELSE AfterLog(ordered, After[n - 1], n)
  IN  After[Len(chain)]

TotalBy(changes, causes) ==
  LET counted == {id \in DOMAIN changes : changes[id].cause \in causes}
  IN  SumFunction([id \in counted |-> changes[id].delta])

\* The treasury's flows: the Strategic legs of the settlements and what it announced
\* itself, each under its direction and class.
FlowOf(i) ==
  CASE chain[i].event = "Settled" -> StrategicFlow("in", STRATEGIC_CLASS[1], chain[i].leg)
    [] chain[i].event = "Inflow"  -> StrategicFlow("in", STRATEGIC_CLASS[chain[i].class], chain[i].amount)
    [] chain[i].event = "Outflow" -> StrategicFlow("out", OutflowClass[chain[i].class], chain[i].amount)

FlowPositions(ordered) ==
  {i \in ordered :
     \/ chain[i].event = "Settled" /\ chain[i].leg > 0
     \/ chain[i].event = "Inflow" /\ chain[i].class \in DOMAIN STRATEGIC_CLASS
     \/ chain[i].event = "Outflow"}

\* Pass 3, the backing: WETH into the Reserve less WETH out of it.
Backing(ordered) ==
  LET moves == {i \in ordered : chain[i].event = "Weth"}
  IN  SumFunction([i \in moves |-> chain[i].amount])

\* reconstruct(): supply, backing, attributed changes, ambiguities, flows.
Reconstruction(delivery) ==
  LET ordered == Ordered(delivery)
      result  == Attribute(ordered)
  IN  [supply |-> TotalBy(result.rows, Causes),
       backing |-> Backing(ordered),
       rows |-> result.rows,
       ambiguities |-> result.ambiguities,
       flows |-> [i \in FlowPositions(ordered) |-> FlowOf(i)]]

-----------------------------------------------------------------------------
\* The replica has handled the whole chain, which ends with a transaction.
CaughtUp == highWater = Len(chain) /\ chain[Len(chain)].tx < tx

\* A delivery in the wrong order that repeats every log.
ShuffledChain == LET all == [i \in 1..Len(chain) |-> i] IN Reverse(all) \o all

\* The Reserve's WETH: what it was given less what it paid out.
ReserveBalance ==
  LET Balance[n \in 0..Len(chain)] ==
        IF n = 0 THEN 0
        ELSE Balance[n - 1] + (IF chain[n].event = "Weth" THEN chain[n].amount ELSE 0)
  IN  Balance[Len(chain)]

\* The two reconstructions agree on the supply, on what each cause burned and on
\* every flow of the treasury, and the fold on the backing with the chain, from a
\* delivery out of order and with duplicates, where the handlers' slots suffice.
\* (A zero burn weighs nothing here.)
BurnTotalsAgree ==
  /\ CaughtUp
  /\ \A t \in 0..(tx - 1), d \in Deltas : Cardinality(ChangesOf(t, d)) <= MAX_SLOTS
  => LET fold == Reconstruction(ShuffledChain)
     IN  /\ fold.supply = ChainSupply
         /\ fold.backing = ReserveBalance
         /\ \A c \in {"redemption_burn", "vyrf_burn"} :
              TotalBy(fold.rows, {c}) = TotalBy(supplyChange, {c})
         /\ \A i \in DOMAIN fold.flows : strategicFlow[RowId(i)] = fold.flows[i]
         /\ Cardinality(DOMAIN fold.flows) = Cardinality(DOMAIN strategicFlow)

\* "They now also agree on ATTRIBUTION": the handlers and the fold give every
\* settlement mint the same cause.  The fold keeps one settlement per
\* transaction, the handlers every one.
MintsAreAttributedAlike ==
  CaughtUp =>
    LET fold == Reconstruction(ShuffledChain)
    IN  \A id \in DOMAIN supplyChange :
          supplyChange[id].delta > 0 => fold.rows[id].cause = supplyChange[id].cause

\* "Zero unconsumed cause events is a distinguishable signature": a holder's own
\* burn is booked by exclusion or reported as ambiguous.  A burn of an amount
\* that the transaction also redeems, before it does, takes that cause.
SelfBurnsAreDistinguished ==
  CaughtUp =>
    LET fold == Reconstruction(ShuffledChain)
    IN  \A i \in SupplyPositions(Len(chain)) :
          chain[i].truth = "other_authorized_burn" =>
            \/ fold.rows[RowId(i)].cause = "other_authorized_burn"
            \/ i \in fold.ambiguities
=============================================================================
