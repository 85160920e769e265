----------------------------- MODULE RuntimeGate -----------------------------
(***************************************************************************)
(* The runtime gate (src/indexer/scripts/verify-ponder-runtime.mjs): it    *)
(* drives a scenario on a chain, starts the indexer over an empty database,*)
(* polls its API until two settlements are served, reads two more answers  *)
(* while the indexer goes on, and passes a verdict on the build.           *)
(***************************************************************************)
EXTENDS SchemaConstraints

CONSTANTS Builds, MaxPolls

ASSUME BuildsAssumption == Builds \subseteq {"delivered", "collapsing", "unattributed"}

Change(t, delta)     == [tx |-> t, delta |-> delta, of |-> 0, cause |-> ""]
CauseEvent(of, cause) == [tx |-> 0, delta |-> 0, of |-> of, cause |-> cause]

\* The scenario's logs: a mint or burn, or the event that caused log `of`; a Settled
\* of the bootstrap caused nothing.  Transaction 5 burns the same amount twice.
Scenario ==
  <<Change(1, 4), CauseEvent(0, "settlement_mint"),
    Change(3, 2), CauseEvent(3, "settlement_mint"),
    Change(4, -1), CauseEvent(5, "redemption_burn"),
    Change(5, -1), Change(5, -1),
    Change(6, -1), CauseEvent(9, "vyrf_burn")>>

DUP_TX == 5
DUP    == 1

VARIABLES
  build,    \* delivered, or one that collapses equal changes, or attributes none
  indexed,  \* logs of the scenario the indexer has handled
  gate      \* stage, polls, settlements (0: never served two), changes, supply

gateVars == <<build, indexed, gate>>
vars == <<startVars, gateVars>>

NoGate == [stage |-> "none", polls |-> 0, settlements |-> 0, changes |-> {}, supply |-> 0]

\* Either the indexer is started by itself, over any database, or by the gate.
Init ==
  /\ StartInit
  /\ indexed = 0
  /\ \/ build = "delivered" /\ gate = NoGate
     \/ /\ build \in Builds /\ gate = [NoGate EXCEPT !.stage = "polling", !.polls = MaxPolls]
        /\ copies = [s \in Schemas |-> Fresh] /\ newest = Live /\ rows = {}

-----------------------------------------------------------------------------
ChangeLogs(n) == {i \in 1..n : Scenario[i].of = 0 /\ Scenario[i].delta # 0}

Default(delta) == IF delta > 0 THEN "genesis" ELSE "other_authorized_burn"

\* The row of a log after the first n were handled.
RowOf(i, n) ==
  LET refined == {j \in 1..n : Scenario[j].of = i}
  IN  [id    |-> IF build # "collapsing" THEN i
                 ELSE Min({j \in 1..i : /\ Scenario[j].tx = Scenario[i].tx
                                        /\ Scenario[j].delta = Scenario[i].delta}),
       tx    |-> Scenario[i].tx,
       delta |-> Scenario[i].delta,
       cause |-> IF refined = {} \/ build = "unattributed" THEN Default(Scenario[i].delta)
                 ELSE Scenario[Min(refined)].cause]

IndexedChanges == {RowOf(i, indexed) : i \in ChangeLogs(indexed)}

IndexedSettlements ==
  Cardinality({j \in 1..indexed : Scenario[j].cause = "settlement_mint"})

Supply(changes) == MapThenSumSet(LAMBDA row : row.delta, changes)

ChainSupply == MapThenSumSet(LAMBDA i : Scenario[i].delta, 1..Len(Scenario))

\* The running indexer handles the next log of the scenario.
Index ==
  /\ gate.stage # "none" /\ phase = "running" /\ indexed < Len(Scenario)
  /\ indexed' = indexed + 1
  /\ UNCHANGED <<startVars, build, gate>>

Up == phase \in {"starting", "running"}

\* The exit handler's code is null for a process that a signal ended.
Exited == phase = "failed"

\* One turn of the polling loop.
Poll ==
  /\ gate.stage = "polling" /\ launches > 0
  /\ \/ /\ Exited \/ gate.polls = 0
        /\ gate' = [gate EXCEPT !.stage = "judging"]
     \/ /\ ~Exited /\ gate.polls > 0
        /\ IF Up /\ IndexedSettlements >= 2
           THEN gate' = [gate EXCEPT !.stage = "changes", !.settlements = IndexedSettlements]
           ELSE gate' = [gate EXCEPT !.polls = @ - 1]
  /\ UNCHANGED <<startVars, build, indexed>>

\* The two answers read after the loop; a fetch that fails ends the gate.
ReadChanges ==
  /\ gate.stage = "changes"
  /\ gate' = IF Up THEN [gate EXCEPT !.stage = "stats", !.changes = IndexedChanges]
             ELSE [gate EXCEPT !.stage = "fail"]
  /\ UNCHANGED <<startVars, build, indexed>>

ReadStats ==
  /\ gate.stage = "stats"
  /\ gate' = IF Up THEN [gate EXCEPT !.stage = "judging", !.supply = Supply(IndexedChanges)]
             ELSE [gate EXCEPT !.stage = "fail"]
  /\ UNCHANGED <<startVars, build, indexed>>

DupRows == {row \in gate.changes : row.tx = DUP_TX}

\* A verdict that does not ask for every cause.
CountsOnly ==
  /\ ~Exited /\ gate.settlements >= 2
  /\ Cardinality(DupRows) = 2 /\ \A row \in DupRows : row.delta = -DUP
  /\ gate.supply = ChainSupply

\* Two rows for the two equal burns, every cause seen, and the served supply.
Passes ==
  /\ ~Exited /\ gate.settlements >= 2
  /\ Cardinality(DupRows) = 2 /\ \A row \in DupRows : row.delta = -DUP
  /\ {row.cause : row \in gate.changes} = Causes
  /\ gate.supply = ChainSupply

\* The verdict, after the indexer was killed.
Judge ==
  /\ gate.stage = "judging"
  /\ gate' = [gate EXCEPT !.stage = IF Passes THEN "pass" ELSE "fail"]
  /\ IF Up THEN Enters("off", step) ELSE UNCHANGED process
  /\ UNCHANGED <<configured, database, served, build, indexed>>

\* By itself the indexer may be launched again and decode anything; under the gate it
\* is launched once, over tables made anew, and may die.
AppNext ==
  /\ \/ gate.stage = "none" /\ StartNext
     \/ gate.stage # "none" /\ launches = 0 /\ Launch(TRUE)
     \/ gate.stage \notin {"none", "pass", "fail"} /\ (Setup \/ Kill)
  /\ UNCHANGED gateVars

Next == AppNext \/ Index \/ Poll \/ ReadChanges \/ ReadStats \/ Judge

Spec == Init /\ [][Next]_vars /\ WF_vars(Setup /\ UNCHANGED gateVars)

-----------------------------------------------------------------------------
\* "A ponder that never ran cannot pass": a pass was given to the delivered build,
\* on the rows of the whole chain, though they were read while it was indexing.
PassMeansIndexed ==
  gate.stage = "pass" =>
    /\ build = "delivered"
    /\ gate.changes = {RowOf(i, Len(Scenario)) : i \in ChangeLogs(Len(Scenario))}
=============================================================================
