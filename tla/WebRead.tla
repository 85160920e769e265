------------------------------- MODULE WebRead -------------------------------
(***************************************************************************)
(* The read layer of the web application (src/web/lib/protocol.js) and what*)
(* the throne page shows of it: hooks that poll the chain's RPC node and   *)
(* the indexer, over services that fail, recover, and answer late and out  *)
(* of order.                                                               *)
(*                                                                         *)
(* The unit of time is a poll interval.  It is longer than the 5 s after   *)
(* which a hook re-evaluates the age of its value, so every unit ends with *)
(* a render, as does every setState: what a hook returns is a function of  *)
(* its state.  Only ages are kept, which makes the state space finite.     *)
(***************************************************************************)
EXTENDS Integers, FiniteSets

CONSTANTS
  TruthHooks,        \* useTruth: reads of the Lens through the RPC node
  IndexerHooks,      \* useIndexer: reads of the indexer's API
  STALE_AFTER,       \* whole poll intervals within STALE_AFTER_MS
  REQUEST_TIMEOUT    \* poll intervals after which viem's transport gives up

Hooks == TruthHooks \cup IndexerHooks
\* Ages are counted up to the first that no longer matters.
Horizon == STALE_AFTER + REQUEST_TIMEOUT + 1

ASSUME WebReadAssumption ==
  /\ TruthHooks \cap IndexerHooks = {}
  /\ STALE_AFTER \in Nat \ {0} /\ REQUEST_TIMEOUT \in Nat \ {0}

VARIABLES
  service,   \* "rpc", "indexer" -> up, since: age of its last change
  hook,      \* hook -> reason ("none": it has a value), at: age of the stamp,
             \* served: age of the value itself
  reads      \* hook -> ages of its reads without an answer

vars == <<service, hook, reads>>

ServiceOf(h) == IF h \in TruthHooks THEN "rpc" ELSE "indexer"

Least(a, b) == IF a <= b THEN a ELSE b

Unavailable(reason) == [reason |-> reason, at |-> 0, served |-> 0]

\* Every hook reads as it mounts.
Init ==
  /\ service = [s \in {"rpc", "indexer"} |-> [up |-> TRUE, since |-> REQUEST_TIMEOUT + 1]]
  /\ hook = [h \in Hooks |-> Unavailable("loading")]
  /\ reads = [h \in Hooks |-> {0}]

-----------------------------------------------------------------------------
\* A poll that reads only when it mounts.
PollOnMountOnly(waiting) == {Least(a + 1, REQUEST_TIMEOUT) : a \in waiting}

\* The interval starts another read, whether or not the last one was answered.
Poll(waiting) == {0} \cup {Least(a + 1, REQUEST_TIMEOUT) : a \in waiting}

\* An interval passes.  A read of the RPC node has ended by its timeout; a fetch
\* from the indexer has none.
Tick ==
  /\ \A h \in TruthHooks : REQUEST_TIMEOUT \notin reads[h]
  /\ reads' = [h \in Hooks |-> Poll(reads[h])]
  /\ hook' = [h \in Hooks |->
       IF hook[h].reason = "none"
       THEN [hook[h] EXCEPT !.at = Least(@ + 1, STALE_AFTER + 1),
                               !.served = Least(@ + 1, Horizon)]
       ELSE hook[h]]
  /\ service' = [s \in DOMAIN service |->
       [service[s] EXCEPT !.since = Least(@ + 1, REQUEST_TIMEOUT + 1)]]

\* A read of age a was served s ago, by a service that was up then.
ServedAt(h, a, s) ==
  LET by == service[ServiceOf(h)]
  IN  s <= a /\ (~by.up => s >= by.since)

\* The value replaces whatever the hook held, and is stamped on arrival.
Answer(h, a, s) ==
  /\ a \in reads[h] /\ ServedAt(h, a, s)
  /\ hook' = [hook EXCEPT ![h] = [reason |-> "none", at |-> 0, served |-> s]]
  /\ reads' = [reads EXCEPT ![h] = @ \ {a}]
  /\ UNCHANGED service

\* A failure drops the value.
AfterFailure(h) ==
  Unavailable(IF h \in TruthHooks THEN "rpc-failed" ELSE "indexer-failed")

\* A read fails when its service was down at some time of it.
Fail(h, a) ==
  /\ a \in reads[h]
  /\ service[ServiceOf(h)].up => service[ServiceOf(h)].since <= a
  /\ hook' = [hook EXCEPT ![h] = AfterFailure(h)]
  /\ reads' = [reads EXCEPT ![h] = @ \ {a}]
  /\ UNCHANGED service

ReadEnds(h) ==
  \E a \in reads[h] : Fail(h, a) \/ \E s \in 0..a : Answer(h, a, s)

\* The service goes down or comes back.
Change(s) ==
  /\ service' = [service EXCEPT ![s] = [up |-> ~@.up, since |-> 0]]
  /\ UNCHANGED <<hook, reads>>

Next ==
  \/ Tick
  \/ \E h \in Hooks : ReadEnds(h)
  \/ \E s \in DOMAIN service : Change(s)

\* Timers fire, a read of the RPC node ends, and the indexer answers while it is up.
Fairness ==
  /\ WF_vars(Tick)
  /\ \A h \in TruthHooks : WF_vars(ReadEnds(h))
  /\ \A h \in IndexerHooks : WF_vars(service["indexer"].up /\ ReadEnds(h))

Spec == Init /\ [][Next]_vars /\ Fairness

-----------------------------------------------------------------------------
\* A hook that never ages its value out.
ReasonAsStored(h) == hook[h].reason

\* The reason a hook returns, "none" with a value: useTruth ages its value out.
Reason(h) ==
  IF h \in TruthHooks /\ hook[h].reason = "none" /\ hook[h].at > STALE_AFTER
  THEN "stale" ELSE hook[h].reason

\* The gate of every value on a page: the value, or a message in its place.
Shows(h) ==
  CASE Reason(h) = "none"           -> "value"
    [] Reason(h) = "loading"        -> "Reading"
    [] Reason(h) = "stale"          -> "no fresh data"
    [] Reason(h) = "indexer-failed" -> "indexer unavailable"
    [] OTHER                        -> "chain unavailable"

\* A banner that waits for the indexer to fail as well.
OutageOfAll == \A h \in Hooks : Reason(h) \notin {"none", "loading"}

\* The banner of the throne page: no live read has a value, none is its first.
Outage == \A h \in TruthHooks : Reason(h) \notin {"none", "loading"}

\* The throne page: the banner over three tiers, each with its own source.
ThronePage == [banner |-> Outage, tiers |-> [h \in Hooks |-> Shows(h)]]

-----------------------------------------------------------------------------
\* A value shown as live was served by the chain within the staleness limit plus
\* the time a read may take: a late answer is stamped on arrival, so the limit
\* alone does not hold, and overlapping reads may overwrite a newer value.
ShownIsRecent ==
  \A h \in TruthHooks :
    ThronePage.tiers[h] = "value" => hook[h].served <= STALE_AFTER + REQUEST_TIMEOUT

\* When the chain stays out of reach, the page comes to say so and keeps saying
\* so: no late answer brings a live figure or the loading text back for good.
OutageIsShown ==
  <>[](~service["rpc"].up) => <>[]ThronePage.banner

\* When both services stay up, no block of the page stays without its value: a
\* failure is forgotten by the next poll.  (A slow read may age it out in between.)
RecoveryIsShown ==
  <>[](service["rpc"].up /\ service["indexer"].up)
    => \A h \in Hooks : []<>(ThronePage.tiers[h] = "value")
=============================================================================
