------------------------- MODULE SupplyIndexerProofs -------------------------
(***************************************************************************)
(* The indexer's tables are a function of the logs it has handled, for     *)
(* chains of any length, any number of slots, and any replay, crash or     *)
(* reorganisation.                                                         *)
(*                                                                         *)
(* The argument: an operation of the chain has at most one supply log and  *)
(* at most one cause, which comes later and names its amount (ChainOK).  So*)
(* the causes of a signed amount never outnumber its changes, and slots are*)
(* filled, and consumed, in order (Paired).  Then handling a log again     *)
(* changes nothing, and the tables saved at the end of a transaction are   *)
(* those of its last log, whatever was indexed since.  The standalone fold *)
(* labels other rows than the handlers but books the same totals.          *)
(*                                                                         *)
(* What is said of tables is said of a chain c, a record T of tables and a *)
(* number n of logs, so that it applies to the tables, to those after a    *)
(* step, and to those that were saved.                                     *)
(***************************************************************************)
EXTENDS Reconstruct, FiniteSums, SequenceTheorems

Events == SupplyEvents \cup {"Weth", "Settled", "Redeemed", "VyrfHarvest",
                             "VuxRevenueBurned", "Inflow", "Outflow"}

ClaimCauses == {"settlement_mint", "redemption_burn", "vyrf_burn"}

\* A log that attributes a change, the signed amount it names, and the cause.
IsClaim(log) == log.event \in {"Settled", "Redeemed", "VyrfHarvest"} /\ log.amount > 0
Claimed(log) == IF log.event = "Settled" THEN log.amount ELSE -log.amount
CauseOf(log) == CASE log.event = "Settled"  -> "settlement_mint"
                  [] log.event = "Redeemed" -> "redemption_burn"
                  [] OTHER                  -> "vyrf_burn"

IsSupply(log) == log.event \in SupplyEvents
Default(log)  == IF log.event = "Mint" THEN "genesis" ELSE "other_authorized_burn"

-----------------------------------------------------------------------------
(***************************************************************************)
(* The chain.                                                              *)
(***************************************************************************)
ContentOK(log) ==
  /\ log.event \in Events
  /\ IF log.event = "Weth" THEN log.amount \in Int ELSE log.amount \in Nat
  /\ log.event = "Mint" => log.amount > 0
  /\ IsSupply(log) => log.truth \in ClaimCauses \cup {Default(log)}
  /\ log.event = "Settled" => log.leg \in Nat
  /\ log.event = "Inflow" => log.class \in 2..4
  /\ log.event = "Outflow" => log.class \in 1..4

LogOK(log) == ContentOK(log) /\ log.tx \in Nat /\ log.op \in Nat

LogsOK(c) == (\E R : c \in Seq(R)) /\ \A i \in 1..Len(c) : LogOK(c[i])

Sorted(c) ==
  \A i, j \in 1..Len(c) : i <= j => c[i].tx <= c[j].tx /\ c[i].op <= c[j].op

\* What is no protocol log never ends a transaction.
Followed(c) ==
  \A i \in 1..Len(c) : c[i].event = "Weth" => i < Len(c) /\ c[i + 1].tx = c[i].tx

\* An operation changes the supply once, and announces a cause once.
OncePerOperation(c) ==
  \A i, j \in 1..Len(c) :
    c[i].op = c[j].op =>
      /\ IsSupply(c[i]) /\ IsSupply(c[j]) => i = j
      /\ IsClaim(c[i]) /\ IsClaim(c[j]) => i = j

\* b announces the cause of the supply log a.
Announces(b, a) ==
  /\ IsSupply(a) /\ IsClaim(b)
  /\ Delta(a) = Claimed(b) /\ a.truth = CauseOf(b)

\* The i-th log does of the j-th, in its operation and behind it.
Partners(c, j, i) ==
  /\ Announces(c[i], c[j]) /\ j < i
  /\ c[j].op = c[i].op /\ c[j].tx = c[i].tx

ClaimsHaveChanges(c) ==
  \A i \in 1..Len(c) : IsClaim(c[i]) => \E j \in 1..Len(c) : Partners(c, j, i)

ChangesHaveClaims(c) ==
  \A j \in 1..Len(c) :
    IsSupply(c[j]) /\ c[j].truth \in ClaimCauses /\ Delta(c[j]) # 0 =>
      \E i \in 1..Len(c) : Partners(c, j, i)

Settleds(c, n) == {i \in 1..n : c[i].event = "Settled"}

EpochsCount(c) ==
  \A i \in 1..Len(c) : c[i].event = "Settled" => c[i].epoch = Cardinality(Settleds(c, i))

ChainOK(c) ==
  /\ LogsOK(c) /\ Sorted(c) /\ Followed(c)
  /\ OncePerOperation(c) /\ ClaimsHaveChanges(c) /\ ChangesHaveClaims(c)
  /\ EpochsCount(c)

\* Every transaction before the one under way has a log.
TxOK(c, t) ==
  /\ t \in Nat /\ t >= 2 /\ Len(c) > 0
  /\ \A i \in 1..Len(c) : c[i].tx <= t
  /\ \A u \in 0..(t - 1) : \E i \in 1..Len(c) : c[i].tx = u

-----------------------------------------------------------------------------
(***************************************************************************)
(* The tables after the first n logs of c.                                 *)
(***************************************************************************)
Row(c, i) == <<c[i].tx, i>>

Supplies(c, n) == {i \in 1..n : IsSupply(c[i])}
Changes(c, n, t, d) == {i \in Supplies(c, n) : c[i].tx = t /\ Delta(c[i]) = d}
Claims(c, n, t, d) == {i \in 1..n : IsClaim(c[i]) /\ c[i].tx = t /\ Claimed(c[i]) = d}

Flows(c, n) ==
  {i \in 1..n : \/ c[i].event = "Settled" /\ c[i].leg > 0
                \/ c[i].event \in {"Inflow", "Outflow"}}

FlowOfLog(log) ==
  CASE log.event = "Settled" -> StrategicFlow("in", STRATEGIC_CLASS[1], log.leg)
    [] log.event = "Inflow"  -> StrategicFlow("in", STRATEGIC_CLASS[log.class], log.amount)
    [] OTHER                 -> StrategicFlow("out", OutflowClass[log.class], log.amount)

ChangesOK(c, T, n) ==
  /\ DOMAIN T.supplyChange = {Row(c, i) : i \in Supplies(c, n)}
  /\ \A i \in Supplies(c, n) :
       LET row == T.supplyChange[Row(c, i)]
       IN  /\ DOMAIN row = {"table", "delta", "cause", "refEpochId"}
           /\ row.delta = Delta(c[i])

OthersOK(c, T, n) ==
  /\ DOMAIN T.settlement = {c[i].epoch : i \in Settleds(c, n)}
  /\ \A i \in Settleds(c, n) : T.settlement[c[i].epoch].qMint = c[i].amount
  /\ \A i \in 1..n : c[i].event = "Redeemed" => Row(c, i) \in T.redemption
  /\ DOMAIN T.strategicFlow = {Row(c, i) : i \in Flows(c, n)}
  /\ \A i \in Flows(c, n) : T.strategicFlow[Row(c, i)] = FlowOfLog(c[i])

Change(T, t, d, k)   == T.pairs[SlotId(t, d, k)].changeId
Consumer(T, t, d, k) == T.pairs[SlotId(t, d, k)].consumedBy

\* The slots of t and d: the first N stand, each for a change of its own; the first C
\* of them are consumed, each by a claim of its own.
SlotsStand(c, T, n, t, d, N) ==
  /\ \A k \in 0..(MAX_SLOTS - 1) : SlotId(t, d, k) \in DOMAIN T.pairs <=> k < N
  /\ \A k \in 0..(N - 1) :
       /\ DOMAIN T.pairs[SlotId(t, d, k)] = {"changeId", "consumedBy"}
       /\ \E i \in Changes(c, n, t, d) : Change(T, t, d, k) = Row(c, i)
  /\ \A k, l \in 0..(N - 1) : Change(T, t, d, k) = Change(T, t, d, l) => k = l
  /\ N < MAX_SLOTS =>
       \A i \in Changes(c, n, t, d) : \E k \in 0..(N - 1) : Change(T, t, d, k) = Row(c, i)

SlotsConsumed(c, T, n, t, d, N, C) ==
  /\ \A k \in 0..(C - 1) : Consumer(T, t, d, k) \in Claims(c, n, t, d)
  /\ \A k \in C..(N - 1) : Consumer(T, t, d, k) = 0
  /\ \A k, l \in 0..(C - 1) : Consumer(T, t, d, k) = Consumer(T, t, d, l) => k = l
  /\ C < MAX_SLOTS =>
       \A i \in Claims(c, n, t, d) : \E k \in 0..(C - 1) : Consumer(T, t, d, k) = i

\* A change whose slot is consumed has its consumer's cause, another the default.
CausesFollow(c, T, n, t, d, C) ==
  /\ \A k \in 0..(C - 1) :
       T.supplyChange[Change(T, t, d, k)].cause = CauseOf(c[Consumer(T, t, d, k)])
  /\ \A i \in Changes(c, n, t, d) :
       \/ \E k \in 0..(C - 1) : Change(T, t, d, k) = Row(c, i)
       \/ T.supplyChange[Row(c, i)].cause = Default(c[i])

Paired(c, T, n, t, d, N, C) ==
  /\ C <= N /\ N <= MAX_SLOTS
  /\ SlotsStand(c, T, n, t, d, N)
  /\ SlotsConsumed(c, T, n, t, d, N, C)
  /\ CausesFollow(c, T, n, t, d, C)

PairsOK(c, T, n) ==
  \A t \in Nat, d \in Int : \E N, C \in Nat : Paired(c, T, n, t, d, N, C)

TablesOK(c, T, n) == ChangesOK(c, T, n) /\ OthersOK(c, T, n) /\ PairsOK(c, T, n)

-----------------------------------------------------------------------------
(***************************************************************************)
(* The reader.                                                             *)
(***************************************************************************)
\* The last log of a transaction that has one; the logs of the chain up to there are
\* those of its transactions up to that one.
IsLast(c, t, m) ==
  /\ m \in 1..Len(c) /\ c[m].tx = t /\ c[m].event # "Weth"
  /\ \A i \in 1..Len(c) : c[i].tx <= t <=> i <= m

\* It is at p and its tables account for h logs of c, of transactions before x.
ReaderOK(c, x, p, h) ==
  /\ p \in Nat /\ h \in Nat /\ p <= h /\ h <= Len(c)
  /\ h = 0 \/ (c[h].event # "Weth" /\ c[h].tx < x)

\* The transactions whose last log is one of the h have their tables in S.
SavedOK(c, x, S, h) ==
  /\ DOMAIN S \subseteq 0..(x - 1)
  /\ \A t \in 0..(x - 1) : \A m \in 1..Len(c) :
       IsLast(c, t, m) =>
         /\ t \in DOMAIN S <=> m <= h
         /\ m <= h => TablesOK(c, S[t], m)

Good(c, x, p, h, S, T) ==
  /\ ChainOK(c) /\ TxOK(c, x)
  /\ ReaderOK(c, x, p, h) /\ SavedOK(c, x, S, h)
  /\ TablesOK(c, T, h)

IInv == Good(chain, tx, pos, highWater, saved, Tables)

-----------------------------------------------------------------------------
(***************************************************************************)
(* Chains grow by operations and lose whole transactions.                  *)
(***************************************************************************)
Fields == {"tx", "op", "event", "amount", "leg", "epoch", "class", "truth"}

\* The logs an operation emits.
Operation(logs, epoch) ==
  /\ (\E R : logs \in Seq(R)) /\ Len(logs) > 0 /\ logs[Len(logs)].event # "Weth"
  /\ \A i \in 1..Len(logs) :
       /\ DOMAIN logs[i] = Fields /\ ContentOK(logs[i])
       /\ logs[i].event = "Settled" => logs[i].epoch = epoch
       /\ IsClaim(logs[i]) => \E j \in 1..(i - 1) : Announces(logs[i], logs[j])
       /\ IsSupply(logs[i]) /\ logs[i].truth \in ClaimCauses /\ Delta(logs[i]) # 0 =>
            \E j \in (i + 1)..Len(logs) : Announces(logs[j], logs[i])
  /\ \A i, j \in 1..Len(logs) :
       \/ IsSupply(logs[i]) /\ IsSupply(logs[j])
       \/ logs[i].event \in {"Settled", "Redeemed", "VyrfHarvest"}
            /\ logs[j].event \in {"Settled", "Redeemed", "VyrfHarvest"}
       => i = j

LEMMA PlacedLog ==
  ASSUME NEW log, DOMAIN log = Fields, NEW t, NEW op
  PROVE  LET x == [log EXCEPT !.tx = t, !.op = op]
         IN  /\ x.tx = t /\ x.op = op
             /\ x.event = log.event /\ x.amount = log.amount /\ x.leg = log.leg
             /\ x.epoch = log.epoch /\ x.class = log.class /\ x.truth = log.truth
<1> DEFINE y == [log EXCEPT !.tx = t]
           x == [y EXCEPT !.op = op]
<1>1. /\ DOMAIN y = Fields /\ y.tx = t
      /\ y.event = log.event /\ y.amount = log.amount /\ y.leg = log.leg
      /\ y.epoch = log.epoch /\ y.class = log.class /\ y.truth = log.truth
  BY DEF Fields
<1> HIDE DEF y
<1>2. /\ x.tx = t /\ x.op = op
      /\ x.event = log.event /\ x.amount = log.amount /\ x.leg = log.leg
      /\ x.epoch = log.epoch /\ x.class = log.class /\ x.truth = log.truth
  BY <1>1 DEF Fields
<1> QED BY <1>2 DEF y

\* What is said of a log is said of its content.
LEMMA SameContent ==
  ASSUME NEW x, NEW y, x.event = y.event, x.amount = y.amount, x.leg = y.leg,
         x.epoch = y.epoch, x.class = y.class, x.truth = y.truth
  PROVE  /\ ContentOK(x) <=> ContentOK(y)
         /\ IsSupply(x) <=> IsSupply(y)
         /\ IsClaim(x) <=> IsClaim(y)
         /\ Delta(x) = Delta(y) /\ Claimed(x) = Claimed(y)
         /\ CauseOf(x) = CauseOf(y)
BY DEF ContentOK, IsSupply, IsClaim, Delta, Claimed, CauseOf, Default

LEMMA Concatenation ==
  ASSUME NEW R, NEW a \in Seq(R), NEW b \in Seq(R)
  PROVE  /\ a \o b \in Seq(R) /\ Len(a \o b) = Len(a) + Len(b)
         /\ Len(a) \in Nat /\ Len(b) \in Nat
         /\ \A i \in 1..Len(a) : (a \o b)[i] = a[i]
         /\ \A i \in 1..Len(b) : (a \o b)[Len(a) + i] = b[i]
OBVIOUS

\* e is c with more logs of transaction t.
Grown(c, e, t) ==
  /\ Len(c) <= Len(e) /\ \A i \in 1..Len(c) : e[i] = c[i]
  /\ \A i \in 1..Len(e) : i > Len(c) => e[i].tx = t

\* An operation's logs keep the chain well formed.
LEMMA OperationAppended ==
  ASSUME NEW c, ChainOK(c), NEW t, TxOK(c, t),
         NEW logs, Operation(logs, Cardinality(Settleds(c, Len(c))) + 1)
  PROVE  /\ ChainOK(c \o Placed(logs, t, c[Len(c)].op + 1))
         /\ TxOK(c \o Placed(logs, t, c[Len(c)].op + 1), t)
         /\ Grown(c, c \o Placed(logs, t, c[Len(c)].op + 1), t)
<1> DEFINE op == c[Len(c)].op + 1
           p  == Placed(logs, t, op)
           e  == c \o p
           L  == Len(c)
<1>1. Len(logs) \in Nat /\ Len(logs) > 0 /\ DOMAIN logs = 1..Len(logs)
  BY DEF Operation
<1>2. /\ Len(p) = Len(logs)
      /\ \A i \in 1..Len(logs) : p[i] = [logs[i] EXCEPT !.tx = t, !.op = op]
  BY <1>1 DEF Placed
<1>3. PICK R : p \in Seq(R) /\ c \in Seq(R)
  <2>1. PICK Q : c \in Seq(Q)
    BY DEF ChainOK, LogsOK
  <2> DEFINE S == {p[i] : i \in 1..Len(logs)} \cup Q
  <2>2. p = [i \in 1..Len(logs) |-> p[i]]
    BY DEF Placed
  <2> HIDE DEF p
  <2>3. p \in [1..Len(logs) -> S]
    BY <2>2
  <2>4. p \in Seq(S)
    BY <1>1, <2>3, SeqDef
  <2>5. c \in Seq(S)
    BY <2>1
  <2> QED BY <2>4, <2>5
<1> HIDE DEF p, e
<1>4. /\ e \in Seq(R) /\ Len(e) = L + Len(logs) /\ L \in Nat /\ L > 0
      /\ \A i \in 1..L : e[i] = c[i]
      /\ \A i \in 1..Len(logs) : e[L + i] = p[i]
  <2>1. L > 0
    BY DEF TxOK
  <2>2. /\ c \o p \in Seq(R) /\ Len(c \o p) = Len(c) + Len(p) /\ Len(c) \in Nat
        /\ \A i \in 1..Len(c) : (c \o p)[i] = c[i]
        /\ \A i \in 1..Len(p) : (c \o p)[Len(c) + i] = p[i]
    BY <1>3, Concatenation
  <2> QED BY <1>2, <2>1, <2>2 DEF e
<1>5. \A i \in 1..Len(logs) :
        /\ e[L + i].tx = t /\ e[L + i].op = op
        /\ e[L + i].event = logs[i].event /\ e[L + i].amount = logs[i].amount
        /\ e[L + i].leg = logs[i].leg /\ e[L + i].epoch = logs[i].epoch
        /\ e[L + i].class = logs[i].class /\ e[L + i].truth = logs[i].truth
  <2> SUFFICES ASSUME NEW i \in 1..Len(logs)
               PROVE  /\ e[L + i].tx = t /\ e[L + i].op = op
                      /\ e[L + i].event = logs[i].event /\ e[L + i].amount = logs[i].amount
                      /\ e[L + i].leg = logs[i].leg /\ e[L + i].epoch = logs[i].epoch
                      /\ e[L + i].class = logs[i].class /\ e[L + i].truth = logs[i].truth
    OBVIOUS
  <2>1. DOMAIN logs[i] = Fields
    BY DEF Operation
  <2>2. e[L + i] = [logs[i] EXCEPT !.tx = t, !.op = op]
    BY <1>2, <1>4
  <2> HIDE DEF op, L
  <2> QED BY <2>1, <2>2, PlacedLog
<1>6. \A i \in 1..Len(logs) :
        /\ ContentOK(e[L + i])
        /\ IsSupply(e[L + i]) <=> IsSupply(logs[i])
        /\ IsClaim(e[L + i]) <=> IsClaim(logs[i])
        /\ Delta(e[L + i]) = Delta(logs[i]) /\ Claimed(e[L + i]) = Claimed(logs[i])
        /\ CauseOf(e[L + i]) = CauseOf(logs[i])
  <2> SUFFICES ASSUME NEW i \in 1..Len(logs)
               PROVE  /\ ContentOK(e[L + i])
                      /\ IsSupply(e[L + i]) <=> IsSupply(logs[i])
                      /\ IsClaim(e[L + i]) <=> IsClaim(logs[i])
                      /\ Delta(e[L + i]) = Delta(logs[i])
                      /\ Claimed(e[L + i]) = Claimed(logs[i])
                      /\ CauseOf(e[L + i]) = CauseOf(logs[i])
    OBVIOUS
  <2>1. ContentOK(logs[i])
    BY DEF Operation
  <2> QED BY <1>5, <2>1, SameContent
<1>7. \A i \in 1..Len(e) : i \in 1..L \/ \E k \in 1..Len(logs) : i = L + k
  <2> SUFFICES ASSUME NEW i \in 1..Len(e), i \notin 1..L
               PROVE  \E k \in 1..Len(logs) : i = L + k
    OBVIOUS
  <2>1. i - L \in 1..Len(logs) /\ i = L + (i - L)
    BY <1>1, <1>4
  <2> QED BY <2>1
<1>8. t \in Nat /\ op \in Nat /\ \A i \in 1..L : c[i].tx <= t /\ c[i].op < op
  <2>1. \A i \in 1..L : c[i].op \in Nat /\ c[i].op <= c[L].op
    BY <1>4 DEF ChainOK, LogsOK, LogOK, Sorted
  <2> QED BY <1>4, <2>1 DEF TxOK
<1> HIDE DEF op
<1>9. LogsOK(e)
  <2>1. ASSUME NEW i \in 1..Len(e) PROVE LogOK(e[i])
    <3>1. CASE i \in 1..L
      BY <1>4, <3>1 DEF LogsOK, ChainOK
    <3>2. ASSUME NEW k \in 1..Len(logs), i = L + k PROVE LogOK(e[i])
      BY <1>5, <1>6, <1>8, <3>2 DEF LogOK
    <3> QED BY <1>7, <3>1, <3>2
  <2> QED BY <1>4, <2>1 DEF LogsOK
<1>10. Sorted(e)
  <2> SUFFICES ASSUME NEW i \in 1..Len(e), NEW j \in 1..Len(e), i <= j
               PROVE  e[i].tx <= e[j].tx /\ e[i].op <= e[j].op
    BY DEF Sorted
  <2>1. CASE i \in 1..L /\ j \in 1..L
    BY <1>4, <2>1 DEF ChainOK, Sorted
  <2>2. CASE i \in 1..L /\ \E k \in 1..Len(logs) : j = L + k
    <3>1. c[i].op \in Nat
      BY <2>2 DEF ChainOK, LogsOK, LogOK
    <3> QED BY <1>4, <1>5, <1>8, <2>2, <3>1
  <2>3. CASE \E k, l \in 1..Len(logs) : i = L + k /\ j = L + l
    BY <1>5, <1>8, <2>3
  <2>4. i \notin 1..L => j \notin 1..L
    BY <1>4
  <2> QED BY <1>7, <2>1, <2>2, <2>3, <2>4
<1>11. Followed(e)
  <2> SUFFICES ASSUME NEW i \in 1..Len(e), e[i].event = "Weth"
               PROVE  i < Len(e) /\ e[i + 1].tx = e[i].tx
    BY DEF Followed
  <2>1. CASE i \in 1..L
    BY <1>1, <1>4, <2>1 DEF ChainOK, Followed
  <2>2. ASSUME NEW k \in 1..Len(logs), i = L + k
        PROVE  i < Len(e) /\ e[i + 1].tx = e[i].tx
    <3>1. k # Len(logs)
      BY <1>5, <2>2 DEF Operation
    <3>2. k + 1 \in 1..Len(logs) /\ i + 1 = L + (k + 1)
      BY <1>1, <1>4, <2>2, <3>1
    <3> QED BY <1>1, <1>4, <1>5, <2>2, <3>2
  <2> QED BY <1>7, <2>1, <2>2
<1>12. OncePerOperation(e)
  <2> SUFFICES ASSUME NEW i \in 1..Len(e), NEW j \in 1..Len(e), e[i].op = e[j].op,
                      \/ IsSupply(e[i]) /\ IsSupply(e[j])
                      \/ IsClaim(e[i]) /\ IsClaim(e[j])
               PROVE  i = j
    BY DEF OncePerOperation
  <2>1. CASE i \in 1..L /\ j \in 1..L
    BY <1>4, <2>1 DEF ChainOK, OncePerOperation
  <2>2. CASE (i \in 1..L) # (j \in 1..L)
    <3>1. \A m \in 1..L : e[m].op \in Nat /\ e[m].op < op
      BY <1>4, <1>8 DEF ChainOK, LogsOK, LogOK
    <3>2. \A m \in 1..Len(e) : m \notin 1..L => e[m].op = op
      BY <1>5, <1>7
    <3> QED BY <1>8, <2>2, <3>1, <3>2
  <2>3. ASSUME NEW k \in 1..Len(logs), NEW l \in 1..Len(logs), i = L + k, j = L + l
        PROVE  i = j
    <3>1. \/ IsSupply(logs[k]) /\ IsSupply(logs[l])
          \/ IsClaim(logs[k]) /\ IsClaim(logs[l])
      BY <1>6, <2>3
    <3>2. k = l
      BY <3>1 DEF Operation, IsClaim
    <3> QED BY <2>3, <3>2
  <2> QED BY <1>7, <2>1, <2>2, <2>3
<1>13. \A i, j \in 1..L : Partners(c, j, i) => Partners(e, j, i)
  BY <1>4 DEF Partners
<1>14. \A k, l \in 1..Len(logs) :
         l < k /\ Announces(logs[k], logs[l]) => Partners(e, L + l, L + k)
  <2> SUFFICES ASSUME NEW k \in 1..Len(logs), NEW l \in 1..Len(logs),
                      l < k, Announces(logs[k], logs[l])
               PROVE  Partners(e, L + l, L + k)
    OBVIOUS
  <2>1. Announces(e[L + k], e[L + l])
    BY <1>5, <1>6 DEF Announces
  <2> QED BY <1>1, <1>4, <1>5, <2>1 DEF Partners
<1>15. ClaimsHaveChanges(e)
  <2> SUFFICES ASSUME NEW i \in 1..Len(e), IsClaim(e[i])
               PROVE  \E j \in 1..Len(e) : Partners(e, j, i)
    BY DEF ClaimsHaveChanges
  <2>1. CASE i \in 1..L
    <3>1. PICK j \in 1..L : Partners(c, j, i)
      BY <1>4, <2>1 DEF ChainOK, ClaimsHaveChanges
    <3>2. j \in 1..Len(e)
      BY <1>1, <1>4
    <3> QED BY <1>13, <2>1, <3>1, <3>2
  <2>2. ASSUME NEW k \in 1..Len(logs), i = L + k
        PROVE  \E j \in 1..Len(e) : Partners(e, j, i)
    <3>1. PICK l \in 1..(k - 1) : Announces(logs[k], logs[l])
      BY <1>6, <2>2 DEF Operation
    <3>2. l \in 1..Len(logs) /\ l < k /\ L + l \in 1..Len(e)
      BY <1>1, <1>4
    <3> QED BY <1>14, <2>2, <3>1, <3>2
  <2> QED BY <1>7, <2>1, <2>2
<1>16. ChangesHaveClaims(e)
  <2> SUFFICES ASSUME NEW j \in 1..Len(e), IsSupply(e[j]), e[j].truth \in ClaimCauses,
                      Delta(e[j]) # 0
               PROVE  \E i \in 1..Len(e) : Partners(e, j, i)
    BY DEF ChangesHaveClaims
  <2>1. CASE j \in 1..L
    <3>1. PICK i \in 1..L : Partners(c, j, i)
      BY <1>4, <2>1 DEF ChainOK, ChangesHaveClaims
    <3>2. i \in 1..Len(e)
      BY <1>1, <1>4
    <3> QED BY <1>13, <2>1, <3>1, <3>2
  <2>2. ASSUME NEW k \in 1..Len(logs), j = L + k
        PROVE  \E i \in 1..Len(e) : Partners(e, j, i)
    <3>1. IsSupply(logs[k]) /\ logs[k].truth \in ClaimCauses /\ Delta(logs[k]) # 0
      BY <1>5, <1>6, <2>2
    <3>2. PICK l \in (k + 1)..Len(logs) : Announces(logs[l], logs[k])
      BY <3>1 DEF Operation
    <3>3. l \in 1..Len(logs) /\ k < l /\ L + l \in 1..Len(e)
      BY <1>1, <1>4
    <3> QED BY <1>14, <2>2, <3>2, <3>3
  <2> QED BY <1>7, <2>1, <2>2
<1>17. EpochsCount(e)
  <2> SUFFICES ASSUME NEW i \in 1..Len(e), e[i].event = "Settled"
               PROVE  e[i].epoch = Cardinality(Settleds(e, i))
    BY DEF EpochsCount
  <2>1. CASE i \in 1..L
    <3>1. Settleds(e, i) = Settleds(c, i)
      BY <1>4, <2>1 DEF Settleds
    <3> QED BY <1>4, <2>1, <3>1 DEF ChainOK, EpochsCount
  <2>2. ASSUME NEW k \in 1..Len(logs), i = L + k
        PROVE  e[i].epoch = Cardinality(Settleds(e, i))
    <3>1. logs[k].event = "Settled" /\ e[i].epoch = Cardinality(Settleds(c, L)) + 1
      BY <1>5, <2>2 DEF Operation
    <3>2. \A l \in 1..Len(logs) : logs[l].event = "Settled" => l = k
      BY <3>1 DEF Operation
    <3>3. Settleds(e, i) = Settleds(c, L) \cup {i}
      <4>1. \A m \in 1..i : m \in 1..L \/ \E l \in 1..Len(logs) : m = L + l
        <5>1. \A m \in 1..i : m \in 1..Len(e)
          BY <1>4, <2>2
        <5> QED BY <1>7, <5>1
      <4>2. \A m \in 1..L : m \in 1..i /\ e[m] = c[m]
        BY <1>4, <2>2
      <4>3. \A m \in 1..i : m \notin 1..L /\ e[m].event = "Settled" => m = i
        BY <1>5, <2>2, <3>2, <4>1
      <4> QED BY <2>2, <4>2, <4>3, <1>4 DEF Settleds
    <3>4. IsFiniteSet(Settleds(c, L)) /\ i \notin Settleds(c, L)
      <4>1. IsFiniteSet(1..L)
        BY <1>4, FS_Interval
      <4> QED BY <1>4, <2>2, <4>1, FS_Subset DEF Settleds
    <3> QED BY <3>1, <3>3, <3>4, FS_AddElement
  <2> QED BY <1>7, <2>1, <2>2
<1>18. TxOK(e, t)
  <2>1. \A i \in 1..Len(e) : e[i].tx <= t
    <3> SUFFICES ASSUME NEW i \in 1..Len(e) PROVE e[i].tx <= t
      OBVIOUS
    <3>1. CASE i \in 1..L
      BY <1>4, <1>8, <3>1
    <3>2. ASSUME NEW k \in 1..Len(logs), i = L + k PROVE e[i].tx <= t
      BY <1>5, <1>8, <3>2
    <3> QED BY <1>7, <3>1, <3>2
  <2>2. \A i \in 1..L : i \in 1..Len(e) /\ e[i] = c[i]
    BY <1>1, <1>4
  <2>3. Len(e) > 0
    BY <1>1, <1>4
  <2>4. \A u \in 0..(t - 1) : \E i \in 1..Len(e) : e[i].tx = u
    BY <2>2 DEF TxOK
  <2> QED BY <2>1, <2>3, <2>4 DEF TxOK
<1>19. Grown(c, e, t)
  <2>1. ASSUME NEW i \in 1..Len(e), i > L PROVE e[i].tx = t
    BY <1>4, <1>5, <1>7, <2>1
  <2> QED BY <1>1, <1>4, <2>1 DEF Grown
<1> QED
  BY <1>9, <1>10, <1>11, <1>12, <1>15, <1>16, <1>17, <1>18, <1>19 DEF ChainOK, e, p, op

-----------------------------------------------------------------------------
LEMMA LastLog ==
  ASSUME ChainOK(chain), NEW t, \E i \in 1..Len(chain) : chain[i].tx = t
  PROVE  IsLast(chain, t, LastOf(t))
<1> DEFINE S == {i \in 1..Len(chain) : chain[i].tx = t}
           m == LastOf(t)
<1>1. Len(chain) \in Nat /\ \A i \in 1..Len(chain) : chain[i].tx \in Nat
  BY DEF ChainOK, LogsOK, LogOK
<1>2. S \in SUBSET (0..Len(chain)) /\ S # {}
  BY <1>1
<1>3. m \in S /\ \A i \in S : i <= m
  <2>1. Max(S) \in S /\ \A i \in S : i <= Max(S)
    <3> HIDE DEF S
    <3> QED BY <1>1, <1>2, MaxIsGreatest
  <2> QED BY <2>1 DEF LastOf
<1> HIDE DEF m
<1>4. \A i \in 1..Len(chain) : chain[i].tx <= t <=> i <= m
  <2> SUFFICES ASSUME NEW i \in 1..Len(chain)
               PROVE  chain[i].tx <= t <=> i <= m
    OBVIOUS
  <2>1. CASE i <= m
    BY <1>3, <2>1 DEF ChainOK, Sorted
  <2>2. CASE i > m
    <3>1. chain[m].tx <= chain[i].tx /\ chain[i].tx # t
      BY <1>3, <2>2 DEF ChainOK, Sorted
    <3> QED BY <1>1, <1>3, <2>2, <3>1
  <2> QED BY <1>1, <1>3, <2>1, <2>2
<1>5. chain[m].event # "Weth"
  <2> SUFFICES ASSUME chain[m].event = "Weth" PROVE FALSE
    OBVIOUS
  <2>1. m < Len(chain) /\ chain[m + 1].tx = t
    BY <1>3 DEF ChainOK, Followed
  <2>2. m + 1 \in S
    BY <1>1, <1>3, <2>1
  <2> QED BY <1>1, <1>3, <2>2
<1> QED BY <1>3, <1>4, <1>5 DEF IsLast, m

\* Without its last transactions the chain is well formed.
LEMMA TransactionsDropped ==
  ASSUME NEW c, ChainOK(c), NEW t, TxOK(c, t), NEW u \in Nat, u < t, u >= 1,
         NEW m, IsLast(c, u, m)
  PROVE  /\ ChainOK(SubSeq(c, 1, m)) /\ TxOK(SubSeq(c, 1, m), u + 1)
         /\ Len(SubSeq(c, 1, m)) = m /\ \A i \in 1..m : SubSeq(c, 1, m)[i] = c[i]
<1> DEFINE e == SubSeq(c, 1, m)
<1>1. PICK R : c \in Seq(R)
  BY DEF ChainOK, LogsOK
<1>2. /\ m \in 1..Len(c) /\ Len(c) \in Nat
      /\ e \in Seq(R) /\ Len(e) = m /\ \A i \in 1..m : e[i] = c[i]
  BY <1>1 DEF IsLast
<1> HIDE DEF e
<1>3. \A i \in 1..m : i \in 1..Len(c) /\ c[i].tx <= u
  BY <1>2 DEF IsLast
<1>4. \A i \in 1..Len(c) : c[i].tx <= u => i \in 1..m
  BY <1>2 DEF IsLast
<1>5. \A i, j \in 1..m : Partners(c, j, i) => Partners(e, j, i)
  BY <1>2 DEF Partners
<1>6. LogsOK(e) /\ Sorted(e) /\ OncePerOperation(e)
  BY <1>2, <1>3 DEF ChainOK, LogsOK, Sorted, OncePerOperation
<1>7. Followed(e)
  <2> SUFFICES ASSUME NEW i \in 1..m, c[i].event = "Weth"
               PROVE  i < m /\ e[i + 1].tx = e[i].tx
    BY <1>2 DEF Followed
  <2>1. i < Len(c) /\ c[i + 1].tx = c[i].tx
    BY <1>3 DEF ChainOK, Followed
  <2>2. i # m
    BY DEF IsLast
  <2> QED BY <1>2, <2>1, <2>2
<1>8. ClaimsHaveChanges(e)
  <2> SUFFICES ASSUME NEW i \in 1..m, IsClaim(c[i])
               PROVE  \E j \in 1..m : Partners(e, j, i)
    BY <1>2 DEF ClaimsHaveChanges
  <2>1. PICK j \in 1..Len(c) : Partners(c, j, i)
    BY <1>3 DEF ChainOK, ClaimsHaveChanges
  <2>2. j \in 1..m
    BY <1>2, <2>1 DEF Partners
  <2> QED BY <1>5, <2>1, <2>2
<1>9. ChangesHaveClaims(e)
  <2> SUFFICES ASSUME NEW j \in 1..m, IsSupply(c[j]), c[j].truth \in ClaimCauses,
                      Delta(c[j]) # 0
               PROVE  \E i \in 1..m : Partners(e, j, i)
    BY <1>2 DEF ChangesHaveClaims
  <2>1. PICK i \in 1..Len(c) : Partners(c, j, i)
    BY <1>3 DEF ChainOK, ChangesHaveClaims
  <2>2. i \in 1..m
    <3>1. c[i].tx = c[j].tx
      BY <2>1 DEF Partners
    <3> QED BY <1>3, <1>4, <3>1
  <2> QED BY <1>5, <2>1, <2>2
<1>10. EpochsCount(e)
  <2> SUFFICES ASSUME NEW i \in 1..m, c[i].event = "Settled"
               PROVE  c[i].epoch = Cardinality(Settleds(e, i))
    BY <1>2 DEF EpochsCount
  <2>1. Settleds(e, i) = Settleds(c, i)
    <3>1. \A j \in 1..i : j \in 1..m
      BY <1>2
    <3> QED BY <1>2, <3>1 DEF Settleds
  <2> QED BY <1>3, <2>1 DEF ChainOK, EpochsCount
<1>11. TxOK(e, u + 1)
  <2>1. \A i \in 1..m : e[i].tx <= u + 1
    BY <1>2, <1>3 DEF ChainOK, LogsOK, LogOK
  <2>2. ASSUME NEW v \in 0..u PROVE \E i \in 1..m : e[i].tx = v
    <3>1. v \in 0..(t - 1)
      BY DEF TxOK
    <3>2. PICK i \in 1..Len(c) : c[i].tx = v
      BY <3>1 DEF TxOK
    <3> QED BY <1>2, <1>4, <3>2
  <2> QED BY <1>2, <2>1, <2>2 DEF TxOK
<1> QED BY <1>2, <1>6, <1>7, <1>8, <1>9, <1>10, <1>11 DEF ChainOK, e

-----------------------------------------------------------------------------
(***************************************************************************)
(* What the operations emit.                                               *)
(***************************************************************************)
Shape(log, event, amount) ==
  DOMAIN log = Fields /\ log.event = event /\ log.amount = amount

LEMMA LogShapes ==
  /\ \A event, amount : Shape(Log(event, amount), event, amount)
  /\ \A event, amount, truth :
       /\ Shape(SupplyLog(event, amount, truth), event, amount)
       /\ SupplyLog(event, amount, truth).truth = truth
  /\ \A amount : Shape(WethLog(amount), "Weth", amount)
  /\ \A event, amount : Shape(CauseLog(event, amount), event, amount)
  /\ \A qMint, leg, epoch :
       /\ Shape(SettledLog(qMint, leg, epoch), "Settled", qMint)
       /\ SettledLog(qMint, leg, epoch).leg = leg
       /\ SettledLog(qMint, leg, epoch).epoch = epoch
  /\ \A event, class, amount :
       /\ Shape(FlowLog(event, class, amount), event, amount)
       /\ FlowLog(event, class, amount).class = class
<1>1. \A event, amount : Shape(Log(event, amount), event, amount)
  BY DEF Shape, Log, Fields
<1>2. \A event, amount, truth :
        /\ Shape(SupplyLog(event, amount, truth), event, amount)
        /\ SupplyLog(event, amount, truth).truth = truth
  BY DEF Shape, Log, Fields, SupplyLog
<1>3. ASSUME NEW qMint, NEW leg, NEW epoch
      PROVE  /\ Shape(SettledLog(qMint, leg, epoch), "Settled", qMint)
             /\ SettledLog(qMint, leg, epoch).leg = leg
             /\ SettledLog(qMint, leg, epoch).epoch = epoch
  <2> DEFINE x == [Log("Settled", qMint) EXCEPT !.leg = leg]
  <2>1. Shape(x, "Settled", qMint) /\ x.leg = leg
    BY DEF Shape, Log, Fields
  <2>2. SettledLog(qMint, leg, epoch) = [x EXCEPT !.epoch = epoch]
    BY DEF SettledLog, Log
  <2> HIDE DEF x
  <2> QED BY <2>1, <2>2 DEF Shape, Fields
<1>4. \A event, class, amount :
        /\ Shape(FlowLog(event, class, amount), event, amount)
        /\ FlowLog(event, class, amount).class = class
  BY DEF Shape, Log, Fields, FlowLog
<1> QED BY <1>1, <1>2, <1>3, <1>4 DEF WethLog, CauseLog

\* Logs by their events: a mint or burn of an amount, its cause, and the others.
LEMMA ContentOfLogs ==
  ASSUME NEW log, NEW event, NEW amount, Shape(log, event, amount)
  PROVE  /\ event = "Weth" /\ amount \in Int => ContentOK(log) /\ ~IsSupply(log) /\ ~IsClaim(log)
         /\ event = "Settled" /\ amount \in Nat /\ log.leg \in Nat =>
              ContentOK(log) /\ ~IsSupply(log) /\ (IsClaim(log) <=> amount > 0)
         /\ event \in {"Redeemed", "VyrfHarvest"} /\ amount \in Nat =>
              ContentOK(log) /\ ~IsSupply(log) /\ (IsClaim(log) <=> amount > 0)
         /\ event = "VuxRevenueBurned" /\ amount \in Nat =>
              ContentOK(log) /\ ~IsSupply(log) /\ ~IsClaim(log)
         /\ event = "Inflow" /\ amount \in Nat /\ log.class \in 2..4 =>
              ContentOK(log) /\ ~IsSupply(log) /\ ~IsClaim(log)
         /\ event = "Outflow" /\ amount \in Nat /\ log.class \in 1..4 =>
              ContentOK(log) /\ ~IsSupply(log) /\ ~IsClaim(log)
         /\ event = "Mint" /\ amount \in Nat /\ amount > 0
              /\ log.truth \in ClaimCauses \cup {"genesis"} =>
              ContentOK(log) /\ IsSupply(log) /\ ~IsClaim(log)
         /\ event = "Burn" /\ amount \in Nat
              /\ log.truth \in ClaimCauses \cup {"other_authorized_burn"} =>
              ContentOK(log) /\ IsSupply(log) /\ ~IsClaim(log)
BY DEF Shape, ContentOK, IsSupply, IsClaim, Events, SupplyEvents, Default

CauseEvents == {"Settled", "Redeemed", "VyrfHarvest"}

\* Logs of which at most the s-th changes the supply and only the last is a cause.
LEMMA Emission ==
  ASSUME NEW R, NEW e \in Seq(R), Len(e) > 0, NEW s \in 0..Len(e), NEW epoch,
         \A k \in 1..Len(e) :
           /\ DOMAIN e[k] = Fields /\ ContentOK(e[k])
           /\ k < Len(e) => e[k].event \notin CauseEvents
           /\ IsSupply(e[k]) => k = s,
         e[Len(e)].event # "Weth",
         e[Len(e)].event = "Settled" => e[Len(e)].epoch = epoch,
         IsClaim(e[Len(e)]) => s \in 1..(Len(e) - 1) /\ Announces(e[Len(e)], e[s]),
         s > 0 /\ IsSupply(e[s]) /\ e[s].truth \in ClaimCauses /\ Delta(e[s]) # 0 =>
           s < Len(e) /\ Announces(e[Len(e)], e[s])
  PROVE  Operation(e, epoch)
<1>1. Len(e) \in Nat /\ Len(e) \in 1..Len(e)
  OBVIOUS
<1>2. ASSUME NEW k \in 1..Len(e)
      PROVE  /\ DOMAIN e[k] = Fields /\ ContentOK(e[k])
             /\ e[k].event = "Settled" => e[k].epoch = epoch
             /\ IsClaim(e[k]) => \E j \in 1..(k - 1) : Announces(e[k], e[j])
             /\ IsSupply(e[k]) /\ e[k].truth \in ClaimCauses /\ Delta(e[k]) # 0 =>
                  \E j \in (k + 1)..Len(e) : Announces(e[j], e[k])
  <2>1. k # Len(e) => ~IsClaim(e[k]) /\ e[k].event # "Settled"
    BY <1>1 DEF CauseEvents, IsClaim
  <2>2. ASSUME IsSupply(e[k]), e[k].truth \in ClaimCauses, Delta(e[k]) # 0
        PROVE  \E j \in (k + 1)..Len(e) : Announces(e[j], e[k])
    <3>1. k = s /\ s > 0
      BY <2>2
    <3>2. Len(e) \in (k + 1)..Len(e) /\ Announces(e[Len(e)], e[k])
      BY <1>1, <2>2, <3>1
    <3> QED BY <3>2
  <2>3. ASSUME IsClaim(e[k]) PROVE \E j \in 1..(k - 1) : Announces(e[k], e[j])
    <3>1. k = Len(e)
      BY <2>1, <2>3
    <3> QED BY <2>3, <3>1
  <2> QED BY <2>1, <2>2, <2>3
<1>3. ASSUME NEW i \in 1..Len(e), NEW j \in 1..Len(e),
             \/ IsSupply(e[i]) /\ IsSupply(e[j])
             \/ e[i].event \in CauseEvents /\ e[j].event \in CauseEvents
      PROVE  i = j
  BY <1>1, <1>3
<1> QED BY <1>1, <1>2, <1>3 DEF Operation, CauseEvents

LEMMA NothingJoined ==
  ASSUME NEW R, NEW s \in Seq(R)
  PROVE  s \o <<>> = s /\ <<>> \o s = s
OBVIOUS

LEMMA JoinIs ==
  ASSUME NEW R, NEW x \in Seq(R), NEW y \in Seq(R), NEW z \in Seq(R),
         Len(z) = Len(x) + Len(y), \A i \in 1..Len(x) : z[i] = x[i],
         \A i \in 1..Len(y) : z[Len(x) + i] = y[i]
  PROVE  x \o y = z
<1>1. /\ x \o y \in Seq(R) /\ Len(x \o y) = Len(z)
      /\ Len(x) \in Nat /\ Len(y) \in Nat
      /\ \A i \in 1..Len(x) : (x \o y)[i] = x[i]
      /\ \A i \in 1..Len(y) : (x \o y)[Len(x) + i] = y[i]
  BY Concatenation
<1>2. \A i \in 1..Len(z) : (x \o y)[i] = z[i]
  <2> TAKE i \in 1..Len(z)
  <2>1. CASE i \in 1..Len(x)
    BY <1>1, <2>1
  <2>2. CASE i \notin 1..Len(x)
    <3>1. i - Len(x) \in 1..Len(y) /\ i = Len(x) + (i - Len(x))
      BY <1>1, <2>2
    <3> QED BY <1>1, <3>1
  <2> QED BY <2>1, <2>2
<1> QED BY <1>1, <1>2, SeqEqual

LEMMA Joins ==
  /\ \A a, b : <<a>> \o <<b>> = <<a, b>>
  /\ \A a, b, c : <<a, b>> \o <<c>> = <<a, b, c>>
  /\ \A a, b, c, d : <<a, b, c>> \o <<d>> = <<a, b, c, d>>
  /\ \A a, b, c, d, f : <<a, b>> \o <<c, d, f>> = <<a, b, c, d, f>>
  /\ \A a, b, c, d, f, g : <<a, b, c, d, f>> \o <<g>> = <<a, b, c, d, f, g>>
<1>1. \A a, b : <<a>> \o <<b>> = <<a, b>>
  <2> TAKE a, b
  <2> DEFINE R == {a, b}
             x == <<a>>
             y == <<b>>
             z == <<a, b>>
  <2>1. /\ x \in Seq(R) /\ Len(x) = 1 /\ x[1] = a
        /\ y \in Seq(R) /\ Len(y) = 1 /\ y[1] = b
        /\ z \in Seq(R) /\ Len(z) = 2 /\ z[1] = a /\ z[2] = b
    OBVIOUS
  <2> HIDE DEF R, x, y, z
  <2>2. /\ x \in Seq(R) /\ y \in Seq(R) /\ z \in Seq(R) /\ Len(z) = Len(x) + Len(y)
        /\ \A i \in 1..Len(x) : z[i] = x[i]
        /\ \A i \in 1..Len(y) : z[Len(x) + i] = y[i]
    BY <2>1
  <2>3. x \o y = z
    BY ONLY <2>2, JoinIs
  <2> QED BY <2>3 DEF x, y, z
<1>2. \A a, b, c : <<a, b>> \o <<c>> = <<a, b, c>>
  <2> TAKE a, b, c
  <2> DEFINE R == {a, b, c}
             x == <<a, b>>
             y == <<c>>
             z == <<a, b, c>>
  <2>1. /\ x \in Seq(R) /\ Len(x) = 2 /\ x[1] = a /\ x[2] = b
        /\ y \in Seq(R) /\ Len(y) = 1 /\ y[1] = c
        /\ z \in Seq(R) /\ Len(z) = 3 /\ z[1] = a /\ z[2] = b /\ z[3] = c
    OBVIOUS
  <2> HIDE DEF R, x, y, z
  <2>2. /\ x \in Seq(R) /\ y \in Seq(R) /\ z \in Seq(R) /\ Len(z) = Len(x) + Len(y)
        /\ \A i \in 1..Len(x) : z[i] = x[i]
        /\ \A i \in 1..Len(y) : z[Len(x) + i] = y[i]
    BY <2>1
  <2>3. x \o y = z
    BY ONLY <2>2, JoinIs
  <2> QED BY <2>3 DEF x, y, z
<1>3. \A a, b, c, d : <<a, b, c>> \o <<d>> = <<a, b, c, d>>
  <2> TAKE a, b, c, d
  <2> DEFINE R == {a, b, c, d}
             x == <<a, b, c>>
             y == <<d>>
             z == <<a, b, c, d>>
  <2>1. /\ x \in Seq(R) /\ Len(x) = 3 /\ x[1] = a /\ x[2] = b /\ x[3] = c
        /\ y \in Seq(R) /\ Len(y) = 1 /\ y[1] = d
        /\ z \in Seq(R) /\ Len(z) = 4 /\ z[1] = a /\ z[2] = b /\ z[3] = c /\ z[4] = d
    OBVIOUS
  <2> HIDE DEF R, x, y, z
  <2>2. /\ x \in Seq(R) /\ y \in Seq(R) /\ z \in Seq(R) /\ Len(z) = Len(x) + Len(y)
        /\ \A i \in 1..Len(x) : z[i] = x[i]
        /\ \A i \in 1..Len(y) : z[Len(x) + i] = y[i]
    BY <2>1
  <2>3. x \o y = z
    BY ONLY <2>2, JoinIs
  <2> QED BY <2>3 DEF x, y, z
<1>4. \A a, b, c, d, f : <<a, b>> \o <<c, d, f>> = <<a, b, c, d, f>>
  <2> TAKE a, b, c, d, f
  <2> DEFINE R == {a, b, c, d, f}
             x == <<a, b>>
             y == <<c, d, f>>
             z == <<a, b, c, d, f>>
  <2>1. /\ x \in Seq(R) /\ Len(x) = 2 /\ x[1] = a /\ x[2] = b
        /\ y \in Seq(R) /\ Len(y) = 3 /\ y[1] = c /\ y[2] = d /\ y[3] = f
        /\ z \in Seq(R) /\ Len(z) = 5 /\ z[1] = a /\ z[2] = b /\ z[3] = c /\ z[4] = d /\ z[5] = f
    OBVIOUS
  <2> HIDE DEF R, x, y, z
  <2>2. /\ x \in Seq(R) /\ y \in Seq(R) /\ z \in Seq(R) /\ Len(z) = Len(x) + Len(y)
        /\ \A i \in 1..Len(x) : z[i] = x[i]
        /\ \A i \in 1..Len(y) : z[Len(x) + i] = y[i]
    BY <2>1
  <2>3. x \o y = z
    BY ONLY <2>2, JoinIs
  <2> QED BY <2>3 DEF x, y, z
<1>5. \A a, b, c, d, f, g : <<a, b, c, d, f>> \o <<g>> = <<a, b, c, d, f, g>>
  <2> TAKE a, b, c, d, f, g
  <2> DEFINE R == {a, b, c, d, f, g}
             x == <<a, b, c, d, f>>
             y == <<g>>
             z == <<a, b, c, d, f, g>>
  <2>1. /\ x \in Seq(R) /\ Len(x) = 5 /\ x[1] = a /\ x[2] = b /\ x[3] = c /\ x[4] = d /\ x[5] = f
        /\ y \in Seq(R) /\ Len(y) = 1 /\ y[1] = g
        /\ z \in Seq(R) /\ Len(z) = 6 /\ z[1] = a /\ z[2] = b /\ z[3] = c /\ z[4] = d /\ z[5] = f /\ z[6] = g
    OBVIOUS
  <2> HIDE DEF R, x, y, z
  <2>2. /\ x \in Seq(R) /\ y \in Seq(R) /\ z \in Seq(R) /\ Len(z) = Len(x) + Len(y)
        /\ \A i \in 1..Len(x) : z[i] = x[i]
        /\ \A i \in 1..Len(y) : z[Len(x) + i] = y[i]
    BY <2>1
  <2>3. x \o y = z
    BY ONLY <2>2, JoinIs
  <2> QED BY <2>3 DEF x, y, z
<1> QED BY <1>1, <1>2, <1>3, <1>4, <1>5

\* A log that neither changes the supply nor names a cause.
Plain(log) ==
  DOMAIN log = Fields /\ ContentOK(log) /\ ~IsSupply(log) /\ log.event \notin CauseEvents

LEMMA PlainLogs ==
  /\ \A amount \in Int : Plain(WethLog(amount)) /\ WethLog(amount).event = "Weth"
  /\ \A amount \in Nat :
       /\ Plain(CauseLog("VuxRevenueBurned", amount))
       /\ CauseLog("VuxRevenueBurned", amount).event # "Weth"
       /\ \A class \in 2..4 : /\ Plain(FlowLog("Inflow", class, amount))
                               /\ FlowLog("Inflow", class, amount).event # "Weth"
       /\ \A class \in 1..4 : /\ Plain(FlowLog("Outflow", class, amount))
                               /\ FlowLog("Outflow", class, amount).event # "Weth"
<1>1. \A amount \in Int : Plain(WethLog(amount)) /\ WethLog(amount).event = "Weth"
  BY LogShapes, ContentOfLogs DEF Shape, Plain, CauseEvents
<1>2. ASSUME NEW amount \in Nat
      PROVE  /\ Plain(CauseLog("VuxRevenueBurned", amount))
             /\ CauseLog("VuxRevenueBurned", amount).event # "Weth"
  <2> DEFINE x == CauseLog("VuxRevenueBurned", amount)
  <2>1. Shape(x, "VuxRevenueBurned", amount)
    BY LogShapes
  <2> HIDE DEF x
  <2> QED BY <2>1, ContentOfLogs DEF Shape, Plain, CauseEvents, x
<1>3. ASSUME NEW amount \in Nat, NEW class \in 2..4
      PROVE  /\ Plain(FlowLog("Inflow", class, amount))
             /\ FlowLog("Inflow", class, amount).event # "Weth"
  <2> DEFINE x == FlowLog("Inflow", class, amount)
  <2>1. Shape(x, "Inflow", amount) /\ x.class = class
    BY LogShapes
  <2> HIDE DEF x
  <2> QED BY <2>1, ContentOfLogs DEF Shape, Plain, CauseEvents, x
<1>4. ASSUME NEW amount \in Nat, NEW class \in 1..4
      PROVE  /\ Plain(FlowLog("Outflow", class, amount))
             /\ FlowLog("Outflow", class, amount).event # "Weth"
  <2> DEFINE x == FlowLog("Outflow", class, amount)
  <2>1. Shape(x, "Outflow", amount) /\ x.class = class
    BY LogShapes
  <2> HIDE DEF x
  <2> QED BY <2>1, ContentOfLogs DEF Shape, Plain, CauseEvents, x
<1> QED BY <1>1, <1>2, <1>3, <1>4

\* A burn or a mint, which truly has that cause.
Moves(log, truth) ==
  /\ DOMAIN log = Fields /\ ContentOK(log) /\ IsSupply(log) /\ log.truth = truth
  /\ log.event \notin CauseEvents /\ log.event # "Weth"

\* The event that closes an operation, and the epoch it names.
Closes(log, epoch) ==
  /\ DOMAIN log = Fields /\ ContentOK(log) /\ ~IsSupply(log) /\ log.event # "Weth"
  /\ log.event = "Settled" => log.epoch = epoch

LEMMA PlainEmission ==
  ASSUME NEW R, NEW e \in Seq(R), Len(e) > 0, NEW s \in 0..Len(e),
         \A k \in 1..Len(e) : k # s => Plain(e[k]),
         s > 0 => Moves(e[s], "other_authorized_burn"),
         e[Len(e)].event # "Weth", NEW epoch
  PROVE  Operation(e, epoch)
<1>1. Len(e) \in Nat /\ Len(e) \in 1..Len(e)
  OBVIOUS
<1>2. \A k \in 1..Len(e) :
        /\ DOMAIN e[k] = Fields /\ ContentOK(e[k]) /\ e[k].event \notin CauseEvents
        /\ IsSupply(e[k]) => k = s /\ e[k].truth \notin ClaimCauses
  BY <1>1 DEF Plain, Moves, ClaimCauses
<1>3. /\ e[Len(e)].event = "Settled" => e[Len(e)].epoch = epoch
      /\ ~IsClaim(e[Len(e)])
  BY <1>1, <1>2 DEF CauseEvents, IsClaim
<1>4. s > 0 /\ IsSupply(e[s]) /\ e[s].truth \in ClaimCauses /\ Delta(e[s]) # 0 =>
        s < Len(e) /\ Announces(e[Len(e)], e[s])
  BY <1>1, <1>2
<1> QED BY <1>2, <1>3, <1>4, Emission

LEMMA ClosedEmission ==
  ASSUME NEW R, NEW e \in Seq(R), Len(e) > 0, NEW s \in 0..(Len(e) - 1), NEW epoch,
         \A k \in 1..(Len(e) - 1) : k # s => Plain(e[k]),
         Closes(e[Len(e)], epoch),
         s = 0 => ~IsClaim(e[Len(e)]),
         s > 0 => /\ \E truth : Moves(e[s], truth)
                  /\ IsClaim(e[Len(e)]) \/ Delta(e[s]) # 0 => Announces(e[Len(e)], e[s])
  PROVE  Operation(e, epoch)
<1>1. Len(e) \in Nat /\ Len(e) \in 1..Len(e) /\ s \in 0..Len(e)
      /\ \A k \in 1..Len(e) : k < Len(e) => k \in 1..(Len(e) - 1)
  OBVIOUS
<1>2. ASSUME NEW k \in 1..Len(e)
      PROVE  /\ DOMAIN e[k] = Fields /\ ContentOK(e[k])
             /\ k < Len(e) => e[k].event \notin CauseEvents
             /\ IsSupply(e[k]) => k = s
  BY <1>1 DEF Plain, Moves, Closes
<1>3. /\ e[Len(e)].event # "Weth"
      /\ e[Len(e)].event = "Settled" => e[Len(e)].epoch = epoch
  BY DEF Closes
<1>4. IsClaim(e[Len(e)]) => s \in 1..(Len(e) - 1) /\ Announces(e[Len(e)], e[s])
  BY <1>1
<1>5. s > 0 /\ IsSupply(e[s]) /\ e[s].truth \in ClaimCauses /\ Delta(e[s]) # 0 =>
        s < Len(e) /\ Announces(e[Len(e)], e[s])
  BY <1>1
<1> QED BY <1>1, <1>2, <1>3, <1>4, <1>5, Emission

\* Mints and burns, and the causes they are announced by.
LEMMA Movements ==
  /\ \A q \in Nat : q # 0 => Moves(SupplyLog("Mint", q, "settlement_mint"), "settlement_mint")
  /\ \A q \in Nat, truth \in {"redemption_burn", "vyrf_burn", "other_authorized_burn"} :
       Moves(SupplyLog("Burn", q, truth), truth)
<1>1. ASSUME NEW q \in Nat, q # 0
      PROVE  Moves(SupplyLog("Mint", q, "settlement_mint"), "settlement_mint")
  <2> DEFINE x == SupplyLog("Mint", q, "settlement_mint")
  <2>1. Shape(x, "Mint", q) /\ x.truth = "settlement_mint"
    BY LogShapes
  <2> HIDE DEF x
  <2> QED BY <1>1, <2>1, ContentOfLogs DEF Shape, Moves, CauseEvents, ClaimCauses, x
<1>2. ASSUME NEW q \in Nat, NEW truth \in {"redemption_burn", "vyrf_burn", "other_authorized_burn"}
      PROVE  Moves(SupplyLog("Burn", q, truth), truth)
  <2> DEFINE x == SupplyLog("Burn", q, truth)
  <2>1. Shape(x, "Burn", q) /\ x.truth = truth
    BY LogShapes
  <2> HIDE DEF x
  <2> QED BY <2>1, ContentOfLogs DEF Shape, Moves, CauseEvents, ClaimCauses, x
<1> QED BY <1>1, <1>2

LEMMA Closings ==
  ASSUME NEW epoch, NEW q \in Nat
  PROVE  /\ \A leg \in Nat :
              LET z == SettledLog(q, leg, epoch)
              IN  /\ Closes(z, epoch) /\ (IsClaim(z) <=> q # 0)
                  /\ Claimed(z) = q /\ CauseOf(z) = "settlement_mint"
         /\ LET z == CauseLog("Redeemed", q)
            IN  /\ Closes(z, epoch) /\ (IsClaim(z) <=> q # 0)
                /\ Claimed(z) = -q /\ CauseOf(z) = "redemption_burn"
         /\ LET z == CauseLog("VyrfHarvest", q)
            IN  /\ Closes(z, epoch) /\ (IsClaim(z) <=> q # 0)
                /\ Claimed(z) = -q /\ CauseOf(z) = "vyrf_burn"
<1>1. ASSUME NEW leg \in Nat
      PROVE  LET z == SettledLog(q, leg, epoch)
             IN  /\ Closes(z, epoch) /\ (IsClaim(z) <=> q # 0)
                 /\ Claimed(z) = q /\ CauseOf(z) = "settlement_mint"
  <2> DEFINE z == SettledLog(q, leg, epoch)
  <2>1. Shape(z, "Settled", q) /\ z.leg = leg /\ z.epoch = epoch
    BY LogShapes
  <2> HIDE DEF z
  <2>2. Closes(z, epoch) /\ (IsClaim(z) <=> q # 0)
    BY <2>1, ContentOfLogs DEF Shape, Closes
  <2>3. Claimed(z) = q /\ CauseOf(z) = "settlement_mint"
    BY <2>1 DEF Shape, Claimed, CauseOf
  <2> QED BY <2>2, <2>3 DEF z
<1>2. LET z == CauseLog("Redeemed", q)
      IN  /\ Closes(z, epoch) /\ (IsClaim(z) <=> q # 0)
          /\ Claimed(z) = -q /\ CauseOf(z) = "redemption_burn"
  <2> DEFINE z == CauseLog("Redeemed", q)
  <2>1. Shape(z, "Redeemed", q)
    BY LogShapes
  <2> HIDE DEF z
  <2>2. Closes(z, epoch) /\ (IsClaim(z) <=> q # 0)
    BY <2>1, ContentOfLogs DEF Shape, Closes
  <2>3. Claimed(z) = -q /\ CauseOf(z) = "redemption_burn"
    BY <2>1 DEF Shape, Claimed, CauseOf
  <2> QED BY <2>2, <2>3 DEF z
<1>3. LET z == CauseLog("VyrfHarvest", q)
      IN  /\ Closes(z, epoch) /\ (IsClaim(z) <=> q # 0)
          /\ Claimed(z) = -q /\ CauseOf(z) = "vyrf_burn"
  <2> DEFINE z == CauseLog("VyrfHarvest", q)
  <2>1. Shape(z, "VyrfHarvest", q)
    BY LogShapes
  <2> HIDE DEF z
  <2>2. Closes(z, epoch) /\ (IsClaim(z) <=> q # 0)
    BY <2>1, ContentOfLogs DEF Shape, Closes
  <2>3. Claimed(z) = -q /\ CauseOf(z) = "vyrf_burn"
    BY <2>1 DEF Shape, Claimed, CauseOf
  <2> QED BY <2>2, <2>3 DEF z
<1> QED BY <1>1, <1>2, <1>3

LEMMA AnnouncedBurn ==
  ASSUME NEW q \in Nat, NEW z, NEW truth \in {"redemption_burn", "vyrf_burn"},
         IsClaim(z), Claimed(z) = -q, CauseOf(z) = truth
  PROVE  Announces(z, SupplyLog("Burn", q, truth))
<1> DEFINE x == SupplyLog("Burn", q, truth)
<1>1. Shape(x, "Burn", q) /\ x.truth = truth
  BY LogShapes
<1> HIDE DEF x
<1>2. IsSupply(x) /\ Delta(x) = -q
  BY <1>1 DEF Shape, IsSupply, SupplyEvents, Delta
<1> QED BY <1>1, <1>2 DEF Announces, x

LEMMA AnnouncedMint ==
  ASSUME NEW q \in Nat, NEW z, IsClaim(z), Claimed(z) = q, CauseOf(z) = "settlement_mint"
  PROVE  Announces(z, SupplyLog("Mint", q, "settlement_mint"))
<1> DEFINE x == SupplyLog("Mint", q, "settlement_mint")
<1>1. Shape(x, "Mint", q) /\ x.truth = "settlement_mint"
  BY LogShapes
<1> HIDE DEF x
<1>2. IsSupply(x) /\ Delta(x) = q
  BY <1>1 DEF Shape, IsSupply, SupplyEvents, Delta
<1> QED BY <1>1, <1>2 DEF Announces, x

LEMMA NoBurnOfNothing ==
  ASSUME NEW truth
  PROVE  Delta(SupplyLog("Burn", 0, truth)) = 0
<1> DEFINE x == SupplyLog("Burn", 0, truth)
<1>1. Shape(x, "Burn", 0)
  BY LogShapes
<1> HIDE DEF x
<1> QED BY <1>1 DEF Shape, Delta, x

LEMMA TakeEmits ==
  ASSUME NEW qMint \in Nat, NEW leg \in Nat, NEW epoch
  PROVE  Operation(<<WethLog(1)>>
                   \o OnlyIf(qMint # 0, <<SupplyLog("Mint", qMint, "settlement_mint")>>)
                   \o <<SettledLog(qMint, leg, epoch)>>, epoch)
<1> DEFINE w == WethLog(1)
           m == SupplyLog("Mint", qMint, "settlement_mint")
           z == SettledLog(qMint, leg, epoch)
<1>1. /\ Plain(w) /\ Closes(z, epoch) /\ (IsClaim(z) <=> qMint # 0)
      /\ Claimed(z) = qMint /\ CauseOf(z) = "settlement_mint"
      /\ qMint # 0 => Moves(m, "settlement_mint")
      /\ qMint # 0 => Announces(z, m)
  BY 1 \in Int, PlainLogs, Closings, Movements, AnnouncedMint
<1> HIDE DEF w, m, z
<1>2. CASE qMint # 0
  <2> DEFINE e == <<w, m, z>>
             R == {w, m, z}
  <2>1. e \in Seq(R) /\ Len(e) = 3 /\ e[1] = w /\ e[2] = m /\ e[3] = z
    OBVIOUS
  <2> HIDE DEF e, R
  <2>2. \A k \in 1..(Len(e) - 1) : k # 2 => Plain(e[k])
    BY <1>1, <2>1
  <2>3. /\ Len(e) > 0 /\ 2 \in 0..(Len(e) - 1) /\ Closes(e[Len(e)], epoch)
        /\ \E truth : Moves(e[2], truth)
        /\ Announces(e[Len(e)], e[2])
    BY <1>1, <1>2, <2>1
  <2>4. Operation(e, epoch)
    BY ONLY <2>1, <2>2, <2>3, ClosedEmission
  <2>5. <<w>> \o <<m>> = <<w, m>> /\ <<w, m>> \o <<z>> = e
    BY Joins DEF e
  <2> QED BY <1>2, <2>4, <2>5 DEF OnlyIf, w, m, z
<1>3. CASE qMint = 0
  <2> DEFINE e == <<w, z>>
             R == {w, z}
  <2>1. e \in Seq(R) /\ Len(e) = 2 /\ e[1] = w /\ e[2] = z
    OBVIOUS
  <2> HIDE DEF e, R
  <2>2. PICK s \in 0..(Len(e) - 1) : s = 0
    BY <2>1
  <2>3. /\ Len(e) > 0 /\ Closes(e[Len(e)], epoch)
        /\ \A k \in 1..(Len(e) - 1) : k # s => Plain(e[k])
        /\ s = 0 => ~IsClaim(e[Len(e)])
        /\ ~(s > 0)
    BY <1>1, <1>3, <2>1, <2>2
  <2>4. Operation(e, epoch)
    BY ONLY <2>1, <2>3, s \in 0..(Len(e) - 1), ClosedEmission
  <2>5. <<w>> \o <<>> \o <<z>> = e
    <3>1. <<w>> \o <<>> = <<w>>
      BY NothingJoined, <<w>> \in Seq({w})
    <3> QED BY <3>1, Joins DEF e
  <2> QED BY <1>3, <2>4, <2>5 DEF OnlyIf, w, m, z
<1> QED BY <1>2, <1>3

LEMMA RedeemEmits ==
  ASSUME NEW q \in Nat, NEW epoch
  PROVE  Operation(<<SupplyLog("Burn", q, "redemption_burn"), WethLog(-q),
                     CauseLog("Redeemed", q)>>, epoch)
<1> DEFINE b == SupplyLog("Burn", q, "redemption_burn")
           w == WethLog(-q)
           z == CauseLog("Redeemed", q)
           e == <<b, w, z>>
           R == {b, w, z}
<1>1. /\ Plain(w) /\ Closes(z, epoch) /\ (IsClaim(z) <=> q # 0)
      /\ Claimed(z) = -q /\ CauseOf(z) = "redemption_burn"
      /\ Moves(b, "redemption_burn")
      /\ q # 0 => Announces(z, b)
  BY -q \in Int, PlainLogs, Closings, Movements, AnnouncedBurn
<1>2. q = 0 => Delta(b) = 0
  BY NoBurnOfNothing
<1>3. e \in Seq(R) /\ Len(e) = 3 /\ e[1] = b /\ e[2] = w /\ e[3] = z
  OBVIOUS
<1> HIDE DEF e, R, b, w, z
<1>4. PICK s \in 0..(Len(e) - 1) : s = 1
  BY <1>3
<1>5. /\ Len(e) > 0 /\ Closes(e[Len(e)], epoch) /\ s # 0
      /\ \A k \in 1..(Len(e) - 1) : k # s => Plain(e[k])
      /\ \E truth : Moves(e[s], truth)
      /\ IsClaim(e[Len(e)]) \/ Delta(e[s]) # 0 => Announces(e[Len(e)], e[s])
  BY <1>1, <1>2, <1>3, <1>4
<1>6. Operation(e, epoch)
  BY ONLY <1>3, <1>5, s \in 0..(Len(e) - 1), ClosedEmission
<1> QED BY <1>6 DEF e, b, w, z

LEMMA SelfBurnEmits ==
  ASSUME NEW q \in Nat, NEW epoch
  PROVE  Operation(<<SupplyLog("Burn", q, "other_authorized_burn")>>, epoch)
<1> DEFINE b == SupplyLog("Burn", q, "other_authorized_burn")
           e == <<b>>
           R == {b}
<1>1. Moves(b, "other_authorized_burn")
  BY Movements
<1>2. e \in Seq(R) /\ Len(e) = 1 /\ e[1] = b
  OBVIOUS
<1> HIDE DEF e, R, b
<1>3. \A k \in 1..Len(e) : k # 1 => Plain(e[k])
  BY <1>2
<1>4. e[Len(e)].event # "Weth"
  BY <1>1, <1>2 DEF Moves
<1>5. Operation(e, epoch)
  BY <1>1, <1>2, <1>3, <1>4, PlainEmission, 1 \in 0..1
<1> QED BY <1>5 DEF e, b

LEMMA RevenueBurnEmits ==
  ASSUME NEW q \in Nat, NEW epoch
  PROVE  Operation(OnlyIf(q # 0, <<SupplyLog("Burn", q, "other_authorized_burn")>>)
                   \o <<CauseLog("VuxRevenueBurned", q)>>, epoch)
<1> DEFINE b == SupplyLog("Burn", q, "other_authorized_burn")
           v == CauseLog("VuxRevenueBurned", q)
<1>1. Moves(b, "other_authorized_burn") /\ Plain(v) /\ v.event # "Weth"
  BY Movements, PlainLogs
<1> HIDE DEF b, v
<1>2. CASE q # 0
  <2> DEFINE e == <<b, v>>
             R == {b, v}
  <2>1. e \in Seq(R) /\ Len(e) = 2 /\ e[1] = b /\ e[2] = v
    OBVIOUS
  <2> HIDE DEF e, R
  <2>2. \A k \in 1..Len(e) : k # 1 => Plain(e[k])
    BY <1>1, <2>1
  <2>3. e[Len(e)].event # "Weth"
    BY <1>1, <2>1
  <2>4. Operation(e, epoch)
    BY <1>1, <2>1, <2>2, <2>3, PlainEmission, 1 \in 0..2
  <2> QED BY <1>2, <2>4, Joins DEF OnlyIf, b, v, e
<1>3. CASE q = 0
  <2> DEFINE e == <<v>>
             R == {v}
  <2>1. e \in Seq(R) /\ Len(e) = 1 /\ e[1] = v /\ <<>> \o e = e
    BY NothingJoined, e \in Seq(R)
  <2> HIDE DEF e, R
  <2>2. PICK s \in 0..Len(e) : s = 0
    BY <2>1
  <2>3. /\ \A k \in 1..Len(e) : k # s => Plain(e[k])
        /\ e[Len(e)].event # "Weth" /\ Len(e) > 0 /\ ~(s > 0)
    BY <1>1, <2>1, <2>2
  <2>4. Operation(e, epoch)
    BY ONLY <2>1, <2>3, s \in 0..Len(e), PlainEmission
  <2> QED BY <1>3, <2>1, <2>4 DEF OnlyIf, b, v, e
<1> QED BY <1>2, <1>3

LEMMA HarvestEmits ==
  ASSUME NEW q \in Nat, NEW w \in Nat, NEW epoch
  PROVE  Operation(OnlyIf(q # 0, <<FlowLog("Inflow", 3, q), SupplyLog("Burn", q, "vyrf_burn")>>)
                   \o OnlyIf(w # 0, <<FlowLog("Inflow", 3, w), WethLog(w),
                                      FlowLog("Outflow", 2, w)>>)
                   \o <<CauseLog("VyrfHarvest", q)>>, epoch)
<1> DEFINE f == FlowLog("Inflow", 3, q)
           b == SupplyLog("Burn", q, "vyrf_burn")
           g == FlowLog("Inflow", 3, w)
           h == WethLog(w)
           o == FlowLog("Outflow", 2, w)
           z == CauseLog("VyrfHarvest", q)
           R == {f, b, g, h, o, z}
<1>0. Plain(f) /\ Plain(g) /\ Plain(h) /\ Plain(o)
  <2>1. w \in Int
    OBVIOUS
  <2>2. Plain(h)
    BY <2>1, PlainLogs
  <2> QED BY <2>2, PlainLogs
<1>1. /\ Plain(f) /\ Plain(g) /\ Plain(h) /\ Plain(o)
      /\ Closes(z, epoch) /\ (IsClaim(z) <=> q # 0)
      /\ Claimed(z) = -q /\ CauseOf(z) = "vyrf_burn"
      /\ Moves(b, "vyrf_burn")
      /\ q # 0 => Announces(z, b)
  BY <1>0, Closings, Movements, AnnouncedBurn
<1> HIDE DEF f, b, g, h, o, z
<1>2. CASE q # 0 /\ w # 0
  <2> DEFINE e == <<f, b, g, h, o, z>>
  <2>1. /\ e \in Seq(R) /\ Len(e) = 6 /\ e[1] = f /\ e[2] = b /\ e[3] = g
        /\ e[4] = h /\ e[5] = o /\ e[6] = z
    OBVIOUS
  <2> HIDE DEF e, R
  <2>2. PICK s \in 0..(Len(e) - 1) : s = 2
    BY <2>1
  <2>3. /\ Len(e) > 0 /\ Closes(e[Len(e)], epoch) /\ s # 0
        /\ \A k \in 1..(Len(e) - 1) : k # s => Plain(e[k])
        /\ \E truth : Moves(e[s], truth)
        /\ Announces(e[Len(e)], e[s])
    BY <1>1, <1>2, <2>1, <2>2
  <2>4. Operation(e, epoch)
    BY ONLY <2>1, <2>3, s \in 0..(Len(e) - 1), ClosedEmission
  <2>5. /\ <<f, b>> \o <<g, h, o>> = <<f, b, g, h, o>>
        /\ <<f, b, g, h, o>> \o <<z>> = e
    BY Joins DEF e
  <2> QED BY <1>2, <2>4, <2>5 DEF OnlyIf, f, b, g, h, o, z
<1>3. CASE q # 0 /\ w = 0
  <2> DEFINE e == <<f, b, z>>
  <2>1. e \in Seq(R) /\ Len(e) = 3 /\ e[1] = f /\ e[2] = b /\ e[3] = z
    OBVIOUS
  <2> HIDE DEF e, R
  <2>2. PICK s \in 0..(Len(e) - 1) : s = 2
    BY <2>1
  <2>3. /\ Len(e) > 0 /\ Closes(e[Len(e)], epoch) /\ s # 0
        /\ \A k \in 1..(Len(e) - 1) : k # s => Plain(e[k])
        /\ \E truth : Moves(e[s], truth)
        /\ Announces(e[Len(e)], e[s])
    BY <1>1, <1>3, <2>1, <2>2
  <2>4. Operation(e, epoch)
    BY ONLY <2>1, <2>3, s \in 0..(Len(e) - 1), ClosedEmission
  <2>5. <<f, b>> \o <<>> = <<f, b>> /\ <<f, b>> \o <<z>> = e
    BY Joins, NothingJoined, <<f, b>> \in Seq({f, b}) DEF e
  <2> QED BY <1>3, <2>4, <2>5 DEF OnlyIf, f, b, z
<1>4. CASE q = 0 /\ w # 0
  <2> DEFINE e == <<g, h, o, z>>
  <2>1. e \in Seq(R) /\ Len(e) = 4 /\ e[1] = g /\ e[2] = h /\ e[3] = o /\ e[4] = z
    OBVIOUS
  <2> HIDE DEF e, R
  <2>2. PICK s \in 0..(Len(e) - 1) : s = 0
    BY <2>1
  <2>3. /\ Len(e) > 0 /\ Closes(e[Len(e)], epoch)
        /\ \A k \in 1..(Len(e) - 1) : k # s => Plain(e[k])
        /\ s = 0 => ~IsClaim(e[Len(e)])
        /\ ~(s > 0)
    BY <1>1, <1>4, <2>1, <2>2
  <2>4. Operation(e, epoch)
    BY ONLY <2>1, <2>3, s \in 0..(Len(e) - 1), ClosedEmission
  <2>5. <<>> \o <<g, h, o>> = <<g, h, o>> /\ <<g, h, o>> \o <<z>> = e
    BY Joins, NothingJoined, <<g, h, o>> \in Seq({g, h, o}) DEF e
  <2> QED BY <1>4, <2>4, <2>5 DEF OnlyIf, g, h, o, z
<1>5. CASE q = 0 /\ w = 0
  <2> DEFINE e == <<z>>
  <2>1. e \in Seq(R) /\ Len(e) = 1 /\ e[1] = z
    OBVIOUS
  <2> HIDE DEF e, R
  <2>2. PICK s \in 0..(Len(e) - 1) : s = 0
    BY <2>1
  <2>3. /\ Len(e) > 0 /\ Closes(e[Len(e)], epoch)
        /\ \A k \in 1..(Len(e) - 1) : k # s => Plain(e[k])
        /\ s = 0 => ~IsClaim(e[Len(e)])
        /\ ~(s > 0)
    BY <1>1, <1>5, <2>1, <2>2
  <2>4. Operation(e, epoch)
    BY ONLY <2>1, <2>3, s \in 0..(Len(e) - 1), ClosedEmission
  <2>5. <<>> \o <<>> = <<>> /\ <<>> \o <<z>> = e
    BY NothingJoined, <<z>> \in Seq({z}), <<>> \in Seq({z}) DEF e
  <2> QED BY <1>5, <2>4, <2>5 DEF OnlyIf, z
<1> QED BY <1>2, <1>3, <1>4, <1>5

LEMMA ReturnEmits ==
  ASSUME NEW p \in Nat, NEW r \in Nat, p + r > 0, NEW epoch
  PROVE  Operation(OnlyIf(p # 0, <<FlowLog("Inflow", 2, p)>>)
                   \o OnlyIf(r # 0, <<FlowLog("Inflow", 4, r)>>), epoch)
<1> DEFINE f == FlowLog("Inflow", 2, p)
           g == FlowLog("Inflow", 4, r)
           x == OnlyIf(p # 0, <<f>>) \o OnlyIf(r # 0, <<g>>)
           R == {f, g}
<1>1. Plain(f) /\ Plain(g) /\ f.event # "Weth" /\ g.event # "Weth"
  BY PlainLogs
<1> HIDE DEF f, g
<1>2. x \in {<<f>>, <<g>>, <<f, g>>}
  <2>1. <<f>> \o <<>> = <<f>> /\ <<>> \o <<g>> = <<g>> /\ <<f>> \o <<g>> = <<f, g>>
    BY Joins, NothingJoined, <<f>> \in Seq({f}), <<g>> \in Seq({g})
  <2>2. p # 0 \/ r # 0
    OBVIOUS
  <2> QED BY <2>1, <2>2 DEF OnlyIf
<1>3. /\ x \in Seq(R) /\ Len(x) \in {1, 2} /\ \A k \in 1..Len(x) : x[k] \in R
  <2>1. /\ <<f>> \in Seq(R) /\ Len(<<f>>) = 1 /\ <<f>>[1] = f
        /\ <<g>> \in Seq(R) /\ Len(<<g>>) = 1 /\ <<g>>[1] = g
        /\ <<f, g>> \in Seq(R) /\ Len(<<f, g>>) = 2
        /\ <<f, g>>[1] = f /\ <<f, g>>[2] = g
    OBVIOUS
  <2> HIDE DEF x
  <2>2. x \in Seq(R) /\ Len(x) \in {1, 2}
    BY <1>2, <2>1
  <2> QED BY <2>2
<1> HIDE DEF x
<1>4. \A k \in 1..Len(x) : Plain(x[k]) /\ x[k].event # "Weth"
  BY <1>1, <1>3
<1> HIDE DEF R
<1>5. PICK s \in 0..Len(x) : s = 0
  BY <1>3
<1>6. /\ \A k \in 1..Len(x) : k # s => Plain(x[k])
      /\ x[Len(x)].event # "Weth" /\ Len(x) > 0 /\ ~(s > 0)
  BY <1>3, <1>4, <1>5
<1>7. Operation(x, epoch)
  BY ONLY <1>3, <1>6, s \in 0..Len(x), PlainEmission
<1> QED BY <1>7 DEF x, f, g

LEMMA DeploymentEmits ==
  ASSUME NEW a \in Nat, NEW epoch
  PROVE  Operation(<<FlowLog("Outflow", 1, a)>>, epoch)
<1> DEFINE f == FlowLog("Outflow", 1, a)
           x == <<f>>
           R == {f}
<1>1. Plain(f) /\ f.event # "Weth"
  BY PlainLogs
<1>2. x \in Seq(R) /\ Len(x) = 1 /\ x[1] = f
  OBVIOUS
<1> HIDE DEF x, f, R
<1>3. PICK s \in 0..Len(x) : s = 0
  BY <1>2
<1>4. /\ \A k \in 1..Len(x) : k # s => Plain(x[k])
      /\ x[Len(x)].event # "Weth" /\ Len(x) > 0 /\ ~(s > 0)
  BY <1>1, <1>2, <1>3
<1>5. Operation(x, epoch)
  BY ONLY <1>2, <1>4, s \in 0..Len(x), PlainEmission
<1> QED BY <1>5 DEF x, f

\* The operations of the protocol.
Operate ==
  \/ \E take \in Takes : Take(take[1], take[2])
  \/ \E q \in RedeemAmounts : Redeem(q)
  \/ \E q \in SelfBurnAmounts : SelfBurn(q)
  \/ \E harvest \in Harvests : HarvestPol(harvest[1], harvest[2])
  \/ \E q \in RevenueAmounts : BurnVuxRevenue(q)
  \/ \E recall \in Recalls : ClassifyReturn(recall[1], recall[2])
  \/ \E amount \in DeployAmounts : DeployToStrategy(amount)

\* Each appends the logs of an operation.
LEMMA OperateEmits ==
  ASSUME Operate
  PROVE  \E logs : Operation(logs, EpochId + 1) /\ Emit(logs)
<1>1. ASSUME NEW take \in Takes, Take(take[1], take[2])
      PROVE  \E logs : Operation(logs, EpochId + 1) /\ Emit(logs)
  <2>1. take[1] \in Nat /\ take[2] \in Nat
    BY IndexerAssumption
  <2> QED BY <1>1, <2>1, TakeEmits DEF Take
<1>2. ASSUME NEW q \in RedeemAmounts, Redeem(q)
      PROVE  \E logs : Operation(logs, EpochId + 1) /\ Emit(logs)
  BY <1>2, RedeemEmits, IndexerAssumption DEF Redeem
<1>3. ASSUME NEW q \in SelfBurnAmounts, SelfBurn(q)
      PROVE  \E logs : Operation(logs, EpochId + 1) /\ Emit(logs)
  BY <1>3, SelfBurnEmits, IndexerAssumption DEF SelfBurn
<1>4. ASSUME NEW harvest \in Harvests, HarvestPol(harvest[1], harvest[2])
      PROVE  \E logs : Operation(logs, EpochId + 1) /\ Emit(logs)
  <2>1. harvest[1] \in Nat /\ harvest[2] \in Nat
    BY IndexerAssumption
  <2> QED BY <1>4, <2>1, HarvestEmits DEF HarvestPol
<1>5. ASSUME NEW q \in RevenueAmounts, BurnVuxRevenue(q)
      PROVE  \E logs : Operation(logs, EpochId + 1) /\ Emit(logs)
  BY <1>5, RevenueBurnEmits, IndexerAssumption DEF BurnVuxRevenue
<1>6. ASSUME NEW recall \in Recalls, ClassifyReturn(recall[1], recall[2])
      PROVE  \E logs : Operation(logs, EpochId + 1) /\ Emit(logs)
  <2>1. recall[1] \in Nat /\ recall[2] \in Nat
    BY IndexerAssumption
  <2> QED BY <1>6, <2>1, ReturnEmits DEF ClassifyReturn
<1>7. ASSUME NEW amount \in DeployAmounts, DeployToStrategy(amount)
      PROVE  \E logs : Operation(logs, EpochId + 1) /\ Emit(logs)
  BY <1>7, DeploymentEmits, IndexerAssumption DEF DeployToStrategy
<1> QED BY <1>1, <1>2, <1>3, <1>4, <1>5, <1>6, <1>7 DEF Operate

-----------------------------------------------------------------------------
(***************************************************************************)
(* What is said of a chain's first logs stays true of a longer chain, and  *)
(* of logs that are no protocol's.                                         *)
(***************************************************************************)
\* The pairs of t and d are as good when the changes, the claims and the slots are
\* the same.
LEMMA PairedKept ==
  ASSUME NEW c, NEW e, NEW T, NEW U, NEW n, NEW m, NEW t, NEW d,
         NEW N \in Nat, NEW C \in Nat, Paired(c, T, n, t, d, N, C),
         Changes(e, m, t, d) = Changes(c, n, t, d),
         Claims(e, m, t, d) = Claims(c, n, t, d),
         \A i \in Changes(c, n, t, d) :
           /\ Row(e, i) = Row(c, i) /\ Default(e[i]) = Default(c[i])
           /\ U.supplyChange[Row(c, i)].cause = T.supplyChange[Row(c, i)].cause,
         \A i \in Claims(c, n, t, d) : CauseOf(e[i]) = CauseOf(c[i]),
         \A k \in 0..(MAX_SLOTS - 1) :
           /\ SlotId(t, d, k) \in DOMAIN U.pairs <=> SlotId(t, d, k) \in DOMAIN T.pairs
           /\ SlotId(t, d, k) \in DOMAIN T.pairs =>
                U.pairs[SlotId(t, d, k)] = T.pairs[SlotId(t, d, k)]
  PROVE  Paired(e, U, m, t, d, N, C)
<1>1. /\ MAX_SLOTS \in Nat /\ C <= N /\ N <= MAX_SLOTS
      /\ \A k \in 0..(C - 1) : k \in 0..(N - 1)
      /\ \A k \in 0..(N - 1) : k \in 0..(MAX_SLOTS - 1)
      /\ \A k \in C..(N - 1) : k \in 0..(N - 1)
  BY IndexerAssumption DEF Paired
<1>2. \A k \in 0..(N - 1) : /\ U.pairs[SlotId(t, d, k)] = T.pairs[SlotId(t, d, k)]
                            /\ Change(U, t, d, k) = Change(T, t, d, k)
                            /\ Consumer(U, t, d, k) = Consumer(T, t, d, k)
  BY <1>1 DEF Change, Consumer, Paired, SlotsStand
<1>3. SlotsStand(e, U, m, t, d, N)
  <2>1. /\ \A k \in 0..(MAX_SLOTS - 1) : SlotId(t, d, k) \in DOMAIN T.pairs <=> k < N
        /\ \A k \in 0..(N - 1) :
             /\ DOMAIN T.pairs[SlotId(t, d, k)] = {"changeId", "consumedBy"}
             /\ \E i \in Changes(c, n, t, d) : Change(T, t, d, k) = Row(c, i)
        /\ \A k, l \in 0..(N - 1) : Change(T, t, d, k) = Change(T, t, d, l) => k = l
        /\ N < MAX_SLOTS => \A i \in Changes(c, n, t, d) :
                              \E k \in 0..(N - 1) : Change(T, t, d, k) = Row(c, i)
    BY DEF Paired, SlotsStand
  <2>2. \A k \in 0..(MAX_SLOTS - 1) : SlotId(t, d, k) \in DOMAIN U.pairs <=> k < N
    BY <2>1
  <2>3. \A k \in 0..(N - 1) :
          /\ DOMAIN U.pairs[SlotId(t, d, k)] = {"changeId", "consumedBy"}
          /\ \E i \in Changes(e, m, t, d) : Change(U, t, d, k) = Row(e, i)
    BY <1>1, <1>2, <2>1
  <2>4. \A k, l \in 0..(N - 1) : Change(U, t, d, k) = Change(U, t, d, l) => k = l
    BY <1>2, <2>1
  <2>5. N < MAX_SLOTS => \A i \in Changes(e, m, t, d) :
                           \E k \in 0..(N - 1) : Change(U, t, d, k) = Row(e, i)
    BY <1>2, <2>1
  <2> QED BY <2>2, <2>3, <2>4, <2>5 DEF SlotsStand
<1>4. SlotsConsumed(e, U, m, t, d, N, C)
  BY <1>1, <1>2 DEF Paired, SlotsConsumed
<1>5. CausesFollow(e, U, m, t, d, C)
  <2>1. ASSUME NEW k \in 0..(C - 1)
        PROVE  U.supplyChange[Change(U, t, d, k)].cause = CauseOf(e[Consumer(U, t, d, k)])
    <3>1. k \in 0..(N - 1) /\ Consumer(T, t, d, k) \in Claims(c, n, t, d)
      BY <1>1 DEF Paired, SlotsConsumed
    <3>2. PICK i \in Changes(c, n, t, d) : Change(T, t, d, k) = Row(c, i)
      BY <3>1 DEF Paired, SlotsStand
    <3>3. T.supplyChange[Change(T, t, d, k)].cause = CauseOf(c[Consumer(T, t, d, k)])
      BY DEF Paired, CausesFollow
    <3> QED BY <1>2, <3>1, <3>2, <3>3
  <2>2. ASSUME NEW i \in Changes(e, m, t, d)
        PROVE  \/ \E k \in 0..(C - 1) : Change(U, t, d, k) = Row(e, i)
               \/ U.supplyChange[Row(e, i)].cause = Default(e[i])
    BY <1>1, <1>2 DEF Paired, CausesFollow
  <2> QED BY <2>1, <2>2 DEF CausesFollow
<1> QED BY <1>1, <1>3, <1>4, <1>5 DEF Paired

\* The tables after n logs of a chain are those after m logs of another that has the
\* same logs of the protocol.
LEMMA SameLogs ==
  ASSUME NEW c, NEW e, NEW T, NEW n \in Nat, NEW m \in Nat, n <= m,
         \A i \in 1..n : e[i] = c[i],
         \A i \in (n + 1)..m : e[i].event = "Weth",
         TablesOK(c, T, n)
  PROVE  TablesOK(e, T, m)
<1>1. /\ \A i \in 1..m : /\ i \in 1..n => e[i] = c[i]
                         /\ i \notin 1..n => e[i].event = "Weth"
      /\ \A i \in 1..n : i \in 1..m
  OBVIOUS
<1>2. /\ Supplies(e, m) = Supplies(c, n) /\ Settleds(e, m) = Settleds(c, n)
      /\ Flows(e, m) = Flows(c, n)
      /\ \A t, d : /\ Changes(e, m, t, d) = Changes(c, n, t, d)
                   /\ Claims(e, m, t, d) = Claims(c, n, t, d)
  <2>1. Supplies(e, m) = Supplies(c, n)
    BY <1>1 DEF Supplies, IsSupply, SupplyEvents
  <2>2. Settleds(e, m) = Settleds(c, n)
    BY <1>1 DEF Settleds
  <2>3. Flows(e, m) = Flows(c, n)
    BY <1>1 DEF Flows
  <2>4. ASSUME NEW t, NEW d
        PROVE  /\ Changes(e, m, t, d) = Changes(c, n, t, d)
               /\ Claims(e, m, t, d) = Claims(c, n, t, d)
    <3>1. Changes(e, m, t, d) = Changes(c, n, t, d)
      BY <1>1, <2>1 DEF Changes, Supplies
    <3>2. Claims(e, m, t, d) = Claims(c, n, t, d)
      BY <1>1 DEF Claims, IsClaim
    <3> QED BY <3>1, <3>2
  <2> QED BY <2>1, <2>2, <2>3, <2>4
<1>3. \A i \in 1..n : Row(e, i) = Row(c, i)
  BY DEF Row
<1>4. ChangesOK(e, T, m)
  <2>1. \A i \in Supplies(c, n) : Row(e, i) = Row(c, i) /\ e[i] = c[i]
    BY <1>3 DEF Supplies
  <2> QED BY <1>2, <2>1 DEF TablesOK, ChangesOK
<1>5. OthersOK(e, T, m)
  <2>1. \A i \in Settleds(c, n) : e[i] = c[i]
    BY DEF Settleds
  <2>2. \A i \in Flows(c, n) : Row(e, i) = Row(c, i) /\ e[i] = c[i]
    BY <1>3 DEF Flows
  <2>3. /\ DOMAIN T.settlement = {e[i].epoch : i \in Settleds(e, m)}
        /\ \A i \in Settleds(e, m) : T.settlement[e[i].epoch].qMint = e[i].amount
    BY <1>2, <2>1 DEF TablesOK, OthersOK
  <2>4. /\ DOMAIN T.strategicFlow = {Row(e, i) : i \in Flows(e, m)}
        /\ \A i \in Flows(e, m) : T.strategicFlow[Row(e, i)] = FlowOfLog(e[i])
    BY <1>2, <2>2 DEF TablesOK, OthersOK
  <2>5. \A i \in 1..m : e[i].event = "Redeemed" => Row(e, i) \in T.redemption
    BY <1>1, <1>3 DEF TablesOK, OthersOK
  <2> QED BY <2>3, <2>4, <2>5 DEF OthersOK
<1>6. PairsOK(e, T, m)
  <2> SUFFICES ASSUME NEW t \in Nat, NEW d \in Int
               PROVE  \E N, C \in Nat : Paired(e, T, m, t, d, N, C)
    BY DEF PairsOK
  <2>1. PICK N \in Nat, C \in Nat : Paired(c, T, n, t, d, N, C)
    BY DEF TablesOK, PairsOK
  <2>2. \A i \in Changes(c, n, t, d) : Row(e, i) = Row(c, i) /\ e[i] = c[i]
    BY <1>3 DEF Changes, Supplies
  <2>3. \A i \in Claims(c, n, t, d) : e[i] = c[i]
    BY DEF Claims
  <2>4. Paired(e, T, m, t, d, N, C)
    <3>1. /\ Changes(e, m, t, d) = Changes(c, n, t, d)
          /\ Claims(e, m, t, d) = Claims(c, n, t, d)
      BY <1>2
    <3>2. /\ \A i \in Changes(c, n, t, d) : /\ Row(e, i) = Row(c, i)
                                            /\ Default(e[i]) = Default(c[i])
          /\ \A i \in Claims(c, n, t, d) : CauseOf(e[i]) = CauseOf(c[i])
      BY <2>2, <2>3
    <3> QED BY ONLY <2>1, <3>1, <3>2, N \in Nat, C \in Nat, PairedKept
  <2> QED BY <2>4
<1> QED BY <1>4, <1>5, <1>6 DEF TablesOK

-----------------------------------------------------------------------------
(***************************************************************************)
(* Slots are filled and consumed in order.                                 *)
(***************************************************************************)
\* A new change takes the first slot after those that stand.
LEMMA ClaimSlotAppends ==
  ASSUME NEW t, NEW d, NEW id, NEW N \in Nat, N <= MAX_SLOTS,
         \A k \in 0..(MAX_SLOTS - 1) : SlotId(t, d, k) \in DOMAIN pairs <=> k < N,
         \A k \in 0..(N - 1) : pairs[SlotId(t, d, k)].changeId # id
  PROVE  /\ N < MAX_SLOTS =>
              ClaimSlot(t, d, id)
                = With(pairs, SlotId(t, d, N), [changeId |-> id, consumedBy |-> 0])
         /\ N = MAX_SLOTS => ClaimSlot(t, d, id) = pairs
<1> DEFINE stop == {k \in 0..(MAX_SLOTS - 1) :
                      SlotId(t, d, k) \in DOMAIN pairs => pairs[SlotId(t, d, k)].changeId = id}
           slot == SlotId(t, d, Min(stop))
<1>1. ClaimSlot(t, d, id) =
        IF stop = {} \/ slot \in DOMAIN pairs THEN pairs
        ELSE With(pairs, slot, [changeId |-> id, consumedBy |-> 0])
  BY DEF ClaimSlot, Slots
<1>2. MAX_SLOTS \in Nat
  BY IndexerAssumption
<1>3. stop = {k \in 0..(MAX_SLOTS - 1) : k >= N}
  BY <1>2
<1> HIDE DEF stop
<1>4. CASE N < MAX_SLOTS
  <2>1. stop \in SUBSET (0..MAX_SLOTS) /\ N \in stop
    BY <1>2, <1>3, <1>4
  <2>2. Min(stop) \in stop /\ \A j \in stop : Min(stop) <= j
    BY <1>2, <2>1, MinIsLeast
  <2>3. Min(stop) = N
    BY <1>2, <1>3, <2>1, <2>2
  <2>4. slot = SlotId(t, d, N) /\ slot \notin DOMAIN pairs /\ stop # {}
    BY <1>2, <1>4, <2>1, <2>3
  <2> HIDE DEF slot
  <2> QED BY <1>1, <1>4, <2>4
<1>5. CASE N = MAX_SLOTS
  <2>1. stop = {}
    BY <1>2, <1>3, <1>5
  <2> QED BY <1>1, <1>5, <2>1
<1> QED BY <1>4, <1>5

\* A change that has one, or finds none, adds none.
LEMMA ClaimSlotAgain ==
  ASSUME NEW t, NEW d, NEW id, NEW N \in Nat, N <= MAX_SLOTS,
         \A k \in 0..(MAX_SLOTS - 1) : SlotId(t, d, k) \in DOMAIN pairs <=> k < N,
         N < MAX_SLOTS => \E k \in 0..(N - 1) : pairs[SlotId(t, d, k)].changeId = id
  PROVE  ClaimSlot(t, d, id) = pairs
<1> DEFINE stop == {k \in 0..(MAX_SLOTS - 1) :
                      SlotId(t, d, k) \in DOMAIN pairs => pairs[SlotId(t, d, k)].changeId = id}
           slot == SlotId(t, d, Min(stop))
<1>1. ClaimSlot(t, d, id) =
        IF stop = {} \/ slot \in DOMAIN pairs THEN pairs
        ELSE With(pairs, slot, [changeId |-> id, consumedBy |-> 0])
  BY DEF ClaimSlot, Slots
<1>2. MAX_SLOTS \in Nat
  BY IndexerAssumption
<1>3. SUFFICES ASSUME stop # {} PROVE slot \in DOMAIN pairs
  BY <1>1
<1>4. stop \in SUBSET (0..MAX_SLOTS)
  BY <1>2
<1>5. \A k \in stop : k \in 0..(MAX_SLOTS - 1)
  OBVIOUS
<1>6. \A k \in 0..(N - 1) : pairs[SlotId(t, d, k)].changeId = id => k \in stop
  BY <1>2
<1> HIDE DEF stop
<1>7. Min(stop) \in stop /\ \A j \in stop : Min(stop) <= j
  BY <1>2, <1>3, <1>4, MinIsLeast
<1>8. Min(stop) < N
  <2>1. CASE N < MAX_SLOTS
    <3>1. PICK k \in 0..(N - 1) : pairs[SlotId(t, d, k)].changeId = id
      BY <2>1
    <3> QED BY <1>5, <1>6, <1>7, <3>1
  <2>2. CASE N = MAX_SLOTS
    BY <1>2, <1>5, <1>7, <2>2
  <2> QED BY <1>2, <2>1, <2>2
<1> QED BY <1>5, <1>7, <1>8

\* What a cause that finds an open slot writes.
Consumed(table, slot, i) == [table EXCEPT ![slot].consumedBy = i]
Attributed(table, id, cause, ref) ==
  [table EXCEPT ![id].cause = cause, ![id].refEpochId = ref]

\* A new cause consumes the first slot that is not.
LEMMA RefineCauseTakes ==
  ASSUME NEW i \in Nat \ {0}, NEW d, NEW cause, NEW ref, NEW t, t = chain[i].tx,
         NEW N \in Nat, NEW C \in Nat, C <= N, N <= MAX_SLOTS, C < MAX_SLOTS => C < N,
         \A k \in 0..(MAX_SLOTS - 1) : SlotId(t, d, k) \in DOMAIN pairs <=> k < N,
         \A k \in 0..(C - 1) : pairs[SlotId(t, d, k)].consumedBy \notin {0, i},
         \A k \in C..(N - 1) : pairs[SlotId(t, d, k)].consumedBy = 0,
         RefineCause(i, d, cause, ref)
  PROVE  /\ C = MAX_SLOTS => supplyChange' = supplyChange /\ pairs' = pairs
         /\ C < MAX_SLOTS =>
              /\ pairs' = Consumed(pairs, SlotId(t, d, C), i)
              /\ supplyChange'
                   = Attributed(supplyChange, pairs[SlotId(t, d, C)].changeId, cause, ref)
<1> DEFINE stop == {k \in 0..(MAX_SLOTS - 1) : OpenTo(SlotId(t, d, k), i)}
           slot == SlotId(t, d, Min(stop))
<1>1. IF stop = {} \/ slot \notin DOMAIN pairs \/ pairs[slot].consumedBy = i
      THEN UNCHANGED <<supplyChange, pairs>>
      ELSE /\ pairs' = Consumed(pairs, slot, i)
           /\ supplyChange' = Attributed(supplyChange, pairs[slot].changeId, cause, ref)
  BY DEF RefineCause, Slots, Consumed, Attributed
<1>2. MAX_SLOTS \in Nat
  BY IndexerAssumption
<1>3. stop = {k \in 0..(MAX_SLOTS - 1) : k >= C}
  <2> SUFFICES ASSUME NEW k \in 0..(MAX_SLOTS - 1)
               PROVE  OpenTo(SlotId(t, d, k), i) <=> k >= C
    OBVIOUS
  <2>1. CASE k < C
    <3>1. k \in 0..(C - 1) /\ k < N
      BY <1>2, <2>1
    <3> QED BY <2>1, <3>1 DEF OpenTo
  <2>2. CASE k >= C /\ k < N
    <3>1. k \in C..(N - 1)
      BY <1>2, <2>2
    <3> QED BY <2>2, <3>1 DEF OpenTo
  <2>3. CASE k >= N
    BY <1>2, <2>3 DEF OpenTo
  <2> QED BY <1>2, <2>1, <2>2, <2>3
<1> HIDE DEF stop
<1>4. CASE C < MAX_SLOTS
  <2>1. stop \in SUBSET (0..MAX_SLOTS) /\ C \in stop
    BY <1>2, <1>3, <1>4
  <2>2. Min(stop) \in stop /\ \A j \in stop : Min(stop) <= j
    BY <1>2, <2>1, MinIsLeast
  <2>3. Min(stop) = C
    BY <1>2, <1>3, <2>1, <2>2
  <2>4. C \in C..(N - 1) /\ C \in 0..(MAX_SLOTS - 1) /\ C < N
    BY <1>2, <1>4
  <2>5. /\ slot = SlotId(t, d, C) /\ slot \in DOMAIN pairs
        /\ pairs[slot].consumedBy # i /\ stop # {}
    BY <2>1, <2>3, <2>4
  <2> HIDE DEF slot
  <2> QED BY <1>1, <1>4, <2>5
<1>5. CASE C = MAX_SLOTS
  <2>1. stop = {}
    BY <1>2, <1>3, <1>5
  <2> QED BY <1>1, <1>5, <2>1
<1> QED BY <1>4, <1>5

\* A cause that has consumed one, or finds none, changes nothing.
LEMMA RefineCauseAgain ==
  ASSUME NEW i \in Nat \ {0}, NEW d, NEW cause, NEW ref, NEW t, t = chain[i].tx,
         NEW N \in Nat, NEW C \in Nat, C <= N, N <= MAX_SLOTS,
         \A k \in 0..(MAX_SLOTS - 1) : SlotId(t, d, k) \in DOMAIN pairs <=> k < N,
         \A k \in 0..(C - 1) : pairs[SlotId(t, d, k)].consumedBy # 0,
         C < MAX_SLOTS => \E k \in 0..(C - 1) : pairs[SlotId(t, d, k)].consumedBy = i,
         RefineCause(i, d, cause, ref)
  PROVE  supplyChange' = supplyChange /\ pairs' = pairs
<1> DEFINE stop == {k \in 0..(MAX_SLOTS - 1) : OpenTo(SlotId(t, d, k), i)}
           slot == SlotId(t, d, Min(stop))
<1>1. IF stop = {} \/ slot \notin DOMAIN pairs \/ pairs[slot].consumedBy = i
      THEN UNCHANGED <<supplyChange, pairs>>
      ELSE /\ pairs' = [pairs EXCEPT ![slot].consumedBy = i]
           /\ supplyChange' = [supplyChange EXCEPT
                ![pairs[slot].changeId].cause = cause,
                ![pairs[slot].changeId].refEpochId = ref]
  BY DEF RefineCause, Slots
<1>2. MAX_SLOTS \in Nat
  BY IndexerAssumption
<1>3. SUFFICES ASSUME stop # {} PROVE pairs[slot].consumedBy = i
  BY <1>1
<1>4. stop \in SUBSET (0..MAX_SLOTS)
  BY <1>2
<1>5. \A k \in stop : k \in 0..(MAX_SLOTS - 1) /\ OpenTo(SlotId(t, d, k), i)
  OBVIOUS
<1>6. \A k \in 0..(C - 1) : pairs[SlotId(t, d, k)].consumedBy = i => k \in stop
  BY <1>2 DEF OpenTo
<1> HIDE DEF stop
<1>7. Min(stop) \in stop /\ \A j \in stop : Min(stop) <= j
  BY <1>2, <1>3, <1>4, MinIsLeast
<1>8. Min(stop) \in 0..(C - 1)
  <2>1. CASE C < MAX_SLOTS
    <3>1. PICK k \in 0..(C - 1) : pairs[SlotId(t, d, k)].consumedBy = i
      BY <2>1
    <3> QED BY <1>5, <1>6, <1>7, <3>1
  <2>2. CASE C = MAX_SLOTS
    BY <1>2, <1>5, <1>7, <2>2
  <2> QED BY <1>2, <2>1, <2>2
<1>9. slot \in DOMAIN pairs
  BY <1>5, <1>7, <1>8
<1> QED BY <1>5, <1>7, <1>8, <1>9 DEF OpenTo

\* A set that maps into the first n numbers, no two members to the same, has at most
\* n members.
LEMMA AtMost ==
  ASSUME NEW n \in Nat, NEW m \in Nat, NEW f,
         \A k \in 0..(m - 1) : f[k] \in 0..(n - 1),
         \A k, l \in 0..(m - 1) : f[k] = f[l] => k = l
  PROVE  m <= n
<1> DEFINE g == [k \in 0..(m - 1) |-> f[k]]
<1> SUFFICES ASSUME n < m PROVE FALSE
  OBVIOUS
<1>1. /\ IsFiniteSet(0..(m - 1)) /\ Cardinality(0..(m - 1)) = m
      /\ IsFiniteSet(0..(n - 1)) /\ Cardinality(0..(n - 1)) = n
  BY FS_Interval
<1>2. g \in [0..(m - 1) -> 0..(n - 1)]
  OBVIOUS
<1>3. PICK k, l \in 0..(m - 1) : k # l /\ g[k] = g[l]
  <2> HIDE DEF g
  <2> QED BY <1>1, <1>2, FS_PigeonHole
<1> QED BY <1>3

\* A claim is only made for a change: while slots are left, one that stands is free.
LEMMA FreeSlot ==
  ASSUME NEW c, ChainOK(c), NEW i \in 1..Len(c), IsClaim(c[i]),
         NEW T, NEW N \in Nat, NEW C \in Nat,
         Paired(c, T, i - 1, c[i].tx, Claimed(c[i]), N, C), C < MAX_SLOTS
  PROVE  C < N
<1> DEFINE t == c[i].tx
           d == Claimed(c[i])
           Partner(x) == CHOOSE j \in 1..Len(c) : Partners(c, j, x)
           SlotOf(j) == CHOOSE k \in 0..(N - 1) : Change(T, t, d, k) = Row(c, j)
           f == [k \in 0..C |-> SlotOf(Partner(IF k < C THEN Consumer(T, t, d, k) ELSE i))]
<1> SUFFICES ASSUME C = N PROVE FALSE
  BY DEF Paired
<1>1. /\ MAX_SLOTS \in Nat /\ N < MAX_SLOTS
      /\ \A k \in 0..(C - 1) : Consumer(T, t, d, k) \in Claims(c, i - 1, t, d)
      /\ \A k, l \in 0..(C - 1) : Consumer(T, t, d, k) = Consumer(T, t, d, l) => k = l
      /\ \A j \in Changes(c, i - 1, t, d) : \E k \in 0..(N - 1) : Change(T, t, d, k) = Row(c, j)
  BY IndexerAssumption DEF Paired, SlotsConsumed, SlotsStand
<1>2. Len(c) \in Nat
  BY DEF ChainOK, LogsOK
<1>3. ASSUME NEW x \in Claims(c, i, t, d)
      PROVE  Partner(x) \in Changes(c, i - 1, t, d) /\ Partners(c, Partner(x), x)
  <2>1. x \in 1..Len(c) /\ IsClaim(c[x]) /\ c[x].tx = t /\ Claimed(c[x]) = d /\ x <= i
    BY <1>2 DEF Claims
  <2>2. \E j \in 1..Len(c) : Partners(c, j, x)
    BY <2>1 DEF ChainOK, ClaimsHaveChanges
  <2>3. Partner(x) \in 1..Len(c) /\ Partners(c, Partner(x), x)
    BY <2>2
  <2> HIDE DEF Partner
  <2>4. Partner(x) \in 1..(i - 1)
    BY <1>2, <2>1, <2>3 DEF Partners
  <2> QED BY <2>1, <2>3, <2>4 DEF Partners, Announces, Changes, Supplies
<1>4. ASSUME NEW x \in Claims(c, i, t, d), NEW y \in Claims(c, i, t, d), Partner(x) = Partner(y)
      PROVE  x = y
  <2> HIDE DEF Partner
  <2>1. c[x].op = c[y].op
    BY <1>3, <1>4 DEF Partners
  <2>2. x \in 1..Len(c) /\ y \in 1..Len(c) /\ IsClaim(c[x]) /\ IsClaim(c[y])
    BY <1>2 DEF Claims
  <2> QED BY <2>1, <2>2 DEF ChainOK, OncePerOperation
<1>5. ASSUME NEW j \in Changes(c, i - 1, t, d)
      PROVE  SlotOf(j) \in 0..(N - 1) /\ Change(T, t, d, SlotOf(j)) = Row(c, j)
  BY <1>1
<1>6. \A j, l : Row(c, j) = Row(c, l) => j = l
  BY DEF Row
<1> DEFINE X(k) == IF k < C THEN Consumer(T, t, d, k) ELSE i
<1>7. ASSUME NEW k \in 0..C
      PROVE  X(k) \in Claims(c, i, t, d) /\ f[k] = SlotOf(Partner(X(k)))
  <2>1. i \in Claims(c, i, t, d)
    BY DEF Claims
  <2>2. Claims(c, i - 1, t, d) \subseteq Claims(c, i, t, d)
    BY DEF Claims
  <2>3. k < C => k \in 0..(C - 1)
    OBVIOUS
  <2> QED BY <1>1, <2>1, <2>2, <2>3
<1>8. ASSUME NEW k \in 0..C, NEW l \in 0..C, X(k) = X(l)
      PROVE  k = l
  <2>1. i \notin Claims(c, i - 1, t, d)
    BY DEF Claims
  <2>2. \A m \in 0..C : m < C => m \in 0..(C - 1)
    OBVIOUS
  <2> QED BY <1>1, <1>8, <2>1, <2>2
<1> HIDE DEF f, X, SlotOf, Partner
<1>9. \A k \in 0..C : f[k] \in 0..(N - 1)
  BY <1>3, <1>5, <1>7
<1>10. ASSUME NEW k \in 0..C, NEW l \in 0..C, f[k] = f[l]
       PROVE  k = l
  <2>1. Partner(X(k)) = Partner(X(l))
    BY <1>3, <1>5, <1>6, <1>7, <1>10
  <2> QED BY <1>4, <1>7, <1>8, <2>1
<1>11. C + 1 \in Nat /\ 0..C = 0..((C + 1) - 1)
  OBVIOUS
<1>12. C + 1 <= N
  BY <1>9, <1>10, <1>11, AtMost
<1> QED BY <1>12

\* Epochs are numbered apart.
LEMMA EpochsDiffer ==
  ASSUME NEW c, ChainOK(c), NEW i \in 1..Len(c), NEW j \in 1..Len(c), i # j,
         c[i].event = "Settled", c[j].event = "Settled"
  PROVE  c[i].epoch # c[j].epoch
<1>1. ASSUME NEW a \in 1..Len(c), NEW b \in 1..Len(c), a < b,
             c[a].event = "Settled", c[b].event = "Settled"
      PROVE  c[a].epoch # c[b].epoch
  <2>1. Len(c) \in Nat
    BY DEF ChainOK, LogsOK
  <2>2. IsFiniteSet(1..b) /\ Settleds(c, b) \in SUBSET (1..b)
    BY <2>1, FS_Interval DEF Settleds
  <2>3. IsFiniteSet(Settleds(c, b))
    BY <2>2, FS_Subset
  <2>4. Settleds(c, a) \in SUBSET (Settleds(c, b))
    BY <2>1, <1>1 DEF Settleds
  <2>5. b \in Settleds(c, b) /\ b \notin Settleds(c, a)
    BY <1>1, <2>1 DEF Settleds
  <2>6. Cardinality(Settleds(c, a)) # Cardinality(Settleds(c, b))
    BY <2>3, <2>4, <2>5, FS_Subset
  <2> QED BY <1>1, <2>6 DEF ChainOK, EpochsCount
<1>2. i < j \/ j < i
  BY DEF ChainOK, LogsOK
<1> QED BY <1>1, <1>2

-----------------------------------------------------------------------------
(***************************************************************************)
(* The tables after one more log.                                          *)
(***************************************************************************)
\* A new change: its row, with the default cause, and a slot, while there is one.
LEMMA ChangePaired ==
  ASSUME NEW c, NEW i \in Nat \ {0}, IsSupply(c[i]), NEW T, NEW U,
         ChangesOK(c, T, i - 1), NEW t, t = c[i].tx, NEW d, d = Delta(c[i]),
         NEW N \in Nat, NEW C \in Nat, Paired(c, T, i - 1, t, d, N, C),
         NEW ref,
         U.supplyChange = With(T.supplyChange, Row(c, i), SupplyChange(d, Default(c[i]), ref)),
         N < MAX_SLOTS =>
           U.pairs = With(T.pairs, SlotId(t, d, N),
                          [changeId |-> Row(c, i), consumedBy |-> 0]),
         N = MAX_SLOTS => U.pairs = T.pairs
  PROVE  \E M \in Nat : Paired(c, U, i, t, d, M, C)
<1>1. /\ MAX_SLOTS \in Nat /\ C <= N /\ N <= MAX_SLOTS
      /\ SlotsStand(c, T, i - 1, t, d, N) /\ SlotsConsumed(c, T, i - 1, t, d, N, C)
      /\ CausesFollow(c, T, i - 1, t, d, C)
  BY IndexerAssumption DEF Paired
<1>2. /\ Changes(c, i, t, d) = Changes(c, i - 1, t, d) \cup {i}
      /\ Claims(c, i, t, d) = Claims(c, i - 1, t, d)
  <2>1. \A j : j \in 1..i <=> j \in 1..(i - 1) \/ j = i
    OBVIOUS
  <2>2. ~IsClaim(c[i])
    BY DEF IsSupply, SupplyEvents, IsClaim
  <2> QED BY <2>1, <2>2 DEF Changes, Supplies, Claims
<1>3. \A j \in Changes(c, i - 1, t, d) : Row(c, j) # Row(c, i)
  BY DEF Changes, Supplies, Row
<1>0. /\ U.supplyChange[Row(c, i)] = SupplyChange(d, Default(c[i]), ref)
      /\ \A x \in DOMAIN T.supplyChange :
           x # Row(c, i) => U.supplyChange[x] = T.supplyChange[x]
  <2> DEFINE id == Row(c, i)
             row == SupplyChange(d, Default(c[i]), ref)
  <2>1. U.supplyChange = With(T.supplyChange, id, row)
    OBVIOUS
  <2> HIDE DEF id, row
  <2>2. /\ U.supplyChange[id] = row
        /\ \A x \in DOMAIN T.supplyChange : x # id => U.supplyChange[x] = T.supplyChange[x]
    BY ONLY <2>1 DEF With
  <2> QED BY <2>2 DEF id, row
<1>4. \A j \in Changes(c, i - 1, t, d) :
        U.supplyChange[Row(c, j)] = T.supplyChange[Row(c, j)]
  <2>1. \A j \in Changes(c, i - 1, t, d) : Row(c, j) \in DOMAIN T.supplyChange
    BY DEF ChangesOK, Changes
  <2> QED BY <1>3, <1>0, <2>1
<1>5. U.supplyChange[Row(c, i)].cause = Default(c[i])
  BY <1>0 DEF SupplyChange
<1>6. /\ \A k \in 0..(C - 1) : k \in 0..(N - 1) /\ k \in 0..(MAX_SLOTS - 1)
      /\ \A l \in 0..(N - 1) : l \in 0..(MAX_SLOTS - 1)
  BY <1>1
<1>7. CASE N = MAX_SLOTS
  <2>1. U.pairs = T.pairs
    BY <1>7
  <2>2. SlotsStand(c, U, i, t, d, N)
    BY <1>1, <1>2, <1>7, <2>1 DEF SlotsStand, Change
  <2>3. SlotsConsumed(c, U, i, t, d, N, C)
    BY <1>1, <1>2, <2>1 DEF SlotsConsumed, Consumer
  <2>4. CausesFollow(c, U, i, t, d, C)
    <3>1. ASSUME NEW k \in 0..(C - 1)
          PROVE  U.supplyChange[Change(U, t, d, k)].cause = CauseOf(c[Consumer(U, t, d, k)])
      BY <1>1, <1>4, <1>6, <2>1 DEF CausesFollow, SlotsStand, Change, Consumer
    <3>2. ASSUME NEW j \in Changes(c, i - 1, t, d)
          PROVE  \/ \E k \in 0..(C - 1) : Change(U, t, d, k) = Row(c, j)
                 \/ U.supplyChange[Row(c, j)].cause = Default(c[j])
      BY <1>1, <1>4, <2>1 DEF CausesFollow, Change
    <3> QED BY <1>2, <1>5, <3>1, <3>2 DEF CausesFollow
  <2>5. Paired(c, U, i, t, d, N, C)
    BY <1>1, <2>2, <2>3, <2>4 DEF Paired
  <2> QED BY <2>5
<1>8. CASE N < MAX_SLOTS
  <2>1. /\ DOMAIN U.pairs = DOMAIN T.pairs \cup {SlotId(t, d, N)}
        /\ U.pairs[SlotId(t, d, N)] = [changeId |-> Row(c, i), consumedBy |-> 0]
        /\ \A k \in 0..(N - 1) : U.pairs[SlotId(t, d, k)] = T.pairs[SlotId(t, d, k)]
    <3>1. \A k \in 0..(N - 1) : SlotId(t, d, k) \in DOMAIN T.pairs
      BY <1>1, <1>6 DEF SlotsStand
    <3>2. \A k \in 0..(N - 1) : SlotId(t, d, k) # SlotId(t, d, N)
      BY DEF SlotId
    <3>3. U.pairs = With(T.pairs, SlotId(t, d, N), [changeId |-> Row(c, i), consumedBy |-> 0])
      BY <1>8
    <3>4. /\ DOMAIN U.pairs = DOMAIN T.pairs \cup {SlotId(t, d, N)}
          /\ U.pairs[SlotId(t, d, N)] = [changeId |-> Row(c, i), consumedBy |-> 0]
          /\ \A x \in DOMAIN T.pairs : x # SlotId(t, d, N) => U.pairs[x] = T.pairs[x]
      BY ONLY <3>3 DEF With
    <3> QED BY <3>1, <3>2, <3>4
  <2>2. /\ Change(U, t, d, N) = Row(c, i) /\ Consumer(U, t, d, N) = 0
        /\ \A k \in 0..(N - 1) : /\ Change(U, t, d, k) = Change(T, t, d, k)
                                 /\ Consumer(U, t, d, k) = Consumer(T, t, d, k)
    BY <2>1 DEF Change, Consumer
  <2>3. /\ \A k \in 0..((N + 1) - 1) : k \in 0..(N - 1) \/ k = N
        /\ \A l \in 0..(N - 1) : l \in 0..((N + 1) - 1)
        /\ N \in 0..((N + 1) - 1)
    OBVIOUS
  <2>4. SlotsStand(c, U, i, t, d, N + 1)
    <3>1. \A k \in 0..(MAX_SLOTS - 1) : SlotId(t, d, k) \in DOMAIN U.pairs <=> k < N + 1
      <4>1. \A k \in 0..(MAX_SLOTS - 1) : SlotId(t, d, k) = SlotId(t, d, N) <=> k = N
        BY DEF SlotId
      <4> QED BY <1>1, <1>8, <2>1, <4>1 DEF SlotsStand
    <3>2. ASSUME NEW k \in 0..((N + 1) - 1)
          PROVE  /\ DOMAIN U.pairs[SlotId(t, d, k)] = {"changeId", "consumedBy"}
                 /\ \E j \in Changes(c, i, t, d) : Change(U, t, d, k) = Row(c, j)
      <4>1. CASE k = N
        BY <1>2, <2>1, <2>2, <4>1 DEF Changes, Supplies
      <4>2. CASE k \in 0..(N - 1)
        BY <1>1, <1>2, <2>1, <2>2, <4>2 DEF SlotsStand
      <4> QED BY <2>3, <4>1, <4>2
    <3>3. ASSUME NEW k \in 0..((N + 1) - 1), NEW l \in 0..((N + 1) - 1),
                 Change(U, t, d, k) = Change(U, t, d, l)
          PROVE  k = l
      <4>1. \A m \in 0..(N - 1) : Change(U, t, d, m) # Row(c, i)
        BY <1>1, <1>3, <2>2 DEF SlotsStand
      <4>2. \A m, h \in 0..(N - 1) : Change(T, t, d, m) = Change(T, t, d, h) => m = h
        BY <1>1 DEF SlotsStand
      <4> QED BY <2>2, <2>3, <3>3, <4>1, <4>2
    <3>4. ASSUME NEW j \in Changes(c, i, t, d)
          PROVE  \E k \in 0..((N + 1) - 1) : Change(U, t, d, k) = Row(c, j)
      <4>1. CASE j = i
        BY <2>2, <2>3, <4>1
      <4>2. CASE j \in Changes(c, i - 1, t, d)
        BY <1>1, <1>8, <2>2, <2>3, <4>2 DEF SlotsStand
      <4> QED BY <1>2, <4>1, <4>2
    <3> QED BY <3>1, <3>2, <3>3, <3>4 DEF SlotsStand
  <2>5. SlotsConsumed(c, U, i, t, d, N + 1, C)
    <3>1. \A k \in 0..(C - 1) : Consumer(U, t, d, k) = Consumer(T, t, d, k)
      BY <1>6, <2>2
    <3>2. \A k \in C..((N + 1) - 1) : Consumer(U, t, d, k) = 0
      <4>1. \A k \in C..((N + 1) - 1) : k = N \/ (k \in C..(N - 1) /\ k \in 0..(N - 1))
        OBVIOUS
      <4> QED BY <1>1, <2>2, <4>1 DEF SlotsConsumed
    <3> QED BY <1>1, <1>2, <3>1, <3>2 DEF SlotsConsumed
  <2>6. CausesFollow(c, U, i, t, d, C)
    <3>1. ASSUME NEW k \in 0..(C - 1)
          PROVE  U.supplyChange[Change(U, t, d, k)].cause = CauseOf(c[Consumer(U, t, d, k)])
      <4>1. PICK j \in Changes(c, i - 1, t, d) : Change(T, t, d, k) = Row(c, j)
        BY <1>1, <1>6 DEF SlotsStand
      <4> QED BY <1>1, <1>4, <1>6, <2>2, <4>1 DEF CausesFollow
    <3>2. ASSUME NEW j \in Changes(c, i - 1, t, d)
          PROVE  \/ \E k \in 0..(C - 1) : Change(U, t, d, k) = Row(c, j)
                 \/ U.supplyChange[Row(c, j)].cause = Default(c[j])
      BY <1>1, <1>4, <1>6, <2>2 DEF CausesFollow
    <3> QED BY <1>2, <1>5, <3>1, <3>2 DEF CausesFollow
  <2>7. Paired(c, U, i, t, d, N + 1, C)
    BY <1>1, <1>8, <2>4, <2>5, <2>6 DEF Paired
  <2> QED BY <2>7
<1> QED BY <1>1, <1>7, <1>8

\* A new claim: the first slot that is not consumed, while there is one, and the
\* cause of its change.
LEMMA ClaimPaired ==
  ASSUME NEW c, NEW i \in Nat \ {0}, IsClaim(c[i]), NEW T, NEW U,
         ChangesOK(c, T, i - 1), NEW t, t = c[i].tx, NEW d, d = Claimed(c[i]),
         NEW N \in Nat, NEW C \in Nat, Paired(c, T, i - 1, t, d, N, C),
         C < MAX_SLOTS => C < N, NEW ref,
         C < MAX_SLOTS =>
           /\ U.pairs = Consumed(T.pairs, SlotId(t, d, C), i)
           /\ U.supplyChange
                = Attributed(T.supplyChange, Change(T, t, d, C), CauseOf(c[i]), ref),
         C = MAX_SLOTS => U.pairs = T.pairs /\ U.supplyChange = T.supplyChange
  PROVE  \E D \in Nat : Paired(c, U, i, t, d, N, D)
<1>1. /\ MAX_SLOTS \in Nat /\ C <= N /\ N <= MAX_SLOTS
      /\ SlotsStand(c, T, i - 1, t, d, N) /\ SlotsConsumed(c, T, i - 1, t, d, N, C)
      /\ CausesFollow(c, T, i - 1, t, d, C)
  BY IndexerAssumption DEF Paired
<1>2. /\ Changes(c, i, t, d) = Changes(c, i - 1, t, d)
      /\ Claims(c, i, t, d) = Claims(c, i - 1, t, d) \cup {i}
  <2>1. \A j : j \in 1..i <=> j \in 1..(i - 1) \/ j = i
    OBVIOUS
  <2>2. ~IsSupply(c[i])
    BY DEF IsSupply, SupplyEvents, IsClaim
  <2> QED BY <2>1, <2>2 DEF Changes, Supplies, Claims
<1>3. i \notin Claims(c, i - 1, t, d)
  BY DEF Claims
<1>4. CASE C = MAX_SLOTS
  <2>1. U.pairs = T.pairs /\ U.supplyChange = T.supplyChange
    BY <1>4
  <2>2. SlotsStand(c, U, i, t, d, N)
    BY ONLY <1>1, <1>2, <2>1 DEF SlotsStand, Change
  <2>3. SlotsConsumed(c, U, i, t, d, N, C)
    BY ONLY <1>1, <1>2, <1>4, <2>1 DEF SlotsConsumed, Consumer
  <2>4. CausesFollow(c, U, i, t, d, C)
    BY ONLY <1>1, <1>2, <2>1 DEF CausesFollow, Change, Consumer
  <2>5. Paired(c, U, i, t, d, N, C)
    BY <1>1, <2>2, <2>3, <2>4 DEF Paired
  <2> QED BY <2>5
<1>5. CASE C < MAX_SLOTS
  <2>1. /\ C < N /\ C \in 0..(N - 1)
        /\ \A k \in 0..(N - 1) : k \in 0..(MAX_SLOTS - 1)
        /\ \A k \in 0..(C - 1) : k \in 0..(N - 1) /\ k # C
    BY <1>1, <1>5
  <2>2. \A k \in 0..(N - 1) : /\ SlotId(t, d, k) \in DOMAIN T.pairs
                              /\ DOMAIN T.pairs[SlotId(t, d, k)] = {"changeId", "consumedBy"}
    BY <1>1, <2>1 DEF SlotsStand
  <2>3. \A k \in 0..(N - 1) : SlotId(t, d, k) = SlotId(t, d, C) <=> k = C
    BY <2>1 DEF SlotId
  <2>4. /\ DOMAIN U.pairs = DOMAIN T.pairs
        /\ U.pairs[SlotId(t, d, C)] = [T.pairs[SlotId(t, d, C)] EXCEPT !.consumedBy = i]
        /\ \A k \in 0..(N - 1) : k # C => U.pairs[SlotId(t, d, k)] = T.pairs[SlotId(t, d, k)]
    BY <1>5, <2>1, <2>2, <2>3 DEF Consumed
  <2>5. /\ DOMAIN U.pairs[SlotId(t, d, C)] = {"changeId", "consumedBy"}
        /\ Change(U, t, d, C) = Change(T, t, d, C) /\ Consumer(U, t, d, C) = i
    BY <2>1, <2>2, <2>4 DEF Change, Consumer
  <2>6. /\ \A k \in 0..(N - 1) : Change(U, t, d, k) = Change(T, t, d, k)
        /\ \A k \in 0..(N - 1) : k # C => Consumer(U, t, d, k) = Consumer(T, t, d, k)
    BY <2>4, <2>5 DEF Change, Consumer
  <2>7. PICK a \in Changes(c, i - 1, t, d) : Change(T, t, d, C) = Row(c, a)
    BY <1>1, <2>1 DEF SlotsStand
  <2>8. \A j \in Changes(c, i - 1, t, d) :
          /\ Row(c, j) \in DOMAIN T.supplyChange
          /\ DOMAIN T.supplyChange[Row(c, j)] = {"table", "delta", "cause", "refEpochId"}
    BY DEF ChangesOK, Changes
  <2>9. /\ U.supplyChange[Row(c, a)].cause = CauseOf(c[i])
        /\ \A j \in Changes(c, i - 1, t, d) :
             Row(c, j) # Row(c, a) => U.supplyChange[Row(c, j)] = T.supplyChange[Row(c, j)]
    BY <1>5, <2>7, <2>8 DEF Attributed
  <2>10. SlotsStand(c, U, i, t, d, N)
    <3>1. \A k \in 0..(MAX_SLOTS - 1) : SlotId(t, d, k) \in DOMAIN U.pairs <=> k < N
      BY <1>1, <2>4 DEF SlotsStand
    <3>2. ASSUME NEW k \in 0..(N - 1)
          PROVE  /\ DOMAIN U.pairs[SlotId(t, d, k)] = {"changeId", "consumedBy"}
                 /\ \E j \in Changes(c, i, t, d) : Change(U, t, d, k) = Row(c, j)
      <4>1. DOMAIN U.pairs[SlotId(t, d, k)] = {"changeId", "consumedBy"}
        BY <2>2, <2>4, <2>5
      <4>2. \E j \in Changes(c, i, t, d) : Change(U, t, d, k) = Row(c, j)
        BY <1>1, <1>2, <2>6 DEF SlotsStand
      <4> QED BY <4>1, <4>2
    <3>3. \A k, l \in 0..(N - 1) : Change(U, t, d, k) = Change(U, t, d, l) => k = l
      BY <1>1, <2>6 DEF SlotsStand
    <3>4. N < MAX_SLOTS => \A j \in Changes(c, i, t, d) :
                             \E k \in 0..(N - 1) : Change(U, t, d, k) = Row(c, j)
      BY <1>1, <1>2, <2>6 DEF SlotsStand
    <3> QED BY <3>1, <3>2, <3>3, <3>4 DEF SlotsStand
  <2>11. \A k \in 0..((C + 1) - 1) : k \in 0..(C - 1) \/ k = C
    OBVIOUS
  <2>12. C \in 0..((C + 1) - 1) /\ \A k \in 0..(C - 1) : k \in 0..((C + 1) - 1)
    OBVIOUS
  <2>13. SlotsConsumed(c, U, i, t, d, N, C + 1)
    <3>1. \A k \in 0..(C - 1) : Consumer(U, t, d, k) = Consumer(T, t, d, k)
      BY <2>1, <2>6
    <3>2. /\ \A k \in 0..(C - 1) : Consumer(T, t, d, k) \in Claims(c, i - 1, t, d)
          /\ \A k, l \in 0..(C - 1) : Consumer(T, t, d, k) = Consumer(T, t, d, l) => k = l
          /\ \A j \in Claims(c, i - 1, t, d) : \E k \in 0..(C - 1) : Consumer(T, t, d, k) = j
          /\ \A k \in C..(N - 1) : Consumer(T, t, d, k) = 0
      BY <1>1, <1>5 DEF SlotsConsumed
    <3>3. \A k \in 0..((C + 1) - 1) : Consumer(U, t, d, k) \in Claims(c, i, t, d)
      BY <1>2, <2>5, <2>11, <3>1, <3>2
    <3>4. \A k \in (C + 1)..(N - 1) : Consumer(U, t, d, k) = 0
      <4>1. \A k \in (C + 1)..(N - 1) : k \in C..(N - 1) /\ k \in 0..(N - 1) /\ k # C
        OBVIOUS
      <4> QED BY <2>6, <3>2, <4>1
    <3>5. \A k, l \in 0..((C + 1) - 1) :
            Consumer(U, t, d, k) = Consumer(U, t, d, l) => k = l
      BY <1>3, <2>5, <2>11, <3>1, <3>2
    <3>6. \A j \in Claims(c, i, t, d) :
            \E k \in 0..((C + 1) - 1) : Consumer(U, t, d, k) = j
      BY <1>2, <2>5, <2>12, <3>1, <3>2
    <3> QED BY <3>3, <3>4, <3>5, <3>6 DEF SlotsConsumed
  <2>14. CausesFollow(c, U, i, t, d, C + 1)
    <3>1. ASSUME NEW k \in 0..((C + 1) - 1)
          PROVE  U.supplyChange[Change(U, t, d, k)].cause = CauseOf(c[Consumer(U, t, d, k)])
      <4>1. CASE k = C
        BY <2>5, <2>7, <2>9, <4>1
      <4>2. CASE k \in 0..(C - 1)
        <5>1. PICK j \in Changes(c, i - 1, t, d) : Change(T, t, d, k) = Row(c, j)
          BY <1>1, <2>1, <4>2 DEF SlotsStand
        <5>2. Row(c, j) # Row(c, a)
          BY <1>1, <2>1, <2>7, <4>2, <5>1 DEF SlotsStand
        <5> QED BY <1>1, <2>1, <2>6, <2>9, <4>2, <5>1, <5>2 DEF CausesFollow
      <4> QED BY <2>11, <4>1, <4>2
    <3>2. ASSUME NEW j \in Changes(c, i, t, d)
          PROVE  \/ \E k \in 0..((C + 1) - 1) : Change(U, t, d, k) = Row(c, j)
                 \/ U.supplyChange[Row(c, j)].cause = Default(c[j])
      <4>1. CASE Row(c, j) = Row(c, a)
        BY <2>5, <2>7, <2>12, <4>1
      <4>2. CASE Row(c, j) # Row(c, a)
        <5>1. U.supplyChange[Row(c, j)] = T.supplyChange[Row(c, j)]
          BY <1>2, <2>9, <4>2
        <5>2. \/ \E k \in 0..(C - 1) : Change(T, t, d, k) = Row(c, j)
              \/ T.supplyChange[Row(c, j)].cause = Default(c[j])
          BY <1>1, <1>2 DEF CausesFollow
        <5>3. \A k \in 0..(C - 1) : Change(U, t, d, k) = Change(T, t, d, k)
          BY <2>1, <2>6
        <5> QED BY <2>12, <5>1, <5>2, <5>3
      <4> QED BY <4>1, <4>2
    <3> QED BY <3>1, <3>2 DEF CausesFollow
  <2>15. Paired(c, U, i, t, d, N, C + 1)
    BY <1>1, <2>1, <2>10, <2>13, <2>14 DEF Paired
  <2> QED BY <2>15
<1> QED BY <1>1, <1>4, <1>5

LEMMA OthersKept ==
  ASSUME NEW c, NEW i \in Nat \ {0}, NEW T, NEW U, OthersOK(c, T, i - 1),
         c[i].event \notin {"Settled", "Redeemed", "Inflow", "Outflow"},
         U.settlement = T.settlement, U.redemption = T.redemption,
         U.strategicFlow = T.strategicFlow
  PROVE  OthersOK(c, U, i)
<1>1. \A j : j \in 1..i <=> j \in 1..(i - 1) \/ j = i
  OBVIOUS
<1>2. Settleds(c, i) = Settleds(c, i - 1) /\ Flows(c, i) = Flows(c, i - 1)
  BY <1>1 DEF Settleds, Flows
<1> QED BY <1>1, <1>2 DEF OthersOK

\* What a chain says of its members' types.
LEMMA LogTypes ==
  ASSUME NEW c, ChainOK(c), NEW i \in 1..Len(c)
  PROVE  /\ Len(c) \in Nat /\ i \in Nat \ {0} /\ LogOK(c[i]) /\ c[i].tx \in Nat
         /\ IsSupply(c[i]) => Delta(c[i]) \in Int
         /\ IsClaim(c[i]) => Claimed(c[i]) \in Int
BY DEF ChainOK, LogsOK, LogOK, ContentOK, IsSupply, SupplyEvents, Delta, IsClaim, Claimed

\* The pairs of other transactions and amounts do not change with a log.
LEMMA OtherPairsKept ==
  ASSUME NEW c, NEW i \in Nat \ {0}, NEW T, NEW U,
         IsSupply(c[i]) \/ IsClaim(c[i]), NEW t, t = c[i].tx,
         NEW d, d = IF IsSupply(c[i]) THEN Delta(c[i]) ELSE Claimed(c[i]),
         NEW u, NEW e, <<u, e>> # <<t, d>>,
         NEW N \in Nat, NEW C \in Nat, Paired(c, T, i - 1, u, e, N, C),
         \A j \in Changes(c, i - 1, u, e) :
           U.supplyChange[Row(c, j)] = T.supplyChange[Row(c, j)],
         \A k \in 0..(MAX_SLOTS - 1) :
           /\ SlotId(u, e, k) \in DOMAIN U.pairs <=> SlotId(u, e, k) \in DOMAIN T.pairs
           /\ SlotId(u, e, k) \in DOMAIN T.pairs =>
                U.pairs[SlotId(u, e, k)] = T.pairs[SlotId(u, e, k)]
  PROVE  Paired(c, U, i, u, e, N, C)
<1>1. \A j : j \in 1..i <=> j \in 1..(i - 1) \/ j = i
  OBVIOUS
<1>2. ~(IsSupply(c[i]) /\ IsClaim(c[i]))
  BY DEF IsSupply, SupplyEvents, IsClaim
<1>3. Changes(c, i, u, e) = Changes(c, i - 1, u, e)
  BY <1>1, <1>2 DEF Changes, Supplies
<1>4. Claims(c, i, u, e) = Claims(c, i - 1, u, e)
  BY <1>1, <1>2 DEF Claims
<1>5. /\ \A j \in Changes(c, i - 1, u, e) :
           /\ Row(c, j) = Row(c, j) /\ Default(c[j]) = Default(c[j])
           /\ U.supplyChange[Row(c, j)].cause = T.supplyChange[Row(c, j)].cause
      /\ \A j \in Claims(c, i - 1, u, e) : CauseOf(c[j]) = CauseOf(c[j])
  OBVIOUS
<1>6. \A k \in 0..(MAX_SLOTS - 1) :
           /\ SlotId(u, e, k) \in DOMAIN U.pairs <=> SlotId(u, e, k) \in DOMAIN T.pairs
           /\ SlotId(u, e, k) \in DOMAIN T.pairs =>
                U.pairs[SlotId(u, e, k)] = T.pairs[SlotId(u, e, k)]
  OBVIOUS
<1>7. Paired(c, T, i - 1, u, e, N, C)
  OBVIOUS
<1> QED BY ONLY <1>3, <1>4, <1>5, <1>6, <1>7, N \in Nat, C \in Nat, PairedKept

LEMMA TablesAreTheVariables ==
  /\ Tables.supplyChange = supplyChange /\ Tables.pairs = pairs
  /\ Tables.settlement = settlement /\ Tables.redemption = redemption
  /\ Tables.strategicFlow = strategicFlow
BY DEF Tables

LEMMA TablesThen ==
  /\ Tables'.supplyChange = supplyChange' /\ Tables'.pairs = pairs'
  /\ Tables'.settlement = settlement' /\ Tables'.redemption = redemption'
  /\ Tables'.strategicFlow = strategicFlow'
BY DEF Tables

\* VUX:Transfer, read for the first time.
LEMMA TransferStep ==
  ASSUME ChainOK(chain), NEW i \in 1..Len(chain), TablesOK(chain, Tables, i - 1),
         HandleTransfer(i)
  PROVE  TablesOK(chain, Tables', i)
<1> DEFINE T == Tables
           U == Tables'
           t == chain[i].tx
           d == Delta(chain[i])
<1>1. /\ IsSupply(chain[i]) /\ t \in Nat /\ d \in Int /\ i \in Nat \ {0}
      /\ chain[i].event \notin {"Settled", "Redeemed", "Inflow", "Outflow"}
  BY LogTypes DEF HandleTransfer, IsSupply, SupplyEvents
<1>2. /\ T.supplyChange = supplyChange /\ T.pairs = pairs /\ T.settlement = settlement
      /\ T.redemption = redemption /\ T.strategicFlow = strategicFlow
  BY TablesAreTheVariables
<1>3. /\ U.supplyChange = supplyChange' /\ U.pairs = pairs' /\ U.settlement = settlement'
      /\ U.redemption = redemption' /\ U.strategicFlow = strategicFlow'
  BY TablesThen
<1> HIDE DEF T, U
<1>4. ChangesOK(chain, T, i - 1) /\ OthersOK(chain, T, i - 1) /\ PairsOK(chain, T, i - 1)
  BY DEF TablesOK, T
<1>5. \A j \in Supplies(chain, i - 1) : Row(chain, j) # Row(chain, i)
  BY DEF Supplies, Row
<1>6. /\ U.supplyChange = With(T.supplyChange, Row(chain, i),
                               SupplyChange(d, Default(chain[i]), 0))
      /\ pairs' = ClaimSlot(t, d, Row(chain, i))
      /\ U.settlement = T.settlement /\ U.redemption = T.redemption
      /\ U.strategicFlow = T.strategicFlow
  <2>1. RowId(i) = Row(chain, i) /\ Row(chain, i) \notin DOMAIN supplyChange
    BY <1>2, <1>4, <1>5 DEF RowId, Row, ChangesOK
  <2>2. /\ supplyChange' = Insert(supplyChange, RowId(i),
                                  SupplyChange(d, Default(chain[i]), 0))
        /\ pairs' = ClaimSlot(t, d, RowId(i))
    BY DEF HandleTransfer, Default
  <2> QED BY <1>2, <1>3, <2>1, <2>2 DEF Insert, HandleTransfer, rows
<1>7. PICK N \in Nat, C \in Nat : Paired(chain, T, i - 1, t, d, N, C)
  BY <1>1, <1>4 DEF PairsOK
<1>8. /\ MAX_SLOTS \in Nat /\ N <= MAX_SLOTS /\ SlotsStand(chain, T, i - 1, t, d, N)
  BY <1>7, IndexerAssumption DEF Paired
<1>9. /\ N < MAX_SLOTS => U.pairs = With(T.pairs, SlotId(t, d, N),
                                         [changeId |-> Row(chain, i), consumedBy |-> 0])
      /\ N = MAX_SLOTS => U.pairs = T.pairs
  <2>1. \A k \in 0..(MAX_SLOTS - 1) : SlotId(t, d, k) \in DOMAIN pairs <=> k < N
    BY <1>2, <1>8 DEF SlotsStand
  <2>2. \A k \in 0..(N - 1) : pairs[SlotId(t, d, k)].changeId # Row(chain, i)
    BY <1>2, <1>5, <1>8 DEF SlotsStand, Changes, Change
  <2>3. /\ N < MAX_SLOTS =>
             ClaimSlot(t, d, Row(chain, i))
               = With(pairs, SlotId(t, d, N), [changeId |-> Row(chain, i), consumedBy |-> 0])
        /\ N = MAX_SLOTS => ClaimSlot(t, d, Row(chain, i)) = pairs
    BY ONLY <1>8, <2>1, <2>2, N \in Nat, ClaimSlotAppends
  <2> QED BY <1>2, <1>3, <1>6, <2>3
<1>10. ChangesOK(chain, U, i)
  <2>1. Supplies(chain, i) = Supplies(chain, i - 1) \cup {i}
    <3>1. \A j : j \in 1..i <=> j \in 1..(i - 1) \/ j = i
      BY <1>1
    <3> QED BY <1>1, <3>1 DEF Supplies
  <2>2. /\ DOMAIN U.supplyChange = DOMAIN T.supplyChange \cup {Row(chain, i)}
        /\ U.supplyChange[Row(chain, i)] = SupplyChange(d, Default(chain[i]), 0)
        /\ \A x \in DOMAIN T.supplyChange :
             x # Row(chain, i) => U.supplyChange[x] = T.supplyChange[x]
    BY ONLY <1>6 DEF With
  <2>3. DOMAIN U.supplyChange = {Row(chain, j) : j \in Supplies(chain, i)}
    BY <1>4, <2>1, <2>2 DEF ChangesOK
  <2>4. ASSUME NEW j \in Supplies(chain, i)
        PROVE  /\ DOMAIN U.supplyChange[Row(chain, j)]
                    = {"table", "delta", "cause", "refEpochId"}
               /\ U.supplyChange[Row(chain, j)].delta = Delta(chain[j])
    <3>1. CASE j = i
      BY <2>2, <3>1 DEF SupplyChange
    <3>2. CASE j \in Supplies(chain, i - 1)
      <4>1. U.supplyChange[Row(chain, j)] = T.supplyChange[Row(chain, j)]
        BY <1>4, <1>5, <2>2, <3>2 DEF ChangesOK
      <4> QED BY <1>4, <3>2, <4>1 DEF ChangesOK
    <3> QED BY <2>1, <3>1, <3>2
  <2> QED BY <2>3, <2>4 DEF ChangesOK
<1>11. OthersOK(chain, U, i)
  BY <1>1, <1>4, <1>6, OthersKept
<1>12. PairsOK(chain, U, i)
  <2> SUFFICES ASSUME NEW u \in Nat, NEW e \in Int
               PROVE  \E M, D \in Nat : Paired(chain, U, i, u, e, M, D)
    BY DEF PairsOK
  <2>1. CASE <<u, e>> = <<t, d>>
    <3>1. \E M \in Nat : Paired(chain, U, i, t, d, M, C)
      <4> HIDE DEF t, d
      <4>1. t = chain[i].tx /\ d = Delta(chain[i])
        BY DEF t, d
      <4>2. U.supplyChange = With(T.supplyChange, Row(chain, i),
                                  SupplyChange(d, Default(chain[i]), 0))
        BY <1>6
      <4>3. IsSupply(chain[i]) /\ i \in Nat \ {0} /\ ChangesOK(chain, T, i - 1)
        BY <1>1, <1>4
      <4> QED BY ONLY <1>7, <1>9, <4>1, <4>2, <4>3, N \in Nat, C \in Nat, ChangePaired
    <3> QED BY <2>1, <3>1
  <2>2. CASE <<u, e>> # <<t, d>>
    <3>1. PICK M \in Nat, D \in Nat : Paired(chain, T, i - 1, u, e, M, D)
      BY <1>4 DEF PairsOK
    <3>2. \A j \in Changes(chain, i - 1, u, e) :
            U.supplyChange[Row(chain, j)] = T.supplyChange[Row(chain, j)]
      <4>1. \A x \in DOMAIN T.supplyChange :
              x # Row(chain, i) => U.supplyChange[x] = T.supplyChange[x]
        BY ONLY <1>6 DEF With
      <4> QED BY <1>4, <1>5, <4>1 DEF Changes, ChangesOK
    <3>3. \A k \in 0..(MAX_SLOTS - 1) :
            /\ SlotId(u, e, k) \in DOMAIN U.pairs <=> SlotId(u, e, k) \in DOMAIN T.pairs
            /\ SlotId(u, e, k) \in DOMAIN T.pairs =>
                 U.pairs[SlotId(u, e, k)] = T.pairs[SlotId(u, e, k)]
      <4>1. \A k \in 0..(MAX_SLOTS - 1) : SlotId(u, e, k) # SlotId(t, d, N)
        BY <2>2 DEF SlotId
      <4>2. CASE N = MAX_SLOTS
        BY <1>9, <4>2
      <4>3. CASE N < MAX_SLOTS
        <5>1. U.pairs = With(T.pairs, SlotId(t, d, N),
                             [changeId |-> Row(chain, i), consumedBy |-> 0])
          BY <1>9, <4>3
        <5>2. /\ DOMAIN U.pairs = DOMAIN T.pairs \cup {SlotId(t, d, N)}
              /\ \A x \in DOMAIN T.pairs :
                   x # SlotId(t, d, N) => U.pairs[x] = T.pairs[x]
          BY ONLY <5>1 DEF With
        <5> QED BY <4>1, <5>2
      <4> QED BY <1>8, <4>2, <4>3
    <3>4. /\ IsSupply(chain[i]) \/ IsClaim(chain[i])
          /\ t = chain[i].tx
          /\ d = IF IsSupply(chain[i]) THEN Delta(chain[i]) ELSE Claimed(chain[i])
      BY <1>1
    <3>5. Paired(chain, U, i, u, e, M, D)
      <4> HIDE DEF t, d
      <4> QED BY ONLY <2>2, <3>1, <3>2, <3>3, <3>4, <1>1, M \in Nat, D \in Nat, OtherPairsKept
    <3> QED BY <3>5
  <2> QED BY <2>1, <2>2
<1> QED BY <1>10, <1>11, <1>12 DEF TablesOK, U

\* A cause, read for the first time.
LEMMA RefineStep ==
  ASSUME ChainOK(chain), NEW i \in 1..Len(chain), IsClaim(chain[i]),
         ChangesOK(chain, Tables, i - 1), PairsOK(chain, Tables, i - 1), NEW ref,
         RefineCause(i, Claimed(chain[i]), CauseOf(chain[i]), ref)
  PROVE  ChangesOK(chain, Tables', i) /\ PairsOK(chain, Tables', i)
<1> DEFINE T == Tables
           U == Tables'
           t == chain[i].tx
           d == Claimed(chain[i])
<1>1. IsClaim(chain[i]) /\ t \in Nat /\ d \in Int /\ i \in Nat \ {0} /\ ~IsSupply(chain[i])
  BY LogTypes DEF IsClaim, IsSupply, SupplyEvents
<1>2. T.supplyChange = supplyChange /\ T.pairs = pairs
  BY TablesAreTheVariables
<1>3. U.supplyChange = supplyChange' /\ U.pairs = pairs'
  BY TablesThen
<1>4. ChangesOK(chain, T, i - 1) /\ PairsOK(chain, T, i - 1)
  OBVIOUS
<1> HIDE DEF T, U
<1>5. PICK N \in Nat, C \in Nat : Paired(chain, T, i - 1, t, d, N, C)
  BY <1>1, <1>4 DEF PairsOK
<1>6. /\ MAX_SLOTS \in Nat /\ C <= N /\ N <= MAX_SLOTS
      /\ SlotsStand(chain, T, i - 1, t, d, N) /\ SlotsConsumed(chain, T, i - 1, t, d, N, C)
  BY <1>5, IndexerAssumption DEF Paired
<1>7. C < MAX_SLOTS => C < N
  BY <1>5, FreeSlot
<1>8. /\ C = MAX_SLOTS => U.pairs = T.pairs /\ U.supplyChange = T.supplyChange
      /\ C < MAX_SLOTS =>
           /\ U.pairs = Consumed(T.pairs, SlotId(t, d, C), i)
           /\ U.supplyChange
                = Attributed(T.supplyChange, Change(T, t, d, C), CauseOf(chain[i]), ref)
  <2>1. \A k \in 0..(MAX_SLOTS - 1) : SlotId(t, d, k) \in DOMAIN pairs <=> k < N
    BY <1>2, <1>6 DEF SlotsStand
  <2>2. \A k \in 0..(C - 1) : pairs[SlotId(t, d, k)].consumedBy \notin {0, i}
    BY <1>1, <1>2, <1>6 DEF SlotsConsumed, Claims, Consumer
  <2>3. \A k \in C..(N - 1) : pairs[SlotId(t, d, k)].consumedBy = 0
    BY <1>2, <1>6 DEF SlotsConsumed, Consumer
  <2>4. RefineCause(i, d, CauseOf(chain[i]), ref) /\ t = chain[i].tx /\ i \in Nat \ {0}
    BY <1>1
  <2>6. C <= N /\ N <= MAX_SLOTS
    BY <1>6
  <2> HIDE DEF t, d
  <2>5. /\ C = MAX_SLOTS => supplyChange' = supplyChange /\ pairs' = pairs
        /\ C < MAX_SLOTS =>
             /\ pairs' = Consumed(pairs, SlotId(t, d, C), i)
             /\ supplyChange' = Attributed(supplyChange, pairs[SlotId(t, d, C)].changeId,
                                           CauseOf(chain[i]), ref)
    BY ONLY <1>7, <2>1, <2>2, <2>3, <2>4, <2>6, N \in Nat, C \in Nat, RefineCauseTakes
  <2> QED BY <1>2, <1>3, <2>5 DEF Change
<1>9. \A j \in Supplies(chain, i - 1) :
        /\ Row(chain, j) \in DOMAIN T.supplyChange
        /\ DOMAIN T.supplyChange[Row(chain, j)] = {"table", "delta", "cause", "refEpochId"}
        /\ T.supplyChange[Row(chain, j)].delta = Delta(chain[j])
  BY <1>4 DEF ChangesOK
<1>10. \/ U.supplyChange = T.supplyChange
       \/ \E a \in Changes(chain, i - 1, t, d) :
            /\ DOMAIN U.supplyChange = DOMAIN T.supplyChange
            /\ \A x \in DOMAIN T.supplyChange :
                 x # Row(chain, a) => U.supplyChange[x] = T.supplyChange[x]
            /\ DOMAIN U.supplyChange[Row(chain, a)]
                 = {"table", "delta", "cause", "refEpochId"}
            /\ U.supplyChange[Row(chain, a)].delta = Delta(chain[a])
  <2>1. CASE C = MAX_SLOTS
    BY <1>8, <2>1
  <2>2. CASE C < MAX_SLOTS
    <3>1. C \in 0..(N - 1)
      BY <1>6, <1>7, <2>2
    <3>2. PICK a \in Changes(chain, i - 1, t, d) : Change(T, t, d, C) = Row(chain, a)
      BY <1>6, <3>1 DEF SlotsStand
    <3>3. /\ Row(chain, a) \in DOMAIN T.supplyChange
          /\ DOMAIN T.supplyChange[Row(chain, a)] = {"table", "delta", "cause", "refEpochId"}
          /\ T.supplyChange[Row(chain, a)].delta = Delta(chain[a])
      BY <1>9 DEF Changes
    <3>4. U.supplyChange
            = Attributed(T.supplyChange, Row(chain, a), CauseOf(chain[i]), ref)
      BY <1>8, <2>2, <3>2
    <3>5. /\ DOMAIN U.supplyChange = DOMAIN T.supplyChange
          /\ \A x \in DOMAIN T.supplyChange :
               x # Row(chain, a) => U.supplyChange[x] = T.supplyChange[x]
          /\ DOMAIN U.supplyChange[Row(chain, a)] = {"table", "delta", "cause", "refEpochId"}
          /\ U.supplyChange[Row(chain, a)].delta = Delta(chain[a])
      BY <3>3, <3>4 DEF Attributed
    <3> QED BY <3>5
  <2> QED BY <1>6, <2>1, <2>2
<1>11. ChangesOK(chain, U, i)
  <2>1. Supplies(chain, i) = Supplies(chain, i - 1)
    <3>1. \A j : j \in 1..i <=> j \in 1..(i - 1) \/ j = i
      BY <1>1
    <3> QED BY <1>1, <3>1 DEF Supplies
  <2>2. DOMAIN U.supplyChange = DOMAIN T.supplyChange
    BY <1>10
  <2>3. ASSUME NEW j \in Supplies(chain, i - 1)
        PROVE  /\ DOMAIN U.supplyChange[Row(chain, j)]
                    = {"table", "delta", "cause", "refEpochId"}
               /\ U.supplyChange[Row(chain, j)].delta = Delta(chain[j])
    <3>1. \A a : Row(chain, j) = Row(chain, a) => j = a
      BY DEF Row
    <3> QED BY <1>9, <1>10, <3>1
  <2> QED BY <1>4, <2>1, <2>2, <2>3 DEF ChangesOK
<1>12. PairsOK(chain, U, i)
  <2> SUFFICES ASSUME NEW u \in Nat, NEW e \in Int
               PROVE  \E M, D \in Nat : Paired(chain, U, i, u, e, M, D)
    BY DEF PairsOK
  <2>1. CASE <<u, e>> = <<t, d>>
    <3>1. \E D \in Nat : Paired(chain, U, i, t, d, N, D)
      <4> HIDE DEF t, d
      <4>1. t = chain[i].tx /\ d = Claimed(chain[i])
        BY DEF t, d
      <4>2. IsClaim(chain[i]) /\ i \in Nat \ {0} /\ ChangesOK(chain, T, i - 1)
        BY <1>1, <1>4
      <4> QED BY ONLY <1>5, <1>7, <1>8, <4>1, <4>2, N \in Nat, C \in Nat, ClaimPaired
    <3> QED BY <2>1, <3>1
  <2>2. CASE <<u, e>> # <<t, d>>
    <3>1. PICK M \in Nat, D \in Nat : Paired(chain, T, i - 1, u, e, M, D)
      BY <1>4 DEF PairsOK
    <3>2. \A j \in Changes(chain, i - 1, u, e) :
            U.supplyChange[Row(chain, j)] = T.supplyChange[Row(chain, j)]
      <4> TAKE j \in Changes(chain, i - 1, u, e)
      <4>1. Row(chain, j) \in DOMAIN T.supplyChange
        BY <1>9 DEF Changes
      <4>2. \A a \in Changes(chain, i - 1, t, d) : Row(chain, j) # Row(chain, a)
        BY <2>2 DEF Changes, Row
      <4> QED BY <1>10, <4>1, <4>2
    <3>3. \A k \in 0..(MAX_SLOTS - 1) :
            /\ SlotId(u, e, k) \in DOMAIN U.pairs <=> SlotId(u, e, k) \in DOMAIN T.pairs
            /\ SlotId(u, e, k) \in DOMAIN T.pairs =>
                 U.pairs[SlotId(u, e, k)] = T.pairs[SlotId(u, e, k)]
      <4>1. \A k \in 0..(MAX_SLOTS - 1) : SlotId(u, e, k) # SlotId(t, d, C)
        BY <2>2 DEF SlotId
      <4>2. CASE C = MAX_SLOTS
        BY <1>8, <4>2
      <4>3. CASE C < MAX_SLOTS
        <5>1. U.pairs = Consumed(T.pairs, SlotId(t, d, C), i)
          BY <1>8, <4>3
        <5> QED BY <4>1, <5>1 DEF Consumed
      <4> QED BY <1>6, <4>2, <4>3
    <3>4. /\ IsSupply(chain[i]) \/ IsClaim(chain[i])
          /\ t = chain[i].tx /\ i \in Nat \ {0}
          /\ d = IF IsSupply(chain[i]) THEN Delta(chain[i]) ELSE Claimed(chain[i])
      BY <1>1
    <3>5. Paired(chain, U, i, u, e, M, D)
      <4> HIDE DEF t, d
      <4> QED BY ONLY <2>2, <3>1, <3>2, <3>3, <3>4, M \in Nat, D \in Nat, OtherPairsKept
    <3> QED BY <3>5
  <2> QED BY <2>1, <2>2
<1> QED BY <1>11, <1>12 DEF U

\* A log that is neither a change nor a claim.
LEMMA NoClaimStep ==
  ASSUME ChainOK(chain), NEW i \in 1..Len(chain),
         ~IsClaim(chain[i]), ~IsSupply(chain[i]),
         ChangesOK(chain, Tables, i - 1), PairsOK(chain, Tables, i - 1),
         supplyChange' = supplyChange, pairs' = pairs
  PROVE  ChangesOK(chain, Tables', i) /\ PairsOK(chain, Tables', i)
<1> DEFINE T == Tables
           U == Tables'
<1>1. U.supplyChange = T.supplyChange /\ U.pairs = T.pairs
  BY TablesAreTheVariables, TablesThen
<1>2. ChangesOK(chain, T, i - 1) /\ PairsOK(chain, T, i - 1)
  OBVIOUS
<1> HIDE DEF T, U
<1>3. \A j : j \in 1..i <=> j \in 1..(i - 1) \/ j = i
  BY LogTypes
<1>4. Supplies(chain, i) = Supplies(chain, i - 1)
  BY <1>3 DEF Supplies
<1>5. ChangesOK(chain, U, i)
  BY <1>1, <1>2, <1>4 DEF ChangesOK
<1>6. ASSUME NEW t \in Nat, NEW d \in Int
      PROVE  \E N, C \in Nat : Paired(chain, U, i, t, d, N, C)
  <2>1. PICK N \in Nat, C \in Nat : Paired(chain, T, i - 1, t, d, N, C)
    BY <1>2 DEF PairsOK
  <2>2. /\ Changes(chain, i, t, d) = Changes(chain, i - 1, t, d)
        /\ Claims(chain, i, t, d) = Claims(chain, i - 1, t, d)
    BY <1>3, <1>4 DEF Changes, Claims
  <2>3. /\ \A j \in Changes(chain, i - 1, t, d) :
             /\ Row(chain, j) = Row(chain, j) /\ Default(chain[j]) = Default(chain[j])
             /\ U.supplyChange[Row(chain, j)].cause = T.supplyChange[Row(chain, j)].cause
        /\ \A j \in Claims(chain, i - 1, t, d) : CauseOf(chain[j]) = CauseOf(chain[j])
    BY <1>1
  <2>4. \A k \in 0..(MAX_SLOTS - 1) :
          /\ SlotId(t, d, k) \in DOMAIN U.pairs <=> SlotId(t, d, k) \in DOMAIN T.pairs
          /\ SlotId(t, d, k) \in DOMAIN T.pairs =>
               U.pairs[SlotId(t, d, k)] = T.pairs[SlotId(t, d, k)]
    BY <1>1
  <2>5. Paired(chain, U, i, t, d, N, C)
    BY ONLY <2>1, <2>2, <2>3, <2>4, N \in Nat, C \in Nat, PairedKept
  <2> QED BY <2>5
<1> QED BY <1>5, <1>6 DEF PairsOK, U

FlowsBooked(c, F, n) ==
  /\ DOMAIN F = {Row(c, j) : j \in Flows(c, n)}
  /\ \A j \in Flows(c, n) : F[Row(c, j)] = FlowOfLog(c[j])

\* A flow is booked under a row of its own.
LEMMA FlowBooked ==
  ASSUME NEW c, NEW i \in Nat \ {0}, NEW F, NEW G, FlowsBooked(c, F, i - 1),
         i \in Flows(c, i) => G = Insert(F, Row(c, i), FlowOfLog(c[i])),
         i \notin Flows(c, i) => G = F
  PROVE  FlowsBooked(c, G, i)
<1>0. /\ DOMAIN F = {Row(c, j) : j \in Flows(c, i - 1)}
      /\ \A j \in Flows(c, i - 1) : F[Row(c, j)] = FlowOfLog(c[j])
  BY DEF FlowsBooked
<1>1. \A j : j \in 1..i <=> j \in 1..(i - 1) \/ j = i
  OBVIOUS
<1>2. Flows(c, i) = Flows(c, i - 1) \cup (IF i \in Flows(c, i) THEN {i} ELSE {})
  BY <1>1 DEF Flows
<1>3. \A j \in Flows(c, i - 1) : Row(c, j) # Row(c, i)
  BY DEF Flows, Row
<1>4. CASE i \notin Flows(c, i)
  BY <1>2, <1>4 DEF FlowsBooked
<1>5. CASE i \in Flows(c, i)
  <2>1. Row(c, i) \notin DOMAIN F
    BY <1>0, <1>3
  <2>2. G = With(F, Row(c, i), FlowOfLog(c[i]))
    BY <1>5, <2>1 DEF Insert
  <2>3. /\ DOMAIN G = DOMAIN F \cup {Row(c, i)}
        /\ G[Row(c, i)] = FlowOfLog(c[i])
        /\ \A x \in DOMAIN F : x # Row(c, i) => G[x] = F[x]
    BY ONLY <2>2 DEF With
  <2>4. Flows(c, i) = Flows(c, i - 1) \cup {i}
    BY <1>2, <1>5
  <2> QED BY <1>0, <1>3, <2>3, <2>4 DEF FlowsBooked
<1> QED BY <1>4, <1>5

\* Rig:Settled, read for the first time.
LEMMA SettledRows ==
  ASSUME ChainOK(chain), NEW i \in 1..Len(chain), OthersOK(chain, Tables, i - 1),
         HandleSettled(i)
  PROVE  OthersOK(chain, Tables', i)
<1> DEFINE T == Tables
           U == Tables'
           log == chain[i]
           row == Settlement(log.leg + 1, log.leg, 1, log.amount)
<1>1. /\ log.event = "Settled" /\ i \in Nat \ {0} /\ log.leg \in Nat
      /\ settlement' = Insert(settlement, log.epoch, row)
      /\ strategicFlow' = IF log.leg > 0
                          THEN Insert(strategicFlow, RowId(i),
                                      StrategicFlow("in", STRATEGIC_CLASS[1], log.leg))
                          ELSE strategicFlow
      /\ redemption' = redemption
  BY LogTypes DEF HandleSettled, LogOK, ContentOK
<1>2. /\ U.settlement = Insert(T.settlement, log.epoch, row)
      /\ U.redemption = T.redemption
      /\ U.strategicFlow = strategicFlow' /\ T.strategicFlow = strategicFlow
  BY <1>1, TablesAreTheVariables, TablesThen
<1>3. OthersOK(chain, T, i - 1)
  OBVIOUS
<1> HIDE DEF T, U
<1>4. \A j : j \in 1..i <=> j \in 1..(i - 1) \/ j = i
  BY <1>1
<1>5. Settleds(chain, i) = Settleds(chain, i - 1) \cup {i}
  BY <1>1, <1>4 DEF Settleds
<1>6. \A j \in Settleds(chain, i - 1) : chain[j].epoch # log.epoch
  <2> TAKE j \in Settleds(chain, i - 1)
  <2>1. j \in 1..Len(chain) /\ j # i /\ chain[j].event = "Settled"
    BY <1>1, LogTypes DEF Settleds
  <2> QED BY <1>1, <2>1, EpochsDiffer
<1>7. /\ DOMAIN U.settlement = DOMAIN T.settlement \cup {log.epoch}
      /\ U.settlement[log.epoch] = row
      /\ \A x \in DOMAIN T.settlement : x # log.epoch => U.settlement[x] = T.settlement[x]
  <2>1. log.epoch \notin DOMAIN T.settlement
    BY <1>3, <1>6 DEF OthersOK
  <2>2. U.settlement = With(T.settlement, log.epoch, row)
    BY <1>2, <2>1 DEF Insert
  <2> HIDE DEF log, row
  <2> QED BY ONLY <2>2 DEF With
<1>8. row.qMint = log.amount
  BY DEF Settlement
<1>9. /\ DOMAIN U.settlement = {chain[j].epoch : j \in Settleds(chain, i)}
      /\ \A j \in Settleds(chain, i) : U.settlement[chain[j].epoch].qMint = chain[j].amount
  <2> HIDE DEF row
  <2>1. DOMAIN T.settlement = {chain[j].epoch : j \in Settleds(chain, i - 1)}
        /\ \A j \in Settleds(chain, i - 1) :
             T.settlement[chain[j].epoch].qMint = chain[j].amount
    BY <1>3 DEF OthersOK
  <2> QED BY <1>5, <1>6, <1>7, <1>8, <2>1
<1>10. \A j \in 1..i : chain[j].event = "Redeemed" => Row(chain, j) \in U.redemption
  BY <1>1, <1>2, <1>3, <1>4 DEF OthersOK
<1>11. FlowsBooked(chain, U.strategicFlow, i)
  <2>1. FlowsBooked(chain, T.strategicFlow, i - 1)
    BY <1>3 DEF OthersOK, FlowsBooked
  <2>2. i \in Flows(chain, i) <=> log.leg > 0
    BY <1>1 DEF Flows
  <2>3. FlowOfLog(log) = StrategicFlow("in", STRATEGIC_CLASS[1], log.leg)
    BY <1>1 DEF FlowOfLog
  <2>4. RowId(i) = Row(chain, i)
    BY DEF RowId, Row
  <2>5. /\ i \in Flows(chain, i) =>
             U.strategicFlow = Insert(T.strategicFlow, Row(chain, i), FlowOfLog(chain[i]))
        /\ i \notin Flows(chain, i) => U.strategicFlow = T.strategicFlow
    BY <1>1, <1>2, <2>2, <2>3, <2>4
  <2> QED BY ONLY <1>1, <2>1, <2>5, FlowBooked
<1> QED BY <1>9, <1>10, <1>11 DEF OthersOK, FlowsBooked, U

\* HardReserve:Redeemed, and the inflows and outflows of the treasury.
LEMMA OtherRows ==
  ASSUME ChainOK(chain), NEW i \in 1..Len(chain), OthersOK(chain, Tables, i - 1),
         \/ HandleRedeemed(i) \/ HandleStrategicInflow(i) \/ HandleStrategicOutflow(i)
  PROVE  OthersOK(chain, Tables', i)
<1> DEFINE T == Tables
           U == Tables'
           log == chain[i]
<1>1. /\ i \in Nat \ {0} /\ settlement' = settlement
      /\ log.event \in {"Redeemed", "Inflow", "Outflow"}
      /\ log.event = "Redeemed" =>
           redemption' = redemption \cup {RowId(i)} /\ strategicFlow' = strategicFlow
      /\ log.event \in {"Inflow", "Outflow"} => redemption' = redemption
  BY LogTypes DEF HandleRedeemed, HandleStrategicInflow, HandleStrategicOutflow
<1>2. log.event \in {"Inflow", "Outflow"} =>
        strategicFlow' = Insert(strategicFlow, Row(chain, i), FlowOfLog(log))
  <2>1. CASE HandleStrategicInflow(i)
    <3>1. log.event = "Inflow" /\ log.class \in 2..4
      BY <2>1, LogTypes DEF HandleStrategicInflow, LogOK, ContentOK
    <3>2. DOMAIN STRATEGIC_CLASS = 1..4
      BY DEF STRATEGIC_CLASS
    <3> QED BY <2>1, <3>1, <3>2 DEF HandleStrategicInflow, FlowOfLog, RowId, Row
  <2>2. CASE HandleStrategicOutflow(i)
    BY <2>2 DEF HandleStrategicOutflow, FlowOfLog, RowId, Row
  <2>3. CASE HandleRedeemed(i)
    BY <2>3 DEF HandleRedeemed
  <2> QED BY <2>1, <2>2, <2>3
<1>3. /\ T.settlement = settlement /\ T.redemption = redemption
      /\ T.strategicFlow = strategicFlow
      /\ U.settlement = settlement' /\ U.redemption = redemption'
      /\ U.strategicFlow = strategicFlow'
  BY TablesAreTheVariables, TablesThen
<1>4. OthersOK(chain, T, i - 1)
  OBVIOUS
<1> HIDE DEF T, U
<1>5. \A j : j \in 1..i <=> j \in 1..(i - 1) \/ j = i
  BY <1>1
<1>6. Settleds(chain, i) = Settleds(chain, i - 1)
  BY <1>1, <1>5 DEF Settleds
<1>7. /\ DOMAIN U.settlement = {chain[j].epoch : j \in Settleds(chain, i)}
      /\ \A j \in Settleds(chain, i) : U.settlement[chain[j].epoch].qMint = chain[j].amount
  BY <1>1, <1>3, <1>4, <1>6 DEF OthersOK
<1>8. \A j \in 1..i : chain[j].event = "Redeemed" => Row(chain, j) \in U.redemption
  <2>1. \A j \in 1..(i - 1) : chain[j].event = "Redeemed" => Row(chain, j) \in redemption
    BY <1>3, <1>4 DEF OthersOK
  <2>2. RowId(i) = Row(chain, i)
    BY DEF RowId, Row
  <2> QED BY <1>1, <1>3, <1>5, <2>1, <2>2
<1>9. FlowsBooked(chain, U.strategicFlow, i)
  <2>1. FlowsBooked(chain, T.strategicFlow, i - 1)
    BY <1>4 DEF OthersOK, FlowsBooked
  <2>2. i \in Flows(chain, i) <=> log.event \in {"Inflow", "Outflow"}
    BY <1>1 DEF Flows
  <2>3. /\ i \in Flows(chain, i) =>
             U.strategicFlow = Insert(T.strategicFlow, Row(chain, i), FlowOfLog(chain[i]))
        /\ i \notin Flows(chain, i) => U.strategicFlow = T.strategicFlow
    BY <1>1, <1>2, <1>3, <2>2
  <2> QED BY ONLY <1>1, <2>1, <2>3, FlowBooked
<1> QED BY <1>7, <1>8, <1>9 DEF OthersOK, FlowsBooked, U

Handle(i) ==
  \/ HandleTransfer(i) \/ HandleSettled(i) \/ HandleRedeemed(i)
  \/ HandleVyrfHarvest(i) \/ HandleVuxRevenueBurned(i)
  \/ HandleStrategicInflow(i) \/ HandleStrategicOutflow(i)

\* A cause handler either refines the change it claims or leaves both tables.
LEMMA HandlerRefines ==
  ASSUME ChainOK(chain), NEW i \in 1..Len(chain), Handle(i), ~HandleTransfer(i)
  PROVE  /\ ~IsSupply(chain[i])
         /\ IsClaim(chain[i]) =>
              \E ref : RefineCause(i, Claimed(chain[i]), CauseOf(chain[i]), ref)
         /\ ~IsClaim(chain[i]) => supplyChange' = supplyChange /\ pairs' = pairs
<1>1. LogOK(chain[i])
  BY LogTypes
<1>2. CASE HandleSettled(i)
  <2>1. chain[i].event = "Settled"
    BY <1>2 DEF HandleSettled
  <2>2. Claimed(chain[i]) = chain[i].amount /\ CauseOf(chain[i]) = "settlement_mint"
    BY <2>1 DEF Claimed, CauseOf
  <2>3. IsClaim(chain[i]) <=> chain[i].amount > 0
    BY <2>1 DEF IsClaim
  <2> QED BY <1>2, <2>1, <2>2, <2>3 DEF HandleSettled, IsSupply, SupplyEvents
<1>3. CASE HandleRedeemed(i)
  <2>1. chain[i].event = "Redeemed"
    BY <1>3 DEF HandleRedeemed
  <2>2. Claimed(chain[i]) = -chain[i].amount /\ CauseOf(chain[i]) = "redemption_burn"
    BY <2>1 DEF Claimed, CauseOf
  <2>3. IsClaim(chain[i]) <=> chain[i].amount > 0
    BY <2>1 DEF IsClaim
  <2> QED BY <1>3, <2>1, <2>2, <2>3 DEF HandleRedeemed, IsSupply, SupplyEvents
<1>4. CASE HandleVyrfHarvest(i)
  <2>1. chain[i].event = "VyrfHarvest"
    BY <1>4 DEF HandleVyrfHarvest
  <2>2. Claimed(chain[i]) = -chain[i].amount /\ CauseOf(chain[i]) = "vyrf_burn"
    BY <2>1 DEF Claimed, CauseOf
  <2>3. IsClaim(chain[i]) <=> chain[i].amount > 0
    BY <2>1 DEF IsClaim
  <2> QED BY <1>4, <2>1, <2>2, <2>3 DEF HandleVyrfHarvest, IsSupply, SupplyEvents
<1>5. CASE HandleVuxRevenueBurned(i)
  BY <1>5 DEF HandleVuxRevenueBurned, IsSupply, SupplyEvents, IsClaim, tables
<1>6. CASE HandleStrategicInflow(i)
  BY <1>6 DEF HandleStrategicInflow, IsSupply, SupplyEvents, IsClaim
<1>7. CASE HandleStrategicOutflow(i)
  BY <1>7 DEF HandleStrategicOutflow, IsSupply, SupplyEvents, IsClaim
<1> QED BY <1>2, <1>3, <1>4, <1>5, <1>6, <1>7 DEF Handle

\* A log, read for the first time.
LEMMA LogStep ==
  ASSUME ChainOK(chain), NEW i \in 1..Len(chain), TablesOK(chain, Tables, i - 1), Handle(i)
  PROVE  TablesOK(chain, Tables', i)
<1>1. CASE HandleTransfer(i)
  BY <1>1, TransferStep
<1>2. CASE ~HandleTransfer(i)
  <2>1. /\ ChangesOK(chain, Tables, i - 1) /\ PairsOK(chain, Tables, i - 1)
        /\ OthersOK(chain, Tables, i - 1)
    BY DEF TablesOK
  <2>2. ChangesOK(chain, Tables', i) /\ PairsOK(chain, Tables', i)
    BY <1>2, <2>1, HandlerRefines, RefineStep, NoClaimStep
  <2>3. OthersOK(chain, Tables', i)
    <3>1. CASE HandleSettled(i)
      BY <2>1, <3>1, SettledRows
    <3>2. CASE HandleRedeemed(i) \/ HandleStrategicInflow(i) \/ HandleStrategicOutflow(i)
      BY <2>1, <3>2, OtherRows
    <3>3. CASE HandleVyrfHarvest(i) \/ HandleVuxRevenueBurned(i)
      <4>1. /\ chain[i].event \notin {"Settled", "Redeemed", "Inflow", "Outflow"}
            /\ settlement' = settlement /\ redemption' = redemption
            /\ strategicFlow' = strategicFlow
        BY <3>3 DEF HandleVyrfHarvest, HandleVuxRevenueBurned, rows, tables
      <4>2. /\ Tables'.settlement = Tables.settlement
            /\ Tables'.redemption = Tables.redemption
            /\ Tables'.strategicFlow = Tables.strategicFlow
        BY <4>1, TablesAreTheVariables, TablesThen
      <4>3. i \in Nat \ {0}
        BY LogTypes
      <4> QED BY <2>1, <4>1, <4>2, <4>3, OthersKept
    <3> QED BY <1>2, <3>1, <3>2, <3>3 DEF Handle
  <2> QED BY <2>2, <2>3 DEF TablesOK
<1> QED BY <1>1, <1>2

\* A log that the tables account for, read again.
LEMMA LogReplayed ==
  ASSUME ChainOK(chain), NEW n \in 0..Len(chain), NEW i \in 1..n,
         TablesOK(chain, Tables, n), Handle(i)
  PROVE  UNCHANGED tables
<1> DEFINE T == Tables
           t == chain[i].tx
           log == chain[i]
<1>1. /\ T.supplyChange = supplyChange /\ T.pairs = pairs /\ T.settlement = settlement
      /\ T.redemption = redemption /\ T.strategicFlow = strategicFlow
  BY TablesAreTheVariables
<1>2. /\ Len(chain) \in Nat /\ i \in 1..Len(chain) /\ i \in Nat \ {0} /\ t \in Nat
      /\ LogOK(log)
      /\ IsSupply(log) => Delta(log) \in Int
      /\ IsClaim(log) => Claimed(log) \in Int
  <2>1. Len(chain) \in Nat
    BY DEF ChainOK, LogsOK
  <2>2. i \in 1..Len(chain)
    BY <2>1
  <2> QED BY <2>1, <2>2, LogTypes
<1>3. ChangesOK(chain, T, n) /\ OthersOK(chain, T, n) /\ PairsOK(chain, T, n)
  BY DEF TablesOK
<1> HIDE DEF T
<1>4. RowId(i) = Row(chain, i)
  BY DEF RowId, Row
<1>5. \A a, b : Row(chain, a) = Row(chain, b) => a = b
  BY DEF Row
<1>6. CASE HandleTransfer(i)
  <2>1. IsSupply(log) /\ i \in Supplies(chain, n)
    BY <1>6 DEF HandleTransfer, IsSupply, Supplies
  <2>2. Row(chain, i) \in DOMAIN supplyChange
    BY <1>1, <1>3, <2>1 DEF ChangesOK
  <2>3. supplyChange' = supplyChange
    BY <1>4, <1>6, <2>2 DEF HandleTransfer, Insert
  <2> DEFINE d == Delta(log)
  <2>4. PICK N \in Nat, C \in Nat : Paired(chain, T, n, t, d, N, C)
    BY <1>2, <1>3, <2>1 DEF PairsOK
  <2>5. N <= MAX_SLOTS /\ SlotsStand(chain, T, n, t, d, N)
    BY <2>4 DEF Paired
  <2>6. /\ \A k \in 0..(MAX_SLOTS - 1) : SlotId(t, d, k) \in DOMAIN pairs <=> k < N
        /\ N < MAX_SLOTS =>
             \E k \in 0..(N - 1) : pairs[SlotId(t, d, k)].changeId = Row(chain, i)
    <3>1. i \in Changes(chain, n, t, d)
      BY <2>1 DEF Changes
    <3> QED BY <1>1, <2>5, <3>1 DEF SlotsStand, Change
  <2>7. pairs' = ClaimSlot(t, d, Row(chain, i)) /\ UNCHANGED rows
    BY <1>4, <1>6 DEF HandleTransfer
  <2> HIDE DEF t, d
  <2>8. ClaimSlot(t, d, Row(chain, i)) = pairs
    BY ONLY <2>5, <2>6, N \in Nat, ClaimSlotAgain
  <2> QED BY <2>3, <2>7, <2>8 DEF tables
<1>7. CASE ~HandleTransfer(i)
  <2>1. supplyChange' = supplyChange /\ pairs' = pairs
    <3>1. CASE ~IsClaim(log)
      BY <1>2, <1>7, <3>1, HandlerRefines
    <3>2. CASE IsClaim(log)
      <4> DEFINE d == Claimed(log)
                 cause == CauseOf(log)
      <4>1. PICK ref : RefineCause(i, d, cause, ref)
        BY <1>2, <1>7, <3>2, HandlerRefines
      <4>2. PICK N \in Nat, C \in Nat : Paired(chain, T, n, t, d, N, C)
        BY <1>2, <1>3, <3>2 DEF PairsOK
      <4>3. /\ C <= N /\ N <= MAX_SLOTS
            /\ SlotsStand(chain, T, n, t, d, N) /\ SlotsConsumed(chain, T, n, t, d, N, C)
        BY <4>2 DEF Paired
      <4>4. \A k \in 0..(MAX_SLOTS - 1) : SlotId(t, d, k) \in DOMAIN pairs <=> k < N
        BY <1>1, <4>3 DEF SlotsStand
      <4>5. \A k \in 0..(C - 1) : pairs[SlotId(t, d, k)].consumedBy # 0
        BY <1>1, <4>3 DEF SlotsConsumed, Consumer, Claims
      <4>6. C < MAX_SLOTS =>
              \E k \in 0..(C - 1) : pairs[SlotId(t, d, k)].consumedBy = i
        <5>1. i \in Claims(chain, n, t, d)
          BY <3>2 DEF Claims
        <5> QED BY <1>1, <4>3, <5>1 DEF SlotsConsumed, Consumer
      <4>7. t = chain[i].tx /\ i \in Nat \ {0} /\ C <= N /\ N <= MAX_SLOTS
        BY <1>2, <4>3
      <4> HIDE DEF t, d, cause
      <4> QED BY ONLY <4>1, <4>4, <4>5, <4>6, <4>7, N \in Nat, C \in Nat, RefineCauseAgain
    <3> QED BY <3>1, <3>2
  <2>2. /\ log.event = "Settled" => log.epoch \in DOMAIN settlement
        /\ log.event = "Redeemed" => Row(chain, i) \in redemption
        /\ \/ log.event = "Settled" /\ log.leg > 0
           \/ log.event \in {"Inflow", "Outflow"}
           => Row(chain, i) \in DOMAIN strategicFlow
    <3>1. log.event = "Settled" => i \in Settleds(chain, n)
      BY DEF Settleds
    <3>2. \/ log.event = "Settled" /\ log.leg > 0
          \/ log.event \in {"Inflow", "Outflow"}
          => i \in Flows(chain, n)
      BY DEF Flows
    <3> QED BY <1>1, <1>3, <3>1, <3>2 DEF OthersOK
  <2>3. UNCHANGED rows
    <3>1. CASE HandleSettled(i)
      <4>1. log.event = "Settled" /\ log.leg \in Nat
        BY <1>2, <3>1 DEF HandleSettled, LogOK, ContentOK
      <4>2. settlement' = settlement /\ redemption' = redemption
        BY <2>2, <3>1, <4>1 DEF HandleSettled, Insert
      <4>3. strategicFlow' = strategicFlow
        BY <1>4, <2>2, <3>1, <4>1 DEF HandleSettled, Insert
      <4> QED BY <4>2, <4>3 DEF rows
    <3>2. CASE HandleRedeemed(i)
      <4>1. redemption' = redemption \cup {Row(chain, i)} /\ Row(chain, i) \in redemption
        BY <1>4, <2>2, <3>2 DEF HandleRedeemed
      <4> QED BY <3>2, <4>1 DEF HandleRedeemed, rows
    <3>3. CASE HandleStrategicInflow(i)
      <4>1. Row(chain, i) \in DOMAIN strategicFlow
        BY <2>2, <3>3 DEF HandleStrategicInflow
      <4> QED BY <1>4, <3>3, <4>1 DEF HandleStrategicInflow, Insert, rows
    <3>4. CASE HandleStrategicOutflow(i)
      <4>1. Row(chain, i) \in DOMAIN strategicFlow
        BY <2>2, <3>4 DEF HandleStrategicOutflow
      <4> QED BY <1>4, <3>4, <4>1 DEF HandleStrategicOutflow, Insert, rows
    <3>5. CASE HandleVyrfHarvest(i) \/ HandleVuxRevenueBurned(i)
      BY <3>5 DEF HandleVyrfHarvest, HandleVuxRevenueBurned, tables, rows
    <3> QED BY <1>7, <3>1, <3>2, <3>3, <3>4, <3>5 DEF Handle
  <2> QED BY <2>1, <2>3 DEF tables
<1> QED BY <1>6, <1>7

-----------------------------------------------------------------------------
(***************************************************************************)
(* The chain and the reader move.                                          *)
(***************************************************************************)
\* The last log of a transaction is the same in two chains that begin with its logs.
LEMMA LastKept ==
  ASSUME NEW c, NEW e, Len(c) \in Nat, Len(e) \in Nat, NEW n \in Nat,
         n <= Len(c), n <= Len(e), \A i \in 1..n : e[i] = c[i], NEW v,
         \A i \in 1..Len(c) : i > n => ~(c[i].tx <= v),
         \A i \in 1..Len(e) : i > n => ~(e[i].tx <= v) /\ e[i].tx # v,
         NEW m, IsLast(e, v, m)
  PROVE  IsLast(c, v, m) /\ m \in 1..n
<1>1. m \in 1..Len(e) /\ e[m].tx = v /\ e[m].event # "Weth"
  BY DEF IsLast
<1>2. m \in 1..n /\ m \in 1..Len(c) /\ c[m] = e[m]
  BY <1>1
<1>3. ASSUME NEW i \in 1..Len(c)
      PROVE  c[i].tx <= v <=> i <= m
  <2>1. CASE i <= n
    <3>1. i \in 1..n /\ i \in 1..Len(e)
      BY <2>1
    <3> QED BY <3>1 DEF IsLast
  <2>2. CASE i > n
    BY <1>2, <2>2
  <2> QED BY <2>1, <2>2
<1> QED BY <1>1, <1>2, <1>3 DEF IsLast

LEMMA ChainTypes ==
  ASSUME NEW c, ChainOK(c)
  PROVE  Len(c) \in Nat /\ \A i \in 1..Len(c) : c[i].tx \in Nat
BY DEF ChainOK, LogsOK, LogOK

\* The chain grows.
LEMMA ChainGrows ==
  ASSUME NEW c, NEW x, NEW p, NEW h, NEW S, NEW T, Good(c, x, p, h, S, T),
         NEW e, ChainOK(e), TxOK(e, x), Grown(c, e, x)
  PROVE  Good(e, x, p, h, S, T)
<1>1. /\ Len(c) \in Nat /\ Len(e) \in Nat /\ Len(c) <= Len(e) /\ x \in Nat
      /\ \A i \in 1..Len(c) : e[i] = c[i]
      /\ \A i \in 1..Len(e) : i > Len(c) => e[i].tx = x
      /\ ReaderOK(c, x, p, h) /\ SavedOK(c, x, S, h) /\ TablesOK(c, T, h)
  BY ChainTypes DEF Good, Grown, TxOK
<1>2. p \in Nat /\ h \in Nat /\ p <= h /\ h <= Len(c)
  BY <1>1 DEF ReaderOK
<1>3. ReaderOK(e, x, p, h)
  <2>1. h # 0 => h \in 1..Len(c)
    BY <1>1, <1>2
  <2> QED BY <1>1, <1>2, <2>1 DEF ReaderOK
<1>4. ASSUME NEW n \in Nat, n <= Len(c), NEW U, TablesOK(c, U, n)
      PROVE  TablesOK(e, U, n)
  <2>1. \A i \in 1..n : e[i] = c[i]
    BY <1>1, <1>4
  <2>2. \A i \in (n + 1)..n : e[i].event = "Weth"
    OBVIOUS
  <2>3. TablesOK(c, U, n) /\ n <= n
    BY <1>4
  <2> QED BY ONLY <2>1, <2>2, <2>3, n \in Nat, SameLogs
<1>5. SavedOK(e, x, S, h)
  <2>1. DOMAIN S \subseteq 0..(x - 1)
    BY <1>1 DEF SavedOK
  <2>2. ASSUME NEW t \in 0..(x - 1), NEW m \in 1..Len(e), IsLast(e, t, m)
        PROVE  /\ t \in DOMAIN S <=> m <= h
               /\ m <= h => TablesOK(e, S[t], m)
    <3>1. \A i \in 1..Len(e) : i > Len(c) => ~(e[i].tx <= t) /\ e[i].tx # t
      BY <1>1
    <3>2. \A i \in 1..Len(c) : i > Len(c) => ~(c[i].tx <= t)
      BY <1>1
    <3>3. /\ Len(c) \in Nat /\ Len(e) \in Nat /\ Len(c) <= Len(c) /\ Len(c) <= Len(e)
          /\ \A i \in 1..Len(c) : e[i] = c[i]
      BY <1>1
    <3>4. IsLast(c, t, m) /\ m \in 1..Len(c)
      BY ONLY <2>2, <3>1, <3>2, <3>3, LastKept
    <3>5. /\ t \in DOMAIN S <=> m <= h
          /\ m <= h => TablesOK(c, S[t], m)
      BY <1>1, <3>4 DEF SavedOK
    <3>6. m \in Nat /\ m <= Len(c)
      BY <1>1, <3>4
    <3> QED BY <1>4, <3>5, <3>6
  <2> QED BY <2>1, <2>2 DEF SavedOK
<1>6. TablesOK(e, T, h)
  BY <1>1, <1>2, <1>4
<1> QED BY <1>3, <1>5, <1>6 DEF Good

\* A transaction ends.
LEMMA TransactionEnds ==
  ASSUME NEW c, NEW x, NEW p, NEW h, NEW S, NEW T, Good(c, x, p, h, S, T),
         c[Len(c)].tx = x
  PROVE  Good(c, x + 1, p, h, S, T)
<1>1. /\ Len(c) \in Nat /\ Len(c) > 0 /\ x \in Nat /\ x >= 2
      /\ ChainOK(c) /\ ReaderOK(c, x, p, h) /\ SavedOK(c, x, S, h) /\ TablesOK(c, T, h)
      /\ \A i \in 1..Len(c) : c[i].tx \in Nat /\ c[i].tx <= x
      /\ Len(c) \in 1..Len(c)
  BY ChainTypes DEF Good, TxOK
<1>2. TxOK(c, x + 1)
  <2>1. ASSUME NEW u \in 0..((x + 1) - 1) PROVE \E i \in 1..Len(c) : c[i].tx = u
    <3>1. u = x \/ u \in 0..(x - 1)
      BY <1>1
    <3> QED BY <1>1, <3>1 DEF Good, TxOK
  <2> QED BY <1>1, <2>1 DEF TxOK
<1>3. ReaderOK(c, x + 1, p, h)
  <2>1. h # 0 => h \in 1..Len(c)
    BY <1>1 DEF ReaderOK
  <2> QED BY <1>1, <2>1 DEF ReaderOK
<1>4. SavedOK(c, x + 1, S, h)
  <2>1. DOMAIN S \subseteq 0..(x - 1)
    BY <1>1 DEF SavedOK
  <2>2. \A t : t \in 0..((x + 1) - 1) <=> t = x \/ t \in 0..(x - 1)
    BY <1>1
  <2>3. ASSUME NEW m \in 1..Len(c), IsLast(c, x, m)
        PROVE  x \notin DOMAIN S /\ ~(m <= h)
    <3>1. Len(c) <= m
      BY <1>1, <2>3 DEF IsLast
    <3>2. h < Len(c)
      BY <1>1 DEF ReaderOK
    <3>3. h \in Nat
      BY <1>1 DEF ReaderOK
    <3> QED BY <1>1, <2>1, <3>1, <3>2, <3>3
  <2> QED BY <1>1, <2>1, <2>2, <2>3 DEF SavedOK
<1> QED BY <1>1, <1>2, <1>3, <1>4 DEF Good

Until(S, t) == [u \in {v \in DOMAIN S : v <= t} |-> S[u]]

\* The tables go back to the end of a transaction, in the same chain or in one that
\* ends with it.
LEMMA GoesBack ==
  ASSUME NEW c, NEW x, NEW p, NEW h, NEW S, NEW T, Good(c, x, p, h, S, T),
         NEW t \in 0..(x - 1), NEW m, IsLast(c, t, m), m <= h
  PROVE  Good(c, x, m, m, Until(S, t), S[t])
<1>1. /\ Len(c) \in Nat /\ m \in 1..Len(c) /\ x \in Nat /\ h \in Nat
      /\ ChainOK(c) /\ TxOK(c, x) /\ SavedOK(c, x, S, h)
      /\ c[m].tx = t /\ c[m].event # "Weth"
      /\ \A i \in 1..Len(c) : c[i].tx <= t <=> i <= m
  BY ChainTypes DEF Good, TxOK, ReaderOK, IsLast
<1>2. /\ DOMAIN S \subseteq 0..(x - 1) /\ t \in DOMAIN S /\ TablesOK(c, S[t], m)
  BY <1>1 DEF SavedOK
<1>3. ReaderOK(c, x, m, m)
  BY <1>1 DEF ReaderOK
<1>4. DOMAIN Until(S, t) = {v \in DOMAIN S : v <= t}
      /\ \A u \in DOMAIN Until(S, t) : Until(S, t)[u] = S[u]
  BY DEF Until
<1>5. ASSUME NEW u \in 0..(x - 1), NEW k \in 1..Len(c), IsLast(c, u, k)
      PROVE  /\ u \in DOMAIN Until(S, t) <=> k <= m
             /\ k <= m => TablesOK(c, Until(S, t)[u], k)
  <2>1. /\ u \in DOMAIN S <=> k <= h
        /\ k <= h => TablesOK(c, S[u], k)
    BY <1>1, <1>5 DEF SavedOK
  <2>2. u <= t <=> k <= m
    BY <1>1, <1>5 DEF IsLast
  <2>3. k <= m => k <= h
    BY <1>1
  <2> QED BY <1>4, <2>1, <2>2, <2>3
<1>6. SavedOK(c, x, Until(S, t), m)
  BY <1>2, <1>4, <1>5 DEF SavedOK
<1> QED BY <1>1, <1>2, <1>3, <1>6 DEF Good

\* The chain loses the transactions after u, of which the tables account for none.
LEMMA ChainShrinks ==
  ASSUME NEW c, NEW x, NEW p, NEW h, NEW S, NEW T, Good(c, x, p, h, S, T),
         NEW u \in Nat, u >= 1, u < x, NEW m, IsLast(c, u, m), h <= m,
         DOMAIN S \subseteq 0..u
  PROVE  Good(SubSeq(c, 1, m), u + 1, p, h, S, T)
<1> DEFINE e == SubSeq(c, 1, m)
<1>1. /\ Len(c) \in Nat /\ m \in 1..Len(c) /\ x \in Nat /\ h \in Nat /\ p \in Nat /\ p <= h
      /\ ChainOK(c) /\ TxOK(c, x) /\ SavedOK(c, x, S, h) /\ TablesOK(c, T, h)
      /\ h = 0 \/ (c[h].event # "Weth" /\ c[h].tx < x)
      /\ \A i \in 1..Len(c) : c[i].tx \in Nat /\ (c[i].tx <= u <=> i <= m)
  BY ChainTypes DEF Good, TxOK, ReaderOK, IsLast
<1>2. ChainOK(e) /\ TxOK(e, u + 1) /\ Len(e) = m /\ \A i \in 1..m : e[i] = c[i]
  BY <1>1, TransactionsDropped
<1> HIDE DEF e
<1>3. ReaderOK(e, u + 1, p, h)
  <2>1. h # 0 => h \in 1..Len(c) /\ h \in 1..m
    BY <1>1
  <2> QED BY <1>1, <1>2, <2>1 DEF ReaderOK
<1>4. ASSUME NEW n \in Nat, n <= m, NEW U, TablesOK(c, U, n)
      PROVE  TablesOK(e, U, n)
  <2>1. \A i \in 1..n : e[i] = c[i]
    BY <1>1, <1>2, <1>4
  <2>2. \A i \in (n + 1)..n : e[i].event = "Weth"
    OBVIOUS
  <2>3. TablesOK(c, U, n) /\ n <= n
    BY <1>4
  <2> QED BY ONLY <2>1, <2>2, <2>3, n \in Nat, SameLogs
<1>5. SavedOK(e, u + 1, S, h)
  <2>1. ASSUME NEW t \in 0..((u + 1) - 1), NEW k \in 1..Len(e), IsLast(e, t, k)
        PROVE  /\ t \in DOMAIN S <=> k <= h
               /\ k <= h => TablesOK(e, S[t], k)
    <3>1. \A i \in 1..Len(c) : i > m => ~(c[i].tx <= t)
      BY <1>1
    <3>2. \A i \in 1..Len(e) : i > m => ~(e[i].tx <= t) /\ e[i].tx # t
      BY <1>1, <1>2
    <3>3. /\ Len(c) \in Nat /\ Len(e) \in Nat /\ m <= Len(c) /\ m <= Len(e) /\ m \in Nat
          /\ \A i \in 1..m : e[i] = c[i]
      BY <1>1, <1>2
    <3>4. IsLast(c, t, k) /\ k \in 1..m
      BY ONLY <2>1, <3>1, <3>2, <3>3, LastKept
    <3>5. k \in 1..Len(c) /\ t \in 0..(x - 1) /\ k \in Nat /\ k <= m
      BY <1>1, <3>4
    <3>6. /\ t \in DOMAIN S <=> k <= h
          /\ k <= h => TablesOK(c, S[t], k)
      BY <1>1, <3>4, <3>5 DEF SavedOK
    <3> QED BY <1>4, <3>5, <3>6
  <2> QED BY <2>1 DEF SavedOK
<1>6. TablesOK(e, T, h)
  BY <1>1, <1>4
<1> QED BY <1>2, <1>3, <1>5, <1>6 DEF Good, e

\* A log in its place.
Stands(x, log, t, op) ==
  /\ x.tx = t /\ x.op = op /\ x.event = log.event /\ x.epoch = log.epoch
  /\ x.truth = log.truth
  /\ ContentOK(x) <=> ContentOK(log)
  /\ IsClaim(x) <=> IsClaim(log)

LEMMA PlacedLogs ==
  ASSUME NEW logs, Len(logs) \in Nat, NEW t, NEW op,
         \A i \in 1..Len(logs) : DOMAIN logs[i] = Fields
  PROVE  /\ Len(Placed(logs, t, op)) = Len(logs)
         /\ \A i \in 1..Len(logs) : Stands(Placed(logs, t, op)[i], logs[i], t, op)
         /\ \E R : Placed(logs, t, op) \in Seq(R)
<1> DEFINE p == Placed(logs, t, op)
<1>1. /\ Len(p) = Len(logs)
      /\ \A i \in 1..Len(logs) : p[i] = [logs[i] EXCEPT !.tx = t, !.op = op]
      /\ p = [i \in 1..Len(logs) |-> p[i]]
  BY DEF Placed
<1> DEFINE S == {p[i] : i \in 1..Len(logs)}
<1> HIDE DEF p
<1>2. p \in [1..Len(logs) -> S]
  BY <1>1
<1>3. p \in Seq(S)
  BY <1>2, SeqDef
<1>4. ASSUME NEW i \in 1..Len(logs)
      PROVE  Stands(p[i], logs[i], t, op)
  <2> DEFINE l == logs[i]
             x == [l EXCEPT !.tx = t, !.op = op]
  <2>1. /\ x.tx = t /\ x.op = op /\ x.event = l.event /\ x.amount = l.amount
        /\ x.leg = l.leg /\ x.epoch = l.epoch /\ x.class = l.class /\ x.truth = l.truth
    BY PlacedLog
  <2>2. p[i] = x
    BY <1>1
  <2> HIDE DEF x, l
  <2>3. (ContentOK(x) <=> ContentOK(l)) /\ (IsClaim(x) <=> IsClaim(l))
    BY <2>1, SameContent
  <2>4. Stands(x, l, t, op)
    BY <2>1, <2>3 DEF Stands
  <2> QED BY <2>2, <2>4 DEF l
<1> QED BY <1>1, <1>3, <1>4 DEF p

\* The chain that Init starts with.
LEMMA InitialLogs ==
  ASSUME Init
  PROVE  /\ Len(chain) = 3 /\ (\E R : chain \in Seq(R))
         /\ \A i \in 1..3 : ContentOK(chain[i]) /\ ~IsClaim(chain[i]) /\ chain[i].op = 0
         /\ chain[1].tx = 0 /\ chain[2].tx = 1 /\ chain[3].tx = 1
         /\ chain[1].event = "Mint" /\ chain[1].truth = "genesis"
         /\ chain[2].event = "Weth" /\ chain[3].event = "Settled" /\ chain[3].epoch = 1
<1> DEFINE m == SupplyLog("Mint", GenesisSupply, "genesis")
           w == WethLog(1)
           s == SettledLog(0, 0, 1)
           a == Placed(<<m>>, 0, 0)
           b == Placed(<<w, s>>, 1, 0)
<1>1. /\ Shape(m, "Mint", GenesisSupply) /\ m.truth = "genesis"
      /\ Shape(w, "Weth", 1)
      /\ Shape(s, "Settled", 0) /\ s.leg = 0 /\ s.epoch = 1
  BY LogShapes
<1> HIDE DEF m, w, s
<1>2. /\ ContentOK(m) /\ ~IsClaim(m)
      /\ ContentOK(w) /\ ~IsClaim(w)
      /\ ContentOK(s) /\ ~IsClaim(s)
  <2>1. GenesisSupply \in Nat /\ GenesisSupply > 0
    BY IndexerAssumption
  <2>2. ContentOK(m) /\ ~IsClaim(m)
    BY <1>1, <2>1, ContentOfLogs
  <2>3. ContentOK(w) /\ ~IsClaim(w)
    BY <1>1, ContentOfLogs
  <2>4. ContentOK(s) /\ ~IsClaim(s)
    <3>1. Shape(s, "Settled", 0) /\ 0 \in Nat /\ s.leg \in Nat /\ ~(0 > 0)
      BY <1>1
    <3> QED BY <3>1, ContentOfLogs
  <2> QED BY <2>2, <2>3, <2>4
<1>3. Len(a) = 1 /\ Stands(a[1], m, 0, 0) /\ \E R : a \in Seq(R)
  <2> DEFINE logs == <<m>>
  <2>1. Len(logs) = 1 /\ logs[1] = m /\ \A i \in 1..1 : i = 1
    OBVIOUS
  <2>2. a = Placed(logs, 0, 0) /\ DOMAIN m = Fields
    BY <1>1 DEF Shape
  <2> HIDE DEF logs, a
  <2>3. Len(logs) \in Nat /\ \A i \in 1..Len(logs) : DOMAIN logs[i] = Fields
    BY ONLY <2>1, <2>2
  <2>4. /\ Len(Placed(logs, 0, 0)) = Len(logs)
        /\ \A i \in 1..Len(logs) : Stands(Placed(logs, 0, 0)[i], logs[i], 0, 0)
        /\ \E R : Placed(logs, 0, 0) \in Seq(R)
    BY ONLY <2>3, PlacedLogs
  <2>5. 1 \in 1..Len(logs)
    BY ONLY <2>1
  <2>6. Stands(a[1], logs[1], 0, 0)
    BY ONLY <2>2, <2>4, <2>5
  <2> QED BY ONLY <2>1, <2>2, <2>4, <2>6
<1>4. /\ Len(b) = 2 /\ Stands(b[1], w, 1, 0) /\ Stands(b[2], s, 1, 0)
      /\ \E R : b \in Seq(R)
  <2> DEFINE logs == <<w, s>>
  <2>1. /\ Len(logs) = 2 /\ logs[1] = w /\ logs[2] = s
        /\ \A i \in 1..2 : i = 1 \/ i = 2
    OBVIOUS
  <2>2. b = Placed(logs, 1, 0) /\ DOMAIN w = Fields /\ DOMAIN s = Fields
    BY <1>1 DEF Shape
  <2> HIDE DEF logs, b
  <2>3. Len(logs) \in Nat /\ \A i \in 1..Len(logs) : DOMAIN logs[i] = Fields
    BY ONLY <2>1, <2>2
  <2>4. /\ Len(Placed(logs, 1, 0)) = Len(logs)
        /\ \A i \in 1..Len(logs) : Stands(Placed(logs, 1, 0)[i], logs[i], 1, 0)
        /\ \E R : Placed(logs, 1, 0) \in Seq(R)
    BY ONLY <2>3, PlacedLogs
  <2>5. 1 \in 1..Len(logs) /\ 2 \in 1..Len(logs)
    BY ONLY <2>1
  <2>6. Stands(b[1], logs[1], 1, 0) /\ Stands(b[2], logs[2], 1, 0)
    BY ONLY <2>2, <2>4, <2>5
  <2> QED BY ONLY <2>1, <2>2, <2>4, <2>6
<1>5. chain = a \o b
  BY DEF Init, m, w, s
<1> HIDE DEF a, b
<1>6. PICK R : a \in Seq(R) /\ b \in Seq(R)
  <2>1. PICK Q : a \in Seq(Q)
    BY <1>3
  <2>2. PICK S : b \in Seq(S)
    BY <1>4
  <2>3. a \in Seq(Q \cup S) /\ b \in Seq(Q \cup S)
    BY <2>1, <2>2
  <2> QED BY <2>3
<1>7. /\ a \o b \in Seq(R) /\ Len(a \o b) = Len(a) + Len(b)
      /\ \A i \in 1..Len(a) : (a \o b)[i] = a[i]
      /\ \A i \in 1..Len(b) : (a \o b)[Len(a) + i] = b[i]
  BY <1>6, Concatenation
<1>8. /\ chain \in Seq(R) /\ Len(chain) = 3
      /\ chain[1] = a[1] /\ chain[2] = b[1] /\ chain[3] = b[2]
  BY <1>3, <1>4, <1>5, <1>7
<1>9. \A i \in 1..3 : i = 1 \/ i = 2 \/ i = 3
  OBVIOUS
<1>10. /\ m.event = "Mint" /\ w.event = "Weth" /\ s.event = "Settled"
  BY <1>1 DEF Shape
<1> QED BY <1>1, <1>2, <1>3, <1>4, <1>8, <1>9, <1>10 DEF Stands

\* No log, no row.
LEMMA NoTables ==
  ASSUME NEW c, NEW T,
         DOMAIN T.supplyChange = {}, DOMAIN T.pairs = {}, DOMAIN T.settlement = {},
         DOMAIN T.strategicFlow = {}
  PROVE  TablesOK(c, T, 0)
<1>1. /\ Supplies(c, 0) = {} /\ Settleds(c, 0) = {} /\ Flows(c, 0) = {}
      /\ \A t, d : Changes(c, 0, t, d) = {} /\ Claims(c, 0, t, d) = {}
  BY DEF Supplies, Settleds, Flows, Changes, Claims
<1>2. ChangesOK(c, T, 0) /\ OthersOK(c, T, 0)
  BY <1>1 DEF ChangesOK, OthersOK
<1>3. ASSUME NEW t \in Nat, NEW d \in Int
      PROVE  Paired(c, T, 0, t, d, 0, 0)
  <2>1. MAX_SLOTS \in Nat
    BY IndexerAssumption
  <2>2. SlotsStand(c, T, 0, t, d, 0)
    BY <1>1, <2>1 DEF SlotsStand
  <2>3. SlotsConsumed(c, T, 0, t, d, 0, 0)
    BY <1>1 DEF SlotsConsumed
  <2>4. CausesFollow(c, T, 0, t, d, 0)
    BY <1>1 DEF CausesFollow
  <2> QED BY <2>1, <2>2, <2>3, <2>4 DEF Paired
<1>4. PairsOK(c, T, 0)
  <2>1. 0 \in Nat
    OBVIOUS
  <2> QED BY ONLY <1>3, <2>1 DEF PairsOK
<1> QED BY <1>2, <1>4 DEF TablesOK

LEMMA InitGood ==
  ASSUME Init
  PROVE  IInv
<1> DEFINE c == chain
<1>1. /\ Len(c) = 3 /\ (\E R : c \in Seq(R))
      /\ \A i \in 1..3 : ContentOK(c[i]) /\ ~IsClaim(c[i]) /\ c[i].op = 0
      /\ c[1].tx = 0 /\ c[2].tx = 1 /\ c[3].tx = 1
      /\ c[1].event = "Mint" /\ c[1].truth = "genesis"
      /\ c[2].event = "Weth" /\ c[3].event = "Settled" /\ c[3].epoch = 1
  BY InitialLogs
<1>2. \A i \in 1..Len(c) : i = 1 \/ i = 2 \/ i = 3
  BY <1>1
<1> HIDE DEF c
<1>3. LogsOK(c) /\ Sorted(c) /\ Followed(c)
  <2>1. LogsOK(c)
    BY <1>1, <1>2 DEF LogsOK, LogOK
  <2>2. Sorted(c)
    <3> SUFFICES ASSUME NEW i \in 1..Len(c), NEW j \in 1..Len(c), i <= j
                 PROVE  c[i].tx <= c[j].tx /\ c[i].op <= c[j].op
      BY DEF Sorted
    <3>1. i \in 1..3 /\ j \in 1..3
      BY <1>1
    <3>2. c[i].tx <= c[j].tx
      <4>1. CASE i = 1
        BY <1>1, <1>2, <4>1
      <4>2. CASE i = 2 \/ i = 3
        BY <1>1, <1>2, <3>1, <4>2
      <4> QED BY <1>2, <4>1, <4>2
    <3> QED BY <1>1, <3>1, <3>2
  <2>3. Followed(c)
    <3> SUFFICES ASSUME NEW i \in 1..Len(c), c[i].event = "Weth"
                 PROVE  i < Len(c) /\ c[i + 1].tx = c[i].tx
      BY DEF Followed
    <3>1. i = 2
      BY <1>1, <1>2
    <3> QED BY <1>1, <3>1
  <2> QED BY <2>1, <2>2, <2>3
<1>4. OncePerOperation(c) /\ ClaimsHaveChanges(c) /\ ChangesHaveClaims(c)
  <2>1. \A i \in 1..Len(c) : ~IsClaim(c[i]) /\ (IsSupply(c[i]) => i = 1)
    BY <1>1, <1>2 DEF IsSupply, SupplyEvents
  <2>2. "genesis" \notin ClaimCauses
    BY DEF ClaimCauses
  <2> QED BY <1>1, <2>1, <2>2 DEF OncePerOperation, ClaimsHaveChanges, ChangesHaveClaims
<1>5. EpochsCount(c)
  <2> SUFFICES ASSUME NEW i \in 1..Len(c), c[i].event = "Settled"
               PROVE  c[i].epoch = Cardinality(Settleds(c, i))
    BY DEF EpochsCount
  <2>1. i = 3
    BY <1>1, <1>2
  <2>2. Settleds(c, 3) = {3}
    BY <1>1, <1>2 DEF Settleds
  <2> QED BY <1>1, <2>1, <2>2, FS_Singleton
<1>6. TxOK(c, 2)
  <2>1. \A u \in 0..(2 - 1) : \E i \in 1..Len(c) : c[i].tx = u
    <3> SUFFICES ASSUME NEW u \in 0..1 PROVE \E i \in 1..Len(c) : c[i].tx = u
      OBVIOUS
    <3>1. u = 0 \/ u = 1
      OBVIOUS
    <3>2. 1 \in 1..Len(c) /\ 3 \in 1..Len(c)
      BY <1>1
    <3> QED BY <1>1, <3>1, <3>2
  <2>2. \A i \in 1..Len(c) : c[i].tx <= 2
    BY <1>1, <1>2
  <2> QED BY <1>1, <2>1, <2>2 DEF TxOK
<1>7. /\ tx = 2 /\ pos = 0 /\ highWater = 0 /\ DOMAIN saved = {}
      /\ DOMAIN supplyChange = {} /\ DOMAIN pairs = {} /\ DOMAIN settlement = {}
      /\ DOMAIN strategicFlow = {}
  <2>1. DOMAIN <<>> = {}
    OBVIOUS
  <2> QED BY <2>1 DEF Init
<1>8. ReaderOK(c, tx, pos, highWater)
  BY <1>1, <1>7 DEF ReaderOK
<1>9. SavedOK(c, tx, saved, highWater)
  <2> SUFFICES ASSUME NEW t \in 0..(tx - 1), NEW m \in 1..Len(c)
               PROVE  ~(t \in DOMAIN saved) /\ ~(m <= highWater)
    BY <1>7 DEF SavedOK
  <2> QED BY <1>7
<1>10. TablesOK(c, Tables, highWater)
  <2>1. TablesOK(c, Tables, 0)
    <3>1. /\ DOMAIN Tables.supplyChange = {} /\ DOMAIN Tables.pairs = {}
          /\ DOMAIN Tables.settlement = {} /\ DOMAIN Tables.strategicFlow = {}
      BY <1>7, TablesAreTheVariables
    <3> QED BY ONLY <3>1, NoTables
  <2> QED BY <1>7, <2>1
<1> QED
  BY <1>3, <1>4, <1>5, <1>6, <1>7, <1>8, <1>9, <1>10 DEF IInv, Good, ChainOK, c

\* Of tables that are the same field by field the same is said.
LEMMA TablesByField ==
  ASSUME NEW c, NEW T, NEW U, NEW n, TablesOK(c, T, n),
         U.supplyChange = T.supplyChange, U.pairs = T.pairs,
         U.settlement = T.settlement, U.redemption = T.redemption,
         U.strategicFlow = T.strategicFlow
  PROVE  TablesOK(c, U, n)
<1>1. ChangesOK(c, U, n)
  BY DEF TablesOK, ChangesOK
<1>2. OthersOK(c, U, n)
  BY DEF TablesOK, OthersOK
<1>3. \A t, d, k : Change(U, t, d, k) = Change(T, t, d, k)
                   /\ Consumer(U, t, d, k) = Consumer(T, t, d, k)
  BY DEF Change, Consumer
<1>4. ASSUME NEW t, NEW d, NEW N, NEW C, Paired(c, T, n, t, d, N, C)
      PROVE  Paired(c, U, n, t, d, N, C)
  <2>1. SlotsStand(c, U, n, t, d, N)
    BY <1>3, <1>4 DEF Paired, SlotsStand
  <2>2. SlotsConsumed(c, U, n, t, d, N, C)
    BY <1>3, <1>4 DEF Paired, SlotsConsumed
  <2>3. CausesFollow(c, U, n, t, d, C)
    BY <1>3, <1>4 DEF Paired, CausesFollow
  <2> QED BY <1>4, <2>1, <2>2, <2>3 DEF Paired
<1>5. PairsOK(c, U, n)
  BY <1>4 DEF TablesOK, PairsOK
<1> QED BY <1>1, <1>2, <1>5 DEF TablesOK

LEMMA TablesStay ==
  ASSUME UNCHANGED tables
  PROVE  Tables' = Tables
BY DEF Tables, tables, rows

-----------------------------------------------------------------------------
(***************************************************************************)
(* The steps.                                                              *)
(***************************************************************************)
LEMMA OperateStep ==
  ASSUME IInv, Operate
  PROVE  IInv'
<1> DEFINE L == Len(chain)
<1>1. PICK logs : Operation(logs, EpochId + 1) /\ Emit(logs)
  BY OperateEmits
<1>2. EpochId = Cardinality(Settleds(chain, L))
  BY DEF EpochId, Settleds
<1>3. ChainOK(chain) /\ TxOK(chain, tx)
  BY DEF IInv, Good
<1> DEFINE e == chain \o Placed(logs, tx, chain[L].op + 1)
<1>4. /\ chain' = e /\ tx' = tx /\ pos' = pos /\ highWater' = highWater
      /\ saved' = saved /\ UNCHANGED tables
  BY <1>1 DEF Emit, operations, reader
<1>5. Operation(logs, Cardinality(Settleds(chain, Len(chain))) + 1)
  BY <1>1, <1>2
<1>6. ChainOK(e) /\ TxOK(e, tx) /\ Grown(chain, e, tx)
  BY ONLY <1>3, <1>5, OperationAppended
<1> HIDE DEF e
<1>7. Good(chain, tx, pos, highWater, saved, Tables)
  BY DEF IInv
<1>8. Good(e, tx, pos, highWater, saved, Tables)
  BY ONLY <1>6, <1>7, ChainGrows
<1> QED BY <1>4, <1>8, TablesStay DEF IInv

LEMMA EndTransactionStep ==
  ASSUME IInv, EndTransaction
  PROVE  IInv'
<1>1. Good(chain, tx, pos, highWater, saved, Tables) /\ chain[Len(chain)].tx = tx
  BY DEF IInv, EndTransaction
<1>2. Good(chain, tx + 1, pos, highWater, saved, Tables)
  BY <1>1, TransactionEnds
<1> QED BY <1>2, TablesStay DEF EndTransaction, reader, IInv

LEMMA ResyncStep ==
  ASSUME IInv, NEW from \in 0..(pos - 1), Resync(from)
  PROVE  IInv'
<1>1. ReaderOK(chain, tx, pos, highWater)
  BY DEF IInv, Good
<1>2. ReaderOK(chain, tx, from, highWater)
  BY <1>1 DEF ReaderOK
<1> QED BY <1>2, TablesStay DEF Resync, onChain, IInv, Good

\* What is put back is what was saved.
LEMMA ResumedTables ==
  ASSUME NEW t, ResumeAfter(t), NEW c, NEW x, NEW p, NEW h, NEW S,
         Good(c, x, p, h, S, saved[t])
  PROVE  Good(c, x, p, h, S, Tables')
<1>1. /\ Tables'.supplyChange = saved[t].supplyChange /\ Tables'.pairs = saved[t].pairs
      /\ Tables'.settlement = saved[t].settlement
      /\ Tables'.redemption = saved[t].redemption
      /\ Tables'.strategicFlow = saved[t].strategicFlow
  BY TablesThen DEF ResumeAfter, PutBack
<1>2. TablesOK(c, saved[t], h)
  BY DEF Good
<1>3. TablesOK(c, Tables', h)
  BY ONLY <1>1, <1>2, TablesByField
<1> QED BY <1>3 DEF Good

\* Transactions before the one under way have a last log.
LEMMA LastOfEach ==
  ASSUME IInv, NEW t \in 0..(tx - 1)
  PROVE  IsLast(chain, t, LastOf(t)) /\ LastOf(t) \in 1..Len(chain)
<1>1. ChainOK(chain) /\ \E i \in 1..Len(chain) : chain[i].tx = t
  BY DEF IInv, Good, TxOK
<1>2. IsLast(chain, t, LastOf(t))
  BY <1>1, LastLog
<1> QED BY <1>2 DEF IsLast

LEMMA CrashStep ==
  ASSUME IInv, NEW t \in DOMAIN saved, Crash(t)
  PROVE  IInv'
<1>1. t \in 0..(tx - 1) /\ SavedOK(chain, tx, saved, highWater)
  BY DEF IInv, Good, SavedOK
<1>2. IsLast(chain, t, LastOf(t)) /\ LastOf(t) \in 1..Len(chain)
  BY <1>1, LastOfEach
<1>3. LastOf(t) <= highWater
  BY <1>1, <1>2 DEF SavedOK
<1>4. Good(chain, tx, LastOf(t), LastOf(t), Until(saved, t), saved[t])
  BY <1>1, <1>2, <1>3, GoesBack DEF IInv
<1>5. /\ chain' = chain /\ tx' = tx /\ pos' = LastOf(t) /\ highWater' = LastOf(t)
      /\ saved' = Until(saved, t) /\ ResumeAfter(t)
  BY DEF Crash, ResumeAfter, onChain, Until
<1>6. Good(chain, tx, LastOf(t), LastOf(t), Until(saved, t), Tables')
  BY <1>4, <1>5, ResumedTables
<1> QED BY <1>5, <1>6 DEF IInv

LEMMA ReorgStep ==
  ASSUME IInv, NEW t \in 2..(tx - 1), Reorg(t)
  PROVE  IInv'
<1> DEFINE u == t - 1
           m == LastOf(u)
           kept == SubSeq(chain, 1, m)
<1>1. /\ tx \in Nat /\ u \in 0..(tx - 1) /\ u \in Nat /\ u >= 1 /\ u < tx /\ u + 1 = t
      /\ Good(chain, tx, pos, highWater, saved, Tables)
      /\ ChainOK(chain) /\ TxOK(chain, tx) /\ SavedOK(chain, tx, saved, highWater)
      /\ highWater \in Nat
  <2>1. /\ Good(chain, tx, pos, highWater, saved, Tables)
        /\ ChainOK(chain) /\ TxOK(chain, tx) /\ SavedOK(chain, tx, saved, highWater)
        /\ tx \in Nat /\ highWater \in Nat
    BY DEF IInv, Good, TxOK, ReaderOK
  <2>2. u \in 0..(tx - 1) /\ u \in Nat /\ u >= 1 /\ u < tx /\ u + 1 = t
    BY <2>1
  <2> QED BY <2>1, <2>2
<1>2. IsLast(chain, u, m) /\ m \in 1..Len(chain) /\ Len(chain) \in Nat
  BY <1>1, LastOfEach, ChainTypes
<1>3. Len(kept) = m
  BY <1>1, <1>2, TransactionsDropped
<1>4. chain' = kept /\ tx' = u + 1
  BY <1>1 DEF Reorg
<1>5. CASE highWater > Len(kept)
  <2>1. ResumeAfter(u)
    BY <1>5 DEF Reorg
  <2>2. pos' = m /\ highWater' = m /\ saved' = Until(saved, u)
    BY <2>1 DEF ResumeAfter, Until
  <2>3. m <= highWater
    BY <1>1, <1>2, <1>3, <1>5
  <2> HIDE DEF u, m
  <2>4. Good(chain, tx, m, m, Until(saved, u), saved[u])
    BY ONLY <1>1, <1>2, <2>3, GoesBack
  <2>5. DOMAIN Until(saved, u) \subseteq 0..u
    BY <1>1 DEF Until, SavedOK
  <2>6. m <= m
    BY <1>2
  <2>7. Good(kept, u + 1, m, m, Until(saved, u), saved[u])
    BY ONLY <1>1, <1>2, <2>4, <2>5, <2>6, ChainShrinks
  <2> HIDE DEF kept
  <2>8. Good(kept, u + 1, m, m, Until(saved, u), Tables')
    BY ONLY <2>1, <2>7, ResumedTables
  <2> QED BY <1>4, <2>2, <2>8 DEF IInv
<1>6. CASE ~(highWater > Len(kept))
  <2>1. /\ pos' = pos /\ highWater' = highWater /\ saved' = saved
        /\ UNCHANGED tables
    BY <1>6 DEF Reorg
  <2>2. highWater <= m
    BY <1>1, <1>2, <1>3, <1>6
  <2>3. DOMAIN saved \subseteq 0..u
    <3> SUFFICES ASSUME NEW v \in DOMAIN saved PROVE v \in 0..u
      OBVIOUS
    <3>1. v \in 0..(tx - 1)
      BY <1>1 DEF SavedOK
    <3>2. IsLast(chain, v, LastOf(v)) /\ LastOf(v) \in 1..Len(chain)
      BY <3>1, LastOfEach
    <3>3. LastOf(v) <= highWater
      BY <1>1, <3>1, <3>2 DEF SavedOK
    <3>4. LastOf(v) <= m
      BY <1>1, <1>2, <2>2, <3>2, <3>3
    <3>5. chain[LastOf(v)].tx = v /\ chain[LastOf(v)].tx <= u
      BY <1>2, <3>2, <3>4 DEF IsLast
    <3> QED BY <1>1, <3>1, <3>5
  <2> HIDE DEF u, m
  <2>4. Good(kept, u + 1, pos, highWater, saved, Tables)
    BY ONLY <1>1, <1>2, <2>2, <2>3, ChainShrinks
  <2> QED BY <1>4, <2>1, <2>4, TablesStay DEF IInv
<1> QED BY <1>5, <1>6

\* The next log to handle is one of the protocol in a complete transaction; what was
\* passed over since is neither.
LEMMA NextIs ==
  ASSUME IInv, NEW i \in NextLog
  PROVE  /\ i \in 1..Len(chain) /\ pos < i /\ chain[i].event # "Weth" /\ chain[i].tx < tx
         /\ \A j \in (pos + 1)..(i - 1) : chain[j].event = "Weth"
<1> DEFINE ahead == {j \in (pos + 1)..Len(chain) : chain[j].event # "Weth" /\ chain[j].tx < tx}
<1>1. /\ Len(chain) \in Nat /\ pos \in Nat /\ tx \in Nat
      /\ \A j \in 1..Len(chain) : chain[j].tx \in Nat
      /\ Sorted(chain)
  BY ChainTypes DEF IInv, Good, ChainOK, ReaderOK, TxOK
<1>2. ahead # {} /\ i = Min(ahead)
  BY DEF NextLog
<1>3. ahead \in SUBSET (0..Len(chain))
  BY <1>1
<1>4. i \in ahead /\ \A j \in ahead : i <= j
  <2> HIDE DEF ahead
  <2> QED BY <1>1, <1>2, <1>3, MinIsLeast
<1>5. i \in 1..Len(chain) /\ pos < i /\ chain[i].event # "Weth" /\ chain[i].tx < tx
  BY <1>1, <1>4
<1>6. ASSUME NEW j \in (pos + 1)..(i - 1)
      PROVE  chain[j].event = "Weth"
  <2>1. j \in 1..Len(chain) /\ j \in (pos + 1)..Len(chain) /\ j <= i /\ ~(i <= j)
    BY <1>1, <1>5
  <2>2. chain[j].tx <= chain[i].tx
    BY <1>1, <1>5, <2>1 DEF Sorted
  <2>3. chain[j].tx < tx
    BY <1>1, <1>5, <2>1, <2>2
  <2> QED BY <1>4, <2>1, <2>3
<1> QED BY <1>5, <1>6

\* A transaction is put in the tables that were saved when its last log is handled.
LEMMA AdvanceSaves ==
  ASSUME NEW c, NEW x, NEW h, NEW S, NEW T, SavedOK(c, x, S, h),
         ChainOK(c), h \in Nat, NEW i \in 1..Len(c), h < i, c[i].tx \in 0..(x - 1),
         \A j \in (h + 1)..(i - 1) : c[j].event = "Weth", TablesOK(c, T, i),
         c[i].event # "Weth",
         NEW Z, Z = IF \A j \in (i + 1)..Len(c) : c[j].tx # c[i].tx
                    THEN With(S, c[i].tx, T) ELSE S
  PROVE  SavedOK(c, x, Z, i)
<1>1. /\ Len(c) \in Nat /\ i \in Nat /\ \A j \in 1..Len(c) : c[j].tx \in Nat
      /\ Sorted(c) /\ DOMAIN S \subseteq 0..(x - 1)
  BY ChainTypes DEF ChainOK, SavedOK
<1> DEFINE t == c[i].tx
<1>2. IsLast(c, t, i) <=> \A j \in (i + 1)..Len(c) : c[j].tx # t
  <2>1. ASSUME IsLast(c, t, i), NEW j \in (i + 1)..Len(c) PROVE c[j].tx # t
    BY <1>1, <2>1 DEF IsLast
  <2>2. ASSUME \A j \in (i + 1)..Len(c) : c[j].tx # t, NEW j \in 1..Len(c)
        PROVE  c[j].tx <= t <=> j <= i
    <3>1. CASE j <= i
      BY <1>1, <3>1 DEF Sorted
    <3>2. CASE j > i
      <4>1. t <= c[j].tx /\ c[j].tx # t
        BY <1>1, <2>2, <3>2 DEF Sorted
      <4> QED BY <1>1, <3>2, <4>1
    <3> QED BY <1>1, <3>1, <3>2
  <2> QED BY <2>1, <2>2 DEF IsLast
<1>3. /\ IsLast(c, t, i) => Z = With(S, t, T)
      /\ ~IsLast(c, t, i) => Z = S
  BY <1>2
<1>4. /\ DOMAIN With(S, t, T) = DOMAIN S \cup {t} /\ With(S, t, T)[t] = T
      /\ \A y \in DOMAIN S : y # t => With(S, t, T)[y] = S[y]
  BY DEF With
<1>5. DOMAIN Z \subseteq 0..(x - 1)
  BY <1>1, <1>3, <1>4
<1>6. ASSUME NEW u \in 0..(x - 1), NEW m \in 1..Len(c), IsLast(c, u, m)
      PROVE  /\ u \in DOMAIN Z <=> m <= i
             /\ m <= i => TablesOK(c, Z[u], m)
  <2>1. /\ u \in DOMAIN S <=> m <= h
        /\ m <= h => TablesOK(c, S[u], m)
        /\ c[m].tx = u /\ c[m].event # "Weth" /\ \A j \in 1..Len(c) : c[j].tx <= u <=> j <= m
    BY <1>6 DEF SavedOK, IsLast
  <2>2. CASE u = t
    <3>1. i <= m
      BY <1>1, <2>1, <2>2
    <3>2. ~(m <= h) /\ u \notin DOMAIN S
      BY <1>1, <2>1, <3>1
    <3>3. m <= i => m = i /\ IsLast(c, t, i)
      BY <1>1, <1>6, <2>2, <3>1
    <3>4. IsLast(c, t, i) => m <= i
      BY <1>1, <2>1, <2>2 DEF IsLast
    <3> QED BY <1>3, <1>4, <2>2, <3>2, <3>3, <3>4
  <2>3. CASE u # t
    <3>1. m # i
      BY <2>1, <2>3
    <3>2. m <= i <=> m <= h
      <4>1. m \notin (h + 1)..(i - 1)
        BY <2>1
      <4> QED BY <1>1, <3>1, <4>1
    <3>3. (u \in DOMAIN Z <=> u \in DOMAIN S) /\ (u \in DOMAIN S => Z[u] = S[u])
      BY <1>3, <1>4, <2>3
    <3> QED BY <2>1, <3>2, <3>3
  <2> QED BY <2>2, <2>3
<1> QED BY <1>5, <1>6 DEF SavedOK

LEMMA HandleStep ==
  ASSUME IInv, HandleNext
  PROVE  IInv'
<1>1. PICK i \in NextLog : Handle(i) /\ Advance(i)
  BY DEF HandleNext, Handle
<1>2. /\ i \in 1..Len(chain) /\ pos < i /\ chain[i].event # "Weth" /\ chain[i].tx < tx
      /\ \A j \in (pos + 1)..(i - 1) : chain[j].event = "Weth"
  BY NextIs
<1>3. /\ ChainOK(chain) /\ TxOK(chain, tx) /\ ReaderOK(chain, tx, pos, highWater)
      /\ SavedOK(chain, tx, saved, highWater) /\ TablesOK(chain, Tables, highWater)
      /\ Len(chain) \in Nat /\ \A j \in 1..Len(chain) : chain[j].tx \in Nat
      /\ pos \in Nat /\ highWater \in Nat /\ pos <= highWater /\ highWater <= Len(chain)
      /\ tx \in Nat
  BY ChainTypes DEF IInv, Good, ReaderOK, TxOK
<1>4. chain' = chain /\ tx' = tx /\ pos' = i
  BY <1>1 DEF Advance, onChain
<1>5. CASE i <= highWater
  <2>1. highWater \in 0..Len(chain) /\ i \in 1..highWater
    BY <1>2, <1>3, <1>5
  <2>2. UNCHANGED tables
    BY <1>1, <1>3, <2>1, LogReplayed
  <2>3. highWater' = highWater /\ saved' = saved
    BY <1>1, <1>5 DEF Advance
  <2>4. ReaderOK(chain, tx, i, highWater)
    BY <1>3, <2>1 DEF ReaderOK
  <2> QED BY <1>3, <1>4, <2>2, <2>3, <2>4, TablesStay DEF IInv, Good
<1>6. CASE ~(i <= highWater)
  <2>1. /\ highWater' = i
        /\ saved' = IF \A j \in (i + 1)..Len(chain) : chain[j].tx # chain[i].tx
                    THEN With(saved, chain[i].tx, Tables') ELSE saved
    BY <1>1, <1>6 DEF Advance
  <2>2. /\ \A j \in (highWater + 1)..(i - 1) : chain[j].event = "Weth"
        /\ i - 1 \in Nat /\ highWater <= i - 1
    BY <1>2, <1>3, <1>6
  <2>3. TablesOK(chain, Tables, i - 1)
    <3>1. \A j \in 1..highWater : chain[j] = chain[j]
      OBVIOUS
    <3>2. highWater \in Nat /\ TablesOK(chain, Tables, highWater)
      BY <1>3
    <3> QED BY ONLY <2>2, <3>1, <3>2, SameLogs
  <2>4. TablesOK(chain, Tables', i)
    BY <1>1, <1>2, <1>3, <2>3, LogStep
  <2>5. ReaderOK(chain, tx, i, i)
    BY <1>2, <1>3 DEF ReaderOK
  <2>6. SavedOK(chain, tx, saved', i)
    <3>1. highWater < i /\ chain[i].tx \in 0..(tx - 1) /\ highWater \in Nat /\ ChainOK(chain)
      BY <1>2, <1>3, <1>6
    <3>2. SavedOK(chain, tx, saved, highWater) /\ i \in 1..Len(chain)
          /\ chain[i].event # "Weth"
      BY <1>2, <1>3
    <3> DEFINE T == Tables'
               Z == saved'
    <3>3. /\ Z = IF \A j \in (i + 1)..Len(chain) : chain[j].tx # chain[i].tx
                 THEN With(saved, chain[i].tx, T) ELSE saved
          /\ TablesOK(chain, T, i)
      BY <2>1, <2>4
    <3>4. \A j \in (highWater + 1)..(i - 1) : chain[j].event = "Weth"
      BY <2>2
    <3> HIDE DEF T, Z
    <3>5. SavedOK(chain, tx, Z, i)
      BY ONLY <3>1, <3>2, <3>3, <3>4, AdvanceSaves
    <3> QED BY <3>5 DEF Z
  <2> QED BY <1>3, <1>4, <2>1, <2>4, <2>5, <2>6 DEF IInv, Good
<1> QED BY <1>5, <1>6

LEMMA NextStep ==
  ASSUME IInv, [Next]_vars
  PROVE  IInv'
<1>1. CASE Operate
  BY <1>1, OperateStep
<1>2. CASE EndTransaction
  BY <1>2, EndTransactionStep
<1>3. CASE HandleNext
  BY <1>3, HandleStep
<1>4. CASE \E from \in 0..(pos - 1) : Resync(from)
  BY <1>4, ResyncStep
<1>5. CASE \E t \in DOMAIN saved : Crash(t)
  BY <1>5, CrashStep
<1>6. CASE \E t \in 2..(tx - 1) : Reorg(t)
  BY <1>6, ReorgStep
<1>7. CASE UNCHANGED vars
  <2>1. /\ chain' = chain /\ tx' = tx /\ pos' = pos /\ highWater' = highWater
        /\ saved' = saved /\ UNCHANGED tables
    BY <1>7 DEF vars, onChain, reader
  <2> QED BY <2>1, TablesStay DEF IInv
<1> QED BY <1>1, <1>2, <1>3, <1>4, <1>5, <1>6, <1>7 DEF Next, Operate

-----------------------------------------------------------------------------
(***************************************************************************)
(* What follows.                                                           *)
(***************************************************************************)
\* Whatever is emitted, replayed, lost or put back, the tables are those of the logs
\* they account for: every change has a row, with the cause that was announced for
\* its slot, every flow and settlement one; and each saved state of the tables is that
\* of the last log of its transaction.
THEOREM TablesFollowTheLogs == Spec => []IInv
<1>1. Init => IInv
  BY InitGood
<1>2. IInv /\ [Next]_vars => IInv'
  BY NextStep
<1> QED BY <1>1, <1>2, PTL DEF Spec

FaultsOK == faults \in Nat

LEMMA FaultsCounted == Spec => []FaultsOK
<1>1. Init => FaultsOK
  BY DEF Init, FaultsOK
<1>2. FaultsOK /\ [Next]_vars => FaultsOK'
  <2> SUFFICES ASSUME faults \in Nat, [Next]_vars PROVE faults' \in Nat
    BY DEF FaultsOK
  <2>1. CASE Operate
    BY <2>1, OperateEmits DEF Emit, reader
  <2>2. CASE EndTransaction
    BY <2>2 DEF EndTransaction, reader
  <2>3. CASE HandleNext
    BY <2>3 DEF HandleNext, Advance
  <2>4. CASE \E from \in 0..(pos - 1) : Resync(from)
    BY <2>4 DEF Resync, Fault
  <2>5. CASE \E t \in DOMAIN saved : Crash(t)
    BY <2>5 DEF Crash, Fault
  <2>6. CASE \E t \in 2..(tx - 1) : Reorg(t)
    BY <2>6 DEF Reorg, Fault
  <2>7. CASE UNCHANGED vars
    BY <2>7 DEF vars, reader
  <2> QED BY <2>1, <2>2, <2>3, <2>4, <2>5, <2>6, <2>7 DEF Next, Operate
<1> QED BY <1>1, <1>2, PTL DEF Spec

\* Handling a log the tables account for already, after a re-sync and whatever was
\* read since, changes no table: the handlers' inserts, claims and attributions are
\* idempotent for any chain and any number of slots.
THEOREM ReplaysChangeNothing == Spec => ReplayChangesNothing
<1> DEFINE Quiet == pos < highWater /\ pos' > pos /\ faults' = faults => UNCHANGED tables
<1>1. IInv /\ FaultsOK /\ [Next]_vars => [Quiet]_vars
  <2> SUFFICES ASSUME IInv, faults \in Nat, Next,
                      pos < highWater, pos' > pos, faults' = faults
               PROVE  UNCHANGED tables
    BY DEF FaultsOK
  <2>1. /\ pos \in Nat /\ highWater \in Nat /\ highWater <= Len(chain) /\ Len(chain) \in Nat
        /\ highWater = 0 \/ (chain[highWater].event # "Weth" /\ chain[highWater].tx < tx)
        /\ ChainOK(chain) /\ TablesOK(chain, Tables, highWater)
    BY ChainTypes DEF IInv, Good, ReaderOK
  <2>2. CASE Operate
    BY <2>2, OperateEmits DEF Emit
  <2>3. CASE EndTransaction
    BY <2>3 DEF EndTransaction
  <2>4. CASE HandleNext
    <3>1. PICK i \in NextLog : Handle(i)
      BY <2>4 DEF HandleNext, Handle
    <3>2. /\ i \in 1..Len(chain) /\ pos < i
          /\ \A j \in (pos + 1)..(i - 1) : chain[j].event = "Weth"
      BY NextIs
    <3>3. i <= highWater
      <4> SUFFICES ASSUME highWater < i PROVE FALSE
        BY <2>1, <3>2
      <4>1. highWater \in (pos + 1)..(i - 1)
        BY <2>1, <3>2
      <4> QED BY <2>1, <3>2, <4>1
    <3>4. highWater \in 0..Len(chain) /\ i \in 1..highWater
      BY <2>1, <3>2, <3>3
    <3> QED BY <2>1, <3>1, <3>4, LogReplayed
  <2>5. CASE \/ \E from \in 0..(pos - 1) : Resync(from)
             \/ \E t \in DOMAIN saved : Crash(t)
             \/ \E t \in 2..(tx - 1) : Reorg(t)
    <3>1. faults' = faults + 1
      BY <2>5 DEF Resync, Crash, Reorg, Fault
    <3> QED BY <3>1
  <2> QED BY <2>2, <2>3, <2>4, <2>5 DEF Next, Operate
<1> QED BY <1>1, TablesFollowTheLogs, FaultsCounted, PTL DEF Spec, ReplayChangesNothing

\* A figure that is summed over rows is the one that is summed over logs, when the
\* rows are those of the logs that count.
LEMMA RowsTotal ==
  ASSUME NEW c, NEW B, IsFiniteSet(B), NEW h \in [B -> Int],
         NEW A, NEW f, f = [x \in A |-> f[x]],
         \A x \in A : \E i \in B : x = Row(c, i),
         \A i \in B : Row(c, i) \in A => f[Row(c, i)] = h[i],
         \A i \in B : Row(c, i) \notin A => h[i] = 0
  PROVE  SumFunction(f) = SumFunction(h)
<1> DEFINE g == [x \in A |-> x[2]]
<1>1. \A i : Row(c, i)[2] = i
  BY DEF Row
<1>2. g \in [A -> B] /\ \A x \in A : x = Row(c, g[x])
  BY <1>1
<1>3. \A x, y \in A : g[x] = g[y] => x = y
  BY <1>2
<1>4. IsFiniteSet(A)
  <2>1. g \in Injection(A, B)
    BY <1>2, <1>3 DEF Injection, IsInjective
  <2> QED BY <2>1, FS_Injection
<1>5. \A x \in A : h[g[x]] = f[x]
  BY <1>2
<1>6. f \in [A -> Int]
  <2>1. \A x \in A : f[x] \in Int
    BY <1>2, <1>5
  <2> QED BY <2>1
<1>7. \A i \in B : h[i] # 0 => \E x \in A : g[x] = i
  BY <1>1
<1> HIDE DEF g
<1> QED BY <1>2, <1>3, <1>4, <1>5, <1>6, <1>7, TotalsCorrespond

LEMMA LogPositions ==
  ASSUME ChainOK(chain), highWater \in Nat, highWater <= Len(chain)
  PROVE  /\ \A S : S \in SUBSET (1..highWater) => IsFiniteSet(S)
         /\ \A i \in 1..highWater : i \in 1..Len(chain) /\ LogOK(chain[i])
<1>1. IsFiniteSet(1..highWater)
  BY FS_Interval
<1> QED BY <1>1, FS_Subset DEF ChainOK, LogsOK

LEMMA SupplyFollows ==
  ASSUME ChainOK(chain), highWater \in Nat, highWater <= Len(chain),
         ChangesOK(chain, Tables, highWater)
  PROVE  Stats.currentSupply = SupplyAt(highWater)
<1> DEFINE B == SupplyPositions(highWater)
           h == [i \in B |-> Delta(chain[i])]
           A == DOMAIN supplyChange
           f == [x \in A |-> supplyChange[x].delta]
<1>1. B = Supplies(chain, highWater) /\ B \in SUBSET (1..highWater)
  BY DEF SupplyPositions, Supplies, IsSupply
<1>2. IsFiniteSet(B)
  BY <1>1, LogPositions
<1>3. \A i \in B : Delta(chain[i]) \in Int
  <2> SUFFICES ASSUME NEW i \in B PROVE Delta(chain[i]) \in Int
    OBVIOUS
  <2>1. IsSupply(chain[i]) /\ i \in 1..Len(chain)
    BY <1>1, LogPositions DEF Supplies
  <2> QED BY <2>1, LogTypes
<1>4. h \in [B -> Int] /\ \A i \in B : h[i] = Delta(chain[i])
  BY <1>3
<1>5. /\ A = {Row(chain, i) : i \in B}
      /\ \A i \in B : supplyChange[Row(chain, i)].delta = Delta(chain[i])
  BY <1>1, TablesAreTheVariables DEF ChangesOK
<1>6. f = [x \in A |-> f[x]] /\ \A x \in A : f[x] = supplyChange[x].delta
  OBVIOUS
<1> HIDE DEF A, f, h, B
<1>7. /\ \A x \in A : \E i \in B : x = Row(chain, i)
      /\ \A i \in B : Row(chain, i) \in A => f[Row(chain, i)] = h[i]
      /\ \A i \in B : Row(chain, i) \notin A => h[i] = 0
  BY <1>4, <1>5, <1>6
<1>8. SumFunction(f) = SumFunction(h)
  BY ONLY <1>2, <1>4, <1>6, <1>7, RowsTotal
<1> QED BY <1>8 DEF Stats, SupplyAt, A, f, h, B

LEMMA MintsFollow ==
  ASSUME ChainOK(chain), highWater \in Nat, highWater <= Len(chain),
         OthersOK(chain, Tables, highWater)
  PROVE  Stats.completedMints = Logged(highWater, "Settled", LAMBDA log : log.amount)
<1> DEFINE A == {i \in 1..highWater : chain[i].event = "Settled"}
           f == [i \in A |-> chain[i].amount]
           B == DOMAIN settlement
           h == [e \in B |-> settlement[e].qMint]
           g == [i \in A |-> chain[i].epoch]
<1>1. A = Settleds(chain, highWater) /\ IsFiniteSet(A)
  BY LogPositions DEF Settleds
<1>2. \A i \in A : /\ chain[i].amount \in Int /\ i \in 1..Len(chain)
                   /\ chain[i].event = "Settled"
  BY LogPositions DEF LogOK, ContentOK
<1>3. /\ B = {chain[i].epoch : i \in A}
      /\ \A i \in A : settlement[chain[i].epoch].qMint = chain[i].amount
  BY <1>1, TablesAreTheVariables DEF OthersOK
<1>4. f \in [A -> Int]
  BY <1>2
<1>5. IsFiniteSet(B)
  <2>1. g \in Surjection(A, B)
    BY <1>3 DEF Surjection
  <2> QED BY <1>1, <2>1, FS_Surjection
<1>6. h \in [B -> Int]
  BY <1>2, <1>3
<1>7. g \in [A -> B] /\ \A i \in A : h[g[i]] = f[i]
  BY <1>3
<1>8. \A i, j \in A : g[i] = g[j] => i = j
  BY <1>2, EpochsDiffer
<1>9. \A e \in B : h[e] # 0 => \E i \in A : g[i] = e
  BY <1>3
<1>10. SumFunction(f) = SumFunction(h)
  <2> HIDE DEF A, f, B, h, g
  <2> QED BY ONLY <1>1, <1>4, <1>5, <1>6, <1>7, <1>8, <1>9, TotalsCorrespond
<1> QED BY <1>10 DEF Stats, Logged

\* The logs whose flows have the class and a direction are those of B that count in h.
Counted(c, n, directions, class, B, h) ==
  /\ \A i \in Flows(c, n) :
       FlowOfLog(c[i]).direction \in directions /\ FlowOfLog(c[i]).class = class => i \in B
  /\ \A i \in B :
       \/ /\ i \in Flows(c, n)
          /\ FlowOfLog(c[i]).direction \in directions /\ FlowOfLog(c[i]).class = class
          /\ FlowOfLog(c[i]).amount = h[i]
       \/ /\ h[i] = 0
          /\ i \in Flows(c, n) =>
               ~(FlowOfLog(c[i]).direction \in directions /\ FlowOfLog(c[i]).class = class)

LEMMA FlowsFollow ==
  ASSUME ChainOK(chain), highWater \in Nat, highWater <= Len(chain),
         OthersOK(chain, Tables, highWater),
         NEW directions, NEW class, NEW B \in SUBSET (1..highWater), NEW h \in [B -> Int],
         Counted(chain, highWater, directions, class, B, h)
  PROVE  FlowsOf(directions, class) = SumFunction(h)
<1> DEFINE A == {id \in DOMAIN strategicFlow :
                   strategicFlow[id].direction \in directions
                     /\ strategicFlow[id].class = class}
           f == [id \in A |-> strategicFlow[id].amount]
<1>1. /\ DOMAIN strategicFlow = {Row(chain, i) : i \in Flows(chain, highWater)}
      /\ \A i \in Flows(chain, highWater) : strategicFlow[Row(chain, i)] = FlowOfLog(chain[i])
  BY TablesAreTheVariables DEF OthersOK
<1>2. \A i, j : Row(chain, i) = Row(chain, j) => i = j
  BY DEF Row
<1>3. \A i : Row(chain, i) \in DOMAIN strategicFlow => i \in Flows(chain, highWater)
  BY <1>1, <1>2
<1>4. IsFiniteSet(B)
  BY LogPositions
<1>5. \A x \in A : \E i \in B : x = Row(chain, i)
  BY <1>1 DEF Counted
<1>6. f = [x \in A |-> f[x]] /\ \A x \in A : f[x] = strategicFlow[x].amount
  OBVIOUS
<1>7. \A i \in B : Row(chain, i) \in A => f[Row(chain, i)] = h[i]
  BY <1>1, <1>3 DEF Counted
<1>8. \A i \in B : Row(chain, i) \notin A => h[i] = 0
  BY <1>1, <1>3 DEF Counted
<1>9. SumFunction(f) = SumFunction(h)
  <2> HIDE DEF A, f
  <2> QED BY ONLY <1>4, <1>5, <1>6, <1>7, <1>8, h \in [B -> Int], RowsTotal
<1> QED BY <1>9 DEF FlowsOf

LEMMA FigureOfInflows ==
  ASSUME ChainOK(chain), highWater \in Nat, highWater <= Len(chain),
         OthersOK(chain, Tables, highWater), NEW k \in 2..4
  PROVE  FlowsOf({"in"}, STRATEGIC_CLASS[k])
           = Logged(highWater, "Inflow", LAMBDA log : IF log.class = k THEN log.amount ELSE 0)
<1> DEFINE B == {i \in 1..highWater : chain[i].event = "Inflow"}
           h == [i \in B |-> IF chain[i].class = k THEN chain[i].amount ELSE 0]
           class == STRATEGIC_CLASS[k]
<1>1. \A i \in 1..highWater : LogOK(chain[i])
  BY LogPositions
<1>2. \A a \in 1..4, b \in 1..4 :
        /\ STRATEGIC_CLASS[a] = STRATEGIC_CLASS[b] => a = b
        /\ OutflowClass[a] # STRATEGIC_CLASS[b]
  BY DEF STRATEGIC_CLASS, OutflowClass
<1>3. \A i \in B : i \in 1..highWater /\ chain[i].event = "Inflow"
                   /\ i \in Flows(chain, highWater)
  BY DEF Flows
<1>4. \A i \in B : chain[i].class \in 2..4 /\ chain[i].amount \in Nat
  BY <1>1 DEF LogOK, ContentOK
<1>5. /\ h \in [B -> Int]
      /\ \A i \in B : h[i] = IF chain[i].class = k THEN chain[i].amount ELSE 0
  BY <1>4
<1>6. ASSUME NEW i \in Flows(chain, highWater),
             FlowOfLog(chain[i]).direction \in {"in"}, FlowOfLog(chain[i]).class = class
      PROVE  i \in B
  <2>1. i \in 1..highWater /\ chain[i].event \in {"Settled", "Inflow", "Outflow"}
    BY DEF Flows
  <2>2. CASE chain[i].event = "Settled"
    BY <1>2, <1>6, <2>2 DEF FlowOfLog, StrategicFlow
  <2>3. CASE chain[i].event = "Outflow"
    BY <1>6, <2>3 DEF FlowOfLog, StrategicFlow
  <2> QED BY <2>1, <2>2, <2>3
<1>7. ASSUME NEW i \in B
      PROVE  /\ FlowOfLog(chain[i]).direction = "in"
             /\ FlowOfLog(chain[i]).class = STRATEGIC_CLASS[chain[i].class]
             /\ FlowOfLog(chain[i]).amount = chain[i].amount
  BY DEF FlowOfLog, StrategicFlow
<1>8. ASSUME NEW i \in B
      PROVE  \/ /\ i \in Flows(chain, highWater)
                /\ FlowOfLog(chain[i]).direction \in {"in"}
                /\ FlowOfLog(chain[i]).class = class
                /\ FlowOfLog(chain[i]).amount = h[i]
             \/ /\ h[i] = 0
                /\ i \in Flows(chain, highWater) =>
                     ~(FlowOfLog(chain[i]).direction \in {"in"}
                         /\ FlowOfLog(chain[i]).class = class)
  <2>1. CASE chain[i].class = k
    BY <1>3, <1>5, <1>7, <2>1
  <2>2. CASE chain[i].class # k
    <3>1. STRATEGIC_CLASS[chain[i].class] # class
      BY <1>2, <1>4, <2>2
    <3> QED BY <1>5, <1>7, <2>2, <3>1
  <2> QED BY <2>1, <2>2
<1>9. B \in SUBSET (1..highWater) /\ ChainOK(chain) /\ highWater \in Nat
      /\ highWater <= Len(chain) /\ OthersOK(chain, Tables, highWater)
  OBVIOUS
<1>10. FlowsOf({"in"}, class) = SumFunction(h)
  <2> HIDE DEF B, h, class
  <2> DEFINE directions == {"in"}
  <2> HIDE DEF directions
  <2>1. Counted(chain, highWater, directions, class, B, h)
    BY <1>6, <1>8 DEF Counted, directions
  <2>2. h \in [B -> Int]
    BY <1>5
  <2>3. FlowsOf(directions, class) = SumFunction(h)
    BY ONLY <1>9, <2>1, <2>2, FlowsFollow
  <2> QED BY <2>3 DEF directions
<1> QED BY <1>10 DEF Logged

LEMMA FigureOfOutflows ==
  ASSUME ChainOK(chain), highWater \in Nat, highWater <= Len(chain),
         OthersOK(chain, Tables, highWater), NEW k \in 1..4
  PROVE  FlowsOf({"out"}, OutflowClass[k])
           = Logged(highWater, "Outflow", LAMBDA log : IF log.class = k THEN log.amount ELSE 0)
<1> DEFINE B == {i \in 1..highWater : chain[i].event = "Outflow"}
           h == [i \in B |-> IF chain[i].class = k THEN chain[i].amount ELSE 0]
           class == OutflowClass[k]
<1>1. \A i \in 1..highWater : LogOK(chain[i])
  BY LogPositions
<1>2. \A a \in 1..4, b \in 1..4 : OutflowClass[a] = OutflowClass[b] => a = b
  BY DEF OutflowClass
<1>3. \A i \in B : i \in 1..highWater /\ chain[i].event = "Outflow"
                   /\ i \in Flows(chain, highWater)
  BY DEF Flows
<1>4. \A i \in B : chain[i].class \in 1..4 /\ chain[i].amount \in Nat
  BY <1>1 DEF LogOK, ContentOK
<1>5. /\ h \in [B -> Int]
      /\ \A i \in B : h[i] = IF chain[i].class = k THEN chain[i].amount ELSE 0
  BY <1>4
<1>6. ASSUME NEW i \in Flows(chain, highWater),
             FlowOfLog(chain[i]).direction \in {"out"}, FlowOfLog(chain[i]).class = class
      PROVE  i \in B
  <2>1. i \in 1..highWater /\ chain[i].event \in {"Settled", "Inflow", "Outflow"}
    BY DEF Flows
  <2>2. CASE chain[i].event \in {"Settled", "Inflow"}
    BY <1>6, <2>2 DEF FlowOfLog, StrategicFlow
  <2> QED BY <2>1, <2>2
<1>7. ASSUME NEW i \in B
      PROVE  /\ FlowOfLog(chain[i]).direction = "out"
             /\ FlowOfLog(chain[i]).class = OutflowClass[chain[i].class]
             /\ FlowOfLog(chain[i]).amount = chain[i].amount
  BY DEF FlowOfLog, StrategicFlow
<1>8. ASSUME NEW i \in B
      PROVE  \/ /\ i \in Flows(chain, highWater)
                /\ FlowOfLog(chain[i]).direction \in {"out"}
                /\ FlowOfLog(chain[i]).class = class
                /\ FlowOfLog(chain[i]).amount = h[i]
             \/ /\ h[i] = 0
                /\ i \in Flows(chain, highWater) =>
                     ~(FlowOfLog(chain[i]).direction \in {"out"}
                         /\ FlowOfLog(chain[i]).class = class)
  <2>1. CASE chain[i].class = k
    BY <1>3, <1>5, <1>7, <2>1
  <2>2. CASE chain[i].class # k
    <3>1. OutflowClass[chain[i].class] # class
      BY <1>2, <1>4, <2>2
    <3> QED BY <1>5, <1>7, <2>2, <3>1
  <2> QED BY <2>1, <2>2
<1>9. B \in SUBSET (1..highWater) /\ ChainOK(chain) /\ highWater \in Nat
      /\ highWater <= Len(chain) /\ OthersOK(chain, Tables, highWater)
  OBVIOUS
<1>10. FlowsOf({"out"}, class) = SumFunction(h)
  <2> HIDE DEF B, h, class
  <2> DEFINE directions == {"out"}
  <2> HIDE DEF directions
  <2>1. Counted(chain, highWater, directions, class, B, h)
    BY <1>6, <1>8 DEF Counted, directions
  <2>2. h \in [B -> Int]
    BY <1>5
  <2>3. FlowsOf(directions, class) = SumFunction(h)
    BY ONLY <1>9, <2>1, <2>2, FlowsFollow
  <2> QED BY <2>3 DEF directions
<1> QED BY <1>10 DEF Logged

LEMMA FigureOfContributions ==
  ASSUME ChainOK(chain), highWater \in Nat, highWater <= Len(chain),
         OthersOK(chain, Tables, highWater)
  PROVE  FlowsOf({"in", "out"}, "ContributedPrincipal")
           = Logged(highWater, "Settled", LAMBDA log : log.leg)
<1> DEFINE B == {i \in 1..highWater : chain[i].event = "Settled"}
           h == [i \in B |-> chain[i].leg]
           class == "ContributedPrincipal"
<1>1. \A i \in 1..highWater : LogOK(chain[i])
  BY LogPositions
<1>2. /\ STRATEGIC_CLASS[1] = class
      /\ \A a \in 2..4 : STRATEGIC_CLASS[a] # class
      /\ \A a \in 1..4 : OutflowClass[a] # class
  BY DEF STRATEGIC_CLASS, OutflowClass
<1>3. \A i \in B : /\ i \in 1..highWater /\ chain[i].event = "Settled"
                   /\ chain[i].leg > 0 <=> i \in Flows(chain, highWater)
  BY DEF Flows
<1>4. \A i \in B : chain[i].leg \in Nat
  BY <1>1 DEF LogOK, ContentOK
<1>5. h \in [B -> Int] /\ \A i \in B : h[i] = chain[i].leg
  BY <1>4
<1>6. ASSUME NEW i \in Flows(chain, highWater), FlowOfLog(chain[i]).class = class
      PROVE  i \in B
  <2>1. i \in 1..highWater /\ chain[i].event \in {"Settled", "Inflow", "Outflow"}
        /\ ContentOK(chain[i])
    BY <1>1 DEF Flows, LogOK
  <2>2. CASE chain[i].event = "Inflow"
    BY <1>2, <1>6, <2>1, <2>2 DEF FlowOfLog, StrategicFlow, ContentOK
  <2>3. CASE chain[i].event = "Outflow"
    BY <1>2, <1>6, <2>1, <2>3 DEF FlowOfLog, StrategicFlow, ContentOK
  <2> QED BY <2>1, <2>2, <2>3
<1>7. ASSUME NEW i \in B
      PROVE  /\ FlowOfLog(chain[i]).direction = "in" /\ FlowOfLog(chain[i]).class = class
             /\ FlowOfLog(chain[i]).amount = chain[i].leg
  BY <1>2 DEF FlowOfLog, StrategicFlow
<1>8. \A i \in B : chain[i].leg > 0 \/ chain[i].leg = 0
  BY <1>4
<1>9. B \in SUBSET (1..highWater) /\ ChainOK(chain) /\ highWater \in Nat
      /\ highWater <= Len(chain) /\ OthersOK(chain, Tables, highWater)
  OBVIOUS
<1>10. FlowsOf({"in", "out"}, class) = SumFunction(h)
  <2> HIDE DEF B, h, class
  <2> DEFINE directions == {"in", "out"}
  <2>0. "in" \in directions
    OBVIOUS
  <2> HIDE DEF directions
  <2>1. Counted(chain, highWater, directions, class, B, h)
    BY <1>3, <1>5, <1>6, <1>7, <1>8, <2>0 DEF Counted
  <2>2. h \in [B -> Int]
    BY <1>5
  <2>3. FlowsOf(directions, class) = SumFunction(h)
    BY ONLY <1>9, <2>1, <2>2, FlowsFollow
  <2> QED BY <2>3 DEF directions
<1> QED BY <1>10 DEF Logged

\* The figures the API serves are the sums over the chain's logs that the tables
\* account for, whatever was replayed, lost or put back, for any chain: the supply, the
\* mints, the contributed principal and every class of flow.
THEOREM FiguresAreTheChains == Spec => []ReplicaMatchesChain
<1>1. IInv => ReplicaMatchesChain
  <2> SUFFICES ASSUME IInv PROVE ReplicaMatchesChain
    OBVIOUS
  <2>1. /\ ChainOK(chain) /\ highWater \in Nat /\ highWater <= Len(chain)
        /\ ChangesOK(chain, Tables, highWater) /\ OthersOK(chain, Tables, highWater)
    BY DEF IInv, Good, ReaderOK, TablesOK
  <2>2. Stats.currentSupply = SupplyAt(highWater)
    BY <2>1, SupplyFollows
  <2>3. Stats.completedMints = Logged(highWater, "Settled", LAMBDA log : log.amount)
    BY <2>1, MintsFollow
  <2>4. Stats.strategicContributedPrincipal
          = Logged(highWater, "Settled", LAMBDA log : log.leg)
    BY <2>1, FigureOfContributions DEF Stats
  <2>5. \A k \in 2..4 :
          FlowsOf({"in"}, STRATEGIC_CLASS[k])
            = Logged(highWater, "Inflow", LAMBDA log : IF log.class = k THEN log.amount ELSE 0)
    BY <2>1, FigureOfInflows
  <2>6. \A k \in 1..4 :
          FlowsOf({"out"}, OutflowClass[k])
            = Logged(highWater, "Outflow", LAMBDA log : IF log.class = k THEN log.amount ELSE 0)
    BY <2>1, FigureOfOutflows
  <2> QED BY <2>2, <2>3, <2>4, <2>5, <2>6 DEF ReplicaMatchesChain
<1> QED BY <1>1, TablesFollowTheLogs, PTL

-----------------------------------------------------------------------------
(***************************************************************************)
(* The causes.                                                             *)
(***************************************************************************)
LEMMA SameSize ==
  ASSUME NEW A, NEW B, IsFiniteSet(A), NEW f \in [A -> B],
         \A x, y \in A : f[x] = f[y] => x = y,
         \A b \in B : \E x \in A : f[x] = b
  PROVE  IsFiniteSet(B) /\ Cardinality(B) = Cardinality(A)
<1>1. f \in Injection(A, B) /\ f \in Surjection(A, B)
  BY DEF Injection, IsInjective, Surjection
<1>2. f \in Bijection(A, B)
  BY <1>1 DEF Bijection
<1> QED BY <1>2, FS_Bijection DEF ExistsBijection

LEMMA Exhausts ==
  ASSUME NEW A, NEW B, IsFiniteSet(B), NEW f \in [A -> B],
         \A x, y \in A : f[x] = f[y] => x = y
  PROVE  /\ IsFiniteSet(A) /\ Cardinality(A) <= Cardinality(B)
         /\ Cardinality(B) <= Cardinality(A) => \A b \in B : \E x \in A : f[x] = b
<1>1. f \in Injection(A, B)
  BY DEF Injection, IsInjective
<1>2. /\ IsFiniteSet(A) /\ Cardinality(A) <= Cardinality(B)
      /\ Cardinality(A) = Cardinality(B) <=> f \in Surjection(A, B)
  BY <1>1, FS_Injection
<1>3. Cardinality(A) \in Nat /\ Cardinality(B) \in Nat
  BY <1>2, FS_CardinalityType
<1>4. Cardinality(B) <= Cardinality(A) => f \in Surjection(A, B)
  BY <1>2, <1>3
<1> QED BY <1>2, <1>4 DEF Surjection

\* Behind the last log of a transaction, its claims and its claimed changes
\* correspond.
ClaimedBy(c, j) == CHOOSE i \in 1..Len(c) : Partners(c, j, i)

LEMMA ClaimsCorrespond ==
  ASSUME NEW c, ChainOK(c), NEW n \in 0..Len(c), NEW t, NEW d, d # 0,
         \A i \in 1..Len(c) : c[i].tx = t => i <= n
  PROVE  /\ \A j \in Changes(c, n, t, d) : c[j].truth \in ClaimCauses =>
              /\ ClaimedBy(c, j) \in Claims(c, n, t, d)
              /\ Partners(c, j, ClaimedBy(c, j))
         /\ \A i \in Claims(c, n, t, d) : \E j \in Changes(c, n, t, d) :
              /\ c[j].truth \in ClaimCauses /\ c[j].truth = CauseOf(c[i])
              /\ ClaimedBy(c, j) = i
         /\ \A j, k \in Changes(c, n, t, d) :
              c[j].truth \in ClaimCauses /\ c[k].truth \in ClaimCauses
                /\ ClaimedBy(c, j) = ClaimedBy(c, k) => j = k
<1>0. /\ Len(c) \in Nat /\ n \in Nat
      /\ \A i \in 1..n : i \in 1..Len(c)
  BY ChainTypes
<1>1. \A j \in Changes(c, n, t, d) :
        j \in 1..n /\ IsSupply(c[j]) /\ c[j].tx = t /\ Delta(c[j]) = d
  BY DEF Changes, Supplies
<1>2. ASSUME NEW j \in Changes(c, n, t, d), c[j].truth \in ClaimCauses
      PROVE  /\ ClaimedBy(c, j) \in Claims(c, n, t, d)
             /\ Partners(c, j, ClaimedBy(c, j))
  <2>1. \E i \in 1..Len(c) : Partners(c, j, i)
    BY <1>0, <1>1, <1>2 DEF ChainOK, ChangesHaveClaims
  <2> DEFINE i == ClaimedBy(c, j)
  <2>2. i \in 1..Len(c) /\ Partners(c, j, i)
    BY <2>1 DEF ClaimedBy
  <2> HIDE DEF i
  <2>3. IsClaim(c[i]) /\ Claimed(c[i]) = d /\ c[i].tx = t
    BY <1>1, <2>2 DEF Partners, Announces
  <2>4. i \in 1..n
    BY <1>0, <2>2, <2>3
  <2> QED BY <2>2, <2>3, <2>4 DEF Claims, i
<1>3. ASSUME NEW i \in Claims(c, n, t, d)
      PROVE  \E j \in Changes(c, n, t, d) :
               /\ c[j].truth \in ClaimCauses /\ c[j].truth = CauseOf(c[i])
               /\ ClaimedBy(c, j) = i
  <2>1. i \in 1..n /\ IsClaim(c[i]) /\ c[i].tx = t /\ Claimed(c[i]) = d
    BY DEF Claims
  <2>2. PICK j \in 1..Len(c) : Partners(c, j, i)
    BY <1>0, <2>1 DEF ChainOK, ClaimsHaveChanges
  <2>3. /\ IsSupply(c[j]) /\ Delta(c[j]) = d /\ c[j].truth = CauseOf(c[i])
        /\ c[j].tx = t /\ j < i
    BY <2>1, <2>2 DEF Partners, Announces
  <2>4. j \in Changes(c, n, t, d)
    BY <1>0, <2>1, <2>3 DEF Changes, Supplies
  <2>5. c[j].truth \in ClaimCauses
    BY <2>3 DEF CauseOf, ClaimCauses
  <2>6. Partners(c, j, ClaimedBy(c, j)) /\ ClaimedBy(c, j) \in 1..Len(c)
    BY <1>0, <1>2, <2>4, <2>5 DEF Claims
  <2>7. ClaimedBy(c, j) = i
    <3>1. c[ClaimedBy(c, j)].op = c[j].op /\ c[i].op = c[j].op /\ IsClaim(c[ClaimedBy(c, j)])
      BY <2>2, <2>6 DEF Partners, Announces
    <3> QED BY <1>0, <2>1, <2>6, <3>1 DEF ChainOK, OncePerOperation
  <2> QED BY <2>3, <2>4, <2>5, <2>7
<1>4. ASSUME NEW j \in Changes(c, n, t, d), NEW k \in Changes(c, n, t, d),
             c[j].truth \in ClaimCauses, c[k].truth \in ClaimCauses,
             ClaimedBy(c, j) = ClaimedBy(c, k)
      PROVE  j = k
  <2>1. c[j].op = c[k].op
    BY <1>2, <1>4 DEF Partners
  <2> QED BY <1>0, <1>1, <2>1 DEF ChainOK, OncePerOperation
<1> QED BY <1>2, <1>3, <1>4

\* Every change has a slot and every claim has consumed one.
AllPaired(c, T, n, t, d, N, C) ==
  /\ \A i \in Changes(c, n, t, d) : \E k \in 0..(N - 1) : Change(T, t, d, k) = Row(c, i)
  /\ \A i \in Claims(c, n, t, d) : \E k \in 0..(C - 1) : Consumer(T, t, d, k) = i

\* They do when the slots suffice.
LEMMA SlotsSuffice ==
  ASSUME NEW c, ChainOK(c), NEW n \in 0..Len(c), NEW t, NEW d, d # 0,
         \A i \in 1..Len(c) : c[i].tx = t => i <= n,
         NEW T, NEW N \in Nat, NEW C \in Nat, Paired(c, T, n, t, d, N, C),
         Cardinality(Changes(c, n, t, d)) <= MAX_SLOTS
  PROVE  AllPaired(c, T, n, t, d, N, C)
<1> DEFINE CH == Changes(c, n, t, d)
           CL == Claims(c, n, t, d)
<1>1. /\ MAX_SLOTS \in Nat /\ C <= N /\ N <= MAX_SLOTS
      /\ \A k \in 0..(N - 1) : \E i \in CH : Change(T, t, d, k) = Row(c, i)
      /\ \A k, l \in 0..(N - 1) : Change(T, t, d, k) = Change(T, t, d, l) => k = l
      /\ N < MAX_SLOTS => \A i \in CH : \E k \in 0..(N - 1) : Change(T, t, d, k) = Row(c, i)
      /\ \A k \in 0..(C - 1) : Consumer(T, t, d, k) \in CL
      /\ \A k, l \in 0..(C - 1) : Consumer(T, t, d, k) = Consumer(T, t, d, l) => k = l
      /\ C < MAX_SLOTS => \A i \in CL : \E k \in 0..(C - 1) : Consumer(T, t, d, k) = i
  BY IndexerAssumption DEF Paired, SlotsStand, SlotsConsumed
<1>2. /\ n \in Nat /\ IsFiniteSet(CH) /\ IsFiniteSet(CL)
      /\ Cardinality(CH) \in Nat /\ Cardinality(CL) \in Nat
  <2>1. n \in Nat /\ n \in Int /\ 1 \in Int
    BY ChainTypes
  <2>2. IsFiniteSet(1..n)
    BY <2>1, FS_Interval
  <2>3. CH \in SUBSET (1..n) /\ CL \in SUBSET (1..n)
    BY DEF Changes, Supplies, Claims
  <2>4. IsFiniteSet(CH) /\ IsFiniteSet(CL)
    BY <2>2, <2>3, FS_Subset
  <2> QED BY <2>1, <2>4, FS_CardinalityType
<1>3. /\ \A j \in CH : c[j].truth \in ClaimCauses => ClaimedBy(c, j) \in CL
      /\ \A i \in CL : \E j \in CH : c[j].truth \in ClaimCauses /\ ClaimedBy(c, j) = i
  BY ClaimsCorrespond
<1>4. \A m \in Nat : Cardinality(0..(m - 1)) = m
  BY FS_Interval
<1>5. \A i, j : Row(c, i) = Row(c, j) => i = j
  BY DEF Row
<1> HIDE DEF CH, CL
<1>6. \A i \in CH : \E k \in 0..(N - 1) : Change(T, t, d, k) = Row(c, i)
  <2>1. CASE N = MAX_SLOTS
    <3> DEFINE A == 0..(N - 1)
               f == [k \in A |-> CHOOSE i \in CH : Change(T, t, d, k) = Row(c, i)]
    <3>1. \A k \in A : f[k] \in CH /\ Change(T, t, d, k) = Row(c, f[k])
      BY <1>1
    <3>2. f \in [A -> CH] /\ \A k, l \in A : f[k] = f[l] => k = l
      BY <1>1, <3>1
    <3>3. Cardinality(CH) <= Cardinality(A)
      BY <1>4, <2>1 DEF CH
    <3> HIDE DEF A, f
    <3>4. \A i \in CH : \E k \in A : f[k] = i
      BY ONLY <1>2, <3>2, <3>3, Exhausts
    <3> QED BY <3>1, <3>4 DEF A
  <2>2. CASE N # MAX_SLOTS
    BY <1>1, <2>2
  <2> QED BY <2>1, <2>2
<1>7. \A i \in CL : \E k \in 0..(C - 1) : Consumer(T, t, d, k) = i
  <2>1. CASE C = MAX_SLOTS
    <3> DEFINE g == [i \in CL |-> CHOOSE j \in CH : c[j].truth \in ClaimCauses
                                                      /\ ClaimedBy(c, j) = i]
    <3>1. \A i \in CL : g[i] \in CH /\ ClaimedBy(c, g[i]) = i
      BY <1>3
    <3>2. g \in [CL -> CH] /\ \A i, j \in CL : g[i] = g[j] => i = j
      BY <3>1
    <3> HIDE DEF g
    <3>3. Cardinality(CL) <= Cardinality(CH)
      BY <1>2, <3>2, Exhausts
    <3> DEFINE A == 0..(C - 1)
               f == [k \in A |-> Consumer(T, t, d, k)]
    <3>4. f \in [A -> CL] /\ \A k, l \in A : f[k] = f[l] => k = l
      BY <1>1
    <3>5. Cardinality(CL) <= Cardinality(A)
      <4>1. Cardinality(CH) <= MAX_SLOTS
        BY DEF CH
      <4> QED BY <1>1, <1>2, <1>4, <2>1, <3>3, <4>1
    <3>6. \A k \in A : f[k] = Consumer(T, t, d, k)
      OBVIOUS
    <3> HIDE DEF A, f
    <3>7. \A i \in CL : \E k \in A : f[k] = i
      BY ONLY <1>2, <3>4, <3>5, Exhausts
    <3> QED BY <3>6, <3>7 DEF A
  <2>2. CASE C # MAX_SLOTS
    BY <1>1, <2>2
  <2> QED BY <2>1, <2>2
<1> QED BY <1>6, <1>7 DEF CH, CL, AllPaired

\* The changes that were caused by, and those that are recorded under, a set of causes.
CausedBy(c, n, t, d, K)      == {i \in Changes(c, n, t, d) : c[i].truth \in K}
RecordedAs(c, T, n, t, d, K) ==
  {i \in Changes(c, n, t, d) : T.supplyChange[Row(c, i)].cause \in K}

\* From a change to its claim, to the slot that claim consumed, to that slot's change.
LEMMA ClaimedCausesCount ==
  ASSUME NEW c, ChainOK(c), NEW n \in 0..Len(c), NEW t, NEW d, d # 0,
         \A i \in 1..Len(c) : c[i].tx = t => i <= n,
         NEW T, NEW N \in Nat, NEW C \in Nat, Paired(c, T, n, t, d, N, C),
         Cardinality(Changes(c, n, t, d)) <= MAX_SLOTS,
         NEW K \in SUBSET ClaimCauses
  PROVE  /\ IsFiniteSet(CausedBy(c, n, t, d, K))
         /\ IsFiniteSet(RecordedAs(c, T, n, t, d, K))
         /\ Cardinality(CausedBy(c, n, t, d, K)) = Cardinality(RecordedAs(c, T, n, t, d, K))
<1> DEFINE CH == Changes(c, n, t, d)
           CL == Claims(c, n, t, d)
           P  == CausedBy(c, n, t, d, K)
           R  == RecordedAs(c, T, n, t, d, K)
           Q  == {i \in CL : CauseOf(c[i]) \in K}
           S  == {k \in 0..(C - 1) : CauseOf(c[Consumer(T, t, d, k)]) \in K}
<1>1. /\ C <= N
      /\ \A k \in 0..(N - 1) : \E i \in CH : Change(T, t, d, k) = Row(c, i)
      /\ \A k, l \in 0..(N - 1) : Change(T, t, d, k) = Change(T, t, d, l) => k = l
      /\ \A k \in 0..(C - 1) : Consumer(T, t, d, k) \in CL
      /\ \A k, l \in 0..(C - 1) : Consumer(T, t, d, k) = Consumer(T, t, d, l) => k = l
  BY DEF Paired, SlotsStand, SlotsConsumed
<1>2. /\ \A k \in 0..(C - 1) :
           T.supplyChange[Change(T, t, d, k)].cause = CauseOf(c[Consumer(T, t, d, k)])
      /\ \A i \in CH : \/ \E k \in 0..(C - 1) : Change(T, t, d, k) = Row(c, i)
                       \/ T.supplyChange[Row(c, i)].cause = Default(c[i])
  BY DEF Paired, CausesFollow
<1>3. /\ \A i \in CH : \E k \in 0..(N - 1) : Change(T, t, d, k) = Row(c, i)
      /\ \A i \in CL : \E k \in 0..(C - 1) : Consumer(T, t, d, k) = i
  <2>1. /\ ChainOK(c) /\ n \in 0..Len(c) /\ d # 0 /\ N \in Nat /\ C \in Nat
        /\ \A i \in 1..Len(c) : c[i].tx = t => i <= n
        /\ Paired(c, T, n, t, d, N, C)
        /\ Cardinality(Changes(c, n, t, d)) <= MAX_SLOTS
    OBVIOUS
  <2>2. AllPaired(c, T, n, t, d, N, C)
    BY ONLY <2>1, SlotsSuffice
  <2> QED BY <2>2 DEF AllPaired
<1>4. /\ \A j \in CH : c[j].truth \in ClaimCauses =>
           ClaimedBy(c, j) \in CL /\ Partners(c, j, ClaimedBy(c, j))
      /\ \A i \in CL : \E j \in CH : /\ c[j].truth \in ClaimCauses /\ c[j].truth = CauseOf(c[i])
                                     /\ ClaimedBy(c, j) = i
      /\ \A j, k \in CH : c[j].truth \in ClaimCauses /\ c[k].truth \in ClaimCauses
                            /\ ClaimedBy(c, j) = ClaimedBy(c, k) => j = k
  BY ClaimsCorrespond
<1>5. \A i \in CH : Default(c[i]) \notin K
  BY DEF Default, ClaimCauses
<1>6. \A i, j : Row(c, i) = Row(c, j) => i = j
  BY DEF Row
<1>7. /\ \A i : i \in P <=> i \in CH /\ c[i].truth \in K
      /\ \A i : i \in R <=> i \in CH /\ T.supplyChange[Row(c, i)].cause \in K
  BY DEF CausedBy, RecordedAs
<1>8. IsFiniteSet(S)
  <2>1. C \in Int /\ C - 1 \in Int /\ 0 \in Int
    OBVIOUS
  <2>2. IsFiniteSet(0..(C - 1))
    BY <2>1, FS_Interval
  <2> QED BY <2>2, FS_Subset
<1> HIDE DEF CH, CL, P, R
<1>9. IsFiniteSet(Q) /\ Cardinality(Q) = Cardinality(S)
  <2> DEFINE f == [k \in S |-> Consumer(T, t, d, k)]
  <2>1. f \in [S -> Q] /\ \A k, l \in S : f[k] = f[l] => k = l
    BY <1>1
  <2>2. \A i \in Q : \E k \in S : f[k] = i
    BY <1>3
  <2> HIDE DEF f, S, Q
  <2> QED BY ONLY <1>8, <2>1, <2>2, SameSize
<1>10. IsFiniteSet(R) /\ Cardinality(R) = Cardinality(S)
  <2> DEFINE f == [k \in S |-> CHOOSE i \in CH : Change(T, t, d, k) = Row(c, i)]
  <2>1. \A k \in S : f[k] \in CH /\ Change(T, t, d, k) = Row(c, f[k])
    BY <1>1
  <2>2. \A k \in S : f[k] \in R
    BY <1>2, <1>7, <2>1
  <2>3. f \in [S -> R] /\ \A k, l \in S : f[k] = f[l] => k = l
    BY <1>1, <2>1, <2>2
  <2>4. ASSUME NEW i \in R PROVE \E k \in S : f[k] = i
    <3>1. i \in CH /\ T.supplyChange[Row(c, i)].cause \in K
      BY <1>7
    <3>2. PICK k \in 0..(C - 1) : Change(T, t, d, k) = Row(c, i)
      BY <1>2, <1>5, <3>1
    <3>3. k \in S
      BY <1>2, <3>1, <3>2
    <3> QED BY <1>6, <2>1, <3>2, <3>3
  <2> HIDE DEF f, S
  <2> QED BY ONLY <1>8, <2>3, <2>4, SameSize
<1>11. IsFiniteSet(P) /\ Cardinality(P) = Cardinality(Q)
  <2> DEFINE f == [i \in Q |-> CHOOSE j \in CH : /\ c[j].truth \in ClaimCauses
                                                 /\ c[j].truth = CauseOf(c[i])
                                                 /\ ClaimedBy(c, j) = i]
  <2>1. \A i \in Q : /\ f[i] \in CH /\ c[f[i]].truth = CauseOf(c[i])
                     /\ ClaimedBy(c, f[i]) = i
    BY <1>4
  <2>2. f \in [Q -> P] /\ \A i, j \in Q : f[i] = f[j] => i = j
    BY <1>7, <2>1
  <2>3. ASSUME NEW j \in P PROVE \E i \in Q : f[i] = j
    <3>1. j \in CH /\ c[j].truth \in ClaimCauses /\ c[j].truth \in K
      BY <1>7
    <3> DEFINE i == ClaimedBy(c, j)
    <3>2. i \in CL /\ c[j].truth = CauseOf(c[i])
      BY <1>4, <3>1 DEF Partners, Announces
    <3>3. i \in Q
      BY <3>1, <3>2
    <3>4. c[f[i]].truth \in ClaimCauses
      BY <2>1, <3>1, <3>2, <3>3
    <3> QED BY <1>4, <2>1, <3>1, <3>3, <3>4
  <2> HIDE DEF f, Q
  <2> QED BY ONLY <1>9, <2>2, <2>3, SameSize
<1> QED BY <1>9, <1>10, <1>11 DEF P, R

\* Causes that no log announces: a change that has none of the others has the default
\* of its kind, both in the chain and in the tables.
LEMMA CausesCount ==
  ASSUME NEW c, ChainOK(c), NEW n \in 0..Len(c), NEW t, NEW d \in Int, d # 0,
         \A i \in 1..Len(c) : c[i].tx = t => i <= n,
         NEW T, NEW N \in Nat, NEW C \in Nat, Paired(c, T, n, t, d, N, C),
         Cardinality(Changes(c, n, t, d)) <= MAX_SLOTS,
         NEW X, X \subseteq ClaimCauses \/ X \cap ClaimCauses = {}
  PROVE  Cardinality(CausedBy(c, n, t, d, X)) = Cardinality(RecordedAs(c, T, n, t, d, X))
<1> DEFINE CH == Changes(c, n, t, d)
           D  == IF d > 0 THEN "genesis" ELSE "other_authorized_burn"
<1>1. ASSUME NEW K \in SUBSET ClaimCauses
      PROVE  /\ IsFiniteSet(CausedBy(c, n, t, d, K))
             /\ IsFiniteSet(RecordedAs(c, T, n, t, d, K))
             /\ Cardinality(CausedBy(c, n, t, d, K)) = Cardinality(RecordedAs(c, T, n, t, d, K))
  <2>1. /\ ChainOK(c) /\ n \in 0..Len(c) /\ d # 0 /\ N \in Nat /\ C \in Nat
        /\ \A i \in 1..Len(c) : c[i].tx = t => i <= n
        /\ Paired(c, T, n, t, d, N, C)
        /\ Cardinality(Changes(c, n, t, d)) <= MAX_SLOTS
    OBVIOUS
  <2> QED BY ONLY <2>1, K \in SUBSET ClaimCauses, ClaimedCausesCount
<1>2. CASE X \subseteq ClaimCauses
  BY <1>1, <1>2
<1>3. CASE X \cap ClaimCauses = {}
  <2>1. /\ Len(c) \in Nat /\ n \in Nat
        /\ \A i \in CH : i \in 1..Len(c) /\ IsSupply(c[i]) /\ Delta(c[i]) = d
    BY ChainTypes DEF Changes, Supplies
  <2>2. ASSUME NEW i \in CH
        PROVE  Default(c[i]) = D /\ c[i].truth \in ClaimCauses \cup {D}
    <3>1. ContentOK(c[i]) /\ IsSupply(c[i]) /\ Delta(c[i]) = d
      BY <2>1 DEF ChainOK, LogsOK, LogOK
    <3>2. c[i].event = "Mint" \/ c[i].event = "Burn"
      BY <3>1 DEF IsSupply, SupplyEvents
    <3>3. Default(c[i]) = D
      <4>1. CASE c[i].event = "Mint"
        BY <3>1, <4>1 DEF ContentOK, Delta, Default
      <4>2. CASE c[i].event = "Burn"
        <5>1. c[i].amount \in Nat /\ d = -c[i].amount
          BY <3>1, <4>2 DEF ContentOK, Delta
        <5> QED BY <4>2, <5>1 DEF Default
      <4> QED BY <3>2, <4>1, <4>2
    <3> QED BY <3>1, <3>3 DEF ContentOK
  <2>3. ASSUME NEW i \in CH
        PROVE  T.supplyChange[Row(c, i)].cause \in ClaimCauses \cup {D}
    <3>1. /\ \A k \in 0..(C - 1) :
               T.supplyChange[Change(T, t, d, k)].cause = CauseOf(c[Consumer(T, t, d, k)])
          /\ \/ \E k \in 0..(C - 1) : Change(T, t, d, k) = Row(c, i)
             \/ T.supplyChange[Row(c, i)].cause = Default(c[i])
      BY DEF Paired, CausesFollow
    <3>2. \A l : CauseOf(l) \in ClaimCauses
      BY DEF CauseOf, ClaimCauses
    <3> QED BY <2>2, <3>1, <3>2
  <2> DEFINE P == CausedBy(c, n, t, d, ClaimCauses)
             R == RecordedAs(c, T, n, t, d, ClaimCauses)
             A == CausedBy(c, n, t, d, X)
             B == RecordedAs(c, T, n, t, d, X)
  <2>4. D \notin ClaimCauses
    BY DEF ClaimCauses
  <2>5. CASE D \in X
    <3>1. A = CH \ P /\ B = CH \ R /\ CH \cap P = P /\ CH \cap R = R
      BY <1>3, <2>2, <2>3, <2>4, <2>5 DEF CausedBy, RecordedAs
    <3>2. IsFiniteSet(CH)
      <4>1. n \in Int /\ 1 \in Int /\ CH \in SUBSET (1..n)
        BY <2>1 DEF Changes, Supplies
      <4>2. IsFiniteSet(1..n)
        BY <4>1, FS_Interval
      <4> QED BY <4>1, <4>2, FS_Subset
    <3>3. IsFiniteSet(P) /\ IsFiniteSet(R) /\ Cardinality(P) = Cardinality(R)
      BY <1>1
    <3> HIDE DEF CH, P, R, A, B
    <3>4. /\ Cardinality(CH \ P) = Cardinality(CH) - Cardinality(CH \cap P)
          /\ Cardinality(CH \ R) = Cardinality(CH) - Cardinality(CH \cap R)
      BY ONLY <3>2, FS_Difference
    <3>5. /\ Cardinality(A) = Cardinality(CH) - Cardinality(P)
          /\ Cardinality(B) = Cardinality(CH) - Cardinality(R)
      BY ONLY <3>1, <3>4
    <3> QED BY <3>3, <3>5 DEF A, B
  <2>6. CASE D \notin X
    <3>1. A = {} /\ B = {}
      BY <1>3, <2>2, <2>3, <2>6 DEF CausedBy, RecordedAs
    <3> QED BY <3>1
  <2> QED BY <2>5, <2>6
<1> QED BY <1>2, <1>3

\* In a transaction that was indexed to its last log each cause has as many rows of
\* each amount as the protocol produced, as long as the slots suffice: for any
\* operations in any division into transactions, after any disturbance.
THEOREM RecordedCausesAreTrue == Spec => []CauseTotalsAreTrue
<1>1. IInv => CauseTotalsAreTrue
  <2> SUFFICES ASSUME IInv, NEW t \in IndexedTransactions, NEW d \in Deltas,
                      Cardinality(ChangesOf(t, d)) <= MAX_SLOTS, NEW x \in Causes
               PROVE  Cardinality({i \in ChangesOf(t, d) : chain[i].truth = x})
                        = Cardinality({i \in ChangesOf(t, d) : supplyChange[RowId(i)].cause = x})
    BY DEF CauseTotalsAreTrue
  <2> DEFINE n == highWater
             T == Tables
  <2>1. /\ ChainOK(chain) /\ highWater \in 0..Len(chain) /\ Len(chain) \in Nat
        /\ PairsOK(chain, Tables, highWater) /\ tx \in Nat
    BY ChainTypes DEF IInv, Good, ReaderOK, TablesOK, TxOK
  <2>2. t \in Nat /\ \A i \in 1..Len(chain) : chain[i].tx = t => i <= highWater
    BY <2>1 DEF IndexedTransactions
  <2>3. d \in Int /\ d # 0
    <3>1. PICK i \in 1..Len(chain) : IsSupply(chain[i]) /\ d = Delta(chain[i]) /\ d # 0
      BY DEF Deltas, SupplyPositions, IsSupply
    <3> QED BY <2>1, <3>1, LogTypes
  <2>4. ChangesOf(t, d) = Changes(chain, n, t, d)
    <3>1. \A i \in 1..Len(chain) : chain[i].tx = t => i \in 1..n
      BY <2>1, <2>2
    <3>2. \A i \in 1..n : i \in 1..Len(chain)
      BY <2>1
    <3> QED BY <3>1, <3>2 DEF ChangesOf, SupplyPositions, Changes, Supplies, IsSupply
  <2>5. PICK N \in Nat, C \in Nat : Paired(chain, T, n, t, d, N, C)
    BY <2>1, <2>2, <2>3 DEF PairsOK
  <2>6. Cardinality(Changes(chain, n, t, d)) <= MAX_SLOTS
    BY <2>4
  <2>7. /\ ChainOK(chain) /\ n \in 0..Len(chain) /\ d \in Int /\ d # 0
        /\ N \in Nat /\ C \in Nat
        /\ \A i \in 1..Len(chain) : chain[i].tx = t => i <= n
    BY <2>1, <2>2, <2>3
  <2>8. {i \in ChangesOf(t, d) : chain[i].truth = x} = CausedBy(chain, n, t, d, {x})
    BY <2>4 DEF CausedBy
  <2>9. {i \in ChangesOf(t, d) : supplyChange[RowId(i)].cause = x}
          = RecordedAs(chain, T, n, t, d, {x})
    BY <2>4, TablesAreTheVariables DEF RecordedAs, RowId, Row
  <2> HIDE DEF n, T
  <2> DEFINE X == {x}
  <2>10. X = {x} /\ (X \subseteq ClaimCauses \/ X \cap ClaimCauses = {})
    OBVIOUS
  <2> HIDE DEF X
  <2>11. Cardinality(CausedBy(chain, n, t, d, X)) = Cardinality(RecordedAs(chain, T, n, t, d, X))
    BY ONLY <2>5, <2>6, <2>7, <2>10, CausesCount
  <2> QED BY <2>8, <2>9, <2>10, <2>11
<1> QED BY <1>1, TablesFollowTheLogs, PTL

-----------------------------------------------------------------------------
(***************************************************************************)
(* The fold: it gives each burn a cause that is not used yet, so its claims*)
(* and its labels correspond; and it leaves none unused, since every burn  *)
(* that such a cause fits would have used another, and there are as many   *)
(* burns as causes.                                                        *)
(***************************************************************************)
\* A delivery out of order and with repetitions is the chain again.
LEMMA EveryLogDelivered ==
  ASSUME Len(chain) \in Nat
  PROVE  Ordered(ShuffledChain) = 1..Len(chain)
<1> DEFINE n == Len(chain)
           all == [i \in 1..n |-> i]
           back == [i \in 1..n |-> n - i + 1]
<1> HIDE DEF n
<1>1. n \in Nat
  BY DEF n
<1>2. all \in Seq(1..n) /\ Len(all) = n
  BY <1>1
<1>3. back \in Seq(1..n) /\ Len(back) = n
  <2>1. \A i \in 1..n : n - i + 1 \in 1..n
    BY <1>1
  <2> QED BY <1>1, <2>1
<1>4. Reverse(all) = back
  <2>1. \A i \in 1..n : all[n - i + 1] = n - i + 1
    <3>1. \A i \in 1..n : n - i + 1 \in 1..n
      BY <1>1
    <3> QED BY <3>1
  <2> QED BY <1>2, <2>1 DEF Reverse
<1>5. ShuffledChain = back \o all
  BY <1>4 DEF ShuffledChain, n
<1>6. \A i \in 1..n : all[i] = i
  OBVIOUS
<1> HIDE DEF all, back
<1>7. /\ back \o all \in Seq(1..n) /\ Len(back \o all) = Len(back) + Len(all)
      /\ \A i \in 1..Len(all) : (back \o all)[Len(back) + i] = all[i]
  <2> DEFINE R == 1..n
  <2>1. back \in Seq(R) /\ all \in Seq(R)
    BY <1>2, <1>3
  <2> HIDE DEF R
  <2>2. /\ back \o all \in Seq(R) /\ Len(back \o all) = Len(back) + Len(all)
        /\ \A i \in 1..Len(all) : (back \o all)[Len(back) + i] = all[i]
    BY ONLY <2>1, Concatenation
  <2> QED BY <2>2 DEF R
<1>8. /\ DOMAIN (back \o all) = 1..(n + n)
      /\ \A i \in 1..(n + n) : (back \o all)[i] \in 1..n
      /\ \A i \in 1..n : n + i \in 1..(n + n) /\ (back \o all)[n + i] = i
  BY <1>1, <1>2, <1>3, <1>6, <1>7
<1>9. {(back \o all)[i] : i \in 1..(n + n)} = 1..n
  <2> DEFINE s == back \o all
  <2> HIDE DEF s
  <2>1. \A i \in 1..n : \E k \in 1..(n + n) : s[k] = i
    BY <1>8 DEF s
  <2>2. \A k \in 1..(n + n) : s[k] \in 1..n
    BY <1>8 DEF s
  <2>3. {s[k] : k \in 1..(n + n)} = 1..n
    BY <2>1, <2>2
  <2> QED BY <2>3 DEF s
<1> QED BY <1>5, <1>8, <1>9 DEF Ordered, ToSet, n

Nothing == [rows |-> <<>>, consumed |-> {}, ambiguities |-> {}]

\* f is the table of what the fold has after each of the first n positions.
IsAttribution(f, ordered, n) ==
  f = [k \in 0..n |-> IF k = 0 THEN Nothing ELSE AfterLog(ordered, f[k - 1], k)]

LEMMA AttributionExists ==
  ASSUME NEW n \in Nat, NEW ordered
  PROVE  \E f : IsAttribution(f, ordered, n)
<1> DEFINE Bad == {k \in 0..n : ~ \E f : IsAttribution(f, ordered, k)}
<1>1. SUFFICES ASSUME Bad # {} PROVE FALSE
  <2>1. n \in 0..n /\ n \notin Bad
    BY <1>1
  <2> QED BY <2>1
<1>2. PICK m \in Bad : \A j \in Bad : m <= j
  <2>1. Bad \in SUBSET (0..n)
    OBVIOUS
  <2> HIDE DEF Bad
  <2> QED BY <1>1, <2>1, LeastNumber
<1>3. m \in 0..n /\ ~ \E f : IsAttribution(f, ordered, m)
  OBVIOUS
<1>4. m # 0
  <2>1. IsAttribution([k \in 0..0 |-> Nothing], ordered, 0)
    <3>1. \A k \in 0..0 : k = 0
      OBVIOUS
    <3> QED BY <3>1 DEF IsAttribution
  <2> QED BY <1>3, <2>1
<1>5. PICK f : IsAttribution(f, ordered, m - 1)
  <2>1. m - 1 \in 0..n /\ m - 1 \notin Bad
    BY <1>2, <1>3, <1>4
  <2> QED BY <2>1
<1> HIDE DEF Bad
<1> DEFINE g == [k \in 0..m |-> IF k = m THEN AfterLog(ordered, f[m - 1], m) ELSE f[k]]
           h == [k \in 0..m |-> IF k = 0 THEN Nothing ELSE AfterLog(ordered, g[k - 1], k)]
<1>6. /\ \A k \in 0..(m - 1) : g[k] = f[k]
      /\ g[m] = AfterLog(ordered, f[m - 1], m)
  BY <1>3, <1>4
<1>7. \A k \in 0..(m - 1) : f[k] = IF k = 0 THEN Nothing ELSE AfterLog(ordered, f[k - 1], k)
  <2> DEFINE b == [k \in 0..(m - 1) |-> IF k = 0 THEN Nothing ELSE AfterLog(ordered, f[k - 1], k)]
  <2>1. f = b
    BY <1>5 DEF IsAttribution
  <2>2. \A k \in 0..(m - 1) : b[k] = IF k = 0 THEN Nothing ELSE AfterLog(ordered, f[k - 1], k)
    OBVIOUS
  <2> HIDE DEF b
  <2> QED BY <2>1, <2>2
<1>8. \A k \in 0..m : h[k] = g[k]
  <2> TAKE k \in 0..m
  <2>1. h[k] = IF k = 0 THEN Nothing ELSE AfterLog(ordered, g[k - 1], k)
    OBVIOUS
  <2> HIDE DEF g, h
  <2>2. CASE k = m
    <3>1. m - 1 \in 0..(m - 1)
      BY <1>3, <1>4
    <3>2. g[m - 1] = f[m - 1]
      BY <1>6, <3>1
    <3> QED BY <1>4, <1>6, <2>1, <2>2, <3>2
  <2>3. CASE k # m
    <3>1. k \in 0..(m - 1) /\ (k # 0 => k - 1 \in 0..(m - 1))
      BY <1>3, <2>3
    <3>2. g[k] = f[k] /\ (k # 0 => g[k - 1] = f[k - 1])
      BY <1>6, <3>1
    <3>3. f[k] = IF k = 0 THEN Nothing ELSE AfterLog(ordered, f[k - 1], k)
      BY <1>7, <3>1
    <3> QED BY <2>1, <3>2, <3>3
  <2> QED BY <2>2, <2>3
<1>9. g = h
  <2>1. g = [k \in 0..m |-> g[k]] /\ h = [k \in 0..m |-> h[k]]
    OBVIOUS
  <2> HIDE DEF g, h
  <2> QED BY <1>8, <2>1
<1>10. IsAttribution(g, ordered, m)
  <2> HIDE DEF g
  <2> QED BY <1>9 DEF IsAttribution
<1> QED BY <1>3, <1>10

LEMMA AttributionUnfolds ==
  ASSUME Len(chain) \in Nat, NEW ordered
  PROVE  \E f : /\ Attribute(ordered) = f[Len(chain)] /\ f[0] = Nothing
                /\ \A k \in 1..Len(chain) : f[k] = AfterLog(ordered, f[k - 1], k)
<1> DEFINE n == Len(chain)
           g == CHOOSE f : IsAttribution(f, ordered, n)
<1>1. Attribute(ordered) = g[n]
  BY DEF Attribute, IsAttribution, Nothing
<1>2. IsAttribution(g, ordered, n)
  BY AttributionExists
<1> HIDE DEF g
<1>3. \A k \in 0..n : g[k] = IF k = 0 THEN Nothing ELSE AfterLog(ordered, g[k - 1], k)
  <2> DEFINE b == [k \in 0..n |-> IF k = 0 THEN Nothing ELSE AfterLog(ordered, g[k - 1], k)]
  <2>1. g = b
    BY <1>2 DEF IsAttribution
  <2>2. \A k \in 0..n : b[k] = IF k = 0 THEN Nothing ELSE AfterLog(ordered, g[k - 1], k)
    OBVIOUS
  <2> HIDE DEF b
  <2> QED BY <2>1, <2>2
<1>4. g[0] = Nothing /\ \A k \in 1..n : g[k] = AfterLog(ordered, g[k - 1], k)
  <2>1. 0 \in 0..n /\ \A k \in 1..n : k \in 0..n /\ k # 0
    OBVIOUS
  <2> QED BY <1>3, <2>1
<1> QED BY <1>1, <1>4

\* A figure of the fold's final pass, and the Reserve's balance by recursion.
LEMMA RunningTotal ==
  ASSUME NEW n \in Nat, NEW S \in SUBSET (1..n), NEW f \in [S -> Int],
         NEW b, b[0] = 0,
         \A k \in 1..n : b[k] = b[k - 1] + (IF k \in S THEN f[k] ELSE 0)
  PROVE  SumFunction(f) = b[n]
<1> DEFINE F == PartialSums(f, S)
           Upto(k) == S \cap (1..k)
           Bad == {k \in 0..n : F[Upto(k)] # b[k]}
<1>1. IsFiniteSet(S)
  <2>1. IsFiniteSet(1..n)
    BY FS_Interval
  <2> QED BY <2>1, FS_Subset
<1>2. SumFunction(f) = F[S] /\ Upto(n) = S
  <2>1. DOMAIN f = S
    OBVIOUS
  <2> QED BY <2>1, SumIsPartialSum
<1>3. /\ F[{}] = 0
      /\ \A s \in SUBSET S : \A x \in s : F[s] = f[x] + F[s \ {x}]
      /\ \A s \in SUBSET S : F[s] \in Int
  <2>1. F[{}] = 0
    BY <1>1, PartialSumsUnfold
  <2>2. \A s \in SUBSET S : \A x \in s : F[s] = f[x] + F[s \ {x}]
    <3>1. f \in [S -> Int]
      OBVIOUS
    <3> QED BY ONLY <1>1, <3>1, PartialSumsRemove
  <2>3. \A s \in SUBSET S : F[s] \in Int
    BY <1>1, PartialSumsInt
  <2> QED BY <2>1, <2>2, <2>3
<1> HIDE DEF F
<1>4. SUFFICES ASSUME Bad # {} PROVE FALSE
  <2>1. n \in 0..n
    OBVIOUS
  <2>2. n \notin Bad
    <3> HIDE DEF Bad
    <3> QED BY <1>4
  <2>3. F[Upto(n)] = b[n]
    BY <2>1, <2>2
  <2> QED BY <1>2, <2>3
<1>5. PICK m \in Bad : \A j \in Bad : m <= j
  <2>1. Bad \in SUBSET (0..n)
    OBVIOUS
  <2> HIDE DEF Bad
  <2> QED BY <1>4, <2>1, LeastNumber
<1>6. m \in 0..n /\ F[Upto(m)] # b[m]
  OBVIOUS
<1>7. m # 0
  <2>1. Upto(0) = {}
    OBVIOUS
  <2> HIDE DEF Upto
  <2> QED BY <1>3, <1>6, <2>1
<1>8. m - 1 \in 0..n /\ m \in 1..n /\ F[Upto(m - 1)] = b[m - 1]
  <2>1. m - 1 \in 0..n /\ m - 1 \notin Bad
    BY <1>5, <1>6, <1>7
  <2> QED BY <1>6, <1>7, <2>1
<1>9. CASE m \in S
  <2>1. /\ Upto(m) \in SUBSET S /\ m \in Upto(m)
        /\ Upto(m) \ {m} = Upto(m - 1) /\ Upto(m - 1) \in SUBSET S
    BY <1>6, <1>8, <1>9
  <2> HIDE DEF Upto
  <2>2. F[Upto(m)] = f[m] + F[Upto(m - 1)] /\ f[m] \in Int /\ F[Upto(m - 1)] \in Int
    <3> HIDE DEF Bad
    <3>1. F[Upto(m)] = f[m] + F[Upto(m) \ {m}]
      BY <1>3, <2>1
    <3>2. F[Upto(m - 1)] \in Int
      BY <1>3, <2>1
    <3> QED BY <1>9, <2>1, <3>1, <3>2
  <2> QED BY <1>6, <1>8, <1>9, <2>2
<1>10. CASE m \notin S
  <2>1. Upto(m) = Upto(m - 1) /\ Upto(m - 1) \in SUBSET S
    BY <1>6, <1>8, <1>10
  <2> HIDE DEF Upto
  <2>2. F[Upto(m - 1)] \in Int
    BY <1>3, <2>1
  <2> QED BY <1>6, <1>8, <1>10, <2>1, <2>2
<1> QED BY <1>9, <1>10

LEMMA BackingIsTheBalance ==
  ASSUME ChainOK(chain)
  PROVE  Backing(1..Len(chain)) = ReserveBalance
<1> DEFINE n == Len(chain)
           S == {i \in 1..n : chain[i].event = "Weth"}
           f == [i \in S |-> chain[i].amount]
           v == [i \in 1..n |-> IF chain[i].event = "Weth" THEN chain[i].amount ELSE 0]
           Body(g) == [k \in 0..n |-> IF k = 0 THEN 0
                         ELSE g[k - 1] + (IF chain[k].event = "Weth" THEN chain[k].amount ELSE 0)]
           b == CHOOSE g : g = Body(g)
<1>1. n \in Nat /\ \A i \in 1..n : chain[i].event = "Weth" => chain[i].amount \in Int
  BY LogTypes, ChainTypes DEF LogOK, ContentOK
<1>2. ReserveBalance = b[n]
  BY DEF ReserveBalance
<1>3. v \in [1..n -> Int]
  BY <1>1
<1>4. \E g : g = Body(g)
  <2> DEFINE next == [k \in 1..n |-> k - 1]
             step == [k \in 1..n |-> [x \in Int |-> x + v[k]]]
  <2>1. next \in [1..n -> Nat] /\ \A k \in 1..n : next[k] < k
    BY <1>1
  <2>2. step \in [1..n -> [Int -> Int]]
    <3>1. \A k \in 1..n : v[k] \in Int
      BY <1>3
    <3> HIDE DEF v
    <3> QED BY <3>1
  <2>3. \A k \in 1..n : next[k] = k - 1 /\ \A x \in Int : step[k][x] = x + v[k]
    OBVIOUS
  <2>4. \A k \in 1..n : v[k] = IF chain[k].event = "Weth" THEN chain[k].amount ELSE 0
    OBVIOUS
  <2> HIDE DEF n, v, next, step, Body
  <2>5. PICK g \in [0..n -> Int] : IsRecursion(g, n, 0, next, step)
    BY <1>1, <2>1, <2>2, 0 \in Int, RecursionExists
  <2>6. \A k \in 1..n : k - 1 \in 0..n /\ g[k] = g[k - 1] + v[k]
    <3> TAKE k \in 1..n
    <3>1. k - 1 \in 0..n
      BY <1>1
    <3>2. g[k - 1] \in Int
      BY <2>5, <3>1
    <3> QED BY <2>3, <2>5, <3>1, <3>2 DEF IsRecursion
  <2>7. g[0] = 0
    BY <2>5 DEF IsRecursion
  <2>8. \A k \in 0..n : g[k] = Body(g)[k]
    <3> TAKE k \in 0..n
    <3>1. Body(g)[k] = IF k = 0 THEN 0
            ELSE g[k - 1] + (IF chain[k].event = "Weth" THEN chain[k].amount ELSE 0)
      BY DEF Body
    <3>2. k = 0 \/ k \in 1..n
      BY <1>1
    <3> QED BY <2>4, <2>6, <2>7, <3>1, <3>2
  <2>9. Body(g) = [k \in 0..n |-> Body(g)[k]]
    BY DEF Body
  <2>10. g = [k \in 0..n |-> g[k]]
    BY <2>5
  <2> QED BY <2>8, <2>9, <2>10
<1>5. b = Body(b)
  BY <1>4
<1> HIDE DEF b
<1>6. b[0] = 0 /\ \A k \in 1..n : b[k] = b[k - 1] + (IF k \in S THEN f[k] ELSE 0)
  <2>1. \A k \in 0..n : b[k] = IF k = 0 THEN 0
           ELSE b[k - 1] + (IF chain[k].event = "Weth" THEN chain[k].amount ELSE 0)
    <3> DEFINE x == Body(b)
    <3>1. \A k \in 0..n : x[k] = IF k = 0 THEN 0
             ELSE b[k - 1] + (IF chain[k].event = "Weth" THEN chain[k].amount ELSE 0)
      OBVIOUS
    <3> HIDE DEF x
    <3> QED BY <1>5, <3>1 DEF x
  <2>2. 0 \in 0..n /\ \A k \in 1..n : k \in 0..n /\ k # 0
    BY <1>1
  <2> QED BY <2>1, <2>2
<1>7. f \in [S -> Int] /\ S \in SUBSET (1..n)
  BY <1>1
<1>8. Backing(1..n) = SumFunction(f)
  BY DEF Backing
<1> HIDE DEF n, S, f, Body
<1>9. SumFunction(f) = b[n]
  BY ONLY <1>1, <1>6, <1>7, RunningTotal
<1> QED BY <1>2, <1>8, <1>9 DEF n

-----------------------------------------------------------------------------
BurnEvents == {"Redeemed", "VyrfHarvest", "VuxRevenueBurned"}

\* The label of a change that claimed a cause of this event.
LabelOf(event) == IF event = "Settled" THEN "settlement_mint" ELSE CauseOfEvent[event]

\* The log b can explain the change a.
Explains(b, a) ==
  /\ b.tx = a.tx /\ b.amount = a.amount
  /\ IF a.event = "Mint" THEN b.event = "Settled" ELSE b.event \in BurnEvents

\* A log that claims a burn could have: the fold may give it another.
MayClaim(b, a) ==
  a.event = "Burn" /\ Explains(b, a) /\ b.event \in {"Redeemed", "VyrfHarvest"}

\* The fold prefers a redemption to a harvest, and both to a burn of revenue.
Precedes(used, event) ==
  /\ event = "Redeemed" => used = "Redeemed"
  /\ event = "VyrfHarvest" => used \in {"Redeemed", "VyrfHarvest"}

\* Of the first n logs the changes in D have claimed a cause, each its own, W[i].
Claiming(acc, n, D, W) ==
  /\ D \subseteq Supplies(chain, n) /\ W \in [D -> 1..Len(chain)]
  /\ \A i, j \in D : W[i] = W[j] => i = j
  /\ \A i \in D : Explains(chain[W[i]], chain[i])
  /\ acc.consumed = {W[i] : i \in D}

\* Every change has its row, labelled by what it claimed, or by default.
Labelled(acc, n, D, W) ==
  /\ DOMAIN acc.rows = {Row(chain, i) : i \in Supplies(chain, n)}
  /\ \A i \in Supplies(chain, n) :
       /\ acc.rows[Row(chain, i)].delta = Delta(chain[i])
       /\ acc.rows[Row(chain, i)].cause
            = IF i \in D THEN LabelOf(chain[W[i]].event) ELSE Default(chain[i])

\* The claimed cause a burn has instead of one that it could have had.
Outbid(n, D, W, j) ==
  \A i \in Supplies(chain, n) :
    MayClaim(chain[j], chain[i]) => i \in D /\ Precedes(chain[W[i]].event, chain[j].event)

AccFields == {"rows", "consumed", "ambiguities"}

Folded(acc, n, D, W) ==
  /\ DOMAIN acc = AccFields
  /\ Claiming(acc, n, D, W) /\ Labelled(acc, n, D, W)
  /\ \A j \in 1..Len(chain) : j \notin acc.consumed => Outbid(n, D, W, j)

FoldInv(acc, n) == \E D, W : Folded(acc, n, D, W)

\* The position n is no change.
LEMMA NothingFolded ==
  ASSUME NEW n \in Nat, NEW acc, FoldInv(acc, n - 1), n > 0, ~IsSupply(chain[n])
  PROVE  FoldInv(acc, n)
<1>1. Supplies(chain, n) = Supplies(chain, n - 1)
  BY DEF Supplies
<1> QED BY <1>1 DEF FoldInv, Folded, Claiming, Labelled, Outbid

\* The row of a change is written; nothing can explain it any more.
LEMMA UnexplainedFolded ==
  ASSUME NEW n \in Nat, n > 0, n <= Len(chain), Len(chain) \in Nat,
         IsSupply(chain[n]), NEW acc, FoldInv(acc, n - 1),
         NEW acc2, DOMAIN acc2 = AccFields, NEW row,
         acc2.rows = With(acc.rows, Row(chain, n), row),
         row.delta = Delta(chain[n]), row.cause = Default(chain[n]),
         acc2.consumed = acc.consumed,
         \A j \in 1..Len(chain) : j \notin acc.consumed => ~MayClaim(chain[j], chain[n])
  PROVE  FoldInv(acc2, n)
<1>1. PICK D, W : Folded(acc, n - 1, D, W)
  BY DEF FoldInv
<1>2. /\ Supplies(chain, n) = Supplies(chain, n - 1) \cup {n}
      /\ n \notin Supplies(chain, n - 1)
  BY DEF Supplies
<1>3. n \notin D
  BY <1>1, <1>2 DEF Folded, Claiming
<1>4. Claiming(acc2, n, D, W)
  BY <1>1, <1>2 DEF Folded, Claiming
<1>5. Labelled(acc2, n, D, W)
  <2>1. DOMAIN acc2.rows = {Row(chain, i) : i \in Supplies(chain, n)}
    BY <1>1, <1>2 DEF Folded, Labelled, With
  <2>2. acc2.rows[Row(chain, n)] = row
    BY DEF With
  <2>3. \A i \in Supplies(chain, n - 1) : acc2.rows[Row(chain, i)] = acc.rows[Row(chain, i)]
    <3>1. \A i \in Supplies(chain, n - 1) :
            Row(chain, i) \in DOMAIN acc.rows /\ Row(chain, i) # Row(chain, n)
      BY <1>1, <1>2 DEF Folded, Labelled, Row
    <3> QED BY <3>1 DEF With
  <2> QED BY <1>1, <1>2, <1>3, <2>1, <2>2, <2>3 DEF Folded, Labelled
<1>6. ASSUME NEW j \in 1..Len(chain), j \notin acc2.consumed PROVE Outbid(n, D, W, j)
  <2>1. j \notin acc.consumed /\ Outbid(n - 1, D, W, j)
    BY <1>1, <1>6 DEF Folded
  <2> QED BY <1>2, <2>1 DEF Outbid
<1> QED BY <1>4, <1>5, <1>6 DEF FoldInv, Folded

\* The row of a change is written, and it claims the m-th log.
LEMMA ExplainedFolded ==
  ASSUME NEW n \in Nat, n > 0, n <= Len(chain), Len(chain) \in Nat,
         IsSupply(chain[n]), NEW acc, FoldInv(acc, n - 1),
         NEW acc2, DOMAIN acc2 = AccFields, NEW row,
         acc2.rows = With(acc.rows, Row(chain, n), row),
         NEW m \in 1..Len(chain), m \notin acc.consumed,
         Explains(chain[m], chain[n]),
         row.delta = Delta(chain[n]), row.cause = LabelOf(chain[m].event),
         acc2.consumed = acc.consumed \cup {m},
         \A j \in 1..Len(chain) : j \notin acc.consumed /\ MayClaim(chain[j], chain[n]) =>
           Precedes(chain[m].event, chain[j].event)
  PROVE  FoldInv(acc2, n)
<1>1. PICK D, W : Folded(acc, n - 1, D, W)
  BY DEF FoldInv
<1> DEFINE E == D \cup {n}
           V == [i \in E |-> IF i = n THEN m ELSE W[i]]
<1>2. /\ Supplies(chain, n) = Supplies(chain, n - 1) \cup {n}
      /\ n \notin Supplies(chain, n - 1)
  BY DEF Supplies
<1>3. n \notin D /\ D \subseteq Supplies(chain, n - 1)
  BY <1>1, <1>2 DEF Folded, Claiming
<1>4. /\ V[n] = m /\ \A i \in D : V[i] = W[i]
      /\ \A i \in E : i = n \/ i \in D
      /\ DOMAIN V = E /\ n \in E /\ \A i \in D : i \in E
  BY <1>3
<1>5. V = [i \in E |-> V[i]]
  OBVIOUS
<1>6. /\ W \in [D -> 1..Len(chain)]
      /\ \A i, j \in D : W[i] = W[j] => i = j
      /\ \A i \in D : Explains(chain[W[i]], chain[i])
      /\ acc.consumed = {W[i] : i \in D}
  BY <1>1 DEF Folded, Claiming
<1>7. \A i \in D : W[i] \in acc.consumed /\ W[i] # m
  BY <1>6
<1> HIDE DEF V
<1>8. Claiming(acc2, n, E, V)
  <2>1. E \subseteq Supplies(chain, n)
    BY <1>2, <1>3
  <2>2. V \in [E -> 1..Len(chain)]
    <3>1. \A i \in E : V[i] \in 1..Len(chain)
      BY <1>4, <1>6
    <3> HIDE DEF E
    <3> QED BY <1>5, <3>1
  <2>3. \A i, j \in E : V[i] = V[j] => i = j
    BY <1>4, <1>6, <1>7
  <2>4. \A i \in E : Explains(chain[V[i]], chain[i])
    BY <1>4, <1>6
  <2>5. acc2.consumed = {V[i] : i \in E}
    <3>1. \A x : x \in acc2.consumed <=> x = m \/ \E i \in D : x = W[i]
      <4>1. acc2.consumed = acc.consumed \cup {m}
        OBVIOUS
      <4>2. acc.consumed = {W[i] : i \in D}
        BY <1>6
      <4> QED BY ONLY <4>1, <4>2
    <3>2. \A x : x \in {V[i] : i \in E} <=> \E i \in E : x = V[i]
      OBVIOUS
    <3>3. \A x : x \in {V[i] : i \in E} <=> x = m \/ \E i \in D : x = W[i]
      BY <1>4, <3>2
    <3> DEFINE X == acc2.consumed
               Y == {V[i] : i \in E}
    <3>4. \A x : x \in X <=> x \in Y
      BY <3>1, <3>3
    <3> HIDE DEF X, Y
    <3>5. X = Y
      BY ONLY <3>4
    <3> QED BY <3>5 DEF X, Y
  <2> QED BY <2>1, <2>2, <2>3, <2>4, <2>5 DEF Claiming
<1>9. Labelled(acc2, n, E, V)
  <2>1. DOMAIN acc2.rows = {Row(chain, i) : i \in Supplies(chain, n)}
    BY <1>1, <1>2 DEF Folded, Labelled, With
  <2>2. acc2.rows[Row(chain, n)] = row
    BY DEF With
  <2>3. \A i \in Supplies(chain, n - 1) : acc2.rows[Row(chain, i)] = acc.rows[Row(chain, i)]
    <3>1. \A i \in Supplies(chain, n - 1) :
            Row(chain, i) \in DOMAIN acc.rows /\ Row(chain, i) # Row(chain, n)
      BY <1>1, <1>2 DEF Folded, Labelled, Row
    <3> QED BY <3>1 DEF With
  <2>4. ASSUME NEW i \in Supplies(chain, n)
        PROVE  /\ acc2.rows[Row(chain, i)].delta = Delta(chain[i])
               /\ acc2.rows[Row(chain, i)].cause
                    = IF i \in E THEN LabelOf(chain[V[i]].event) ELSE Default(chain[i])
    <3>1. CASE i = n
      BY <1>4, <2>2, <3>1
    <3>2. CASE i # n
      <4>1. i \in Supplies(chain, n - 1) /\ (i \in E <=> i \in D)
        BY <1>2, <1>4, <3>2
      <4>2. /\ acc.rows[Row(chain, i)].delta = Delta(chain[i])
            /\ acc.rows[Row(chain, i)].cause
                 = IF i \in D THEN LabelOf(chain[W[i]].event) ELSE Default(chain[i])
        BY <1>1, <4>1 DEF Folded, Labelled
      <4> QED BY <1>4, <2>3, <4>1, <4>2
    <3> QED BY <3>1, <3>2
  <2> QED BY <2>1, <2>4 DEF Labelled
<1>10. ASSUME NEW j \in 1..Len(chain), j \notin acc2.consumed PROVE Outbid(n, E, V, j)
  <2>1. j \notin acc.consumed
    BY <1>10
  <2>2. Outbid(n - 1, D, W, j)
    BY <1>1, <2>1 DEF Folded
  <2> SUFFICES ASSUME NEW i \in Supplies(chain, n), MayClaim(chain[j], chain[i])
               PROVE  i \in E /\ Precedes(chain[V[i]].event, chain[j].event)
    BY DEF Outbid
  <2>3. CASE i = n
    BY <1>4, <2>1, <2>3
  <2>4. CASE i # n
    <3>1. i \in D /\ Precedes(chain[W[i]].event, chain[j].event)
      BY <1>2, <2>2, <2>4 DEF Outbid
    <3> QED BY <1>4, <3>1
  <2> QED BY <2>3, <2>4
<1> HIDE DEF E
<1> QED BY <1>8, <1>9, <1>10 DEF FoldInv, Folded

\* The fields of an accumulator after a step.
LEMMA Accumulates ==
  ASSUME NEW acc, DOMAIN acc = AccFields, NEW r, NEW s, NEW a
  PROVE  LET x == [acc EXCEPT !.rows = r, !.consumed = s]
             y == [acc EXCEPT !.rows = r, !.consumed = s, !.ambiguities = a]
         IN  /\ DOMAIN x = AccFields /\ x.rows = r /\ x.consumed = s
             /\ DOMAIN y = AccFields /\ y.rows = r /\ y.consumed = s
<1> DEFINE w == [acc EXCEPT !.rows = r]
           x == [w EXCEPT !.consumed = s]
           y == [x EXCEPT !.ambiguities = a]
<1>1. DOMAIN w = AccFields /\ w.rows = r
  BY DEF AccFields
<1> HIDE DEF w
<1>2. DOMAIN x = AccFields /\ x.rows = r /\ x.consumed = s
  BY <1>1 DEF AccFields
<1> HIDE DEF x
<1>3. DOMAIN y = AccFields /\ y.rows = r /\ y.consumed = s
  BY <1>2 DEF AccFields
<1> QED BY <1>2, <1>3 DEF w, x, y

LEMMA ChangeRow ==
  \A delta, cause, epoch :
    SupplyChange(delta, cause, epoch).delta = delta
      /\ SupplyChange(delta, cause, epoch).cause = cause
BY DEF SupplyChange

\* Which settlement a transaction has, if any.
LEMMA SettlementFound ==
  ASSUME Len(chain) \in Nat, NEW t
  PROVE  LET s == SettledOf(1..Len(chain), t)
         IN  s # 0 => s \in 1..Len(chain) /\ chain[s].tx = t /\ chain[s].event = "Settled"
<1> DEFINE found == {i \in 1..Len(chain) : chain[i].tx = t /\ chain[i].event = "Settled"}
<1>1. found \in SUBSET (0..Len(chain))
  OBVIOUS
<1>2. found # {} => Max(found) \in found
  <2> HIDE DEF found
  <2> QED BY <1>1, MaxIsGreatest
<1>3. SettledOf(1..Len(chain), t) = IF found = {} THEN 0 ELSE Max(found)
  BY DEF SettledOf
<1> QED BY <1>2, <1>3

LEMMA MintFolded ==
  ASSUME Len(chain) \in Nat, NEW n \in 1..Len(chain), chain[n].event = "Mint",
         NEW acc, FoldInv(acc, n - 1)
  PROVE  FoldInv(AfterMint(1..Len(chain), acc, n), n)
<1> DEFINE s     == SettledOf(1..Len(chain), chain[n].tx)
           hit   == s # 0 /\ s \notin acc.consumed /\ chain[s].amount = chain[n].amount
           cause == IF hit THEN "settlement_mint" ELSE "genesis"
           row   == SupplyChange(Delta(chain[n]), cause, IF hit THEN chain[s].epoch ELSE 0)
           r     == With(acc.rows, Row(chain, n), row)
           k     == IF hit THEN acc.consumed \cup {s} ELSE acc.consumed
           x     == [acc EXCEPT !.rows = r, !.consumed = k]
<1>1. AfterMint(1..Len(chain), acc, n) = x
  BY DEF AfterMint, RowId, Row
<1>2. DOMAIN acc = AccFields
  BY DEF FoldInv, Folded
<1>3. row.delta = Delta(chain[n]) /\ row.cause = cause
  BY ChangeRow
<1>4. s # 0 => s \in 1..Len(chain) /\ chain[s].tx = chain[n].tx /\ chain[s].event = "Settled"
  BY SettlementFound
<1>5. n \in Nat /\ n > 0 /\ n <= Len(chain) /\ IsSupply(chain[n]) /\ chain[n].event # "Burn"
  BY DEF IsSupply, SupplyEvents
<1> HIDE DEF row, r, k
<1>6. DOMAIN x = AccFields /\ x.rows = r /\ x.consumed = k
  BY <1>2, Accumulates
<1>9. x.rows = With(acc.rows, Row(chain, n), row)
  BY <1>6 DEF r
<1> HIDE DEF x, s
<1>7. CASE hit
  <2>1. /\ s \in 1..Len(chain) /\ s \notin acc.consumed /\ k = acc.consumed \cup {s}
        /\ Explains(chain[s], chain[n])
        /\ row.cause = LabelOf(chain[s].event)
    BY <1>3, <1>4, <1>7 DEF Explains, LabelOf, k
  <2>2. x.consumed = acc.consumed \cup {s}
    BY <1>6, <2>1
  <2>3. /\ Len(chain) \in Nat /\ FoldInv(acc, n - 1)
        /\ row.cause = LabelOf(chain[s].event) /\ row.delta = Delta(chain[n])
    BY <1>3, <2>1
  <2>4. \A j \in 1..Len(chain) : j \notin acc.consumed /\ MayClaim(chain[j], chain[n]) =>
          Precedes(chain[s].event, chain[j].event)
    BY <1>5 DEF MayClaim
  <2> HIDE DEF hit, cause
  <2>5. DOMAIN x = AccFields
    BY <1>6
  <2>6. FoldInv(x, n)
    BY ONLY <1>5, <1>9, <2>1, <2>2, <2>3, <2>4, <2>5, ExplainedFolded
  <2> QED BY <1>1, <2>6
<1>8. CASE ~hit
  <2>1. row.cause = Default(chain[n]) /\ k = acc.consumed
    BY <1>3, <1>8 DEF Default, k
  <2>2. x.consumed = acc.consumed /\ DOMAIN x = AccFields
    BY <1>6, <2>1
  <2>3. /\ Len(chain) \in Nat /\ FoldInv(acc, n - 1)
        /\ row.cause = Default(chain[n]) /\ row.delta = Delta(chain[n])
    BY <1>3, <2>1
  <2>4. \A j \in 1..Len(chain) : j \notin acc.consumed => ~MayClaim(chain[j], chain[n])
    BY <1>5 DEF MayClaim
  <2> HIDE DEF hit, cause
  <2>5. FoldInv(x, n)
    BY ONLY <1>5, <1>9, <2>2, <2>3, <2>4, UnexplainedFolded
  <2> QED BY <1>1, <2>5
<1> QED BY <1>7, <1>8

LEMMA KindsOfBurns ==
  /\ \A k \in 1..3 : BurnCauses[k] \in BurnEvents
  /\ \A event \in BurnEvents : \E k \in 1..3 : BurnCauses[k] = event
  /\ \A k, l \in 1..3 : k <= l => Precedes(BurnCauses[k], BurnCauses[l])
<1>1. /\ BurnCauses[1] = "Redeemed" /\ BurnCauses[2] = "VyrfHarvest"
      /\ BurnCauses[3] = "VuxRevenueBurned"
      /\ \A k \in 1..3 : k = 1 \/ k = 2 \/ k = 3
  BY DEF BurnCauses
<1>2. ASSUME NEW k \in 1..3, NEW l \in 1..3, k <= l
      PROVE  Precedes(BurnCauses[k], BurnCauses[l])
  <2>1. \/ k = 1 /\ l \in {1, 2, 3}
        \/ k = 2 /\ l \in {2, 3}
        \/ k = 3 /\ l = 3
    BY <1>2
  <2> QED BY <1>1, <2>1 DEF Precedes
<1> QED BY <1>1, <1>2 DEF BurnEvents

LEMMA BurnFolded ==
  ASSUME Len(chain) \in Nat, NEW n \in 1..Len(chain), chain[n].event = "Burn",
         NEW acc, FoldInv(acc, n - 1)
  PROVE  FoldInv(AfterBurn(1..Len(chain), acc, n), n)
<1> DEFINE all       == 1..Len(chain)
           Fits(e)   == Matching(all, acc.consumed, n, e)
           kinds     == {k \in 1..3 : Fits(BurnCauses[k]) # {}}
           event     == BurnCauses[Min(kinds)]
           m         == Min(Fits(event))
           cause     == IF kinds = {} THEN "other_authorized_burn" ELSE CauseOfEvent[event]
           row       == SupplyChange(Delta(chain[n]), cause, 0)
           r         == With(acc.rows, Row(chain, n), row)
           used      == IF kinds = {} THEN acc.consumed ELSE acc.consumed \cup {m}
           a         == IF Cardinality(kinds) > 1 THEN acc.ambiguities \cup {n} ELSE acc.ambiguities
           x         == [acc EXCEPT !.rows = r, !.consumed = used, !.ambiguities = a]
<1>1. AfterBurn(all, acc, n) = x
  BY DEF AfterBurn, RowId, Row
<1>2. DOMAIN acc = AccFields
  BY DEF FoldInv, Folded
<1>3. row.delta = Delta(chain[n]) /\ row.cause = cause
  <2> HIDE DEF cause
  <2> QED BY ChangeRow
<1>4. n \in Nat /\ n > 0 /\ n <= Len(chain) /\ IsSupply(chain[n])
  BY DEF IsSupply, SupplyEvents
<1>5. \A e \in BurnEvents : \A j : j \in Fits(e) <=>
        /\ j \in 1..Len(chain) /\ j \notin acc.consumed
        /\ Explains(chain[j], chain[n]) /\ chain[j].event = e
  BY DEF Matching, Explains
<1> HIDE DEF Fits, row, r, used, a, m
<1>6. DOMAIN x = AccFields /\ x.rows = r /\ x.consumed = used
  BY <1>2, Accumulates
<1>10. x.rows = With(acc.rows, Row(chain, n), row) /\ DOMAIN x = AccFields
  BY <1>6 DEF r
<1> HIDE DEF x
<1>7. ASSUME NEW j \in 1..Len(chain), j \notin acc.consumed, Explains(chain[j], chain[n])
      PROVE  \E l \in kinds : chain[j].event = BurnCauses[l]
  <2>1. chain[j].event \in BurnEvents
    BY <1>7 DEF Explains
  <2>2. PICK l \in 1..3 : BurnCauses[l] = chain[j].event
    BY <2>1, KindsOfBurns
  <2>3. j \in Fits(BurnCauses[l])
    BY <1>5, <1>7, <2>1, <2>2
  <2> QED BY <2>2, <2>3
<1>8. CASE kinds = {}
  <2>1. row.cause = Default(chain[n]) /\ used = acc.consumed
    BY <1>3, <1>8 DEF Default, used
  <2>2. \A j \in 1..Len(chain) : j \notin acc.consumed => ~Explains(chain[j], chain[n])
    BY <1>7, <1>8
  <2>3. /\ Len(chain) \in Nat /\ FoldInv(acc, n - 1) /\ x.consumed = acc.consumed
        /\ row.cause = Default(chain[n]) /\ row.delta = Delta(chain[n])
    BY <1>3, <1>6, <2>1
  <2>4. \A j \in 1..Len(chain) : j \notin acc.consumed => ~MayClaim(chain[j], chain[n])
    BY <2>2 DEF MayClaim
  <2> HIDE DEF kinds, cause
  <2>5. FoldInv(x, n)
    BY ONLY <1>4, <1>10, <2>3, <2>4, UnexplainedFolded
  <2> QED BY <1>1, <2>5
<1>9. CASE kinds # {}
  <2> DEFINE k == Min(kinds)
  <2>1. k \in kinds /\ \A l \in kinds : k <= l
    <3>1. kinds \in SUBSET (0..3)
      OBVIOUS
    <3> HIDE DEF kinds
    <3> QED BY <1>9, <3>1, MinIsLeast, 3 \in Nat
  <2>2. k \in 1..3 /\ Fits(event) # {}
    BY <2>1
  <2>3. event \in BurnEvents
    BY <2>2, KindsOfBurns
  <2>4. m \in Fits(event)
    <3> DEFINE F == Fits(event)
    <3>1. \A j \in F : j \in 0..Len(chain)
      <4> HIDE DEF event
      <4> QED BY <1>5, <2>3
    <3>2. F # {}
      BY <2>2
    <3> HIDE DEF F
    <3>3. F \in SUBSET (0..Len(chain)) /\ Len(chain) \in Nat
      BY <3>1
    <3>4. Min(F) \in F
      BY ONLY <3>2, <3>3, MinIsLeast
    <3> QED BY <3>4 DEF F, m
  <2>5. /\ m \in 1..Len(chain) /\ m \notin acc.consumed
        /\ Explains(chain[m], chain[n]) /\ chain[m].event = event
    BY <1>5, <2>3, <2>4
  <2>6. row.cause = LabelOf(chain[m].event) /\ used = acc.consumed \cup {m}
    BY <1>3, <1>9, <2>3, <2>5 DEF LabelOf, BurnEvents, used
  <2>7. ASSUME NEW j \in 1..Len(chain), j \notin acc.consumed, Explains(chain[j], chain[n])
        PROVE  Precedes(chain[m].event, chain[j].event)
    <3>1. PICK l \in kinds : chain[j].event = BurnCauses[l]
      BY <1>7, <2>7
    <3>2. l \in 1..3 /\ k <= l
      BY <2>1
    <3> QED BY <2>2, <2>5, <3>1, <3>2, KindsOfBurns
  <2> HIDE DEF kinds, event
  <2>8. /\ Len(chain) \in Nat /\ FoldInv(acc, n - 1) /\ x.consumed = acc.consumed \cup {m}
        /\ row.cause = LabelOf(chain[m].event) /\ row.delta = Delta(chain[n])
    BY <1>3, <1>6, <2>6
  <2>9. \A j \in 1..Len(chain) : j \notin acc.consumed /\ MayClaim(chain[j], chain[n]) =>
          Precedes(chain[m].event, chain[j].event)
    BY <2>7 DEF MayClaim
  <2> HIDE DEF cause
  <2>10. FoldInv(x, n)
    BY ONLY <1>4, <1>10, <2>5, <2>8, <2>9, ExplainedFolded
  <2> QED BY <1>1, <2>10
<1> QED BY <1>8, <1>9

\* What the fold has in the end.
LEMMA FoldEnds ==
  ASSUME Len(chain) \in Nat
  PROVE  FoldInv(Attribute(1..Len(chain)), Len(chain))
<1> DEFINE n == Len(chain)
<1>1. PICK f : /\ Attribute(1..n) = f[n] /\ f[0] = Nothing
               /\ \A k \in 1..n : f[k] = AfterLog(1..n, f[k - 1], k)
  BY AttributionUnfolds
<1> DEFINE Bad == {k \in 0..n : ~FoldInv(f[k], k)}
<1>2. SUFFICES ASSUME Bad # {} PROVE FALSE
  <2>1. n \in 0..n /\ n \notin Bad
    BY <1>2
  <2> QED BY <1>1, <2>1
<1>3. PICK m \in Bad : \A j \in Bad : m <= j
  <2>1. Bad \in SUBSET (0..n)
    OBVIOUS
  <2> HIDE DEF Bad
  <2> QED BY <1>2, <2>1, LeastNumber
<1>4. m \in 0..n /\ ~FoldInv(f[m], m)
  OBVIOUS
<1>5. m # 0
  <2>1. Supplies(chain, 0) = {}
    BY DEF Supplies
  <2>2. /\ DOMAIN Nothing = AccFields /\ DOMAIN Nothing.rows = {} /\ Nothing.consumed = {}
    BY DEF Nothing, AccFields
  <2> DEFINE W == [i \in {} |-> 0]
  <2>3. W \in [{} -> 1..n] /\ {W[i] : i \in {}} = {} /\ {Row(chain, i) : i \in {}} = {}
    OBVIOUS
  <2> HIDE DEF W
  <2>4. Folded(Nothing, 0, {}, W)
    BY <2>1, <2>2, <2>3 DEF Folded, Claiming, Labelled, Outbid
  <2>5. FoldInv(Nothing, 0)
    BY <2>4 DEF FoldInv
  <2> QED BY <1>1, <1>4, <2>5
<1>6. m \in 1..n /\ m \in Nat /\ FoldInv(f[m - 1], m - 1) /\ f[m] = AfterLog(1..n, f[m - 1], m)
  <2>1. m - 1 \in 0..n /\ m - 1 \notin Bad /\ m \in 1..n
    BY <1>3, <1>4, <1>5
  <2>2. FoldInv(f[m - 1], m - 1)
    BY <2>1
  <2> QED BY <1>1, <2>1, <2>2
<1> HIDE DEF Bad
<1>7. CASE chain[m].event = "Mint"
  BY <1>4, <1>6, <1>7, MintFolded DEF AfterLog
<1>8. CASE chain[m].event = "Burn"
  BY <1>4, <1>6, <1>8, BurnFolded DEF AfterLog
<1>9. CASE ~IsSupply(chain[m])
  <2>1. f[m] = f[m - 1]
    BY <1>6, <1>9 DEF AfterLog, IsSupply, SupplyEvents
  <2> QED BY <1>4, <1>6, <1>9, <2>1, NothingFolded
<1> QED BY <1>7, <1>8, <1>9 DEF IsSupply, SupplyEvents

-----------------------------------------------------------------------------
\* R pairs each term of f with one of h, and leaves none of these out but zeros.
PairsTerms(R, A, f, B, h) ==
  /\ \A x \in A : \E b \in B : <<x, b>> \in R
  /\ \A b \in B : h[b] # 0 => \E x \in A : <<x, b>> \in R
  /\ \A x \in A, b \in B : <<x, b>> \in R => h[b] = f[x]
  /\ \A x, y \in A, b \in B : <<x, b>> \in R /\ <<y, b>> \in R => x = y
  /\ \A x \in A, b, k \in B : <<x, b>> \in R /\ <<x, k>> \in R => b = k

LEMMA TotalsPaired ==
  ASSUME NEW A, IsFiniteSet(A), NEW f \in [A -> Int],
         NEW B, IsFiniteSet(B), NEW h \in [B -> Int],
         NEW R, PairsTerms(R, A, f, B, h)
  PROVE  SumFunction(f) = SumFunction(h)
<1> DEFINE g == [x \in A |-> CHOOSE b \in B : <<x, b>> \in R]
<1>1. \A x \in A : g[x] \in B /\ <<x, g[x]>> \in R
  BY DEF PairsTerms
<1>2. g \in [A -> B] /\ \A x, y \in A : g[x] = g[y] => x = y
  BY <1>1 DEF PairsTerms
<1>3. \A x \in A : h[g[x]] = f[x]
  BY <1>1 DEF PairsTerms
<1>4. \A b \in B : h[b] # 0 => \E x \in A : g[x] = b
  BY <1>1 DEF PairsTerms
<1> HIDE DEF g
<1>5. IsFiniteSet(A) /\ f \in [A -> Int] /\ IsFiniteSet(B) /\ h \in [B -> Int]
  OBVIOUS
<1> QED BY ONLY <1>2, <1>3, <1>4, <1>5, TotalsCorrespond

\* The burns that the fold and the handlers tell apart by the event of their cause.
EventOf(cause) == IF cause = "redemption_burn" THEN "Redeemed" ELSE "VyrfHarvest"

ToldApart == {"redemption_burn", "vyrf_burn"}

Announced(event) == {j \in 1..Len(chain) : chain[j].event = event}
Burned(event)    == [j \in Announced(event) |-> -chain[j].amount]

LEMMA AnnouncedTypes ==
  ASSUME ChainOK(chain), NEW event \in {"Redeemed", "VyrfHarvest"}
  PROVE  /\ Len(chain) \in Nat /\ IsFiniteSet(Announced(event))
         /\ Burned(event) \in [Announced(event) -> Int]
         /\ \A j \in Announced(event) :
              /\ j \in 1..Len(chain) /\ j \in Nat /\ j # 0 /\ chain[j].event = event
              /\ chain[j].amount \in Nat /\ chain[j].tx \in Nat
              /\ Burned(event)[j] = -chain[j].amount
              /\ Claimed(chain[j]) = -chain[j].amount
              /\ IsClaim(chain[j]) <=> chain[j].amount # 0
<1>1. Len(chain) \in Nat
  BY ChainTypes
<1>2. ASSUME NEW j \in Announced(event)
      PROVE  /\ j \in 1..Len(chain) /\ j \in Nat /\ j # 0 /\ chain[j].event = event
             /\ chain[j].amount \in Nat /\ chain[j].tx \in Nat
             /\ Burned(event)[j] = -chain[j].amount
             /\ Claimed(chain[j]) = -chain[j].amount
             /\ IsClaim(chain[j]) <=> chain[j].amount # 0
  <2>1. j \in 1..Len(chain) /\ chain[j].event = event
    BY DEF Announced
  <2>2. LogOK(chain[j])
    BY <2>1, LogTypes
  <2>3. chain[j].amount \in Nat /\ chain[j].tx \in Nat
    BY <2>1, <2>2 DEF LogOK, ContentOK
  <2> QED BY <1>1, <2>1, <2>3 DEF Burned, Claimed, IsClaim
<1>3. IsFiniteSet(Announced(event))
  <2>1. IsFiniteSet(1..Len(chain))
    BY <1>1, FS_Interval
  <2> QED BY <2>1, FS_Subset DEF Announced
<1>4. Burned(event) \in [Announced(event) -> Int]
  <2>1. \A j \in Announced(event) : -chain[j].amount \in Int
    BY <1>2
  <2> QED BY <2>1 DEF Burned
<1> QED BY <1>1, <1>2, <1>3, <1>4

\* The fold leaves no claim unused.  If it left one, every burn of its amount would
\* have used another, but these are as many as the claims.
LEMMA AllConsumed ==
  ASSUME ChainOK(chain), NEW acc, NEW D, NEW W, Folded(acc, Len(chain), D, W),
         NEW event \in {"Redeemed", "VyrfHarvest"},
         NEW j \in Announced(event), chain[j].amount # 0
  PROVE  \E i \in D : W[i] = j
<1> DEFINE n  == Len(chain)
           t  == chain[j].tx
           d  == Claimed(chain[j])
           CH == Changes(chain, n, t, d)
           CL == Claims(chain, n, t, d)
<1>1. /\ n \in Nat /\ j \in 1..n /\ chain[j].event = event /\ IsClaim(chain[j])
      /\ chain[j].amount \in Nat /\ d = -chain[j].amount /\ d # 0 /\ d < 0
  BY AnnouncedTypes
<1>2. SUFFICES ASSUME ~ \E i \in D : W[i] = j PROVE FALSE
  OBVIOUS
<1>3. /\ W \in [D -> 1..n] /\ \A i, k \in D : W[i] = W[k] => i = k
      /\ \A i \in D : Explains(chain[W[i]], chain[i])
      /\ acc.consumed = {W[i] : i \in D}
  BY DEF Folded, Claiming
<1>4. Outbid(n, D, W, j)
  <2>1. j \notin acc.consumed
    BY <1>2, <1>3
  <2> QED BY <1>1, <2>1 DEF Folded
<1>5. ASSUME NEW i \in CH
      PROVE  i \in D /\ W[i] \in CL \ {j}
  <2>1. /\ i \in Supplies(chain, n) /\ i \in 1..n /\ IsSupply(chain[i])
        /\ chain[i].tx = t /\ Delta(chain[i]) = d
    BY DEF Changes, Supplies
  <2>2. ContentOK(chain[i])
    BY <2>1, LogTypes DEF LogOK
  <2>3. chain[i].amount \in Nat
    BY <2>1, <2>2 DEF ContentOK, IsSupply, SupplyEvents
  <2>4. chain[i].event = "Burn" /\ chain[i].amount = chain[j].amount
    <3>1. chain[i].event # "Mint"
      BY <1>1, <2>1, <2>3 DEF Delta
    <3>2. -chain[i].amount = -chain[j].amount
      BY <1>1, <2>1, <3>1 DEF Delta
    <3> QED BY <1>1, <2>1, <2>3, <3>1, <3>2 DEF IsSupply, SupplyEvents
  <2>5. MayClaim(chain[j], chain[i])
    BY <1>1, <2>1, <2>4 DEF MayClaim, Explains, BurnEvents
  <2>6. i \in D /\ Precedes(chain[W[i]].event, event)
    BY <1>1, <1>4, <2>1, <2>5 DEF Outbid
  <2> DEFINE w == W[i]
  <2>7. /\ w \in 1..n /\ chain[w].tx = t /\ chain[w].amount = chain[j].amount
        /\ chain[w].event \in {"Redeemed", "VyrfHarvest"}
    BY <1>3, <2>1, <2>4, <2>6 DEF Explains, Precedes
  <2> HIDE DEF w
  <2>8. w \in CL
    BY <1>1, <2>7 DEF Claims, IsClaim, Claimed
  <2> QED BY <1>2, <2>6, <2>8 DEF w
<1>6. j \in CL
  BY <1>1 DEF Claims
<1>7. IsFiniteSet(CL) /\ IsFiniteSet(CH)
  <2>1. n \in Int /\ 1 \in Int
    BY <1>1
  <2>2. IsFiniteSet(1..n)
    BY <2>1, FS_Interval
  <2> QED BY <2>2, FS_Subset DEF Claims, Changes, Supplies
<1>8. \E g : g \in [CL -> CH] /\ \A i, k \in CL : g[i] = g[k] => i = k
  <2>1. \A i \in CL : \E k \in CH : ClaimedBy(chain, k) = i
    <3>1. n \in 0..n /\ \A i \in 1..n : chain[i].tx = t => i <= n
      BY <1>1
    <3> HIDE DEF n, t, d
    <3>2. \A i \in 1..Len(chain) : chain[i].tx = t => i <= n
      BY <3>1 DEF n
    <3>3. n \in 0..Len(chain)
      BY <3>1 DEF n
    <3> QED BY <1>1, <3>2, <3>3, ClaimsCorrespond
  <2> HIDE DEF CL, CH
  <2> DEFINE g == [i \in CL |-> CHOOSE k \in CH : ClaimedBy(chain, k) = i]
  <2>2. \A i \in CL : g[i] \in CH /\ ClaimedBy(chain, g[i]) = i
    BY <2>1
  <2>3. g \in [CL -> CH] /\ \A i, k \in CL : g[i] = g[k] => i = k
    BY <2>2
  <2> QED BY <2>3
<1>9. Cardinality(CL) <= Cardinality(CH)
  <2> HIDE DEF CL, CH
  <2> QED BY <1>7, <1>8, Exhausts
<1> DEFINE f == [i \in CH |-> W[i]]
<1>10. f \in [CH -> CL] /\ (\A i, k \in CH : f[i] = f[k] => i = k) /\ \A i \in CH : f[i] # j
  <2> HIDE DEF CL, CH
  <2> QED BY <1>3, <1>5
<1> HIDE DEF CL, CH, f
<1>11. \A i \in CL : \E k \in CH : f[k] = i
  BY ONLY <1>7, <1>9, <1>10, Exhausts
<1> QED BY <1>6, <1>10, <1>11

\* The fold's total of such a cause is what its events say was burned.
LEMMA FoldTotal ==
  ASSUME ChainOK(chain), NEW acc, FoldInv(acc, Len(chain)), NEW x \in ToldApart
  PROVE  TotalBy(acc.rows, {x}) = SumFunction(Burned(EventOf(x)))
<1> DEFINE n == Len(chain)
           e == EventOf(x)
           B == Announced(e)
           h == Burned(e)
           A == {id \in DOMAIN acc.rows : acc.rows[id].cause \in {x}}
           f == [id \in A |-> acc.rows[id].delta]
<1>1. PICK D, W : Folded(acc, n, D, W)
  BY DEF FoldInv
<1>2. e \in {"Redeemed", "VyrfHarvest"}
  BY DEF EventOf, ToldApart
<1>3. n \in Nat /\ IsFiniteSet(B) /\ h \in [B -> Int]
  BY <1>2, AnnouncedTypes
<1>4. /\ D \subseteq Supplies(chain, n) /\ W \in [D -> 1..n]
      /\ \A i, j \in D : W[i] = W[j] => i = j
      /\ \A i \in D : Explains(chain[W[i]], chain[i])
  BY <1>1 DEF Folded, Claiming
<1>5. /\ DOMAIN acc.rows = {Row(chain, i) : i \in Supplies(chain, n)}
      /\ \A i \in Supplies(chain, n) :
           /\ acc.rows[Row(chain, i)].delta = Delta(chain[i])
           /\ acc.rows[Row(chain, i)].cause
                = IF i \in D THEN LabelOf(chain[W[i]].event) ELSE Default(chain[i])
  BY <1>1 DEF Folded, Labelled
<1>6. ASSUME NEW i \in Supplies(chain, n)
      PROVE  acc.rows[Row(chain, i)].cause = x <=> i \in D /\ chain[W[i]].event = e
  <2>1. Default(chain[i]) # x
    BY DEF Default, ToldApart
  <2>2. CASE i \in D
    <3> DEFINE w == chain[W[i]]
    <3>1. w.event = "Settled" \/ w.event \in BurnEvents
      BY <1>4, <2>2 DEF Explains
    <3> HIDE DEF w
    <3>2. LabelOf(w.event) = x <=> w.event = e
      BY <3>1 DEF LabelOf, CauseOfEvent, BurnEvents, EventOf, ToldApart
    <3> QED BY <1>5, <2>2, <3>2 DEF w
  <2>3. CASE i \notin D
    BY <1>5, <2>1, <2>3
  <2> QED BY <2>2, <2>3
<1>7. ASSUME NEW i \in D, chain[W[i]].event = e
      PROVE  /\ Row(chain, i) \in A /\ W[i] \in B
             /\ f[Row(chain, i)] = h[W[i]]
  <2>1. i \in Supplies(chain, n) /\ W[i] \in B
    BY <1>4, <1>7 DEF Announced
  <2>2. Row(chain, i) \in A
    BY <1>5, <1>6, <1>7, <2>1
  <2>3. f[Row(chain, i)] = Delta(chain[i])
    BY <1>5, <2>1, <2>2
  <2>4. chain[i].event = "Burn" /\ chain[i].amount = chain[W[i]].amount
    <3>1. Explains(chain[W[i]], chain[i]) /\ chain[W[i]].event # "Settled"
      BY <1>2, <1>4, <1>7
    <3> QED BY <2>1, <3>1 DEF Explains, Supplies, IsSupply, SupplyEvents
  <2>5. h[W[i]] = -chain[W[i]].amount
    BY <1>2, <2>1, AnnouncedTypes
  <2> QED BY <2>1, <2>2, <2>3, <2>4, <2>5 DEF Delta
<1>8. ASSUME NEW id \in A
      PROVE  \E i \in D : id = Row(chain, i) /\ chain[W[i]].event = e
  <2>1. PICK i \in Supplies(chain, n) : id = Row(chain, i)
    BY <1>5
  <2> QED BY <1>6, <2>1
<1>9. ASSUME NEW j \in B, h[j] # 0
      PROVE  \E i \in D : W[i] = j /\ chain[W[i]].event = e
  <2>1. chain[j].amount # 0 /\ chain[j].event = e
    BY <1>2, <1>9, AnnouncedTypes
  <2> QED BY <1>1, <1>2, <2>1, AllConsumed
<1>10. \A i, j : Row(chain, i) = Row(chain, j) => i = j
  BY DEF Row
<1>11. IsFiniteSet(A)
  <2>1. IsFiniteSet(Supplies(chain, n))
    <3>1. n \in Int /\ 1 \in Int
      BY <1>3
    <3>2. IsFiniteSet(1..n)
      BY <3>1, FS_Interval
    <3> QED BY <3>2, FS_Subset DEF Supplies
  <2> DEFINE S == Supplies(chain, n)
             r == [i \in S |-> Row(chain, i)]
             X == DOMAIN acc.rows
  <2>2. /\ r \in [S -> X] /\ \A i, j \in S : r[i] = r[j] => i = j
        /\ \A b \in X : \E i \in S : r[i] = b
    BY <1>5, <1>10
  <2> HIDE DEF S, r, X
  <2>3. IsFiniteSet(X)
    BY <2>1, <2>2, SameSize DEF S
  <2> QED BY <2>3, FS_Subset DEF X
<1>12. \A id \in A : f[id] \in Int
  <2> TAKE id \in A
  <2>1. PICK i \in D : id = Row(chain, i) /\ chain[W[i]].event = e
    BY <1>8
  <2>2. f[id] = h[W[i]] /\ W[i] \in B
    BY <1>7, <2>1
  <2> QED BY <1>3, <2>2
<1>13. f \in [A -> Int]
  BY <1>12
<1>14. TotalBy(acc.rows, {x}) = SumFunction(f)
  BY DEF TotalBy
<1> HIDE DEF A, B, f, h, e
<1> DEFINE R == {<<Row(chain, i), W[i]>> : i \in {k \in D : chain[W[k]].event = e}}
<1>15. \A id, j : <<id, j>> \in R <=>
          \E i \in D : id = Row(chain, i) /\ j = W[i] /\ chain[W[i]].event = e
  OBVIOUS
<1> HIDE DEF R
<1>16. /\ \A id \in A : \E j \in B : <<id, j>> \in R
       /\ \A j \in B : h[j] # 0 => \E id \in A : <<id, j>> \in R
       /\ \A id \in A, j \in B : <<id, j>> \in R => h[j] = f[id]
  <2>1. ASSUME NEW id \in A PROVE \E j \in B : <<id, j>> \in R
    BY <1>7, <1>8, <1>15
  <2>2. ASSUME NEW j \in B, h[j] # 0 PROVE \E id \in A : <<id, j>> \in R
    BY <1>7, <1>9, <1>15, <2>2
  <2>3. ASSUME NEW id \in A, NEW j \in B, <<id, j>> \in R PROVE h[j] = f[id]
    BY <1>7, <1>15, <2>3
  <2> QED BY <2>1, <2>2, <2>3
<1>17. /\ \A id, v \in A, j \in B : <<id, j>> \in R /\ <<v, j>> \in R => id = v
       /\ \A id \in A, j, k \in B : <<id, j>> \in R /\ <<id, k>> \in R => j = k
  <2>1. ASSUME NEW id, NEW v, NEW j, <<id, j>> \in R, <<v, j>> \in R PROVE id = v
    BY <1>4, <1>15, <2>1
  <2>2. ASSUME NEW id, NEW j, NEW k, <<id, j>> \in R, <<id, k>> \in R PROVE j = k
    BY <1>10, <1>15, <2>2
  <2> QED BY <2>1, <2>2
<1>18. PairsTerms(R, A, f, B, h)
  BY ONLY <1>16, <1>17 DEF PairsTerms
<1>19. SumFunction(f) = SumFunction(h)
  BY ONLY <1>3, <1>11, <1>13, <1>18, TotalsPaired
<1> QED BY <1>14, <1>19 DEF h, e

\* The slot of its transaction and amount that the claim j consumed is of the row id.
Took(T, j, id) ==
  \E k \in 0..(MAX_SLOTS - 1) :
    LET t == chain[j].tx
        d == Claimed(chain[j])
    IN  /\ SlotId(t, d, k) \in DOMAIN T.pairs
        /\ Change(T, t, d, k) = id /\ Consumer(T, t, d, k) = j

\* That row is of a change of the same transaction and amount, and has its cause; no
\* other claim took it and the claim took no other.
LEMMA TookOne ==
  ASSUME ChainOK(chain), NEW T, NEW n \in Nat, PairsOK(chain, T, n),
         NEW j \in Nat \ {0}, chain[j].tx \in Nat, Claimed(chain[j]) \in Int
  PROVE  /\ \A id : Took(T, j, id) =>
              \E i \in Changes(chain, n, chain[j].tx, Claimed(chain[j])) :
                /\ id = Row(chain, i)
                /\ T.supplyChange[id].cause = CauseOf(chain[j])
         /\ \A id, v : Took(T, j, id) /\ Took(T, j, v) => id = v
         /\ \A l \in Nat \ {0} : \A id :
              /\ chain[l].tx = chain[j].tx /\ Claimed(chain[l]) = Claimed(chain[j])
              /\ Took(T, j, id) /\ Took(T, l, id)
              => l = j
<1> DEFINE t == chain[j].tx
           d == Claimed(chain[j])
<1>1. PICK N \in Nat, C \in Nat : Paired(chain, T, n, t, d, N, C)
  BY DEF PairsOK
<1>2. /\ C <= N /\ N <= MAX_SLOTS /\ MAX_SLOTS \in Nat
      /\ \A k \in 0..(MAX_SLOTS - 1) : SlotId(t, d, k) \in DOMAIN T.pairs <=> k < N
      /\ \A k \in 0..(N - 1) : \E i \in Changes(chain, n, t, d) : Change(T, t, d, k) = Row(chain, i)
      /\ \A k, l \in 0..(N - 1) : Change(T, t, d, k) = Change(T, t, d, l) => k = l
      /\ \A k \in C..(N - 1) : Consumer(T, t, d, k) = 0
      /\ \A k, l \in 0..(C - 1) : Consumer(T, t, d, k) = Consumer(T, t, d, l) => k = l
      /\ \A k \in 0..(C - 1) :
           T.supplyChange[Change(T, t, d, k)].cause = CauseOf(chain[Consumer(T, t, d, k)])
  BY <1>1, IndexerAssumption DEF Paired, SlotsStand, SlotsConsumed, CausesFollow
<1>3. \A l \in Nat \ {0} : \A id : chain[l].tx = t /\ Claimed(chain[l]) = d /\ Took(T, l, id) =>
        \E k \in 0..(C - 1) :
          k \in 0..(N - 1) /\ Change(T, t, d, k) = id /\ Consumer(T, t, d, k) = l
  <2> SUFFICES ASSUME NEW l \in Nat \ {0}, NEW id, chain[l].tx = t, Claimed(chain[l]) = d,
                      Took(T, l, id)
               PROVE  \E k \in 0..(C - 1) :
                        k \in 0..(N - 1) /\ Change(T, t, d, k) = id /\ Consumer(T, t, d, k) = l
    OBVIOUS
  <2>1. PICK k \in 0..(MAX_SLOTS - 1) :
          /\ SlotId(t, d, k) \in DOMAIN T.pairs
          /\ Change(T, t, d, k) = id /\ Consumer(T, t, d, k) = l
    BY DEF Took
  <2>2. k \in 0..(N - 1)
    BY <1>2, <2>1
  <2>3. k \in 0..(C - 1)
    BY <1>2, <2>1, <2>2
  <2> QED BY <2>1, <2>2, <2>3
<1>4. ASSUME NEW id, Took(T, j, id)
      PROVE  \E i \in Changes(chain, n, t, d) :
               id = Row(chain, i) /\ T.supplyChange[id].cause = CauseOf(chain[j])
  <2>1. PICK k \in 0..(C - 1) :
          k \in 0..(N - 1) /\ Change(T, t, d, k) = id /\ Consumer(T, t, d, k) = j
    BY <1>3, <1>4
  <2> QED BY <1>2, <2>1
<1>5. ASSUME NEW id, NEW v, Took(T, j, id), Took(T, j, v) PROVE id = v
  <2>1. /\ \E k \in 0..(C - 1) : Change(T, t, d, k) = id /\ Consumer(T, t, d, k) = j
        /\ \E k \in 0..(C - 1) : Change(T, t, d, k) = v /\ Consumer(T, t, d, k) = j
    BY <1>3, <1>5
  <2> QED BY <1>2, <2>1
<1>6. ASSUME NEW l \in Nat \ {0}, NEW id, chain[l].tx = t, Claimed(chain[l]) = d,
             Took(T, j, id), Took(T, l, id)
      PROVE  l = j
  <2>1. /\ \E k \in 0..(N - 1) : Change(T, t, d, k) = id /\ Consumer(T, t, d, k) = j
        /\ \E k \in 0..(N - 1) : Change(T, t, d, k) = id /\ Consumer(T, t, d, k) = l
    BY <1>3, <1>6
  <2> QED BY <1>2, <2>1
<1> QED BY <1>4, <1>5, <1>6

\* Where the slots suffice, a claim took a row.
LEMMA ClaimTakes ==
  ASSUME ChainOK(chain), NEW T, PairsOK(chain, T, Len(chain)),
         NEW t \in Nat, NEW d \in Int, d # 0,
         Cardinality(Changes(chain, Len(chain), t, d)) <= MAX_SLOTS,
         NEW j \in Claims(chain, Len(chain), t, d)
  PROVE  \E id : Took(T, j, id)
<1> DEFINE n == Len(chain)
<1>1. PICK N \in Nat, C \in Nat : Paired(chain, T, n, t, d, N, C)
  BY DEF PairsOK
<1>2. /\ ChainOK(chain) /\ n \in 0..Len(chain) /\ d # 0 /\ N \in Nat /\ C \in Nat
      /\ \A i \in 1..Len(chain) : chain[i].tx = t => i <= n
      /\ Paired(chain, T, n, t, d, N, C)
      /\ Cardinality(Changes(chain, n, t, d)) <= MAX_SLOTS
  BY <1>1, ChainTypes
<1>3. chain[j].tx = t /\ Claimed(chain[j]) = d
  BY DEF Claims
<1> HIDE DEF n
<1>4. AllPaired(chain, T, n, t, d, N, C)
  BY ONLY <1>2, SlotsSuffice
<1>5. PICK k \in 0..(C - 1) : Consumer(T, t, d, k) = j
  BY <1>4 DEF n, AllPaired
<1>6. C <= N /\ N <= MAX_SLOTS /\ MAX_SLOTS \in Nat
  BY <1>1, IndexerAssumption DEF Paired
<1>7. k \in 0..(MAX_SLOTS - 1) /\ k < N
  BY <1>6
<1>8. SlotId(t, d, k) \in DOMAIN T.pairs
  BY <1>1, <1>7 DEF Paired, SlotsStand
<1>9. Took(T, j, Change(T, t, d, k))
  BY <1>3, <1>5, <1>7, <1>8 DEF Took
<1> QED BY <1>9

\* The handlers' total of such a cause is what its events say was burned.
LEMMA ReplicaTotal ==
  ASSUME ChainOK(chain), NEW T, TablesOK(chain, T, Len(chain)), NEW x \in ToldApart,
         \A t \in Nat, d \in Int \ {0} : Claims(chain, Len(chain), t, d) # {} =>
           Cardinality(Changes(chain, Len(chain), t, d)) <= MAX_SLOTS
  PROVE  TotalBy(T.supplyChange, {x}) = SumFunction(Burned(EventOf(x)))
<1> DEFINE n == Len(chain)
           e == EventOf(x)
           B == Announced(e)
           h == Burned(e)
           A == {id \in DOMAIN T.supplyChange : T.supplyChange[id].cause \in {x}}
           f == [id \in A |-> T.supplyChange[id].delta]
           R == {p \in A \X B : Took(T, p[2], p[1])}
<1>1. e \in {"Redeemed", "VyrfHarvest"}
  BY DEF EventOf, ToldApart
<1>2. n \in Nat /\ IsFiniteSet(B) /\ h \in [B -> Int]
  BY <1>1, AnnouncedTypes
<1>3. /\ ChangesOK(chain, T, n) /\ PairsOK(chain, T, n)
      /\ DOMAIN T.supplyChange = {Row(chain, i) : i \in Supplies(chain, n)}
      /\ \A i \in Supplies(chain, n) : T.supplyChange[Row(chain, i)].delta = Delta(chain[i])
  BY DEF TablesOK, ChangesOK
<1>4. \A i, j : Row(chain, i) = Row(chain, j) => i = j
  BY DEF Row
<1>5. \A log : IsClaim(log) => (CauseOf(log) = x <=> log.event = e)
  BY DEF IsClaim, CauseOf, EventOf, ToldApart
\* A row of that cause was taken.
<1>6. ASSUME NEW id \in A
      PROVE  \E j \in B : chain[j].amount # 0 /\ Took(T, j, id)
  <2>1. PICK i \in Supplies(chain, n) : id = Row(chain, i)
    BY <1>3
  <2> DEFINE t == chain[i].tx
             d == Delta(chain[i])
  <2>2. i \in 1..n /\ IsSupply(chain[i]) /\ t \in Nat /\ d \in Int /\ i \in Changes(chain, n, t, d)
    <3>1. i \in 1..n /\ IsSupply(chain[i])
      BY <2>1 DEF Supplies
    <3>2. t \in Nat /\ d \in Int
      BY <3>1, LogTypes
    <3> QED BY <2>1, <3>1, <3>2 DEF Changes
  <2> HIDE DEF t, d
  <2>3. PICK N \in Nat, C \in Nat : Paired(chain, T, n, t, d, N, C)
    BY <1>3, <2>2 DEF PairsOK
  <2>4. T.supplyChange[id].cause = x /\ x # Default(chain[i])
    BY DEF Default, ToldApart
  <2>5. PICK k \in 0..(C - 1) : Change(T, t, d, k) = id
    BY <2>1, <2>2, <2>3, <2>4 DEF Paired, CausesFollow
  <2> DEFINE j == Consumer(T, t, d, k)
  <2>6. /\ C <= N /\ N <= MAX_SLOTS /\ MAX_SLOTS \in Nat
        /\ j \in Claims(chain, n, t, d) /\ T.supplyChange[id].cause = CauseOf(chain[j])
    BY <2>3, <2>5, IndexerAssumption DEF Paired, SlotsConsumed, CausesFollow
  <2>7. k \in 0..(MAX_SLOTS - 1) /\ k < N
    BY <2>6
  <2>8. SlotId(t, d, k) \in DOMAIN T.pairs
    BY <2>3, <2>7 DEF Paired, SlotsStand
  <2> HIDE DEF j
  <2>9. j \in 1..n /\ IsClaim(chain[j]) /\ chain[j].tx = t /\ Claimed(chain[j]) = d
    BY <2>6 DEF Claims
  <2>10. chain[j].event = e /\ j \in B
    BY <1>5, <2>4, <2>6, <2>9 DEF Announced
  <2>11. Took(T, j, id)
    BY <2>5, <2>7, <2>8, <2>9 DEF Took, j
  <2>12. chain[j].amount # 0
    BY <1>1, <2>9, <2>10, AnnouncedTypes
  <2> QED BY <2>10, <2>11, <2>12
\* A claim of that event took a row, which is of that cause and amount.
<1>7. ASSUME NEW j \in B, NEW id, Took(T, j, id), chain[j].amount # 0
      PROVE  id \in A /\ f[id] = h[j]
  <2>1. /\ j \in Nat \ {0} /\ chain[j].tx \in Nat /\ Claimed(chain[j]) \in Int
        /\ IsClaim(chain[j]) /\ chain[j].event = e /\ h[j] = Claimed(chain[j])
    BY <1>1, <1>7, AnnouncedTypes
  <2>2. PICK i \in Changes(chain, n, chain[j].tx, Claimed(chain[j])) :
          id = Row(chain, i) /\ T.supplyChange[id].cause = CauseOf(chain[j])
    BY <1>2, <1>3, <1>7, <2>1, TookOne
  <2>3. i \in Supplies(chain, n) /\ Delta(chain[i]) = Claimed(chain[j])
    BY <2>2 DEF Changes
  <2>4. id \in A
    BY <1>3, <1>5, <2>1, <2>2, <2>3
  <2> QED BY <1>3, <2>1, <2>2, <2>3, <2>4
<1>8. ASSUME NEW j \in B, chain[j].amount # 0
      PROVE  \E id : Took(T, j, id)
  <2> DEFINE t == chain[j].tx
             d == Claimed(chain[j])
  <2>1. /\ j \in 1..n /\ t \in Nat /\ d \in Int /\ d # 0 /\ IsClaim(chain[j])
    BY <1>1, <1>8, AnnouncedTypes
  <2>3. j \in Claims(chain, n, t, d)
    BY <2>1 DEF Claims
  <2>4. Cardinality(Changes(chain, n, t, d)) <= MAX_SLOTS
    BY <2>1, <2>3
  <2> QED BY <1>3, <2>1, <2>3, <2>4, ClaimTakes
<1>9. IsFiniteSet(A)
  <2>1. IsFiniteSet(Supplies(chain, n))
    <3>1. n \in Int /\ 1 \in Int
      BY <1>2
    <3>2. IsFiniteSet(1..n)
      BY <3>1, FS_Interval
    <3> QED BY <3>2, FS_Subset DEF Supplies
  <2> DEFINE S == Supplies(chain, n)
             r == [i \in S |-> Row(chain, i)]
             X == DOMAIN T.supplyChange
  <2>2. /\ r \in [S -> X] /\ \A i, j \in S : r[i] = r[j] => i = j
        /\ \A b \in X : \E i \in S : r[i] = b
    BY <1>3, <1>4
  <2> HIDE DEF S, r, X
  <2>3. IsFiniteSet(X)
    BY <2>1, <2>2, SameSize DEF S
  <2> QED BY <2>3, FS_Subset DEF X
<1>10. f \in [A -> Int]
  <2>1. ASSUME NEW id \in A PROVE f[id] \in Int
    <3>1. PICK j \in B : chain[j].amount # 0 /\ Took(T, j, id)
      BY <1>6
    <3>2. f[id] = h[j] /\ h[j] \in Int
      BY <1>2, <1>7, <3>1
    <3> QED BY <3>2
  <2> QED BY <2>1
<1>11. TotalBy(T.supplyChange, {x}) = SumFunction(f)
  BY DEF TotalBy
<1>12. \A j \in B : /\ h[j] # 0 <=> chain[j].amount # 0
                    /\ j \in Nat \ {0} /\ chain[j].tx \in Nat /\ Claimed(chain[j]) \in Int
  BY <1>1, AnnouncedTypes
<1>13. \A id, j : <<id, j>> \in R <=> id \in A /\ j \in B /\ Took(T, j, id)
  OBVIOUS
<1> HIDE DEF A, B, f, h, e, R
<1>14. \A id \in A, j \in B : <<id, j>> \in R =>
         \E i \in Changes(chain, n, chain[j].tx, Claimed(chain[j])) : id = Row(chain, i)
  BY <1>2, <1>3, <1>12, <1>13, TookOne
<1>15. PairsTerms(R, A, f, B, h)
  <2>1. ASSUME NEW id \in A PROVE \E j \in B : <<id, j>> \in R
    BY <1>6, <1>13
  <2>2. ASSUME NEW j \in B, h[j] # 0 PROVE \E id \in A : <<id, j>> \in R
    BY <1>7, <1>8, <1>12, <1>13, <2>2
  <2>3. ASSUME NEW id \in A, NEW v \in A, NEW j \in B, <<id, j>> \in R, <<v, j>> \in R
        PROVE  id = v
    BY <1>2, <1>3, <1>12, <1>13, <2>3, TookOne
  <2>4. ASSUME NEW id \in A, NEW j \in B, NEW l \in B, <<id, j>> \in R, <<id, l>> \in R
        PROVE  j = l
    <3>1. /\ chain[l].tx = chain[j].tx /\ Claimed(chain[l]) = Claimed(chain[j])
      BY <1>4, <1>14, <2>4 DEF Changes
    <3>2. Took(T, j, id) /\ Took(T, l, id) /\ l \in Nat \ {0}
      BY <1>12, <1>13, <2>4
    <3> QED BY <1>2, <1>3, <1>12, <3>1, <3>2, TookOne
  <2>5. ASSUME NEW id \in A, NEW j \in B, <<id, j>> \in R PROVE h[j] = f[id]
    <3>1. PICK l \in B : chain[l].amount # 0 /\ Took(T, l, id)
      BY <1>6
    <3>2. l = j
      BY <1>13, <2>4, <2>5, <3>1
    <3> QED BY <1>7, <3>1, <3>2
  <2> QED BY ONLY <2>1, <2>2, <2>3, <2>4, <2>5 DEF PairsTerms
<1>16. SumFunction(f) = SumFunction(h)
  BY ONLY <1>2, <1>9, <1>10, <1>15, TotalsPaired
<1> QED BY <1>11, <1>16 DEF h, e

\* The fold's supply is the chain's: every change has one row, under a known cause.
LEMMA FoldSupply ==
  ASSUME ChainOK(chain), NEW acc, FoldInv(acc, Len(chain))
  PROVE  TotalBy(acc.rows, Causes) = ChainSupply
<1> DEFINE n == Len(chain)
           B == SupplyPositions(n)
           h == [i \in B |-> Delta(chain[i])]
           A == {id \in DOMAIN acc.rows : acc.rows[id].cause \in Causes}
           f == [id \in A |-> acc.rows[id].delta]
<1>1. PICK D, W : Folded(acc, n, D, W)
  BY DEF FoldInv
<1>2. n \in Nat /\ B = Supplies(chain, n) /\ B \in SUBSET (1..n)
  BY ChainTypes DEF SupplyPositions, Supplies, IsSupply
<1>3. IsFiniteSet(B)
  <2>1. n \in Int /\ 1 \in Int
    BY <1>2
  <2>2. IsFiniteSet(1..n)
    BY <2>1, FS_Interval
  <2> QED BY <1>2, <2>2, FS_Subset
<1>4. h \in [B -> Int] /\ \A i \in B : h[i] = Delta(chain[i])
  <2>1. ASSUME NEW i \in B PROVE Delta(chain[i]) \in Int
    <3>1. IsSupply(chain[i]) /\ i \in 1..n
      BY <1>2 DEF Supplies
    <3> QED BY <3>1, LogTypes
  <2> QED BY <2>1
<1>5. /\ DOMAIN acc.rows = {Row(chain, i) : i \in B}
      /\ \A i \in B : acc.rows[Row(chain, i)].delta = Delta(chain[i])
  BY <1>1, <1>2 DEF Folded, Labelled
<1>6. ASSUME NEW i \in B PROVE acc.rows[Row(chain, i)].cause \in Causes
  <2>1. acc.rows[Row(chain, i)].cause
          = IF i \in D THEN LabelOf(chain[W[i]].event) ELSE Default(chain[i])
    BY <1>1, <1>2 DEF Folded, Labelled
  <2>2. CASE i \in D
    <3> DEFINE w == chain[W[i]]
    <3>1. w.event = "Settled" \/ w.event \in BurnEvents
      BY <1>1, <2>2 DEF Folded, Claiming, Explains
    <3> HIDE DEF w
    <3>2. LabelOf(w.event) \in Causes
      BY <3>1 DEF LabelOf, CauseOfEvent, BurnEvents, Causes
    <3> QED BY <2>1, <2>2, <3>2 DEF w
  <2>3. CASE i \notin D
    BY <2>1, <2>3 DEF Default, Causes
  <2> QED BY <2>2, <2>3
<1>7. \A i \in B : Row(chain, i) \in A /\ f[Row(chain, i)] = h[i]
  BY <1>4, <1>5, <1>6
<1>8. f = [id \in A |-> f[id]] /\ \A id \in A : \E i \in B : id = Row(chain, i)
  BY <1>5
<1>9. TotalBy(acc.rows, Causes) = SumFunction(f)
  BY DEF TotalBy
<1>10. ChainSupply = SumFunction(h)
  BY DEF ChainSupply, SupplyAt
<1> HIDE DEF A, B, f, h
<1>11. /\ \A i \in B : Row(chain, i) \in A => f[Row(chain, i)] = h[i]
       /\ \A i \in B : Row(chain, i) \notin A => h[i] = 0
  BY <1>7
<1>12. SumFunction(f) = SumFunction(h)
  BY ONLY <1>3, <1>4, <1>8, <1>11, RowsTotal
<1> QED BY <1>9, <1>10, <1>12

\* The fold's flows are the rows of the table, one each.
LEMMA FlowsAlike ==
  ASSUME ChainOK(chain), OthersOK(chain, Tables, Len(chain))
  PROVE  /\ \A i \in FlowPositions(1..Len(chain)) : strategicFlow[RowId(i)] = FlowOf(i)
         /\ Cardinality(FlowPositions(1..Len(chain))) = Cardinality(DOMAIN strategicFlow)
<1> DEFINE n == Len(chain)
           F == Flows(chain, n)
           X == DOMAIN strategicFlow
<1>1. n \in Nat
  BY ChainTypes
<1>2. ASSUME NEW i \in 1..n
      PROVE  chain[i].event = "Inflow" => chain[i].class \in DOMAIN STRATEGIC_CLASS
  <2>1. ContentOK(chain[i])
    BY LogTypes DEF LogOK
  <2>2. DOMAIN STRATEGIC_CLASS = 1..4
    BY DEF STRATEGIC_CLASS
  <2> QED BY <2>1, <2>2 DEF ContentOK
<1>3. FlowPositions(1..n) = F
  BY <1>2 DEF FlowPositions, Flows
<1>4. /\ X = {Row(chain, i) : i \in F}
      /\ \A i \in F : strategicFlow[Row(chain, i)] = FlowOfLog(chain[i])
  BY TablesAreTheVariables DEF OthersOK
<1>5. \A i \in F : chain[i].event \in {"Settled", "Inflow", "Outflow"}
  BY DEF Flows
<1>6. \A i \in F : strategicFlow[RowId(i)] = FlowOf(i)
  <2> TAKE i \in F
  <2>1. FlowOf(i) = FlowOfLog(chain[i])
    BY <1>5 DEF FlowOf, FlowOfLog
  <2> QED BY <1>4, <2>1 DEF RowId, Row
<1>7. Cardinality(X) = Cardinality(F)
  <2>1. IsFiniteSet(F)
    <3>1. n \in Int /\ 1 \in Int
      BY <1>1
    <3>2. IsFiniteSet(1..n)
      BY <3>1, FS_Interval
    <3> QED BY <3>2, FS_Subset DEF Flows
  <2> DEFINE r == [i \in F |-> Row(chain, i)]
  <2>2. \A i, j : Row(chain, i) = Row(chain, j) => i = j
    BY DEF Row
  <2>3. /\ r \in [F -> X] /\ \A i, j \in F : r[i] = r[j] => i = j
        /\ \A b \in X : \E i \in F : r[i] = b
    BY <1>4, <2>2
  <2> HIDE DEF F, r, X
  <2> QED BY ONLY <2>1, <2>3, SameSize
<1> QED BY <1>3, <1>6, <1>7

\* From a delivery out of order and with repetitions, the fold computes the supply, the
\* backing, each flow of the treasury and what redemptions and harvests burned as the
\* chain and the handlers' tables have them, where the slots suffice: for any operations
\* in any division into transactions, after any disturbance of the handlers.
THEOREM FoldAndHandlersAgree == Spec => []BurnTotalsAgree
<1>1. IInv => BurnTotalsAgree
  <2> DEFINE n   == Len(chain)
             acc == Attribute(1..n)
  <2> SUFFICES ASSUME IInv, CaughtUp,
                      \A t \in 0..(tx - 1), d \in Deltas : Cardinality(ChangesOf(t, d)) <= MAX_SLOTS
               PROVE  LET fold == Reconstruction(ShuffledChain)
                      IN  /\ fold.supply = ChainSupply
                          /\ fold.backing = ReserveBalance
                          /\ \A c \in {"redemption_burn", "vyrf_burn"} :
                               TotalBy(fold.rows, {c}) = TotalBy(supplyChange, {c})
                          /\ \A i \in DOMAIN fold.flows : strategicFlow[RowId(i)] = fold.flows[i]
                          /\ Cardinality(DOMAIN fold.flows) = Cardinality(DOMAIN strategicFlow)
    BY DEF BurnTotalsAgree
  <2>1. /\ ChainOK(chain) /\ TxOK(chain, tx) /\ highWater = n /\ n \in Nat
        /\ TablesOK(chain, Tables, n) /\ OthersOK(chain, Tables, n) /\ tx \in Nat
        /\ chain[n].tx < tx
    BY ChainTypes DEF IInv, Good, TablesOK, TxOK, CaughtUp
  <2>2. FoldInv(acc, n)
    BY <2>1, FoldEnds
  <2>3. ASSUME NEW t \in Nat, NEW d \in Int \ {0}, Claims(chain, n, t, d) # {}
        PROVE  Cardinality(Changes(chain, n, t, d)) <= MAX_SLOTS
    <3>1. PICK j \in 1..n : IsClaim(chain[j]) /\ chain[j].tx = t /\ Claimed(chain[j]) = d
      BY <2>3 DEF Claims
    <3>2. t \in 0..(tx - 1)
      <4>1. chain[j].tx <= chain[n].tx /\ chain[j].tx \in Nat /\ chain[n].tx \in Nat
        BY <2>1, LogTypes DEF ChainOK, Sorted
      <4> QED BY <2>1, <3>1, <4>1
    <3>3. PICK i \in 1..n : Announces(chain[j], chain[i])
      BY <2>1, <3>1 DEF ChainOK, ClaimsHaveChanges, Partners
    <3>4. d \in Deltas
      BY <3>1, <3>3 DEF Deltas, SupplyPositions, Announces, IsSupply
    <3>5. ChangesOf(t, d) = Changes(chain, n, t, d)
      BY DEF ChangesOf, SupplyPositions, Changes, Supplies, IsSupply
    <3> QED BY <3>2, <3>4, <3>5
  <2>4. ASSUME NEW x \in ToldApart
        PROVE  TotalBy(acc.rows, {x}) = TotalBy(supplyChange, {x})
    <3>1. TotalBy(acc.rows, {x}) = SumFunction(Burned(EventOf(x)))
      BY <2>1, <2>2, FoldTotal
    <3> DEFINE T == Tables
    <3>2. TablesOK(chain, T, n) /\ T.supplyChange = supplyChange
      BY <2>1, TablesAreTheVariables
    <3> HIDE DEF T
    <3>3. TotalBy(T.supplyChange, {x}) = SumFunction(Burned(EventOf(x)))
      BY <2>1, <2>3, <3>2, ReplicaTotal
    <3> QED BY <3>1, <3>2, <3>3
  <2>5. TotalBy(acc.rows, Causes) = ChainSupply
    BY <2>1, <2>2, FoldSupply
  <2>6. Backing(1..n) = ReserveBalance
    BY <2>1, BackingIsTheBalance
  <2>7. /\ \A i \in FlowPositions(1..n) : strategicFlow[RowId(i)] = FlowOf(i)
        /\ Cardinality(FlowPositions(1..n)) = Cardinality(DOMAIN strategicFlow)
    BY <2>1, FlowsAlike
  <2>8. Ordered(ShuffledChain) = 1..n
    BY <2>1, EveryLogDelivered
  <2> DEFINE fold == Reconstruction(ShuffledChain)
  <2>9. /\ fold.supply = TotalBy(acc.rows, Causes) /\ fold.backing = Backing(1..n)
        /\ fold.rows = acc.rows /\ fold.flows = [i \in FlowPositions(1..n) |-> FlowOf(i)]
    BY <2>8 DEF Reconstruction
  <2> HIDE DEF fold, acc
  <2> QED BY <2>4, <2>5, <2>6, <2>7, <2>9 DEF ToldApart, fold
<1> QED BY <1>1, TablesFollowTheLogs, PTL
=============================================================================
