---------------------------- MODULE WalletProofs ----------------------------
(***************************************************************************)
(* What the rig may spend of the user's WETH, what a take charges and what *)
(* a redemption burns, for any number of presses, moves of the world and   *)
(* chains.  An allowance is set by an approval in nonce order, long after  *)
(* its press: the first invariant (IInv) follows it from the price         *)
(* captured (ArgsOK), through the wallet that refuses another chain        *)
(* (MempoolOK), to the chain.  The second (Kept) follows each transaction  *)
(* to its receipt beside the press it came from, whose captured amount is  *)
(* what the page showed or what was typed, read back by the facts about    *)
(* digits in between.                                                      *)
(***************************************************************************)
EXTENDS WalletFlows, FiniteSums

\* Prices are amounts, where there are any.
PricesOK == price \in Nat /\ (page.price # None => page.price \in Nat)

\* Sequences; the records in them are told apart by the fields below.
SequencesOK == (\E R : runs \in Seq(R)) /\ (\E T : mempool \in Seq(T))

\* Only a take approves, and what it approves is an amount.
ArgsOK ==
  \A r \in 1..Len(runs) : runs[r].call = "approve" => runs[r].flow = "take" /\ runs[r].arg \in Nat

\* a was the maximum of a press.
ConfirmedMax(a) == \E r \in 1..Len(runs) : runs[r].flow = "take" /\ runs[r].arg = a

\* An approval on its way is for the accepted chain and for what its press captured.
MempoolOK ==
  \A i \in 1..Len(mempool) :
    mempool[i].call = "approve" =>
      mempool[i].chain = CHAIN_ID /\ mempool[i].arg \in Nat /\ ConfirmedMax(mempool[i].arg)

\* What is left of an allowance is below the maximum it was set to.
AllowanceOK ==
  /\ allowance \in [Chains -> Nat]
  /\ \A c \in OtherChains : allowance[c] = 0
  /\ allowance[CHAIN_ID] > 0 =>
       \E a \in Nat : ConfirmedMax(a) /\ allowance[CHAIN_ID] <= a

IInv == PricesOK /\ SequencesOK /\ ArgsOK /\ MempoolOK /\ AllowanceOK

-----------------------------------------------------------------------------
\* A press is never forgotten, nor its maximum changed.
LEMMA MaximaRemain ==
  ASSUME Len(runs) \in Nat, Len(runs') \in Nat, Len(runs) <= Len(runs'),
         \A r \in 1..Len(runs) : runs'[r].flow = runs[r].flow /\ runs'[r].arg = runs[r].arg
  PROVE  \A a : ConfirmedMax(a) => ConfirmedMax(a)'
<1>1. \A r \in 1..Len(runs) : r \in 1..Len(runs')
  OBVIOUS
<1> QED BY <1>1 DEF ConfirmedMax

LEMMA InvariantInit == Init => IInv
BY WalletAssumption DEF Init, IInv, PricesOK, SequencesOK, ArgsOK, MempoolOK, AllowanceOK, Chains

\* Steps of the world and of the page that leave runs, transactions and the
\* allowance alone.
LEMMA PageStep ==
  ASSUME IInv, UNCHANGED <<runs, mempool, allowance>>, PricesOK'
  PROVE  IInv'
<1>1. \A a : ConfirmedMax(a)' = ConfirmedMax(a)
  BY DEF ConfirmedMax
<1> QED BY <1>1 DEF IInv, SequencesOK, ArgsOK, MempoolOK, AllowanceOK

LEMMA PressStep ==
  ASSUME IInv, NEW flow, NEW arg, NEW call, NEW shown, Press(flow, arg, call, shown),
         call = "approve" => flow = "take" /\ arg \in Nat
  PROVE  IInv'
<1> DEFINE x == [flow |-> flow, arg |-> arg, call |-> call, state |-> "wallet", shown |-> shown]
<1>1. runs' = Append(runs, x) /\ UNCHANGED <<page, mempool, allowance, price>>
  BY DEF Press, onChain
<1>2. PICK R : runs \in Seq(R)
  BY DEF IInv, SequencesOK
<1>3. runs \in Seq(R \cup {x}) /\ x \in R \cup {x}
  BY <1>2
<1> HIDE DEF x
<1>4. /\ runs' \in Seq(R \cup {x}) /\ Len(runs) \in Nat /\ Len(runs') = Len(runs) + 1
      /\ \A r \in 1..Len(runs) : runs'[r] = runs[r]
      /\ runs'[Len(runs) + 1] = x
  BY <1>1, <1>3
<1>5. \A a : ConfirmedMax(a) => ConfirmedMax(a)'
  BY <1>4, MaximaRemain
<1>6. ArgsOK'
  <2>1. x.call = call /\ x.flow = flow /\ x.arg = arg
    BY DEF x
  <2> QED BY <1>4, <2>1 DEF IInv, ArgsOK
<1>7. SequencesOK'
  BY <1>1, <1>4 DEF IInv, SequencesOK
<1>8. MempoolOK' /\ AllowanceOK'
  BY <1>1, <1>5 DEF IInv, MempoolOK, AllowanceOK
<1> QED BY <1>1, <1>6, <1>7, <1>8 DEF IInv, PricesOK

\* The state or the call of a run changes, never back to an approval.
LEMMA RunStep ==
  ASSUME IInv, NEW r \in 1..Len(runs), UNCHANGED <<page, price, allowance>>,
         NEW x, runs' = [runs EXCEPT ![r] = x],
         x.flow = runs[r].flow, x.arg = runs[r].arg,
         x.call = "approve" => runs[r].call = "approve"
  PROVE  /\ PricesOK' /\ ArgsOK' /\ AllowanceOK' /\ \E R : runs' \in Seq(R)
         /\ \A a : ConfirmedMax(a) => ConfirmedMax(a)'
<1>1. PICK R : runs \in Seq(R)
  BY DEF IInv, SequencesOK
<1>2. runs \in Seq(R \cup {x}) /\ x \in R \cup {x}
  BY <1>1
<1>3. /\ runs' \in Seq(R \cup {x}) /\ Len(runs) \in Nat /\ Len(runs') = Len(runs)
      /\ \A i \in 1..Len(runs) : runs'[i] = IF i = r THEN x ELSE runs[i]
  BY <1>2
<1>4. \A i \in 1..Len(runs) : /\ runs'[i].flow = runs[i].flow /\ runs'[i].arg = runs[i].arg
                              /\ runs'[i].call = "approve" => runs[i].call = "approve"
  BY <1>3
<1>5. \A a : ConfirmedMax(a) => ConfirmedMax(a)'
  BY <1>3, <1>4, MaximaRemain
<1>6. ArgsOK'
  BY <1>3, <1>4 DEF IInv, ArgsOK
<1>7. AllowanceOK'
  BY <1>5 DEF IInv, AllowanceOK
<1> QED BY <1>3, <1>5, <1>6, <1>7 DEF IInv, PricesOK

LEMMA SignStep ==
  ASSUME IInv, NEW r \in 1..Len(runs), Sign(r)
  PROVE  IInv'
<1> DEFINE t == [run |-> r, call |-> runs[r].call, arg |-> Argument(r), chain |-> wallet.chain]
           x == [runs[r] EXCEPT !.state = "sent"]
<1>1. /\ UNCHANGED <<page, price, allowance>> /\ wallet.chain = CHAIN_ID
      /\ mempool' = Append(mempool, t) /\ runs' = [runs EXCEPT ![r] = x]
  BY DEF Sign, onChain, SendsHere
<1>2. x.flow = runs[r].flow /\ x.arg = runs[r].arg /\ x.call = runs[r].call
  OBVIOUS
<1>3. t.call = runs[r].call /\ t.arg = runs[r].arg /\ t.chain = CHAIN_ID
  BY <1>1 DEF Argument
<1> HIDE DEF x, t
<1>4. /\ PricesOK' /\ ArgsOK' /\ AllowanceOK' /\ \E R : runs' \in Seq(R)
      /\ \A a : ConfirmedMax(a) => ConfirmedMax(a)'
  BY <1>1, <1>2, RunStep
<1>5. PICK T : mempool \in Seq(T)
  BY DEF IInv, SequencesOK
<1>6. mempool \in Seq(T \cup {t}) /\ t \in T \cup {t}
  BY <1>5
<1>7. /\ mempool' \in Seq(T \cup {t}) /\ Len(mempool) \in Nat
      /\ Len(mempool') = Len(mempool) + 1
      /\ \A i \in 1..Len(mempool) : mempool'[i] = mempool[i]
      /\ mempool'[Len(mempool) + 1] = t
  BY <1>1, <1>6
<1>8. t.call = "approve" => t.arg \in Nat /\ ConfirmedMax(t.arg)
  BY <1>3 DEF IInv, ArgsOK, ConfirmedMax
<1>9. MempoolOK'
  <2> SUFFICES ASSUME NEW i \in 1..Len(mempool'), mempool'[i].call = "approve"
               PROVE  /\ mempool'[i].chain = CHAIN_ID /\ mempool'[i].arg \in Nat
                      /\ \E s \in 1..Len(runs') : /\ runs'[s].flow = "take"
                                                  /\ runs'[s].arg = mempool'[i].arg
    BY DEF MempoolOK, ConfirmedMax
  <2>1. CASE i \in 1..Len(mempool)
    <3>1. mempool'[i] = mempool[i] /\ mempool[i].call = "approve"
      BY <1>7, <2>1
    <3>2. /\ mempool[i].chain = CHAIN_ID /\ mempool[i].arg \in Nat
          /\ ConfirmedMax(mempool[i].arg)
      BY <2>1, <3>1 DEF IInv, MempoolOK
    <3> QED BY <1>4, <3>1, <3>2 DEF ConfirmedMax
  <2>2. CASE i = Len(mempool) + 1
    BY <1>3, <1>4, <1>7, <1>8, <2>2 DEF ConfirmedMax
  <2> QED BY <1>7, <2>1, <2>2
<1> QED BY <1>4, <1>7, <1>9 DEF IInv, SequencesOK

LEMMA AwaitStep ==
  ASSUME IInv, NEW r \in 1..Len(runs), Ends(r) \/ Confirmed(r)
  PROVE  IInv'
<1>1. PICK x : /\ runs' = [runs EXCEPT ![r] = x]
               /\ x.flow = runs[r].flow /\ x.arg = runs[r].arg
               /\ x.call = "approve" => runs[r].call = "approve"
               /\ UNCHANGED <<page, price, allowance, mempool>>
  <2>1. CASE Ends(r)
    <3> WITNESS [runs[r] EXCEPT !.state = "ended"]
    <3> QED BY <2>1 DEF Ends, onChain
  <2>2. CASE Confirmed(r) /\ runs[r].call = "approve"
    <3> DEFINE y == [runs[r] EXCEPT !.call = "take"]
               x == [y EXCEPT !.state = "wallet"]
    <3>1. r \in DOMAIN runs
      BY DEF IInv, SequencesOK
    <3>2. /\ UNCHANGED <<page, price, allowance, mempool>>
          /\ runs' = [runs EXCEPT ![r].call = "take", ![r].state = "wallet"]
      BY <2>2 DEF Confirmed, onChain
    <3>3. runs' = [runs EXCEPT ![r] = x]
      BY <3>1, <3>2
    <3>4. y.flow = runs[r].flow /\ y.arg = runs[r].arg
      OBVIOUS
    <3>5. x.flow = y.flow /\ x.arg = y.arg
      OBVIOUS
    <3> HIDE DEF x, y
    <3> QED BY <2>2, <3>2, <3>3, <3>4, <3>5
  <2>3. CASE Confirmed(r) /\ runs[r].call # "approve"
    <3> WITNESS [runs[r] EXCEPT !.state = "ended"]
    <3> QED BY <2>3 DEF Confirmed, onChain
  <2> QED BY <2>1, <2>2, <2>3
<1>2. /\ PricesOK' /\ ArgsOK' /\ AllowanceOK' /\ \E R : runs' \in Seq(R)
      /\ \A a : ConfirmedMax(a) => ConfirmedMax(a)'
  BY <1>1, RunStep
<1>3. MempoolOK'
  BY <1>1, <1>2 DEF IInv, MempoolOK
<1> QED BY <1>1, <1>2, <1>3 DEF IInv, SequencesOK

LEMMA IncludeStep == IInv /\ Include => IInv'
<1> SUFFICES ASSUME IInv, Include PROVE IInv'
  OBVIOUS
<1> DEFINE t == Head(mempool)
           ok == t.chain = CHAIN_ID /\ Succeeds(t)
<1>1. /\ UNCHANGED <<page, runs>> /\ mempool # <<>> /\ mempool' = Tail(mempool)
      /\ allowance' = IF t.call = "approve" THEN [allowance EXCEPT ![t.chain] = t.arg]
                      ELSE IF t.call = "take" /\ ok
                      THEN [allowance EXCEPT ![CHAIN_ID] = @ - price]
                      ELSE allowance
      /\ price' = 2 * price \/ price' = price
  BY DEF Include, Settle
<1>2. \A a : ConfirmedMax(a)' = ConfirmedMax(a)
  BY <1>1 DEF ConfirmedMax
<1>3. PICK T : mempool \in Seq(T)
  BY DEF IInv, SequencesOK
<1>4. /\ t = mempool[1] /\ 1 \in 1..Len(mempool)
      /\ mempool' \in Seq(T) /\ Len(mempool) \in Nat /\ Len(mempool') = Len(mempool) - 1
      /\ \A i \in 1..Len(mempool') : mempool'[i] = mempool[i + 1] /\ i + 1 \in 1..Len(mempool)
  BY <1>1, <1>3
<1>5. PricesOK' /\ price \in Nat
  BY <1>1 DEF IInv, PricesOK
<1>6. MempoolOK'
  BY <1>2, <1>4 DEF IInv, MempoolOK
<1>7. AllowanceOK'
  <2>1. CASE t.call = "approve"
    <3>1. t.chain = CHAIN_ID /\ t.arg \in Nat /\ ConfirmedMax(t.arg)
      BY <1>4, <2>1 DEF IInv, MempoolOK
    <3>2. allowance' = [allowance EXCEPT ![CHAIN_ID] = t.arg]
      BY <1>1, <2>1, <3>1
    <3> QED BY <1>2, <3>1, <3>2, WalletAssumption DEF IInv, AllowanceOK, Chains
  <2>2. CASE t.call = "take" /\ ok
    <3>1. price <= allowance[CHAIN_ID] /\ allowance[CHAIN_ID] \in Nat
      BY <2>2 DEF Succeeds, IInv, AllowanceOK, Chains
    <3>2. allowance' = [allowance EXCEPT ![CHAIN_ID] = @ - price]
      BY <1>1, <2>2
    <3>3. allowance' \in [Chains -> Nat] /\ \A c \in OtherChains : allowance'[c] = 0
      BY <1>5, <3>1, <3>2, WalletAssumption DEF IInv, AllowanceOK, Chains
    <3>4. allowance'[CHAIN_ID] = allowance[CHAIN_ID] - price
      BY <3>2 DEF IInv, AllowanceOK, Chains
    <3>5. ASSUME allowance'[CHAIN_ID] > 0
          PROVE  \E a \in Nat : ConfirmedMax(a)' /\ allowance'[CHAIN_ID] <= a
      <4>1. PICK a \in Nat : ConfirmedMax(a) /\ allowance[CHAIN_ID] <= a
        BY <1>5, <3>1, <3>4, <3>5 DEF IInv, AllowanceOK
      <4>2. allowance'[CHAIN_ID] <= a
        BY <1>5, <3>1, <3>4, <4>1
      <4> QED BY <1>2, <4>1, <4>2
    <3> QED BY <3>3, <3>5 DEF AllowanceOK
  <2>3. CASE t.call # "approve" /\ ~(t.call = "take" /\ ok)
    BY <1>1, <1>2, <2>3 DEF IInv, AllowanceOK
  <2> QED BY <2>1, <2>2, <2>3
<1>8. SequencesOK' /\ ArgsOK'
  BY <1>1, <1>4 DEF IInv, SequencesOK, ArgsOK
<1> QED BY <1>5, <1>6, <1>7, <1>8 DEF IInv

LEMMA InvariantStep == IInv /\ [Next]_vars => IInv'
<1> SUFFICES ASSUME IInv, [Next]_vars PROVE IInv'
  OBVIOUS
<1>1. CASE UNCHANGED vars
  BY <1>1, PageStep DEF vars, onChain, IInv, PricesOK
<1>2. ASSUME NEW connected, NEW c, SetWallet(connected, c) PROVE IInv'
  BY <1>2, PageStep DEF SetWallet, onChain, IInv, PricesOK
<1>3. CASE PriceFalls
  <2>1. price' = price - Decay /\ price >= Decay /\ UNCHANGED <<page, runs, mempool, allowance>>
    BY <1>3 DEF PriceFalls
  <2>2. PricesOK'
    BY <2>1, WalletAssumption DEF IInv, PricesOK
  <2> QED BY <2>1, <2>2, PageStep
<1>4. CASE Displaced
  BY <1>4, PageStep DEF Displaced, Settle, IInv, PricesOK
<1>5. CASE SyncAccount
  BY <1>5, PageStep DEF SyncAccount, onChain, IInv, PricesOK
<1>6. CASE ReadAnswered
  BY <1>6, PageStep DEF ReadAnswered, onChain, IInv, PricesOK
<1>7. CASE ReadFailed
  BY <1>7, PageStep DEF ReadFailed, onChain, IInv, PricesOK
<1>8. CASE Navigate
  BY <1>8, PageStep DEF Navigate, onChain, IInv, PricesOK
<1>9. ASSUME NEW text, Type(text) PROVE IInv'
  BY <1>9, PageStep DEF Type, onChain, IInv, PricesOK
<1>10. CASE PressTake
  BY <1>10, PressStep DEF PressTake, IInv, PricesOK
<1>11. CASE PressRedeem
  <2>1. PICK arg, shown : Press("redeem", arg, "redeem", shown)
    BY <1>11 DEF PressRedeem
  <2> QED BY <2>1, PressStep
<1>12. ASSUME NEW r \in 1..Len(runs), Sign(r) \/ Ends(r) \/ Confirmed(r) PROVE IInv'
  BY <1>12, SignStep, AwaitStep
<1> QED
  BY <1>1, <1>2, <1>3, <1>4, <1>5, <1>6, <1>7, <1>8, <1>9, <1>10, <1>11, <1>12, IncludeStep
     DEF Next

\* The rig may never spend more than a price the user confirmed, and on no other
\* chain anything at all (src/web/components/WalletFlows.jsx:159-168).
THEOREM AllowanceAlwaysConfirmed == Spec => []AllowanceIsConfirmed
<1>1. IInv => AllowanceIsConfirmed
  BY DEF IInv, AllowanceOK, ConfirmedMax, AllowanceIsConfirmed
<1> QED BY InvariantInit, InvariantStep, <1>1, PTL DEF Spec

-----------------------------------------------------------------------------
\* A set of numbers that holds 0 and with each number the next holds them all.
LEMMA UpwardClosed ==
  ASSUME NEW T, 0 \in T, \A n \in Nat : n \in T => n + 1 \in T
  PROVE  \A n \in Nat : n \in T
<1> SUFFICES ASSUME NEW n \in Nat, n \notin T PROVE FALSE
  OBVIOUS
<1> DEFINE Bad == {k \in 0..n : k \notin T}
<1>1. Bad \in SUBSET (0..n) /\ Bad # {}
  OBVIOUS
<1>2. PICK m \in Bad : \A j \in Bad : m <= j
  <2> HIDE DEF Bad
  <2> QED BY <1>1, LeastNumber
<1>3. m \in 0..n /\ m \notin T /\ m # 0
  OBVIOUS
<1>4. m - 1 \in Nat /\ m - 1 \notin T
  BY <1>3
<1>5. m - 1 \in Bad
  BY <1>3, <1>4
<1> HIDE DEF Bad
<1> QED BY <1>2, <1>3, <1>5

\* A table whose entries are computed each from the one before.
IsTable(f, n, base, step) == f[0] = base /\ \A k \in 1..n : f[k] = step[k][f[k - 1]]

LEMMA TableExists ==
  ASSUME NEW n \in Nat, NEW S, NEW base \in S, NEW step \in [1..n -> [S -> S]]
  PROVE  \E f \in [0..n -> S] : IsTable(f, n, base, step)
<1> DEFINE before == [k \in 1..n |-> k - 1]
<1>1. before \in [1..n -> Nat] /\ \A k \in 1..n : before[k] = k - 1 /\ before[k] < k
  OBVIOUS
<1> HIDE DEF before
<1>2. PICK f \in [0..n -> S] : IsRecursion(f, n, base, before, step)
  BY <1>1, RecursionExists
<1> QED BY <1>1, <1>2 DEF IsRecursion, IsTable

-----------------------------------------------------------------------------
(***************************************************************************)
(* Powers of ten.                                                          *)
(***************************************************************************)
IsPowerTable(f, n) == f \in [0..n -> Nat] /\ f[0] = 1 /\ \A k \in 1..n : f[k] = 10 * f[k - 1]

LEMMA PowerTableExists ==
  ASSUME NEW n \in Nat
  PROVE  \E f : IsPowerTable(f, n)
<1> DEFINE times == [x \in Nat |-> 10 * x]
           step  == [k \in 1..n |-> times]
<1>1. times \in [Nat -> Nat] /\ \A x \in Nat : times[x] = 10 * x
  OBVIOUS
<1> HIDE DEF times
<1>2. step \in [1..n -> [Nat -> Nat]] /\ \A k \in 1..n : step[k] = times
  BY <1>1
<1> HIDE DEF step
<1>3. PICK f \in [0..n -> Nat] : IsTable(f, n, 1, step)
  <2>1. 1 \in Nat
    OBVIOUS
  <2> QED BY <1>2, <2>1, TableExists
<1>4. ASSUME NEW k \in 1..n PROVE f[k] = 10 * f[k - 1]
  <2>1. f[k - 1] \in Nat
    BY <1>3
  <2> QED BY <2>1, <1>1, <1>2, <1>3 DEF IsTable
<1> QED BY <1>3, <1>4 DEF IsPowerTable, IsTable

LEMMA PowerTablesAgree ==
  ASSUME NEW n \in Nat, NEW f, NEW g, IsPowerTable(f, n), IsPowerTable(g, n + 1)
  PROVE  f[n] = g[n]
<1> DEFINE T == {k \in Nat : k <= n => f[k] = g[k]}
<1>1. 0 \in T
  BY DEF IsPowerTable
<1>2. ASSUME NEW k \in Nat, k \in T PROVE k + 1 \in T
  <2>1. CASE k + 1 <= n
    <3>1. f[k] = g[k] /\ k + 1 \in 1..n /\ k + 1 \in 1..(n + 1) /\ (k + 1) - 1 = k
      BY <1>2, <2>1
    <3>2. f[k + 1] = g[k + 1]
      BY <3>1 DEF IsPowerTable
    <3> QED BY <3>2
  <2> QED BY <2>1
<1> HIDE DEF T
<1>3. n \in T
  BY <1>1, <1>2, UpwardClosed
<1> QED BY <1>3 DEF T

LEMMA TenToRecursion ==
  /\ \A n \in Nat : TenTo[n] \in Nat \ {0}
  /\ TenTo[0] = 1
  /\ \A n \in Nat : TenTo[n + 1] = 10 * TenTo[n]
<1> DEFINE Body(P) == [n \in Nat |-> IF n = 0 THEN 1 ELSE 10 * P[n - 1]]
           Table(n) == CHOOSE f : IsPowerTable(f, n)
           G == [n \in Nat |-> Table(n)[n]]
<1>1. \A n \in Nat : IsPowerTable(Table(n), n)
  BY PowerTableExists
<1> HIDE DEF Table
<1>2. G = Body(G)
  <2>1. ASSUME NEW n \in Nat PROVE G[n] = IF n = 0 THEN 1 ELSE 10 * G[n - 1]
    <3>1. CASE n = 0
      BY <3>1, <1>1 DEF IsPowerTable
    <3>2. CASE n # 0
      <4>1. n - 1 \in Nat /\ (n - 1) + 1 = n /\ n \in 1..n
        BY <3>2
      <4>2. Table(n - 1)[n - 1] = Table(n)[n - 1]
        BY <4>1, <1>1, PowerTablesAgree
      <4>3. Table(n)[n] = 10 * Table(n)[n - 1]
        BY <4>1, <1>1 DEF IsPowerTable
      <4> QED BY <3>2, <4>1, <4>2, <4>3
    <3> QED BY <3>1, <3>2
  <2>2. G = [n \in Nat |-> G[n]]
    OBVIOUS
  <2> HIDE DEF G
  <2> QED BY <2>1, <2>2
<1>3. TenTo = CHOOSE P : P = Body(P)
  BY DEF TenTo
<1>4. TenTo = Body(TenTo)
  <2> HIDE DEF G
  <2> QED BY <1>2, <1>3
<1>5. \A n \in Nat : TenTo[n] = IF n = 0 THEN 1 ELSE 10 * TenTo[n - 1]
  BY <1>4
<1>6. TenTo[0] = 1 /\ \A n \in Nat : TenTo[n + 1] = 10 * TenTo[n]
  <2>1. \A n \in Nat : n + 1 \in Nat /\ n + 1 # 0 /\ (n + 1) - 1 = n
    OBVIOUS
  <2> QED BY <2>1, <1>5
<1> DEFINE T == {n \in Nat : TenTo[n] \in Nat \ {0}}
<1>7. 0 \in T /\ \A n \in Nat : n \in T => n + 1 \in T
  BY <1>6
<1> HIDE DEF T
<1>8. \A n \in Nat : n \in T
  BY <1>7, UpwardClosed
<1> QED BY <1>6, <1>8 DEF T

LEMMA TenToSum ==
  ASSUME NEW a \in Nat, NEW b \in Nat
  PROVE  TenTo[a + b] = TenTo[a] * TenTo[b]
<1> DEFINE T == {n \in Nat : TenTo[a + n] = TenTo[a] * TenTo[n]}
<1>1. 0 \in T
  BY TenToRecursion
<1>2. ASSUME NEW n \in Nat, n \in T PROVE n + 1 \in T
  <2>1. /\ TenTo[a + (n + 1)] = 10 * TenTo[a + n] /\ TenTo[n + 1] = 10 * TenTo[n]
        /\ TenTo[a] \in Nat /\ TenTo[n] \in Nat /\ a + (n + 1) = (a + n) + 1
    BY TenToRecursion
  <2>2. TenTo[a + n] = TenTo[a] * TenTo[n]
    BY <1>2
  <2> DEFINE x == TenTo[a]
             y == TenTo[n]
  <2>3. x \in Nat /\ y \in Nat
    BY <2>1
  <2>4. 10 * (x * y) = x * (10 * y)
    <3> HIDE DEF x, y
    <3> QED BY <2>3
  <2> QED BY <2>1, <2>2, <2>4
<1> HIDE DEF T
<1>3. b \in T
  BY <1>1, <1>2, UpwardClosed
<1> QED BY <1>3 DEF T

-----------------------------------------------------------------------------
(***************************************************************************)
(* Numbers written in digits.  V is the table of the numbers that the      *)
(* first digits write.                                                     *)
(***************************************************************************)
IsValueTable(V, d) ==
  /\ V \in [0..Len(d) -> Nat]
  /\ V[0] = 0
  /\ \A k \in 1..Len(d) : V[k] = 10 * V[k - 1] + d[k]

LEMMA ValueTable ==
  ASSUME NEW d \in Seq(Nat)
  PROVE  \E V : IsValueTable(V, d) /\ ValueOf(d) = V[Len(d)]
<1> DEFINE Body(P) == [k \in 0..Len(d) |-> IF k = 0 THEN 0 ELSE 10 * P[k - 1] + d[k]]
           Value == CHOOSE P : P = Body(P)
           then(k) == [x \in Nat |-> 10 * x + d[k]]
           step == [k \in 1..Len(d) |-> then(k)]
<1>1. Len(d) \in Nat /\ 0 \in Nat /\ \A k \in 1..Len(d) : d[k] \in Nat
  OBVIOUS
<1>2. \A k \in 1..Len(d) : then(k) \in [Nat -> Nat] /\ \A x \in Nat : then(k)[x] = 10 * x + d[k]
  BY <1>1
<1> HIDE DEF then
<1>3. step \in [1..Len(d) -> [Nat -> Nat]] /\ \A k \in 1..Len(d) : step[k] = then(k)
  BY <1>2
<1> HIDE DEF step
<1>4. PICK f \in [0..Len(d) -> Nat] : IsTable(f, Len(d), 0, step)
  BY <1>1, <1>3, TableExists
<1>5. ASSUME NEW k \in 1..Len(d) PROVE f[k] = 10 * f[k - 1] + d[k]
  <2>1. f[k - 1] \in Nat
    BY <1>1, <1>4
  <2> QED BY <2>1, <1>2, <1>3, <1>4 DEF IsTable
<1>6. f = Body(f)
  <2>1. \A k \in 0..Len(d) : f[k] = IF k = 0 THEN 0 ELSE 10 * f[k - 1] + d[k]
    BY <1>1, <1>4, <1>5 DEF IsTable
  <2>2. f = [k \in 0..Len(d) |-> f[k]]
    BY <1>4
  <2> QED BY <2>1, <2>2
<1>7. Value = Body(Value)
  BY <1>6
<1>8. ValueOf(d) = Value[Len(d)]
  BY DEF ValueOf
<1> HIDE DEF Value
<1>9. \A k \in 0..Len(d) : Value[k] = IF k = 0 THEN 0 ELSE 10 * Value[k - 1] + d[k]
  BY <1>7
<1>10. Value = f
  <2> DEFINE T == {k \in Nat : k <= Len(d) => Value[k] = f[k]}
  <2>1. 0 \in T
    BY <1>1, <1>4, <1>9 DEF IsTable
  <2>2. ASSUME NEW k \in Nat, k \in T PROVE k + 1 \in T
    <3>1. CASE k + 1 <= Len(d)
      <4>1. Value[k] = f[k] /\ k + 1 \in 1..Len(d) /\ k + 1 \in 0..Len(d) /\ (k + 1) - 1 = k
        BY <1>1, <2>2, <3>1
      <4>2. Value[k + 1] = 10 * Value[k] + d[k + 1]
        BY <4>1, <1>9
      <4>3. f[k + 1] = 10 * f[k] + d[k + 1]
        BY <4>1, <1>5
      <4> QED BY <4>1, <4>2, <4>3
    <3> QED BY <3>1
  <2> HIDE DEF T
  <2>3. \A k \in Nat : k \in T
    BY <2>1, <2>2, UpwardClosed
  <2>4. \A k \in 0..Len(d) : Value[k] = f[k]
    BY <2>3, <1>1 DEF T
  <2>5. Value = [k \in 0..Len(d) |-> Value[k]] /\ f = [k \in 0..Len(d) |-> f[k]]
    BY <1>4, <1>7
  <2> QED BY <2>4, <2>5
<1> QED BY <1>1, <1>4, <1>5, <1>8, <1>10 DEF IsValueTable, IsTable

\* The first m digits of two numbers are the same.
SameStart(d, e, m) == m <= Len(d) /\ m <= Len(e) /\ \A i \in 1..m : d[i] = e[i]

\* e is what follows the first m digits of d.
RestIs(d, m, e) == Len(d) = m + Len(e) /\ \A i \in 1..Len(e) : d[m + i] = e[i]

\* Behind its first m digits a number goes on as the rest of its digits do.
LEMMA ValueGoesOn ==
  ASSUME NEW d \in Seq(Nat), NEW e \in Seq(Nat), NEW m \in Nat,
         NEW V, IsValueTable(V, d), NEW W, IsValueTable(W, e),
         RestIs(d, m, e)
  PROVE  V[Len(d)] = V[m] * TenTo[Len(e)] + W[Len(e)]
<1> USE DEF RestIs
<1> DEFINE T == {j \in Nat : j <= Len(e) => V[m + j] = V[m] * TenTo[j] + W[j]}
<1>1. /\ Len(e) \in Nat /\ Len(d) \in Nat /\ m \in 0..Len(d)
      /\ V \in [0..Len(d) -> Nat] /\ W \in [0..Len(e) -> Nat] /\ W[0] = 0
  <2>1. Len(e) \in Nat /\ Len(d) \in Nat
    OBVIOUS
  <2> QED BY <2>1 DEF IsValueTable
<1>2. 0 \in T
  <2>1. V[m] \in Nat /\ m + 0 = m /\ TenTo[0] = 1
    <3>1. TenTo[0] = 1
      BY TenToRecursion
    <3>2. V[m] \in Nat
      BY <1>1
    <3>3. m + 0 = m
      OBVIOUS
    <3> QED BY <3>1, <3>2, <3>3
  <2>2. V[m] * 1 + 0 = V[m]
    BY <2>1
  <2>3. V[m + 0] = V[m] * TenTo[0] + W[0]
    BY <1>1, <2>1, <2>2
  <2> QED BY <2>3
<1>3. ASSUME NEW j \in Nat, j \in T PROVE j + 1 \in T
  <2>1. CASE j + 1 <= Len(e)
    <3>1. /\ V[m + j] = V[m] * TenTo[j] + W[j]
          /\ m + (j + 1) \in 1..Len(d) /\ m + (j + 1) - 1 = m + j
          /\ j + 1 \in 1..Len(e) /\ (j + 1) - 1 = j /\ e[j + 1] \in Nat
      BY <1>1, <1>3, <2>1
    <3>2. V[m + (j + 1)] = 10 * V[m + j] + d[m + (j + 1)]
      <4> DEFINE k == m + (j + 1)
      <4>1. k \in 1..Len(d) /\ k - 1 = m + j
        BY <3>1
      <4> HIDE DEF k
      <4>2. V[k] = 10 * V[k - 1] + d[k]
        BY <4>1 DEF IsValueTable
      <4> QED BY <4>1, <4>2 DEF k
    <3>3. W[j + 1] = 10 * W[j] + e[j + 1]
      BY <3>1 DEF IsValueTable
    <3>4. TenTo[j + 1] = 10 * TenTo[j] /\ TenTo[j] \in Nat /\ W[j] \in Nat /\ V[m] \in Nat
      <4>1. TenTo[j + 1] = 10 * TenTo[j] /\ TenTo[j] \in Nat
        BY TenToRecursion
      <4>2. j \in 0..Len(e)
        BY <1>1, <2>1
      <4>3. W[j] \in Nat /\ V[m] \in Nat
        BY <1>1, <4>2
      <4> QED BY <4>1, <4>3
    <3> DEFINE v == V[m]
               t == TenTo[j]
               w == W[j]
               x == e[j + 1]
    <3>5. v \in Nat /\ t \in Nat /\ w \in Nat /\ x \in Nat
      BY <3>1, <3>4
    <3>6. 10 * (v * t + w) + x = v * (10 * t) + (10 * w + x)
      <4> HIDE DEF v, t, w, x
      <4> QED BY <3>5
    <3>7. d[m + (j + 1)] = e[j + 1]
      BY <3>1
    <3> QED BY <3>1, <3>2, <3>3, <3>4, <3>6, <3>7
  <2> QED BY <2>1
<1> HIDE DEF T
<1>4. Len(e) \in T
  BY <1>1, <1>2, <1>3, UpwardClosed
<1> QED BY <1>1, <1>4 DEF T

\* Numbers whose first m digits are the same agree on them.
LEMMA ValuesAgree ==
  ASSUME NEW d \in Seq(Nat), NEW e \in Seq(Nat), NEW m \in Nat, SameStart(d, e, m),
         NEW V, IsValueTable(V, d), NEW W, IsValueTable(W, e)
  PROVE  V[m] = W[m]
<1> USE DEF SameStart
<1> DEFINE T == {j \in Nat : j <= m => V[j] = W[j]}
<1>1. 0 \in T
  BY DEF IsValueTable
<1>2. ASSUME NEW j \in Nat, j \in T PROVE j + 1 \in T
  <2>1. CASE j + 1 <= m
    <3>1. /\ V[j] = W[j] /\ j + 1 \in 1..Len(d) /\ j + 1 \in 1..Len(e)
          /\ (j + 1) - 1 = j /\ d[j + 1] = e[j + 1]
      BY <1>2, <2>1
    <3>2. V[j + 1] = 10 * V[j] + d[j + 1] /\ W[j + 1] = 10 * W[j] + e[j + 1]
      BY <3>1 DEF IsValueTable
    <3> QED BY <3>1, <3>2
  <2> QED BY <2>1
<1> HIDE DEF T
<1>3. m \in T
  BY <1>1, <1>2, UpwardClosed
<1> QED BY <1>3 DEF T

LEMMA DivideTwice ==
  ASSUME NEW x \in Nat, NEW p \in Nat \ {0}
  PROVE  x \div (10 * p) = (x \div p) \div 10
<1> DEFINE y == x \div p
           z == y \div 10
<1>1. y \in Nat /\ p * y <= x /\ x < p * y + p
  OBVIOUS
<1> HIDE DEF y
<1>2. z \in Nat /\ 10 * z <= y /\ y + 1 <= 10 * z + 10
  BY <1>1
<1> HIDE DEF z
<1>3. p * (10 * z) <= p * y /\ p * (y + 1) <= p * (10 * z + 10)
  BY <1>1, <1>2
<1> DEFINE c == 10 * p
<1>4. c \in Nat \ {0} /\ c * z <= x /\ x < c * z + c
  <2>1. c \in Nat \ {0}
    OBVIOUS
  <2>2. p * (10 * z) = c * z /\ p * (10 * z + 10) = c * z + c /\ p * (y + 1) = p * y + p
    BY <1>1, <1>2
  <2>3. c * z \in Nat /\ p * y \in Nat
    BY <1>1, <1>2, <2>1
  <2> HIDE DEF c
  <2> QED BY <1>1, <1>3, <2>1, <2>2, <2>3
<1> HIDE DEF c
<1>5. x \div c = z
  BY <1>2, <1>4
<1> QED BY <1>5 DEF c, y, z

LEMMA DigitsAreDigits ==
  ASSUME NEW x \in Nat, NEW k \in Nat
  PROVE  Digits(x, k) \in Seq(Nat) /\ Len(Digits(x, k)) = k
<1>1. \A i \in 1..k : (x \div TenTo[k - i]) % 10 \in Nat
  <2> SUFFICES ASSUME NEW i \in 1..k PROVE (x \div TenTo[k - i]) % 10 \in Nat
    OBVIOUS
  <2>1. k - i \in Nat
    OBVIOUS
  <2>2. TenTo[k - i] \in Nat \ {0}
    BY <2>1, TenToRecursion
  <2>3. x \div TenTo[k - i] \in Nat
    BY <2>2
  <2> QED BY <2>3
<1> QED BY <1>1 DEF Digits

\* The first j of the k digits of x write x without the others.
LEMMA DigitsValue ==
  ASSUME NEW x \in Nat, NEW k \in Nat, x < TenTo[k], NEW V, IsValueTable(V, Digits(x, k))
  PROVE  \A j \in 0..k : V[j] = x \div TenTo[k - j]
<1> DEFINE T == {j \in Nat : j <= k => V[j] = x \div TenTo[k - j]}
<1>1. 0 \in T
  <2>1. TenTo[k] \in Nat \ {0} /\ k - 0 = k
    BY TenToRecursion
  <2>2. x \div TenTo[k] = 0
    BY <2>1
  <2> QED BY <2>1, <2>2 DEF IsValueTable
<1>2. ASSUME NEW j \in Nat, j \in T PROVE j + 1 \in T
  <2>1. CASE j + 1 <= k
    <3> DEFINE p == TenTo[k - (j + 1)]
               i == j + 1
    <3>1. k - (j + 1) \in Nat /\ (k - (j + 1)) + 1 = k - j
      BY <2>1
    <3>2. p \in Nat \ {0} /\ TenTo[k - j] = 10 * p
      <4>1. TenTo[k - (j + 1)] \in Nat \ {0}
        BY <3>1, TenToRecursion
      <4>2. TenTo[(k - (j + 1)) + 1] = 10 * TenTo[k - (j + 1)]
        BY <3>1, TenToRecursion
      <4> QED BY <4>1, <4>2, <3>1
    <3>3. V[j] = x \div (10 * p)
      BY <1>2, <2>1, <3>2
    <3>4. i \in 1..k /\ i - 1 = j /\ Len(Digits(x, k)) = k
      BY <2>1, DigitsAreDigits
    <3>5. Digits(x, k)[i] = (x \div p) % 10
      BY <3>4 DEF Digits
    <3>6. V[i] = 10 * V[i - 1] + Digits(x, k)[i]
      <4> HIDE DEF i
      <4> QED BY <3>4 DEF IsValueTable
    <3> DEFINE y == x \div p
    <3>7. y \in Nat
      BY <3>2
    <3>8. V[j] = y \div 10
      BY <3>2, <3>3, DivideTwice
    <3>9. 10 * (y \div 10) + (y % 10) = y
      <4> HIDE DEF y
      <4> QED BY <3>7
    <3>10. V[i] = y
      <4> HIDE DEF i, p
      <4> QED BY <3>4, <3>5, <3>6, <3>8, <3>9
    <3> QED BY <3>10
  <2> QED BY <2>1
<1> HIDE DEF T
<1>3. \A j \in Nat : j \in T
  BY <1>1, <1>2, UpwardClosed
<1> QED BY <1>3 DEF T

\* A displayed figure is below the amount by less than its last digit.
THEOREM ShownBelowByADigit ==
  ASSUME NEW v \in Nat, NEW dp \in 0..DECIMALS
  PROVE  /\ Reads(FormatUnits18(v, dp), dp) + TenTo[DECIMALS - dp] \in Nat
         /\ v < Reads(FormatUnits18(v, dp), dp) + TenTo[DECIMALS - dp]
<1> DEFINE S == Scale
           P == TenTo[DECIMALS - dp]
           x == v % S
           d == Digits(x, DECIMALS)
           e == SubSeq(d, 1, dp)
           shown == FormatUnits18(v, dp)
<1>1. DECIMALS \in Nat /\ DECIMALS - dp \in Nat
  BY UnitsAssumption
<1>2. S \in Nat \ {0} /\ P \in Nat \ {0} /\ S = TenTo[DECIMALS]
  BY <1>1, TenToRecursion DEF Scale
<1>3. x \in Nat /\ x < S /\ v = S * (v \div S) + x /\ v \div S \in Nat
  <2> HIDE DEF S
  <2> QED BY <1>2
<1>4. shown.neg = FALSE /\ shown.whole = v \div S /\ shown.frac = e
  <2> DEFINE a == IF v < 0 THEN -v ELSE v
             whole == a \div Scale
             frac == SubSeq(Digits(a % Scale, DECIMALS), 1, dp)
             neg == v < 0
  <2>1. shown = [neg |-> neg, whole |-> whole, frac |-> frac]
    BY DEF FormatUnits18
  <2>2. neg = FALSE /\ a = v
    OBVIOUS
  <2> HIDE DEF a, neg
  <2>3. whole = v \div S /\ frac = e
    BY <2>2
  <2> HIDE DEF whole, frac, e, S, shown
  <2> QED BY <2>1, <2>2, <2>3
<1> HIDE DEF S, P, x
<1>5. d \in Seq(Nat) /\ Len(d) = DECIMALS
  BY <1>1, <1>3, DigitsAreDigits
<1>6. PICK V : IsValueTable(V, d)
  BY <1>5, ValueTable
<1>7. V[dp] = x \div P
  <2>1. \A j \in 0..DECIMALS : V[j] = x \div TenTo[DECIMALS - j]
    BY <1>1, <1>2, <1>3, <1>6, DigitsValue
  <2> QED BY <2>1 DEF P
<1> HIDE DEF d
<1>8. e \in Seq(Nat) /\ Len(e) = dp /\ \A i \in 1..dp : e[i] = d[i]
  BY <1>1, <1>5
<1> HIDE DEF e
<1>9. ValueOf(e) = x \div P
  <2>1. PICK W : IsValueTable(W, e) /\ ValueOf(e) = W[Len(e)]
    BY <1>8, ValueTable
  <2>2. dp \in Nat /\ SameStart(d, e, dp)
    BY <1>1, <1>5, <1>8 DEF SameStart
  <2>3. V[dp] = W[dp]
    BY <1>5, <1>6, <1>8, <2>1, <2>2, ValuesAgree
  <2> QED BY <1>7, <1>8, <2>1, <2>3
<1> DEFINE f == x \div P
           w == v \div S
<1>10. f \in Nat /\ x < P * f + P
  BY <1>2, <1>3
<1>11. Reads(shown, dp) = w * S + f * P
  <2> HIDE DEF shown, f, w
  <2> QED BY <1>4, <1>9 DEF Reads, S, P, f, w
<1> HIDE DEF shown, f, w
<1>12. w * S + f * P + P \in Nat /\ v < w * S + f * P + P
  <2>1. w \in Nat /\ v = w * S + x /\ P * f = f * P /\ w * S \in Nat /\ f * P \in Nat
    BY <1>2, <1>3, <1>10 DEF w
  <2> QED BY <2>1, <1>2, <1>3, <1>10
<1> QED BY <1>11, <1>12 DEF shown, P

\* What the field holds, and what is parsed from it.
Typed(text) ==
  text.kind = "decimal" => text.whole \in Seq(0..9) /\ text.frac \in Seq(0..9)

\* A parsed amount is the number typed, to the unit: its digits at the scale of a unit.
THEOREM ParsedToTheUnit ==
  ASSUME NEW text, Typed(text), ParseUnits18(text) # None
  PROVE  /\ ParseUnits18(text) \in Nat
         /\ ParseUnits18(text) * TenTo[Len(text.frac)] = ValueOf(text.whole \o text.frac) * Scale
<1> DEFINE w == text.whole
           f == text.frac
           z == PadEnd(f, DECIMALS)
           n == Len(f)
           tail == [i \in 1..(DECIMALS - n) |-> 0]
<1>1. w \in Seq(Nat) /\ f \in Seq(Nat) /\ n \in Nat /\ n <= DECIMALS /\ DECIMALS \in Nat
  <2>1. text.kind = "decimal" /\ ~(Len(text.frac) > DECIMALS)
    BY DEF ParseUnits18, PlainDecimal
  <2>2. w \in Seq(0..9) /\ f \in Seq(0..9)
    BY <2>1 DEF Typed
  <2> QED BY <2>1, <2>2, UnitsAssumption
<1>2. ParseUnits18(text) = ValueOf(w) * Scale + ValueOf(z)
  BY DEF ParseUnits18
<1> HIDE DEF w, f
<1>3. z \in Seq(Nat) /\ Len(z) = DECIMALS /\ \A i \in 1..n : z[i] = f[i]
  <2>1. \A i \in 1..DECIMALS : (IF i <= Len(f) THEN f[i] ELSE 0) \in Nat
    BY <1>1
  <2>2. z = [i \in 1..DECIMALS |-> IF i <= Len(f) THEN f[i] ELSE 0]
    BY DEF PadEnd
  <2> HIDE DEF z
  <2>3. z \in [1..DECIMALS -> Nat]
    BY <1>1, <2>1, <2>2
  <2>4. z \in Seq(Nat) /\ Len(z) = DECIMALS
    BY <1>1, <2>3
  <2>5. \A i \in 1..n : z[i] = f[i]
    BY <1>1, <2>2
  <2> QED BY <2>4, <2>5
<1>4. tail \in Seq(Nat) /\ Len(tail) = DECIMALS - n /\ \A i \in 1..Len(tail) : tail[i] = 0
  BY <1>1
<1>5. \A i \in 1..Len(tail) : z[n + i] = tail[i]
  BY <1>1, <1>4 DEF PadEnd
<1>6. w \o f \in Seq(Nat) /\ Len(w \o f) = Len(w) + n
      /\ (\A i \in 1..Len(w) : (w \o f)[i] = w[i])
      /\ (\A i \in 1..n : (w \o f)[Len(w) + i] = f[i])
  BY <1>1
<1> DEFINE c == w \o f
<1> HIDE DEF z, tail, c
<1>7. PICK VW : IsValueTable(VW, w) /\ ValueOf(w) = VW[Len(w)]
  BY <1>1, ValueTable
<1>8. PICK VF : IsValueTable(VF, f) /\ ValueOf(f) = VF[Len(f)]
  BY <1>1, ValueTable
<1>9. PICK VZ : IsValueTable(VZ, z) /\ ValueOf(z) = VZ[Len(z)]
  BY <1>3, ValueTable
<1>10. PICK VT : IsValueTable(VT, tail)
  BY <1>4, ValueTable
<1>11. PICK VC : IsValueTable(VC, c) /\ ValueOf(c) = VC[Len(c)]
  BY <1>6, ValueTable DEF c
<1>12. VT[Len(tail)] = 0
  <2> DEFINE T == {j \in Nat : j <= Len(tail) => VT[j] = 0}
  <2>1. 0 \in T
    BY <1>10 DEF IsValueTable
  <2>2. ASSUME NEW j \in Nat, j \in T PROVE j + 1 \in T
    <3>1. CASE j + 1 <= Len(tail)
      <4>1. VT[j] = 0 /\ j + 1 \in 1..Len(tail) /\ (j + 1) - 1 = j
        BY <1>4, <2>2, <3>1
      <4>2. VT[j + 1] = 10 * VT[j] + tail[j + 1]
        BY <1>10, <4>1 DEF IsValueTable
      <4>3. tail[j + 1] = 0
        BY <1>4, <4>1
      <4>4. VT[j + 1] = 0
        BY <4>1, <4>2, <4>3
      <4> QED BY <4>4
    <3> QED BY <3>1
  <2> HIDE DEF T
  <2>3. \A j \in Nat : j \in T
    BY <2>1, <2>2, UpwardClosed
  <2>4. Len(tail) \in Nat
    BY <1>4
  <2>5. Len(tail) \in T
    BY <2>3, <2>4
  <2> QED BY <2>4, <2>5 DEF T
<1>13. ValueOf(z) = ValueOf(f) * TenTo[DECIMALS - n]
  <2>1. VZ[Len(z)] = VZ[n] * TenTo[Len(tail)] + VT[Len(tail)]
    <3>1. RestIs(z, n, tail)
      BY <1>1, <1>3, <1>4, <1>5 DEF RestIs
    <3>2. z \in Seq(Nat) /\ tail \in Seq(Nat) /\ n \in Nat
      BY <1>1, <1>3, <1>4
    <3> HIDE DEF n
    <3> QED BY <1>9, <1>10, <3>1, <3>2, ValueGoesOn
  <2>2. VZ[n] = VF[n]
    <3>1. SameStart(z, f, n)
      BY <1>1, <1>3 DEF SameStart
    <3> QED BY <1>1, <1>3, <1>8, <1>9, <3>1, ValuesAgree
  <2>3. VF[n] \in Nat /\ TenTo[Len(tail)] \in Nat
    <3>1. DECIMALS - n \in Nat
      BY <1>1
    <3>2. TenTo[DECIMALS - n] \in Nat
      BY <3>1, TenToRecursion
    <3>3. n \in 0..Len(f)
      BY <1>1
    <3>4. VF[n] \in Nat
      BY <1>8, <3>3 DEF IsValueTable
    <3> QED BY <1>4, <3>2, <3>4
  <2>4. VF[n] = ValueOf(f)
    BY <1>8
  <2> QED BY <1>4, <1>9, <1>12, <2>1, <2>2, <2>3, <2>4
<1>14. ValueOf(c) = ValueOf(w) * TenTo[n] + ValueOf(f)
  <2>1. /\ Len(w) \in Nat /\ c \in Seq(Nat)
        /\ SameStart(c, w, Len(w)) /\ RestIs(c, Len(w), f)
    BY <1>1, <1>6 DEF c, SameStart, RestIs
  <2>2. VC[Len(w)] = VW[Len(w)]
    BY <1>1, <1>7, <1>11, <2>1, ValuesAgree
  <2>3. VC[Len(c)] = VC[Len(w)] * TenTo[Len(f)] + VF[Len(f)]
    BY <1>1, <1>8, <1>11, <2>1, ValueGoesOn
  <2> QED BY <1>7, <1>8, <1>11, <2>2, <2>3
<1>15. TenTo[DECIMALS - n] * TenTo[n] = Scale /\ TenTo[n] \in Nat /\ TenTo[DECIMALS - n] \in Nat
       /\ Scale \in Nat
  <2>1. DECIMALS - n \in Nat /\ (DECIMALS - n) + n = DECIMALS
    BY <1>1
  <2>2. TenTo[(DECIMALS - n) + n] = TenTo[DECIMALS - n] * TenTo[n]
    BY <1>1, <2>1, TenToSum
  <2>3. TenTo[n] \in Nat /\ TenTo[DECIMALS - n] \in Nat /\ TenTo[DECIMALS] \in Nat
    BY <1>1, <2>1, TenToRecursion
  <2> QED BY <2>1, <2>2, <2>3 DEF Scale
<1>16. ValueOf(w) \in Nat /\ ValueOf(f) \in Nat
  <2>1. Len(w) \in 0..Len(w) /\ Len(f) \in 0..Len(f)
    BY <1>1
  <2> QED BY <1>7, <1>8, <2>1 DEF IsValueTable
<1> DEFINE a == ValueOf(w)
           b == ValueOf(f)
           t == TenTo[n]
           u == TenTo[DECIMALS - n]
           s == Scale
<1>17. a \in Nat /\ b \in Nat /\ t \in Nat /\ u \in Nat /\ s \in Nat /\ u * t = s
  BY <1>15, <1>16
<1>18. ParseUnits18(text) = a * s + b * u /\ ValueOf(c) = a * t + b
  BY <1>2, <1>13, <1>14 DEF z
<1> HIDE DEF a, b, t, u, s
<1>19. (a * s + b * u) * t = (a * t + b) * s /\ a * s + b * u \in Nat
  <2>1. (a * s + b * u) * t = a * s * t + b * (u * t)
    BY <1>17
  <2>2. (a * t + b) * s = a * s * t + b * s
    BY <1>17
  <2>3. a * s + b * u \in Nat
    BY <1>17
  <2> QED BY <1>17, <2>1, <2>2, <2>3
<1> QED BY <1>18, <1>19 DEF c, w, f, t, s

\* A redemption of less than the supply pays no more than the backing.
LEMMA PayoutWithinBacking ==
  ASSUME NEW b \in Nat, NEW s \in Nat, NEW q \in Nat, q < s
  PROVE  (b * q) \div s \in Nat /\ (b * q) \div s <= b
<1> DEFINE n == b * q
           w == n \div s
<1>1. n \in Nat /\ n <= s * b
  OBVIOUS
<1> HIDE DEF n
<1>2. w \in Nat /\ s * w <= n
  BY <1>1
<1> HIDE DEF w
<1>3. s * w <= s * b
  BY <1>1, <1>2
<1>4. w <= b
  <2>1. CASE w > b
    <3>1. s * (b + 1) <= s * w
      BY <1>2, <2>1
    <3>2. s * (b + 1) = s * b + s /\ s * b \in Nat /\ s > 0
      OBVIOUS
    <3> QED BY <1>3, <3>1, <3>2, <1>2
  <2> QED BY <2>1, <1>2
<1> QED BY <1>2, <1>4 DEF n, w

-----------------------------------------------------------------------------
(***************************************************************************)
(* What a press captured, and what became of it.                           *)
(***************************************************************************)
\* A backing, and a supply that shares it.
Shared(h) == h \in Nat \X Nat /\ h[2] > 0

\* The chain keeps more supply than the user holds, and the page has read what it shows.
PageOK ==
  /\ Shared(hard) /\ vux \in Nat /\ vux < hard[2]
  /\ page.hard # None => Shared(page.hard)
  /\ Typed(page.text)

\* A take captured the price it showed.
TakeOK(x) == x.flow = "take" => x.arg \in Nat /\ x.shown = x.arg

\* A redemption captured the amount parsed from the text, and its quote.
RedeemOK(x) ==
  x.flow = "redeem" =>
    /\ Typed(x.shown.text) /\ x.arg = ParseUnits18(x.shown.text)
    /\ ParseUnits18(x.shown.text) # None
    /\ x.shown.hard # None =>
         Shared(x.shown.hard) /\ x.shown.quote = (x.shown.hard[1] * x.arg) \div x.shown.hard[2]

FlowOf(call) == IF call = "redeem" THEN "redeem" ELSE "take"

RunOK(x) == TakeOK(x) /\ RedeemOK(x) /\ x.flow = FlowOf(x.call)

\* A transaction or a receipt t of the run x: a take is of a run that went on from it.
OfRun(t, x) ==
  /\ x.flow = FlowOf(t.call)
  /\ t.call = "take" => x.call = "take" /\ x.state # "wallet"

SentIn(t, R) == t.run \in 1..Len(R) /\ OfRun(t, R[t.run]) /\ t.arg = R[t.run].arg

RecordedIn(e, R) ==
  /\ e.run \in 1..Len(R) /\ OfRun(e, R[e.run])
  /\ e.ok /\ e.call = "take" => e.amount \in Nat /\ e.amount <= R[e.run].arg
  /\ e.ok /\ e.call = "redeem" =>
       /\ Shared(e.hard) /\ e.amount = R[e.run].arg
       /\ e.payout = (e.hard[1] * e.amount) \div e.hard[2]

\* No run has two takes, sent or on the chain.
Once(M, E) ==
  /\ \A i, j \in 1..Len(M) :
       M[i].call = "take" /\ M[j].call = "take" /\ M[i].run = M[j].run => i = j
  /\ \A i, j \in 1..Len(E) :
       E[i].call = "take" /\ E[j].call = "take" /\ E[i].run = E[j].run => i = j
  /\ \A i \in 1..Len(M), j \in 1..Len(E) :
       M[i].call = "take" /\ E[j].call = "take" => M[i].run # E[j].run

RunsOK     == \A r \in 1..Len(runs) : RunOK(runs[r])
SentOK     == \A i \in 1..Len(mempool) : SentIn(mempool[i], runs)
ReceiptsOK == (\E E : receipts \in Seq(E)) /\ \A i \in 1..Len(receipts) : RecordedIn(receipts[i], runs)

Kept == PricesOK /\ SequencesOK /\ PageOK /\ RunsOK /\ SentOK /\ ReceiptsOK /\ Once(mempool, receipts)

LEMMA KeptInit == Init => Kept
<1> SUFFICES ASSUME Init PROVE Kept
  OBVIOUS
<1>1. Shared(hard) /\ vux \in Nat /\ vux < hard[2]
  BY WalletAssumption DEF Init, Shared
<1>2. page.hard = None /\ Typed(page.text)
  BY DEF Init, Typed, EmptyText
<1>3. runs = <<>> /\ mempool = <<>> /\ receipts = <<>>
  BY DEF Init
<1>4. PricesOK
  BY WalletAssumption DEF Init, PricesOK
<1>5. SequencesOK /\ (\E E : receipts \in Seq(E))
  BY <1>3 DEF SequencesOK
<1>6. RunsOK /\ SentOK /\ ReceiptsOK /\ Once(mempool, receipts)
  BY <1>3, <1>5 DEF RunsOK, SentOK, ReceiptsOK, Once
<1> QED BY <1>1, <1>2, <1>4, <1>5, <1>6 DEF Kept, PageOK

LEMMA KeptPageStep ==
  ASSUME Kept, UNCHANGED <<runs, mempool, receipts>>, PricesOK', PageOK'
  PROVE  Kept'
BY DEF Kept, SequencesOK, RunsOK, SentOK, ReceiptsOK

\* y is what a run that was x has become.
Follows(y, x) ==
  /\ y.flow = x.flow /\ y.arg = x.arg /\ y.shown = x.shown
  /\ y.call = x.call \/ (x.call = "approve" /\ y.call = "take")
  /\ x.call = "take" /\ x.state # "wallet" => y.state # "wallet"

GoesOn(R, Q) == \A r \in 1..Len(R) : r \in 1..Len(Q) /\ Follows(Q[r], R[r])

LEMMA StaysOfItsRun ==
  ASSUME NEW R, NEW Q, GoesOn(R, Q)
  PROVE  /\ \A t : SentIn(t, R) => SentIn(t, Q)
         /\ \A e : RecordedIn(e, R) => RecordedIn(e, Q)
<1>1. \A t, x, y : OfRun(t, x) /\ Follows(y, x) => OfRun(t, y)
  BY DEF OfRun, Follows
<1>2. ASSUME NEW t, SentIn(t, R) PROVE SentIn(t, Q)
  BY <1>1, <1>2 DEF SentIn, GoesOn, Follows
<1>3. ASSUME NEW e, RecordedIn(e, R) PROVE RecordedIn(e, Q)
  <2>1. e.run \in 1..Len(Q) /\ OfRun(e, Q[e.run]) /\ Q[e.run].arg = R[e.run].arg
    BY <1>1, <1>3 DEF RecordedIn, GoesOn, Follows
  <2> QED BY <1>3, <2>1 DEF RecordedIn
<1> QED BY <1>2, <1>3

LEMMA FollowsIsOK ==
  ASSUME NEW x, NEW y, RunOK(x), Follows(y, x)
  PROVE  RunOK(y)
BY DEF RunOK, TakeOK, RedeemOK, FlowOf, Follows

LEMMA KeptPress ==
  ASSUME Kept, NEW flow, NEW arg, NEW call, NEW shown, Press(flow, arg, call, shown),
         NEW x, x = [flow |-> flow, arg |-> arg, call |-> call, state |-> "wallet",
                     shown |-> shown],
         RunOK(x)
  PROVE  Kept'
<1>1. /\ runs' = Append(runs, x)
      /\ UNCHANGED <<page, mempool, receipts, price, hard, vux>>
  BY DEF Press, onChain
<1>2. PICK R : runs \in Seq(R)
  BY DEF Kept, SequencesOK
<1>3. runs \in Seq(R \cup {x}) /\ x \in R \cup {x}
  BY <1>2
<1>4. /\ runs' \in Seq(R \cup {x}) /\ Len(runs) \in Nat /\ Len(runs') = Len(runs) + 1
      /\ \A r \in 1..Len(runs) : runs'[r] = runs[r]
      /\ runs'[Len(runs) + 1] = x
  BY <1>1, <1>3
<1>5. GoesOn(runs, runs')
  BY <1>4 DEF GoesOn, Follows
<1>6. RunsOK'
  BY <1>4 DEF Kept, RunsOK
<1>7. SentOK' /\ ReceiptsOK'
  BY <1>1, <1>5, StaysOfItsRun DEF Kept, SentOK, ReceiptsOK
<1>8. SequencesOK' /\ PricesOK' /\ PageOK' /\ Once(mempool, receipts)'
  BY <1>1, <1>4 DEF Kept, SequencesOK, PricesOK, PageOK
<1> QED BY <1>6, <1>7, <1>8 DEF Kept

LEMMA KeptPressTake == Kept /\ PressTake => Kept'
<1> SUFFICES ASSUME Kept, PressTake PROVE Kept'
  OBVIOUS
<1> DEFINE x == [flow |-> "take", arg |-> page.price, call |-> "approve", state |-> "wallet",
                 shown |-> page.price]
<1>1. page.price \in Nat /\ Press("take", page.price, "approve", page.price)
  BY DEF PressTake, Kept, PricesOK
<1>2. x.flow = "take" /\ x.arg = page.price /\ x.call = "approve" /\ x.shown = page.price
  OBVIOUS
<1> HIDE DEF x
<1>3. RunOK(x)
  BY <1>1, <1>2 DEF RunOK, TakeOK, RedeemOK, FlowOf
<1> QED BY <1>1, <1>3, KeptPress DEF x

LEMMA KeptPressRedeem == Kept /\ PressRedeem => Kept'
<1> SUFFICES ASSUME Kept, PressRedeem PROVE Kept'
  OBVIOUS
<1> DEFINE q == ParseUnits18(page.text)
           quote == IF page.hard = None THEN None
                    ELSE PreviewRedeemRaw(page.hard[1], page.hard[2], q)
           shown == [text |-> page.text, hard |-> page.hard, quote |-> quote]
           x == [flow |-> "redeem", arg |-> q, call |-> "redeem", state |-> "wallet",
                 shown |-> shown]
<1>1. Press("redeem", q, "redeem", shown) /\ q # None /\ q > 0 /\ Typed(page.text)
  BY DEF PressRedeem, Kept, PageOK
<1>2. q \in Nat
  BY <1>1, ParsedToTheUnit
<1>3. page.hard # None =>
        Shared(page.hard) /\ quote = (page.hard[1] * q) \div page.hard[2]
  <2> SUFFICES ASSUME page.hard # None
               PROVE  Shared(page.hard) /\ quote = (page.hard[1] * q) \div page.hard[2]
    OBVIOUS
  <2>1. Shared(page.hard)
    BY DEF Kept, PageOK
  <2>2. ~(page.hard[2] <= 0) /\ ~(q <= 0)
    BY <1>1, <1>2, <2>1 DEF Shared
  <2> HIDE DEF q
  <2> QED BY <1>1, <2>1, <2>2 DEF PreviewRedeemRaw
<1> HIDE DEF quote
<1>4. shown.text = page.text /\ shown.hard = page.hard /\ shown.quote = quote
  OBVIOUS
<1> HIDE DEF shown
<1>5. x.flow = "redeem" /\ x.arg = q /\ x.call = "redeem" /\ x.shown = shown
  OBVIOUS
<1> HIDE DEF x
<1>6. RunOK(x)
  BY <1>1, <1>3, <1>4, <1>5 DEF RunOK, TakeOK, RedeemOK, FlowOf, q
<1> QED BY <1>1, <1>6, KeptPress DEF x

\* One more transaction is signed, of a run that has no take yet if it is one.
LEMMA OnceSigned ==
  ASSUME NEW M, NEW N, NEW E, NEW t, Once(M, E), Len(M) \in Nat, Len(N) = Len(M) + 1,
         \A i \in 1..Len(M) : N[i] = M[i], N[Len(M) + 1] = t,
         t.call = "take" =>
           /\ \A i \in 1..Len(M) : M[i].call = "take" => M[i].run # t.run
           /\ \A i \in 1..Len(E) : E[i].call = "take" => E[i].run # t.run
  PROVE  Once(N, E)
<1>1. \A i \in 1..Len(N) :
        (i \in 1..Len(M) /\ N[i] = M[i]) \/ (i = Len(M) + 1 /\ N[i] = t)
  OBVIOUS
<1>2. ASSUME NEW i \in 1..Len(N), NEW j \in 1..Len(N),
             N[i].call = "take", N[j].call = "take", N[i].run = N[j].run
      PROVE  i = j
  BY <1>1, <1>2 DEF Once
<1>3. ASSUME NEW i \in 1..Len(N), NEW j \in 1..Len(E), N[i].call = "take", E[j].call = "take"
      PROVE  N[i].run # E[j].run
  BY <1>1, <1>3 DEF Once
<1> QED BY <1>2, <1>3 DEF Once

\* The first transaction becomes a receipt.
LEMMA OnceIncluded ==
  ASSUME NEW M, NEW N, NEW E, NEW F, NEW e, Once(M, E), Len(M) \in Nat, Len(E) \in Nat,
         1 \in 1..Len(M), Len(N) = Len(M) - 1,
         \A i \in 1..Len(N) : N[i] = M[i + 1],
         Len(F) = Len(E) + 1, \A i \in 1..Len(E) : F[i] = E[i], F[Len(E) + 1] = e,
         e.call = M[1].call, e.run = M[1].run
  PROVE  Once(N, F)
<1>1. \A i \in 1..Len(N) : i + 1 \in 1..Len(M) /\ N[i] = M[i + 1] /\ i + 1 # 1
  OBVIOUS
<1>2. \A i \in 1..Len(F) :
        (i \in 1..Len(E) /\ F[i] = E[i]) \/ (i = Len(E) + 1 /\ F[i] = e)
  OBVIOUS
<1>3. ASSUME NEW i \in 1..Len(N), NEW j \in 1..Len(N),
             N[i].call = "take", N[j].call = "take", N[i].run = N[j].run
      PROVE  i = j
  <2>1. /\ i + 1 \in 1..Len(M) /\ j + 1 \in 1..Len(M)
        /\ M[i + 1].call = "take" /\ M[j + 1].call = "take" /\ M[i + 1].run = M[j + 1].run
    BY <1>1, <1>3
  <2>2. i + 1 = j + 1
    BY <2>1 DEF Once
  <2> QED BY <2>2
<1>4. ASSUME NEW i \in 1..Len(F), NEW j \in 1..Len(F),
             F[i].call = "take", F[j].call = "take", F[i].run = F[j].run
      PROVE  i = j
  BY <1>2, <1>4 DEF Once
<1>5. ASSUME NEW i \in 1..Len(N), NEW j \in 1..Len(F), N[i].call = "take", F[j].call = "take"
      PROVE  N[i].run # F[j].run
  <2>1. CASE j \in 1..Len(E) /\ F[j] = E[j]
    BY <1>1, <1>5, <2>1 DEF Once
  <2>2. CASE j = Len(E) + 1 /\ F[j] = e
    <3>1. M[i + 1].call = "take" /\ M[1].call = "take" /\ i + 1 \in 1..Len(M) /\ i + 1 # 1
      BY <1>1, <1>5, <2>2
    <3>2. M[i + 1].run # M[1].run
      BY <3>1 DEF Once
    <3> QED BY <1>1, <2>2, <3>2
  <2> QED BY <1>2, <2>1, <2>2
<1> QED BY <1>3, <1>4, <1>5 DEF Once

\* One run changes.
LEMMA RunChanges ==
  ASSUME Kept, NEW r \in 1..Len(runs), NEW x, runs' = [runs EXCEPT ![r] = x], Follows(x, runs[r])
  PROVE  /\ RunsOK' /\ GoesOn(runs, runs') /\ (\E R : runs' \in Seq(R))
         /\ Len(runs') = Len(runs) /\ runs'[r] = x
<1>1. PICK R : runs \in Seq(R)
  BY DEF Kept, SequencesOK
<1>2. runs \in Seq(R \cup {x}) /\ x \in R \cup {x}
  BY <1>1
<1>3. /\ runs' \in Seq(R \cup {x}) /\ Len(runs) \in Nat /\ Len(runs') = Len(runs)
      /\ \A i \in 1..Len(runs) : runs'[i] = IF i = r THEN x ELSE runs[i]
  BY <1>2
<1>4. \A i \in 1..Len(runs) : Follows(runs'[i], runs[i])
  <2>1. \A z : Follows(z, z)
    BY DEF Follows
  <2> QED BY <1>3, <2>1
<1>5. RunsOK'
  BY <1>3, <1>4, FollowsIsOK DEF Kept, RunsOK
<1> QED BY <1>3, <1>4, <1>5 DEF GoesOn

LEMMA KeptSign ==
  ASSUME Kept, NEW r \in 1..Len(runs), Sign(r)
  PROVE  Kept'
<1> DEFINE t == [run |-> r, call |-> runs[r].call, arg |-> Argument(r), chain |-> wallet.chain]
           x == [runs[r] EXCEPT !.state = "sent"]
<1>1. /\ UNCHANGED <<page, receipts, price, hard, vux>> /\ runs[r].state = "wallet"
      /\ mempool' = Append(mempool, t) /\ runs' = [runs EXCEPT ![r] = x]
  BY DEF Sign, onChain
<1>2. /\ x.flow = runs[r].flow /\ x.arg = runs[r].arg /\ x.call = runs[r].call
      /\ x.shown = runs[r].shown
  OBVIOUS
<1>3. t.call = runs[r].call /\ t.arg = runs[r].arg /\ t.run = r
  BY DEF Argument
<1>4. x.state # "wallet"
  OBVIOUS
<1> HIDE DEF x, t
<1>5. Follows(x, runs[r])
  BY <1>2, <1>4 DEF Follows
<1>6. /\ RunsOK' /\ GoesOn(runs, runs') /\ (\E R : runs' \in Seq(R))
      /\ Len(runs') = Len(runs) /\ runs'[r] = x
  BY <1>1, <1>5, RunChanges
<1>7. PICK T : mempool \in Seq(T)
  BY DEF Kept, SequencesOK
<1>8. mempool \in Seq(T \cup {t}) /\ t \in T \cup {t}
  BY <1>7
<1>9. /\ mempool' \in Seq(T \cup {t}) /\ Len(mempool) \in Nat
      /\ Len(mempool') = Len(mempool) + 1
      /\ \A i \in 1..Len(mempool) : mempool'[i] = mempool[i]
      /\ mempool'[Len(mempool) + 1] = t
  BY <1>1, <1>8
<1>10. SentIn(t, runs')
  <2>1. runs[r].flow = FlowOf(runs[r].call)
    BY DEF Kept, RunsOK, RunOK
  <2> QED BY <1>2, <1>3, <1>4, <1>6, <2>1 DEF SentIn, OfRun
<1>11. SentOK'
  <2>1. \A i \in 1..Len(mempool) : SentIn(mempool[i], runs')
    BY <1>6, StaysOfItsRun DEF Kept, SentOK
  <2>2. \A i \in 1..Len(mempool') : i \in 1..Len(mempool) \/ i = Len(mempool) + 1
    BY <1>9
  <2>3. \A i \in 1..Len(mempool') : SentIn(mempool'[i], runs')
    BY <1>9, <1>10, <2>1, <2>2
  <2> QED BY <2>3 DEF SentOK
<1>12. ReceiptsOK'
  BY <1>1, <1>6, StaysOfItsRun DEF Kept, ReceiptsOK
<1>13. Once(mempool', receipts)
  <2>1. ASSUME t.call = "take", NEW i \in 1..Len(mempool), mempool[i].call = "take"
        PROVE  mempool[i].run # t.run
    BY <1>1, <1>3, <2>1 DEF Kept, SentOK, SentIn, OfRun
  <2>2. ASSUME t.call = "take", NEW i \in 1..Len(receipts), receipts[i].call = "take"
        PROVE  receipts[i].run # t.run
    BY <1>1, <1>3, <2>2 DEF Kept, ReceiptsOK, RecordedIn, OfRun
  <2>3. Once(mempool, receipts)
    BY DEF Kept
  <2> QED BY <1>9, <2>1, <2>2, <2>3, OnceSigned
<1> QED BY <1>1, <1>6, <1>9, <1>11, <1>12, <1>13 DEF Kept, SequencesOK, PricesOK, PageOK

LEMMA KeptAwait ==
  ASSUME Kept, NEW r \in 1..Len(runs), Ends(r) \/ Confirmed(r)
  PROVE  Kept'
<1>1. PICK x : /\ runs' = [runs EXCEPT ![r] = x] /\ Follows(x, runs[r])
               /\ UNCHANGED <<page, price, mempool, receipts, hard, vux>>
  <2>1. CASE Ends(r) \/ (Confirmed(r) /\ runs[r].call # "approve")
    <3> DEFINE x == [runs[r] EXCEPT !.state = "ended"]
    <3>1. /\ runs' = [runs EXCEPT ![r] = x]
          /\ UNCHANGED <<page, price, mempool, receipts, hard, vux>>
      BY <2>1 DEF Ends, Confirmed, onChain
    <3>2. /\ x.flow = runs[r].flow /\ x.arg = runs[r].arg /\ x.call = runs[r].call
          /\ x.shown = runs[r].shown
      OBVIOUS
    <3>3. x.state # "wallet"
      OBVIOUS
    <3> HIDE DEF x
    <3>4. Follows(x, runs[r])
      BY <3>2, <3>3 DEF Follows
    <3> QED BY <3>1, <3>4
  <2>2. CASE Confirmed(r) /\ runs[r].call = "approve"
    <3> DEFINE y == [runs[r] EXCEPT !.call = "take"]
               x == [y EXCEPT !.state = "wallet"]
    <3>1. r \in DOMAIN runs
      BY DEF Kept, SequencesOK
    <3>2. /\ UNCHANGED <<page, price, mempool, receipts, hard, vux>>
          /\ runs' = [runs EXCEPT ![r].call = "take", ![r].state = "wallet"]
      BY <2>2 DEF Confirmed, onChain
    <3>3. runs' = [runs EXCEPT ![r] = x]
      BY <3>1, <3>2
    <3>4. y.flow = runs[r].flow /\ y.arg = runs[r].arg /\ y.shown = runs[r].shown
      OBVIOUS
    <3>5. x.flow = y.flow /\ x.arg = y.arg /\ x.shown = y.shown /\ x.call = y.call
      OBVIOUS
    <3>6. y.call = "take" /\ x.call = y.call
      OBVIOUS
    <3> HIDE DEF x, y
    <3>7. Follows(x, runs[r])
      BY <2>2, <3>4, <3>5, <3>6 DEF Follows
    <3> QED BY <3>2, <3>3, <3>7
  <2> QED BY <2>1, <2>2
<1>2. /\ RunsOK' /\ GoesOn(runs, runs') /\ (\E R : runs' \in Seq(R))
  BY <1>1, RunChanges
<1>3. SentOK' /\ ReceiptsOK'
  BY <1>1, <1>2, StaysOfItsRun DEF Kept, SentOK, ReceiptsOK
<1> QED BY <1>1, <1>2, <1>3 DEF Kept, SequencesOK, PricesOK, PageOK

\* A settlement mints at most to the user what it adds to the supply.
LEMMA SettledShares ==
  ASSUME Shared(hard), vux \in Nat, vux < hard[2], price \in Nat,
         NEW s \in Settlements, Settle(s[1], s[2])
  PROVE  Shared(hard)' /\ vux' \in Nat /\ vux' < hard'[2] /\ price' \in Nat
<1>1. s[1] \in Nat /\ s[2] \in Nat
  BY WalletAssumption
<1>2. hard[1] \in Nat /\ hard[2] \in Nat /\ hard[2] > 0
  BY DEF Shared
<1>3. /\ hard' = <<hard[1] + s[1], hard[2] + s[2]>> /\ price' = 2 * price
      /\ vux' = vux \/ vux' = vux + s[2]
  BY DEF Settle
<1>4. hard'[1] = hard[1] + s[1] /\ hard'[2] = hard[2] + s[2] /\ hard' \in Nat \X Nat
  BY <1>1, <1>2, <1>3
<1> QED BY <1>1, <1>2, <1>3, <1>4 DEF Shared

LEMMA KeptInclude == Kept /\ Include => Kept'
<1> SUFFICES ASSUME Kept, Include PROVE Kept'
  OBVIOUS
<1> DEFINE t == Head(mempool)
           ok == t.chain = CHAIN_ID /\ Succeeds(t)
           amount == IF t.call = "take" THEN price ELSE t.arg
           payout == IF t.call = "redeem" THEN Payout(t.arg) ELSE 0
           e == [run |-> t.run, call |-> t.call, ok |-> ok, hard |-> hard,
                 amount |-> amount, payout |-> payout]
<1>1. /\ UNCHANGED <<page, runs>> /\ mempool # <<>> /\ mempool' = Tail(mempool)
      /\ receipts' = Append(receipts, e)
      /\ \/ t.call = "take" /\ ok /\ \E s \in Settlements : Settle(s[1], s[2])
         \/ /\ t.call = "redeem" /\ ok /\ price' = price
            /\ vux' = vux - t.arg /\ hard' = <<hard[1] - Payout(t.arg), hard[2] - t.arg>>
         \/ price' = price /\ vux' = vux /\ hard' = hard
  BY DEF Include
<1>2. PICK T : mempool \in Seq(T)
  BY DEF Kept, SequencesOK
<1>3. /\ t = mempool[1] /\ 1 \in 1..Len(mempool)
      /\ mempool' \in Seq(T) /\ Len(mempool) \in Nat /\ Len(mempool') = Len(mempool) - 1
      /\ \A i \in 1..Len(mempool') : mempool'[i] = mempool[i + 1] /\ i + 1 \in 1..Len(mempool)
  BY <1>1, <1>2
<1>4. PICK E : receipts \in Seq(E)
  BY DEF Kept, ReceiptsOK
<1>5. /\ e.run = t.run /\ e.call = t.call /\ e.ok = ok /\ e.hard = hard
      /\ e.amount = amount /\ e.payout = payout
  OBVIOUS
<1>6. SentIn(t, runs) /\ RunOK(runs[t.run]) /\ t.run \in 1..Len(runs)
  <2>1. SentIn(t, runs)
    BY <1>3 DEF Kept, SentOK
  <2> QED BY <2>1 DEF Kept, RunsOK, SentIn
<1>7. t.call = "redeem" => t.arg \in Nat
  <2>1. t.call = "redeem" => runs[t.run].flow = "redeem" /\ runs[t.run].arg = t.arg
    BY <1>6 DEF SentIn, OfRun, FlowOf
  <2> QED BY <1>6, <2>1, ParsedToTheUnit DEF RunOK, RedeemOK
<1>8. t.call = "take" /\ ok => price <= t.arg
  BY DEF Succeeds
<1>9. t.call = "redeem" /\ ok => t.arg <= vux
  BY DEF Succeeds
<1>10. /\ price \in Nat /\ Shared(hard) /\ hard[1] \in Nat /\ hard[2] \in Nat
       /\ vux \in Nat /\ vux < hard[2]
  BY DEF Kept, PricesOK, PageOK, Shared
<1> HIDE DEF e, ok, t
<1>11. receipts \in Seq(E \cup {e}) /\ e \in E \cup {e}
  BY <1>4
<1>12. /\ receipts' \in Seq(E \cup {e}) /\ Len(receipts) \in Nat
       /\ Len(receipts') = Len(receipts) + 1
       /\ \A i \in 1..Len(receipts) : receipts'[i] = receipts[i]
       /\ receipts'[Len(receipts) + 1] = e
  BY <1>1, <1>11
<1>13. RecordedIn(e, runs)
  <2>1. e.run \in 1..Len(runs) /\ OfRun(e, runs[e.run])
    BY <1>5, <1>6 DEF SentIn, OfRun
  <2>2. e.ok /\ e.call = "take" => e.amount \in Nat /\ e.amount <= runs[e.run].arg
    BY <1>5, <1>6, <1>8, <1>10 DEF SentIn
  <2>3. e.call = "redeem" => e.amount = t.arg /\ e.payout = (hard[1] * t.arg) \div hard[2]
    BY <1>5 DEF Payout
  <2>4. e.ok /\ e.call = "redeem" =>
          /\ Shared(e.hard) /\ e.amount = runs[e.run].arg
          /\ e.payout = (e.hard[1] * e.amount) \div e.hard[2]
    BY <1>5, <1>6, <1>10, <2>3 DEF SentIn
  <2> QED BY <2>1, <2>2, <2>4 DEF RecordedIn
<1>14. ReceiptsOK'
  <2>1. \A i \in 1..Len(receipts') :
          (i \in 1..Len(receipts) /\ receipts'[i] = receipts[i])
          \/ (i = Len(receipts) + 1 /\ receipts'[i] = e)
    BY <1>12
  <2>2. \A i \in 1..Len(receipts) : RecordedIn(receipts[i], runs)
    BY DEF Kept, ReceiptsOK
  <2>3. \A i \in 1..Len(receipts') : RecordedIn(receipts'[i], runs)
    BY <1>13, <2>1, <2>2
  <2> QED BY <1>1, <1>12, <2>3 DEF ReceiptsOK
<1>15. SentOK'
  BY <1>1, <1>3 DEF Kept, SentOK
<1>16. Once(mempool', receipts')
  <2>1. Once(mempool, receipts) /\ e.call = mempool[1].call /\ e.run = mempool[1].run
    BY <1>3, <1>5 DEF Kept
  <2>2. \A i \in 1..Len(mempool') : mempool'[i] = mempool[i + 1]
    BY <1>3
  <2> QED BY <1>3, <1>12, <2>1, <2>2, OnceIncluded
<1>17. Shared(hard)' /\ vux' \in Nat /\ vux' < hard'[2] /\ price' \in Nat
  <2>1. ASSUME NEW s \in Settlements, Settle(s[1], s[2])
        PROVE  Shared(hard)' /\ vux' \in Nat /\ vux' < hard'[2] /\ price' \in Nat
    BY <1>10, <2>1, SettledShares
  <2>2. ASSUME t.call = "redeem", ok, price' = price, vux' = vux - t.arg,
               hard' = <<hard[1] - Payout(t.arg), hard[2] - t.arg>>
        PROVE  Shared(hard)' /\ vux' \in Nat /\ vux' < hard'[2] /\ price' \in Nat
    <3> DEFINE q == t.arg
               p == Payout(t.arg)
    <3>1. q \in Nat /\ q <= vux /\ q < hard[2]
      BY <1>7, <1>9, <1>10, <2>2
    <3>2. p \in Nat /\ p <= hard[1]
      <4> HIDE DEF q
      <4>1. (hard[1] * q) \div hard[2] \in Nat /\ (hard[1] * q) \div hard[2] <= hard[1]
        BY <1>10, <3>1, PayoutWithinBacking
      <4> QED BY <4>1 DEF Payout, q
    <3>3. vux' = vux - q /\ hard' = <<hard[1] - p, hard[2] - q>>
      BY <2>2
    <3> HIDE DEF p, q
    <3>4. hard'[1] = hard[1] - p /\ hard'[2] = hard[2] - q /\ hard' \in Nat \X Nat
      BY <1>10, <3>1, <3>2, <3>3
    <3> QED BY <1>10, <2>2, <3>1, <3>2, <3>3, <3>4 DEF Shared
  <2>3. ASSUME price' = price, vux' = vux, hard' = hard
        PROVE  Shared(hard)' /\ vux' \in Nat /\ vux' < hard'[2] /\ price' \in Nat
    BY <1>10, <2>3 DEF Shared
  <2> QED BY <1>1, <2>1, <2>2, <2>3
<1>18. PageOK' /\ PricesOK' /\ SequencesOK' /\ RunsOK'
  BY <1>1, <1>3, <1>17 DEF Kept, PageOK, PricesOK, SequencesOK, RunsOK
<1> QED BY <1>14, <1>15, <1>16, <1>18 DEF Kept

LEMMA KeptStep == Kept /\ [Next]_vars => Kept'
<1> SUFFICES ASSUME Kept, [Next]_vars PROVE Kept'
  OBVIOUS
<1> USE DEF PricesOK
<1>1. CASE UNCHANGED vars
  BY <1>1, KeptPageStep DEF vars, onChain, Kept, PageOK
<1>2. ASSUME NEW connected, NEW c, SetWallet(connected, c) PROVE Kept'
  BY <1>2, KeptPageStep DEF SetWallet, onChain, Kept, PageOK
<1>3. CASE PriceFalls
  <2>1. price' = price - Decay /\ price >= Decay
        /\ UNCHANGED <<page, runs, mempool, receipts, hard, vux>>
    BY <1>3 DEF PriceFalls
  <2>2. PricesOK'
    BY <2>1, WalletAssumption DEF Kept
  <2> QED BY <2>1, <2>2, KeptPageStep DEF Kept, PageOK
<1>4. CASE Displaced
  <2>1. PICK s \in Settlements : Settle(s[1], s[2])
    BY <1>4 DEF Displaced
  <2>2. UNCHANGED <<page, runs, mempool, receipts>>
    BY <1>4 DEF Displaced
  <2>3. Shared(hard)' /\ vux' \in Nat /\ vux' < hard'[2] /\ price' \in Nat
    BY <2>1, SettledShares DEF Kept, PageOK
  <2> QED BY <2>2, <2>3, KeptPageStep DEF Kept, PageOK
<1>5. CASE SyncAccount
  <2>1. page'.price = page.price /\ page'.hard = page.hard /\ page'.text = page.text
        /\ UNCHANGED <<price, runs, mempool, receipts, hard, vux>>
    BY <1>5 DEF SyncAccount, onChain
  <2> QED BY <2>1, KeptPageStep DEF Kept, PageOK
<1>6. CASE ReadAnswered
  <2>1. (page'.price = page.price \/ page'.price = price)
        /\ (page'.hard = page.hard \/ page'.hard = hard) /\ page'.text = page.text
        /\ UNCHANGED <<price, runs, mempool, receipts, hard, vux>>
    BY <1>6 DEF ReadAnswered, onChain
  <2> QED BY <2>1, KeptPageStep DEF Kept, PageOK
<1>7. CASE ReadFailed
  <2>1. page'.price = None /\ page'.hard = None /\ page'.text = page.text
        /\ UNCHANGED <<price, runs, mempool, receipts, hard, vux>>
    BY <1>7 DEF ReadFailed, onChain
  <2> QED BY <2>1, KeptPageStep DEF Kept, PageOK
<1>8. CASE Navigate
  <2>1. page'.price = None /\ page'.hard = None /\ page'.text = EmptyText
        /\ UNCHANGED <<price, runs, mempool, receipts, hard, vux>>
    BY <1>8 DEF Navigate, onChain
  <2>2. Typed(EmptyText)
    BY DEF Typed, EmptyText
  <2> QED BY <2>1, <2>2, KeptPageStep DEF Kept, PageOK
<1>9. ASSUME NEW text \in Texts, Type(text) PROVE Kept'
  <2>1. page'.price = page.price /\ page'.hard = page.hard /\ page'.text = text
        /\ UNCHANGED <<price, runs, mempool, receipts, hard, vux>>
    BY <1>9 DEF Type, onChain
  <2>2. Typed(text)
    BY WalletAssumption DEF Typed
  <2> QED BY <2>1, <2>2, KeptPageStep DEF Kept, PageOK
<1>10. ASSUME NEW r \in 1..Len(runs), Sign(r) \/ Ends(r) \/ Confirmed(r) PROVE Kept'
  BY <1>10, KeptSign, KeptAwait
<1> QED
  BY <1>1, <1>2, <1>3, <1>4, <1>5, <1>6, <1>7, <1>8, <1>9, <1>10,
     KeptPressTake, KeptPressRedeem, KeptInclude DEF Next

\* A take that is done cost no more than its press captured.
LEMMA ChargedItsMaximum ==
  ASSUME Kept, NEW i \in Done("take")
  PROVE  /\ receipts[i].amount \in Nat /\ runs[receipts[i].run].shown \in Nat
         /\ receipts[i].amount <= runs[receipts[i].run].shown
<1>1. i \in 1..Len(receipts) /\ receipts[i].call = "take" /\ receipts[i].ok
  BY DEF Done
<1>2. RecordedIn(receipts[i], runs)
  BY <1>1 DEF Kept, ReceiptsOK
<1> DEFINE x == runs[receipts[i].run]
<1>3. receipts[i].amount \in Nat /\ receipts[i].amount <= x.arg /\ x.flow = "take"
  BY <1>1, <1>2 DEF RecordedIn, OfRun, FlowOf
<1>4. x.arg \in Nat /\ x.shown = x.arg
  BY <1>2, <1>3 DEF Kept, RunsOK, RunOK, TakeOK, RecordedIn
<1> QED BY <1>3, <1>4

\* A press is charged at most once, and never more than the price of the render it was
\* made in (src/web/components/WalletFlows.jsx:149-180).
THEOREM ChargeAlwaysWithinPressed == Spec => []ChargedWithinPressedPrice
<1>1. Kept => ChargedWithinPressedPrice
  <2> SUFFICES ASSUME Kept, NEW i \in Done("take")
               PROVE  /\ receipts[i].amount <= runs[receipts[i].run].shown
                      /\ \A j \in Done("take") : receipts[j].run = receipts[i].run => j = i
    BY DEF ChargedWithinPressedPrice
  <2>1. receipts[i].amount \in Nat /\ receipts[i].amount <= runs[receipts[i].run].shown
    BY ChargedItsMaximum
  <2>2. \A j \in Done("take") : receipts[j].run = receipts[i].run => j = i
    BY DEF Done, Kept, Once
  <2> QED BY <2>1, <2>2
<1> QED BY KeptInit, KeptStep, <1>1, PTL DEF Spec

\* The charge is less than one displayed digit above the figure shown.
ChargedWithinADigit ==
  \A i \in Done("take") :
    receipts[i].amount
      < MaximumShown(runs[receipts[i].run].shown) + TenTo[DECIMALS - PRICE_DIGITS]

\* How far the figure above the button can understate the charge: by less than one of
\* its digits, whatever the digits (src/web/components/WalletFlows.jsx:192).
THEOREM ChargeAlwaysWithinADigit == Spec => []ChargedWithinADigit
<1>1. Kept => ChargedWithinADigit
  <2> SUFFICES ASSUME Kept, NEW i \in Done("take")
               PROVE  receipts[i].amount
                        < MaximumShown(runs[receipts[i].run].shown)
                            + TenTo[DECIMALS - PRICE_DIGITS]
    BY DEF ChargedWithinADigit
  <2> DEFINE v == runs[receipts[i].run].shown
             bound == MaximumShown(v) + TenTo[DECIMALS - PRICE_DIGITS]
  <2>1. receipts[i].amount \in Nat /\ v \in Nat /\ receipts[i].amount <= v
    BY ChargedItsMaximum
  <2> HIDE DEF v
  <2>2. bound \in Nat /\ v < bound
    BY <2>1, WalletAssumption, ShownBelowByADigit DEF MaximumShown
  <2> HIDE DEF bound
  <2>3. receipts[i].amount < bound
    BY <2>1, <2>2
  <2> QED BY <2>3 DEF bound, v
<1> QED BY KeptInit, KeptStep, <1>1, PTL DEF Spec

\* What a redemption burns is what was typed, to the unit, and in the state its quote
\* was made from it pays that quote (src/web/components/WalletFlows.jsx:214-240).
THEOREM BurnIsWhatWasTyped == Spec => []BurnsWhatWasTyped
<1>1. Kept => BurnsWhatWasTyped
  <2> SUFFICES ASSUME Kept, NEW i \in Done("redeem")
               PROVE  LET seen == runs[receipts[i].run].shown
                          text == seen.text
                      IN  /\ receipts[i].amount * TenTo[Len(text.frac)]
                               = ValueOf(text.whole \o text.frac) * Scale
                          /\ seen.hard = receipts[i].hard => receipts[i].payout = seen.quote
    BY DEF BurnsWhatWasTyped
  <2>1. i \in 1..Len(receipts) /\ receipts[i].call = "redeem" /\ receipts[i].ok
    BY DEF Done
  <2> DEFINE x == runs[receipts[i].run]
             seen == x.shown
             text == seen.text
  <2>2. RecordedIn(receipts[i], runs)
    BY <2>1 DEF Kept, ReceiptsOK
  <2>3. /\ x.flow = "redeem" /\ Shared(receipts[i].hard) /\ receipts[i].amount = x.arg
        /\ receipts[i].payout = (receipts[i].hard[1] * receipts[i].amount) \div receipts[i].hard[2]
    BY <2>1, <2>2 DEF RecordedIn, OfRun, FlowOf
  <2>4. RunOK(x)
    BY <2>2 DEF Kept, RunsOK, RecordedIn
  <2>5. /\ Typed(text) /\ x.arg = ParseUnits18(text) /\ ParseUnits18(text) # None
        /\ seen.hard # None => seen.quote = (seen.hard[1] * x.arg) \div seen.hard[2]
    BY <2>3, <2>4 DEF RunOK, RedeemOK
  <2> HIDE DEF x, seen, text
  <2>6. receipts[i].amount * TenTo[Len(text.frac)] = ValueOf(text.whole \o text.frac) * Scale
    BY <2>3, <2>5, ParsedToTheUnit
  <2>7. ASSUME seen.hard = receipts[i].hard PROVE receipts[i].payout = seen.quote
    <3>1. seen.hard # None
      BY <2>3, <2>7, WalletAssumption DEF Shared
    <3> QED BY <2>3, <2>5, <2>7, <3>1
  <2> QED BY <2>6, <2>7 DEF x, seen, text
<1> QED BY KeptInit, KeptStep, <1>1, PTL DEF Spec
=============================================================================
