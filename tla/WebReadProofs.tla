---------------------------- MODULE WebReadProofs ----------------------------
(***************************************************************************)
(* How old a figure on the page may be, for any set of hooks, staleness    *)
(* limit and request timeout, over any outages and any order of answers.   *)
(* The stamp of a hook alone bounds nothing: what makes it a bound is that *)
(* a read of the chain ends by its timeout, so that a value is at most     *)
(* that much older than its stamp.                                         *)
(***************************************************************************)
EXTENDS WebRead, TLAPS

Held == [reason : {"none", "loading", "rpc-failed", "indexer-failed"},
         at : 0..(STALE_AFTER + 1), served : Nat]

HooksOK == hook \in [Hooks -> Held]

\* A read of the chain is not older than its timeout.
ReadsEnd ==
  /\ DOMAIN reads = Hooks
  /\ \A h \in Hooks : reads[h] \subseteq 0..REQUEST_TIMEOUT

\* While a value's stamp still counts, the value is at most a timeout older.
StampBoundsAge ==
  \A h \in Hooks :
    hook[h].at <= STALE_AFTER => hook[h].served <= hook[h].at + REQUEST_TIMEOUT

IInv == HooksOK /\ ReadsEnd /\ StampBoundsAge

LEMMA InitialState == Init => IInv
BY WebReadAssumption
   DEF Init, IInv, HooksOK, Held, ReadsEnd, StampBoundsAge, Unavailable

\* An interval ages the stamp and the value together.
LEMMA TickStep == IInv /\ Tick => IInv'
<1> SUFFICES ASSUME IInv, Tick PROVE IInv'
  OBVIOUS
<1> USE WebReadAssumption DEF IInv
<1>1. ReadsEnd'
  <2>1. /\ DOMAIN reads' = Hooks
        /\ \A h \in Hooks : reads'[h] = Poll(reads[h])
    BY DEF Tick
  <2>2. ASSUME NEW h \in Hooks
        PROVE  Poll(reads[h]) \subseteq 0..REQUEST_TIMEOUT
    <3>1. \A a \in reads[h] : Least(a + 1, REQUEST_TIMEOUT) \in 0..REQUEST_TIMEOUT
      BY DEF ReadsEnd, Least
    <3>2. 0 \in 0..REQUEST_TIMEOUT
      OBVIOUS
    <3> QED BY <3>1, <3>2 DEF Poll
  <2> QED BY <2>1, <2>2 DEF ReadsEnd
<1>2. ASSUME NEW h \in Hooks
      PROVE  /\ hook'[h] \in Held
             /\ hook'[h].at <= STALE_AFTER
                  => hook'[h].served <= hook'[h].at + REQUEST_TIMEOUT
  <2>1. /\ hook[h] \in Held
        /\ hook[h].at <= STALE_AFTER => hook[h].served <= hook[h].at + REQUEST_TIMEOUT
    BY DEF HooksOK, StampBoundsAge
  <2>2. CASE hook[h].reason = "none"
    <3>1. hook'[h] = [hook[h] EXCEPT !.at = Least(@ + 1, STALE_AFTER + 1),
                                     !.served = Least(@ + 1, Horizon)]
      BY <2>2 DEF Tick
    <3>2. /\ hook'[h].at = Least(hook[h].at + 1, STALE_AFTER + 1)
          /\ hook'[h].served = Least(hook[h].served + 1, Horizon)
      BY <2>1, <3>1 DEF Held
    <3>3. /\ hook'[h].at \in 0..(STALE_AFTER + 1) /\ hook'[h].served \in Nat
          /\ hook'[h].at <= STALE_AFTER
               => hook'[h].served <= hook'[h].at + REQUEST_TIMEOUT
      BY <2>1, <3>2 DEF Least, Horizon, Held
    <3>4. hook'[h] \in Held
      BY <2>1, <3>1, <3>2, <3>3 DEF Held
    <3> QED BY <3>3, <3>4
  <2>3. CASE hook[h].reason # "none"
    BY <2>1, <2>3 DEF Tick
  <2> QED BY <2>2, <2>3
<1>3. hook' = [h \in Hooks |-> hook'[h]]
  BY DEF Tick
<1> QED BY <1>1, <1>2, <1>3 DEF HooksOK, StampBoundsAge

\* A read that ends stamps a value no older than the read, or drops the value.
LEMMA ReadStep ==
  ASSUME IInv, NEW h \in Hooks, ReadEnds(h)
  PROVE  IInv'
<1> USE WebReadAssumption DEF IInv
<1>1. PICK a \in reads[h] : Fail(h, a) \/ \E s \in 0..a : Answer(h, a, s)
  BY DEF ReadEnds
<1>2. a \in 0..REQUEST_TIMEOUT
  BY DEF ReadsEnd
<1>3. \E v : /\ hook' = [hook EXCEPT ![h] = v]
             /\ v \in Held /\ v.at = 0 /\ v.served \in 0..REQUEST_TIMEOUT
             /\ reads' = [reads EXCEPT ![h] = @ \ {a}]
  <2>1. CASE Fail(h, a)
    <3>1. /\ hook' = [hook EXCEPT ![h] = AfterFailure(h)]
          /\ reads' = [reads EXCEPT ![h] = @ \ {a}]
      BY <2>1 DEF Fail
    <3>2. /\ AfterFailure(h) \in Held /\ AfterFailure(h).at = 0
          /\ AfterFailure(h).served \in 0..REQUEST_TIMEOUT
      BY DEF AfterFailure, Unavailable, Held
    <3> QED BY <3>1, <3>2
  <2>2. CASE \E s \in 0..a : Answer(h, a, s)
    <3>1. PICK s \in 0..a : Answer(h, a, s)
      BY <2>2
    <3> DEFINE v == [reason |-> "none", at |-> 0, served |-> s]
    <3>2. v \in Held /\ v.at = 0 /\ v.served \in 0..REQUEST_TIMEOUT
      BY <1>2, <3>1 DEF Held
    <3>3. hook' = [hook EXCEPT ![h] = v] /\ reads' = [reads EXCEPT ![h] = @ \ {a}]
      BY <3>1 DEF Answer
    <3> QED BY <3>2, <3>3
  <2> QED BY <1>1, <2>1, <2>2
<1>4. PICK v : /\ hook' = [hook EXCEPT ![h] = v]
               /\ v \in Held /\ v.at = 0 /\ v.served \in 0..REQUEST_TIMEOUT
               /\ reads' = [reads EXCEPT ![h] = @ \ {a}]
  BY <1>3
<1>5. /\ hook' \in [Hooks -> Held]
      /\ \A k \in Hooks : hook'[k] = IF k = h THEN v ELSE hook[k]
  BY <1>4 DEF HooksOK
<1>6. HooksOK'
  BY <1>5 DEF HooksOK
<1>7. ReadsEnd'
  <2>1. \A k \in Hooks : reads'[k] \subseteq reads[k]
    BY <1>4 DEF ReadsEnd
  <2>2. DOMAIN reads' = Hooks
    BY <1>4 DEF ReadsEnd
  <2> QED BY <2>1, <2>2 DEF ReadsEnd
<1>8. StampBoundsAge'
  BY <1>4, <1>5 DEF StampBoundsAge
<1> QED BY <1>6, <1>7, <1>8

LEMMA InvariantStep == IInv /\ [Next]_vars => IInv'
<1> SUFFICES ASSUME IInv, [Next]_vars PROVE IInv'
  OBVIOUS
<1>1. CASE Tick
  BY <1>1, TickStep
<1>2. ASSUME NEW h \in Hooks, ReadEnds(h) PROVE IInv'
  BY <1>2, ReadStep
<1>3. ASSUME UNCHANGED <<hook, reads>> PROVE IInv'
  BY <1>3 DEF IInv, HooksOK, ReadsEnd, StampBoundsAge
<1>4. ASSUME NEW s \in DOMAIN service, Change(s) PROVE IInv'
  BY <1>3, <1>4 DEF Change
<1>5. CASE UNCHANGED vars
  BY <1>3, <1>5 DEF vars
<1> QED BY <1>1, <1>2, <1>4, <1>5 DEF Next

\* A figure shown as live was served by the chain within the staleness limit and
\* one request timeout, whatever fails, comes back or answers late.
THEOREM FiguresAreRecent == Spec => []ShownIsRecent
<1>1. IInv => ShownIsRecent
  <2> SUFFICES ASSUME IInv, NEW h \in TruthHooks, ThronePage.tiers[h] = "value"
               PROVE  hook[h].served <= STALE_AFTER + REQUEST_TIMEOUT
    BY DEF ShownIsRecent
  <2>1. h \in Hooks
    BY DEF Hooks
  <2>2. Shows(h) = "value"
    BY <2>1 DEF ThronePage
  <2>3. Reason(h) = "none"
    BY <2>2 DEF Shows
  <2>4. ~(hook[h].at > STALE_AFTER)
    BY <2>3 DEF Reason
  <2>5. /\ hook[h].at \in 0..(STALE_AFTER + 1) /\ hook[h].served \in Nat
        /\ hook[h].at <= STALE_AFTER => hook[h].served <= hook[h].at + REQUEST_TIMEOUT
    BY <2>1 DEF IInv, HooksOK, Held, StampBoundsAge
  <2> QED BY <2>4, <2>5, WebReadAssumption
<1>2. Init /\ [][Next]_vars => []IInv
  BY InitialState, InvariantStep, PTL
<1> QED BY <1>1, <1>2, PTL DEF Spec
=============================================================================
