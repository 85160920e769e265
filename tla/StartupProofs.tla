---------------------------- MODULE StartupProofs ----------------------------
(***************************************************************************)
(* What a running indexer's tables hold, for any other schemas of the      *)
(* database, any rows a decoder makes and any number of starts.            *)
(*                                                                         *)
(* A CHECK that is found or added on another schema's table says nothing   *)
(* about the live one.  It does not matter: the look-up prefers the live   *)
(* table, so it goes elsewhere only for a table the live schema does not   *)
(* have, and then no row can be in it.                                     *)
(*                                                                         *)
(* Then what a pass of the runtime gate means: the two answers it judges   *)
(* are read at different times, so it has to follow from the rows alone.   *)
(***************************************************************************)
EXTENDS RuntimeGate, FiniteSums

\* The part of the types the proof needs.
CopiesOK ==
  /\ DOMAIN copies = Schemas
  /\ DOMAIN copies[Live] = {"tables", "columns", "check"}
  /\ DOMAIN copies[Live].check = SPECS

StepOK ==
  step \in [at : 1..4, stage : {"lookup", "add", "verify", "probe"}, target : Schemas]

\* Rows have a table, and satisfy every right CHECK that stands on it.
RowsFit ==
  \A row \in rows :
    /\ row.table \in copies[Live].tables
    /\ \A spec \in SPECS :
         TableOf(spec) = row.table /\ copies[Live].check[spec] = "own" => Holds(spec, row)

\* A constraint that was applied stands on the live table, if there is one.
Stands(j) ==
  TableOf(ORDER[j]) \in copies[Live].tables => copies[Live].check[ORDER[j]] = "own"

AppliedStand ==
  /\ phase = "starting" => \A j \in 1..(step.at - 1) : Stands(j)
  /\ phase = "running"  => \A j \in 1..4 : Stands(j)

\* The look-up leaves the live schema only for a table that is not in it.
TargetIsLive ==
  phase = "starting" /\ step.stage # "lookup" =>
    (TableOf(ORDER[step.at]) \in copies[Live].tables => step.target = Live)

IInv == CopiesOK /\ StepOK /\ RowsFit /\ AppliedStand /\ TargetIsLive

LEMMA Order ==
  /\ \A j \in 1..4 : ORDER[j] \in SPECS
  /\ \A spec \in SPECS : \E j \in 1..4 : ORDER[j] = spec
  /\ Len(ORDER) = 4
<1>1. /\ ORDER[1] = "legs_sum" /\ ORDER[2] = "cause_domain"
      /\ ORDER[3] = "class_is_never_backing" /\ ORDER[4] = "direction_domain"
      /\ Len(ORDER) = 4
  BY DEF ORDER
<1>2. \A j \in 1..4 : j = 1 \/ j = 2 \/ j = 3 \/ j = 4
  OBVIOUS
<1> QED BY <1>1, <1>2 DEF SPECS

LEMMA CopyShape ==
  \A copy \in Copies : DOMAIN copy = {"tables", "columns", "check"} /\ DOMAIN copy.check = SPECS
<1>1. DOMAIN Fresh = {"tables", "columns", "check"} /\ DOMAIN Fresh.check = SPECS
  BY DEF Fresh
<1>2. ASSUME NEW copy \in Copies
      PROVE  DOMAIN copy = {"tables", "columns", "check"} /\ DOMAIN copy.check = SPECS
  <2>1. CASE copy \in {Fresh, [Fresh EXCEPT !.check = [spec \in SPECS |-> "own"]]}
    BY <2>1, <1>1 DEF Fresh
  <2>2. ASSUME NEW name \in Names, copy = [Fresh EXCEPT !.tables = Names \ {name}]
        PROVE  DOMAIN copy = {"tables", "columns", "check"} /\ DOMAIN copy.check = SPECS
    BY <2>2, <1>1 DEF Fresh
  <2>3. ASSUME NEW name \in Names, copy = [Fresh EXCEPT !.columns = Names \ {name}]
        PROVE  DOMAIN copy = {"tables", "columns", "check"} /\ DOMAIN copy.check = SPECS
    BY <2>3, <1>1 DEF Fresh
  <2>4. ASSUME NEW spec \in SPECS, NEW kind, copy = [Fresh EXCEPT !.check[spec] = kind]
        PROVE  DOMAIN copy = {"tables", "columns", "check"} /\ DOMAIN copy.check = SPECS
    BY <2>4, <1>1 DEF Fresh
  <2> QED BY <1>2, <2>1, <2>2, <2>3, <2>4 DEF Copies
<1> QED BY <1>2

-----------------------------------------------------------------------------
LEMMA InitialState == StartInit => IInv
<1> SUFFICES ASSUME StartInit PROVE IInv
  OBVIOUS
<1>1. CopiesOK
  <2>1. copies \in [Schemas -> Copies] /\ Live \in Schemas
    BY DEF StartInit, Schemas
  <2> QED BY <2>1, CopyShape DEF CopiesOK
<1>2. RowsFit
  <2>1. \A row \in rows : ~Refused(row)
    BY DEF StartInit
  <2> QED BY <2>1 DEF RowsFit, Refused
<1> QED BY <1>1, <1>2 DEF StartInit, IInv, StepOK, FirstStep, AppliedStand, TargetIsLive, Schemas

\* A launch begins with the first constraint, over old tables or empty new ones.
LEMMA LaunchStep ==
  ASSUME IInv, NEW anew \in BOOLEAN, Launch(anew)
  PROVE  IInv'
<1>1. StepOK' /\ TargetIsLive' /\ AppliedStand'
  <2>1. step' = FirstStep /\ phase' \in {"starting", "failed"}
    BY DEF Launch
  <2> QED BY <2>1 DEF FirstStep, StepOK, TargetIsLive, AppliedStand, Schemas
<1>2. CASE ~anew
  BY <1>1, <1>2 DEF Launch, database, IInv, CopiesOK, RowsFit
<1>3. CASE anew
  <2>1. copies' = [copies EXCEPT ![Live] = Fresh] /\ rows' = {}
    BY <1>3 DEF Launch
  <2>2. Live \in DOMAIN copies
    BY DEF IInv, CopiesOK, Schemas
  <2>3. DOMAIN copies' = Schemas /\ copies'[Live] = Fresh
    BY <2>1, <2>2 DEF IInv, CopiesOK
  <2>4. DOMAIN Fresh = {"tables", "columns", "check"} /\ DOMAIN Fresh.check = SPECS
    BY DEF Fresh
  <2> QED BY <1>1, <2>1, <2>3, <2>4 DEF IInv, CopiesOK, RowsFit
<1> QED BY <1>2, <1>3

LEMMA LookupStep == IInv /\ Lookup => IInv'
<1> SUFFICES ASSUME IInv, Lookup PROVE IInv'
  OBVIOUS
<1>1. UNCHANGED <<copies, rows>> /\ phase = "starting" /\ step.stage = "lookup"
  BY DEF Lookup, database, At
<1>2. CASE phase' = "failed" /\ step' = step
  BY <1>1, <1>2 DEF IInv, CopiesOK, StepOK, RowsFit, AppliedStand, Stands, TargetIsLive
<1>3. ASSUME NEW s \in SchemaOf(TableOf(Applied)),
             phase' = phase, step' = [step EXCEPT !.stage = "add", !.target = s]
      PROVE  IInv'
  <2>1. step'.at = step.at /\ step'.stage = "add"
    BY <1>3 DEF IInv, StepOK
  <2>2. TableOf(Applied) \in copies[Live].tables => s = Live
    BY <1>3 DEF SchemaOf, Holders, Schemas
  <2>3. s \in Schemas
    BY <1>3 DEF SchemaOf, Holders, Schemas
  <2>4. StepOK'
    BY <1>3, <2>3 DEF IInv, StepOK
  <2> QED
    BY <1>1, <1>3, <2>1, <2>2, <2>4
       DEF IInv, CopiesOK, RowsFit, AppliedStand, Stands, TargetIsLive, Applied
<1> QED BY <1>2, <1>3 DEF Lookup, Throws, Enters

\* A constraint is added where nothing stands under its name, and on the live table
\* only if every row satisfies it.
LEMMA AddStep == IInv /\ AddConstraint => IInv'
<1> SUFFICES ASSUME IInv, AddConstraint PROVE IInv'
  OBVIOUS
<1>1. rows' = rows /\ phase = "starting" /\ step.stage = "add"
  BY DEF AddConstraint, At
<1>2. CASE Check = "none" /\ Conflicts
  <2>1. copies' = copies /\ phase' = "failed" /\ step' = step
    BY <1>2 DEF AddConstraint, Throws, Enters
  <2> QED
    BY <1>1, <2>1 DEF IInv, CopiesOK, StepOK, RowsFit, AppliedStand, Stands, TargetIsLive
<1>3. CASE ~(Check = "none" /\ Conflicts)
  <2> DEFINE c == Applied
             s == step.target
  <2>1. /\ copies' = IF Check = "none" THEN [copies EXCEPT ![s].check[c] = "own"] ELSE copies
        /\ phase' = phase /\ step' = [step EXCEPT !.stage = "verify"]
    BY <1>3 DEF AddConstraint, Enters
  <2>2. c \in SPECS /\ s \in Schemas /\ step.at \in 1..4
    BY Order DEF IInv, StepOK, Applied
  <2>3. StepOK' /\ step'.at = step.at /\ step'.target = s
    BY <2>1 DEF IInv, StepOK
  <2> HIDE DEF c, s
  <2>4. /\ CopiesOK'
        /\ copies'[Live].tables = copies[Live].tables
        /\ \A spec \in SPECS :
             copies'[Live].check[spec] =
               IF s = Live /\ spec = c /\ Check = "none" THEN "own"
               ELSE copies[Live].check[spec]
    <3>1. CASE Check # "none"
      BY <3>1, <2>1 DEF IInv, CopiesOK
    <3>2. CASE Check = "none"
      <4>1. copies' = [copies EXCEPT ![s].check[c] = "own"]
        BY <3>2, <2>1
      <4>2. Live \in Schemas /\ DOMAIN copies = Schemas
        BY DEF IInv, CopiesOK, Schemas
      <4>3. CASE s # Live
        <5>1. copies'[Live] = copies[Live] /\ DOMAIN copies' = Schemas
          BY <4>1, <4>2, <4>3
        <5> QED BY <4>3, <5>1 DEF IInv, CopiesOK
      <4>4. CASE s = Live
        <5>1. copies'[Live] = [copies[Live] EXCEPT !.check[c] = "own"]
              /\ DOMAIN copies' = Schemas
          BY <4>1, <4>2, <4>4
        <5>2. /\ DOMAIN copies[Live] = {"tables", "columns", "check"}
              /\ DOMAIN copies[Live].check = SPECS
          BY DEF IInv, CopiesOK
        <5>3. /\ DOMAIN copies'[Live] = {"tables", "columns", "check"}
              /\ copies'[Live].tables = copies[Live].tables
              /\ copies'[Live].check = [copies[Live].check EXCEPT ![c] = "own"]
          BY <5>1, <5>2
        <5> QED BY <3>2, <4>4, <5>1, <5>2, <5>3 DEF CopiesOK
      <4> QED BY <4>3, <4>4
    <3> QED BY <3>1, <3>2
  <2>5. s = Live /\ Check = "none" => \A row \in rows : TableOf(c) = row.table => Holds(c, row)
    BY <1>3 DEF Conflicts, c, s
  <2>6. RowsFit'
    BY <1>1, <2>2, <2>4, <2>5 DEF IInv, RowsFit
  <2>7. AppliedStand'
    <3>1. \A j \in 1..4 : Stands(j) => Stands(j)'
      BY <2>4, Order DEF Stands
    <3>2. \A j \in 1..(step.at - 1) : j \in 1..4
      BY <2>2
    <3> QED BY <1>1, <2>1, <2>3, <3>1, <3>2 DEF IInv, AppliedStand
  <2>8. TargetIsLive'
    BY <1>1, <2>1, <2>3, <2>4 DEF IInv, TargetIsLive, s
  <2> QED BY <2>3, <2>4, <2>6, <2>7, <2>8 DEF IInv
<1> QED BY <1>2, <1>3

LEMMA VerifyStep == IInv /\ Verify => IInv'
<1> SUFFICES ASSUME IInv, Verify PROVE IInv'
  OBVIOUS
<1>1. /\ UNCHANGED <<copies, rows>> /\ phase = "starting" /\ step.stage = "verify"
      /\ \/ phase' = "failed" /\ step' = step
         \/ phase' = phase /\ step' = [step EXCEPT !.stage = "probe"]
  BY DEF Verify, At, Throws, Enters, database
<1>2. StepOK' /\ step'.at = step.at /\ step'.target = step.target
  BY <1>1 DEF IInv, StepOK
<1> QED
  BY <1>1, <1>2 DEF IInv, CopiesOK, RowsFit, AppliedStand, Stands, TargetIsLive

\* Where the probe bites, the CHECK is the right one: one that refuses everything
\* refuses the good row, and one that takes everything takes the bad one.
LEMMA ProbeStep == IInv /\ ProveItBites => IInv'
<1> SUFFICES ASSUME IInv, ProveItBites PROVE IInv'
  OBVIOUS
<1>1. UNCHANGED <<copies, rows>> /\ phase = "starting" /\ step.stage = "probe"
  BY DEF ProveItBites, At, database
<1>2. step.at \in 1..4 /\ Len(ORDER) = 4
  BY Order DEF IInv, StepOK
<1>3. CASE phase' = "failed" /\ step' = step
  BY <1>1, <1>3 DEF IInv, CopiesOK, StepOK, RowsFit, AppliedStand, Stands, TargetIsLive
<1>4. ASSUME Bites,
             \/ /\ step.at < 4 /\ phase' = phase
                /\ step' = [FirstStep EXCEPT !.at = step.at + 1]
             \/ ~(step.at < 4) /\ phase' = "running" /\ step' = step
      PROVE  IInv'
  <2>1. Check = "own"
    <3>1. CloneRefuses(TRUE) /\ ~CloneRefuses(FALSE)
      BY <1>4 DEF Bites
    <3> QED BY <3>1 DEF CloneRefuses
  <2>2. Stands(step.at)
    BY <1>1, <2>1 DEF Stands, Check, Applied, IInv, TargetIsLive
  <2>3. \A j \in 1..step.at : Stands(j)
    <3>1. \A j \in 1..step.at : j \in 1..(step.at - 1) \/ j = step.at
      BY <1>2
    <3> QED BY <1>1, <2>2, <3>1 DEF IInv, AppliedStand
  <2>4. \A j : Stands(j)' = Stands(j)
    BY <1>1 DEF Stands
  <2>5. CASE step.at < 4 /\ phase' = phase /\ step' = [FirstStep EXCEPT !.at = step.at + 1]
    <3>1. step' = [at |-> step.at + 1, stage |-> "lookup", target |-> Live]
      BY <2>5 DEF FirstStep
    <3>2. StepOK' /\ step'.at - 1 = step.at /\ step'.stage = "lookup"
      <4>1. step.at + 1 \in 1..4 /\ step.at + 1 - 1 = step.at
        BY <1>2, <2>5
      <4>2. step'.at = step.at + 1 /\ step'.stage = "lookup" /\ step'.target = Live
        BY <3>1
      <4>3. step' \in [at : 1..4, stage : {"lookup", "add", "verify", "probe"}, target : Schemas]
        BY <3>1, <4>1 DEF Schemas
      <4> QED BY <1>2, <4>1, <4>2, <4>3 DEF StepOK
    <3>3. AppliedStand'
      BY <1>1, <2>3, <2>4, <2>5, <3>2 DEF AppliedStand
    <3> QED BY <1>1, <3>2, <3>3 DEF IInv, CopiesOK, RowsFit, TargetIsLive
  <2>6. CASE ~(step.at < 4) /\ phase' = "running" /\ step' = step
    <3>1. step.at = 4
      BY <1>2, <2>6
    <3>2. AppliedStand'
      BY <2>3, <2>4, <2>6, <3>1 DEF AppliedStand
    <3> QED BY <1>1, <2>6, <3>2 DEF IInv, CopiesOK, StepOK, RowsFit, TargetIsLive
  <2> QED BY <1>4, <2>5, <2>6
<1> QED BY <1>2, <1>3, <1>4 DEF ProveItBites, Throws, Enters

\* A row that is written has its table, and every right CHECK took it.
LEMMA WriteStep ==
  ASSUME IInv, NEW row \in Rows, Write(row)
  PROVE  IInv'
<1>1. copies' = copies /\ phase = "running"
  BY DEF Write
<1>2. CASE Refused(row)
  BY <1>1, <1>2 DEF Write, Throws, Enters, IInv, CopiesOK, StepOK, RowsFit, AppliedStand,
     Stands, TargetIsLive
<1>3. CASE ~Refused(row)
  <2>1. rows' = rows \cup {row} /\ phase' = phase /\ step' = step
    BY <1>3 DEF Write, process
  <2>2. /\ row.table \in copies[Live].tables
        /\ \A spec \in SPECS :
             TableOf(spec) = row.table /\ copies[Live].check[spec] = "own" => Holds(spec, row)
    BY <1>3 DEF Refused
  <2>3. RowsFit'
    BY <1>1, <2>1, <2>2 DEF IInv, RowsFit
  <2> QED BY <1>1, <2>1, <2>3 DEF IInv, CopiesOK, StepOK, AppliedStand, Stands, TargetIsLive
<1> QED BY <1>2, <1>3

\* The process ends, or only answers and the gate are written.
LEMMA EndStep ==
  ASSUME IInv, UNCHANGED <<copies, rows>>,
         UNCHANGED <<phase, step>> \/ (phase' = "off" /\ step' = step)
  PROVE  IInv'
BY DEF IInv, CopiesOK, StepOK, RowsFit, AppliedStand, Stands, TargetIsLive

LEMMA InvariantStep == IInv /\ [Next]_vars => IInv'
<1> SUFFICES ASSUME IInv, [Next]_vars PROVE IInv'
  OBVIOUS
<1>1. ASSUME StartNext PROVE IInv'
  <2>1. ASSUME Kill \/ Serve PROVE IInv'
    BY <2>1, EndStep DEF Kill, Serve, Enters, database, process
  <2> QED
    BY <1>1, <2>1, LaunchStep, LookupStep, AddStep, VerifyStep, ProbeStep, WriteStep
       DEF StartNext, Setup
<1>2. ASSUME AppNext PROVE IInv'
  <2>1. ASSUME Launch(TRUE) PROVE IInv'
    BY <2>1, LaunchStep
  <2>2. ASSUME Setup \/ Kill PROVE IInv'
    BY <1>1, <2>2 DEF StartNext
  <2> QED BY <1>1, <1>2, <2>1, <2>2 DEF AppNext
<1>3. ASSUME Index \/ Poll \/ ReadChanges \/ ReadStats PROVE IInv'
  BY <1>3, EndStep
     DEF Index, Poll, ReadChanges, ReadStats, startVars, database, process
<1>4. ASSUME Judge PROVE IInv'
  BY <1>4, EndStep DEF Judge, Enters, database, process
<1>5. CASE UNCHANGED vars
  BY <1>5, EndStep DEF vars, startVars, database, process
<1> QED BY <1>2, <1>3, <1>4, <1>5 DEF Next

LEMMA InductiveInvariant == Init /\ [][Next]_vars => []IInv
<1>1. Init => IInv
  BY InitialState DEF Init
<1> QED BY <1>1, InvariantStep, PTL

-----------------------------------------------------------------------------
\* The rows of a running indexer satisfy every constraint.
RowsAreLawful == \A row \in rows : Lawful(row)

LEMMA RunningRows ==
  ASSUME IInv, phase = "running"
  PROVE  RowsAreLawful
<1> SUFFICES ASSUME NEW row \in rows, NEW spec \in SPECS, TableOf(spec) = row.table
             PROVE  Holds(spec, row)
  BY DEF RowsAreLawful, Lawful, Admits
<1>1. PICK j \in 1..4 : ORDER[j] = spec
  BY Order
<1>2. row.table \in copies[Live].tables
  BY DEF IInv, RowsFit
<1>3. copies[Live].check[spec] = "own"
  BY <1>1, <1>2 DEF IInv, AppliedStand, Stands
<1> QED BY <1>3 DEF IInv, RowsFit

\* An answer given while running has only such rows, and is given.
AnswerOK ==
  served.under = "running" => ~served.refused /\ \A row \in served.rows : Lawful(row)

\* Among lawful rows no flow is called backing.
LEMMA LawfulFlows ==
  ASSUME NEW row, Lawful(row), row.table = "strategic_flow"
  PROVE  row.class \notin BackingLabels
BY DEF Lawful, Admits, SPECS, TableOf, Holds

LEMMA ServeStep ==
  ASSUME IInv, Serve
  PROVE  AnswerOK'
<1>1. CASE phase # "running"
  BY <1>1 DEF Serve, AnswerOK, Answer, Refusal, AnswerSupplyChanges, AnswerFlows
<1>2. CASE phase = "running"
  <2>1. RowsAreLawful
    BY <1>2, RunningRows
  <2>2. ASSUME NEW shown, shown \subseteq rows, served' = Answer(shown)
        PROVE  AnswerOK'
    <3>1. served'.rows = shown /\ served'.refused = FALSE
      BY <2>2 DEF Answer
    <3>2. \A row \in shown : Lawful(row)
      BY <2>1, <2>2 DEF RowsAreLawful
    <3> QED BY <3>1, <3>2 DEF AnswerOK, Lawful
  <2>3. CASE served' = Answer(Of("settlement"))
    BY <2>2, <2>3 DEF Of
  <2>4. ASSUME NEW cause, served' = AnswerSupplyChanges(cause)
        PROVE  AnswerOK'
    BY <2>2, <2>4 DEF Of, AnswerSupplyChanges
  <2>5. ASSUME NEW class, served' = AnswerFlows(class)
        PROVE  AnswerOK'
    <3> DEFINE shown == {row \in Of("strategic_flow") : class \in {"all", row.class}}
    <3>1. shown \subseteq rows
      BY DEF Of
    <3>2. \A row \in shown : row.class \notin BackingLabels
      BY <2>1, LawfulFlows DEF Of, RowsAreLawful
    <3>3. served' = Answer(shown)
      BY <2>5, <3>2 DEF AnswerFlows
    <3> HIDE DEF shown
    <3> QED BY <2>2, <3>1, <3>3
  <2> QED BY <2>3, <2>4, <2>5 DEF Serve
<1> QED BY <1>1, <1>2

\* The rows of a running indexer, and those it answers with, satisfy every constraint,
\* whatever a decoder made of the logs, whatever tables it was started over and
\* wherever a start was killed; none of its answers is refused.
THEOREM RunningAlwaysIsLawful == Spec => []RunningIsLawful
<1>1. Init => IInv /\ AnswerOK
  BY InitialState DEF Init, StartInit, AnswerOK
<1>2. IInv /\ AnswerOK /\ [Next]_vars => IInv' /\ AnswerOK'
  <2> SUFFICES ASSUME IInv, AnswerOK, [Next]_vars PROVE AnswerOK'
    BY InvariantStep
  <2>1. CASE served' = served
    BY <2>1 DEF AnswerOK, Lawful
  <2>2. CASE Serve
    BY <2>2, ServeStep
  <2> QED
    BY <2>1, <2>2
       DEF Next, AppNext, StartNext, Setup, Launch, Kill, Lookup, AddConstraint, Verify,
           ProveItBites, Write, Index, Poll, ReadChanges, ReadStats, Judge, vars, startVars
<1>3. IInv /\ AnswerOK => RunningIsLawful
  BY RunningRows DEF RunningIsLawful, RowsAreLawful, AnswerOK
<1> QED BY <1>1, <1>2, <1>3, PTL DEF Spec

-----------------------------------------------------------------------------
(***************************************************************************)
(* The runtime gate.                                                       *)
(***************************************************************************)
\* The rows served after n logs.
RowsAt(n) == {RowOf(i, n) : i \in ChangeLogs(n)}

\* The answer the gate judges was the indexer's at some moment, or was never read.
GateInv ==
  /\ build \in Builds \cup {"delivered"}
  /\ indexed \in 0..Len(Scenario)
  /\ DOMAIN gate = {"stage", "polls", "settlements", "changes", "supply"}
  /\ gate.changes = {} \/ \E n \in 0..Len(Scenario) : gate.changes = RowsAt(n)
  /\ PassMeansIndexed

LEMMA TheLogs ==
  /\ Len(Scenario) = 10
  /\ \A j \in 1..10 :
       /\ Scenario[j].cause = "vyrf_burn" => j = 10
       /\ Scenario[j].tx = DUP_TX <=> j \in {7, 8}
       /\ Scenario[j].of # 7 /\ Scenario[j].of # 8
  /\ Scenario[7] = Scenario[8] /\ Scenario[7].delta = -1
<1>1. /\ Len(Scenario) = 10
      /\ Scenario[1].tx = 1 /\ Scenario[1].of = 0 /\ Scenario[1].cause = ""
      /\ Scenario[2].tx = 0 /\ Scenario[2].of = 0 /\ Scenario[2].cause = "settlement_mint"
      /\ Scenario[3].tx = 3 /\ Scenario[3].of = 0 /\ Scenario[3].cause = ""
      /\ Scenario[4].tx = 0 /\ Scenario[4].of = 3 /\ Scenario[4].cause = "settlement_mint"
      /\ Scenario[5].tx = 4 /\ Scenario[5].of = 0 /\ Scenario[5].cause = ""
      /\ Scenario[6].tx = 0 /\ Scenario[6].of = 5 /\ Scenario[6].cause = "redemption_burn"
      /\ Scenario[7].tx = 5 /\ Scenario[7].of = 0 /\ Scenario[7].cause = ""
      /\ Scenario[8].tx = 5 /\ Scenario[8].of = 0 /\ Scenario[8].cause = ""
      /\ Scenario[9].tx = 6 /\ Scenario[9].of = 0 /\ Scenario[9].cause = ""
      /\ Scenario[10].tx = 0 /\ Scenario[10].of = 9 /\ Scenario[10].cause = "vyrf_burn"
      /\ Scenario[7] = Scenario[8] /\ Scenario[7].delta = -1
  BY DEF Scenario, Change, CauseEvent
<1>2. \A j \in 1..10 : \/ j = 1 \/ j = 2 \/ j = 3 \/ j = 4 \/ j = 5
                      \/ j = 6 \/ j = 7 \/ j = 8 \/ j = 9 \/ j = 10
  OBVIOUS
<1>3. ASSUME NEW j \in 1..10
      PROVE  /\ Scenario[j].cause = "vyrf_burn" => j = 10
             /\ Scenario[j].of # 7 /\ Scenario[j].of # 8
             /\ Scenario[j].tx = 5 <=> j \in {7, 8}
  <2>1. CASE j = 1
    BY <1>1, <2>1
  <2>2. CASE j = 2
    BY <1>1, <2>2
  <2>3. CASE j = 3
    BY <1>1, <2>3
  <2>4. CASE j = 4
    BY <1>1, <2>4
  <2>5. CASE j = 5
    BY <1>1, <2>5
  <2>6. CASE j = 6
    BY <1>1, <2>6
  <2>7. CASE j = 7
    BY <1>1, <2>7
  <2>8. CASE j = 8
    BY <1>1, <2>8
  <2>9. CASE j = 9
    BY <1>1, <2>9
  <2>10. CASE j = 10
    BY <1>1, <2>10
  <2> QED BY <1>2, <2>1, <2>2, <2>3, <2>4, <2>5, <2>6, <2>7, <2>8, <2>9, <2>10
<1> QED BY <1>1, <1>3 DEF DUP_TX

\* The cause of a row is a default, or that of a log that was handled.
LEMMA CauseOfRow ==
  ASSUME NEW n \in 0..10, NEW i \in 1..n
  PROVE  \/ RowOf(i, n).cause \in {"genesis", "other_authorized_burn"}
         \/ /\ build # "unattributed"
            /\ \E j \in 1..n : Scenario[j].of = i /\ RowOf(i, n).cause = Scenario[j].cause
<1> DEFINE refined == {j \in 1..n : Scenario[j].of = i}
<1>1. RowOf(i, n).cause = IF refined = {} \/ build = "unattributed"
                          THEN Default(Scenario[i].delta) ELSE Scenario[Min(refined)].cause
  BY DEF RowOf
<1>2. CASE refined = {} \/ build = "unattributed"
  BY <1>1, <1>2 DEF Default
<1>3. CASE ~(refined = {} \/ build = "unattributed")
  <2>1. refined \in SUBSET (0..10) /\ refined # {}
    BY <1>3
  <2>2. Min(refined) \in refined
    BY <2>1, MinIsLeast, 10 \in Nat
  <2> QED BY <1>1, <1>3, <2>2
<1> QED BY <1>2, <1>3

\* The cause of the last log is served only when all the logs were handled, and not
\* by a build that attributes nothing.
LEMMA EveryCauseSeen ==
  ASSUME NEW n \in 0..10, {row.cause : row \in RowsAt(n)} = Causes
  PROVE  n = 10 /\ build # "unattributed"
<1>1. "vyrf_burn" \in Causes
  BY DEF Causes
<1>2. PICK i \in ChangeLogs(n) : RowOf(i, n).cause = "vyrf_burn"
  BY <1>1 DEF RowsAt
<1>3. i \in 1..n
  BY <1>2 DEF ChangeLogs
<1>4. build # "unattributed" /\ \E j \in 1..n : Scenario[j].cause = "vyrf_burn"
  <2>1. RowOf(i, n).cause \notin {"genesis", "other_authorized_burn"}
    BY <1>2
  <2>2. /\ build # "unattributed"
        /\ \E j \in 1..n : Scenario[j].of = i /\ RowOf(i, n).cause = Scenario[j].cause
    BY <1>3, <2>1, CauseOfRow
  <2> QED BY <1>2, <2>2
<1>5. \A j \in 1..n : j \in 1..10
  OBVIOUS
<1> QED BY <1>4, <1>5, TheLogs

\* A build that collapses equal changes serves one row for the two equal burns.
LEMMA CollapsedBurns ==
  ASSUME NEW n \in 0..10, build = "collapsing"
  PROVE  \A r, s \in RowsAt(n) : r.tx = DUP_TX /\ s.tx = DUP_TX => r = s
<1> DEFINE same(i) == {j \in 1..i : /\ Scenario[j].tx = Scenario[i].tx
                                    /\ Scenario[j].delta = Scenario[i].delta}
<1>1. ASSUME NEW i \in 1..n, RowOf(i, n).tx = DUP_TX
      PROVE  RowOf(i, n) = [id |-> 7, tx |-> DUP_TX, delta |-> -1, cause |-> Default(-1)]
  <2>1. i \in 1..10 /\ \A j \in 1..n : j \in 1..10
    OBVIOUS
  <2>2. Scenario[i].tx = DUP_TX
    BY <1>1 DEF RowOf
  <2>3. i \in {7, 8} /\ Scenario[i].delta = -1
    BY <2>1, <2>2, TheLogs
  <2>4. {j \in 1..n : Scenario[j].of = i} = {}
    BY <2>1, <2>3, TheLogs
  <2>5. Min(same(i)) = 7
    <3>1. \A j \in 1..i : j \in 1..10
      BY <2>1
    <3>2. same(i) \subseteq {7, 8} /\ 7 \in same(i)
      BY <2>1, <2>2, <2>3, <3>1, TheLogs
    <3>3. same(i) \in SUBSET (0..10)
      BY <3>2
    <3>4. Min(same(i)) \in same(i) /\ Min(same(i)) <= 7
      BY <3>2, <3>3, MinIsLeast, 10 \in Nat
    <3> QED BY <3>2, <3>4
  <2> QED BY <2>2, <2>3, <2>4, <2>5 DEF RowOf
<1> QED BY <1>1 DEF RowsAt, ChangeLogs

LEMMA PassesMeansIndexed ==
  ASSUME GateInv, Passes
  PROVE  build = "delivered" /\ gate.changes = RowsAt(Len(Scenario))
<1>1. /\ {row.cause : row \in gate.changes} = Causes /\ Cardinality(DupRows) = 2
      /\ gate.changes = {} \/ \E n \in 0..10 : gate.changes = RowsAt(n)
  BY TheLogs DEF Passes, GateInv
<1>2. PICK n \in 0..10 : gate.changes = RowsAt(n)
  BY <1>1 DEF Causes
<1>3. n = 10 /\ build # "unattributed"
  BY <1>1, <1>2, EveryCauseSeen
<1>4. build # "collapsing"
  <2>1. SUFFICES ASSUME build = "collapsing" PROVE FALSE
    OBVIOUS
  <2>2. \A r, s \in DupRows : r = s
    BY <1>2, <2>1, CollapsedBurns DEF DupRows
  <2>3. DupRows = {} \/ \E r : DupRows = {r}
    BY <2>2
  <2>4. Cardinality(DupRows) \in {0, 1}
    BY <2>3, FS_EmptySet, FS_Singleton
  <2> QED BY <1>1, <2>4
<1> QED BY <1>2, <1>3, <1>4, TheLogs, BuildsAssumption DEF GateInv

LEMMA GateStep == GateInv /\ [Next]_vars => GateInv'
<1> SUFFICES ASSUME GateInv, [Next]_vars PROVE GateInv'
  OBVIOUS
<1>1. build' = build
  BY DEF Next, AppNext, gateVars, Index, Poll, ReadChanges, ReadStats, Judge, vars
<1>2. \A n : RowsAt(n)' = RowsAt(n)
  BY <1>1 DEF RowsAt, RowOf
<1>p. PassMeansIndexed' <=> ( gate'.stage = "pass" =>
                              /\ build' = "delivered"
                              /\ gate'.changes = RowsAt(Len(Scenario)) )
  <2>1. PassMeansIndexed' <=> ( gate'.stage = "pass" =>
                                /\ build' = "delivered"
                                /\ gate'.changes = RowsAt(Len(Scenario))' )
    BY DEF PassMeansIndexed, RowsAt
  <2> QED BY <2>1, <1>2
<1>3. CASE UNCHANGED gateVars
  <2>1. PassMeansIndexed'
    BY <1>3, <1>p DEF gateVars, GateInv, PassMeansIndexed, RowsAt
  <2> QED BY <1>3, <1>2, <2>1 DEF gateVars, GateInv
<1>4. CASE Index
  <2>1. PassMeansIndexed'
    BY <1>4, <1>p DEF Index, GateInv, PassMeansIndexed, RowsAt
  <2>2. indexed' \in 0..Len(Scenario)
    BY <1>4, TheLogs DEF Index, GateInv
  <2> QED BY <1>4, <1>2, <2>1, <2>2 DEF Index, GateInv
<1>5. ASSUME DOMAIN gate' = DOMAIN gate, gate'.changes = gate.changes,
             gate'.stage # "pass", indexed' = indexed
      PROVE  GateInv'
  <2>1. PassMeansIndexed'
    BY <1>5 DEF PassMeansIndexed
  <2> QED BY <1>1, <1>2, <1>5, <2>1 DEF GateInv
<1>6. CASE Poll
  BY <1>5, <1>6 DEF Poll, GateInv
<1>7. CASE ReadStats
  BY <1>5, <1>7 DEF ReadStats, GateInv
<1>8. CASE ReadChanges
  <2>1. CASE Up
    <3>1. gate' = [gate EXCEPT !.stage = "stats", !.changes = RowsAt(indexed)]
      BY <1>8, <2>1 DEF ReadChanges, IndexedChanges, RowsAt
    <3>2. /\ DOMAIN gate' = DOMAIN gate /\ gate'.changes = RowsAt(indexed)
          /\ gate'.stage # "pass" /\ indexed' = indexed
      BY <1>8, <3>1 DEF ReadChanges, GateInv
    <3>3. PassMeansIndexed'
      BY <3>2 DEF PassMeansIndexed
    <3> QED BY <1>1, <1>2, <3>2, <3>3 DEF GateInv
  <2>2. CASE ~Up
    BY <1>5, <1>8, <2>2 DEF ReadChanges, GateInv
  <2> QED BY <2>1, <2>2
<1>9. CASE Judge
  <2>1. CASE Passes
    <3>1. DOMAIN gate' = DOMAIN gate /\ gate'.changes = gate.changes /\ indexed' = indexed
      BY <1>9 DEF Judge, GateInv
    <3>2. PassMeansIndexed'
      BY <1>1, <1>p, <2>1, <3>1, PassesMeansIndexed
    <3> QED BY <1>1, <1>2, <3>1, <3>2 DEF GateInv
  <2>2. CASE ~Passes
    BY <1>5, <1>9, <2>2 DEF Judge, GateInv
  <2> QED BY <2>1, <2>2
<1> QED BY <1>3, <1>4, <1>6, <1>7, <1>8, <1>9 DEF Next, AppNext, vars

\* A pass of the gate was given to the delivered build, on the rows of the whole
\* chain, though they were read while it was still indexing and the supply later.
THEOREM PassAlwaysMeansIndexed == Spec => []PassMeansIndexed
<1>1. Init => GateInv
  <2> SUFFICES ASSUME Init PROVE GateInv
    OBVIOUS
  <2>1. build \in Builds \cup {"delivered"} /\ indexed = 0
    BY DEF Init
  <2>2. /\ DOMAIN gate = {"stage", "polls", "settlements", "changes", "supply"}
        /\ gate.changes = {} /\ gate.stage # "pass"
    <3>1. gate = NoGate \/ gate = [NoGate EXCEPT !.stage = "polling", !.polls = MaxPolls]
      BY DEF Init
    <3>2. CASE gate = NoGate
      BY <3>2 DEF NoGate
    <3>3. CASE gate = [NoGate EXCEPT !.stage = "polling", !.polls = MaxPolls]
      BY <3>3 DEF NoGate
    <3> QED BY <3>1, <3>2, <3>3
  <2> QED BY <2>1, <2>2, TheLogs DEF GateInv, PassMeansIndexed
<1>2. GateInv => PassMeansIndexed
  BY DEF GateInv
<1> QED BY <1>1, <1>2, GateStep, PTL DEF Spec
=============================================================================
