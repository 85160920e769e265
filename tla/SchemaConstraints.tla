-------------------------- MODULE SchemaConstraints --------------------------
(***************************************************************************)
(* The start of the indexer (src/indexer/ponder.config.ts, the setup       *)
(* handler of src/indexer/src/index.ts and                                 *)
(* src/indexer/src/schema-constraints.ts): before the first row is written *)
(* every CHECK is added to the tables of this instance, looked up in the   *)
(* catalog and tried on a probe.  Other schemas of the database may hold   *)
(* tables of the same names, and the tables may be left from an earlier    *)
(* process or from before the constraints existed.  The process can be     *)
(* killed at any step.  The read API (src/indexer/src/api/index.ts)        *)
(* answers while the process is up.                                        *)
(***************************************************************************)
EXTENDS IndexerSchema, FiniteSets, FiniteSetsExt

CONSTANTS
  Live, Others,      \* the schema ponder builds into, and others of the database
  Rows,              \* what a decoder, also one that drifted, makes of a log
  MaxLaunches

ASSUME SchemaAssumption == Live \notin Others

Schemas == {Live} \cup Others
Names   == {TableOf(spec) : spec \in SPECS}
ORDER   == <<"legs_sum", "cause_domain", "class_is_never_backing", "direction_domain">>

VARIABLES
  configured,  \* all contract addresses are set in the environment
  copies,      \* schema -> tables, those of them with the columns the specs name, and
               \* what stands under the name of each CHECK: nothing, the expression of
               \* the spec, one that takes or refuses all
  newest,      \* the schema whose tables were created last
  rows,        \* rows of the live tables
  phase,       \* off, starting, running, failed
  step,        \* at, stage, target: the spec being applied, and to which schema
  launches,
  served       \* the last answer: rows, refused, and the phase it was given in

database == <<copies, newest, rows>>
process  == <<phase, step, launches>>
startVars == <<configured, database, process, served>>

Fresh == [tables |-> Names, columns |-> Names, check |-> [spec \in SPECS |-> "none"]]
FirstStep == [at |-> 1, stage |-> "lookup", target |-> Live]

\* A copy of the tables: fresh, constrained, without a table or a column, or with a
\* CHECK that is not what its name says.
Copies ==
  {Fresh, [Fresh EXCEPT !.check = [spec \in SPECS |-> "own"]]}
    \cup {[Fresh EXCEPT !.tables = Names \ {name}] : name \in Names}
    \cup {[Fresh EXCEPT !.columns = Names \ {name}] : name \in Names}
    \cup {[Fresh EXCEPT !.check[spec] = kind] : spec \in SPECS, kind \in {"inert", "refusing"}}

\* The live tables do not take a row: it has no table or no column, or a CHECK
\* refuses it.
Refused(row) ==
  \/ row.table \notin copies[Live].tables \/ row.table \notin copies[Live].columns
  \/ \E spec \in SPECS :
       /\ TableOf(spec) = row.table
       /\ \/ copies[Live].check[spec] = "refusing"
          \/ copies[Live].check[spec] = "own" /\ ~Holds(spec, row)

StartInit ==
  /\ configured \in BOOLEAN
  /\ copies \in [Schemas -> Copies]
  /\ newest \in Schemas
  /\ rows \in {{}} \cup {{row} : row \in {r \in Rows : ~Refused(r)}}
  /\ phase = "off" /\ step = FirstStep /\ launches = 0
  /\ served = [under |-> "off", refused |-> FALSE, rows |-> {}]

-----------------------------------------------------------------------------
Enters(p, s) == phase' = p /\ step' = s /\ UNCHANGED launches

Throws == Enters("failed", step)

\* ponder starts: over the tables of an earlier process, or over new ones.  It
\* refuses to without an address.
Launch(anew) ==
  /\ phase \in {"off", "failed"} /\ launches < MaxLaunches
  /\ phase' = IF configured THEN "starting" ELSE "failed"
  /\ step' = FirstStep /\ launches' = launches + 1
  /\ IF anew THEN /\ copies' = [copies EXCEPT ![Live] = Fresh]
                  /\ newest' = Live /\ rows' = {}
             ELSE UNCHANGED database
  /\ UNCHANGED <<configured, served>>

Kill ==
  /\ phase \in {"starting", "running"}
  /\ Enters("off", step)
  /\ UNCHANGED <<configured, database, served>>

Applied == ORDER[step.at]
At(stage) == phase = "starting" /\ step.stage = stage

Holders(name) == {s \in Schemas : name \in copies[s].tables}

\* A look-up that prefers the newest table.
SchemaByAge(name) ==
  IF newest \in Holders(name) THEN {newest} ELSE Holders(name)

\* The table of the current schema, which is the live one, before the newest.
SchemaOf(name) ==
  IF Live \in Holders(name) THEN {Live}
  ELSE IF newest \in Holders(name) THEN {newest} ELSE Holders(name)

\* The table has to be found, with the columns of the CHECK.
Lookup ==
  /\ At("lookup")
  /\ LET table == TableOf(Applied)
         found == SchemaOf(table)
     IN  \/ found = {} /\ Throws
         \/ \E s \in found :
              IF table \in copies[s].columns
              THEN Enters(phase, [step EXCEPT !.stage = "add", !.target = s])
              ELSE Throws
  /\ UNCHANGED <<configured, database, served>>

Check == copies[step.target].check[Applied]

\* Rows only matter in the live tables.
Conflicts ==
  step.target = Live /\ \E row \in rows : TableOf(Applied) = row.table /\ ~Holds(Applied, row)

\* ADD CONSTRAINT without a handler for a constraint of that name.
AddConstraintOnce ==
  /\ At("add")
  /\ IF Check # "none" \/ Conflicts
     THEN Throws /\ UNCHANGED copies
     ELSE /\ copies' = [copies EXCEPT ![step.target].check[Applied] = "own"]
          /\ Enters(phase, [step EXCEPT !.stage = "verify"])
  /\ UNCHANGED <<configured, newest, rows, served>>

\* ADD CONSTRAINT: a constraint of that name stays, rows that violate it throw.
AddConstraint ==
  /\ At("add")
  /\ IF Check = "none" /\ Conflicts
     THEN Throws /\ UNCHANGED copies
     ELSE /\ copies' = IF Check = "none"
                       THEN [copies EXCEPT ![step.target].check[Applied] = "own"] ELSE copies
          /\ Enters(phase, [step EXCEPT !.stage = "verify"])
  /\ UNCHANGED <<configured, newest, rows, served>>

\* The catalog lists it.
Verify ==
  /\ At("verify")
  /\ IF Check = "none" THEN Throws ELSE Enters(phase, [step EXCEPT !.stage = "probe"])
  /\ UNCHANGED <<configured, database, served>>

\* The clone has the CHECKs of the table's other specs too, which take a row that
\* leaves their columns null, unless they refuse all.
CloneRefuses(bad) ==
  \/ Check = "own" /\ bad
  \/ \E spec \in SPECS : /\ TableOf(spec) = TableOf(Applied)
                         /\ copies[step.target].check[spec] = "refusing"

\* proveItBites: the bad row is refused by a CHECK and the good one taken.
Bites == CloneRefuses(TRUE) /\ ~CloneRefuses(FALSE)

ProveItBites ==
  /\ At("probe")
  /\ IF ~Bites THEN Throws
     ELSE IF step.at < Len(ORDER) THEN Enters(phase, [FirstStep EXCEPT !.at = step.at + 1])
     ELSE Enters("running", step)
  /\ UNCHANGED <<configured, database, served>>

Setup == Lookup \/ AddConstraint \/ Verify \/ ProveItBites

-----------------------------------------------------------------------------
\* A handler writes a row; if it is refused, the handler throws and the process stops.
Write(row) ==
  /\ phase = "running"
  /\ IF Refused(row)
     THEN Throws /\ UNCHANGED rows
     ELSE rows' = rows \cup {row} /\ UNCHANGED process
  /\ UNCHANGED <<configured, copies, newest, served>>

\* A filter on the cause must name one of the domain; one on the class may be any text.
CausesAsked == {"all"} \cup Causes
ClassesAsked == {"all"} \cup {row.class : row \in {r \in Rows : r.table = "strategic_flow"}}

Of(table) == {row \in rows : row.table = table}

Answer(shown) == [under |-> phase, refused |-> FALSE, rows |-> shown]
Refusal       == [under |-> phase, refused |-> TRUE, rows |-> {}]

AnswerSupplyChanges(cause) ==
  Answer({row \in Of("supply_change") : cause \in {"all", row.cause}})

\* GET /strategic-flows: refused if a row of the answer says "backing".
AnswerFlows(class) ==
  LET shown == {row \in Of("strategic_flow") : class \in {"all", row.class}}
  IN  IF \E row \in shown : row.class \in BackingLabels THEN Refusal ELSE Answer(shown)

Serve ==
  /\ phase \in {"starting", "running"}
  /\ \/ served' = Answer(Of("settlement"))
     \/ \E cause \in CausesAsked : served' = AnswerSupplyChanges(cause)
     \/ \E class \in ClassesAsked : served' = AnswerFlows(class)
  /\ UNCHANGED <<configured, database, process>>

StartNext ==
  \/ \E anew \in BOOLEAN : Launch(anew)
  \/ Kill
  \/ Setup
  \/ \E row \in Rows : Write(row)
  \/ Serve

StartSpec == StartInit /\ [][StartNext]_startVars /\ WF_startVars(Setup)

-----------------------------------------------------------------------------
Lawful(row) == Admits(SPECS, row)

\* Whatever a decoder made of a log, and whatever the database held before, the rows
\* of a running indexer satisfy every constraint: the constraints stand on the tables
\* that are written, and they discriminate.  So do the rows it answers with, and the
\* route that refuses flows called backing never has to: what the constraints are
\* behind, "defence in depth" (src/indexer/src/api/index.ts:76), only acts while a
\* start still applies them.
RunningIsLawful ==
  /\ phase = "running" => \A row \in rows : Lawful(row)
  /\ served.under = "running" =>
       ~served.refused /\ \A row \in served.rows : Lawful(row)

\* The live tables stand, without a CHECK or with the right one, and lawful rows.
Healthy ==
  /\ copies[Live].tables = Names /\ copies[Live].columns = Names
  /\ \A spec \in SPECS : copies[Live].check[spec] \in {"none", "own"}
  /\ \A row \in rows : Lawful(row)

\* A start over a healthy database gets through unless it is killed, also when an
\* earlier one was killed between two constraints.
HealthyStartsRun ==
  (phase = "starting" /\ Healthy) ~> (phase \in {"running", "off"})
=============================================================================
