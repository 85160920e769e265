\* Two launches over any of the databases, or one under the gate.
CONSTANTS
  Live = live
  Others = {other}
  Rows <- SomeRows
  MaxLaunches = 2
  Builds = {"delivered", "collapsing", "unattributed"}
  MaxPolls = 3
SPECIFICATION Spec
INVARIANTS
  RunningIsLawful
  PassMeansIndexed
PROPERTIES
  HealthyStartsRun
CHECK_DEADLOCK FALSE
