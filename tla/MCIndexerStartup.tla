--------------------------- MODULE MCIndexerStartup ---------------------------
(***************************************************************************)
(* Model checking of the indexer's start and of its runtime gate, with a   *)
(* lawful and an unlawful row for each constraint.                         *)
(***************************************************************************)
EXTENDS RuntimeGate

SomeRows ==
  {Settlement(3, 1, 2, 0), Settlement(9, 1, 2, 0),
   SupplyChange(1, "vyrf_burn", 0), SupplyChange(1, "not_a_cause", 0),
   StrategicFlow("in", "ContributedPrincipal", 1),
   StrategicFlow("out", "HardBacking", 1),
   StrategicFlow("sideways", "ReturnedPrincipal", 1)}
=============================================================================
