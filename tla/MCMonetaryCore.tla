--------------------------- MODULE MCMonetaryCore ---------------------------
(***************************************************************************)
(* Model checking of the monetary core with the lens, and its refinement   *)
(* of BackingLedger.                                                       *)
(***************************************************************************)
EXTENDS Lens

CONSTANTS alice, bob

\* Treasury income sent on to the Reserve; the pool as the source of VUX, which
\* may also end up at the Reserve; a transfer to oneself.
IncomePaths == {<<Treasury, Reserve>>}
TradePaths  == {<<Pool, alice>>, <<Pool, Reserve>>, <<alice, alice>>}
=============================================================================
