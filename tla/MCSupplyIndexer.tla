--------------------------- MODULE MCSupplyIndexer ---------------------------
(***************************************************************************)
(* Model checking of the indexer's handlers and of the standalone fold on  *)
(* the chains of a few operations.                                         *)
(***************************************************************************)
EXTENDS Reconstruct

\* A settlement with a mint and a Strategic leg, and one with neither.
SomeTakes == {<<0, 0>>, <<1, 1>>}

\* A harvest of fees in both tokens.
SomeHarvests == {<<1, 1>>}

\* A return above its principal.
SomeRecalls == {<<1, 1>>}

OneHarvest == {<<1, 0>>}

OneMint == {<<1, 0>>, <<0, 0>>}
=============================================================================
