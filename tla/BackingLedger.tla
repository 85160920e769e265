---------------------------- MODULE BackingLedger ----------------------------
(***************************************************************************)
(* What the monetary core promises a VUX holder, without throne, price or  *)
(* clock: a backing B and a complete supply S that change in four ways,    *)
(* none of which may leave a unit with less backing than it had.  The seed *)
(* of one unit stays out of circulation for ever.                          *)
(***************************************************************************)
EXTENDS Integers

CONSTANTS B0, S0

VARIABLES B, S

Init == B = B0 /\ S = S0

\* New units appear only against backing that arrives with them.
Issue ==
  /\ B' >= B /\ S' >= S
  /\ B * (S' - S) <= (B' - B) * S

\* Units leave against at most their share of the backing, the seed never.
Exit ==
  /\ B' <= B /\ S' <= S /\ S' >= 1
  /\ (B - B') * S <= B * (S - S')

\* Units are destroyed for nothing in return.
Destroy ==
  /\ B' = B /\ S' <= S /\ S' >= 1

\* Backing arrives for nothing in return.
Accrete ==
  /\ B' >= B /\ S' = S

Next ==
  /\ B' \in Nat /\ S' \in Nat
  /\ Issue \/ Exit \/ Destroy \/ Accrete

Spec == Init /\ [][Next]_<<B, S>>
=============================================================================
