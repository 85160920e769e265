------------------------------ MODULE MCGenesis ------------------------------
(***************************************************************************)
(* Model checking of the launch and of the position after it, with ten     *)
(* units of VUX, a backing of ten and a price of 11/10.                    *)
(***************************************************************************)
EXTENDS Genesis

Good == [value |-> 20, b0 |-> 10, wPol |-> 10, p0Num |-> 11, p0Den |-> 10,
         opening |-> 1, committed |-> TRUE, sqrtP0X96 |-> 0]

\* The recorded inputs, and inputs with one mistake each.
Inputs ==
  {Good, [Good EXCEPT !.value = 21], [Good EXCEPT !.p0Num = 12],
   [Good EXCEPT !.opening = 2],
   [Good EXCEPT !.wPol = 0, !.value = 10], [Good EXCEPT !.committed = FALSE]}

\* Each with the price encoded for either order of the tokens.
SomeParams ==
  UNION {{[i EXCEPT !.sqrtP0X96 = EncodeSqrtP0(i.p0Num, i.p0Den)],
          [i EXCEPT !.sqrtP0X96 = EncodeSqrtP0(i.p0Den, i.p0Num)]} : i \in Inputs}

SomeCommitments == {<<1, 2>>, <<2, 1>>}
SomeBuys        == {<<2, 1>>}
SomeDemands     == {<<1, 1>>, <<0, 2>>, <<3, 0>>}
SomeFees        == {<<1, 0>>, <<0, 1>>}
=============================================================================
