---------------------------- MODULE MCWalletFlows ----------------------------
(***************************************************************************)
(* Model checking of the wallet flows: amounts of one decimal, displayed   *)
(* without it, so that the digit that is cut matters.                      *)
(***************************************************************************)
EXTENDS WalletFlows

\* "0.", "1", "0.5", "0.25" (too precise), "." alone, and no decimal at all.
SomeTexts == {Decimal(<<0>>, <<>>), Decimal(<<1>>, <<>>), Decimal(<<0>>, <<5>>),
              Decimal(<<0>>, <<2, 5>>), Decimal(<<>>, <<>>), MalformedText}

\* A takeover that mints nothing to the departing King, and one that does.
TwoSettlements == {<<1, 0>>, <<1, 2>>}
=============================================================================
