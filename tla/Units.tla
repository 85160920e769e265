-------------------------------- MODULE Units --------------------------------
(***************************************************************************)
(* The web application's conversions between decimal text and raw token    *)
(* units (src/web/lib/units.js and the formatters of                       *)
(* src/web/lib/protocol.js).  A text is the digits it holds around its     *)
(* point, or one of the texts that are no plain decimal.                   *)
(***************************************************************************)
EXTENDS Integers, Sequences

CONSTANTS
  DECIMALS,   \* digits of a raw unit
  None        \* null

ASSUME UnitsAssumption == DECIMALS \in Nat

\* The powers of ten.
TenTo[n \in Nat] == IF n = 0 THEN 1 ELSE 10 * TenTo[n - 1]

Scale == TenTo[DECIMALS]

Decimal(whole, frac) == [kind |-> "decimal", whole |-> whole, frac |-> frac]
EmptyText     == [kind |-> "empty", whole |-> <<>>, frac |-> <<>>]
MalformedText == [kind |-> "malformed", whole |-> <<>>, frac |-> <<>>]

\* The number a sequence of digits writes.
ValueOf(digits) ==
  LET Value[k \in 0..Len(digits)] ==
        IF k = 0 THEN 0 ELSE 10 * Value[k - 1] + digits[k]
  IN  Value[Len(digits)]

\* The k digits that write n.
Digits(n, k) == [i \in 1..k |-> (n \div TenTo[k - i]) % 10]

\* The first k digits, with zeros behind them where there are fewer.
PadEnd(digits, k) == [i \in 1..k |-> IF i <= Len(digits) THEN digits[i] ELSE 0]

\* Digits around at most one point, and more than the point alone.
PlainDecimal(text) == text.kind = "decimal" /\ Len(text.whole) + Len(text.frac) > 0

\* A parser that drops the digits it cannot represent.
TruncatingParse(text) ==
  IF ~PlainDecimal(text) THEN None
  ELSE ValueOf(text.whole) * Scale + ValueOf(PadEnd(text.frac, DECIMALS))

\* parseUnits18: exact, or no amount at all.
ParseUnits18(text) ==
  IF ~PlainDecimal(text) \/ Len(text.frac) > DECIMALS THEN None
  ELSE ValueOf(text.whole) * Scale + ValueOf(PadEnd(text.frac, DECIMALS))

\* previewRedeemRaw: floor(B q / S), or no quote.
PreviewRedeemRaw(B, S, q) ==
  IF q = None \/ S <= 0 THEN None
  ELSE IF q <= 0 THEN None ELSE (B * q) \div S

\* formatUnits18: the digits after the point are cut, not rounded.
FormatUnits18(v, dp) ==
  LET a == IF v < 0 THEN -v ELSE v
  IN  [neg |-> v < 0, whole |-> a \div Scale,
       frac |-> SubSeq(Digits(a % Scale, DECIMALS), 1, dp)]

\* What a reader takes a formatted figure of dp digits for, in raw units.
Reads(shown, dp) ==
  LET a == shown.whole * Scale + ValueOf(shown.frac) * TenTo[DECIMALS - dp]
  IN  IF shown.neg THEN -a ELSE a
=============================================================================
