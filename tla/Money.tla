------------------------------- MODULE Money -------------------------------
(***************************************************************************)
(* The money library: fixed-point amounts of a currency, their decimal     *)
(* text, and the operations on them, pure functions all of them.           *)
(*                                                                         *)
(* An amount is a record of units, the amount scaled by 10^Scale, and a    *)
(* currency.  A decimal text matches -?[0-9]+(\.[0-9]+)?, the pattern both *)
(* parsers insist on, and is the record of its sign, the value of its      *)
(* whole part and the sequence of its fraction's digits.  A function that  *)
(* returns an error returns Error.                                         *)
(***************************************************************************)
EXTENDS Positional, SequencesExt

CONSTANTS
  Scale,      \* decimal places of an amount
  RateScale   \* decimal places of a rate

ASSUME ScaleAssumption == Scale \in Nat \ {0} /\ RateScale \in Nat \ {0}

Modes == {"HalfEven", "HalfUp", "Down"}
Error == [error |-> TRUE]
Amount(units, currency) == [units |-> units, currency |-> currency]

-----------------------------------------------------------------------------
(* Division *)

Magnitude(n) == IF n < 0 THEN -n ELSE n
Opposite(n, d) == (n < 0) # (d < 0)

\* big.Int's QuoRem, for d # 0: the quotient is truncated toward zero, and the
\* remainder has the sign of n.
Quo(n, d) ==
  LET q == Magnitude(n) \div Magnitude(d) IN IF Opposite(n, d) THEN -q ELSE q
Rem(n, d) ==
  LET r == Magnitude(n) % Magnitude(d) IN IF n < 0 THEN -r ELSE r

\* Whether the quotient is moved away from zero, which an exact one never is.
RoundAway(n, d, mode) ==
  LET twice == 2 * Magnitude(Rem(n, d)) IN
  /\ mode # "Down"
  /\ Rem(n, d) # 0
  /\ \/ twice > Magnitude(d)
     \/ twice = Magnitude(d) /\ (mode = "HalfUp" \/ Quo(n, d) % 2 = 1)

\* Bug: a tie is broken upward, whatever the sign.
DivRoundUp(n, d, mode) ==
  IF RoundAway(n, d, mode) THEN Quo(n, d) + 1 ELSE Quo(n, d)

DivRound(n, d, mode) ==
  CASE ~RoundAway(n, d, mode) -> Quo(n, d)
    [] RoundAway(n, d, mode) /\ Opposite(n, d) -> Quo(n, d) - 1
    [] RoundAway(n, d, mode) /\ ~Opposite(n, d) -> Quo(n, d) + 1

-----------------------------------------------------------------------------
(* Decimal text *)

\* The units of a text at a precision; an excess digit is refused, zero or not.
Units(text, places) ==
  LET padded == text.frac \o Zeros(places - Len(text.frac))
      units  == text.whole * Power(10, places) + Value(10, padded)
  IN  IF text.negative THEN -units ELSE units
Fits(text, places) == Len(text.frac) <= places

ParseAmount(text, currency) ==
  IF Fits(text, Scale) THEN Amount(Units(text, Scale), currency) ELSE Error

\* Bug: the zeros ahead of the fraction are lost.
TextUnpadded(a) ==
  LET frac == Magnitude(a.units) % Power(10, Scale) IN
  [negative |-> a.units < 0, whole |-> Magnitude(a.units) \div Power(10, Scale),
   frac |-> SelectSeq(Digits(10, frac, Scale), LAMBDA digit : digit # 0)]

\* String: the trailing zeros of the fraction are trimmed.
Text(a) ==
  LET digits == Digits(10, Magnitude(a.units) % Power(10, Scale), Scale)
      kept   == {i \in 1 .. Scale : \E j \in i .. Scale : digits[j] # 0}
  IN  [negative |-> a.units < 0, whole |-> Magnitude(a.units) \div Power(10, Scale),
       frac |-> [i \in kept |-> digits[i]]]

-----------------------------------------------------------------------------
(* Arithmetic *)

FromMinorUnits(value, minorDigits, currency) ==
  IF minorDigits \in 0 .. Scale
    THEN Amount(value * Power(10, Scale - minorDigits), currency)
    ELSE Error

Add(a, b) ==
  IF a.currency = b.currency THEN Amount(a.units + b.units, a.currency) ELSE Error

Mul(a, factor) == Amount(a.units * factor, a.currency)

MulRate(a, rate, mode) ==
  IF Fits(rate, RateScale)
    THEN Amount(DivRound(a.units * Units(rate, RateScale), Power(10, RateScale), mode), a.currency)
    ELSE Error

Div(a, n, mode) ==
  IF n = 0 THEN Error ELSE Amount(DivRound(a.units, n, mode), a.currency)

\* The units of share i: the leading shares take one of the remainder each.
Share(units, n, i) ==
  LET extra == IF i > Magnitude(Rem(units, n)) THEN 0 ELSE IF units < 0 THEN -1 ELSE 1
  IN  Quo(units, n) + extra

\* Bug: the remainder of a debt is handed out as that of a credit is.
SplitUpward(a, n) ==
  IF n <= 0 THEN Error
    ELSE [i \in 1 .. n |-> Amount(Quo(a.units, n) + (IF i > Rem(a.units, n) THEN 0 ELSE 1), a.currency)]

Split(a, n) ==
  IF n <= 0 THEN Error ELSE [i \in 1 .. n |-> Amount(Share(a.units, n, i), a.currency)]

-----------------------------------------------------------------------------
(* What they are to compute *)

\* q is n / d rounded in the mode: an integer nearest to it, or for Down the one
\* next to it toward zero, a tie going to the even one or away from zero.
IsRounded(q, n, d, mode) ==
  LET off == Magnitude(n - q * d) IN
  CASE mode = "Down" -> off < Magnitude(d) /\ Magnitude(q * d) <= Magnitude(n)
    [] mode # "Down" ->
         /\ 2 * off <= Magnitude(d)
         /\ 2 * off = Magnitude(d) =>
              IF mode = "HalfEven" THEN q % 2 = 0 ELSE Magnitude(q * d) > Magnitude(n)

\* The shares add up to the amount, differ by one unit at the most, and the
\* larger ones come first.
IsSplit(shares, a) ==
  /\ LET sum[i \in 0 .. Len(shares)] ==
           IF i = 0 THEN Amount(0, a.currency) ELSE Add(sum[i - 1], shares[i])
     IN  sum[Len(shares)] = a
  /\ \A i, j \in DOMAIN shares : i <= j =>
       Magnitude(shares[i].units) - Magnitude(shares[j].units) \in {0, 1}
=============================================================================
