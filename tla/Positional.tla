----------------------------- MODULE Positional -----------------------------
(***************************************************************************)
(* Numbers in positional notation, in which the money library writes       *)
(* amounts (radix 10) and the id library uuids (radix 2).  A numeral is the *)
(* sequence of its digits, the leading one first.                          *)
(***************************************************************************)
EXTENDS Integers, Sequences

\* Horner's rule: what is left of the digits so far is moved up a place by each.
Horner(radix, first, digits) ==
  LET value[i \in 0 .. Len(digits)] ==
        IF i = 0 THEN first ELSE radix * value[i - 1] + digits[i]
  IN  value[Len(digits)]

Value(radix, digits) == Horner(radix, 0, digits)

Zeros(n) == [i \in 1 .. n |-> 0]

\* radix ^ n, as a one and n zeros: of ^ the provers know nothing.
Power(radix, n) == Horner(radix, 1, Zeros(n))

\* The digit so many places from the last.
Digit(radix, n, place) == (n \div Power(radix, place)) % radix

\* The last so many digits.
Digits(radix, n, places) == [i \in 1 .. places |-> Digit(radix, n, places - i)]
=============================================================================
