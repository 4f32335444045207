----------------------------- MODULE Libraries -----------------------------
(***************************************************************************)
(* The pure functions of the money library and the id library and what     *)
(* they are to compute: a behaviour is asked about one input, and the      *)
(* invariants compare what is computed of it with what is to be.           *)
(***************************************************************************)
EXTENDS Money, TypeId

CONSTANT Inputs   \* the inputs that may be asked about, any of these:

Quotients == [kind : {"quotient"}, units : Int, divisor : Int, mode : Modes]
Splits    == [kind : {"split"}, units : Int, shares : Nat]
Texts     == [kind : {"text"}, negative : BOOLEAN, whole : Nat, frac : Seq(0 .. 9), times : Int]

ValidPrefixes == {p \in Seq(Letters \cup {Underscore}) : ValidatePrefix(p)}
Minted    == [kind : {"minted"}, prefix : ValidPrefixes, other : ValidPrefixes, uuid : Uuids]
Wires     == [kind : {"wire"}, text : Seq(Int)]

ASSUME InputsAssumption == Inputs \subseteq Quotients \cup Splits \cup Texts \cup Minted \cup Wires

VARIABLE input

-----------------------------------------------------------------------------
Init == input = [kind |-> "none"]

Ask ==
  /\ input.kind = "none"
  /\ input' \in Inputs

Spec == Init /\ [][Ask]_input

-----------------------------------------------------------------------------
(* Properties *)

\* Div rounds to nearest, the tie to the even neighbour or away from zero, or
\* truncates, for every sign of both operands, a debt exactly as a credit; and
\* divides a product back exactly.
RoundsAsAsked ==
  input.kind = "quotient" =>
    LET q == Div(Amount(input.units, "EUR"), input.divisor, input.mode) IN
    IF input.divisor = 0 THEN q = Error
      ELSE /\ IsRounded(q.units, input.units, input.divisor, input.mode)
           /\ Div(Amount(-input.units, "EUR"), input.divisor, input.mode).units = -q.units
           /\ Div(Mul(q, input.divisor), input.divisor, input.mode) = q

\* The shares of Split add up to the amount, of either sign, with no unit lost,
\* and no share is more than a unit from another.
SplitIsExact ==
  input.kind = "split" =>
    LET a == Amount(input.units, "EUR") IN
    IF input.shares = 0 THEN Split(a, input.shares) = Error
      ELSE IsSplit(Split(a, input.shares), a)

\* A decimal text is refused or read as what it denotes at the scale it is read
\* at: an amount is written as it was read but for trailing zeros and the sign of
\* zero, a rate multiplies as the quotient it denotes.
TextIsExact ==
  input.kind = "text" =>
    LET a == ParseAmount(input, "EUR")
        r == MulRate(Amount(input.times, "EUR"), input, "HalfEven")
        minor == input.whole * Power(10, Len(input.frac)) + Value(10, input.frac)
        value == IF input.negative THEN -minor ELSE minor
    IN  /\ (a = Error) = (Len(input.frac) > Scale)
        /\ a # Error => /\ a = FromMinorUnits(value, Len(input.frac), "EUR")
                        /\ ParseAmount(Text(a), "EUR") = a
                        /\ Text(a).frac = <<>> \/ Last(Text(a).frac) # 0
        /\ (r = Error) = (Len(input.frac) > RateScale)
        /\ r # Error =>
             IsRounded(r.units, input.times * value, Power(10, Len(input.frac)), "HalfEven")

\* An identifier and its wire form determine each other: it is read back, never
\* as another type, and no other text is read as it; and ids sort as their uuids.
IdsAreFaithful ==
  /\ input.kind = "minted" =>
       /\ ReadsBack(From(input.prefix, input.uuid), input.other)
       /\ \A uuid \in Uuids :
            Precedes(input.uuid, uuid) =>
              Precedes(WireForm(From(input.prefix, input.uuid)), WireForm(From(input.prefix, uuid)))
  /\ input.kind = "wire" => OneSpelling(input.text)
=============================================================================
