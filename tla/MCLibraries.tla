---------------------------- MODULE MCLibraries ----------------------------
(***************************************************************************)
(* Small inputs for TLC: every dividend, divisor, decimal text, id and wire *)
(* text up to a bound.                                                     *)
(***************************************************************************)
EXTENDS Libraries

\* What Power is, on small numbers.
ASSUME PowerAssumption == \A radix \in 1 .. 10, n \in 0 .. 6 : Power(radix, n) = radix ^ n

MCLetters  == {3, -3}
Characters == {Underscore} \cup Letters \cup Alphabet
Names(n)   == SeqOf(Letters \cup {Underscore}, n)
GoodNames  == {p \in Names(MaxPrefixLen) : ValidatePrefix(p)}

MCInputs ==
  [kind : {"quotient"}, units : -9 .. 9, divisor : -4 .. 4, mode : Modes]
    \cup [kind : {"split"}, units : -9 .. 9, shares : 0 .. 5]
    \cup [kind : {"text"}, negative : BOOLEAN, whole : {0, 1, 20}, frac : SeqOf({0, 3, 5}, 4),
          times : {-7, 2}]
    \cup [kind : {"minted"}, prefix : GoodNames, other : GoodNames, uuid : Uuids]
    \cup [kind : {"wire"}, text :
            SeqOf(Characters, EncodedLen + 2)
              \cup {p \o <<Underscore>> \o Encode(u) : p \in Names(MaxPrefixLen + 1), u \in Uuids}]
=============================================================================
