------------------------------- MODULE TypeId -------------------------------
(***************************************************************************)
(* The id library: a typed identifier, its wire form, and the parsers.     *)
(*                                                                         *)
(* A uuid is its sequence of bits.  A character of the base32 alphabet is  *)
(* the value decodeTable gives it; the others are negative: Underscore, and *)
(* the letters the alphabet leaves out.  A text is a sequence of them.  A  *)
(* function that returns an error returns NoId.                            *)
(***************************************************************************)
EXTENDS Positional, SequencesExt

CONSTANTS
  EncodedLen,   \* encodedLen, 26 characters:
  FirstBits,    \*   the bits of the leading one, 3,
  GroupBits,    \*   and of each of the others, 5
  Letters,      \* the characters a to z
  MaxPrefixLen  \* maxPrefixLen

Underscore == -1
Alphabet   == 0 .. Power(2, GroupBits) - 1
NoId       == [error |-> TRUE]

ASSUME EncodingAssumption ==
  /\ EncodedLen \in Nat \ {0} /\ FirstBits \in 1 .. GroupBits /\ GroupBits \in Nat
  /\ Letters \subseteq Int \ {Underscore} /\ MaxPrefixLen \in Nat

-----------------------------------------------------------------------------
Width == FirstBits + GroupBits * (EncodedLen - 1)
Uuids == [1 .. Width -> {0, 1}]

\* Where the bits of character i end, and the character that carries bit b.
End(i) == FirstBits + GroupBits * (i - 1)
Char(b) == (b + GroupBits - FirstBits - 1) \div GroupBits + 1

\* Bug: every character, the first one too, carries a whole group.
EncodeAligned(uuid) ==
  [i \in 1 .. EncodedLen |-> Value(2, SubSeq(uuid, GroupBits * (i - 1) + 1, GroupBits * i))]

Encode(uuid) ==
  [i \in 1 .. EncodedLen |-> Value(2, SubSeq(uuid, IF i = 1 THEN 1 ELSE End(i - 1) + 1, End(i)))]

\* Bug: a first character whose value does not fit is taken for what fits of it.
DecodableUnranged(suffix) ==
  Len(suffix) = EncodedLen /\ \A i \in DOMAIN suffix : suffix[i] \in Alphabet

Decodable(suffix) ==
  /\ Len(suffix) = EncodedLen
  /\ \A i \in DOMAIN suffix : suffix[i] \in Alphabet
  /\ suffix[1] < Power(2, FirstBits)

Decode(suffix) == [b \in 1 .. Width |-> Digit(2, suffix[Char(b)], End(Char(b)) - b)]

ValidatePrefix(prefix) ==
  /\ Len(prefix) \in 1 .. MaxPrefixLen
  /\ prefix[1] # Underscore /\ prefix[Len(prefix)] # Underscore
  /\ \A i \in DOMAIN prefix : prefix[i] \in Letters \cup {Underscore}

From(prefix, uuid) ==
  IF ValidatePrefix(prefix) THEN [prefix |-> prefix, uuid |-> uuid] ELSE NoId

\* String
WireForm(id) == id.prefix \o <<Underscore>> \o Encode(id.uuid)

\* The last underscore parts the prefix, which may hold others, from the suffix.
ParseAny(text) ==
  LET sep    == SelectLastInSeq(text, LAMBDA c : c = Underscore)
      suffix == SubSeq(text, sep + 1, Len(text))
  IN  IF sep > 0 /\ Decodable(suffix) THEN From(SubSeq(text, 1, sep - 1), Decode(suffix)) ELSE NoId

Parse(prefix, text) ==
  LET got == ParseAny(text) IN IF got # NoId /\ got.prefix = prefix THEN got ELSE NoId

-----------------------------------------------------------------------------
(* What they are to compute *)

\* An identifier is read back from its wire form, and as no other type.
ReadsBack(id, otherPrefix) ==
  /\ Parse(id.prefix, WireForm(id)) = id
  /\ otherPrefix # id.prefix => Parse(otherPrefix, WireForm(id)) = NoId

\* A text that is read is the one way to write what it is read as.
OneSpelling(text) == ParseAny(text) # NoId => WireForm(ParseAny(text)) = text

\* s comes before t in the dictionary, for texts or uuids.
Precedes(s, t) ==
  \E i \in DOMAIN s \cap DOMAIN t : s[i] < t[i] /\ \A j \in 1 .. i - 1 : s[j] = t[j]
=============================================================================
