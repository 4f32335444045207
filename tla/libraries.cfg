\* Small precisions, an id of five bits in three characters.  The behaviour ends
\* when it has been asked about an input.
SPECIFICATION Spec
CHECK_DEADLOCK FALSE
CONSTANTS
  Scale = 2
  RateScale = 3
  EncodedLen = 3
  FirstBits = 1
  GroupBits = 2
  Letters <- MCLetters
  MaxPrefixLen = 3
  Inputs <- MCInputs
INVARIANTS RoundsAsAsked SplitIsExact TextIsExact IdsAreFaithful
