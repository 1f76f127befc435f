CONSTANTS
  Kinds = {"plain"}
  Slots = {b1, b2, b3}
  Width = 2
  Elements = {0, 2}
  FlipRanges <- MCFlipRanges
  Flags = {TRUE}
SYMMETRY MCSymmetry
SPECIFICATION Spec
INVARIANTS
  NoMisuse
  CountersExact
  AnswerExact
PROPERTIES
  OthersUntouched
