CONSTANTS
  Kinds = {"plain", "run"}
  Slots = {b1, b2}
  Width = 2
  Elements = {0, 2}
  FlipRanges <- MCFlipRanges
  Flags = {TRUE}
SYMMETRY MCSymmetry
SPECIFICATION Spec
INVARIANTS
  NoMisuse
