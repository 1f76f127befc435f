SPECIFICATION Spec
CONSTANTS
  ChunkSize = 4
  ArrayMax = 2
  BitsetBytes = 8
  RunThreshold = 2
  KeyMod = 2
  Chunk <- OnlyLast
  Key = {k1, k2}
  Bang = Bang
  NotInt = NotInt
  Asked <- AnyInteger
  NoKey = NoKey
  HighWord <- InRange
  MaxValues = 1
  MaxNames = 4
SYMMETRY KeySymmetry
INVARIANTS
  TempWellFormed
  CountExact
PROPERTIES
  UnionExact
  DifferenceExact
  ImplementsSets
