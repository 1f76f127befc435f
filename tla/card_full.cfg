SPECIFICATION Spec
CONSTANTS
  ChunkSize = 2
  ArrayMax = 1
  BitsetBytes = 8
  RunThreshold = 1
  KeyMod = 2
  Chunk <- AllTwo
  Key = {k1, k2}
  Bang = Bang
  NotInt = NotInt
  Asked <- AnyInteger
  NoKey = NoKey
  HighWord <- InRange
  MaxValues = 2
  MaxNames = 2
SYMMETRY KeySymmetry
PROPERTIES
  UnionExact
