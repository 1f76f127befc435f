SPECIFICATION Spec
CONSTANTS
  ChunkSize = 2
  ArrayMax = 1
  BitsetBytes = 8
  RunThreshold = 1
  KeyMod = 2
  Chunk <- AllTwo
  Key = {k1}
  Bang = Bang
  NotInt = NotInt
  HighWord <- InRange
  Asked <- OnlyText
  NoKey = NoKey
  MaxValues = 1
  MaxNames = 1
PROPERTIES
  IsMemberHasValue
