SPECIFICATION Spec
CONSTANTS
  ChunkSize = 3
  ArrayMax = 1
  BitsetBytes = 8
  RunThreshold = 1
  KeyMod = 3
  Chunk <- TwoOfThree
  Key = {k1}
  Bang = Bang
  NotInt = NotInt
  Asked <- AnyInteger
  NoKey = NoKey
  HighWord <- AnyWord
  MaxValues = 2
  MaxNames = 2
INVARIANTS
  TypeOK
  StoredCanonical
  NoEmptyKey
  MembersReplyExact
  CallInvariant
PROPERTIES
  ImplementsSets
  CallsReturn
