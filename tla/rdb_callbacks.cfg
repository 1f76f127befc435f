SPECIFICATION CallbacksSpec
CONSTANTS
  ChunkSize = 3
  ArrayMax = 1
  BitsetBytes = 1
  RunThreshold = 1
  KeyMod = 3
  Chunk <- AllThree
  CookieBytes = 2
  EntryBytes = 2
  OffsetBytes = 2
  LowBytes = 1
  ValueBytes = 4
  NoOffsetThreshold = 2
INVARIANTS
  BufferFits
PROPERTIES
  LoadRestores
