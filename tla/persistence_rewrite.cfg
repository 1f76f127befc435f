SPECIFICATION Spec
CONSTANTS
  ChunkSize = 3
  ArrayMax = 1
  BitsetBytes = 1
  RunThreshold = 1
  KeyMod = 2
  Chunk <- OneChunk
  CookieBytes = 2
  EntryBytes = 2
  OffsetBytes = 2
  LowBytes = 1
  ValueBytes = 4
  NoOffsetThreshold = 2
  Key = {k1}
  MaxValues = 1
  Settings <- Rewritten
  MaxTail = 2
PROPERTIES
  RestartRestores
