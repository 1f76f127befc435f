SPECIFICATION DeploymentSpec
CONSTANTS
  ChunkSize = 2
  ArrayMax = 1
  BitsetBytes = 1
  RunThreshold = 1
  KeyMod = 2
  Chunk <- OneChunk
  CookieBytes = 2
  EntryBytes = 2
  OffsetBytes = 2
  LowBytes = 1
  ValueBytes = 4
  NoOffsetThreshold = 2
  Key = {k1, k2}
  MaxValues = 1
  Settings <- Sound
  MaxTail = 2
  MaxLink = 2
SYMMETRY KeySymmetry
INVARIANTS
  ReplicaAgrees
PROPERTIES
  RestartRestores
