SPECIFICATION Spec
CONSTANTS
  ChunkSize = 5
  InitialCapacity = 4
  Capacity = 4
  FreshMemory <- Zeroed
INVARIANTS
  RunSubsetExact
