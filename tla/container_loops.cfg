SPECIFICATION LoopsSpec
CONSTANTS
  ChunkSize = 7
  InitialCapacity = 3
  Capacity = 6
  FreshMemory <- Stale
  HalfMod = 4
  ArrayMax = 2
  Calls <- Safe
  MergeSize = 7
  Lanes = 2
  Arguments <- Every
  Words = 4
  Bits = 2
  ByteBits = 1
  Jobs <- EveryJob
  KeyMod = 2
  Visits <- EveryVisit
  EntryKeys = 3
  Typecodes = {"array", "run"}
  InitialSize = 1
  SlowGrowth = 2
  Sources <- SomeSources
INVARIANTS
  SearchesExact
  RunSubsetFound
  RangeExact
  MergeExact
  MergeSound
  WordsExact
  ReadsExact
  WalksExact
PROPERTIES
  ArrayStepExact
  EntriesExact
  Returns
CHECK_DEADLOCK FALSE
