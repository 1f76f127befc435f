SPECIFICATION EitherSpec
CONSTANTS
  ChunkSize = 5
  ArrayMax = 2
  BitsetBytes = 6
  RunThreshold = 1
  ArrayLazyLowerBound = 1
  KeyMod = 3
  Chunk <- FirstTwo
  Register = {a, b}
  Single <- FewOfSecond
  Ranges <- SomeRanges
  Steps = {1, 2}
  Given <- GivenBitmaps
  CookieBytes = 4
  EntryBytes = 4
  OffsetBytes = 4
  LowBytes = 2
  ValueBytes = 4
  NoOffsetThreshold = 4
  Methods = {"or_many", "or_many_heap", "xor_many"}
  MaxInputs = 4
INVARIANTS
  AllWellFormed
  AlgebraExact
  RangesExact
  QueriesExact
  LazyExact
  NeverMiscounted
  HeapOrdered
  AnswerSound
PROPERTIES
  Returns
CHECK_DEADLOCK FALSE
