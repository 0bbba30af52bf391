SPECIFICATION SendSpec
CONSTANTS
  mCapacity = 6
  MaxChunk = 3
  Bytes <- TwoBytes
INVARIANT RegionsApart
INVARIANT SendRegionIntact
INVARIANT RefusedOnlyWhenHalfFull
PROPERTY SentExactly
PROPERTY ImplementsByteQueue
