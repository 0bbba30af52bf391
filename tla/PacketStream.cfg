SPECIFICATION Spec
CONSTANTS
  mCapacity = 8
  MaxChunk = 8
  HEADER_SIZE = 2
  Packets = 3
  Bytes <- StreamPositions
  Streams <- ShortOrLong
  Types <- OneType
INVARIANT StreamTypeOK
INVARIANT RecvRegionFree
INVARIANT StreamKept
INVARIANT FramesInOrder
