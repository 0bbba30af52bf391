SPECIFICATION Spec
CONSTANTS
  mCapacity = 8
  MaxChunk = 8
  HEADER_SIZE = 2
  Packets = 2
  Bytes <- StreamPositions
  Streams <- SmallStreams
  Types <- OneType
PROPERTY CompleteWhenHandled
