SPECIFICATION ReceiversSpec
CONSTANTS
  BufferSize = 12
  Streams <- FewStreams
  Racing = TRUE
  Resets = 1
  SizeModulus = 256
INVARIANTS FrameLenBounded
CHECK_DEADLOCK FALSE
