SPECIFICATION ReceiversSpec
CONSTANTS
  BufferSize = 12
  Streams <- SomeStreams
  Racing = FALSE
  Resets = 1
  SizeModulus = 256
INVARIANTS ReceiversTypeOK FrameLenBounded JuneChunksDoNotMatter OnlyFramesHandled BytesMakeFrames NeverOverflows
CHECK_DEADLOCK FALSE
