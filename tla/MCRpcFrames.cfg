CONSTANTS
  DEFAULT_MAX_FRAME_BYTES = 3
  DEFAULT_MAX_REASSEMBLED_FRAME_BYTES = 6
  MAX_COUNT = 3
  MAX_PAYLOAD_BYTES = 2
  NegotiationBytes = 3
  Advertised <- MCAdvertised
  Shapes <- MCShapes
  PipeLines = 2
  MaxMessages = 4
  MaxFaults = 1
SPECIFICATION FairSpec
INVARIANTS TypeOK Untorn NothingLost TruncationReported
PROPERTY ReaderEnds
CHECK_DEADLOCK FALSE
