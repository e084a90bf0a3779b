CONSTANTS
  Bytes <- MCBytes
  MaxPayload = 5
  Accepted <- MCAccepted
  Frames <- AllFrames
  GoodFrames <- MCGoodFrames
  PoolSize = 3
  MaxSent = 2
  MaxConnections = 2
SPECIFICATION Spec
INVARIANT DecoderIsPerConnection
CHECK_DEADLOCK FALSE
