CONSTANTS
  Bytes <- MCBytes
  MaxPayload = 5
  Accepted <- MCAccepted
  Frames <- AllFrames
  GoodFrames <- MCGoodFrames
  PoolSize = 4
  MaxSent = 2
  MaxConnections = 2
SPECIFICATION FairSpec
INVARIANTS DecoderHasRoom PoolAccounted
PROPERTIES ImplementsRequestService RequestsAnswered FeedReturns
CHECK_DEADLOCK FALSE
