SPECIFICATION FairSpec
CONSTANTS
  Item = {a, b}
  DepthLog2 = 2
  ByteBits = 2
  MaxPayload = 2
  CounterEnd = 4
  Data = {0, 1}
  Channels = {1}
  Longest = 4
  BeatBytes = 8
  FramesPerTransfer = 2
PROPERTIES ImplementsBoundedFifo RoomReturns ImplementsPacketLink ImplementsTransferQueue
