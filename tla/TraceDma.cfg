SPECIFICATION FairSpec
CONSTANTS
  Packets = {p1, p2, p3, p4}
  NoPacket = NoPacket
  BdCount = 2
  TxQueue = 2
  MaxFrames = 4
INVARIANTS ExclusiveOwnership NoPacketLeak DmaNeverWritesSentPacket DmaWritesItsSlot FramesInOrder
PROPERTY ThreadNeverStuck
