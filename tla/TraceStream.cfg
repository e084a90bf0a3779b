SPECIFICATION Spec
CONSTANTS
  ByteBits = 2
  MaxPayload = 2
  CounterEnd = 8
  Data = {0, 1}
  IdleCycles = 2
INVARIANTS FrameIsReference NothingStranded
PROPERTIES ImplementsChannelQueue
