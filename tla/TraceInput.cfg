CONSTANTS
  Formats = {0, 1, 2, 3, 4}
  Stamps = 10
  ClockHz = 14
  Baud = 1
  DataBits = 2
  CounterEnd = 2
  Patience = 2
  ByteBits = 3
  FrameBytes = 6
  Data = {0, 3, 7}
  Expected = 1
  LossEnd = 2
SPECIFICATION Spec
INVARIANTS BytesOfTheWire SwoDecodes EmitsReference M3ChannelOnly
