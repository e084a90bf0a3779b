SPECIFICATION PatternSpec
CONSTANTS
  ByteBits = 4
  FrameBytes = 6
  Data = {0, 5, 7, 8, 9, 10, 11, 15}
  Expected = 1
  LossEnd = 2
PROPERTY PatternLocks
