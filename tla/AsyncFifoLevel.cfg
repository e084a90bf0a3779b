SPECIFICATION FifoSpec
CONSTANTS
  Item = {a, b}
  DepthLog2 = 2
PROPERTY LevelMaxRisesByOne
