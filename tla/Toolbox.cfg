SPECIFICATION ToolboxSpec
CONSTANTS
  Images <- MCImages
  BramSize = 5
  ChunkSize = 2
  CheckSize = 2
  Counters <- MCCounters
  WordEnd = 2
  CounterEnd = 3
  MaxStale = 1
  Window = 3
  RingSize = 4
  Buffers = {b1, b2, b3, b4}
  Capacity = 2
  PollBudget = 1
  HalfEnd = 2
  Cycle = 5
  Spins = {3, 10}
  IdleEnd = 20
  FrameBytes = 5
  First = 5
  LastEvent = 16
  SyncAfter = {7}
  MaxLosses = 2
  M3Channel = 1
  OtherChannel = 5
  Text = {"a"}
  NewLine = "nl"
  Lead = "lead"
  Trail = "trail"
  Double = "w"
  Lost = "lost"
  Expects <- MCExpects
  FailOn = {"w"}
  Timeout = 1
  MaxText = 4
  Types = {1, 3}
  Links = {16, 20}
  Before <- MCBefore
  MaxFaults = 3
  Pdfs <- MCPdfs
  Versions = {1, 2}
  MaxRuns = 2
  Lines <- MCLines
  Ahead = 2
  MaxLines = 5
INVARIANTS ReleasedImageIsWhole StatsNearTheTruth CoreSightFollowsSource EngineKeepsToTheRing DecodesWhatWasSent GapsAreLosses VerdictRight NothingLeftBehind ReportsOneException SkipIsSafe TablesKeepWords
PROPERTIES InLockstep RingIsAQueue
CHECK_DEADLOCK FALSE
