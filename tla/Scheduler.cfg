SPECIFICATION BusySpec
CONSTANTS
  SleepEvery = 2
  TxQueue = 1
  FeedSteps = 1
  MaxFrames = 1
  MaxRequests = 3
INVARIANTS NobodySpins
PROPERTIES RequestsServed MaintenanceRuns
