SPECIFICATION Spec
CONSTANTS
  Requests <- MCRequests
  MaxPacket = 9
  MaxTransfers = 2
  HalfPeriod = 2
  PollBudget = 9
  MaxReply = 11
INVARIANTS RepliesMatch
PROPERTIES PinsStable
