CONSTANT Window = 4
SPECIFICATION BridgeSpec
INVARIANTS SamplesThePin
CHECK_DEADLOCK FALSE
