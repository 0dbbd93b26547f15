SPECIFICATION RelaySpec
CONSTANTS
  Client = {c1}
  ChannelCap = 1
  SubCap = 1
  MaxEvents = 4
INVARIANTS NoHoleAfterSnapshot ChangesOnlyMoveForward StopsDrained
PROPERTIES StreamFlows StreamStops
CHECK_DEADLOCK FALSE
