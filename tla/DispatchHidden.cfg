SPECIFICATION DispatchSpec
CONSTANTS
  n1 = n1  n2 = n2  n3 = n3
  Node <- MCNode
  Road <- MCRoad
  Weight <- MCWeight
  Coord <- MCCoord
  DriverCount = 2
  Home <- MCHome
  Speed = 1
  Trip <- MCTrip
  MaxOrders = 4
  CellSize = 1
  CandidatesPerOrder = 1
  MinBatchSize = 3
  MaxWait = 2
  PickupWeight = 1
  WaitWeight = 1
  IdleBonus = 1
  MaxAge = 2
INVARIANT IdleDriversIndexed
