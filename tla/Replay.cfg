SPECIFICATION ReplaySpec
CONSTANTS
  n1 = n1  n2 = n2  n3 = n3  n4 = n4
  Node <- MCNode
  Road <- MCRoad
  Weight <- MCWeight
  Coord <- MCCoord
  DriverCount = 2
  Home <- MCHome
  Speed = 1
  Trip <- MCTrip
  MaxOrders = 2
INVARIANTS ReplayAgrees
