SPECIFICATION Spec
CONSTANTS
  n1 = n1  n2 = n2  n3 = n3
  Node <- MCNode
  Road <- MCRoad
  Weight <- MCWeight
  Coord <- MCCoord
  DriverCount = 1
  Home <- MCHome
  Speed = 1
  Trip <- MCTrip
  MaxOrders = 1
PROPERTIES DeliveredAtDestination
