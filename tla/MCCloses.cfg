SPECIFICATION MCSpec
CONSTANTS
  Port1 = p1
  Clients = {c1, c2}
  Unit1 = u1
  Ship1 = s1
  Tour1 = t1
  Tour2 = t2
  NoShip = NoShip
  NoTour = NoTour
CHECK_DEADLOCK FALSE
PROPERTIES
  CloseCompletes
  ClosedShipsEnd
