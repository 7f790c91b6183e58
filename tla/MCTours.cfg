SPECIFICATION Spec
CONSTANTS
  Ships = {s1, s2}
  Pool = {t1, t2}
  MaxTourIds = 3
  MaxShipIds = 3
  NoShip = NoShip
  NoTour = NoTour
CHECK_DEADLOCK FALSE
SYMMETRY Symmetry
INVARIANTS
  PoolConsistent
  ToursHaveEnds
  EndedOnce
