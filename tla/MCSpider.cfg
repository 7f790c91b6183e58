SPECIFICATION MCSpec
CONSTANTS
  Ports = {p1, p2}
  Clients = {c1, c2, c3}
  Units = {u1, u2}
  Size = 3
  MaxShips = 3
  MaxLetters = 2
  AcceptMayFail = TRUE
SYMMETRY Symmetric
CHECK_DEADLOCK FALSE
INVARIANTS
  TypeOK
  UnitsAnswered
  SelectableAreOpen
  InboundWithinMaxShips
