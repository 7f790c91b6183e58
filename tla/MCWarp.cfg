SPECIFICATION MCSpec
CONSTANTS
  NumRequests = 3
  MaxShips = 2
  MaxFaults = 1
CHECK_DEADLOCK FALSE
INVARIANTS
  StoreKept
  AnswersMatch
  DeathsExplained
  NothingLeftUndone
PROPERTIES
  ImplementsPool
