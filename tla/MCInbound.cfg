SPECIFICATION MCSpec
CONSTANTS
  Keys = {1, 2}
  MaxLength = 2
  MaxEvents = 7
CHECK_DEADLOCK FALSE
INVARIANTS TourHasEnd DeathsExplained Answered
