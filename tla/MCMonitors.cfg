SPECIFICATION Spec
CONSTANTS
  GrandAgents = 1
  PortAgents = 1
  MaxId = 3
  MaxCrashes = 1
  MaxCommands = 2
CHECK_DEADLOCK FALSE
INVARIANTS
  Staffing
  Watched
  FinaleReachesAll
PROPERTIES
  ToldAgentsEnd
  StaffedAgain
