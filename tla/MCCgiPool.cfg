SPECIFICATION MCSpec
CONSTANTS
  NumRequests = 4
  NumTours = 4
  d1 = d1
  d2 = d2
  Dockers = {d1, d2}
  MaxProcesses = 1
  PipeSize = 1
  BodyLen = 2
  OutLen = 1
  MaxSpawnFails = 1
CHECK_DEADLOCK FALSE
INVARIANTS
  SlotsKept
  AnswersOwn
  NothingLeftUndone
