SPECIFICATION Spec
CONSTANTS
  Tours = {t1, t2}
  Buffer = 1
  FileLen = 3
  BodyLen = 2
  MaxChunk = 2
  MaxGrowth = 1
  MaxFailures = 1
CHECK_DEADLOCK FALSE
INVARIANTS
  Accounted
  NoLostResume
PROPERTIES
  TransfersEnd
