SPECIFICATION MCSpec
CONSTANTS
  Streams = {s1, s2}
  Conns = {c1, c2}
  MaxRequests = 2
  MaxTours = 1
  Buffer = 1
  MaxChunks = 2
  MaxLength = 1
  MaxEvents = 3
  MaxTaxis = 2
  MaxLines = 3
  NumRequests = 2
  MaxFaults = 1
SYMMETRY Symmetry
CHECK_DEADLOCK FALSE
INVARIANTS
  StreamsServed
  RecordsAnswered
  LogKept
  Started
  Pooled
PROPERTIES
  ThreadDeathsExplained
