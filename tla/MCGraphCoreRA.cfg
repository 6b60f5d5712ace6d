CONSTANTS
  NEntries = 2
  Latency = 1
  MemLatency = {2}
  HasEvRec = TRUE
  Null = Null
  RunAhead = TRUE
  Wild = Wild
  Degree <- MCDegree

SPECIFICATION Spec

INVARIANT EdgeAfterOwnOffset
