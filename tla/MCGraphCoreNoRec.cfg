CONSTANTS
  NEntries = 2
  Latency = 1
  MemLatency = {2}
  HasEvRec = FALSE
  Null = Null
  Wild = Wild
  RunAhead = FALSE
  Degree <- MCDegree

SPECIFICATION Spec

PROPERTY NoWildRelease
