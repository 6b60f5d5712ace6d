CONSTANTS
  Degree = 2
  latency = 1
  ParentLat = {2}
  RecOffsets = {1}
  Gaps = {0}
  Contention = 1
  Null = Null
  NoRec = NoRec
SPECIFICATION Spec
PROPERTY
  ContentionPropagates
