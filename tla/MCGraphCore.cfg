CONSTANTS
  NEntries = 2
  Latency = 1
  MemLatency = {2}
  HasEvRec = TRUE
  Null = Null
  RunAhead = FALSE
  Wild = Wild
  Degree <- MCDegree

SPECIFICATION Spec

INVARIANT TypeOK
INVARIANT NoFault
INVARIANT HeadIsNextNeighbour
INVARIANT EdgeAfterOwnOffset
INVARIANT NoLeakedEvent

PROPERTY Quiescent
PROPERTY PipelineRefinement
