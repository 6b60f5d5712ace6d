CONSTANTS
  Cores = {c1, c2}
  PhaseLength = 2
  LineBits = 2
  Blocks <- MCBlocks
  ICacheLat = {0, 2}
  DCacheLat = {1}
  CanSwitch = TRUE
SPECIFICATION Spec
INVARIANTS TypeOK LockStep CaughtUp NoFetchPastBlock
PROPERTIES BarrierReleases
