CONSTANTS
  NEntries = 2
  Window = 8
  Lines = {8, 9, 10, 11}
SPECIFICATION ScenarioSpec
INVARIANT PrefetchByThirdAccess
CHECK_DEADLOCK FALSE
