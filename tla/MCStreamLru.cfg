CONSTANTS
  NEntries = 2
  Window = 2
  Lines <- MCLinesLru
SPECIFICATION Spec
INVARIANTS TypeOK HitOnlyOnPrefetched
