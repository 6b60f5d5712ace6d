CONSTANTS
  NEntries = 1
  Window = 6
  Lines <- MCLinesStride
SPECIFICATION Spec
INVARIANTS StrideDetected
