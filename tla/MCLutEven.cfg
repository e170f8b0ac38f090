\* The code's table length is a power of two (LUT_SIZE = 2048): a skip
\* that shares a factor with it walks only part of the table.  Four slots
\* and two owners show it.
CONSTANTS
  LutLen = 4
  Lbs = 2
  BreakCounter = 2
SPECIFICATION Spec
CHECK_DEADLOCK FALSE
PROPERTIES LutTerminates
