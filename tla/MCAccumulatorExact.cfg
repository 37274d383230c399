\* A frame of exactly N payload bytes: the spec's scenario N = 4, "AB" then "CD\0".
CONSTANTS
  N = 4
  Data <- MCData
  MaxStream = 5
  MaxRun = 4
  MaxWindow = 3
SPECIFICATION Spec
INVARIANT NoPanic
CHECK_DEADLOCK FALSE
