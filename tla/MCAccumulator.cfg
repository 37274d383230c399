\* Frames that fit the buffer, cut into windows in every possible way.
CONSTANTS
  N = 4
  Data <- MCData
  MaxStream = 8
  MaxRun = 3
  MaxWindow = 3
SPECIFICATION Spec
INVARIANT ChunkInvariance
INVARIANT NoPanic
\* The stream is finite: once it is consumed, the driver stops.
CHECK_DEADLOCK FALSE
