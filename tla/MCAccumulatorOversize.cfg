\* Frames longer than the buffer, followed by a frame that fits.
CONSTANTS
  N = 4
  Data <- MCData
  MaxStream = 6
  MaxRun = 5
  MaxWindow = 5
SPECIFICATION Spec
INVARIANT ChunkInvariance
CHECK_DEADLOCK FALSE
