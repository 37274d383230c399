CONSTANTS
  IdataLen = 200
  BufSamples = 1024
  Iters = 80
SPECIFICATION Spec
INVARIANT TypeOK
INVARIANT StreamContinuous
CHECK_DEADLOCK FALSE
