\* Several chunks per port, recv splitting them, deque and heap at their limits.
CONSTANTS
  Cap = 12
  N = 6
  PortIds <- MCPortIds
  MaxPorts = 2
  QDepth = 2
  HeapSize = 4
  IsrGrant = 128
  HostScripts <- MCFifoScripts
  UserData <- MCUserData
  SendSrcs <- MCSendSrcs
  RecvLens <- MCRecvLens
  MaxSends = 0
SPECIFICATION Spec
INVARIANT PortFifo
\* A split that finds the heap full panics (defmt::unwrap!), and a
\* panicked kernel runs nothing more.
CHECK_DEADLOCK FALSE
