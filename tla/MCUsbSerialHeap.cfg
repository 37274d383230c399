\* A heap just large enough for the queued chunks: recv splits a chunk.
CONSTANTS
  Cap = 8
  N = 6
  PortIds <- MCPortIds
  MaxPorts = 2
  QDepth = 2
  HeapSize = 2
  IsrGrant = 128
  HostScripts <- MCStdioScripts
  UserData <- MCUserData
  SendSrcs <- MCSendSrcs
  RecvLens <- MCRecvLens
  MaxSends = 0
SPECIFICATION Spec
INVARIANT NoPanic
