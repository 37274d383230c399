CONSTANTS
  Cap = 12
  N = 6
  PortIds <- MCPortIds
  MaxPorts = 2
  QDepth = 2
  HeapSize = 8
  IsrGrant = 128
  HostScripts <- MCHostScripts
  UserData <- MCUserData
  SendSrcs <- MCSendSrcs
  RecvLens <- MCRecvLens
  MaxSends = 2
SPECIFICATION Spec
INVARIANT TypeOK
INVARIANT EgressIntegrity
