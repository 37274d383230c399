CONSTANTS
  Cap = 12
  N = 6
  PortIds <- MCPortIds
  MaxPorts = 2
  QDepth = 2
  HeapSize = 8
  IsrGrant = 128
  HostScripts <- MCStdioScripts
  UserData <- MCUserData
  SendSrcs <- MCSendSrcs
  RecvLens <- MCLiveRecvLens
  MaxSends = 2
SPECIFICATION FairSpec
PROPERTY EgressDrains
