\* A frame that reaches UART_INC in two polls: is it reassembled by process()?
CONSTANTS
  Cap = 8
  N = 6
  PortIds <- MCPortIds
  MaxPorts = 2
  QDepth = 2
  HeapSize = 8
  IsrGrant = 128
  HostScripts <- MCStdioScripts
  UserData <- MCUserData
  SendSrcs <- MCSendSrcs
  RecvLens <- MCRecvLens
  MaxSends = 0
SPECIFICATION Spec
INVARIANT IngressComplete
