\* Two user sends on an 8-byte UART_OUT that the interrupt handler drains.
CONSTANTS
  Cap = 8
  N = 6
  PortIds <- MCPortIds
  MaxPorts = 2
  QDepth = 2
  HeapSize = 8
  IsrGrant = 128
  HostScripts <- MCStdioScripts
  UserData <- MCUserData
  SendSrcs <- MCSendSrcs
  RecvLens <- MCRecvLens
  MaxSends = 2
SPECIFICATION Spec
INVARIANT EgressNoStall
