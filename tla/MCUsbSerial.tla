---------------------------- MODULE MCUsbSerial ----------------------------
(***************************************************************************)
(* Model-checking instance of UsbSerial: 12-byte rings (both wrap), a     *)
(* 6-byte accumulator (a 2-byte payload frame just fits), ports 0 and 1,   *)
(* and a host that sends one message to each.  The FIFO run sends three   *)
(* messages, two or three to port 1.  The violation runs use 8-byte rings. *)
(***************************************************************************)
EXTENDS UsbSerial

MCPortIds == {0, 1}
MCUserData == {21, 22}
MCSendSrcs == {<<21>>, <<21, 22>>}
MCRecvLens == {1, 2}
\* recv destination of one byte: the egress run needs recv only to drain queues.
MCLiveRecvLens == {1}
MCHostScripts == { <<[port |-> 0, len |-> 1], [port |-> 1, len |-> 2]>> }
\* One message to the stdio port, two bytes of payload (a 6-byte frame).
MCStdioScripts == { <<[port |-> 0, len |-> 2]>> }
\* Three messages to port 1: the queue holds two chunks while recv splits
\* the first, and the third meets a full deque.  Or two chunks on ports 1
\* and 0 fill the heap and a third message to port 1 is dropped.
MCFifoScripts ==
  { <<[port |-> 1, len |-> 2], [port |-> 1, len |-> 1], [port |-> 1, len |-> 1]>>,
    <<[port |-> 1, len |-> 2], [port |-> 0, len |-> 2], [port |-> 1, len |-> 1]>> }
=============================================================================
