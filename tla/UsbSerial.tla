------------------------------- MODULE UsbSerial ------------------------------
(***************************************************************************)
(* The Port Multiplexer of the USB-serial driver and the interrupt handler *)
(* it shares two rings with (src/firmware/kernel/src/drivers/              *)
(* usb_serial.rs).                                                         *)
(*                                                                         *)
(*   host --USB--> UsbUartIsr::poll --UART_INC--> UsbUartSys::process      *)
(*        --> Accumulator::feed --> decode --> per-port queues --> recv    *)
(*   send --UART_OUT--> UsbUartIsr::poll --USB--> host                     *)
(*                                                                         *)
(* The interrupt handler (RTIC task usb_tick, priority 3) preempts the     *)
(* cooperative context, so each poll() is one atomic step.  The trait      *)
(* methods process, recv, send, register_port and release_port run in the *)
(* cooperative context and never interleave with each other; each is one  *)
(* atomic step too (see README for what this leaves out).                  *)
(*                                                                         *)
(* Data: the host sends a script of messages; every payload byte of        *)
(* message k is the value k, so a byte names its message.  User sends use *)
(* the values of UserData.  The sportty codec is an external crate: Encode *)
(* keeps its length (payload + 4 for payload < 252: COBS code byte, two    *)
(* port bytes, sentinel) and Decode accepts exactly what Encode produces.  *)
(***************************************************************************)
EXTENDS AccFeed, BBQueue, FiniteSets

LOCAL INSTANCE SequencesExt

CONSTANTS
  PortIds,     \* the u16 port ids the model uses; 0 is the stdio port
  MaxPorts,    \* LinearMap capacity of the port registry (8)
  QDepth,      \* Deque capacity of a port queue (16)
  HeapSize,    \* bytes the heap can hand out to chunks
  IsrGrant,    \* bytes poll() asks of UART_INC per call (128)
  HostScripts, \* the possible scripts of the host: sequences of [port, len]
  UserData,    \* payload values of user sends
  SendSrcs,    \* the buffers a user send may pass
  RecvLens,    \* the destination lengths a user recv may pass
  MaxSends     \* bound on the number of user send calls

ASSUME PortAssumption == 0 \in PortIds /\ PortIds \subseteq Nat
ASSUME LimitAssumption ==
  /\ MaxPorts \in Nat \ {0} /\ QDepth \in Nat \ {0}
  /\ HeapSize \in Nat /\ IsrGrant \in Nat \ {0} /\ MaxSends \in Nat
ASSUME DataAssumption2 ==
  /\ UserData \subseteq Nat \ {Sentinel}
  /\ SendSrcs \subseteq Seq(UserData)
  /\ RecvLens \subseteq Nat

VARIABLES
  inc,        \* UART_INC: producer in poll(), consumer in process()
  out,        \* UART_OUT: producer in send(), consumer in poll()
  acc,        \* buf[..idx] of the Accumulator
  registered, \* the keys of the ports LinearMap
  queue,      \* queue[p]: the chunks (HeapArrays) of port p, front first
  heapUsed,   \* heap bytes held by queued chunks
  panicked,   \* the kernel has panicked
  script,     \* the messages the host sends (never changes)
  hostTx,     \* wire bytes the host has not yet handed to the device
  hostRx,     \* wire bytes the host has received
  ingested,   \* ghost: payload bytes pushed on the queue of each port
  rx,         \* ghost: bytes recv has returned for each port
  accepted,   \* ghost: bytes of each port that send reported as sent
  sends,      \* ghost: number of user send calls so far
  lastSend    \* ghost: the last user send call and its result

vars == <<inc, out, acc, registered, queue, heapUsed, panicked, script,
          hostTx, hostRx, ingested, rx, accepted, sends, lastSend>>

-----------------------------------------------------------------------------
(***************************************************************************)
(* The wire format (sportty Message, spec section 6).                      *)
(***************************************************************************)
CobsCode == 255
PortSym(p) == 1000 + p
HostData(k) == k
Payload == {HostData(k) : k \in DOMAIN script} \cup UserData

\* max_encoding_length(n), equal to the encoded length for n < 252.
EncLen(n) == n + 4

Encode(p, d) == <<CobsCode, PortSym(p), PortSym(p)>> \o d \o <<Sentinel>>

\* Message::decode_in_place on a frame that ends in the sentinel.
Decode(f) ==
  IF /\ Len(f) >= 4
     /\ f[1] = CobsCode /\ f[2] = f[3]
     /\ \E p \in PortIds : f[2] = PortSym(p)
     /\ \A i \in 4..(Len(f) - 1) : f[i] \in Payload
  THEN [ok |-> TRUE, port |-> f[2] - 1000, data |-> SubSeq(f, 4, Len(f) - 1)]
  ELSE [ok |-> FALSE, port |-> 0, data |-> <<>>]

\* The payload of the k-th message of the script.
MsgData(k) == [i \in 1..script[k].len |-> HostData(k)]

\* The wire bytes of the whole script.
ScriptWire(sc) ==
  LET w[i \in 0..Len(sc)] ==
        IF i = 0 THEN <<>>
        ELSE w[i - 1] \o Encode(sc[i].port, [j \in 1..sc[i].len |-> HostData(i)])
  IN  w[Len(sc)]

-----------------------------------------------------------------------------
(***************************************************************************)
(* The cooperative context works on a record of the state it owns; the     *)
(* loops of process, recv and send are bounded iterations over it.         *)
(***************************************************************************)
Coop == [inc |-> inc, out |-> out, acc |-> acc, queue |-> queue,
         heapUsed |-> heapUsed, panicked |-> panicked,
         ingested |-> ingested, accepted |-> accepted]

\* Mutant: the remaining bytes advanced one short (the last byte re-sent).
SendStepResend(st, port) ==
  LET g == GrantMaxRemaining(st.s.out, EncLen(Len(st.rem)))
      toUse == MinNat(g.len - 4, Len(st.rem))
      now == SubSeq(st.rem, 1, toUse)
  IN  CASE st.done \/ st.rem = <<>> -> [st EXCEPT !.done = TRUE]
        [] ~g.ok -> [st EXCEPT !.done = TRUE]
        [] g.len <= 2 + 1 + 1 ->
             [st EXCEPT !.s.out = Commit(st.s.out, g, <<>>), !.done = TRUE]
        [] EncLen(toUse) > g.len ->
             [st EXCEPT !.s.panicked = TRUE, !.done = TRUE]
        [] OTHER ->
             [st EXCEPT !.s.out = Commit(st.s.out, g, Encode(port, now)),
                        !.rem = SubSeq(st.rem, toUse, Len(st.rem))]

(***************************************************************************)
(* One pass of the loop of UsbUartSys::send: grant_max_remaining for the   *)
(* encoded length of what remains; a failed or too short (<= 4 bytes)      *)
(* grant ends the call with the remaining bytes (a dropped grant commits   *)
(* nothing); otherwise as much as fits is encoded and committed.           *)
(***************************************************************************)
SendStep(st, port) ==
  LET g == GrantMaxRemaining(st.s.out, EncLen(Len(st.rem)))
      toUse == MinNat(g.len - 4, Len(st.rem))
      now == SubSeq(st.rem, 1, toUse)
  IN  CASE st.done \/ st.rem = <<>> -> [st EXCEPT !.done = TRUE]
        [] ~g.ok -> [st EXCEPT !.done = TRUE]
        [] g.len <= 2 + 1 + 1 ->
             [st EXCEPT !.s.out = Commit(st.s.out, g, <<>>), !.done = TRUE]
        [] EncLen(toUse) > g.len ->
             [st EXCEPT !.s.panicked = TRUE, !.done = TRUE]
        [] OTHER ->
             [st EXCEPT !.s.out = Commit(st.s.out, g, Encode(port, now)),
                        !.rem = SubSeq(st.rem, toUse + 1, Len(st.rem))]

(***************************************************************************)
(* UsbUartSys::send(port, src) on a registered port: the loop, then the    *)
(* result Ok (rem empty) or Err(rem).  The ghost accepted[port] records    *)
(* the bytes the result says were sent: src without the returned suffix.   *)
(***************************************************************************)
SendCall(s, port, src) ==
  LET loop[i \in 0..(Len(src) + 2)] ==
        IF i = 0 THEN [s |-> s, rem |-> src, done |-> FALSE]
        ELSE SendStep(loop[i - 1], port)
      r == loop[Len(src) + 2]
  IN  [s |-> [r.s EXCEPT !.accepted[port] =
                 @ \o SubSeq(src, 1, Len(src) - Len(r.rem))],
       rem |-> r.rem]

(***************************************************************************)
(* A decoded frame in process(): port 0 is looped back with send(0, ..)    *)
(* whose result is ignored; then the payload is copied into a fresh heap   *)
(* chunk pushed on the port's queue.  An unknown port, a failed allocation *)
(* or a full queue drop the message.                                       *)
(***************************************************************************)
Ingest(s, port, data) ==
  IF /\ port \in registered
     /\ s.heapUsed + Len(data) <= HeapSize
     /\ Len(s.queue[port]) < QDepth
  THEN [s EXCEPT !.queue[port] = Append(@, data),
                 !.heapUsed = @ + Len(data),
                 !.ingested[port] = @ \o data]
  ELSE s

Dispatch(s, frame) ==
  LET m == Decode(frame)
      s1 == IF m.port = 0 THEN SendCall(s, 0, m.data).s ELSE s
  IN  IF m.ok THEN Ingest(s1, m.port, m.data) ELSE s

(***************************************************************************)
(* One pass of the inner loop of process(): feed the window.  Ok(None)     *)
(* leaves window as it is, as the code does; NoRoomNoRem ends the inner    *)
(* loop (continue 'outer); NoRoomWithRem goes on with the remainder.       *)
(***************************************************************************)
FeedStep(st) ==
  LET r == Feed(st.s.acc, st.window) IN
  IF st.exit \/ st.window = <<>> THEN [st EXCEPT !.exit = TRUE]
  ELSE CASE r.res = "Panic" ->
              [st EXCEPT !.s.panicked = TRUE, !.exit = TRUE]
         [] r.res = "Frame" ->
              [st EXCEPT !.s = Dispatch([st.s EXCEPT !.acc = r.buf], r.frame),
                         !.window = r.rest]
         [] r.res = "None" -> [st EXCEPT !.s.acc = r.buf]
         [] r.res = "NoRoomWithRem" ->
              [st EXCEPT !.s.acc = r.buf, !.window = r.rest]
         [] OTHER -> [st EXCEPT !.s.acc = r.buf, !.exit = TRUE]

\* One pass of the outer loop of process(): a read grant, fed, released.
ProcessGrant(s) ==
  LET len == ReadLen(s.inc)
      fuel == len + N + 2
      loop[i \in 0..fuel] ==
        IF i = 0 THEN [s |-> [s EXCEPT !.inc = ReadStart(s.inc)],
                       window |-> ReadWindow(s.inc), exit |-> FALSE]
        ELSE FeedStep(loop[i - 1])
      r == loop[fuel].s
  IN  IF s.panicked \/ len = 0 THEN [s EXCEPT !.inc = ReadStart(s.inc)]
      ELSE IF r.panicked THEN r
      ELSE [r EXCEPT !.inc = Release(r.inc, len)]

\* UsbUartSys::process: read grants until read() fails (at most two).
ProcessAll(s) == ProcessGrant(ProcessGrant(ProcessGrant(s)))

\* Mutants of the split branch of recv: the remainder is pushed on the back
\* of the deque (RecvStepBack), or the fresh chunk is not counted on the
\* heap (RecvStepLeak).
RecvSplit(st, port, len, from, realloc, front) ==
  LET q == st.s.queue[port]
      c == Head(q)
      avail == len - st.used
      later == SubSeq(c, from, Len(c))
  IN  CASE st.done \/ st.used >= len -> [st EXCEPT !.done = TRUE]
        [] q = <<>> -> [st EXCEPT !.done = TRUE]
        [] Len(c) <= avail ->
             [st EXCEPT !.s.queue[port] = Tail(q),
                        !.s.heapUsed = @ - Len(c),
                        !.got = @ \o c,
                        !.used = @ + Len(c)]
        [] st.s.heapUsed + Len(later) > HeapSize ->
             [st EXCEPT !.s.panicked = TRUE, !.done = TRUE]
        [] OTHER ->
             [st EXCEPT !.s.queue[port] = IF front THEN <<later>> \o Tail(q)
                                          ELSE Append(Tail(q), later),
                        !.s.heapUsed = @ - Len(c) + realloc * Len(later),
                        !.got = @ \o SubSeq(c, 1, avail),
                        !.used = @ + avail]
RecvStepBack(st, port, len) ==
  RecvSplit(st, port, len, len - st.used + 1, 1, FALSE)
RecvStepLeak(st, port, len) ==
  RecvSplit(st, port, len, len - st.used + 1, 0, TRUE)

(***************************************************************************)
(* One pass of the loop of recv: pop the front chunk; if it fits the rest  *)
(* of dest it is copied whole, otherwise its prefix is copied and the rest *)
(* is copied into a fresh chunk (allocated while the popped one is still   *)
(* held; defmt::unwrap! panics if that fails) pushed back on the front.    *)
(***************************************************************************)
RecvStep(st, port, len) ==
  LET q == st.s.queue[port]
      c == Head(q)
      avail == len - st.used
      later == SubSeq(c, avail + 1, Len(c))
  IN  CASE st.done \/ st.used >= len -> [st EXCEPT !.done = TRUE]
        [] q = <<>> -> [st EXCEPT !.done = TRUE]
        [] Len(c) <= avail ->
             [st EXCEPT !.s.queue[port] = Tail(q),
                        !.s.heapUsed = @ - Len(c),
                        !.got = @ \o c,
                        !.used = @ + Len(c)]
        [] st.s.heapUsed + Len(later) > HeapSize ->
             [st EXCEPT !.s.panicked = TRUE, !.done = TRUE]
        [] OTHER ->
             [st EXCEPT !.s.queue[port] = <<later>> \o Tail(q),
                        !.s.heapUsed = @ - Len(c) + Len(later),
                        !.got = @ \o SubSeq(c, 1, avail),
                        !.used = @ + avail]

RecvLoop(s, port, len) ==
  LET loop[i \in 0..(QDepth + 2)] ==
        IF i = 0 THEN [s |-> s, got |-> <<>>, used |-> 0, done |-> FALSE]
        ELSE RecvStep(loop[i - 1], port, len)
  IN  loop[QDepth + 2]

\* Assign the cooperative state from a record.
SetCoop(s) ==
  /\ inc' = s.inc
  /\ out' = s.out
  /\ acc' = s.acc
  /\ queue' = s.queue
  /\ heapUsed' = s.heapUsed
  /\ panicked' = s.panicked
  /\ ingested' = s.ingested
  /\ accepted' = s.accepted

-----------------------------------------------------------------------------
NoSend == [port |-> 0, src |-> <<>>, rem |-> <<>>, outEmpty |-> FALSE]

\* setup_usb_uart: both rings empty, port 0 mapped, the accumulator empty.
Init ==
  /\ inc = EmptyRing
  /\ out = EmptyRing
  /\ acc = <<>>
  /\ registered = {0}
  /\ queue = [p \in PortIds |-> <<>>]
  /\ heapUsed = 0
  /\ panicked = FALSE
  /\ script \in HostScripts
  /\ hostTx = ScriptWire(script)
  /\ hostRx = <<>>
  /\ ingested = [p \in PortIds |-> <<>>]
  /\ rx = [p \in PortIds |-> <<>>]
  /\ accepted = [p \in PortIds |-> <<>>]
  /\ sends = 0
  /\ lastSend = NoSend

(***************************************************************************)
(* UsbUartIsr::poll.  If UART_OUT has a read grant, the USB port takes sz  *)
(* of its bytes (sz = 0: WouldBlock, the grant is dropped).  Then, if      *)
(* UART_INC grants up to IsrGrant bytes, the USB port delivers k of the    *)
(* host's pending bytes (k = 0: nothing to read, the grant is dropped).    *)
(***************************************************************************)
IsrPoll(sz, k) ==
  LET olen == ReadLen(out)
      g == GrantMaxRemaining(inc, IsrGrant)
  IN  /\ ~panicked
      /\ sz \in 0..olen
      /\ k \in 0..(IF g.ok THEN MinNat(g.len, Len(hostTx)) ELSE 0)
      /\ out' = IF sz > 0 THEN Release(out, sz) ELSE ReadStart(out)
      /\ hostRx' = hostRx \o SubSeq(ReadWindow(out), 1, sz)
      /\ inc' = IF g.ok THEN Commit(inc, g, SubSeq(hostTx, 1, k)) ELSE inc
      /\ hostTx' = SubSeq(hostTx, k + 1, Len(hostTx))
      /\ UNCHANGED <<acc, registered, queue, heapUsed, panicked, script,
                     ingested, rx, accepted, sends, lastSend>>

\* UsbUartSys::process, called on its own.
Process ==
  /\ ~panicked
  /\ SetCoop(ProcessAll(Coop))
  /\ UNCHANGED <<registered, script, hostTx, hostRx, rx, sends, lastSend>>

(***************************************************************************)
(* UsbUartSys::recv(port, buf[..len]): process() first, then Err for an    *)
(* unregistered port, else the copy loop.                                  *)
(***************************************************************************)
Recv(port, len) ==
  LET s == ProcessAll(Coop)
      r == RecvLoop(s, port, len)
  IN  /\ ~panicked
      /\ IF port \in registered /\ ~s.panicked
           THEN /\ SetCoop(r.s)
                /\ rx' = [rx EXCEPT ![port] = @ \o r.got]
           ELSE /\ SetCoop(s)
                /\ UNCHANGED rx
      /\ UNCHANGED <<registered, script, hostTx, hostRx, sends, lastSend>>

\* UsbUartSys::send(port, src) from the user, on a registered port.
Send(port, src) ==
  LET r == SendCall(Coop, port, src) IN
  /\ ~panicked
  /\ sends < MaxSends
  /\ port \in registered
  /\ SetCoop(r.s)
  /\ sends' = sends + 1
  /\ lastSend' = [port |-> port, src |-> src, rem |-> r.rem,
                  outEmpty |-> out.q = <<>>]
  /\ UNCHANGED <<registered, script, hostTx, hostRx, rx>>

\* UsbUartSys::register_port: fails if present or the map is full.
RegisterPort(port) ==
  /\ ~panicked
  /\ port \notin registered
  /\ Cardinality(registered) < MaxPorts
  /\ registered' = registered \cup {port}
  /\ queue' = [queue EXCEPT ![port] = <<>>]
  /\ UNCHANGED <<inc, out, acc, heapUsed, panicked, script, hostTx, hostRx,
                 ingested, rx, accepted, sends, lastSend>>

(***************************************************************************)
(* UsbUartSys::release_port: fails for port 0 and unknown ports; removing *)
(* the entry drops its deque and frees every queued chunk.                 *)
(***************************************************************************)
ReleasePort(port) ==
  /\ ~panicked
  /\ port # 0
  /\ port \in registered
  /\ registered' = registered \ {port}
  /\ heapUsed' = heapUsed - Len(FlattenSeq(queue[port]))
  /\ queue' = [queue EXCEPT ![port] = <<>>]
  /\ ingested' = [ingested EXCEPT ![port] = <<>>]
  /\ rx' = [rx EXCEPT ![port] = <<>>]
  /\ UNCHANGED <<inc, out, acc, panicked, script, hostTx, hostRx, accepted,
                 sends, lastSend>>

Next ==
  \/ \E sz \in 0..Cap, k \in 0..MinNat(IsrGrant, Cap) : IsrPoll(sz, k)
  \/ Process
  \/ \E p \in PortIds, len \in RecvLens : Recv(p, len)
  \/ \E p \in PortIds, src \in SendSrcs : Send(p, src)
  \/ \E p \in PortIds : RegisterPort(p)
  \/ \E p \in PortIds : ReleasePort(p)

Spec == Init /\ [][Next]_vars

(***************************************************************************)
(* The USB host keeps reading the IN endpoint of a configured device, so   *)
(* while UART_OUT holds data the USBD interrupt keeps firing usb_tick and  *)
(* ser.write eventually takes a non-empty part of the read grant.  No      *)
(* fairness is given to process or recv: nothing in main.rs calls them.    *)
(***************************************************************************)
HostReads == \E sz \in 1..Cap, k \in 0..MinNat(IsrGrant, Cap) : IsrPoll(sz, k)

FairSpec == Spec /\ WF_vars(HostReads)

-----------------------------------------------------------------------------
TypeOK ==
  /\ inc \in Ring /\ out \in Ring
  /\ acc \in Seq(Nat)
  /\ registered \subseteq PortIds
  /\ queue \in [PortIds -> Seq(Seq(Nat))]
  /\ heapUsed \in 0..HeapSize
  /\ panicked \in BOOLEAN
  /\ hostTx \in Seq(Nat) /\ hostRx \in Seq(Nat)
  /\ ingested \in [PortIds -> Seq(Nat)]
  /\ rx \in [PortIds -> Seq(Nat)]
  /\ accepted \in [PortIds -> Seq(Nat)]
  /\ sends \in 0..MaxSends

(***************************************************************************)
(* Port FIFO ordering (spec section 8): for every registered port, what    *)
(* recv has returned followed by what is still queued is exactly what the  *)
(* ingestion path pushed, in order, with nothing lost or duplicated,       *)
(* whatever destination lengths recv was given (chunk splitting and the    *)
(* push back to the front).                                                *)
(***************************************************************************)
PortFifo ==
  \A p \in registered : rx[p] \o FlattenSeq(queue[p]) = ingested[p]

(***************************************************************************)
(* The host's view of the outbound link: the frames it has received,       *)
(* followed by those still in UART_OUT, decode without error, end on a    *)
(* frame boundary, and carry for every port exactly the bytes that send    *)
(* calls (user sends and the port-0 loopback of process) reported as sent: *)
(* no byte committed twice, none lost, none reported sent but not          *)
(* committed, across ring wraparound and partial USB writes.               *)
(***************************************************************************)
WireData(w) ==
  LET f[i \in 0..Len(w)] ==
        IF i = 0 THEN [d |-> [p \in PortIds |-> <<>>], cur |-> <<>>, bad |-> FALSE]
        ELSE IF w[i] # Sentinel THEN [f[i - 1] EXCEPT !.cur = Append(@, w[i])]
        ELSE LET m == Decode(Append(f[i - 1].cur, Sentinel)) IN
             [d |-> IF m.ok THEN [f[i - 1].d EXCEPT ![m.port] = @ \o m.data]
                    ELSE f[i - 1].d,
              cur |-> <<>>,
              bad |-> f[i - 1].bad \/ ~m.ok]
  IN  f[Len(w)]

EgressIntegrity ==
  LET wd == WireData(hostRx \o out.q) IN
  /\ ~wd.bad
  /\ wd.cur = <<>>
  /\ \A p \in PortIds : wd.d[p] = accepted[p]

(***************************************************************************)
(* Frames are reassembled across read grants (spec 4.3: process() feeds    *)
(* each grant until its window is exhausted; spec 8, chunk invariance):    *)
(* once the host has sent everything and UART_INC is drained, the stdio    *)
(* port has received every message the host addressed to it whose frame   *)
(* fits the accumulator, in order, provided queue and heap have room.      *)
(***************************************************************************)
ExpectedIngest(p) ==
  LET e[i \in 0..Len(script)] ==
        IF i = 0 THEN <<>>
        ELSE IF script[i].port = p /\ EncLen(script[i].len) <= N
             THEN e[i - 1] \o MsgData(i) ELSE e[i - 1]
  IN  e[Len(script)]

Quiescent == hostTx = <<>> /\ inc.q = <<>>

IngressComplete == Quiescent /\ ~panicked => ingested[0] = ExpectedIngest(0)

(***************************************************************************)
(* The kernel never panics: neither feed() on what the host sends, nor     *)
(* the allocation recv makes for the rest of a split chunk, nor the        *)
(* encode in send.                                                         *)
(***************************************************************************)
NoPanic == ~panicked

(***************************************************************************)
(* send tolerates wraparound (spec 4.1, 4.3): a send of a non-empty buffer *)
(* made while UART_OUT holds no data at all, so that the whole ring is     *)
(* free, does not hand back its whole input as unsendable.                 *)
(***************************************************************************)
EgressNoStall ==
  lastSend.outEmpty /\ lastSend.src # <<>> => lastSend.rem # lastSend.src

(***************************************************************************)
(* Egress drains (spec 4.3: poll moves UART_OUT to the host): whatever     *)
(* send has committed to UART_OUT eventually reaches the host, across the  *)
(* ring's wraparound and partial USB writes, if the host keeps reading.    *)
(***************************************************************************)
EgressDrains == out.q # <<>> ~> out.q = <<>>

=============================================================================
