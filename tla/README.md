# Formal models of the pellegrino kernel's I/O core

This directory holds TLA+ models of three parts of the firmware, TLC configurations that check them on small instances, and TLAPS proofs of some of their properties for every instance:

- the USB-serial driver: `src/firmware/kernel/src/drivers/usb_serial.rs`;
- the userspace syscall handshake: `src/firmware/common/src/syscall/mod.rs`;
- the interrupt task of `src/firmware/kernel/src/main.rs` that connects them, and the audio streaming loop of its idle task.

`spec.md` at the repository root describes the design; the models are translated from the code, and the spec is used only where the code lives outside this repository.

## 1. The system

### Parts and how they interact

```
 host --USB--> UsbUartIsr::poll --UART_INC--> UsbUartSys::process --> Accumulator::feed
                 (interrupt, prio 3)   ring        (cooperative)            |
                                                                   sportty decode
                                                                         |
 host <--USB-- UsbUartIsr::poll <--UART_OUT-- UsbUartSys::send   per-port Deque<HeapArray>
                                   ring          ^     ^                 |
                                      port-0 loopback  user send       recv
```

**Ring Channel** (bbqueue `BBBuffer`, statics `UART_INC` and `UART_OUT`, `usb_serial.rs:13-15`). There are two single-producer/single-consumer byte rings with a write and read grant protocol.
- The interrupt side produces into UART_INC and consumes from UART_OUT.
- The cooperative side does the opposite.
- The crate is not part of this repository.

**Frame Accumulator** (`Accumulator<N>`, `usb_serial.rs:371-441`). A scratch buffer of N bytes and a cursor `idx`. `feed(window)` returns one of:
- a frame (everything up to the sentinel 0) and the remainder of the window;
- `Ok(None)`: the window was appended;
- an overflow error, with or without a remainder.

**Port Multiplexer** (`UsbUartSys`, `usb_serial.rs:76-337`). A `LinearMap` of at most 8 ports, each with a `Deque` of at most 16 heap chunks. Its operations:
- `register_port` and `release_port`.
- `process()`: drain UART_INC through the accumulator and decode each frame. Port 0 is looped back with `send(0, ..)`. The payload goes to the port's queue; allocation failures, full queues and unknown ports drop it.
- `recv(port, dest)`: `process()`, then pop chunks into `dest`. A chunk that does not fit is split, and the rest goes back to the front of the queue in a freshly allocated chunk.
- `send(port, src)`: loop over write grants of UART_OUT sized for the encoding of what remains. A failed grant, or one of at most 4 bytes, returns `Err(remaining)`.

**USB interrupt** (`UsbUartIsr::poll`, `usb_serial.rs:37-72`, called by the RTIC task `usb_tick`, `main.rs:279-282`, priority 3). It writes one read grant of UART_OUT to USB, releasing what the USB port took. It then reads up to 128 bytes from USB into a write grant of UART_INC.

**Syscall Channel** (`try_syscall` and `raw_syscall`, `mod.rs:305-366`). Serialise the request into a 128-byte buffer, then claim the slot with a compare-exchange on `SYSCALL_IN_PTR`. Next, publish the input length, output pointer and output length, and trap with `svc 0`. Finally, take the response length with `swap(0)` and reset OUT_PTR, IN_LEN and then IN_PTR. The SVCall handler itself is commented out in `main.rs:253-262` and lives outside this repository.

**Audio loop** (the end of `idle`, `main.rs:460-507`). It cycles the 200-sample sine table `idata` into 2048-byte heap buffers (1024 samples each) and offers each to the non-blocking SPIM driver after DREQ goes high.
- `Ok` counts the pass in `iters`.
- `Err(buf)` hands the buffer back. The loop restarts the transfer and keeps the buffer in `already_calcd` for the next pass.
- After 1000 accepted buffers the kernel exits.
- The driver (`nrf52_spim_nonblocking`) and the `spim3` task's `end_send` are not in this repository.

### Concurrency

The interrupt context preempts the cooperative context at any instruction. The two share only the two rings.
- The cooperative context never interleaves with itself: trait methods run to completion.
- So every `poll()` is one atomic step, and every cooperative method is one atomic step too.
- A preemption inside a method changes what the method sees only through a ring, since UART_INC's producer and UART_OUT's consumer belong to the interrupt side. Making each method one step means the interrupt never runs in the middle of one. That leaves out two interleavings:
  - process() re-reading a grant after the interrupt committed more bytes, listed in section 6;
  - send's loop taking a second write grant after the interrupt released UART_OUT bytes. The model's send sees UART_OUT as it was when the call began, so the interrupt cannot free space between two grants of one send. This is listed as a hazard with no property.

For the syscall channel, the spec (§5) assumes one caller at a time. The model lets any number of callers interleave at every atomic operation, since that is what the compare-exchange is there to survive.

### Inventory: state, operations, properties per part

| Part | State | Operations | What must hold |
|---|---|---|---|
| Ring Channel | r, w, last, committed bytes | grant_max_remaining, commit, read, release | the grant protocol, as used by the other parts |
| Accumulator | buf[..idx] | new, feed | never panics; chunk invariance (spec §8) |
| Port Multiplexer | port map, deques, heap, both ring halves, accumulator | setup, register/release_port, process, recv, send | per-port FIFO; egress integrity (no byte lost, duplicated or misreported); frames survive grant boundaries; send tolerates wraparound; no panic |
| USB interrupt | both other ring halves | poll | (its effect is covered by the multiplexer's properties) |
| Syscall Channel | four atomics, per-caller pc and buffers | try_syscall/raw_syscall steps, handler | slot exclusion; idle when free; each call gets its own response; no request outgrows inp_buf |
| Audio loop | idata cycle position, already_calcd, iters | one pass (take or fill, send), exit | the accepted buffers form one continuous stream |
| Syscall wire types | none (data only) | postcard encoding of each request and response variant | every encoding fits 128 bytes (spec §2) |

## 2. Modules

| Module | Models | Notes |
|---|---|---|
| `AccFeed` | `Accumulator::feed` as the operator `Feed(b, w)` | constants: N |
| `Accumulator` | `Accumulator::new` plus a driver that follows spec §4.2's contract for the caller | |
| `BBQueue` | the bbqueue ring as a record `[r, w, last, q]`, with `GrantMaxRemaining`, `Commit`, `ReadStart/ReadLen/ReadWindow`, `Release` | from spec §4.1 and the crate's pointer rules |
| `UsbSerial` | setup, poll, process, recv, send, register_port, release_port, composed over both rings | extends AccFeed and BBQueue |
| `SyscallWire` | the request, success and slice types of `mod.rs`, and the length postcard gives each value | constants: W16, W32 (the field values callers pass), IntEncoding |
| `SyscallChannel` | `try_syscall` / `raw_syscall` step by step; the handler from spec §4.4 | extends SyscallWire; instantiates SyscallSlot |
| `SyscallSlot` | what the channel promises: one slot, a holder, guarded fields | abstract specification |
| `AudioLoop` | the idle audio loop of `main.rs` | constants: IdataLen, BufSamples, Iters |
| `MC*` | model values and small sets for TLC | |
| `SyscallChannelProofs`, `SyscallWireProofs`, `AccumulatorProofs`, `AudioLoopProofs` | TLAPS proofs | |

### Correspondence

**Feed** keeps every arm of the `match` in `feed()`, in order.
- The buffer `buf[..idx]` is the sequence `b`, with `idx = Len(b)`.
- `n` is the code's 0-based sentinel position.
- The first arm's guard is the code's `idx + n <= N`. Its copy `self.buf[idx..][..n+1]` is out of range when `idx + n + 1 > N`; that outcome is `"Panic"`.
- The guards of the CASE are written disjoint (each arm excludes the ones before it), so the arm taken is the code's first matching `match` arm rather than any arm whose guard holds.

**Accumulator** (the driver) takes a stream of whole frames (`Streams`: ending in the sentinel, payload runs at most MaxRun long).
- `NextWindow(k)` cuts the next k bytes into a window.
- `FeedWindow` feeds it and re-feeds every remainder, as spec §4.2 tells the caller.
- `Expected` is what a single whole-stream feed returns: every frame whose payload is shorter than N.

**UsbSerial** keeps the cooperative state in a record (`Coop`). Each method's loop is a recursive function over a fuel bound that the loop cannot exceed, so every exit of the code is reached:
- `SendStep` and `SendCall` are the loop of `send` and its result;
- `FeedStep` and `ProcessGrant` are the inner and outer loops of `process`, with `ProcessAll` as the outer loop;
- `Dispatch` and `Ingest` handle one decoded frame;
- `RecvStep` and `RecvLoop` are the copy loop of `recv`.

`Ok(None)` leaves `window` unchanged (`usb_serial.rs:194`). The heap is a byte counter `heapUsed` against `HeapSize`.

The **sportty codec** is outside this repository. `Encode(p, d)` has the length `max_encoding_length` gives (payload + 4), and `Decode` accepts exactly what `Encode` produces. Each host message carries bytes equal to its index, so a byte names its message.

The **ghost variables** record what the code reports to its callers:
- `ingested`: what was pushed on each queue;
- `rx`: what recv returned;
- `accepted`: what send reported as sent (src minus the returned suffix);
- `lastSend`: the last user send call and its result.

**SyscallChannel**: each atomic operation of `raw_syscall` is a step, and `pc[c]` is caller c's position.
- `Claim` is the compare-exchange.
- `Svc` is the trap together with the handler, run to completion.
- The constant `HandlerClears` says which fields the handler resets before returning.
- A buffer is named by the caller that owns it, and the request a handler serves is recorded as `<<caller, call number>>`.
- `Start` picks a request from `Requests` and fails with the encoding error exactly when `ReqLen(req)` exceeds the 128-byte `inp_buf`.
- `Svc` picks a response from `Responses`; the handler can serve only a response whose `RespLen` fits the published capacity, and it writes that length to OUT_LEN.

**SyscallWire**: a wire value is a record whose `tag` is its variant and whose other fields are the variant's fields, under their source names. Its encoded length counts one discriminant byte for the outer enum and one for the inner, then each field:
- u16 and u32 fields as postcard writes them: a varint (postcard 1.x) or fixed width (postcard 0.7);
- the repository has no manifest that pins the version, so the constant `IntEncoding` chooses, and the proofs cover both;
- a slice as its u32 pointer and u32 length;
- an `Option` as a tag byte plus the value;
- `BlockKind` and `BlockStatus` as one byte.
TLC cannot represent 2^32, so u32-ness is stated as `v \div 2^16 < 2^16`.

**SyscallSlot** abstracts the four atomics to one slot. `holder` is IN_PTR and `fields` is the triple (IN_LEN, OUT_PTR, OUT_LEN). A caller may `Acquire` a free slot, `Write` the fields while it holds the slot, and `Release` it only with the fields idle. `stage[c]` is where caller c stands in its own call, and every step moves exactly one caller's stage (`Moves(c)`). That caller is the step's actor: `Acquire(c)` sets `holder` to c itself, `Write(c)` and `Release(c)` require `holder = c`, and `Local(c)` is a step of c that leaves the slot alone. SyscallChannel instantiates it as `Slot` with that mapping and `stage <- pc`. The property `SlotRefinement` is `Slot!Spec`.
- A step of raw_syscall that leaves the slot alone, or try_syscall's start, maps to Local.
- A successful claim maps to Acquire. A lost compare-exchange maps to Local, so its error path must not touch the fields.
- The stores, the handler, the swap and the resets of OUT_PTR and IN_LEN map to Write.
- The reset of IN_PTR maps to Release.
- Every other step is a stutter of the slot.

**AudioLoop**: one pass of `while iters < 1000` is the action `Pass(ok)`.
- `ok` is the driver's answer: the driver is not in this repository, so every pass may be refused.
- A buffer is the index in `idata` of its first sample; `cursor` is where `idata.iter().cycle()` stands.
- `NextBuf` is `already_calcd.take()` or a fresh fill, and `Advance` moves the cycle on by 1024 samples only for a fresh fill.
- The DREQ busy-wait and the 1 ms delay change no loop state.
- `Exit` is the final one-second wait and `kernel::exit()`.
- The ghost `played` records the accepted buffers in order.

## 3. Runs

| Run | Config | Expect | Checks |
|---|---|---|---|
| accumulator_contract | MCAccumulator.cfg | pass | ChunkInvariance, NoPanic |
| accumulator_exact_frame | MCAccumulatorExact.cfg | violation | NoPanic |
| accumulator_oversize | MCAccumulatorOversize.cfg | violation | ChunkInvariance |
| usb_serial | MCUsbSerial.cfg | pass | TypeOK, EgressIntegrity |
| usb_port_fifo | MCUsbSerialFifo.cfg | pass | PortFifo |
| usb_split_frame | MCUsbSerialSplit.cfg | violation | IngressComplete |
| usb_recv_heap | MCUsbSerialHeap.cfg | violation | NoPanic |
| usb_send_stall | MCUsbSerialStall.cfg | violation | EgressNoStall |
| syscall | MCSyscallChannel.cfg | pass | TypeOK, SlotExclusive, IdleWhenFree, ResponseIntegrity, NoEncodeFailure, SlotRefinement |
| usb_egress_live | MCUsbSerialLive.cfg | pass | EgressDrains (under FairSpec) |
| audio_loop | MCAudioLoop.cfg | pass | TypeOK, StreamContinuous |
| syscall_spec_handler | MCSyscallChannelSpecHandler.cfg | violation | ResponseIntegrity |

### What the properties say

**Accumulator**
- **ChunkInvariance**: the frames `feed()` returns are always a prefix of `Expected`, and equal it once the stream is consumed.
- **NoPanic**: `feed()` never overruns its buffer.

**UsbSerial**
- **PortFifo**: for each registered port, what recv returned followed by what is queued is exactly what ingestion pushed. Its run (`usb_port_fifo`) sends scripts of three messages with two or three for port 1, a deque of depth 2 and a heap of 4 bytes. So recv splits a chunk that has another chunk behind it (the remainder must go to the front, `usb_serial.rs:244`), and messages are dropped both at a full deque and at a full heap (`:175-184`). A split that finds the heap full panics (finding d), after which the kernel does nothing, so this run does not check deadlock.
- **EgressIntegrity**: decoding everything the host received, followed by what is still in UART_OUT, gives no bad frame, ends on a frame boundary, and yields for each port exactly the bytes that sends reported as sent. This is spec §8's "send backpressure" property, across ring wraparound and partial USB writes.
- **IngressComplete**: once the host has sent everything and UART_INC is empty, port 0 has ingested every message addressed to it that fits.
- **EgressNoStall**: a send issued while UART_OUT is empty does not return its whole input.
- **EgressDrains** (liveness): whenever UART_OUT holds committed bytes, it is eventually empty. Everything send committed reaches the host, across wraparound of the read pointer and partial USB writes.

**SyscallChannel**
- **SlotExclusive**: at most one call is between its claim and its last reset, and IN_PTR names it.
- **IdleWhenFree**: the atomics are idle when no call holds the slot.
- **ResponseIntegrity**: a call that returns Ok has its own response, and a call the handler served returns Ok.
- **NoEncodeFailure**: no call ends in try_syscall's encoding error. Every request variant, with the field values the callers pass, fits `inp_buf`.
- **SlotRefinement**: the channel implements SyscallSlot, with the caller whose program counter moves as the actor. It fails if a reset is skipped or reordered after IN_PTR's (a slot released with live fields), if the claim is not atomic, or if a caller that does not hold the slot writes a field. Its mutant makes the lost compare-exchange reset IN_LEN, which breaks only this property: the holder's fields change under it, but the slot stays exclusive and idle when free, and the holder's response is still its own.

**AudioLoop**
- **StreamContinuous**: the i-th buffer the driver accepted starts at sample `((i-1) * 1024) % 200` of idata. A refused buffer is neither dropped (a gap in the sound) nor refilled (a repeat).

Each passing property has a mutant in PROJECT.json: a plausible bug in the mapped code, under which the run's configuration finds the property violated.

### Bounds and why they suffice

**Accumulator**: N = 4, streams of up to 8 bytes over two payload values, payload runs of at most 3, windows of up to 3 bytes.
- This covers every interesting case: windows that end before, at and after a sentinel, several frames in one window, empty frames, and a frame filling the buffer to N - 1.
- The violation runs let the run reach N (Exact) and N + 1 (Oversize).

**UsbSerial**: rings of 12 bytes, N = 6, two ports, queue depth 2, an 8-byte heap, and one host script (a 1-byte message to port 0, then a 2-byte message to port 1). User sends use the buffers `<<21>>` and `<<21, 22>>`, and recv uses lengths 1 and 2.
- Every poll moves any number of bytes in either direction, so ring wraparound, partial USB writes and the port-0 loopback competing with user sends all occur.
- A 2-byte chunk read with length 1 exercises the split.
- The 12-byte ring lets both host frames into UART_INC before the write pointer reaches the end. With 8 bytes, the second frame always straddles the end and is lost to the Ok(None) defect, so port 1 would never receive.
- The violation runs use an 8-byte ring.

**SyscallChannel**: two symmetric callers (model values, symmetry reduction), each making two calls. That suffices for every interleaving of two claims and for reuse of the slot. Field values are `{0, 65535}` for u16 and `{0, 2^28}` for u32, the shortest and the longest varint (1 and 3 or 5 bytes). Every variant is therefore tried at its largest and smallest encoding. The theorems below cover every value.

**UsbSerial liveness** (usb_egress_live): the same rings and bounds, with the single 2-byte stdio message as the host script and recv length 1, so that the temporal check stays small. Two sends and the port-0 loopback put up to three 6-byte frames through a 12-byte UART_OUT, so the reader's jump back to the front happens.

**AudioLoop**: the real idata length (200) and buffer size (1024 samples), so the cycle offset takes the values 0, 24, 48, ... and wraps; 80 accepted passes instead of 1000. The proof covers every value.

Deadlock checking is off in the accumulator, syscall and audio-loop runs: the stream and the call budget are finite, so those models stop by design. The audio loop really does stop: it ends in `kernel::exit()`. In UsbSerial a poll that moves nothing is always possible, so deadlock is checked.

### Fairness

`FairSpec` in UsbSerial is `Spec /\ WF_vars(HostReads)`. `HostReads` is a poll whose `ser.write` takes at least one byte of the read grant. The justification is that the USB host keeps reading the IN endpoint of a configured CDC device, so while UART_OUT holds data the USBD interrupt keeps running `usb_tick`, and the write eventually takes something.

No fairness is given to `process` or `recv`. Nothing in `main.rs` calls them: the SVCall task is commented out and `idle` runs only the audio demo. So no ingress liveness is claimed; IngressComplete is a safety property checked on quiescent states. The audio loop has no liveness claim either, because whether the driver ever accepts a buffer is decided outside this repository.

## 4. Proofs (TLAPS)

`SyscallChannelProofs`:
- **TypeCorrect**: `Spec => []TypeOK`, for any callers and call bound. Every step is checked against the types, one step per action.
- **Exclusion**: if `HandlerClears = "none"`, then `Spec => []SlotExclusive`.
- **FreeSlotIdle**: with the same assumption, `Spec => []IdleWhenFree`.

Both rest on the inductive invariant `IInv`, which is needed because SlotExclusive alone is not preserved by the steps:
- `OwnsSlot`: a caller is in the slot if and only if IN_PTR names it.
- `FreeIdle`: a null IN_PTR means idle fields.
- `Progress`: for each program counter, which fields the owner has not yet published or has already reset, and that OUT_PTR is still its own during the trap and the swap.

The proof has one step per action.

The assumption `HandlerClears = "none"` is the handler that leaves the slot to raw_syscall. With `"all"`, the run syscall_spec_handler shows the calls fail. With `"input"`, the handler itself frees IN_PTR before the caller's swap and resets, so a second call can claim the slot while the first is still in it, and SlotExclusive fails (TLC finds it in a few steps).

`AccumulatorProofs`:
- **TypeCorrect**: `Spec => []TypeOK` for every N and stream bound.
- Lemma **SentinelMin**: the `CHOOSE` of the first sentinel exists. It uses `WFMin` with the well-foundedness of `<` on Nat.
- Lemma **FeedType**: `feed()` keeps `buf[..idx]` sentinel-free and at most N long, and returns slices of the stream.
- **NeverPanics**: if `MaxRun < N`, then `Spec => []NoPanic`, for every N, every stream bound and every window bound. So a stream of frames whose payloads are shorter than the buffer never makes `feed()` copy past `self.buf`, however it is cut into windows.
  - The hypothesis is exactly where the code stops being safe: with a payload of N bytes, `idx + n = N` passes the arm's guard and the copy of n + 1 bytes overruns. Run accumulator_exact_frame shows this (finding (b)).
  - NoPanic alone is not inductive, because whether the next `feed()` panics depends on bytes not yet fed. The inductive invariant `NoPanicInv` adds three facts about `Unfed == window \o stream`, the bytes still to feed:
    - every run of payload bytes in `Unfed` is at most MaxRun long (`RunsOK`);
    - the run `Unfed` starts with, added to the `idx` bytes already in `buf`, is at most MaxRun (`LeadOK`);
    - `idx <= MaxRun` (`LeadOK` is empty when the window starts with the sentinel).
  - From these, a window with a sentinel always takes the first arm with room for it (`idx + n + 1 <= N`). A window without one always fits the `Ok(None)` arm. The overflow arms are never taken.
  - The step proof has one case per arm taken. Both cases rest on lemma **SuffixFacts**: feeding the first m bytes of the window leaves a suffix of `Unfed` that keeps `RunsOK`, and moving m payload bytes into `buf` keeps `LeadOK`. SuffixFacts is built from the lemmas **ShiftRuns**, **ShiftLead** and **ConcatShift**.

- **ChunkInvariant**: if `MaxRun < N`, then `Spec => []ChunkInvariance`. However a stream of frames whose payloads are shorter than N is cut into windows, the frames `feed()` has returned are a prefix of those a single `feed()` of the whole stream returns (`Expected`), and equal to them once the stream is consumed.
  - ChunkInvariance is not inductive: it says nothing of the bytes in `buf` or still unfed. The inductive invariant `ChunkInv` adds `NoPanicInv` and ties the driver's state to the byte-by-byte scan `Scan(input)` of the whole stream at position `Fed`, the number of bytes already fed: `Unfed` is `input` from `Fed + 1` on, `out = Scan(input)[Fed].done` and `buf = Scan(input)[Fed].cur`. TLC confirms `ChunkInv` as an invariant of the accumulator_contract instance (58002 states) before it was proved.
  - `Scan(s)` is a recursive function (`e[i \in 0..Len(s)]`), not a RECURSIVE operator. Lemma **ScanDef** gives its equations: lemma **ScanUpToExists** shows that a function satisfying them exists on every prefix. That lemma, and **ScanType**, **ScanRun** and **ScanPrefix**, argue by a least counterexample. Lemma **NatDescent** gives a least element of any non-empty set of naturals. The library's induction theorems are not used, because their operator parameter cannot be instantiated.
  - Lemma **ScanRun**: over a sentinel-free stretch, the scan only appends to `cur`. Lemmas **DataScan** and **FrameScan** lift it to a window: a window without a sentinel extends `cur` by the window (the `Ok(None)` arm), and a window whose first sentinel is at n + 1, with `idx + n < N`, closes the frame `buf \o w[1..n+1]` and empties `cur` (the frame arm).
  - The step proof has one case per action. `NextWindow` leaves `Unfed` unchanged (lemma **NextWindowUnfed**). `FeedWindow` takes the frame arm or the `Ok(None)` arm, by `NoPanicInv` and lemmas **FeedFrameStep** and **FeedNoneStep**, and **AdvanceFed** moves `Fed` forward by the bytes taken. The implication `ChunkInv => ChunkInvariance` rests on lemma **ScanPrefix**: `Scan(s)[i].done` is a prefix of `Scan(s)[j].done` for i <= j.

`SyscallWireProofs`, for every W16 ⊆ u16, W32 ⊆ u32 and both encodings:
- **RequestsFit**: every request encodes to 2..23 bytes.
- **ResponsesFit**: every response encodes to 2..25 bytes.
- Both rest on lemmas bounding an integer field (1..5 bytes), a slice (2..10) and an optional slice (1..11). The proof has one case per variant.

`SyscallChannelProofs` also proves **Refinement**: if `HandlerClears = "none"`, then `Spec => SlotRefinement`.
- The initial states map to SyscallSlot's initial state.
- Lemma **StepRefines**: under `IInv`, every step of Next is a step of `Slot!Next` or leaves `<<holder, fields, stage>>` unchanged.
- Lemma **MovesGoto**: a step that moves caller c's pc from one value to another is `Slot!Moves(c)`. Every action moves only its own caller's pc, so this picks the actor.
- `OwnsSlot` and the program counters show that the caller storing or resetting a field holds IN_PTR, so it is a Write.
- `Progress` shows that at the reset of IN_PTR the other three fields are already idle, so it is a Release.
- PTL combines this with `[]IInv`.

`SyscallChannelProofs` also proves **EncodeNeverFails**: `Spec => []NoEncodeFailure` for any callers and handler. Its inductive invariant is `TypeOK /\ NoEncodeFailure`. Only `Start` can report the encoding error, and by RequestsFit it never does.

`AudioLoopProofs`:
- **Continuous**: `Spec => []StreamContinuous` for every idata length, buffer size and pass bound.
- StreamContinuous alone is not inductive: the next accepted buffer depends on `already_calcd` and on where the cycle stands.
- `IInv` adds two facts, with `Offset(k) = (k * BufSamples) % IdataLen`: `cursor = Offset(Len(played) + Held)`, and a held buffer starts at `Offset(Len(played))`.
- The arithmetic rests on lemma **ModAdd**, `((a % n) + b) % n = (a + b) % n`, proved from the uniqueness of the remainder.
- **TypeCorrect**: `Spec => []TypeOK`, from the same `IInv`.

`SyscallChannelProofs` also proves **OwnResponse**: if `HandlerClears = "none"`, then `Spec => []ResponseIntegrity` for any set of callers. A call that returns Ok was handed its own response, and a call the handler served returns Ok. The run syscall_spec_handler shows that this fails with the handler of spec §4.4 (finding (f)).
- ResponseIntegrity speaks only of idle callers, so it is not inductive. The inductive invariant `RInv` strengthens `IInv` with facts about callers still in the handshake:
  - `OutOwn`: a caller's out_buf is empty or holds its own response. Only the handler writes it, and only through the OUT_PTR the caller published, which `IInv` shows is still the caller's own.
  - `OkIffWritten`: the handler served the call exactly when the out_buf is non-empty.
  - `Unserved`: before the trap, no call has been served.
  - `LenTracks`: from the swap of OUT_LEN to the resets, the length the caller reads back is non-zero exactly when the handler served it.
- The proof needs the constant assumption `NullAssumption`: the value standing for an unwritten out_buf is not a response. It also needs lemma ResponsesFit, so that a served response has a non-zero length.

Only model-checked:
- NoPanic and ChunkInvariance outside `MaxRun < N`, where they fail (accumulator_exact_frame and accumulator_oversize).
- Everything about UsbSerial: TypeOK, PortFifo and EgressIntegrity. The loops of send, process and recv are the recursive functions `loop[i]` of SendCall, ProcessGrant and RecvLoop. An invariant of those actions is an invariant of every iteration of the loop, so it needs induction over the iteration index, which the installed provers cannot instantiate.
- Anything about the recursive functions `WireData`, `ScriptWire` and the loops of UsbSerial. `Scan` (behind `Expected`) is reasoned about by a least-counterexample argument over its index. Doing the same for these would need one such argument per loop, stated over iteration indices that UsbSerial's actions do not expose.
- EgressDrains, and liveness in general: it needs fairness and ENABLED, which are outside the provers' reach here.

## 5. Not modelled

- `enable_usb_interrupts`: register writes only.
- USB device errors (`Err(_) => defmt::panic!` in `poll`) and `dev.poll`.
- The kernel's `init` (peripheral set-up run once before any task), and `letsago` and `armsin` (inline assembly and an FFI call that nothing calls).
- The codec set-up in `idle`: three register writes and the WAV header, each a send whose `Err` panics. Whether a send is refused, what `start_send` does, and what the `spim3` task's `end_send` does are all decided by `nrf52_spim_nonblocking`, which is not in this repository. AudioLoop therefore lets every send go either way rather than model a driver it cannot read.
- The 2048-byte heap allocation per fresh buffer (`main.rs:468`, unwrapped). Whether it can fail depends on when the driver frees accepted buffers; it is listed as a hazard with no property.
- The byte contents of serialised values: only their lengths are modelled, and the decode side (`postcard::from_bytes`) is the "malformed" outcome of a buffer the handler did not write.
- The bbqueue and sportty crates beyond the behaviour described above.
- The contents of heap memory: the heap is a byte count.

## 6. Findings

| Finding | Where | Shown by | What happens |
|---|---|---|---|
| (a) code_bug | `usb_serial.rs:194` | usb_split_frame | A frame split across two read grants is lost; the Ok(None) arm does not advance `window`. |
| (b) code_bug | `usb_serial.rs:390` | accumulator_exact_frame | A frame with exactly N payload bytes panics (spec §8 scenario). |
| (c) spec/code divergence | `usb_serial.rs:417` | accumulator_oversize | The overflow reset breaks chunk invariance for oversize frames. |
| (d) code_bug | `usb_serial.rs:240` | usb_recv_heap | recv's split allocation panics when the heap is full. |
| (e) spec/code divergence | `usb_serial.rs:275` | usb_send_stall | A short tail grant stalls send for good. This rests on bbqueue's grant rule as modelled. |
| (f) spec gap | spec §4.4 step 4 vs step 5 | syscall_spec_handler | A handler that clears OUT_LEN makes every call fail. |

One minor divergence is not run: for `feed(b"ABCDE\0")` with N = 4, the code returns `NoRoomWithRem(&[])` rather than spec §8's `NoRoomNoRem`. `process()` treats both alike.

## 7. Plan for later work

1. If the SPIM driver's source becomes available, model its send/start_send/end_send with the spim3 interrupt under AudioLoop. The loop's heap use and its liveness (1000 buffers accepted) could then be checked.
2. Prove more:
   - PortFifo-related invariants over a non-recursive formulation;
   - bounds on `heapUsed` and on ring pointers (a `RingOK` invariant of BBQueue, provable in BBQueue itself, whose operators have no loop);
   - invariants of UsbSerial's loops, by the least-counterexample argument used for `Scan` (lemma NatDescent), once each loop's state after i iterations is stated explicitly.
3. Add an abstract specification of the Port Multiplexer (a per-port FIFO of messages) and check that UsbSerial refines it.
4. Ingress liveness once something in `main.rs` calls `process` (the commented-out SVCall task).
