----------------------------- MODULE Accumulator -----------------------------
(***************************************************************************)
(* The Frame Accumulator of the USB-serial driver                          *)
(* (src/firmware/kernel/src/drivers/usb_serial.rs, struct Accumulator<N>). *)
(*                                                                         *)
(* The accumulator keeps a scratch buffer of N bytes and a cursor idx; it  *)
(* is fed windows of the incoming byte stream and returns a frame each     *)
(* time it sees the sentinel byte 0.  feed() itself is the operator Feed  *)
(* of module AccFeed, which UsbSerial also uses inside process().          *)
(*                                                                         *)
(* This module also gives feed() a driver that follows the contract of the *)
(* spec (section 4.2): a finite stream of frames is cut into windows of    *)
(* arbitrary length, every remainder feed() hands back is fed again, and   *)
(* the frames feed() returns are recorded in out.  That driver asks the    *)
(* question the spec's chunk-invariance property asks of feed() alone.     *)
(***************************************************************************)
EXTENDS AccFeed

CONSTANTS
  Data,       \* the non-sentinel byte values the stream carries
  MaxStream,  \* the longest stream
  MaxRun,     \* the longest frame payload (run of non-sentinel bytes)
  MaxWindow   \* the longest window handed to one feed() call

ASSUME DataAssumption == Data \subseteq Nat \ {Sentinel}
ASSUME BoundsAssumption ==
  MaxStream \in Nat /\ MaxRun \in Nat /\ MaxWindow \in Nat \ {0}

Byte == Data \cup {Sentinel}

-----------------------------------------------------------------------------
(***************************************************************************)
(* The driver of the spec's contract.                                      *)
(***************************************************************************)
VARIABLES
  buf,       \* buf[..idx] of the accumulator
  window,    \* the part of the current window still to be fed
  stream,    \* the bytes of the stream not yet cut into windows
  input,     \* the whole stream (never changes)
  out,       \* the frames feed() has returned, in order
  panicked   \* feed() has panicked

vars == <<buf, window, stream, input, out, panicked>>

\* Sequences of length at most k over S.
SeqsUpTo(S, k) == UNION {[1..m -> S] : m \in 0..k}

(***************************************************************************)
(* The streams of whole frames: every frame ends in the sentinel, and no   *)
(* run of payload bytes is longer than MaxRun.                             *)
(***************************************************************************)
Streams ==
  {s \in SeqsUpTo(Byte, MaxStream) :
     /\ s # <<>> => s[Len(s)] = Sentinel
     /\ \A i, j \in 1..Len(s) :
          (i <= j /\ \A k \in i..j : s[k] # Sentinel) => j - i + 1 <= MaxRun}

\* Accumulator::new(): idx = 0; the driver has fed nothing yet.
Init ==
  /\ buf = <<>>
  /\ window = <<>>
  /\ stream \in Streams
  /\ input = stream
  /\ out = <<>>
  /\ panicked = FALSE

\* The next k bytes of the stream become the window to feed.
NextWindow(k) ==
  /\ ~panicked
  /\ window = <<>>
  /\ k \in 1..Len(stream)
  /\ window' = SubSeq(stream, 1, k)
  /\ stream' = SubSeq(stream, k + 1, Len(stream))
  /\ UNCHANGED <<buf, input, out, panicked>>

\* One feed() call, and what the spec tells the caller to do with its result.
FeedWindow ==
  /\ ~panicked
  /\ window # <<>>
  /\ LET r == Feed(buf, window) IN
       /\ buf' = r.buf
       /\ out' = IF r.res = "Frame" THEN Append(out, r.frame) ELSE out
       /\ window' = IF r.res \in {"Frame", "NoRoomWithRem"} THEN r.rest ELSE <<>>
       /\ panicked' = (r.res = "Panic")
  /\ UNCHANGED <<stream, input>>

Next ==
  \/ \E k \in 1..MaxWindow : NextWindow(k)
  \/ FeedWindow

Spec == Init /\ [][Next]_vars

-----------------------------------------------------------------------------
TypeOK ==
  /\ buf \in Seq(Data)
  /\ Len(buf) <= N
  /\ window \in Seq(Byte)
  /\ stream \in Seq(Byte)
  /\ input \in Seq(Byte)
  /\ out \in Seq(Seq(Byte))
  /\ panicked \in BOOLEAN

(***************************************************************************)
(* What feeding the whole stream in one call yields: every frame whose     *)
(* sentinel fits the buffer (payload shorter than N), in order.  Scan(s)   *)
(* is the scan of stream s byte by byte: Scan(s)[i].done holds the frames  *)
(* of s[1..i], Scan(s)[i].cur the payload bytes since the last sentinel.   *)
(***************************************************************************)
ScanInit == [done |-> <<>>, cur |-> <<>>]

ScanStep(x, b) ==
  IF b # Sentinel THEN [x EXCEPT !.cur = Append(@, b)]
  ELSE [done |-> IF Len(x.cur) < N THEN Append(x.done, x.cur \o <<Sentinel>>)
                 ELSE x.done,
        cur |-> <<>>]

Scan(s) ==
  LET e[i \in 0..Len(s)] == IF i = 0 THEN ScanInit ELSE ScanStep(e[i - 1], s[i])
  IN  e

Expected == Scan(input)[Len(input)].done

Done == stream = <<>> /\ window = <<>>

(***************************************************************************)
(* Chunk invariance (spec section 8): whatever way the stream is cut into  *)
(* windows, the frames feed() returns are, at every point, a prefix of the *)
(* frames one whole-buffer feed() would return, and all of them once the   *)
(* stream is consumed.  This is about feed()'s cursor bookkeeping across   *)
(* calls: appending a window (Ok(None)), resetting idx on a frame, and the *)
(* resynchronisation after an overflow.                                    *)
(***************************************************************************)
ChunkInvariance ==
  /\ Len(out) <= Len(Expected)
  /\ out = SubSeq(Expected, 1, Len(out))
  /\ Done /\ ~panicked => out = Expected

(***************************************************************************)
(* feed() never panics: no window makes it index its scratch buffer out of *)
(* bounds (the copy of the prefix up to the sentinel in the first arm).    *)
(***************************************************************************)
NoPanic == ~panicked

=============================================================================
