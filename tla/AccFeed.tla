------------------------------- MODULE AccFeed -------------------------------
(***************************************************************************)
(* Accumulator::feed of the USB-serial driver                              *)
(* (src/firmware/kernel/src/drivers/usb_serial.rs, struct Accumulator<N>): *)
(* the bounded-memory framer that turns windows of the incoming byte       *)
(* stream into sentinel-terminated frames.  The accumulator's state,       *)
(* buf[..idx], is a sequence b with idx = Len(b).  Accumulator and         *)
(* UsbSerial both use this operator.                                       *)
(***************************************************************************)
EXTENDS Naturals, Sequences

CONSTANT N   \* capacity of the scratch buffer (const generic N, 1024 in UsbUartSys)

ASSUME NAssumption == N \in Nat \ {0}

Sentinel == 0

(***************************************************************************)
(* The 1-based index of the first sentinel of window w (the code's         *)
(* buf.iter().position(|b| *b == 0), plus one).                            *)
(***************************************************************************)
HasSentinel(w) == \E i \in 1..Len(w) : w[i] = Sentinel
FirstSentinel(w) ==
  CHOOSE i \in 1..Len(w) : w[i] = Sentinel /\ \A j \in 1..(i - 1) : w[j] # Sentinel

(***************************************************************************)
(* The result of feed(): the outcome res, the new buf[..idx], the frame    *)
(* (AccMsg: the bytes up to and including the sentinel) and the rest of    *)
(* the window (AccSuccess::remainder or the slice of NoRoomWithRem).       *)
(***************************************************************************)
FeedResult(res, b, frame, rest) ==
  [res |-> res, buf |-> b, frame |-> frame, rest |-> rest]

(***************************************************************************)
(* Mutants of feed(): the first arm copies one byte past the sentinel      *)
(* (FeedOverCopy), or returns the frame without resetting idx to 0        *)
(* (FeedNoReset).                                                          *)
(***************************************************************************)
FeedWith(b, w, extra, reset) ==
  LET n == FirstSentinel(w) - 1
      idx == Len(b)
  IN  CASE HasSentinel(w) /\ idx + n <= N /\ idx + n + 1 + extra > N ->
             FeedResult("Panic", b, <<>>, <<>>)
        [] HasSentinel(w) /\ idx + n + 1 + extra <= N ->
             FeedResult("Frame", IF reset THEN <<>> ELSE b,
                        b \o SubSeq(w, 1, n + 1), SubSeq(w, n + 2, Len(w)))
        [] HasSentinel(w) /\ idx + n > N /\ n < Len(w) ->
             FeedResult("NoRoomWithRem", <<>>, <<>>, SubSeq(w, n + 2, Len(w)))
        [] HasSentinel(w) /\ idx + n > N /\ n >= Len(w) ->
             FeedResult("NoRoomNoRem", <<>>, <<>>, <<>>)
        [] ~HasSentinel(w) /\ idx + Len(w) <= N ->
             FeedResult("None", b \o w, <<>>, w)
        [] OTHER ->
             FeedResult("NoRoomNoRem", <<>>, <<>>, <<>>)
FeedOverCopy(b, w) == FeedWith(b, w, 1, TRUE)
FeedNoReset(b, w) == FeedWith(b, w, 0, FALSE)

(***************************************************************************)
(* Accumulator::feed(b, w).  n is the code's 0-based position of the       *)
(* sentinel.  The first arm's guard is the code's idx + n <= N, but the    *)
(* arm copies n + 1 bytes into self.buf[idx..], which panics (slice index  *)
(* out of range) when idx + n + 1 > N: that outcome is "Panic".  The arm   *)
(* Some(_) => NoRoomNoRem is kept though n < buf.len() always holds.  The  *)
(* guards are made disjoint, so that the arm taken is the code's first     *)
(* matching arm.                                                           *)
(***************************************************************************)
Feed(b, w) ==
  LET n == FirstSentinel(w) - 1
      idx == Len(b)
  IN  CASE HasSentinel(w) /\ idx + n <= N /\ idx + n + 1 > N ->
             FeedResult("Panic", b, <<>>, <<>>)
        [] HasSentinel(w) /\ idx + n + 1 <= N ->
             FeedResult("Frame", <<>>, b \o SubSeq(w, 1, n + 1),
                        SubSeq(w, n + 2, Len(w)))
        [] HasSentinel(w) /\ idx + n > N /\ n < Len(w) ->
             FeedResult("NoRoomWithRem", <<>>, <<>>, SubSeq(w, n + 2, Len(w)))
        [] HasSentinel(w) /\ idx + n > N /\ n >= Len(w) ->
             FeedResult("NoRoomNoRem", <<>>, <<>>, <<>>)
        [] ~HasSentinel(w) /\ idx + Len(w) <= N ->
             FeedResult("None", b \o w, <<>>, w)
        [] OTHER ->
             FeedResult("NoRoomNoRem", <<>>, <<>>, <<>>)

=============================================================================
