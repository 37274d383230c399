------------------------------- MODULE BBQueue -------------------------------
(***************************************************************************)
(* The Ring Channel: the single-producer/single-consumer circular byte     *)
(* buffer with grants that usb_serial.rs takes from the bbqueue crate      *)
(* (BBBuffer<USB_BUF_SZ>, two instances UART_INC and UART_OUT).  The crate *)
(* is not part of this repository: the operators below follow the         *)
(* contract of spec section 4.1 and the pointer discipline of bbqueue      *)
(* (read, write and last pointers; a write grant never wraps before the    *)
(* write pointer has reached the end of the buffer).                       *)
(*                                                                         *)
(* A ring is a record: r (read), w (write), last (end of valid data when   *)
(* the ring is inverted) and q, the bytes committed and not yet released,  *)
(* in the order the consumer will see them.  The contents of free cells    *)
(* are never read, so they are not kept.  A grant is taken and committed   *)
(* or released inside one step of its user, so the reserve pointer and the *)
(* grant-in-progress flags are not kept either.                            *)
(***************************************************************************)
EXTENDS Naturals, Sequences

CONSTANT Cap   \* USB_BUF_SZ, the capacity of each ring

ASSUME CapAssumption == Cap \in Nat /\ Cap >= 2

Ring == [r : 0..Cap, w : 0..Cap, last : 0..Cap, q : Seq(Nat)]

\* BBBuffer::new(): all pointers zero, nothing committed.
EmptyRing == [r |-> 0, w |-> 0, last |-> 0, q |-> <<>>]

MinNat(a, b) == IF a <= b THEN a ELSE b

\* The ring has wrapped: the writer is behind the reader.
Inverted(rg) == rg.w < rg.r

(***************************************************************************)
(* Producer::grant_max_remaining(sz): a contiguous write region of at most *)
(* sz bytes.  In the inverted case it lies between w and r (one cell kept  *)
(* free); otherwise it is the tail w..Cap, however short, and it wraps to  *)
(* the front only once w has reached Cap.  ok = FALSE is InsufficientSize. *)
(***************************************************************************)
WGrant(ok, start, len) == [ok |-> ok, start |-> start, len |-> len]

GrantMaxRemaining(rg, sz) ==
  CASE Inverted(rg) /\ rg.w + 1 = rg.r -> WGrant(FALSE, 0, 0)
    [] Inverted(rg)                    -> WGrant(TRUE, rg.w, MinNat(rg.r - rg.w - 1, sz))
    [] rg.w # Cap                      -> WGrant(TRUE, rg.w, MinNat(Cap - rg.w, sz))
    [] rg.r > 1                        -> WGrant(TRUE, 0, MinNat(rg.r - 1, sz))
    [] OTHER                           -> WGrant(FALSE, 0, 0)

(***************************************************************************)
(* GrantW::commit(used), with bytes the Len(bytes) <= g.len bytes written  *)
(* at the start of grant g.  Dropping a grant commits zero bytes, which    *)
(* still moves w to the grant's start (to 0 for a wrapped grant).          *)
(***************************************************************************)
Commit(rg, g, bytes) ==
  LET nw == g.start + Len(bytes) IN
  [rg EXCEPT !.w = nw,
             !.last = IF nw < rg.w /\ rg.w # Cap THEN rg.w
                      ELSE IF nw > rg.last THEN Cap
                      ELSE rg.last,
             !.q = rg.q \o bytes]

(***************************************************************************)
(* Consumer::read(): when the reader has reached last of an inverted ring  *)
(* it moves to 0 (this store happens even if no grant results); the grant  *)
(* is then the contiguous committed region from r, up to last or w.        *)
(***************************************************************************)
\* Mutant: a reader that never moves back to 0 after an inversion.
ReadStartNoWrap(rg) == rg

ReadStart(rg) ==
  IF rg.r = rg.last /\ rg.w < rg.r THEN [rg EXCEPT !.r = 0] ELSE rg

ReadLen(rg) ==
  LET s == ReadStart(rg) IN (IF s.w < s.r THEN s.last ELSE s.w) - s.r

\* The bytes of the read grant (empty when read() returns InsufficientSize).
ReadWindow(rg) == SubSeq(rg.q, 1, ReadLen(rg))

\* GrantR::release(k) after read(): k bytes are given back to the producer.
Release(rg, k) ==
  LET s == ReadStart(rg) IN
  [s EXCEPT !.r = s.r + k, !.q = SubSeq(s.q, k + 1, Len(s.q))]

=============================================================================
