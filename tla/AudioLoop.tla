------------------------------ MODULE AudioLoop ------------------------------
(***************************************************************************)
(* The audio streaming loop at the end of idle in main.rs.  Each pass      *)
(* takes the buffer a refused send handed back (already_calcd), or else    *)
(* allocates a 2048-byte buffer and fills it with the next 1024 samples of *)
(* idata cycled for ever; it then waits for DREQ and offers the buffer to  *)
(* the non-blocking SPIM driver.  Ok counts a pass in iters; Err(buf)      *)
(* restarts the transfer and keeps buf for the next pass.  After Iters     *)
(* accepted buffers the loop ends and the kernel exits.                    *)
(*                                                                         *)
(* The driver (nrf52_spim_nonblocking) is not in this repository, so       *)
(* whether send accepts a buffer is a free choice of every pass.  A        *)
(* buffer is represented by the idata index of its first sample; the      *)
(* samples are a function of that index.                                   *)
(***************************************************************************)
EXTENDS Naturals, Sequences

CONSTANTS
  IdataLen,    \* the length of idata (200 samples)
  BufSamples,  \* the samples in one small_buf (2048 bytes, 2 per sample)
  Iters        \* the accepted passes after which the loop ends (1000)

ASSUME AudioAssumption ==
  IdataLen \in Nat \ {0} /\ BufSamples \in Nat \ {0} /\ Iters \in Nat

NoBuf == IdataLen   \* already_calcd = None (no buffer start equals it)

VARIABLES
  cursor,   \* the position of forever = idata.iter().cycle()
  pending,  \* already_calcd: the buffer a refused send gave back, or NoBuf
  iters,    \* the passes whose send returned Ok
  played,   \* the buffers the driver accepted, in order
  exited    \* kernel::exit() has been called

vars == <<cursor, pending, iters, played, exited>>

Init ==
  /\ cursor = 0
  /\ pending = NoBuf
  /\ iters = 0
  /\ played = <<>>
  /\ exited = FALSE

\* already_calcd.take(), or a fresh buffer filled from forever.
NextBuf == IF pending # NoBuf THEN pending ELSE cursor

\* Mutant: the cycle position is not wrapped at the end of idata.
AdvanceOverrun == IF pending # NoBuf THEN cursor ELSE cursor + BufSamples

Advance == IF pending # NoBuf THEN cursor ELSE (cursor + BufSamples) % IdataLen

\* Mutant: a refused buffer is dropped instead of kept for the next pass.
PassDropRefused(ok) ==
  /\ ~exited /\ iters < Iters
  /\ cursor' = Advance
  /\ iters' = IF ok THEN iters + 1 ELSE iters
  /\ played' = IF ok THEN Append(played, NextBuf) ELSE played
  /\ pending' = NoBuf
  /\ UNCHANGED exited

(***************************************************************************)
(* One pass of while iters < 1000, for an outcome ok of spi.send: the     *)
(* DREQ wait and the 1 ms delay change no state of the loop.               *)
(***************************************************************************)
Pass(ok) ==
  /\ ~exited
  /\ iters < Iters
  /\ cursor' = Advance
  /\ IF ok
       THEN /\ iters' = iters + 1
            /\ played' = Append(played, NextBuf)
            /\ pending' = NoBuf
       ELSE /\ pending' = NextBuf
            /\ UNCHANGED <<iters, played>>
  /\ UNCHANGED exited

\* The loop has ended: wait one second and exit.
Exit ==
  /\ ~exited
  /\ iters >= Iters
  /\ exited' = TRUE
  /\ UNCHANGED <<cursor, pending, iters, played>>

Next == (\E ok \in BOOLEAN : Pass(ok)) \/ Exit

Spec == Init /\ [][Next]_vars

-----------------------------------------------------------------------------
TypeOK ==
  /\ cursor \in 0..(IdataLen - 1)
  /\ pending \in 0..IdataLen
  /\ iters \in 0..Iters
  /\ played \in Seq(0..(IdataLen - 1))
  /\ exited \in BOOLEAN

(***************************************************************************)
(* The codec hears one continuous stream: the i-th buffer the driver       *)
(* accepted starts where the cycled idata had reached after i - 1 full     *)
(* buffers, whatever sends were refused and retried with already_calcd on  *)
(* the way; a refused buffer is neither skipped nor replayed, and no       *)
(* buffer is filled from the wrong place of the cycle.                     *)
(***************************************************************************)
StreamContinuous ==
  \A i \in 1..Len(played) : played[i] = ((i - 1) * BufSamples) % IdataLen

=============================================================================
