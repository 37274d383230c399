----------------------------- MODULE SyscallWire -----------------------------
(***************************************************************************)
(* The wire values of the Syscall Channel (src/firmware/common/src/        *)
(* syscall/mod.rs, modules request, success and slice) and the length      *)
(* postcard gives them when try_syscall serialises a request into its      *)
(* 128-byte inp_buf, or the kernel a response into out_buf.                *)
(*                                                                         *)
(* A value is a record whose tag is its variant; the outer enum            *)
(* (Serial, Time, BlockStore, System) and the inner one each cost one      *)
(* discriminant byte (a varint of a variant index below 128).  Integer     *)
(* fields are drawn from the sets W16 and W32 the callers pass; which      *)
(* postcard the build links decides how a u16 or u32 is written:           *)
(* "varint" (postcard 1.x, 7 bits per byte) or "fixed" (postcard 0.7,      *)
(* little-endian of the field's width).                                    *)
(***************************************************************************)
EXTENDS Naturals

CONSTANTS
  W16,          \* the u16 values callers pass (ports)
  W32,          \* the u32 values callers pass (pointers, lengths, indices)
  IntEncoding   \* "varint" or "fixed"

\* v is a u16, or a u32 (written so that 2^32 is never computed).
IsU16(v) == v \in Nat /\ v < 2^16
IsU32(v) == v \in Nat /\ v \div 2^16 < 2^16

ASSUME WireAssumption ==
  /\ \A v \in W16 : IsU16(v)
  /\ \A v \in W32 : IsU32(v)
  /\ IntEncoding \in {"varint", "fixed"}

\* postcard's varint: the number of 7-bit groups of v.
VarintLen(v) ==
  IF v < 2^7 THEN 1 ELSE IF v < 2^14 THEN 2 ELSE IF v < 2^21 THEN 3
  ELSE IF v < 2^28 THEN 4 ELSE 5

\* The encoded length of an integer field of the given byte width.
IntLen(v, width) == IF IntEncoding = "fixed" THEN width ELSE VarintLen(v)

(***************************************************************************)
(* SysCallSlice and SysCallSliceMut: a (ptr, len) pair of u32, made from a *)
(* slice by sli.as_ptr() as u32 and sli.len() as u32 (usize is 32 bits on  *)
(* the target, so the casts keep the value).  Both serialise the same way. *)
(***************************************************************************)
Slices == [ptr : W32, len : W32]
SliceLen(s) == IntLen(s.ptr, 4) + IntLen(s.len, 4)

\* Option<SysCallSlice>: a tag byte, then the slice when it is Some.
Opts == {[some |-> FALSE]} \cup [some : {TRUE}, val : Slices]
OptLen(o) == IF o.some THEN 1 + SliceLen(o.val) ELSE 1

\* BlockKind and BlockStatus: unit enums, one discriminant byte each.
BlockKinds == {"Unused", "Storage", "Program"}
BlockStatuses == {"Idle", "OpenNoWrites", "OpenWritten"}

(***************************************************************************)
(* SysCallRequest: every variant of SystemRequest, SerialRequest,          *)
(* TimeRequest and BlockRequest with its fields.                           *)
(***************************************************************************)
Requests ==
  [tag : {"SetBootBlock"}, block : W32] \cup [tag : {"Reset"}]
  \cup [tag : {"SerialOpenPort"}, port : W16]
  \cup [tag : {"SerialReceive"}, port : W16, dest_buf : Slices]
  \cup [tag : {"SerialSend"}, port : W16, src_buf : Slices]
  \cup [tag : {"SleepMicros"}, us : W32]
  \cup [tag : {"StoreInfo"}]
  \cup [tag : {"BlockInfo"}, block_idx : W32, name_buf : Slices]
  \cup [tag : {"BlockOpen"}, block_idx : W32]
  \cup [tag : {"BlockRead"}, block_idx : W32, offset : W32, dest_buf : Slices]
  \cup [tag : {"BlockWrite"}, block_idx : W32, offset : W32, src_buf : Slices]
  \cup [tag : {"BlockClose"}, block_idx : W32, name : Slices, len : W32,
        kind : BlockKinds]

\* postcard::to_slice(&req, ..): two discriminants, then the fields in order.
ReqLen(r) ==
  2 + CASE r.tag \in {"Reset", "StoreInfo"} -> 0
        [] r.tag = "SetBootBlock" -> IntLen(r.block, 4)
        [] r.tag = "SerialOpenPort" -> IntLen(r.port, 2)
        [] r.tag = "SerialReceive" -> IntLen(r.port, 2) + SliceLen(r.dest_buf)
        [] r.tag = "SerialSend" -> IntLen(r.port, 2) + SliceLen(r.src_buf)
        [] r.tag = "SleepMicros" -> IntLen(r.us, 4)
        [] r.tag = "BlockInfo" -> IntLen(r.block_idx, 4) + SliceLen(r.name_buf)
        [] r.tag = "BlockOpen" -> IntLen(r.block_idx, 4)
        [] r.tag = "BlockRead" ->
             IntLen(r.block_idx, 4) + IntLen(r.offset, 4) + SliceLen(r.dest_buf)
        [] r.tag = "BlockWrite" ->
             IntLen(r.block_idx, 4) + IntLen(r.offset, 4) + SliceLen(r.src_buf)
        [] r.tag = "BlockClose" ->
             IntLen(r.block_idx, 4) + SliceLen(r.name) + IntLen(r.len, 4) + 1

(***************************************************************************)
(* SysCallSuccess: every variant of SystemSuccess, SerialSuccess,          *)
(* TimeSuccess and BlockSuccess (with the StoreInfo and BlockInfo structs).*)
(***************************************************************************)
Responses ==
  [tag : {"BootBlockSet"}] \cup [tag : {"PortOpened"}]
  \cup [tag : {"DataReceived"}, dest_buf : Slices]
  \cup [tag : {"DataSent"}, remainder : Opts]
  \cup [tag : {"SleptMicros"}, us : W32]
  \cup [tag : {"StoreInfo"}, blocks : W32, capacity : W32]
  \cup [tag : {"BlockInfo"}, length : W32, capacity : W32, kind : BlockKinds,
        status : BlockStatuses, name : Opts]
  \cup [tag : {"BlockOpened", "BlockWritten", "BlockClosed"}]
  \cup [tag : {"BlockRead"}, dest_buf : Slices]

\* The length of a response the kernel serialises into out_buf.
RespLen(r) ==
  2 + CASE r.tag \in {"BootBlockSet", "PortOpened", "BlockOpened",
                      "BlockWritten", "BlockClosed"} -> 0
        [] r.tag \in {"DataReceived", "BlockRead"} -> SliceLen(r.dest_buf)
        [] r.tag = "DataSent" -> OptLen(r.remainder)
        [] r.tag = "SleptMicros" -> IntLen(r.us, 4)
        [] r.tag = "StoreInfo" -> IntLen(r.blocks, 4) + IntLen(r.capacity, 4)
        [] r.tag = "BlockInfo" ->
             IntLen(r.length, 4) + IntLen(r.capacity, 4) + 1 + 1 + OptLen(r.name)

=============================================================================
