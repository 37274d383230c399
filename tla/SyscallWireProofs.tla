-------------------------- MODULE SyscallWireProofs --------------------------
(***************************************************************************)
(* Bounds on the encoded length of every syscall wire value, for every     *)
(* u16 and u32 a caller can pass and for both integer encodings of         *)
(* postcard: no request and no response is longer than the 128 bytes of   *)
(* try_syscall's inp_buf and out_buf.                                      *)
(***************************************************************************)
EXTENDS SyscallWire, TLAPS

USE WireAssumption

\* Every field value is a natural number.
LEMMA FieldsNat == W16 \subseteq Nat /\ W32 \subseteq Nat
  BY DEF IsU16, IsU32

\* An integer field takes one to five bytes, whatever the encoding.
LEMMA IntLenBound ==
  ASSUME NEW v \in Nat, NEW width \in {2, 4}
  PROVE  IntLen(v, width) \in 1..5
  BY DEF IntLen, VarintLen

\* A slice takes two to ten bytes.
LEMMA SliceLenBound ==
  ASSUME NEW s \in Slices
  PROVE  SliceLen(s) \in 2..10
<1>1. s.ptr \in Nat /\ s.len \in Nat
  BY FieldsNat DEF Slices
<1>2. IntLen(s.ptr, 4) \in 1..5 /\ IntLen(s.len, 4) \in 1..5
  BY <1>1, IntLenBound
<1>3. QED
  BY <1>2 DEF SliceLen

\* An optional slice takes one to eleven bytes.
LEMMA OptLenBound ==
  ASSUME NEW o \in Opts
  PROVE  OptLen(o) \in 1..11
<1>1. CASE o.some
  <2>0. o # [some |-> FALSE]
    BY <1>1
  <2>1. o.val \in Slices
    BY <2>0, Zenon DEF Opts
  <2>2. QED
    BY <1>1, <2>1, SliceLenBound DEF OptLen
<1>2. CASE ~o.some
  BY <1>2 DEF OptLen
<1>3. QED
  BY <1>1, <1>2 DEF Opts

(***************************************************************************)
(* Every SysCallRequest try_syscall can be asked to send encodes to at     *)
(* most 23 bytes, well within the 128-byte inp_buf: postcard::to_slice    *)
(* never fails for lack of room (spec 2 makes the 128-byte bound an        *)
(* invariant of the codec).                                                *)
(***************************************************************************)
THEOREM RequestsFit == \A r \in Requests : ReqLen(r) \in 2..23
<1> SUFFICES ASSUME NEW r \in Requests PROVE ReqLen(r) \in 2..23
  OBVIOUS
<1>0. W16 \subseteq Nat /\ W32 \subseteq Nat
  BY FieldsNat
<1>1. CASE r \in [tag : {"SetBootBlock"}, block : W32] \cup [tag : {"Reset"}]
           \cup [tag : {"StoreInfo"}] \cup [tag : {"SleepMicros"}, us : W32]
           \cup [tag : {"BlockOpen"}, block_idx : W32]
  BY <1>0, <1>1, IntLenBound DEF ReqLen
<1>2. CASE r \in [tag : {"SerialOpenPort"}, port : W16]
  BY <1>0, <1>2, IntLenBound DEF ReqLen
<1>3. CASE r \in [tag : {"SerialReceive"}, port : W16, dest_buf : Slices]
  BY <1>0, <1>3, IntLenBound, SliceLenBound DEF ReqLen
<1>4. CASE r \in [tag : {"SerialSend"}, port : W16, src_buf : Slices]
  BY <1>0, <1>4, IntLenBound, SliceLenBound DEF ReqLen
<1>5. CASE r \in [tag : {"BlockInfo"}, block_idx : W32, name_buf : Slices]
  BY <1>0, <1>5, IntLenBound, SliceLenBound DEF ReqLen
<1>6. CASE r \in [tag : {"BlockRead"}, block_idx : W32, offset : W32,
                  dest_buf : Slices]
  BY <1>0, <1>6, IntLenBound, SliceLenBound DEF ReqLen
<1>7. CASE r \in [tag : {"BlockWrite"}, block_idx : W32, offset : W32,
                  src_buf : Slices]
  BY <1>0, <1>7, IntLenBound, SliceLenBound DEF ReqLen
<1>8. CASE r \in [tag : {"BlockClose"}, block_idx : W32, name : Slices,
                  len : W32, kind : BlockKinds]
  BY <1>0, <1>8, IntLenBound, SliceLenBound DEF ReqLen
<1>9. QED
  BY <1>1, <1>2, <1>3, <1>4, <1>5, <1>6, <1>7, <1>8 DEF Requests

(***************************************************************************)
(* Every SysCallSuccess the kernel can answer with encodes to at most 25   *)
(* bytes, so it fits the 128-byte out_buf whose length raw_syscall         *)
(* publishes in SYSCALL_OUT_LEN.                                           *)
(***************************************************************************)
THEOREM ResponsesFit == \A r \in Responses : RespLen(r) \in 2..25
<1> SUFFICES ASSUME NEW r \in Responses PROVE RespLen(r) \in 2..25
  OBVIOUS
<1>0. W32 \subseteq Nat
  BY FieldsNat
<1>1. CASE r \in [tag : {"BootBlockSet"}] \cup [tag : {"PortOpened"}]
           \cup [tag : {"BlockOpened", "BlockWritten", "BlockClosed"}]
  BY <1>1 DEF RespLen
<1>2. CASE r \in [tag : {"DataReceived"}, dest_buf : Slices]
           \cup [tag : {"BlockRead"}, dest_buf : Slices]
  BY <1>2, SliceLenBound DEF RespLen
<1>3. CASE r \in [tag : {"DataSent"}, remainder : Opts]
  BY <1>3, OptLenBound DEF RespLen
<1>4. CASE r \in [tag : {"SleptMicros"}, us : W32]
  BY <1>0, <1>4, IntLenBound DEF RespLen
<1>5. CASE r \in [tag : {"StoreInfo"}, blocks : W32, capacity : W32]
  BY <1>0, <1>5, IntLenBound DEF RespLen
<1>6. CASE r \in [tag : {"BlockInfo"}, length : W32, capacity : W32,
                  kind : BlockKinds, status : BlockStatuses, name : Opts]
  BY <1>0, <1>6, IntLenBound, OptLenBound DEF RespLen
<1>7. QED
  BY <1>1, <1>2, <1>3, <1>4, <1>5, <1>6 DEF Responses

=============================================================================
